------------------------- MODULE RepositoryWindows -------------------------
(***************************************************************************)
(* repositorywindows.cpp, repositoryfactory.cpp and                        *)
(* recentrepositoriespanel.cpp: instances of the program over one settings *)
(* store.  Each has its windows, its registry of repository objects and a  *)
(* panel listing the recent repositories.  An operation on the list reads  *)
(* it, then writes the next one and shows it in its own instance's panel;  *)
(* nothing else of that instance runs in between, other instances do.      *)
(*                                                                         *)
(* Version control kinds, messages, the panel's cursor and the history     *)
(* windows of single files are left out.  One panel stands for those of an *)
(* instance's windows.  A window is the repository object it holds: no two *)
(* of a kind hold the same.                                                *)
(***************************************************************************)
EXTENDS RecentRepositories, Functions

CONSTANTS Instances, Canonical, Filters, Matches, CurrentRoot, InitialLists, Founds,
          Removable, MaxActs

ASSUME AppAssumption ==
    /\ Canonical \in [Roots -> Roots]
    /\ \A list \in InitialLists \cup Founds : list \in Seq(Entry)

VARIABLES stored,     \* the list in the settings store
          onDisk,     \* directories and links that exist
          now,        \* the clock: openings so far
          doing,      \* per instance: the list operation read but not written, or NoChange
          windows,    \* per instance: the objects of its commit windows
          histories,  \* per instance: the objects of its history windows
          borrowed,   \* per instance: <<o, x>>, a dialog or a push of the window on o holds the submodule's x
          registry,   \* per instance: object -> root, the objects numbered as sharedRepository() made them
          welcome,    \* per instance: the welcome window is up
          modal,      \* per instance: the menu or question that is up
          scanning,   \* per instance: the scan in flight, or NoScan
          panel,      \* per instance: rows, their unfolding, what is remembered of it, the filter
          chosen,     \* history: per instance, root -> the unfolding the user left it in
          menuUsed,   \* history: the menu's show or hide was used, per instance
          cutOff,     \* history: per instance, live objects whose root has led nowhere since they were made
          acts        \* bound

listVars == <<stored, onDisk, now, doing>>
windowVars == <<windows, histories, borrowed, registry, cutOff, welcome>>
panelVars == <<panel, chosen, menuUsed>>
appVars == <<listVars, windowVars, modal, scanning, panelVars, acts>>

Acted == acts < MaxActs /\ acts' = acts + 1

NoChange == [op |-> "none"]
NoModal == [kind |-> "none"]
NoScan == [found |-> <<>>]
Welcome == 0 \* beside the objects, a scan's starter
Idle(i) == doing[i] = NoChange
IsUp(i) == welcome[i] \/ windows[i] \cup histories[i] # {}
MayAct(i) == Idle(i) /\ IsUp(i) /\ modal[i] = NoModal
-----------------------------------------------------------------------------
(* The panel.  Matches[f] are the roots whose path contains the filter; the *)
(* empty filter matches all.                                                *)
NoFilter == ""
matches(f, root) == f = NoFilter \/ root \in Matches[f]
matchIsInside(f, entry) ==
    ~matches(f, entry.root) /\ \E r \in submoduleRoots(entry) : matches(f, r)
isHidden(f, entry) == ~matches(f, entry.root) /\ ~matchIsInside(f, entry)

applyFilter(p) ==
    [p EXCEPT !.expanded =
        {p.rows[k].root : k \in {n \in DOMAIN p.rows :
                                    matchIsInside(p.filter, p.rows[n]) \/ p.rows[n].root \in p.remembered}}]

(* What a filter unfolded is taken for the user's choice. *)
rememberExpansionAlways(p) == [p EXCEPT !.remembered = p.expanded]

rememberExpansion(p) ==
    IF p.filter # NoFilter THEN p ELSE [p EXCEPT !.remembered = p.expanded]

rebuild(p, list) == applyFilter([rememberExpansion(p) EXCEPT !.rows = list])

initialPanel(list) ==
    LET built == [rows |-> list, expanded |-> {}, remembered |-> {}, filter |-> NoFilter]
    IN  [built EXCEPT !.expanded =
            {list[k].root : k \in {n \in DOMAIN list : CurrentRoot \in submoduleRoots(list[n])}}]

choosing(choice, root, unfolded) ==
    [r \in DOMAIN choice \cup {root} |-> IF r = root THEN unfolded ELSE choice[r]]

(* A choice stands for as long as its repository stays listed. *)
StillListed(choice, list) == Restrict(choice, DOMAIN choice \cap rootsOf(list))
-----------------------------------------------------------------------------
held(i) == windows[i] \cup histories[i] \cup {pair[2] : pair \in borrowed[i]}

adding(f, x, value) == [y \in DOMAIN f \cup {x} |-> IF y \in DOMAIN f THEN f[y] ELSE value]

firstOrNew(reg, found) ==
    IF found # {} THEN Min(found) ELSE IF DOMAIN reg = {} THEN 1 ELSE Max(DOMAIN reg) + 1

(* Matched as the recent list's scans are. *)
sharedRepositoryBySpelling(reg, root) == firstOrNew(reg, {o \in DOMAIN reg : reg[o] = root})

(* sharedRepository: the live object of the directory, or a new one. *)
sharedRepository(reg, root) ==
    firstOrNew(reg, {o \in DOMAIN reg : sameDirectoryOnDisk(reg[o], root, onDisk)})

(* A weak pointer expires when nothing holds its object. *)
expired(reg, live) == Restrict(reg, DOMAIN reg \cap live)

windowOn(i, root) == {o \in windows[i] : sameDirectoryOnDisk(registry[i][o], root, onDisk)}

historyOn(i, root) == {o \in histories[i] : sameDirectoryOnDisk(registry[i][o], root, onDisk)}

(* The roots a window on the object composes for its submodules. *)
nestedRoots(i, o) == {SubmoduleRoot[<<registry[i][o], path>>] : path \in Nested(registry[i][o])}
(* History: an object is cut off once its root leads nowhere, for good. *)
CutsOff ==
    cutOff' = [i \in Instances |->
        {o \in DOMAIN registry'[i] : o \in cutOff[i] \/ ~resolves(registry'[i][o], onDisk')}]

(* Those nothing holds any more go. *)
Expires(i) == registry' = [registry EXCEPT ![i] = expired(@, held(i)')] /\ CutsOff
-----------------------------------------------------------------------------
Begins(i, change) == doing' = [doing EXCEPT ![i] = change]

(* findRepository() succeeded; the tool names the root canonically. *)
openRepositoryWindowAt(i, r) ==
    /\ MayAct(i) /\ Acted
    /\ resolves(r, onDisk)
    /\ Begins(i, [op |-> "open", seen |-> stored, root |-> Canonical[r]])
    /\ UNCHANGED <<stored, onDisk, now, windowVars, modal, scanning, panelVars>>

(* The row of a submodule in a commit window: its root as composed. *)
openNestedRepositoryWindow(i, r) ==
    /\ MayAct(i) /\ Acted
    /\ \E o \in windows[i] : r \in nestedRoots(i, o)
    /\ Begins(i, [op |-> "open", seen |-> stored, root |-> r])
    /\ UNCHANGED <<stored, onDisk, now, windowVars, modal, scanning, panelVars>>

(* A row of a repository that is gone: kept unless the user says so. *)
openRecentRepository(i, r) ==
    /\ MayAct(i) /\ Acted
    /\ r \in rootsOf(panel[i].rows) /\ ~resolves(r, onDisk)
    /\ modal' = [modal EXCEPT ![i] = [kind |-> "gone", root |-> r]]
    /\ UNCHANGED <<listVars, windowVars, scanning, panelVars>>

showContextMenu(i, r) ==
    /\ MayAct(i) /\ Acted
    /\ \E k \in DOMAIN panel[i].rows :
          /\ panel[i].rows[k].root = r /\ ~isHidden(panel[i].filter, panel[i].rows[k])
          /\ modal' = [modal EXCEPT ![i] =
                [kind |-> "menu", root |-> r, expanded |-> r \in panel[i].expanded,
                 submodules |-> panel[i].rows[k].submodules # {}]]
    /\ UNCHANGED <<listVars, windowVars, scanning, panelVars>>

AskClear(i) ==
    /\ MayAct(i) /\ Acted
    /\ modal' = [modal EXCEPT ![i] = [kind |-> "clear"]]
    /\ UNCHANGED <<listVars, windowVars, scanning, panelVars>>

(* Keep, dismiss or cancel. *)
Dismiss(i) ==
    /\ Idle(i) /\ modal[i] # NoModal
    /\ modal' = [modal EXCEPT ![i] = NoModal]
    /\ UNCHANGED <<listVars, windowVars, scanning, panelVars, acts>>

(* "Remove from list", in the question or in the menu. *)
RemoveFromList(i) ==
    /\ Idle(i) /\ modal[i].kind \in {"gone", "menu"}
    /\ modal' = [modal EXCEPT ![i] = NoModal]
    /\ Begins(i, [op |-> "forget", seen |-> stored, root |-> modal[i].root])
    /\ UNCHANGED <<stored, onDisk, now, windowVars, scanning, panelVars, acts>>

clearRecentRepositories(i) ==
    /\ Idle(i) /\ modal[i].kind = "clear"
    /\ modal' = [modal EXCEPT ![i] = NoModal]
    /\ Begins(i, [op |-> "forgetAll", seen |-> stored])
    /\ UNCHANGED <<stored, onDisk, now, windowVars, scanning, panelVars, acts>>

(* The menu acts on the root: a rebuild under it has replaced the rows. *)
setRepositoryExpanded(i) ==
    /\ Idle(i) /\ modal[i].kind = "menu" /\ modal[i].submodules
    /\ LET p == [panel[i] EXCEPT !.remembered =
                    IF modal[i].expanded THEN @ \ {modal[i].root} ELSE @ \cup {modal[i].root}]
       IN  panel' = [panel EXCEPT ![i] = applyFilter(p)]
    /\ chosen' = [chosen EXCEPT ![i] = 
          StillListed(choosing(@, modal[i].root, ~modal[i].expanded), panel[i].rows)]
    /\ menuUsed' = [menuUsed EXCEPT ![i] = TRUE]
    /\ modal' = [modal EXCEPT ![i] = NoModal]
    /\ UNCHANGED <<listVars, windowVars, scanning, acts>>

(* The arrow beside a row with submodules.  Under a filter it is no choice. *)
ToggleRow(i, r) ==
    /\ MayAct(i) /\ Acted
    /\ \E k \in DOMAIN panel[i].rows :
          /\ panel[i].rows[k].root = r /\ panel[i].rows[k].submodules # {}
          /\ ~isHidden(panel[i].filter, panel[i].rows[k])
    /\ LET flip(S) == IF r \in panel[i].expanded THEN S \ {r} ELSE S \cup {r}
       IN  /\ panel' = [panel EXCEPT ![i].expanded = flip(@)]
           /\ chosen' = IF panel[i].filter = NoFilter THEN [chosen EXCEPT ![i] = choosing(@, r, r \notin panel[i].expanded)]
                        ELSE chosen
    /\ UNCHANGED <<listVars, windowVars, modal, scanning, menuUsed>>

setFilter(i, f) ==
    /\ MayAct(i) /\ Acted
    /\ f # panel[i].filter
    /\ panel' = [panel EXCEPT ![i] = applyFilter([rememberExpansion(@) EXCEPT !.filter = f])]
    /\ UNCHANGED <<listVars, windowVars, modal, scanning, chosen, menuUsed>>

(* The submodule queries of a scan are in flight; the window stays usable. *)
scanFolderForRepositories(i) ==
    /\ MayAct(i) /\ Acted
    /\ scanning[i] = NoScan
    /\ \E found \in Founds, by \in windows[i] \cup (IF welcome[i] THEN {Welcome} ELSE {}) :
          /\ \A k \in DOMAIN found : found[k].lastUsed <= now
          /\ scanning' = [scanning EXCEPT ![i] = [found |-> found, by |-> by]]
    /\ UNCHANGED <<listVars, windowVars, modal, panelVars>>

ScanAnswers(i) ==
    /\ Idle(i) /\ scanning[i] # NoScan
    /\ scanning' = [scanning EXCEPT ![i] = NoScan]
    /\ Begins(i, [op |-> "found", seen |-> stored, found |-> scanning[i].found])
    /\ UNCHANGED <<stored, onDisk, now, windowVars, modal, panelVars, acts>>

(* The answers go with the window the scan was started from. *)
ScanLoses(i, closed) ==
    scanning' = IF scanning[i] # NoScan /\ scanning[i].by = closed
                THEN [scanning EXCEPT ![i] = NoScan] ELSE scanning

(* CommitWindow::onRefreshed: the only place the list learns submodules. *)
Refreshed(i, r) ==
    /\ Idle(i) /\ Acted
    /\ \E o \in windows[i] : registry[i][o] = r
    /\ \E submodules \in SUBSET Nested(r) :
          Begins(i, [op |-> "submodules", seen |-> stored, root |-> r, submodules |-> submodules])
    /\ UNCHANGED <<stored, onDisk, now, windowVars, modal, scanning, panelVars>>
-----------------------------------------------------------------------------
NextList(change) ==
    CASE change.op = "open" -> recordOpen(change.seen, change.root, now + 1, onDisk)
      [] change.op = "found" -> recordFound(change.seen, change.found, onDisk)
      [] change.op = "submodules" -> setSubmodules(change.seen, change.root, change.submodules)
      [] change.op = "forget" -> forget(change.seen, change.root)
      [] change.op = "forgetAll" -> <<>>

(* Opening writes always, the others where they change what they read. *)
Writes(change) == change.op \in {"open", "forgetAll"} \/ NextList(change) # change.seen

(* The window of the directory comes to the front, or a new one shows;     *)
(* then the welcome window closes.                                         *)
openRepositoryWindow(i, root) ==
    IF windowOn(i, root) # {}
    THEN UNCHANGED <<windows, registry>>
    ELSE LET object == sharedRepository(registry[i], root)
         IN  /\ windows' = [windows EXCEPT ![i] = @ \cup {object}]
             /\ registry' = [registry EXCEPT ![i] = adding(@, object, root)]

save(i) ==
    /\ ~Idle(i)
    /\ doing' = [doing EXCEPT ![i] = NoChange]
    /\ IF Writes(doing[i])
       THEN /\ stored' = NextList(doing[i])
            /\ panel' = [panel EXCEPT ![i] = rebuild(@, stored')]
            /\ chosen' = [chosen EXCEPT ![i] = StillListed(@, stored')]
       ELSE UNCHANGED <<stored, panel, chosen>>
    /\ IF doing[i].op = "open"
       THEN /\ now' = now + 1
            /\ openRepositoryWindow(i, doing[i].root)
            /\ welcome' = [welcome EXCEPT ![i] = FALSE]
            /\ ScanLoses(i, Welcome)
       ELSE UNCHANGED <<now, windows, registry, welcome, scanning>>
    /\ UNCHANGED <<onDisk, histories, borrowed, modal, menuUsed, acts>>
    /\ CutsOff

(* One window for the whole history of a repository: of a commit window's, *)
(* of a submodule by the root either kind of window composes, or of one    *)
(* listed in the panel, which the tool names.                              *)
showRepositoryHistory(i, root) ==
    /\ MayAct(i) /\ Acted
    /\ \/ \E o \in windows[i] : root = registry[i][o]
       \/ \E o \in windows[i] \cup histories[i] : root \in nestedRoots(i, o)
       \/ \E k \in DOMAIN panel[i].rows, r \in Roots :
             /\ r \in submoduleRoots(panel[i].rows[k]) /\ root = Canonical[r]
             /\ resolves(r, onDisk) /\ sameDirectoryOnDisk(root, r, onDisk)
    /\ historyOn(i, root) = {}
    /\ LET object == sharedRepository(registry[i], root)
       IN  /\ histories' = [histories EXCEPT ![i] = @ \cup {object}]
           /\ registry' = [registry EXCEPT ![i] = adding(@, object, root)]
    /\ UNCHANGED <<listVars, windows, borrowed, welcome, modal, scanning, panelVars>>
    /\ CutsOff

(* A push locks the submodules it pushes, the incoming dialog asks them.  *)
BorrowSubmodule(i, root) ==
    /\ MayAct(i) /\ Acted
    /\ \E o \in windows[i] \cup histories[i] :
          /\ root \in nestedRoots(i, o)
          /\ borrowed' = [borrowed EXCEPT ![i] = @ \cup {<<o, sharedRepository(registry[i], root)>>}]
    /\ registry' = [registry EXCEPT ![i] = adding(@, sharedRepository(@, root), root)]
    /\ UNCHANGED <<listVars, windows, histories, welcome, modal, scanning, panelVars>>
    /\ CutsOff

(* The push ends, or the dialog closes. *)
ReturnSubmodule(i) ==
    /\ Idle(i)
    /\ \E pair \in borrowed[i] : borrowed' = [borrowed EXCEPT ![i] = @ \ {pair}]
    /\ UNCHANGED <<listVars, windows, histories, welcome, modal, scanning, panelVars, acts>>
    /\ Expires(i)

showWelcomeWindow(i) ==
    /\ MayAct(i) /\ Acted /\ ~welcome[i]
    /\ welcome' = [welcome EXCEPT ![i] = TRUE]
    /\ UNCHANGED <<listVars, windows, histories, borrowed, registry, cutOff, modal, scanning, panelVars>>

(* What was borrowed for the window goes with it, and its scan's answers. *)
CloseCommitWindow(i) ==
    /\ MayAct(i) /\ Acted
    /\ \E o \in windows[i] :
          /\ windows' = [windows EXCEPT ![i] = @ \ {o}]
          /\ borrowed' = [borrowed EXCEPT ![i] = {pair \in @ : pair[1] # o \/ o \in histories[i]}]
          /\ ScanLoses(i, o)
    /\ UNCHANGED <<listVars, histories, welcome, modal, panelVars>>
    /\ Expires(i)

CloseHistoryWindow(i) ==
    /\ MayAct(i) /\ Acted
    /\ \E o \in histories[i] :
          /\ histories' = [histories EXCEPT ![i] = @ \ {o}]
          /\ borrowed' = [borrowed EXCEPT ![i] = {pair \in @ : pair[1] # o \/ o \in windows[i]}]
    /\ UNCHANGED <<listVars, windows, welcome, modal, scanning, panelVars>>
    /\ Expires(i)

(* A drive unplugged or plugged in, a link or a repository deleted or made. *)
DiskChanges(d) ==
    /\ Acted
    /\ onDisk' = IF d \in onDisk THEN onDisk \ {d} ELSE onDisk \cup {d}
    /\ UNCHANGED <<stored, now, doing, windows, histories, borrowed, registry, welcome, modal, scanning, panelVars>>
    /\ CutsOff
-----------------------------------------------------------------------------
AppInit ==
    /\ stored \in InitialLists
    /\ onDisk = UNION Range(PassesThrough)
    /\ now = Len(stored)
    /\ doing = [i \in Instances |-> NoChange]
    /\ windows = [i \in Instances |-> {}] /\ histories = [i \in Instances |-> {}]
    /\ borrowed = [i \in Instances |-> {}] /\ registry = [i \in Instances |-> <<>>]
    /\ welcome = [i \in Instances |-> TRUE]
    /\ modal = [i \in Instances |-> NoModal]
    /\ scanning = [i \in Instances |-> NoScan]
    /\ panel = [i \in Instances |-> initialPanel(stored)]
    /\ chosen = [i \in Instances |->
                  [r \in rootsOf(stored) |-> r \in initialPanel(stored).expanded]]
    /\ menuUsed = [i \in Instances |-> FALSE]
    /\ cutOff = [i \in Instances |-> {}]
    /\ acts = 0

AppNext ==
    \/ \E i \in Instances :
          \/ \E r \in Roots :
                \/ openRepositoryWindowAt(i, r) \/ openNestedRepositoryWindow(i, r)
                \/ openRecentRepository(i, r) \/ showContextMenu(i, r) \/ ToggleRow(i, r)
                \/ Refreshed(i, r) \/ showRepositoryHistory(i, r) \/ BorrowSubmodule(i, r)
          \/ \E f \in Filters \cup {NoFilter} : setFilter(i, f)
          \/ AskClear(i) \/ Dismiss(i) \/ RemoveFromList(i) \/ clearRecentRepositories(i)
          \/ setRepositoryExpanded(i) \/ scanFolderForRepositories(i) \/ ScanAnswers(i)
          \/ save(i) \/ showWelcomeWindow(i)
          \/ ReturnSubmodule(i) \/ CloseCommitWindow(i) \/ CloseHistoryWindow(i)
    \/ \E d \in Removable : DiskChanges(d)

AppSpec == AppInit /\ [][AppNext]_appVars
-----------------------------------------------------------------------------
AppTypeOK ==
    /\ \A k \in DOMAIN stored : stored[k] \in Entry
    /\ onDisk \subseteq UNION Range(PassesThrough)
    /\ \A i \in Instances :
          /\ DOMAIN registry[i] = held(i) /\ Range(registry[i]) \subseteq Roots
          /\ cutOff[i] \subseteq DOMAIN registry[i]
          /\ panel[i].expanded \cup panel[i].remembered \subseteq Roots

(* recentrepositories.h: "most recently used first, capped".  The order is *)
(* the list's only record of use across openings, scans and bumps: an      *)
(* operation that moves an entry without dating it, or dates it without    *)
(* moving it, is undone by the next scan's sort.                           *)
MostRecentFirst ==
    /\ Len(stored) <= MaxRecent
    /\ \A j, k \in DOMAIN stored : j < k => stored[j].lastUsed >= stored[k].lastUsed

(* A repository leaves the list because it is the one the user removed, as *)
(* one of all that are cleared, because the list is full, or into a listed *)
(* parent that declares it; never through another operation's write.       *)
Listed(list, d) == \E k \in DOMAIN list : Directory[list[k].root] = d
OnlyAskedRemovals ==
    [][\A d \in Range(Directory) :
          Listed(stored, d) /\ ~Listed(stored', d) =>
             \/ \E i \in Instances : doing[i].op = "forgetAll" /\ stored' = <<>>
             \/ \E i \in Instances : doing[i].op = "forget" /\ Directory[doing[i].root] = d
             \/ Len(stored') = MaxRecent
             \/ \E k \in DOMAIN stored', r \in Roots :
                   Directory[r] = d /\ r \in submoduleRoots(stored'[k])]_appVars

(* "Only top-level repositories are listed": a root a live listed parent   *)
(* declares does not join the list, whether opened, scanned or respelled.  *)
SubmodulesStayInside ==
    [][\A r \in rootsOf(stored') \ rootsOf(stored) :
          \A k \in DOMAIN stored : ~claimsSubmoduleAt(stored[k], r, onDisk)]_appVars

(* Both: no step takes an entry nobody asked to remove from the stored     *)
(* list, or adds a submodule's root of its own to it.                      *)
ListKeepsItsEntries == OnlyAskedRemovals /\ SubmodulesStayInside

(* repositories.md: "One repository on disk is also one Repository object", *)
(* so that its windows share one write lock, by whichever root they came.   *)
OneRepositoryPerDirectory ==
    \A i \in Instances : \A o, p \in held(i) :
        Directory[registry[i][o]] = Directory[registry[i][p]] => o = p

(* The same of the objects whose roots have led to their directory ever     *)
(* since: a root that leads nowhere for a while can leave its directory     *)
(* with a second object, one that does not cannot, whatever windows, pushes *)
(* and dialogs come, go and come again by the directory's other roots.      *)
OneRepositoryWhileReached ==
    \A i \in Instances : \A o, p \in held(i) \ cutOff[i] :
        Directory[registry[i][o]] = Directory[registry[i][p]] => o = p

ShowsTheChoice(i) ==
    panel[i].filter = NoFilter =>
        \A r \in DOMAIN chosen[i] : chosen[i][r] <=> r \in panel[i].expanded

(* recentrepositoriespanel.h: an empty filter "restores the expansion the  *)
(* user left", through filters and rebuilds in any order.                  *)
ExpansionIsTheUsers == \A i \in Instances : ShowsTheChoice(i)

(* The same of a panel whose menu has not been used to show or hide. *)
ExpansionSurvives == \A i \in Instances : menuUsed[i] \/ ShowsTheChoice(i)
=============================================================================
