--------------------------- MODULE HistoryListing ---------------------------
(***************************************************************************)
(* The commit list of historywindow.cpp over CommitLogModel of             *)
(* historymodels.cpp: the walk and its deepening, the fingerprint that     *)
(* decides on a reload, the branch selector, the text search, and the row  *)
(* the view is on - the reader's, the one a reload replaced, or the one a  *)
(* reveal asked for.                                                       *)
(*                                                                         *)
(* The repository's history is its version; walkAt(version, scope) is what   *)
(* the tool lists, NoWalk where the scope names a branch that is gone.  A  *)
(* query reads some version between its start and its answer.  The content *)
(* search, a reload with another query, and the marks are left out.        *)
(***************************************************************************)
EXTENDS Integers, Sequences, SequencesExt

CONSTANTS Scopes,       \* "CheckedOut", "EveryRef" and a branch
          Shas, Walk, NoWalk,
          RevealTargets, \* the commits a submodule row may name
          Matched,      \* [versions -> SUBSET Shas]: what the search text matches, refs included
          MaxVersion, InitialCommitBatch, HistoryMaxCommits,
          MaxEvents, MaxFailures

None == "none"

ASSUME HistoryAssumption ==
    /\ {"CheckedOut", "EveryRef"} \subseteq Scopes
    /\ MaxVersion \in Nat /\ InitialCommitBatch \in Nat /\ HistoryMaxCommits \in Nat
    /\ \A v \in 0..MaxVersion, scope \in Scopes : Walk[<<v, scope>>] \in Seq(Shas) \cup {NoWalk}

VARIABLES version,     \* of the repository's history
          reported,    \* the change watch has reported every version
          w,           \* the window
          events, failures,
          \* history variables
          place,       \* the commit the reader put the view on, None where the program did
          walks,       \* walks started for the reveal under way
          gap,         \* a change landed while a listing was being read
          raced,       \* Load more has cancelled a reload
          failed       \* a walk has failed since the last listing
listingVars == <<version, reported, w, events, failures, place, walks, gap, raced, failed>>

Counted == events < MaxEvents /\ events' = events + 1

NoQuery == [kind |-> None]
NoAnswer == -1
walkAt(v, scope) == Walk[<<v, scope>>]
Versions == 0..MaxVersion
-----------------------------------------------------------------------------
(* CommitLogModel.  A row keeps the version its refs were read at, which    *)
(* the search reads too.                                                    *)
matchesSearch(row) == row.sha \in Matched[row.read]
matching(rows) == FlattenSeq([k \in DOMAIN rows |-> IF matchesSearch(rows[k]) THEN <<rows[k]>> ELSE <<>>])
visible(x) == IF x.search THEN matching(x.rows) ELSE x.rows
shasOf(rows) == [k \in DOMAIN rows |-> rows[k].sha]
shownShas(x) == Range(shasOf(visible(x)))

(* A reset drops the selection. *)
setCommits(x, rows) == [x EXCEPT !.rows = rows, !.selected = None, !.reset = ~@]

(* The prefix's refs are taken for the ones that were matched. *)
canExtendUnsearched(x, rows) == IsPrefix(shasOf(x.rows), shasOf(rows))

(* Whether the longer walk's rows can follow the ones shown in place. *)
canExtend(x, rows) ==
    /\ IsPrefix(shasOf(x.rows), shasOf(rows))
    /\ x.search =>
        shasOf(matching(SubSeq(rows, 1, Len(x.rows)))) = shasOf(visible(x))
-----------------------------------------------------------------------------
(* The window's steps as functions of its state x, at version v.            *)
asked(v) == [kind |-> "asked", since |-> v]

reload(x, v) ==
    [x EXCEPT !.reselect = x.selected,
              !.branchTips = asked(v), !.listedQuery = asked(v),
              !.loaded = FALSE, !.fullLoadPending = FALSE, !.missed = None,
              !.logQuery = [kind |-> "listing", since |-> v, scope |-> x.scope,
                            limit |-> IF x.rows = <<>> /\ InitialCommitBatch < x.maxCommits
                                      THEN InitialCommitBatch ELSE x.maxCommits]]

setScope(x, scope, v) == reload([x EXCEPT !.scope = scope], v)

loadRemainingCommits(x, v) ==
    [x EXCEPT !.logQuery = [kind |-> "deeper", since |-> v, scope |-> x.scope, limit |-> x.maxCommits]]

selectRow(x, sha) == [x EXCEPT !.selected = sha, !.reselect = None]

(* The row a reload replaced, or the newest where a reset left none. *)
selectPlace(x) ==
    IF x.reselect \in shownShas(x) THEN selectRow(x, x.reselect)
    ELSE IF x.selected = None /\ visible(x) # <<>> THEN selectRow(x, visible(x)[1].sha)
    ELSE [x EXCEPT !.reselect = None]

(* The widened walk, or the repeated one, forgets that it is the retry. *)
selectLoadedCommitUnspent(x, v) ==
    IF x.reveal = None THEN selectPlace(x)
    ELSE IF x.reveal \in shownShas(x) THEN [selectRow(x, x.reveal) EXCEPT !.reveal = None]
    ELSE IF x.fullLoadPending THEN x
    ELSE IF x.scope # "EveryRef" THEN setScope(x, "EveryRef", v)
    ELSE IF x.onMiss = "ReloadOnce" THEN reload([x EXCEPT !.onMiss = "Report"], v)
    ELSE selectPlace([x EXCEPT !.missed = x.reveal, !.reveal = None])

(* A reveal waits for the full depth, then widens the scope, then reloads  *)
(* once where it may, and is then reported missed.                         *)
selectLoadedCommit(x, v) ==
    LET spent == [x EXCEPT !.onMiss = "Report"]
    IN  IF x.reveal = None THEN selectPlace(x)
        ELSE IF x.reveal \in shownShas(x) THEN [selectRow(x, x.reveal) EXCEPT !.reveal = None]
        ELSE IF x.fullLoadPending THEN x
        ELSE IF x.scope # "EveryRef" THEN setScope(spent, "EveryRef", v)
        ELSE IF x.onMiss = "ReloadOnce" THEN reload(spent, v)
        ELSE selectPlace([x EXCEPT !.missed = x.reveal, !.reveal = None])

rowsRead(query, read) ==
    LET walk == walkAt(read, query.scope)
        size == IF Len(walk) < query.limit THEN Len(walk) ELSE query.limit
    IN  [k \in 1..size |-> [sha |-> walk[k], read |-> read]]

listingFailed(x) ==
    [setCommits(x, <<>>) EXCEPT !.logQuery = NoQuery, !.loadMoreEnabled = TRUE,
                                !.capped = FALSE, !.reveal = None]

listingRead(x, rows, v) ==
    LET cut == Len(rows) >= x.logQuery.limit
        pending == cut /\ x.logQuery.limit < x.maxCommits
        shown == selectLoadedCommit(
                    [setCommits(x, rows) EXCEPT
                        !.logQuery = NoQuery, !.loadMoreEnabled = TRUE, !.loaded = TRUE,
                        !.fullLoadPending = pending, !.capped = cut /\ ~pending], v)
    IN  IF shown.fullLoadPending THEN loadRemainingCommits(shown, v) ELSE shown

deeperFailed(x) ==
    [x EXCEPT !.logQuery = NoQuery, !.loadMoreEnabled = TRUE, !.fullLoadPending = FALSE, !.capped = TRUE]

deeperRead(x, rows, v) ==
    LET y == [x EXCEPT !.logQuery = NoQuery, !.loadMoreEnabled = TRUE, !.fullLoadPending = FALSE,
                       !.capped = Len(rows) >= x.logQuery.limit]
    IN  IF ~canExtend(x, rows)
        THEN selectLoadedCommit([setCommits(y, rows) EXCEPT !.reselect = x.selected], v)
        ELSE LET extended == [y EXCEPT !.rows = rows]
             IN  IF x.reveal # None THEN selectLoadedCommit(extended, v) ELSE extended

(* The queued fall back of rebuildScopeBox(). *)
fallBackToCheckout(x, v) == setScope(x, "CheckedOut", v)
-----------------------------------------------------------------------------

(* A listing none of whose reads can have met a change yet. *)
fresh(x) == x.logQuery.kind = "listing" /\ x.logQuery.since = version /\ x.listedQuery = asked(version)

Moves(x) == w' = x /\ gap' = (gap /\ ~fresh(x)) /\ UNCHANGED <<version, reported, raced>>

(* F5. *)
Reload ==
    /\ Counted
    /\ Moves(reload(w, version))
    /\ UNCHANGED <<failures, place, walks, failed>>

ChooseScope(scope) ==
    /\ Counted
    /\ scope # w.scope
    /\ Moves(setScope(w, scope, version))
    /\ walks' = 0
    /\ UNCHANGED <<failures, place, failed>>

LoadMore ==
    /\ Counted
    /\ w.capped /\ w.loadMoreEnabled
    /\ w' = loadRemainingCommits([w EXCEPT !.loadMoreEnabled = FALSE, !.missed = None,
                                           !.maxCommits = 2 * @], version)
    /\ raced' = (raced \/ w.logQuery.kind = "listing")
    /\ UNCHANGED <<version, reported, failures, place, walks, gap, failed>>

(* The debounced search lands on the first match, clearing it keeps to the *)
(* newest row.                                                             *)
ApplySearch ==
    /\ Counted
    /\ LET x == [w EXCEPT !.search = ~@, !.selected = None, !.reset = ~@]
       IN  Moves(IF visible(x) # <<>> THEN [x EXCEPT !.selected = visible(x)[1].sha] ELSE x)
    /\ place' = None
    /\ UNCHANGED <<failures, walks, failed>>

SelectCommit(sha) ==
    /\ Counted
    /\ sha \in shownShas(w) /\ sha # w.selected
    /\ Moves([w EXCEPT !.selected = sha])
    /\ place' = sha
    /\ UNCHANGED <<failures, walks, failed>>

(* A submodule row of another window, or of the file list. *)
revealCommit(sha, onMiss) ==
    /\ Counted
    /\ LET x == [w EXCEPT !.reveal = sha, !.missed = None,
                          !.onMiss = IF w.loaded THEN onMiss ELSE "Report"]
           y == IF w.loaded THEN selectLoadedCommit(x, version) ELSE x
       IN  /\ Moves(y)
           /\ walks' = IF w.loaded /\ ~y.loaded THEN 1 ELSE 0
    /\ place' = None
    /\ UNCHANGED <<failures, failed>>

(* The change watch, or the end of a push from this window. *)
reloadIfHistoryChanged ==
    /\ ~reported /\ reported' = TRUE
    /\ w' = [w EXCEPT !.checkQuery = asked(version)]
    /\ UNCHANGED <<version, events, failures, place, walks, gap, raced, failed>>

HistoryChanges ==
    /\ version < MaxVersion
    /\ version' = version + 1
    /\ reported' = FALSE
    /\ gap' = (gap \/ w.listedQuery # NoQuery)
    /\ UNCHANGED <<w, events, failures, place, walks, raced, failed>>
-----------------------------------------------------------------------------
Fails == failures < MaxFailures /\ failures' = failures + 1

(* What the reader is on after the program moved the view. *)
PlaceAfter(x) == IF place # None /\ place \notin shownShas(x) THEN None ELSE place

LogAnswers ==
    /\ w.logQuery # NoQuery
    /\ \/ \E read \in w.logQuery.since..version :
             /\ walkAt(read, w.logQuery.scope) # NoWalk
             /\ LET rows == rowsRead(w.logQuery, read)
                IN  Moves(IF w.logQuery.kind = "listing" THEN listingRead(w, rows, version)
                                                         ELSE deeperRead(w, rows, version))
             /\ failed' = FALSE /\ UNCHANGED failures
       \/ /\ \/ Fails
             \/ /\ \E read \in w.logQuery.since..version : walkAt(read, w.logQuery.scope) = NoWalk
                /\ UNCHANGED failures
          /\ Moves(IF w.logQuery.kind = "listing" THEN listingFailed(w) ELSE deeperFailed(w))
          /\ failed' = TRUE
    /\ walks' = IF w.reveal # None /\ w'.logQuery.kind = "listing" THEN walks + 1 ELSE walks
    /\ place' = IF w.reveal # None THEN None ELSE PlaceAfter(w')
    /\ UNCHANGED events

(* The handle of the answered query is kept. *)
FingerprintAnswersKept ==
    /\ w.listedQuery # NoQuery
    /\ \/ \E read \in w.listedQuery.since..version : w' = [w EXCEPT !.listedFingerprint = read]
          /\ UNCHANGED failures
       \/ Fails /\ w' = [w EXCEPT !.listedQuery = NoQuery, !.listedFingerprint = NoAnswer]
    /\ UNCHANGED <<version, reported, events, place, walks, gap, raced, failed>>

FingerprintAnswers ==
    /\ w.listedQuery # NoQuery
    /\ \/ \E read \in w.listedQuery.since..version :
             w' = [w EXCEPT !.listedQuery = NoQuery, !.listedFingerprint = read]
          /\ UNCHANGED failures
       \/ Fails /\ w' = [w EXCEPT !.listedQuery = NoQuery, !.listedFingerprint = NoAnswer]
    /\ UNCHANGED <<version, reported, events, place, walks, gap, raced, failed>>

(* An unreadable fingerprint passes for an unchanged one. *)
CheckAnswersOnlyRead ==
    /\ w.checkQuery # NoQuery
    /\ LET x == [w EXCEPT !.checkQuery = NoQuery]
       IN  \/ /\ \E read \in w.checkQuery.since..version :
                    Moves(IF read # w.listedFingerprint THEN reload(x, version) ELSE x)
              /\ UNCHANGED failures
           \/ Fails /\ Moves(x)
    /\ UNCHANGED <<events, place, walks, failed>>

(* An unreadable fingerprint reloads. *)
CheckAnswers ==
    /\ w.checkQuery # NoQuery
    /\ LET x == [w EXCEPT !.checkQuery = NoQuery]
       IN  \/ /\ \E read \in w.checkQuery.since..version :
                    Moves(IF read # w.listedFingerprint THEN reload(x, version) ELSE x)
              /\ UNCHANGED failures
           \/ Fails /\ Moves(reload(x, version))
    /\ UNCHANGED <<events, place, walks, failed>>

(* A branch the answer does not name is gone, and a failed answer names none. *)
BranchTipsAnswer ==
    /\ w.branchTips # NoQuery
    /\ LET x == [w EXCEPT !.branchTips = NoQuery]
           gone == x.scope \notin {"CheckedOut", "EveryRef"}
       IN  \/ /\ \E read \in w.branchTips.since..version :
                    w' = IF gone /\ walkAt(read, x.scope) = NoWalk
                         THEN [x EXCEPT !.fallBack = TRUE] ELSE x
              /\ UNCHANGED failures
           \/ Fails /\ w' = IF gone THEN [x EXCEPT !.fallBack = TRUE] ELSE x
    /\ UNCHANGED <<version, reported, events, place, walks, gap, raced, failed>>

(* Queued past the answer, which the reload cancels. *)
FallBack ==
    /\ w.fallBack
    /\ Moves(fallBackToCheckout([w EXCEPT !.fallBack = FALSE], version))
    /\ walks' = 0
    /\ UNCHANGED <<events, failures, place, failed>>
-----------------------------------------------------------------------------
ListingInit ==
    /\ version = 0 /\ reported = TRUE
    /\ w = [scope |-> "CheckedOut", maxCommits |-> HistoryMaxCommits, rows |-> <<>>, search |-> FALSE,
            selected |-> None, loaded |-> FALSE, fullLoadPending |-> FALSE, capped |-> FALSE,
            loadMoreEnabled |-> TRUE, reveal |-> None, reselect |-> None, onMiss |-> "Report",
            missed |-> None, reset |-> FALSE, logQuery |-> NoQuery, listedQuery |-> NoQuery, checkQuery |-> asked(0),
            branchTips |-> NoQuery, listedFingerprint |-> NoAnswer, fallBack |-> FALSE]
    /\ events = 0 /\ failures = 0
    /\ place = None /\ walks = 0
    /\ gap = FALSE /\ raced = FALSE /\ failed = FALSE

UserActs ==
    \/ Reload \/ LoadMore \/ ApplySearch
    \/ \E scope \in Scopes : ChooseScope(scope)
    \/ \E sha \in Shas : SelectCommit(sha)
    \/ \E sha \in RevealTargets, onMiss \in {"Report", "ReloadOnce"} : revealCommit(sha, onMiss)
Answers == reloadIfHistoryChanged \/ FingerprintAnswers \/ BranchTipsAnswer \/ FallBack
           \/ CheckAnswers \/ LogAnswers
ListingNext == UserActs \/ HistoryChanges \/ Answers

(* While a query runs or the watch has something to report, one of them    *)
(* answers at some time: processes end, or time out.                       *)
ListingSpec == ListingInit /\ [][ListingNext]_listingVars /\ WF_listingVars(Answers)
-----------------------------------------------------------------------------
AtRest == /\ w.logQuery = NoQuery /\ w.listedQuery = NoQuery /\ w.checkQuery = NoQuery
          /\ w.branchTips = NoQuery /\ ~w.fallBack /\ reported

ListingTypeOK ==
    /\ w.scope \in Scopes
    /\ w.selected \in shownShas(w) \cup {None}
    /\ w.reveal \in Shas \cup {None} /\ w.reselect \in Shas \cup {None}
    /\ w.fullLoadPending => w.logQuery.kind = "deeper"

(* historywindow.h: a reveal "re-runs the query at most once", whatever    *)
(* reloads and depths come between its miss and its answer, unless the     *)
(* scope is chosen anew under it.                                          *)
RevealWalksOnce == walks <= 1

(* A reveal is on its way, done or reported: none is left to move the view *)
(* at some later listing.  Two paths are excepted, each a known flaw: the  *)
(* failed deepening of a cold open, and a Load more that cancelled a       *)
(* reload, after which the listing never counts as loaded.                 *)
RevealIsDecided == AtRest /\ ~raced /\ ~failed => w.reveal = None

(* Both: a reveal is decided, and by one walk.                             *)
RevealIsDecidedOnce == RevealWalksOnce /\ RevealIsDecided

(* Rows announced as inserted below the ones shown: without a reset of the *)
(* model, what was shown stands row by row, under a search too.            *)
ShownRowsStand ==
    [][w'.reset = w.reset => IsPrefix(shasOf(visible(w)), shasOf(visible(w')))]_listingVars

(* At rest the list shows the history there is, but where a change fell    *)
(* between the two reads of one listing: the comment in reload() owns up   *)
(* to those.                                                               *)
ListingCatchesUp ==
    AtRest /\ ~gap /\ ~failed =>
        /\ walkAt(version, w.scope) # NoWalk
        /\ IsPrefix(shasOf(w.rows), walkAt(version, w.scope))
        /\ \A k \in DOMAIN w.rows : w.rows[k].read = version

(* Reloads do not feed on each other: the window comes to rest. *)
ComesToRest == <>[]AtRest

(* historywindow.h, of the row a reload returns to: "so a refresh does not *)
(* move the reader".                                                       *)
RefreshKeepsTheReader ==
    AtRest /\ place # None /\ ~failed => w.selected = place
=============================================================================
