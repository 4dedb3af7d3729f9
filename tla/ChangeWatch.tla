------------------------------ MODULE ChangeWatch ------------------------------
(***************************************************************************)
(* The change watch on one repository and the refreshes it drives          *)
(* (repositorywatcher.cpp, refreshscheduler.cpp, Repository::refresh): the *)
(* windows on the repository subscribe to it, the watcher arms on the      *)
(* thread pool the directory watches their scopes need, and each window's  *)
(* scheduler turns a reported change into a refresh while the window is    *)
(* active and nothing writes.                                              *)
(*                                                                         *)
(* A commit window subscribes to the working tree and the state            *)
(* directories, and refreshes the repository object all windows share.  A  *)
(* history window subscribes to the state directories alone and reads the  *)
(* history by itself.                                                      *)
(*                                                                         *)
(* `unseen` is the truth the watch approximates: the windows in whose      *)
(* scope something changed since the read they show began.                 *)
(*                                                                         *)
(* Abstracted: what changed is one of the places watched (noise, file      *)
(* names and exclusions are left out), a root the tree watch covers is     *)
(* the tree's, and the roots a query answers are always the same.          *)
(***************************************************************************)
EXTENDS FiniteSets, Functions, Naturals

CONSTANTS
    Windows,            \* the windows that may be on the repository
    CommitWindows,      \* those among them that list the working tree
    Tree,               \* the working tree root
    StateRoots,         \* the state directories watchedRoots() answers
    Covered,            \* those of them that lie in the tree
    NoWindow,           \* the active window is not one of this repository's
    MaxFailures,        \* bound: queries and arms failing, watches stopping
    MaxOpenings,        \* bound: windows opened
    MayBePartial        \* whether the tree may be on a volume of partial coverage

ASSUME WatchAssumption ==
    /\ IsFiniteSet(Windows) /\ CommitWindows \subseteq Windows /\ NoWindow \notin Windows
    /\ IsFiniteSet(StateRoots) /\ Tree \notin StateRoots /\ Covered \subseteq StateRoots
    /\ MaxFailures \in Nat /\ MaxOpenings \in Nat /\ MayBePartial \in BOOLEAN

VARIABLES
    sub,            \* each window's subscription: none, waiting, ready() queued, ready
    rootsKnown,     \* RepositoryWatcher::_roots has a value
    querying,       \* _rootsQueryRunning
    watches,        \* _watches: the state of the directory watch on each root watched
    arms,           \* the arms of this generation that have not answered
    armAgain,       \* _armAgain
    rearming,       \* _rearming
    rootsMissing,   \* _rootsMissing
    trusted,        \* _trusted
    lapsed,         \* history: changes were dropped unread, or the trust came back unreported
    pending,        \* the windows whose RefreshScheduler::_pending is set
    timers,         \* the windows with a settle or maximum delay running
    active,         \* the active window
    writing,        \* the window whose write or push is in flight, if any
    refreshing,     \* Repository::_refreshing
    refreshPending, \* Repository::_refreshPending
    unseen,         \* the windows whose scope changed since their read began
    failures,       \* what failed so far
    openings        \* windows opened so far

watcherVars == <<sub, rootsKnown, querying, watches, arms, armAgain, rearming, rootsMissing, trusted, lapsed>>
scheduleVars == <<pending, timers>>
refreshVars == <<refreshing, refreshPending, unseen>>
inputVars == <<active, writing>>
boundVars == <<failures, openings>>
vars == <<watcherVars, scheduleVars, refreshVars, inputVars, boundVars>>

--------------------------------------------------------------------------------
Roots == StateRoots \cup {Tree}

\* What the watch on a root reports: the tree's covers the state roots in it.
Reports(r) == IF r = Tree THEN Covered \cup {Tree} ELSE {r}

\* A change at `p` is in the scope of window `w`.
Concerns(p, w) == p \in StateRoots \/ w \in CommitWindows

\* One directory watch: the changes queued in its handle, whether it stopped
\* reporting, and whether its volume may miss some.
Watch == [unread : SUBSET Roots, stopped : BOOLEAN, partial : BOOLEAN]

Subscribed(s) == {w \in Windows : s[w] # "none"}
Ready == {w \in Windows : sub[w] = "ready"}
Busy == querying \/ arms # <<>>

\* Mutant: a state root in the tree is always left to the tree's watch.
NeededRootsNeverCovered(s, known) ==
    LET wantsTree == Subscribed(s) \cap CommitWindows # {}
    IN IF ~known THEN {}
       ELSE IF wantsTree THEN Roots \ Covered
       ELSE StateRoots \ Covered

\* neededRoots(): what the subscriptions `s` want watched.
NeededRoots(s, known) ==
    LET wantsTree == Subscribed(s) \cap CommitWindows # {}
    IN IF ~known THEN {}
       ELSE IF wantsTree THEN Roots \ Covered
       ELSE StateRoots

Missing(s, known, ws) == NeededRoots(s, known) \ DOMAIN ws

\* updateTrust()'s condition.
Trust(missing, ws) == ~missing /\ \A r \in DOMAIN ws : ~ws[r].partial

\* In the state a step leads to: the schedulers are told after the window
\* activation or the write's end they ask about.
CanRun(w) == active' = w /\ writing' = NoWindow

--------------------------------------------------------------------------------
(* The watcher.  Its steps take the subscriptions `s`, whether the roots   *)
(* are `known` and the watches `ws` as they stand when the code runs.      *)

\* markPending() for the windows in `marked`.  A closed window's scheduler
\* is gone.
MarkPending(s, marked) ==
    /\ pending' = (pending \cup marked) \cap Subscribed(s)
    /\ timers' = (timers \cup {w \in marked : CanRun(w)}) \cap Subscribed(s)

\* armNeededRoots() with roots to arm: each is handed to the thread pool.
StartArms(s, roots, ws) ==
    /\ sub' = s /\ watches' = ws
    /\ arms' = [r \in roots |-> [stage |-> "asked"]]
    /\ UNCHANGED <<rearming, rootsMissing, trusted, lapsed>>
    /\ MarkPending(s, {})

\* What is lost as an arming ends: what is unread in a watch released, and what changed in
\* a time without trust that ends unreported.
Lapse(ws, kept, trust, told) ==
    \/ \E r \in DOMAIN ws \ DOMAIN kept : ws[r].unread # {} \/ ws[r].stopped
    \/ ~trusted /\ trust /\ ~rearming /\ told # {}

\* Mutant: a watch set up again is not reported as a change.
SettleForgetsRearming(s, known, ws) ==
    LET kept == Restrict(ws, DOMAIN ws \cap NeededRoots(s, known))
        missing == ~known \/ Missing(s, known, ws) # {}
        trust == Trust(missing, kept)
        told == {w \in Windows : s[w] = "ready"}
    IN /\ watches' = kept /\ arms' = <<>>
       /\ rootsMissing' = missing /\ trusted' = trust
       /\ lapsed' = (lapsed \/ Lapse(ws, kept, trust, told))
       /\ rearming' = FALSE
       /\ sub' = [w \in Windows |-> IF s[w] = "waiting" THEN "queued" ELSE s[w]]
       /\ MarkPending(s, IF trusted /\ ~trust THEN told ELSE {})

\* finishArming() once nothing more is to be armed: releases the watches not
\* needed, with what they had not reported yet, and tells the windows.
Settle(s, known, ws) ==
    LET kept == Restrict(ws, DOMAIN ws \cap NeededRoots(s, known))
        missing == ~known \/ Missing(s, known, ws) # {}
        trust == Trust(missing, kept)
        told == {w \in Windows : s[w] = "ready"}
    IN /\ watches' = kept /\ arms' = <<>>
       /\ rootsMissing' = missing /\ trusted' = trust
       /\ lapsed' = (lapsed \/ Lapse(ws, kept, trust, told))
       /\ rearming' = FALSE
       /\ sub' = [w \in Windows |-> IF s[w] = "waiting" THEN "queued" ELSE s[w]]
       /\ MarkPending(s, IF rearming \/ (trusted /\ ~trust) THEN told ELSE {})

ArmNeededRoots(s, known, ws) ==
    LET roots == Missing(s, known, ws)
    IN \/ roots # {} /\ StartArms(s, roots, ws) /\ UNCHANGED armAgain
       \/ roots = {} /\ Settle(s, known, ws) /\ armAgain' = FALSE

FinishArming(s, known, ws) ==
    LET roots == Missing(s, known, ws)
    IN /\ armAgain' = FALSE
       /\ \/ armAgain /\ roots # {} /\ StartArms(s, roots, ws)
          \/ ~(armAgain /\ roots # {}) /\ Settle(s, known, ws)

\* Mutant: a subscription that needs no further root gets no ready().
ResubscribeToArm(s) ==
    /\ \/ /\ Busy /\ armAgain' = TRUE /\ sub' = s /\ MarkPending(s, {})
          /\ UNCHANGED <<watches, arms, rearming, rootsMissing, trusted, lapsed>>
       \/ ~Busy /\ Missing(s, rootsKnown, watches) # {} /\ ArmNeededRoots(s, rootsKnown, watches)
       \/ /\ ~Busy /\ Missing(s, rootsKnown, watches) = {} /\ sub' = s /\ MarkPending(s, {})
          /\ UNCHANGED <<watches, arms, armAgain, rearming, rootsMissing, trusted, lapsed>>
    /\ UNCHANGED <<rootsKnown, querying>>

\* The subscriptions become `s`, with another one left before and after.
Resubscribe(s) ==
    /\ \/ /\ Busy /\ armAgain' = TRUE /\ sub' = s /\ MarkPending(s, {})
          /\ UNCHANGED <<watches, arms, rearming, rootsMissing, trusted, lapsed>>
       \/ ~Busy /\ ArmNeededRoots(s, rootsKnown, watches)
    /\ UNCHANGED <<rootsKnown, querying>>

\* The windows readEvents() on the watches in `read` reports to: those a
\* queued change concerns and, where a stop loses the trust, all of them.
Stopped(read) == {r \in read : watches[r].stopped}
Reported(read) ==
    {w \in Ready : \/ \E r \in read : \E p \in watches[r].unread : Concerns(p, w)
                   \/ Stopped(read) # {} /\ trusted}

\* readEvents() on the watches in `read`, onEvents() included.
ReadEvents(read) ==
    /\ watches' = [r \in DOMAIN watches \ Stopped(read) |->
                      IF r \in read THEN [watches[r] EXCEPT !.unread = {}] ELSE watches[r]]
    /\ rootsMissing' = (rootsMissing \/ Stopped(read) # {})
    /\ trusted' = (trusted /\ Stopped(read) = {})
    /\ UNCHANGED lapsed

armingVars == <<sub, rootsKnown, arms, armAgain>>

RearmIfStopped ==
    \/ rootsMissing /\ ~Busy /\ rearming' = TRUE /\ querying' = TRUE
    \/ ~(rootsMissing /\ ~Busy) /\ UNCHANGED <<rearming, querying>>

--------------------------------------------------------------------------------
(* Refreshes, with `p` the windows pending and `t` those with a timer when *)
(* the code runs.                                                          *)

\* Repository::refresh() with none running: reads every queued change, then
\* refreshStarted() cancels the commit windows' pending refreshes.
StartRefresh(p, t) ==
    LET marked == Reported(DOMAIN watches)
    IN /\ refreshing' = TRUE
       /\ ReadEvents(DOMAIN watches)
       /\ pending' = (p \cup marked) \ CommitWindows
       /\ timers' = (t \cup {w \in marked : CanRun(w)}) \ CommitWindows
       /\ unseen' = unseen \ CommitWindows

RepositoryRefresh(p, t) ==
    \/ /\ refreshing /\ refreshPending' = TRUE
       /\ pending' = p /\ timers' = t
       /\ UNCHANGED <<refreshing, unseen, watches, rootsMissing, trusted, lapsed>>
    \/ ~refreshing /\ StartRefresh(p, t) /\ UNCHANGED refreshPending

\* RefreshScheduler::run(): a commit window refreshes the repository, a
\* history window reads its history.
Run(w, p, t) ==
    \/ w \in CommitWindows /\ RepositoryRefresh(p \ {w}, t \ {w})
    \/ /\ w \notin CommitWindows
       /\ pending' = p \ {w} /\ timers' = t \ {w} /\ unseen' = unseen \ {w}
       /\ UNCHANGED <<refreshing, refreshPending, watches, rootsMissing, trusted, lapsed>>

--------------------------------------------------------------------------------
Init ==
    /\ sub = [w \in Windows |-> "none"]
    /\ rootsKnown = FALSE /\ querying = FALSE
    /\ watches = <<>> /\ arms = <<>>
    /\ armAgain = FALSE /\ rearming = FALSE /\ rootsMissing = FALSE /\ trusted = FALSE
    /\ lapsed = FALSE
    /\ pending = {} /\ timers = {}
    /\ active = NoWindow /\ writing = NoWindow
    /\ refreshing = FALSE /\ refreshPending = FALSE /\ unseen = {}
    /\ failures = 0 /\ openings = 0

(* Windows. *)

\* A window opens and its scheduler subscribes: it shows nothing yet.
OpenWindow(w) ==
    LET opened == [sub EXCEPT ![w] = "waiting"]
    IN /\ sub[w] = "none" /\ openings < MaxOpenings
       /\ openings' = openings + 1
       /\ unseen' = unseen \cup {w}
       /\ UNCHANGED <<refreshing, refreshPending, failures, inputVars>>
       /\ \/ /\ Subscribed(sub) = {}
             /\ sub' = opened /\ querying' = TRUE
             /\ UNCHANGED <<rootsKnown, watches, arms, armAgain, rearming, rootsMissing, trusted, lapsed, scheduleVars>>
          \/ Subscribed(sub) # {} /\ Resubscribe(opened)

\* The last subscription leaving drops every watch and, by the generation,
\* every arm, and the repository object goes with the last window; another's
\* leaving arms what the others need without it.
CloseWindow(w) ==
    LET left == [sub EXCEPT ![w] = "none"]
    IN /\ sub[w] # "none" /\ writing # w
       /\ active' = IF active = w THEN NoWindow ELSE active
       /\ unseen' = unseen \ {w}
       /\ UNCHANGED <<writing, boundVars>>
       /\ \/ /\ Subscribed(left) = {}
             /\ sub' = left
             /\ querying' = FALSE /\ rootsKnown' = FALSE
             /\ watches' = <<>> /\ arms' = <<>>
             /\ armAgain' = FALSE /\ rearming' = FALSE /\ rootsMissing' = FALSE /\ trusted' = FALSE
             /\ lapsed' = FALSE
             /\ refreshing' = FALSE /\ refreshPending' = FALSE
             /\ MarkPending(left, {})
          \/ Subscribed(left) # {} /\ Resubscribe(left) /\ UNCHANGED <<refreshing, refreshPending>>

\* Deactivating a window whose watch cannot be trusted leaves its refresh
\* pending.  Activating one sets up again what stopped and runs the pending
\* refresh.
SwitchTo(w) ==
    LET untrusted == {v \in Ready : v = active /\ ~trusted}
        p == pending \cup untrusted
    IN /\ w \in Subscribed(sub) \cup {NoWindow} /\ w # active
       /\ active' = w
       /\ UNCHANGED <<writing, boundVars, armingVars>>
       /\ \/ w \in Ready /\ RearmIfStopped
          \/ w \notin Ready /\ UNCHANGED <<rearming, querying>>
       /\ \/ w \in Ready \cap p /\ CanRun(w) /\ Run(w, p, timers)
          \/ /\ ~(w \in Ready \cap p /\ CanRun(w))
             /\ pending' = p
             /\ UNCHANGED <<timers, refreshVars, watches, rootsMissing, trusted, lapsed>>

\* beginMutation() or beginPush(), by the active window.
WriteBegins ==
    /\ active # NoWindow /\ writing = NoWindow
    /\ writing' = active
    /\ UNCHANGED <<active, boundVars, watcherVars, scheduleVars, refreshVars>>

\* endMutation() or endPush(): schedule(), then the writing window refreshes
\* the repository unless the write changed nothing there.
WriteEnds ==
    /\ writing # NoWindow /\ writing' = NoWindow
    /\ UNCHANGED <<active, boundVars, armingVars, rearming, querying>>
    /\ LET t == timers \cup {w \in pending : CanRun(w)}
       IN \/ RepositoryRefresh(pending, t)
          \/ timers' = t /\ UNCHANGED <<pending, refreshVars, watches, rootsMissing, trusted, lapsed>>

\* F5 and the app's own state-changing actions.
UserRefresh ==
    /\ \E w \in CommitWindows : sub[w] # "none"
    /\ UNCHANGED <<inputVars, boundVars, armingVars, rearming, querying>>
    /\ RepositoryRefresh(pending, timers)

(* The event loop. *)

\* watchedRoots() answers, or fails.
RootsAnswered(ok) ==
    /\ querying /\ querying' = FALSE
    /\ ok \/ failures < MaxFailures
    /\ failures' = IF ok THEN failures ELSE failures + 1
    /\ rootsKnown' = ok
    /\ UNCHANGED <<openings, inputVars, refreshVars>>
    /\ ArmNeededRoots(sub, ok, watches)

\* An arm the thread pool finished answers; the last one finishes the arming.
ArmAnswered(r) ==
    LET armed == [q \in DOMAIN watches \cup {r} |-> IF q = r THEN arms[r].watch ELSE watches[q]]
        ws == IF arms[r].stage = "armed" THEN armed ELSE watches
    IN /\ arms[r].stage # "asked"
       /\ UNCHANGED <<rootsKnown, querying, refreshVars, inputVars, boundVars>>
       /\ \/ /\ DOMAIN arms # {r}
             /\ arms' = Restrict(arms, DOMAIN arms \ {r}) /\ watches' = ws
             /\ UNCHANGED <<sub, armAgain, rearming, rootsMissing, trusted, lapsed, scheduleVars>>
          \/ DOMAIN arms = {r} /\ FinishArming(sub, rootsKnown, ws)

\* The queued ready(): active or not, the window's first refresh runs.
ReadyDelivered(w) ==
    /\ sub[w] = "queued"
    /\ sub' = [sub EXCEPT ![w] = "ready"]
    /\ UNCHANGED <<inputVars, boundVars, rootsKnown, querying, arms, armAgain, rearming>>
    /\ Run(w, pending, timers)

\* A watch's notifier: the handle has something to read.
NotifierFires(r) ==
    /\ watches[r].unread # {} \/ watches[r].stopped
    /\ ReadEvents({r})
    /\ UNCHANGED <<armingVars, rearming, querying, refreshVars, inputVars, boundVars>>
    /\ MarkPending(sub, Reported({r}))

\* Either delay ends: runIfPending().  While one goes on without running
\* anything the window stays in `timers`.
TimerFires(w) ==
    /\ w \in timers
    /\ UNCHANGED <<inputVars, boundVars, armingVars, rearming, querying>>
    /\ \/ w \in pending /\ CanRun(w) /\ Run(w, pending, timers)
       \/ /\ ~(w \in pending /\ CanRun(w))
          /\ timers' = timers \ {w}
          /\ UNCHANGED <<pending, refreshVars, watches, rootsMissing, trusted, lapsed>>

\* completeRefresh(): a refresh asked for meanwhile starts.
RefreshCompletes ==
    /\ refreshing /\ refreshPending' = FALSE
    /\ UNCHANGED <<inputVars, boundVars, armingVars, rearming, querying>>
    /\ \/ refreshPending /\ StartRefresh(pending, timers)
       \/ /\ ~refreshPending /\ refreshing' = FALSE
          /\ UNCHANGED <<scheduleVars, unseen, watches, rootsMissing, trusted, lapsed>>

(* The thread pool and the file system. *)

\* directory_watcher::watch() returns: from now on the changes are queued.
ArmExecuted(r) ==
    /\ arms[r].stage = "asked"
    /\ \/ /\ \E partial \in {FALSE, MayBePartial /\ r = Tree} :
                arms' = [arms EXCEPT ![r] = [stage |-> "armed",
                            watch |-> [unread |-> {}, stopped |-> FALSE, partial |-> partial]]]
          /\ UNCHANGED failures
       \/ /\ failures < MaxFailures /\ failures' = failures + 1
          /\ arms' = [arms EXCEPT ![r] = [stage |-> "failed"]]
    /\ UNCHANGED <<sub, rootsKnown, querying, watches, armAgain, rearming, rootsMissing, trusted, lapsed,
                   scheduleVars, refreshVars, inputVars, openings>>

\* Something changes at `p`: the watches that record it queue it.  A partial
\* one may miss it.
Change(p) ==
    LET Queue(watch) == [watch EXCEPT !.unread = @ \cup {p}]
        Records(r, watch) == p \in Reports(r) /\ ~watch.stopped
    IN /\ unseen' = unseen \cup {w \in Subscribed(sub) : Concerns(p, w)}
       /\ \E missed \in {{}, {r \in DOMAIN watches : watches[r].partial}} :
            watches' = [r \in DOMAIN watches |->
                           IF Records(r, watches[r]) /\ r \notin missed THEN Queue(watches[r]) ELSE watches[r]]
       /\ arms' = [r \in DOMAIN arms |->
                      IF arms[r].stage = "armed" /\ Records(r, arms[r].watch)
                          THEN [arms[r] EXCEPT !.watch = Queue(@)] ELSE arms[r]]
       /\ UNCHANGED <<sub, rootsKnown, querying, armAgain, rearming, rootsMissing, trusted, lapsed,
                      scheduleVars, refreshing, refreshPending, inputVars, boundVars>>

\* A watch stops: the root moved or was deleted, the volume was ejected.
WatchStops(r) ==
    /\ ~watches[r].stopped /\ failures < MaxFailures
    /\ failures' = failures + 1
    /\ watches' = [watches EXCEPT ![r].stopped = TRUE]
    /\ UNCHANGED <<sub, rootsKnown, querying, arms, armAgain, rearming, rootsMissing, trusted, lapsed,
                   scheduleVars, refreshVars, inputVars, openings>>

Next ==
    \/ \E w \in Windows : OpenWindow(w) \/ CloseWindow(w) \/ ReadyDelivered(w) \/ TimerFires(w)
    \/ \E w \in Windows \cup {NoWindow} : SwitchTo(w)
    \/ WriteBegins \/ WriteEnds \/ UserRefresh \/ RefreshCompletes
    \/ \E ok \in BOOLEAN : RootsAnswered(ok)
    \/ \E r \in DOMAIN arms : ArmExecuted(r) \/ ArmAnswered(r)
    \/ \E r \in DOMAIN watches : NotifierFires(r) \/ WatchStops(r)
    \/ \E p \in Roots : Change(p)

\* The event loop delivers what is due, the thread pool finishes an arm, and
\* a process asked for the roots or the status answers.  Users, writes and
\* the file system owe nothing.
Fairness ==
    /\ \A w \in Windows : WF_vars(ReadyDelivered(w)) /\ WF_vars(TimerFires(w))
    /\ WF_vars(RefreshCompletes)
    /\ WF_vars(\E ok \in BOOLEAN : RootsAnswered(ok))
    /\ \A r \in Roots : /\ WF_vars(r \in DOMAIN arms /\ ArmExecuted(r))
                        /\ WF_vars(r \in DOMAIN arms /\ ArmAnswered(r))
                        /\ WF_vars(r \in DOMAIN watches /\ NotifierFires(r))

Spec == Init /\ [][Next]_vars /\ Fairness

--------------------------------------------------------------------------------
\* The types, and what armNeededRoots() asserts: arms only run after the
\* roots' query has answered, for roots not watched yet.
TypeOK ==
    /\ sub \in [Windows -> {"none", "waiting", "queued", "ready"}]
    /\ DOMAIN watches \subseteq Roots /\ \A r \in DOMAIN watches : watches[r] \in Watch
    /\ DOMAIN arms \subseteq Roots \ DOMAIN watches
    /\ \A r \in DOMAIN arms : IF arms[r].stage = "armed" THEN arms[r].watch \in Watch
                              ELSE arms[r].stage \in {"asked", "failed"}
    /\ querying => arms = <<>>
    /\ pending \subseteq Subscribed(sub) /\ timers \subseteq Subscribed(sub)
    /\ unseen \subseteq Subscribed(sub)
    /\ active \in Windows \cup {NoWindow} /\ writing \in Windows \cup {NoWindow}
    /\ {rootsKnown, querying, armAgain, rearming, rootsMissing, trusted, lapsed, refreshing, refreshPending} \subseteq BOOLEAN
    /\ failures \in 0 .. MaxFailures /\ openings \in 0 .. MaxOpenings

\* A change is never missed (refresh.md: a miss is the bug): while the watch
\* is trusted, a ready window that does not show a change has a refresh
\* pending or asked for, or the change, or the stop that hides it, waits to
\* be read.  The code does not keep this in two cases, see below.
NeverMisses ==
    \A w \in Ready \cap unseen :
        \/ ~trusted
        \/ w \in pending
        \/ w \in CommitWindows /\ refreshPending
        \/ \E r \in DOMAIN watches : watches[r].stopped \/ \E p \in watches[r].unread : Concerns(p, w)

\* The two cases are the only ones: a change is missed only where a watch was
\* released with changes or a stop unread, or where a subscription coming or going set
\* up a stopped watch again, or replaced a partial one, so that the trust came
\* back and no window was told.
NoMiss == lapsed \/ NeverMisses

\* The watch is only trusted where it covers every place a ready window
\* shows, whatever was armed, stopped and released meanwhile.
TrustCovers ==
    trusted => \A w \in Ready : \A p \in Roots :
        Concerns(p, w) => \E r \in DOMAIN watches : p \in Reports(r) /\ ~watches[r].partial

\* refresh.md: the windows of a watch that cannot be trusted refresh on
\* every activation.
UntrustedActivationRefreshes ==
    [][\A w \in Ready : (active # w /\ active' = w /\ ~trusted /\ writing = NoWindow)
            => w \notin unseen' \/ (w \in CommitWindows /\ refreshPending')]_vars

\* ready() comes to every window that stays open, whatever fails and however
\* the other windows come and go meanwhile.
ReadyInTheEnd == \A w \in Windows : sub[w] = "waiting" ~> sub[w] \in {"ready", "none"}

\* A window left active with nothing writing and a trusted watch keeps
\* catching up with the changes, but for the two cases above.
CatchesUp ==
    \A w \in Windows :
        <>[](w \in Ready /\ active = w /\ writing = NoWindow /\ trusted /\ ~lapsed) => []<>(w \notin unseen)

\* Both: every window comes to be told of changes, and to show them.
WindowsCatchUp == ReadyInTheEnd /\ CatchesUp
================================================================================
