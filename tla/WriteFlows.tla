------------------------------ MODULE WriteFlows ------------------------------
(***************************************************************************)
(* The write flows on one repository (commitwindow.cpp, historywindow.cpp, *)
(* pushpane.cpp, writeflow.cpp) and the write lock they share              *)
(* (repository.cpp): a flow may ask in a dialog, whose nested event loop   *)
(* delivers whatever else is under way, takes the mutation or the push     *)
(* lock, runs commands and releases it when they answer.                   *)
(*                                                                         *)
(* An action is one handler on the GUI thread.  `loops` is the stack of    *)
(* the event loops a handler opened: dialogs, named by their flow, and     *)
(* the file list's context menu.  Only the innermost takes input, and no   *)
(* other window does while one is open.  Answers and refreshes arrive in   *)
(* any of them.                                                            *)
(*                                                                         *)
(* A stamp is modelled by what it is compared for: `stale` holds the       *)
(* flows since whose stamp a refresh replaced the state or HEAD moved.     *)
(* Which rows are listed, which operation is in progress and what the      *)
(* commands do are left open: every branch on them may be taken.           *)
(***************************************************************************)
EXTENDS Naturals, Sequences

CONSTANTS
    Flows,          \* the flows the windows start
    Menu,           \* the context menu's event loop
    Nobody,         \* a lock nobody holds
    Superproject,   \* the push pane of the repository this is a submodule of, and its push
    MaxStarts,      \* bound: flows started
    MaxExternal     \* bound: changes another program makes

\* The flows, by what the code decides them with.
Commits == {"commit", "commitAndPush"}
Pushes == {"push", "pushConfirmed"}
ListFlows == {"listWrite", "delete", "discard", "discardSubmodule"}  \* act on the selected rows
Mutations == Commits \cup ListFlows \cup {"undo", "abort", "reattach", "continue", "checkOut"}
Stamped == Commits \cup {"undo", "abort", "reattach", "discard", "discardSubmodule"}

ASSUME FlowsAssumption ==
    /\ Flows \subseteq Mutations \cup Pushes
    /\ Menu \notin Mutations \cup Pushes /\ Superproject \notin Mutations \cup Pushes
    /\ Nobody \notin Mutations \cup Pushes \cup {Superproject}
    /\ MaxStarts \in Nat /\ MaxExternal \in Nat

VARIABLES
    stage,          \* where each flow is
    loops,          \* the nested event loops, innermost last
    mutation,       \* Repository::_mutationHolder
    push,           \* Repository::_pushHolder
    stale,          \* the flows whose stamp no longer matches
    known,          \* the last refresh read the state
    refreshing,     \* Repository::_refreshing
    refreshPending, \* Repository::_refreshPending
    waiting,        \* whether undo's callback waits: for nothing, a later run, this run
    external,       \* changes made outside the application
    reading,        \* of them, those before the running refresh began
    shown,          \* of them, those the state is sure to show
    clicked,        \* of them, those before undo was asked for
    starts          \* flows started

lockVars == <<mutation, push>>
refreshVars == <<known, refreshing, refreshPending, waiting, reading, shown>>
vars == <<stage, loops, lockVars, stale, refreshVars, external, clicked, starts>>

Stages ==
    {"idle",
     "choosing",        \* a dialog asks which branch HEAD is put on
     "reattaching",     \* a commit's reattach runs
     "planning",        \* a plan or undo's refresh runs
     "asking",          \* a dialog asks whether to go on
     "writing",         \* the commands run
     "offering",        \* a dialog offers to set the upstream
     "retrying",        \* the push runs that sets it
     "told",            \* a notice is up; the rest of the handler runs after it:
     "toldThenRefresh", "toldThenEnd", "toldThenRefreshAndEnd"}

Running == {"reattaching", "writing", "retrying"}
InDialog == Stages \ (Running \cup {"idle", "planning"})

mutationInFlight == mutation # Nobody
pushInFlight == push # Nobody
writeInFlight == mutationInFlight \/ pushInFlight
canActOnList == ~mutationInFlight /\ known

--------------------------------------------------------------------------------
(* Refreshes and the outside world. *)

StartRefresh ==
    /\ refreshing' = TRUE /\ reading' = external

\* Mutant: a callback is served by the run that is under way.
RefreshJoinsRun(undo) ==
    /\ \/ refreshing /\ refreshPending' = TRUE /\ UNCHANGED <<refreshing, reading>>
       \/ ~refreshing /\ StartRefresh /\ UNCHANGED refreshPending
    /\ waiting' = IF undo THEN "this" ELSE waiting
    /\ UNCHANGED <<known, shown>>

\* Repository::refresh(), with undo's callback where `undo` holds.
Refresh(undo) ==
    /\ \/ refreshing /\ refreshPending' = TRUE /\ UNCHANGED <<refreshing, reading>>
          /\ waiting' = IF undo THEN "later" ELSE waiting
       \/ ~refreshing /\ StartRefresh /\ UNCHANGED refreshPending
          /\ waiting' = IF undo THEN "this" ELSE waiting
    /\ UNCHANGED <<known, shown>>

\* A refresh the flows did not start: F5, a window's first, a reported change.
RefreshAsked ==
    /\ Refresh(FALSE)
    /\ UNCHANGED <<stage, loops, lockVars, stale, external, clicked, starts>>

\* Another program commits, checks out or pushes; the first two move HEAD.
ExternalChange ==
    /\ external < MaxExternal /\ external' = external + 1
    /\ stale' \in {stale, Stamped}
    /\ UNCHANGED <<stage, loops, lockVars, refreshVars, clicked, starts>>

--------------------------------------------------------------------------------
(* What the flows are made of. *)

Innermost(f) == loops # <<>> /\ loops[Len(loops)] = f
Leave(f) == Innermost(f) /\ loops' = SubSeq(loops, 1, Len(loops) - 1)
To(f, s) == stage' = [stage EXCEPT ![f] = s]

\* The flow opens a dialog: its stage while that is up.
Open(f, s) == To(f, s) /\ loops' = Append(loops, f)

\* The dialog of `f` is closed and another opened in its place.
Replace(f, s) == Innermost(f) /\ To(f, s) /\ UNCHANGED loops

beginMutation(f) == mutation' = f /\ UNCHANGED push
endMutation == mutation' = Nobody /\ UNCHANGED push
beginPush(f) == push' = f /\ UNCHANGED mutation
endPush == push' = Nobody /\ UNCHANGED mutation

Unrefreshed == UNCHANGED <<refreshVars, clicked>>

\* A window takes input: no dialog or menu is up.
Input(f) ==
    /\ f \in Flows /\ loops = <<>> /\ stage[f] = "idle"
    /\ starts < MaxStarts /\ starts' = starts + 1

--------------------------------------------------------------------------------
(* Starting a flow: the condition its control, shortcut or slot has, and   *)
(* the handler up to its first dialog or command.                          *)

\* startCommit(): locks before it asks.
StartCommit(f) ==
    /\ f \in Commits /\ Input(f)
    /\ canActOnList /\ (f = "commitAndPush" => ~pushInFlight)
    /\ stale' = stale \ {f} /\ beginMutation(f)
    /\ \/ \E s \in {"choosing", "asking"} : Open(f, s)
       \/ \E s \in {"reattaching", "writing"} : To(f, s) /\ UNCHANGED loops
    /\ Unrefreshed /\ UNCHANGED external

\* undoLastCommit(): locks, then waits for a refresh that starts now or later.
StartUndo ==
    /\ Input("undo") /\ canActOnList /\ ~pushInFlight
    /\ beginMutation("undo") /\ To("undo", "planning")
    /\ Refresh(TRUE) /\ clicked' = external
    /\ UNCHANGED <<loops, stale, external>>

\* abortOperation(), and reattachHeadFromStrip(), which need not ask where
\* there is one candidate: asked first, locked after.
StartAsking(f) ==
    /\ f \in {"abort", "reattach"} /\ Input(f) /\ canActOnList /\ ~pushInFlight
    /\ stale' = stale \ {f}
    /\ \/ Open(f, "asking") /\ UNCHANGED lockVars
       \/ f = "reattach" /\ beginMutation(f) /\ To(f, "writing") /\ UNCHANGED loops
    /\ Unrefreshed /\ UNCHANGED external

\* continueOperation() and the history window's checkOut().
StartWriting(f) ==
    /\ f \in {"continue", "checkOut"} /\ Input(f)
    /\ ~writeInFlight /\ (f = "continue" => known)
    /\ beginMutation(f) /\ To(f, "writing")
    /\ Unrefreshed /\ UNCHANGED <<loops, stale, external>>

\* startPush(): the plan is asked for under the lock.
startPush(f) == beginPush(f) /\ To(f, "planning")

\* Mutant: nothing keeps a push from being started twice.
StartPushUnchecked(f) ==
    /\ f \in Pushes /\ Input(f)
    /\ startPush(f)
    /\ Unrefreshed /\ UNCHANGED <<loops, stale, external>>

\* The push buttons and pushUpTo().
StartPush(f) ==
    /\ f \in Pushes /\ Input(f) /\ ~writeInFlight
    /\ startPush(f)
    /\ Unrefreshed /\ UNCHANGED <<loops, stale, external>>

\* The context menu reads what it allows as it opens.
OpenMenu ==
    /\ loops = <<>> /\ canActOnList /\ Flows \cap ListFlows # {}
    /\ loops' = <<Menu>>
    /\ Unrefreshed /\ UNCHANGED <<stage, lockVars, stale, external, starts>>

\* The slot of a flow on the selected rows, with `rest` the loops under it.
\* Only the discards take a stamp; the lock is not looked at again.
ListSlot(f, rest) ==
    /\ stale' = IF f \in Stamped THEN stale \ {f} ELSE stale
    /\ \/ \* a question first
          /\ f \in {"delete", "discard"} /\ UNCHANGED lockVars
          /\ loops' = Append(rest, f) /\ To(f, "asking")
       \/ \* nothing to ask: an un-add, an addition, a resolution
          /\ f \in {"discard", "listWrite"} /\ loops' = rest
          /\ beginMutation(f) /\ To(f, "writing")
       \/ \* discardSubmoduleContent() plans first
          /\ f = "discardSubmodule" /\ loops' = rest
          /\ To(f, "planning") /\ UNCHANGED lockVars

\* An entry is chosen in the menu, or the menu is closed.  The entry of both
\* discards waits for a plan in flight.
CloseMenu ==
    /\ Innermost(Menu)
    /\ \/ \E f \in Flows \cap ListFlows :
             /\ f = "discard" => stage["discardSubmodule"] # "planning"
             /\ stage[f] = "idle" /\ starts < MaxStarts /\ starts' = starts + 1
             /\ ListSlot(f, SubSeq(loops, 1, Len(loops) - 1))
       \/ Leave(Menu) /\ UNCHANGED <<stage, lockVars, stale, starts>>
    /\ Unrefreshed /\ UNCHANGED external

\* The Delete key.
PressDelete ==
    /\ Input("delete") /\ canActOnList
    /\ ListSlot("delete", loops)
    /\ Unrefreshed /\ UNCHANGED external

--------------------------------------------------------------------------------
(* Dialogs are answered. *)

\* stateMovedSince() holds: a notice, then a refresh, then the lock taken
\* before asking is released.
Moved(f) ==
    /\ f \in stale
    /\ Replace(f, IF mutation = f THEN "toldThenRefreshAndEnd" ELSE "toldThenRefresh")
    /\ UNCHANGED lockVars

\* Mutant: the stamp is not compared again.
UnmovedUnchecked(f, s) ==
    /\ Leave(f) /\ To(f, s)
    /\ IF f \in Commits \cup {"undo"} \cup Pushes THEN UNCHANGED lockVars ELSE beginMutation(f)

\* The answer is yes and the state still stands: locked where the flow is
\* not yet.
Unmoved(f, s) ==
    /\ f \in Stamped => f \notin stale
    /\ Leave(f) /\ To(f, s)
    /\ IF f \in Commits \cup {"undo"} \cup Pushes THEN UNCHANGED lockVars ELSE beginMutation(f)

\* The answer is no: what was locked before asking is released.
Declined(f) ==
    /\ Leave(f) /\ To(f, "idle")
    /\ CASE f \in Commits \cup {"undo"} -> endMutation
         [] f \in Pushes -> endPush
         [] OTHER -> UNCHANGED lockVars

AnswerQuestion(f) ==
    /\ Innermost(f) /\ stage[f] = "asking"
    /\ Moved(f) \/ Unmoved(f, "writing") \/ Declined(f)
    /\ Unrefreshed /\ UNCHANGED <<stale, external, starts>>

\* Deleting rows none of which is added: the files are moved at once.
AnswerDelete ==
    /\ Innermost("delete") /\ stage["delete"] = "asking"
    /\ Leave("delete") /\ To("delete", "idle") /\ Refresh(FALSE)
    /\ UNCHANGED <<lockVars, stale, external, clicked, starts>>

\* chooseReattachCandidate() in a commit.
AnswerChoice(f) ==
    /\ f \in Commits /\ stage[f] = "choosing" /\ Innermost(f)
    /\ Moved(f) \/ Unmoved(f, "reattaching") \/ Declined(f)
    /\ Unrefreshed /\ UNCHANGED <<stale, external, starts>>

\* offerUpstreamThenRetry(); a push that published something refreshes.
AnswerOffer(f) ==
    /\ stage[f] = "offering"
    /\ \/ Leave(f) /\ To(f, "retrying") /\ UNCHANGED <<lockVars, refreshVars>>
       \/ Declined(f) /\ UNCHANGED refreshVars
       \/ Declined(f) /\ Refresh(FALSE)
    /\ UNCHANGED <<stale, external, clicked, starts>>

\* A notice is closed and the handler that showed it goes on.
DismissNotice(f) ==
    /\ stage[f] \in {"told", "toldThenRefresh", "toldThenEnd", "toldThenRefreshAndEnd"}
    /\ Leave(f) /\ To(f, "idle")
    /\ IF stage[f] \in {"toldThenRefresh", "toldThenRefreshAndEnd"} THEN Refresh(FALSE) ELSE UNCHANGED refreshVars
    /\ IF stage[f] \notin {"toldThenEnd", "toldThenRefreshAndEnd"} THEN UNCHANGED lockVars
       ELSE IF f \in Pushes THEN endPush ELSE endMutation
    /\ UNCHANGED <<stale, external, clicked, starts>>

--------------------------------------------------------------------------------
(* Commands and queries answer. *)

\* A commit's reattach: on to its question or to the commit itself, whose
\* last check comes without a dialog to close.
Reattached(f) ==
    /\ f \in Commits /\ stage[f] = "reattaching"
    /\ \/ Open(f, "asking")
       \/ f \notin stale /\ To(f, "writing") /\ UNCHANGED loops
       \/ f \in stale /\ Open(f, "toldThenRefreshAndEnd")
       \/ Open(f, "toldThenEnd") \* the reattach failed
    /\ Unrefreshed /\ UNCHANGED <<lockVars, stale, external, starts>>

\* The plan of a push or of a discard inside a submodule.
PlanAnswered(f) ==
    /\ f \in Pushes \cup {"discardSubmodule"} /\ stage[f] = "planning"
    /\ \/ /\ Open(f, "told") /\ IF f \in Pushes THEN endPush ELSE UNCHANGED lockVars
       \/ /\ f \in Pushes \* a submodule's write is in flight: told under the lock
          /\ Open(f, "toldThenEnd") /\ UNCHANGED lockVars
       \/ /\ f \in {"pushConfirmed", "discardSubmodule"}
          /\ Open(f, "asking") /\ UNCHANGED lockVars
       \/ /\ f = "push" /\ To(f, "writing") /\ UNCHANGED <<loops, lockVars>>
       \/ /\ f = "discardSubmodule" /\ f \notin stale
          /\ beginMutation(f) /\ To(f, "writing") /\ UNCHANGED loops
       \/ /\ f = "discardSubmodule" /\ f \in stale
          /\ Open(f, "toldThenRefresh") /\ UNCHANGED lockVars
    /\ Unrefreshed /\ UNCHANGED <<stale, external, starts>>

\* mutationDone() and its like after a failure: released, told, refreshed.
\* Deleting does not refresh then.
WriteFailed(f) ==
    /\ f \in Mutations /\ stage[f] = "writing"
    /\ endMutation
    /\ Open(f, IF f = "delete" THEN "told" ELSE "toldThenRefresh")
    /\ Unrefreshed /\ UNCHANGED <<stale, external, starts>>

\* A write succeeds: released, refreshed, and a commit's push started.  What
\* it did may have moved HEAD.
WriteSucceeded(f) ==
    /\ f \in Mutations /\ stage[f] = "writing"
    /\ Refresh(FALSE)
    /\ stale' \in {stale, Stamped}
    /\ IF f = "commitAndPush"
           THEN /\ mutation' = Nobody /\ push' = "push"
                /\ stage' = [stage EXCEPT ![f] = "idle", !["push"] = "planning"]
           ELSE endMutation /\ To(f, "idle")
    /\ UNCHANGED <<loops, external, clicked, starts>>

\* The last step of a push succeeds, or one fails, which is told or offers to
\* set an upstream (bound: one offer in a push, and steps before it unseen).
PushStepDone(f) ==
    /\ f \in Pushes /\ stage[f] \in {"writing", "retrying"}
    /\ \/ endPush /\ To(f, "idle") /\ Refresh(FALSE) /\ UNCHANGED loops
       \/ endPush /\ Open(f, "told") /\ Refresh(FALSE)
       \/ endPush /\ Open(f, "told") /\ UNCHANGED refreshVars
       \/ stage[f] = "writing" /\ Open(f, "offering") /\ UNCHANGED <<lockVars, refreshVars>>
    /\ UNCHANGED <<stale, external, clicked, starts>>

\* Mutant: the lock outlives an undo whose refresh fails.
ConfirmUndoKeepsLock(read) ==
    \/ ~read /\ To("undo", "idle") /\ UNCHANGED <<loops, lockVars>>
    \/ read /\ endMutation /\ Open("undo", "told")
    \/ read /\ Open("undo", "asking") /\ UNCHANGED lockVars

\* confirmThenUndoLastCommit(), called where undo's refresh completes.
ConfirmUndo(read) ==
    \/ ~read /\ endMutation /\ To("undo", "idle") /\ UNCHANGED loops
    \/ read /\ endMutation /\ Open("undo", "told")
    \/ read /\ Open("undo", "asking") /\ UNCHANGED lockVars

\* completeRefresh(): the refresh asked for meanwhile starts before the
\* callbacks of the run that ended.  A stamp taken in one is up to date.
RefreshCompletes(read) ==
    /\ refreshing /\ known' = read
    /\ shown' = IF read THEN reading ELSE shown
    /\ \/ refreshPending /\ refreshPending' = FALSE /\ StartRefresh
       \/ ~refreshPending /\ refreshing' = FALSE /\ UNCHANGED <<refreshPending, reading>>
    /\ waiting' = IF waiting = "later" THEN "this" ELSE "no"
    /\ \/ waiting = "this" /\ ConfirmUndo(read)
          /\ stale' = (IF read THEN Stamped ELSE stale) \ {"undo"}
       \/ waiting # "this" /\ UNCHANGED <<stage, loops, lockVars>>
          /\ stale' = IF read THEN Stamped ELSE stale
    /\ UNCHANGED <<external, clicked, starts>>

\* lockPushedSubmodules() of the superproject's push, and its endPush().
SuperprojectLocks ==
    /\ ~writeInFlight /\ beginPush(Superproject)
    /\ UNCHANGED <<stage, loops, stale, refreshVars, external, clicked, starts>>

SuperprojectUnlocks ==
    /\ push = Superproject /\ endPush
    /\ UNCHANGED <<stage, loops, stale, refreshVars, external, clicked, starts>>

--------------------------------------------------------------------------------
Init ==
    /\ stage = [f \in Mutations \cup Pushes |-> "idle"]
    /\ loops = <<>> /\ mutation = Nobody /\ push = Nobody
    /\ stale = Stamped /\ known = FALSE
    /\ refreshing = FALSE /\ refreshPending = FALSE /\ waiting = "no"
    /\ external = 0 /\ reading = 0 /\ shown = 0 /\ clicked = 0 /\ starts = 0

Start(f) == StartCommit(f) \/ StartAsking(f) \/ StartWriting(f) \/ StartPush(f)
Answer(f) == AnswerQuestion(f) \/ AnswerChoice(f) \/ AnswerOffer(f) \/ DismissNotice(f)
Done(f) == Reattached(f) \/ PlanAnswered(f) \/ WriteFailed(f) \/ WriteSucceeded(f) \/ PushStepDone(f)
RefreshEnds == \E read \in BOOLEAN : RefreshCompletes(read)

Next ==
    \/ \E f \in Mutations \cup Pushes : Start(f) \/ Answer(f) \/ Done(f)
    \/ StartUndo \/ OpenMenu \/ CloseMenu \/ PressDelete \/ AnswerDelete
    \/ RefreshAsked \/ RefreshEnds \/ ExternalChange
    \/ SuperprojectLocks \/ SuperprojectUnlocks

\* The user answers what is asked, and what is run answers.  Nothing makes
\* the user start a flow or a program outside change anything.
Fairness ==
    /\ \A f \in Mutations \cup Pushes : WF_vars(Answer(f)) /\ WF_vars(Done(f))
    /\ WF_vars(CloseMenu) /\ WF_vars(RefreshEnds) /\ WF_vars(SuperprojectUnlocks)

Spec == Init /\ [][Next]_vars /\ Fairness

--------------------------------------------------------------------------------
\* The types, and a loop for each flow with a dialog or notice up, and for
\* no other.
TypeOK ==
    /\ stage \in [Mutations \cup Pushes -> Stages]
    /\ loops \in Seq(Mutations \cup Pushes \cup {Menu})
    /\ \A i, j \in 1 .. Len(loops) : loops[i] = loops[j] => i = j
    /\ \A f \in Mutations \cup Pushes : stage[f] \in InDialog <=> \E i \in 1 .. Len(loops) : loops[i] = f
    /\ mutation \in Mutations \cup {Nobody} /\ push \in Pushes \cup {Superproject, Nobody}
    /\ stale \subseteq Stamped /\ waiting \in {"no", "later", "this"}
    /\ {known, refreshing, refreshPending} \subseteq BOOLEAN
    /\ shown <= reading /\ reading <= external /\ external \in 0 .. MaxExternal
    /\ clicked <= external /\ starts \in 0 .. MaxStarts

\* Two writes never meet (repository.h: two flows would meet at index.lock;
\* repository.cpp asserts that a lock begun is free): whatever runs commands
\* on the repository holds its lock, which nobody began over it.
WriteHoldsLock ==
    /\ \A f \in Mutations : stage[f] \in Running => mutation = f
    /\ \A f \in Pushes : stage[f] \in Running \cup {"planning", "offering"} => push = f

\* The commit being published is not undone (commitwindow.cpp: undoing the
\* commit a running push is publishing is the rewrite AlreadyPushed exists to
\* prevent), neither by its own window's push nor by the superproject's.
UndoWaitsForPush == stage["undo"] \in {"planning", "asking", "writing"} => ~pushInFlight

\* commitwindow.cpp: the history-changing actions wait for a push too, it is
\* publishing the history they would rewrite.
HistoryChangesWaitForPush ==
    \A f \in {"undo", "abort", "reattach", "continue"} : stage[f] = "writing" => ~pushInFlight

\* Undo is decided on a state that shows every change made before it was
\* asked for, in whatever refresh that was and however many fail.
UndoDecidesOnFreshState == stage["undo"] \in {"asking", "writing"} => shown >= clicked

\* Both: an undo is neither of a commit being published nor of one read before
\* the user asked.
UndoIsDecidedRight == UndoWaitsForPush /\ UndoDecidesOnFreshState

\* What was confirmed is what is written: no flow that takes a stamp runs its
\* commands after a refresh or a commit or checkout outside replaced what its
\* dialogs described.
ConfirmedStateStands ==
    [][\A f \in Stamped : stage[f] \in {"asking", "choosing", "planning", "reattaching"} /\ stage'[f] = "writing"
            => f \notin stale]_vars

\* A window can close again: every lock is released in the end, since a
\* window that holds one does not close.
LocksComeFree ==
    /\ mutationInFlight ~> ~mutationInFlight
    /\ pushInFlight ~> ~pushInFlight
================================================================================
