------------------------------- MODULE RowFlows -------------------------------
(***************************************************************************)
(* What the commit window starts from its file list, whichever system the  *)
(* repository is of (commitwindow.cpp): which rows each flow takes, the    *)
(* order of its parts, and how a flow and a refresh end.  The commands of  *)
(* a flow, and what they do to the disk, are GitFlows' and HgFlows'.  The  *)
(* lock and the dialogs around a flow are WriteFlows'.                     *)
(***************************************************************************)
EXTENDS ChangedFiles

CONSTANTS
    Outside,    \* what is done outside the app; each system's module names its own
    MaxOutside, \* bound: how many times
    MaxWrites,  \* bound: how many flows write in a behaviour
    MaxEvents,  \* bound: how many of these and of failures together
    MaxPaths,   \* bound: how many paths are in use
    FirstPolicies \* the settings for new rows a behaviour may begin with

ASSUME RowFlowsAssumption == FirstPolicies \subseteq Policies

VARIABLES
    flow,     \* the write under way
    before,   \* history: the disk, and the paths checked, when it began
    outside,  \* how many changes were made outside
    writes,   \* how many flows have begun
    declined  \* history: paths the user unchecked, still listed as they were

flowVars == <<flow, before, outside, writes, declined>>

\* paths: what the flow was asked for; untracked, added: those of them to track first
\* or to un-add; plan: what the system's commands are made of.  The rest is history: what the outside touched since, whether the
\* list was up to date, the paths declined then, whether a restoring command failed.
NoFlow == [kind |-> "none", step |-> "none", paths |-> {}, untracked |-> {}, added |-> {}, ok |-> FALSE,
           plan |-> <<>>, touched |-> {}, fresh |-> FALSE, declined |-> {}, lost |-> FALSE]

Begin(kind, step, paths) ==
    [NoFlow EXCEPT !.kind = kind, !.step = step, !.paths = paths,
                   !.fresh = run.round = 0 /\ ~moved, !.declined = declined]

spent == writes + outside + failures

MayWrite == flow.kind = "none" /\ writes < MaxWrites /\ spent < MaxEvents /\ writes' = writes + 1

\* canActOnList(), and a selection to act on.
CanStart == MayWrite /\ state.known

At(step) == flow.step = step
GoOn(step) == flow' = [flow EXCEPT !.step = step]
Ended(ok) == flow' = [flow EXCEPT !.step = "report", !.ok = ok]

\* A command that works where it can and the bound on failures is spent.
Try(can, ok) ==
    IF ok THEN can /\ UNCHANGED failures
          ELSE IF can THEN spent < MaxEvents /\ MayFail(FALSE) ELSE UNCHANGED failures

\* A refresh's query may fail as a command may.
QueryMayFail(ok) == MayFail(ok) /\ (ok \/ spent < MaxEvents)

KeepRefresh == UNCHANGED <<run, again, state, files>>
KeepSettled == UNCHANGED <<listVars, outside, declined>>
KeepList == KeepSettled /\ UNCHANGED <<before, writes>>

\* rollBackAddThenReport(), of either system.
RollBackThenReport(f, ok) == [f EXCEPT !.ok = ok, !.step = IF ok \/ f.untracked = {} THEN "report" ELSE "rollBack"]

-------------------------------------------------------------------------------
(* The flows of the list.                                                    *)

\* startCommit() and doCommit(): path by path, or all that a merge brought.
StartCommit ==
    /\ CanStart
    /\ checked # {}
    /\ unresolvedConflictPaths = {}
    /\ flow' = [IF state.merging THEN Begin("merge", "commitAll", checkedPathspec)
                                 ELSE Begin("commit", "commitRows", checkedPathspec)
                  EXCEPT !.untracked = checkedUntrackedPaths]

discardable(e) == IF e.sub THEN committable(e) ELSE e.type # "Untracked"

Named(R) == {e.path : e \in R} \cup {e.was : e \in {f \in R : f.was # None}}

\* Mutant of StartDiscard: an added row is restored like the others.
StartDiscardAdded(R) ==
    LET restored == {e \in R : discardable(e)}
    IN  /\ CanStart
        /\ ~state.merging
        /\ restored # {}
        /\ flow' = Begin("discard", "restore", Named(restored))

\* discardSelection(): an added file is un-added, since restoring would delete it.
StartDiscard(R) ==
    LET added == {e \in R : ~e.sub /\ e.type = "Added"}
        restored == {e \in R \ added : discardable(e)}
    IN  /\ CanStart
        /\ ~state.merging
        /\ restored \cup added # {}
        /\ flow' = [Begin("discard", IF restored = {} THEN "unAdd" ELSE "restore", Named(restored))
                      EXCEPT !.added = Named(added)]

AfterRestore == IF flow.added = {} THEN Ended(TRUE) ELSE GoOn("unAdd")

\* addSelectionToIndex() and markResolvedSelection().
StartAdd(R, type) ==
    LET wanted == {e \in R : ~e.sub /\ ~e.nested /\ e.type = type}
    IN  /\ CanStart
        /\ wanted # {}
        /\ flow' = Begin("add", IF type = "Conflicted" THEN "markResolved" ELSE "addToIndex", {e.path : e \in wanted})

StartUnAdd(R) ==
    LET added == {e \in R : ~e.sub /\ e.type = "Added"}
    IN  /\ CanStart
        /\ added # {}
        /\ flow' = [Begin("unAdd", "unAdd", {}) EXCEPT !.added = Named(added)]

\* unAdd() ends a flow, but for the files to be deleted that had been added.
AfterUnAdd(ok) == IF flow.kind # "delete" THEN Ended(ok) ELSE IF ok THEN GoOn("trash") ELSE flow' = NoFlow

\* deleteSelection(): submodules and rows already deleted are skipped.
StartDelete(R) ==
    LET deleted == {e \in R : ~e.sub /\ ~e.nested /\ e.type # "Deleted"}
        added == {e \in deleted : e.type = "Added"}
    IN  /\ CanStart
        /\ deleted # {}
        /\ flow' = [Begin("delete", IF added = {} THEN "trash" ELSE "unAdd", {e.path : e \in deleted})
                      EXCEPT !.added = {e.path : e \in added}]

\* Files go to the trash one by one; the first that cannot leaves the rest.
MoveToTrash ==
    /\ At("trash")
    /\ \E gone \in SUBSET flow.paths :
          /\ Try(TRUE, gone = flow.paths)
          /\ work' = [p \in Paths |-> IF p \in gone THEN None ELSE work[p]]
          /\ Ended(gone = flow.paths)
    /\ moved' = TRUE
    /\ KeepRefresh /\ KeepList

\* The window whose submodule this repository is asks to discard all that is
\* uncommitted here: discardPlanFor(), of the changes there.
discardPlanFor(changes) ==
    LET old(d) == IF d.was = None THEN d.path ELSE d.was
    IN  [restored |-> {old(d) : d \in {e \in changes : e.type \notin {"Added", "Untracked"}}},
         keptOnDisk |-> {d.path : d \in {e \in changes : e.type = "Added" \/ e.was # None}}]

StartDiscardAll(plan) ==
    /\ MayWrite
    /\ plan.restored \cup plan.keptOnDisk # {}
    /\ flow' = [Begin("discardAll", "discardAll", plan.restored) EXCEPT !.added = plan.keptOnDisk, !.fresh = TRUE]

\* undoLastCommit(), decided on a refresh just made.
StartUndo ==
    /\ CanStart
    /\ run.round = 0
    /\ ~state.unborn /\ ~state.merging /\ state.parents = 1
    /\ flow' = Begin("undo", "undo", {})

\* abortOperation(), confirmed; which operation there is to abort is read when it runs.
StartAbort ==
    /\ MayWrite
    /\ state.merging
    /\ flow' = Begin("abort", "abort", {})

Starts ==
    /\ \/ StartCommit
       \/ \E R \in SUBSET rows : \/ StartDiscard(R)
                                 \/ StartAdd(R, "Untracked")
                                 \/ StartAdd(R, "Conflicted")
                                 \/ StartUnAdd(R)
                                 \/ StartDelete(R)
       \/ StartUndo /\ ~merging
       \/ StartAbort
    /\ KeepRefresh /\ KeepSettled /\ UNCHANGED <<moved, failures>>

\* mutationDone(): the lock goes and the window refreshes.
Report(newRun) ==
    /\ At("report")
    /\ flow' = NoFlow
    /\ before' = <<>>
    /\ Refresh(newRun)
    /\ UNCHANGED <<state, files, failures, listVars, outside, writes, declined>>

-------------------------------------------------------------------------------
(* The list, and the refresh that fills it.                                  *)

\* History: listed before and now, not forced by a merge nor become Added, and not to be
\* committed as the old name of a checked rename.
StillDeclined(p) ==
    /\ \E e \in rows : e.path = p /\ committable(e)
    /\ \E e \in rows' : e.path = p /\ committable(e)
    /\ \A e \in rows' : e.path = p =>
          /\ state'.merging => e.type = "Untracked"
          /\ e.type = "Added" => \A f \in rows : f.path = p => f.type = "Added"
    /\ \A e \in checked' : e.was # p

\* onRefreshed(): the window takes the rows over, whatever the run came to.
TakeRows ==
    /\ setEntries(files', state'.merging)
    /\ declined' = {p \in declined : StillDeclined(p)}
    /\ UNCHANGED <<failures, policy, flow, before, outside, writes>>

UserChecks ==
    /\ \/ \E e \in rows, on \in BOOLEAN : setRowsChecked({e}, on)
       \/ \E wanted \in {rows, {}, {e \in rows : e.type # "Untracked"}} : applyChecked(wanted)
    /\ checked' # checked
    /\ declined' = (declined \cup {e.path : e \in checked \ checked'}) \ checkedPathspec'
    /\ UNCHANGED <<refreshVars, rows, mergeMode, policy, flow, before, outside, writes>>

\* The window is activated, or its watch reports a change; not while a write runs.
RefreshIsDue(newRun) ==
    /\ flow.kind = "none"
    /\ run.round = 0 /\ moved
    /\ Refresh(newRun)
    /\ UNCHANGED <<state, files, failures, listVars, flowVars>>

\* Outside: an editor, a shell, another program changes the paths of P.
Touch(P) ==
    /\ outside < MaxOutside /\ spent < MaxEvents
    /\ outside' = outside + 1
    /\ moved' = TRUE
    /\ flow' = IF flow.kind = "none" THEN flow ELSE [flow EXCEPT !.touched = @ \cup P]
    /\ UNCHANGED <<failures, listVars, before, writes, declined>>
    /\ KeepRefresh

ListInit ==
    /\ again = FALSE
    /\ state = FirstState
    /\ files = {}
    /\ moved = FALSE
    /\ failures = 0
    /\ rows = {} /\ checked = {} /\ mergeMode = FALSE
    /\ policy \in FirstPolicies
    /\ flow = NoFlow /\ before = <<>>
    /\ writes = 0
    /\ declined = {}

FlowsTypeOK ==
    /\ ListTypeOK
    /\ flow.paths \cup flow.untracked \cup flow.added \subseteq Paths
    /\ declined \subseteq Paths

Undisturbed(p) == p \notin flow.touched
Reporting(kinds) == flow.kind \in kinds /\ flow.step = "report"
===============================================================================
