------------------------------- MODULE GitFlows -------------------------------
(***************************************************************************)
(* The flows of RowFlows on a git repository, command by command: the      *)
(* index a commit is made from and how it is given back, the commit that   *)
(* ends an operation, and what each discard, add, un-add, delete and undo  *)
(* does.  Each git command may fail, a refresh may be running, and         *)
(* something outside may change the disk between any two of them.          *)
(***************************************************************************)
EXTENDS GitRefresh, RowFlows

vars == <<disk, refreshVars, listVars, flowVars>>

KeepTree == UNCHANGED <<log, work, inside, merging>>

\* A step that may write to the index only.
IndexBecomes(i) ==
    /\ index' = i
    /\ moved' = TRUE
    /\ KeepTree

Untouched == UNCHANGED <<disk, moved>>

-------------------------------------------------------------------------------
(* commit(): the index is made to hold exactly the commit, then restored.    *)
(* flow.plan is CommitIndexPlan: what to reset, to add and to restore.       *)

\* Mutant of plannedIndexChange: what is staged elsewhere is not saved.
plannedIndexChangeUnsaved(paths) ==
    LET gone == {p \in Staged : index[p] \in {None, Unmerged}}
    IN  [reset |-> Staged \ paths, add |-> paths \ gone, saved |-> <<>>]

\* An unmerged path reads as a staged deletion, here and in the saved entries.
plannedIndexChange(paths) ==
    LET gone == {p \in Staged : index[p] \in {None, Unmerged}}
        others == Staged \ paths
    IN  [reset |-> others, add |-> paths \ gone,
         saved |-> [p \in {q \in others : index[q] # Unmerged} |-> index[p]]]

StepAfterReset(p) == IF p.add = {} THEN "commit" ELSE "add"

ListStaged ==
    /\ At("commitRows")
    /\ \E ok \in BOOLEAN :
          /\ Try(TRUE, ok)
          /\ LET p == plannedIndexChange(flow.paths)
             IN  IF ok THEN flow' = [flow EXCEPT !.plan = p, !.step = IF p.reset # {} THEN "reset" ELSE StepAfterReset(p)]
                       ELSE Ended(FALSE)
    /\ Untouched /\ KeepRefresh /\ KeepList

\* restoreThenReport(): every step from the reset on ends here.
RestoreThenReport(ok) ==
    flow' = IF flow.plan.saved = <<>> THEN RollBackThenReport(flow, ok) ELSE [flow EXCEPT !.ok = ok, !.step = "restoreStaging"]

ResetOthers ==
    /\ At("reset")
    /\ \E ok \in BOOLEAN :
          /\ Try(TRUE, ok)
          /\ IF ok THEN IndexBecomes(AfterReset(flow.plan.reset)) /\ GoOn(StepAfterReset(flow.plan))
                   ELSE Untouched /\ RestoreThenReport(FALSE)
    /\ KeepRefresh /\ KeepList

AddChecked ==
    /\ At("add")
    /\ \E ok \in BOOLEAN :
          /\ Try(Matches(flow.plan.add), ok)
          /\ IF ok THEN IndexBecomes(AfterAdd(flow.plan.add)) /\ GoOn("commit")
                   ELSE Untouched /\ RestoreThenReport(FALSE)
    /\ KeepRefresh /\ KeepList

\* Mutant of RestoresAfter: a commit that failed restores nothing.
RestoresAfterSuccess(ok) ==
    IF flow.kind = "commit" /\ ok THEN RestoreThenReport(ok) ELSE Ended(ok)

RestoresAfter(ok) ==
    IF flow.kind = "commit" THEN RestoreThenReport(ok) ELSE flow' = RollBackThenReport(flow, ok)

RunCommit ==
    /\ At("commit")
    /\ \E ok \in BOOLEAN :
          /\ Try(Committable, ok)
          /\ RestoresAfter(ok)
          /\ IF ok THEN /\ log' = Committed(index, NoCopies)
                        /\ merging' = FALSE
                        /\ moved' = TRUE
                        /\ UNCHANGED <<index, work, inside>>
                   ELSE Untouched
    /\ KeepRefresh /\ KeepList

\* The results of the two restoring commands say nothing of the commit and are dropped.
RestoreStaging ==
    /\ At("restoreStaging")
    /\ \E ok \in BOOLEAN :
          /\ Try(TRUE, ok)
          /\ flow' = [RollBackThenReport(flow, flow.ok) EXCEPT !.lost = ~ok]
          /\ IF ok THEN IndexBecomes(AfterUpdateIndex(flow.plan.saved)) ELSE Untouched
    /\ KeepRefresh /\ KeepList

RollBackAdd ==
    /\ At("rollBack")
    /\ \E ok \in BOOLEAN :
          /\ Try(TRUE, ok)
          /\ flow' = [flow EXCEPT !.step = "report", !.lost = @ \/ ~ok]
          /\ IF ok THEN IndexBecomes(AfterReset(flow.untracked)) ELSE Untouched
    /\ KeepRefresh /\ KeepList

-------------------------------------------------------------------------------
(* commitMergeState(): every tracked change, and the untracked files checked.*)

AddTracked ==
    /\ At("commitAll")
    /\ \E ok \in BOOLEAN :
          /\ Try(TRUE, ok)
          /\ IF ok THEN IndexBecomes(AfterAddTracked) /\ GoOn(IF flow.untracked = {} THEN "commit" ELSE "addUntracked")
                   ELSE Untouched /\ Ended(FALSE)
    /\ KeepRefresh /\ KeepList

AddUntracked ==
    /\ At("addUntracked")
    /\ \E ok \in BOOLEAN :
          /\ Try(Matches(flow.untracked), ok)
          /\ IF ok THEN IndexBecomes(AfterAdd(flow.untracked)) /\ GoOn("commit")
                   ELSE Untouched /\ Ended(FALSE)
    /\ KeepRefresh /\ KeepList

-------------------------------------------------------------------------------
(* Discard, un-add, add, resolve, delete and undo.                           *)

\* discardChanges(): `git restore` of the paths from HEAD, index and disk.
RestoreHead ==
    /\ At("restore")
    /\ \E ok \in BOOLEAN :
          /\ Try(CanRestore(flow.paths), ok)
          /\ IF ok THEN /\ index' = AfterReset(flow.paths)
                        /\ work' = [p \in Paths |-> IF p \in flow.paths THEN head[p] ELSE work[p]]
                        /\ moved' = TRUE
                        /\ UNCHANGED <<log, inside, merging>>
                        /\ AfterRestore
                   ELSE Untouched /\ Ended(FALSE)
    /\ KeepRefresh /\ KeepList

\* unAdd(), alone, at a discard's end or before a delete.
UnAdd ==
    /\ At("unAdd")
    /\ \E ok \in BOOLEAN :
          /\ Try(TRUE, ok)
          /\ IF ok THEN IndexBecomes(AfterReset(flow.added)) ELSE Untouched
          /\ AfterUnAdd(ok)
    /\ KeepRefresh /\ KeepList

\* addToIndex() and markResolved() are both `git add`.
AddToIndex ==
    /\ At("addToIndex") \/ At("markResolved")
    /\ \E ok \in BOOLEAN :
          /\ Try(Matches(flow.paths), ok)
          /\ Ended(ok)
          /\ IF ok THEN IndexBecomes(AfterAdd(flow.paths)) ELSE Untouched
    /\ KeepRefresh /\ KeepList

MoveFilesToTrash == MoveToTrash /\ UNCHANGED <<log, index, inside, merging>>

\* Git::uncommittedDiscardPlan(): refused during an operation, with conflicts, or where
\* a nested submodule has changed.
PlanDiscardAll ==
    /\ ~merging
    /\ \A p \in Paths : index[p] # Unmerged
    /\ \A s \in Submodules : InTree(s) = head[s] /\ inside[s] # "DirtyTracked"
    /\ StartDiscardAll(discardPlanFor(NameStatus))
    /\ KeepRefresh /\ KeepSettled /\ UNCHANGED <<moved, failures>>

\* The reset comes first: with the new paths out of the index nothing can delete them.
ResetAll ==
    /\ At("discardAll")
    /\ \E ok \in BOOLEAN :
          /\ Try(TRUE, ok)
          /\ IF ok THEN IndexBecomes(AfterReset(flow.paths \cup flow.added)) ELSE Untouched
          /\ IF ~ok \/ flow.paths = {} THEN Ended(ok) ELSE flow' = [flow EXCEPT !.step = "restore", !.added = {}]
    /\ KeepRefresh /\ KeepList

\* `reset --soft HEAD~1`
Undo ==
    /\ At("undo")
    /\ \E ok \in BOOLEAN :
          /\ Try(Len(log) > 1, ok)
          /\ Ended(ok)
          /\ IF ok THEN /\ log' = SubSeq(log, 1, Len(log) - 1)
                        /\ moved' = TRUE
                        /\ UNCHANGED <<index, work, inside, merging>>
                   ELSE Untouched
    /\ KeepRefresh /\ KeepList

\* abortOperation(): `merge --abort` refuses over a path changed on disk beyond what the
\* merge staged; it leaves submodules on the commit they are on.
AbortOperation ==
    /\ At("abort")
    /\ \E ok \in BOOLEAN :
          /\ Try(merging /\ \A p \in Files : index[p] \in {head[p], work[p], Unmerged}, ok)
          /\ Ended(ok)
          /\ IF ok THEN /\ index' = head
                        /\ work' = [p \in Paths |-> IF p \in Submodules \/ index[p] = head[p] THEN work[p] ELSE head[p]]
                        /\ merging' = FALSE
                        /\ moved' = TRUE
                        /\ UNCHANGED <<log, inside>>
                   ELSE Untouched
    /\ KeepRefresh /\ KeepList

-------------------------------------------------------------------------------
(* The refresh, and the outside.                                             *)

EndRefresh ==
    /\ FinishRefresh
    /\ RestartIfAsked(NewRun, NoRun)
    /\ TakeRows
    /\ UNCHANGED disk

InUse == {p \in Paths : {head[p], index[p], work[p]} # {None}}

OutsideChanges(P) ==
    /\ Cardinality(InUse \cup P) <= MaxPaths
    /\ Touch(P)
    /\ UNCHANGED log

\* A deletion staged by `git rm` is not made an `rm --cached` by writing the file again.
OutsideEdit(p, c) ==
    /\ "edit" \in Outside
    /\ p \in Submodules => c # None /\ Tracked(p)
    /\ c # None /\ index[p] = None /\ head[p] # None => "untrack" \in Outside
    /\ work[p] # c
    /\ work' = [work EXCEPT ![p] = c]
    /\ OutsideChanges({p})
    /\ UNCHANGED <<index, inside, merging>>

\* `git add`, `git add -p` (a content of its own), `git rm`, `git rm --cached`.
OutsideStage(p, c) ==
    /\ "stage" \in Outside
    /\ p \in Submodules => c # None /\ Tracked(p)
    /\ c = None => "untrack" \in Outside \/ work[p] = None \/ head[p] = None
    /\ c # index[p]
    /\ index' = [index EXCEPT ![p] = c]
    /\ OutsideChanges({p})
    /\ UNCHANGED <<work, inside, merging>>

OutsideInside(s, v) ==
    /\ "edit" \in Outside
    /\ Tracked(s)
    /\ inside[s] # v
    /\ inside' = [inside EXCEPT ![s] = v]
    /\ OutsideChanges({s})
    /\ UNCHANGED <<index, work, merging>>

\* A merge that stops, P merged and q in conflict, on disk what it was where only one side
\* deleted it; git begins none over local changes of theirs.
OutsideMerge(P, q, c) ==
    /\ "merge" \in Outside
    /\ ~merging
    /\ \A r \in Paths : index[r] = head[r]
    /\ \A r \in P \cup {q} : head[r] \notin {None, c} /\ work[r] = head[r]
    /\ merging' = TRUE
    /\ index' = [p \in Paths |-> IF p = q THEN Unmerged ELSE IF p \in P THEN c ELSE index[p]]
    /\ \E d \in {c, head[q]} : work' = [p \in Paths |-> IF p \in P THEN c ELSE IF p = q THEN d ELSE work[p]]
    /\ OutsideChanges(P \cup {q})
    /\ UNCHANGED inside

-------------------------------------------------------------------------------

\* One path may have a change staged, another changed on disk; of an operation begun before, p is merged, q untracked.
ChangedBefore ==
    \E p, q \in Paths, c, d \in Held :
        /\ p \in Submodules => {head[p], c} \cap {None} = {}
        /\ q \in Submodules => {head[q], d} \cap {None} = {}
        /\ index = [head EXCEPT ![p] = c]
        /\ work = [index EXCEPT ![q] = IF p = q THEN c ELSE d]
        /\ merging => {p, q} \subseteq Files /\ None \notin {head[p], c, d} /\ head[q] = None

Init ==
    /\ log \in {<<>>} \cup {<<[tree |-> [p \in Paths |-> IF p \in P THEN c ELSE None], joins |-> FALSE, copies |-> NoCopies]>>
                                : P \in {Q \in SUBSET Paths : Cardinality(Q) <= MaxPaths}, c \in Contents}
    /\ merging \in BOOLEAN
    /\ ChangedBefore
    /\ Cardinality(InUse) <= MaxPaths
    /\ inside = [s \in Submodules |-> "Clean"]
    /\ run = NewRun
    /\ ListInit
    /\ outside = IF index = head /\ work = head THEN 0 ELSE 1

CommitSteps == ListStaged \/ ResetOthers \/ AddChecked \/ RunCommit \/ RestoreStaging \/ RollBackAdd
                 \/ AddTracked \/ AddUntracked
OtherSteps == RestoreHead \/ UnAdd \/ AddToIndex \/ MoveFilesToTrash \/ ResetAll \/ Undo
                 \/ AbortOperation

\* What the properties compare a flow's end with.
Noted == [head |-> head, index |-> index, work |-> work, merging |-> merging,
          chosen |-> {p \in Paths : \E e \in checked : p \in {e.path, e.was}}]

OutsideActions ==
    \/ \E p \in Paths, c \in Held : OutsideEdit(p, c) \/ OutsideStage(p, c)
    \/ \E s \in Submodules, v \in {"Clean", "Untracked", "DirtyTracked"} : OutsideInside(s, v)
    \/ \E q \in Files, c \in Contents : \E P \in SUBSET (Files \ {q}) : OutsideMerge(P, q, c)

Begins ==
    /\ Starts \/ PlanDiscardAll
    /\ before' = Noted
    /\ UNCHANGED disk

Answer == AnswerQuery /\ (failures' # failures => spent < MaxEvents) /\ UNCHANGED <<disk, listVars, flowVars>>

Next ==
    \/ Begins
    \/ CommitSteps
    \/ OtherSteps
    \/ Report(NewRun) /\ UNCHANGED disk
    \/ Answer
    \/ EndRefresh
    \/ RefreshIsDue(NewRun) /\ UNCHANGED disk
    \/ UserChecks /\ UNCHANGED disk
    \/ OutsideActions

Spec == Init /\ [][Next]_vars

-------------------------------------------------------------------------------

TypeOK ==
    /\ DiskTypeOK
    /\ RefreshTypeOK
    /\ FlowsTypeOK
    /\ flow.plan # <<>> => flow.plan.reset \cup flow.plan.add \cup DOMAIN flow.plan.saved \subseteq Paths

(***************************************************************************)
(* A list read while nothing changed has a row for every difference        *)
(* between HEAD and the working tree and none besides; its conflicts are   *)
(* the index's, and what may not be committed of a submodule is known.     *)
(***************************************************************************)
RowsTellTheTruth ==
    run.round = 0 /\ state.known /\ ~moved =>
        /\ {e.path : e \in rows} \cup {e.was : e \in {f \in rows : f.was # None}} =
             {p \in Paths : \/ InTree(p) # head[p] \/ IsUntracked(p) \/ index[p] = Unmerged
                            \/ p \in Submodules /\ \E e \in rows : e.path = p /\ contentBlocksPointer(e)}
        /\ unresolvedConflictPaths = {p \in Paths : index[p] = Unmerged}
        /\ \A s \in Submodules : inside[s] = "DirtyTracked" => \E e \in rows : e.path = s /\ ~committable(e)

\* What the flow should commit of a path.
Wanted(p) ==
    IF flow.kind = "merge" THEN IF before.index[p] # None \/ p \in flow.untracked THEN before.work[p] ELSE None
    ELSE IF p \notin before.chosen THEN before.head[p]
    ELSE IF before.index[p] = None /\ before.head[p] # None THEN None
    ELSE before.work[p]

(***************************************************************************)
(* A commit holds the checked rows as they were on disk and, path by path, *)
(* nothing else that the last commit did not (doc/committing.md: "the      *)
(* checked rows are what the next commit contains"), a staged deletion     *)
(* being one whatever is on disk; one that ends an operation holds every   *)
(* tracked change and the untracked files checked.  What was changed       *)
(* outside meanwhile is not held to it, nor is a commit whose list was     *)
(* read before the operation began.                                        *)
(***************************************************************************)
CommitIsTheCheckedRows ==
    Reporting({"commit", "merge"}) /\ flow.ok /\ before.merging = (flow.kind = "merge") =>
        \A p \in Paths : Undisturbed(p) => head[p] = Wanted(p)

(***************************************************************************)
(* A commit made while an operation is in progress takes every tracked     *)
(* change, whatever rows are checked (doc/operations.md).                  *)
(***************************************************************************)
OperationTakesEverything ==
    Reporting({"commit", "merge"}) /\ flow.ok /\ before.merging =>
        \A p \in Paths : Undisturbed(p) /\ before.index[p] # None => head[p] = before.work[p]

(***************************************************************************)
(* What another tool staged of a path that was not checked is staged as it *)
(* was when the commit ends, however it ends, unless the restoring command *)
(* itself failed.                                                          *)
(***************************************************************************)
StagingSurvives ==
    Reporting({"commit"}) /\ ~flow.lost =>
        \A p \in Paths \ before.chosen : Undisturbed(p) /\ before.index[p] # Unmerged
            => index[p] = before.index[p]

(***************************************************************************)
(* A commit that failed leaves no file tracked that was not, whichever     *)
(* step failed: "the Untracked/Added states shown never lie".              *)
(***************************************************************************)
FailedCommitTracksNothing ==
    Reporting({"commit", "merge"}) /\ ~flow.ok /\ ~flow.lost =>
        \A p \in flow.untracked : Undisturbed(p) /\ {before.index[p], before.head[p]} = {None} => index[p] = None

(***************************************************************************)
(* Discarding from an up-to-date list takes no file off the disk that the  *)
(* last commit does not have, the new name of a rename aside, and changes  *)
(* no file it was not asked for: what was never committed is not lost.     *)
(***************************************************************************)
NewFilesStayOnDisk ==
    Reporting({"discard", "discardAll", "unAdd", "add"}) /\ flow.fresh =>
        \A p \in Files : Undisturbed(p) /\ work[p] # before.work[p] =>
            /\ p \in flow.paths
            /\ work[p] = before.head[p]
            /\ work[p] = None => flow.kind = "discard" /\ \E e \in rows : e.path = p /\ e.was # None

(***************************************************************************)
(* A path the user unchecked, listed ever since, is in no path-limited     *)
(* commit (doc/refresh.md: "Check state survives a refresh by path"),      *)
(* unless it became Added, a merge in progress forced it, or a checked     *)
(* rename has it as its old name.                                          *)
(***************************************************************************)
DeclinedStaysOut == flow.kind = "commit" => before.chosen \cap flow.declined = {}

(***************************************************************************)
(* Both: what the user did not choose stays as it is, on disk and out of   *)
(* the commit.                                                             *)
(***************************************************************************)
UnchosenIsLeftAlone == NewFilesStayOnDisk /\ DeclinedStaysOut
===============================================================================
