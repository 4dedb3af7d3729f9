-------------------------------- MODULE HgFlows -------------------------------
(***************************************************************************)
(* The flows of RowFlows on a Mercurial repository, command by command.    *)
(* There is no index to give back: a commit names its paths, so a file it  *)
(* takes must be tracked first and one that is missing recorded removed.   *)
(* Each command may fail, a refresh may be running, and something outside  *)
(* may change the disk between any two of them.  A commit that moved a     *)
(* subrepo's pointer is not undone here: what `uncommit` leaves in         *)
(* .hgsubstate is not modelled.                                            *)
(***************************************************************************)
EXTENDS HgRefresh, RowFlows

vars == <<disk, refreshVars, listVars, flowVars>>

Untouched == UNCHANGED <<disk, moved>>

\* A step that may write to the dirstate only; what it takes out of it has no source there.
DirstateBecomes(t) ==
    /\ tracked' = t
    /\ source' = Without(Files \ t)
    /\ moved' = TRUE
    /\ UNCHANGED <<log, work, inside, merging, unresolved, mergestate>>

-------------------------------------------------------------------------------
(* commit() and commitMergeState()                                           *)

\* Mutant of FilesToTrack: the files forgotten are added again.
FilesToTrackAll == (tracked \cup {p \in flow.paths \cap Files : work[p] # None})
                     \ {p \in flow.paths \cap Files : IsMissing(p)}

FilesToTrack == AfterAddRemove(flow.paths \cap Files)

\* addremove of the files checked, the subrepos left to the commit; where it fails it
\* may have got some of them.
AddRemove ==
    /\ At("commitRows")
    /\ \E ok \in BOOLEAN :
          IF flow.paths \cap Files = {} THEN ok /\ Untouched /\ UNCHANGED failures /\ GoOn("commit")
          ELSE /\ Try(CanAddRemove(flow.paths \cap Files), ok)
               /\ IF ok THEN DirstateBecomes(FilesToTrack) /\ GoOn("commit")
                        ELSE /\ \E P \in SUBSET (flow.paths \cap Files) : DirstateBecomes(AfterAddRemove(P))
                             /\ flow' = RollBackThenReport(flow, FALSE)
    /\ KeepRefresh /\ KeepList

\* commitMergeState(): the untracked files checked are added first.
AddUntracked ==
    /\ At("commitAll")
    /\ \E ok \in BOOLEAN :
          IF flow.untracked = {} THEN ok /\ Untouched /\ UNCHANGED failures /\ GoOn("commit")
          ELSE /\ Try(CanAdd(flow.untracked), ok)
               /\ IF ok THEN DirstateBecomes(AfterAdd(flow.untracked)) /\ GoOn("commit")
                        ELSE /\ \E P \in SUBSET flow.untracked : DirstateBecomes(AfterAdd(P))
                             /\ flow' = RollBackThenReport(flow, FALSE)
    /\ KeepRefresh /\ KeepList

Commits(P) ==
    /\ log' = Committed(AfterCommit(P), [p \in Files |-> IF p \in P THEN source[p] ELSE None])
    /\ source' = Without(P)
    /\ merging' = FALSE
    /\ unresolved' = {} /\ mergestate' = FALSE
    /\ moved' = TRUE
    /\ UNCHANGED <<work, inside, tracked>>

RunCommit ==
    /\ At("commit")
    /\ LET all == flow.kind = "merge"
       IN  \E ok \in BOOLEAN :
              /\ Try(IF all THEN CanCommitAll ELSE CanCommitNamed(flow.paths), ok)
              /\ flow' = RollBackThenReport(flow, ok)
              /\ IF ok THEN Commits(IF all THEN Paths ELSE flow.paths) ELSE Untouched
    /\ KeepRefresh /\ KeepList

\* Mutant of RollBackAdd: a commit that failed forgets nothing.
RollBackNothing ==
    /\ At("rollBack")
    /\ flow' = [flow EXCEPT !.step = "report"]
    /\ Untouched /\ KeepRefresh /\ KeepList /\ UNCHANGED failures

RollBackAdd ==
    /\ At("rollBack")
    /\ \E ok \in BOOLEAN :
          /\ Try(TRUE, ok)
          /\ flow' = [flow EXCEPT !.step = "report", !.lost = ~ok]
          /\ IF ok THEN DirstateBecomes(AfterForget(flow.untracked)) ELSE Untouched
    /\ KeepRefresh /\ KeepList

-------------------------------------------------------------------------------
(* Discard, un-add, add, resolve, delete, undo and abort.                    *)

Revert(P) ==
    /\ tracked' = AfterRevert(P \cap Files)
    /\ source' = Without(P)
    /\ work' = Reverted(P)
    /\ moved' = TRUE
    /\ UNCHANGED <<log, inside, merging, unresolved, mergestate>>

\* discardChanges()
RevertRows ==
    /\ At("restore")
    /\ \E ok \in BOOLEAN :
          /\ Try(TRUE, ok)
          /\ IF ok THEN Revert(flow.paths) /\ AfterRestore ELSE Untouched /\ Ended(FALSE)
    /\ KeepRefresh /\ KeepList

\* submoduleDiscardPlan(), refused during an operation or after one that conflicted.
PlanDiscardAll ==
    /\ ~merging /\ ~mergestate
    /\ StartDiscardAll(discardPlanFor(parseStatus))
    /\ KeepRefresh /\ KeepSettled /\ UNCHANGED <<moved, failures>>

\* discardSubmoduleContent(): both lists in one command.
RevertAll ==
    /\ At("discardAll")
    /\ \E ok \in BOOLEAN :
          /\ Try(TRUE, ok)
          /\ Ended(ok)
          /\ IF ok THEN Revert(flow.paths \cup flow.added) ELSE Untouched
    /\ KeepRefresh /\ KeepList

UnAdd ==
    /\ At("unAdd")
    /\ \E ok \in BOOLEAN :
          /\ Try(flow.added \subseteq tracked, ok)
          /\ IF ok THEN DirstateBecomes(AfterForget(flow.added)) ELSE Untouched
          /\ AfterUnAdd(ok)
    /\ KeepRefresh /\ KeepList

AddToIndex ==
    /\ At("addToIndex")
    /\ \E ok \in BOOLEAN :
          /\ Try(CanAdd(flow.paths), ok)
          /\ Ended(ok)
          /\ IF ok THEN DirstateBecomes(AfterAdd(flow.paths)) ELSE Untouched
    /\ KeepRefresh /\ KeepList

\* `resolve -m`: only the mergestate is written.
MarkResolved ==
    /\ At("markResolved")
    /\ \E ok \in BOOLEAN :
          /\ Try(TRUE, ok)
          /\ Ended(ok)
          /\ unresolved' = IF ok THEN unresolved \ flow.paths ELSE unresolved
          /\ moved' = TRUE
    /\ UNCHANGED <<log, work, inside, merging, tracked, source, mergestate>>
    /\ KeepRefresh /\ KeepList

MoveFilesToTrash == MoveToTrash /\ UNCHANGED <<log, inside, merging, hgState>>

\* `uncommit`: the files stay as they are on disk and in the dirstate.
Undo ==
    /\ At("undo")
    /\ \E ok \in BOOLEAN :
          /\ Try(Len(log) > 1 /\ parentCount = 1 /\ ~merging, ok)
          /\ Ended(ok)
          /\ IF ok THEN /\ log' = SubSeq(log, 1, Len(log) - 1)
                        /\ source' = [p \in Files |-> IF p \in tracked /\ source[p] = None
                                                      THEN log[Len(log)].copies[p] ELSE source[p]]
                        /\ moved' = TRUE
                        /\ UNCHANGED <<work, inside, merging, tracked, unresolved, mergestate>>
                   ELSE Untouched
    /\ KeepRefresh /\ KeepList

\* abortOperation(): `merge --abort`, which updates every tracked file to the parent.
AbortOperation ==
    /\ At("abort")
    /\ \E ok \in BOOLEAN :
          /\ Try(merging, ok)
          /\ Ended(ok)
          /\ IF ok THEN /\ work' = [p \in Paths |-> IF head[p] # None THEN head[p] ELSE work[p]]
                        /\ tracked' = {p \in Files : head[p] # None}
                        /\ source' = NoCopies
                        /\ merging' = FALSE
                        /\ unresolved' = {} /\ mergestate' = FALSE
                        /\ moved' = TRUE
                        /\ UNCHANGED <<log, inside>>
                   ELSE Untouched
    /\ KeepRefresh /\ KeepList

-------------------------------------------------------------------------------
(* The refresh, and the outside.                                             *)

Answer ==
    /\ \E ok \in BOOLEAN :
          /\ \/ \E q \in run.asked : AnswerQuery(q, ok)
             \/ \E q \in run.subs : AnswerSubrepo(q, ok)
          /\ QueryMayFail(ok)
    /\ UNCHANGED <<disk, again, state, files, moved, listVars, flowVars>>

EndRefresh ==
    /\ FinishRefresh
    /\ RestartIfAsked(NewRun, [NoRun EXCEPT !.blind = run.blind])
    /\ TakeRows
    /\ UNCHANGED disk

InUse == {p \in Paths : head[p] # None \/ work[p] # None \/ p \in tracked}

OutsideChanges(P) ==
    /\ Cardinality(InUse \cup P) <= MaxPaths
    /\ Touch(P)
    /\ UNCHANGED log

\* What is on disk changes, of a subrepo the changeset it is on.
OutsideEdit(p, c) ==
    /\ "edit" \in Outside
    /\ p \in Submodules => c # None
    /\ work[p] # c
    /\ work' = [work EXCEPT ![p] = c]
    /\ OutsideChanges({p})
    /\ UNCHANGED <<inside, merging, hgState>>

OutsideInside(s, v) ==
    /\ "edit" \in Outside
    /\ inside[s] # v
    /\ inside' = [inside EXCEPT ![s] = v]
    /\ OutsideChanges({s})
    /\ UNCHANGED <<work, merging, hgState>>

\* `hg add` or `hg forget`
OutsideTrack(p) ==
    /\ "track" \in Outside
    /\ work[p] # None
    /\ tracked' = IF p \in tracked THEN tracked \ {p} ELSE tracked \cup {p}
    /\ source' = Without({p})
    /\ OutsideChanges({p})
    /\ UNCHANGED <<work, inside, merging, unresolved, mergestate>>

\* `hg mv p q`, or `hg cp p q`
OutsideCopy(p, q, keep) ==
    /\ (IF keep THEN "copy" ELSE "move") \in Outside
    /\ p \in tracked /\ head[p] # None /\ work[p] # None
    /\ q \notin tracked /\ {work[q], head[q]} = {None}
    /\ tracked' = (IF keep THEN tracked ELSE tracked \ {p}) \cup {q}
    /\ source' = [source EXCEPT ![p] = None, ![q] = p]
    /\ work' = [work EXCEPT ![q] = work[p], ![p] = IF keep THEN work[p] ELSE None]
    /\ OutsideChanges({p, q})
    /\ UNCHANGED <<inside, merging, unresolved, mergestate>>

\* A merge of P, which of Q left conflicts; hg begins none over local changes.
OutsideMerge(P, Q, c) ==
    /\ "merge" \in Outside
    /\ ~merging /\ ~mergestate
    /\ \A p \in Files : ~ChangedFile(p) \/ IsUnknown(p)
    /\ \A s \in Submodules : ~MovedSubrepo(s) /\ inside[s] # "DirtyTracked"
    /\ \A p \in P : head[p] \notin {None, c}
    /\ \A p \in Q : head[p] # None
    /\ merging' = TRUE
    /\ unresolved' = Q
    /\ mergestate' = (Q # {})
    /\ work' = [p \in Paths |-> IF p \in P THEN c ELSE work[p]]
    /\ OutsideChanges(P \cup Q)
    /\ UNCHANGED <<inside, tracked, source>>

-------------------------------------------------------------------------------

\* One path may be changed on disk, one file added or forgotten.
ChangedBefore ==
    /\ \E q \in Paths, d \in Held : (q \in Submodules => d # None) /\ work = [head EXCEPT ![q] = d]
    /\ \E T \in SUBSET Files : /\ Cardinality(T) <= 1
                               /\ \A p \in T : work[p] # None
                               /\ tracked = {p \in Files : (head[p] # None) # (p \in T)}

Init ==
    /\ log \in {<<>>} \cup {<<[tree |-> [p \in Paths |-> IF p \in P THEN c ELSE None], joins |-> FALSE, copies |-> NoCopies]>>
                                : P \in {Q \in SUBSET Paths : Submodules \subseteq Q /\ Cardinality(Q) <= MaxPaths}, c \in Contents}
    /\ log = <<>> => Submodules = {}
    /\ merging = FALSE
    /\ ChangedBefore
    /\ source = NoCopies
    /\ unresolved = {} /\ mergestate = FALSE
    /\ Cardinality(InUse) <= MaxPaths
    /\ inside = [s \in Submodules |-> "Clean"]
    /\ run = NewRun
    /\ ListInit
    /\ outside = IF work = head /\ tracked = {p \in Files : head[p] # None} THEN 0 ELSE 1

FlowSteps == AddRemove \/ AddUntracked \/ RunCommit \/ RollBackAdd \/ RevertRows \/ RevertAll \/ UnAdd \/ AddToIndex
               \/ MarkResolved \/ MoveFilesToTrash \/ Undo \/ AbortOperation

\* What the properties compare a flow's end with; the old name of a rename goes with it.
Noted == [head |-> head, tracked |-> tracked, work |-> work, merging |-> merging,
          chosen |-> {e.path : e \in checked} \cup ({e.was : e \in checked} \cap (Files \ tracked))]

PointerMovedLast == Len(log) > 1 /\ \E s \in Submodules : head[s] # log[Len(log) - 1].tree[s]

OutsideActions ==
    \/ \E p \in Paths, c \in Held : OutsideEdit(p, c)
    \/ \E s \in Submodules, v \in {"Clean", "Untracked", "DirtyTracked"} : OutsideInside(s, v)
    \/ \E p \in Files : OutsideTrack(p)
    \/ \E p, q \in Files, keep \in BOOLEAN : OutsideCopy(p, q, keep)
    \/ \E P, Q \in SUBSET Files, c \in Contents : OutsideMerge(P, Q, c)

Begins ==
    /\ Starts \/ PlanDiscardAll
    /\ before' = Noted
    /\ flow'.kind = "undo" => ~PointerMovedLast
    /\ UNCHANGED disk

Next ==
    \/ Begins
    \/ FlowSteps
    \/ Report(NewRun) /\ UNCHANGED disk
    \/ Answer
    \/ EndRefresh
    \/ RefreshIsDue(NewRun) /\ UNCHANGED disk
    \/ UserChecks /\ UNCHANGED disk
    \/ OutsideActions

Spec == Init /\ [][Next]_vars

-------------------------------------------------------------------------------

TypeOK ==
    /\ DiskTypeOK
    /\ RefreshTypeOK
    /\ FlowsTypeOK

(***************************************************************************)
(* A list read while nothing changed names every file hg calls changed and *)
(* no other, one removed by its own row or as the old name of a rename; an *)
(* unfinished merge and its conflicts are known, and a subrepo has a row   *)
(* where its pointer moved or where what is inside it blocks a commit.     *)
(***************************************************************************)
RowsTellTheTruth ==
    run.round = 0 /\ state.known /\ ~moved /\ ~run.blind =>
        /\ {e.path : e \in rows} \cup ({e.was : e \in rows} \cap {p \in Files : IsRemoved(p)}) =
             {p \in Files : ChangedFile(p) \/ p \in unresolved}
               \cup {s \in Submodules : MovedSubrepo(s) \/ \E e \in rows : e.path = s /\ contentBlocksPointer(e)}
        /\ \A e \in rows : e.was # None => e.was = source[e.path]
        /\ unresolvedConflictPaths = unresolved /\ state.merging = merging
        /\ \A s \in Submodules : inside[s] = "DirtyTracked" => \E e \in rows : e.path = s /\ ~committable(e)

CommitSucceeded == Reporting({"commit", "merge"}) /\ flow.ok /\ before.merging = (flow.kind = "merge")

\* The last commit has a path as its checked row had it on disk or, unchecked, as the commit before.
HoldsAsChecked(p) ==
    head[p] = IF flow.kind = "commit" /\ p \notin before.chosen THEN before.head[p]
              ELSE IF p \in Submodules \cup before.tracked THEN before.work[p]
              ELSE IF IF flow.kind = "commit" THEN before.head[p] = None ELSE p \in flow.untracked THEN before.work[p]
              ELSE None

(***************************************************************************)
(* A commit holds the checked rows as they were on disk and, path by path, *)
(* nothing else that the last commit did not (doc/committing.md); a file   *)
(* forgotten is committed as removed though it is on disk.  The commit of  *)
(* a merge holds every tracked change and the untracked files checked.     *)
(***************************************************************************)
CommitIsTheCheckedRows ==
    CommitSucceeded => \A p \in Paths : Undisturbed(p) => HoldsAsChecked(p)

(***************************************************************************)
(* The same but for the one case where it does not hold: the name a        *)
(* checked file was copied from is committed with it, though it is tracked *)
(* still and its own row is unchecked.                                     *)
(***************************************************************************)
CommitAddsOnlyCopies ==
    CommitSucceeded =>
        \A p \in Paths : Undisturbed(p) => HoldsAsChecked(p) \/ (flow.kind = "commit" /\ p \in flow.paths \ before.chosen)

(***************************************************************************)
(* A commit that failed, at whichever step, leaves no file tracked that    *)
(* was not, unless the command that forgets it failed too.                 *)
(***************************************************************************)
FailedCommitTracksNothing ==
    Reporting({"commit", "merge"}) /\ ~flow.ok /\ ~flow.lost =>
        \A p \in flow.untracked : Undisturbed(p) /\ p \notin before.tracked => p \notin tracked
===============================================================================
