---------------------------- MODULE GitFlowsProofs ----------------------------
(***************************************************************************)
(* Theorems of GitFlows, for any files, submodules and contents, and any   *)
(* number of flows, failures and changes from outside.                     *)
(***************************************************************************)
EXTENDS GitFlows, ArrivalsProofs, SequenceTheorems

Index == [Paths -> Held \cup {Unmerged}]

\* The stages of the flows that commit path by path, that end an operation, and of the others.
CommitStages == {"commitRows", "reset", "add", "commit", "restoreStaging", "rollBack", "report"}
MergeStages == {"commitAll", "addUntracked", "commit", "rollBack", "report"}
OtherStages == {"none", "restore", "unAdd", "addToIndex", "markResolved", "trash", "discardAll", "undo", "abort", "report"}
OtherKinds == {"none", "discard", "discardAll", "add", "unAdd", "delete", "undo", "abort"}

Saved == UNION {[S -> Held] : S \in SUBSET Paths}
Plan == [reset : SUBSET Paths, add : SUBSET Paths, saved : Saved]

Flow == [kind : OtherKinds \cup {"commit", "merge"}, step : CommitStages \cup MergeStages \cup OtherStages,
         paths : SUBSET Paths, untracked : SUBSET Paths, added : SUBSET Paths, ok : BOOLEAN,
         plan : Plan \cup {<<>>}, touched : SUBSET Paths, fresh : BOOLEAN, declined : SUBSET Paths, lost : BOOLEAN]

Snapshot == [head : Tree, index : Index, work : Tree, merging : BOOLEAN, chosen : SUBSET Paths]

\* A flow is at a stage of its kind.
AtItsStage(f) ==
    /\ f.kind = "commit" => f.step \in CommitStages
    /\ f.kind = "commit" /\ f.step \in {"reset", "add", "commit", "restoreStaging"} => f.plan \in Plan
    /\ f.kind = "merge" => f.step \in MergeStages
    /\ f.kind \in OtherKinds => f.step \in OtherStages

FlowTyped ==
    /\ flow \in Flow
    /\ AtItsStage(flow)
    /\ flow.kind = "none" => flow = NoFlow
    /\ flow.kind # "none" => before \in Snapshot

ContentStates == {"Clean", "Untracked", "DirtyTracked", "Unknown"}
ContentRead == UNION {[S -> ContentStates] : S \in SUBSET Submodules}

Queries == {"status", "tracked", "emptyTree"}

RefreshRun == [round : 0..2, asked : SUBSET Queries, subs : SUBSET Submodules,
               failed : BOOLEAN, trackedError : BOOLEAN, unborn : BOOLEAN, parents : 0..2,
               submodules : SUBSET Submodules, untracked : SUBSET Paths, conflicted : SUBSET Paths,
               diff : SUBSET TrackedEntry, content : ContentRead]

\* What has answered of a run, round by round.
Rounds(r) ==
    /\ r.round = 0 => r = NoRun
    /\ r.round = 1 => r.asked \subseteq FirstRound /\ r.subs = {} /\ DOMAIN r.content = {}
    /\ r.round = 2 => r.asked \subseteq {"emptyTree"} /\ r.subs \subseteq r.submodules
                      /\ DOMAIN r.content = r.submodules \ r.subs

RunTyped == run \in RefreshRun /\ Rounds(run)

ListTyped ==
    /\ CycleTypeOK
    /\ ListTypeOK
    /\ declined \subseteq Paths

Typed == DiskTypeOK /\ RunTyped /\ ListTyped /\ FlowTyped

-------------------------------------------------------------------------------
(* Types. *)

LEMMA TypedMeans == Typed => TypeOK
<1> SUFFICES ASSUME Typed PROVE TypeOK
  OBVIOUS
<1>1. flow.plan # <<>> => flow.plan.reset \cup flow.plan.add \cup DOMAIN flow.plan.saved \subseteq Paths
  BY DEF Typed, FlowTyped, Flow, Plan, Saved
<1>2. flow.paths \cup flow.untracked \cup flow.added \subseteq Paths
  BY DEF Typed, FlowTyped, Flow
<1>3. run.round \in 0..2 /\ run.diff \subseteq TrackedEntry
  BY DEF Typed, RunTyped, RefreshRun
<1> QED
  BY <1>1, <1>2, <1>3 DEF Typed, TypeOK, RefreshTypeOK, FlowsTypeOK, ListTyped

LEMMA NoFlowTyped == NoFlow \in Flow /\ AtItsStage(NoFlow)
BY DEF NoFlow, Flow, AtItsStage, OtherKinds, OtherStages

LEMMA NoRunTyped == NoRun \in RefreshRun /\ Rounds(NoRun) /\ NewRun \in RefreshRun /\ Rounds(NewRun)
<1>1. <<>> \in [{} -> ContentStates] /\ DOMAIN <<>> = {}
  OBVIOUS
<1>2. <<>> \in ContentRead
  BY <1>1 DEF ContentRead
<1>3. NoRun \in RefreshRun
  BY <1>2 DEF NoRun, RefreshRun
<1>4. ASSUME NEW r \in RefreshRun, NEW n \in 0..2, NEW Q \in SUBSET Queries
      PROVE  [r EXCEPT !.round = n, !.asked = Q] \in RefreshRun
  BY DEF RefreshRun
<1>5. NewRun \in RefreshRun
  <2>1. FirstRound \in SUBSET Queries /\ 1 \in 0..2
    BY DEF FirstRound, Queries
  <2> QED
    BY <1>3, <1>4, <2>1 DEF NewRun
<1>6. NewRun.round = 1 /\ NewRun.asked = FirstRound /\ NewRun.subs = {} /\ NewRun.content = <<>>
  BY DEF NewRun, NoRun
<1> QED
  BY <1>1, <1>3, <1>5, <1>6 DEF Rounds, NoRun

LEMMA HeadTyped == log \in Seq(Commit) => head \in Tree /\ parentCount \in 0..2
<1> SUFFICES ASSUME log \in Seq(Commit) PROVE head \in Tree /\ parentCount \in 0..2
  OBVIOUS
<1>1. parentCount \in 0..2
  BY DEF parentCount
<1>2. CASE log = <<>>
  BY <1>1, <1>2 DEF head, Tree, Held
<1>3. CASE log # <<>>
  <2>1. log[Len(log)] \in Commit
    BY <1>3
  <2> QED
    BY <1>1, <1>3, <2>1 DEF head, Commit
<1> QED
  BY <1>2, <1>3

\* What the commands of a flow leave in the index.
LEMMA IndexTyped ==
    ASSUME DiskTypeOK
    PROVE  /\ \A P \in SUBSET Paths : AfterAdd(P) \in Index /\ AfterReset(P) \in Index
           /\ AfterAddTracked \in Index
           /\ \A saved \in Saved : AfterUpdateIndex(saved) \in Index
           /\ head \in Index
<1>1. head \in Tree /\ work \in Tree /\ index \in Index
  BY HeadTyped DEF DiskTypeOK, WorkingTreeTypeOK, Index
<1>2. None \in Held
  BY DEF Held
<1>3. AfterAddTracked \in Index
  BY <1>1, <1>2 DEF AfterAddTracked, InTree, Tracked, Tree, Index
<1>4. \A saved \in Saved : \A p \in DOMAIN saved : saved[p] \in Held
  BY DEF Saved
<1>5. \A saved \in Saved : AfterUpdateIndex(saved) \in Index
  BY <1>1, <1>4 DEF AfterUpdateIndex, Index
<1>6. \A P \in SUBSET Paths : AfterAdd(P) \in Index /\ AfterReset(P) \in Index
  BY <1>1 DEF AfterAdd, AfterReset, Tree, Index
<1> QED
  BY <1>1, <1>3, <1>5, <1>6 DEF Tree, Index
LEMMA FlowUnderway ==
    ASSUME Typed, flow.step \notin {"none"}
    PROVE  flow.kind # "none" /\ before \in Snapshot
BY DEF Typed, FlowTyped, NoFlow

\* A step of a flow under way that leaves disk and flow as they should be.
LEMMA StepTyped ==
    ASSUME Typed, KeepRefresh, KeepList, DiskTypeOK', moved' \in BOOLEAN,
           flow' \in Flow, AtItsStage(flow'), flow' = NoFlow \/ flow'.kind = flow.kind, flow.step # "none"
    PROVE  Typed'
<1>1. flow.kind # "none" /\ before \in Snapshot
  BY FlowUnderway
<1>2. FlowTyped'
  BY <1>1 DEF FlowTyped, KeepList, NoFlow
<1>3. RunTyped'
  BY DEF Typed, RunTyped, KeepRefresh
<1>4. ListTyped'
  BY DEF Typed, ListTyped, CycleTypeOK, ListTypeOK, KeepRefresh, KeepList, KeepSettled, listVars
<1> QED
  BY <1>2, <1>3, <1>4 DEF Typed

LEMMA IndexStepTyped == DiskTypeOK /\ index' \in Index /\ KeepTree => DiskTypeOK'
BY DEF DiskTypeOK, WorkingTreeTypeOK, KeepTree, Index

LEMMA UntouchedTyped == DiskTypeOK /\ moved \in BOOLEAN /\ Untouched => DiskTypeOK' /\ moved' \in BOOLEAN
BY DEF DiskTypeOK, WorkingTreeTypeOK, Untouched, disk

LEMMA IndexBecomesTyped ==
    ASSUME DiskTypeOK, NEW i \in Index, IndexBecomes(i)
    PROVE  DiskTypeOK' /\ moved' \in BOOLEAN
BY IndexStepTyped DEF IndexBecomes

Moved(f) == f \in Flow /\ AtItsStage(f) /\ f.kind = flow.kind

\* Where the ends of a step may lead.
LEMMA FlowMoves ==
    ASSUME flow \in Flow, AtItsStage(flow), flow.kind # "none"
    PROVE  /\ \A ok \in BOOLEAN : Moved([flow EXCEPT !.step = "report", !.ok = ok])
           /\ flow.kind = "commit" =>
                /\ \A s \in CommitStages : flow.plan \in Plan => Moved([flow EXCEPT !.step = s])
                /\ \A s \in CommitStages, p \in Plan : Moved([flow EXCEPT !.plan = p, !.step = s])
                /\ \A ok \in BOOLEAN :
                      flow.plan \in Plan => Moved([flow EXCEPT !.ok = ok, !.step = "restoreStaging"])
           /\ flow.kind = "merge" => \A s \in MergeStages : Moved([flow EXCEPT !.step = s])
           /\ flow.kind \in OtherKinds => \A s \in OtherStages : Moved([flow EXCEPT !.step = s])
<1> USE DEF Moved, AtItsStage
<1>1. "report" \in CommitStages \cap MergeStages \cap OtherStages /\ "restoreStaging" \in CommitStages
  BY DEF CommitStages, MergeStages, OtherStages
<1>2. flow.kind \notin OtherKinds \/ flow.kind \notin {"commit", "merge"}
  BY DEF OtherKinds
<1>3. ASSUME NEW ok \in BOOLEAN PROVE Moved([flow EXCEPT !.step = "report", !.ok = ok])
  BY <1>1 DEF Flow
<1>4. ASSUME flow.kind = "commit", NEW s \in CommitStages, flow.plan \in Plan PROVE Moved([flow EXCEPT !.step = s])
  BY <1>2, <1>4 DEF Flow
<1>5. ASSUME flow.kind = "commit", NEW s \in CommitStages, NEW p \in Plan
      PROVE  Moved([flow EXCEPT !.plan = p, !.step = s])
  BY <1>2, <1>5 DEF Flow
<1>6. ASSUME flow.kind = "commit", NEW ok \in BOOLEAN, flow.plan \in Plan
      PROVE  Moved([flow EXCEPT !.ok = ok, !.step = "restoreStaging"])
  BY <1>1, <1>2, <1>6 DEF Flow
<1>7. ASSUME flow.kind = "merge", NEW s \in MergeStages PROVE Moved([flow EXCEPT !.step = s])
  BY <1>2, <1>7 DEF Flow
<1>8. ASSUME flow.kind \in OtherKinds, NEW s \in OtherStages PROVE Moved([flow EXCEPT !.step = s])
  BY <1>2, <1>8 DEF Flow
<1> HIDE DEF Moved, AtItsStage
<1> QED
  BY <1>3, <1>4, <1>5, <1>6, <1>7, <1>8

LEMMA RollBackMoves ==
    ASSUME flow \in Flow, AtItsStage(flow), flow.kind \in {"commit", "merge"}, NEW ok \in BOOLEAN
    PROVE  /\ Moved(RollBackThenReport(flow, ok))
           /\ \A l \in BOOLEAN : Moved([RollBackThenReport(flow, ok) EXCEPT !.lost = l])
           /\ \A l \in BOOLEAN : Moved([flow EXCEPT !.step = "report", !.lost = l])
<1> USE DEF Moved, AtItsStage
<1>1. {"report", "rollBack"} \subseteq CommitStages \cap MergeStages /\ flow.kind \notin OtherKinds
  BY DEF CommitStages, MergeStages, OtherKinds
<1>2. Moved(RollBackThenReport(flow, ok))
  BY <1>1 DEF Flow, RollBackThenReport
<1>3. ASSUME NEW l \in BOOLEAN PROVE Moved([flow EXCEPT !.step = "report", !.lost = l])
  BY <1>1 DEF Flow
<1>4. ASSUME NEW f, Moved(f), NEW l \in BOOLEAN PROVE Moved([f EXCEPT !.lost = l])
  BY <1>1, <1>4 DEF Flow
<1> HIDE DEF Moved, AtItsStage
<1> QED
  BY <1>2, <1>3, <1>4

LEMMA PlanTyped ==
    ASSUME DiskTypeOK, flow \in Flow
    PROVE  plannedIndexChange(flow.paths) \in Plan
<1>1. index \in Index /\ head \in Tree
  BY HeadTyped DEF DiskTypeOK, WorkingTreeTypeOK, Index
<1> DEFINE gone == {p \in Staged : index[p] \in {None, Unmerged}}
           others == Staged \ flow.paths
           kept == {q \in others : index[q] # Unmerged}
<1>2. kept \in SUBSET Paths /\ \A q \in kept : index[q] \in Held
  BY <1>1 DEF Index, Staged
<1>3. [p \in kept |-> index[p]] \in Saved
  <2>1. [p \in kept |-> index[p]] \in [kept -> Held]
    BY <1>2
  <2> QED
    BY <1>2, <2>1 DEF Saved
<1>4. others \in SUBSET Paths /\ flow.paths \ gone \in SUBSET Paths
  BY DEF Staged, Flow
<1> QED
  BY <1>3, <1>4 DEF plannedIndexChange, Plan
-------------------------------------------------------------------------------
(* The steps of the flows keep the types. *)

LEMMA FlowTypedMeans ==
    ASSUME Typed
    PROVE  /\ flow \in Flow /\ AtItsStage(flow) /\ DiskTypeOK /\ moved \in BOOLEAN
           /\ flow.paths \in SUBSET Paths /\ flow.untracked \in SUBSET Paths /\ flow.added \in SUBSET Paths
           /\ head \in Tree /\ work \in Tree
BY HeadTyped DEF Typed, FlowTyped, ListTyped, CycleTypeOK, Flow, DiskTypeOK, WorkingTreeTypeOK

LEMMA ListStagedTyped == Typed /\ ListStaged => Typed'
<1> SUFFICES ASSUME Typed, ListStaged PROVE Typed'
  OBVIOUS
<1> USE FlowTypedMeans
<1>1. flow.step = "commitRows" /\ flow.kind = "commit"
  BY DEF ListStaged, At, AtItsStage, CommitStages, MergeStages, OtherStages, Flow
<1>2. DiskTypeOK' /\ moved' \in BOOLEAN
  BY UntouchedTyped DEF ListStaged
<1>3. Moved(flow')
  <2> DEFINE p == plannedIndexChange(flow.paths)
             s == IF p.reset # {} THEN "reset" ELSE StepAfterReset(p)
  <2>1. flow' = [flow EXCEPT !.plan = p, !.step = s] \/ \E ok \in BOOLEAN : Ended(ok)
    BY DEF ListStaged
  <2>2. p \in Plan /\ s \in CommitStages
    BY PlanTyped DEF CommitStages, StepAfterReset
  <2> HIDE DEF p, s
  <2> QED
    BY <1>1, <2>1, <2>2, FlowMoves DEF Ended
<1> QED
  BY <1>1, <1>2, <1>3, StepTyped DEF ListStaged, Moved

LEMMA RestoreMoves ==
    ASSUME Typed, flow.kind = "commit", flow.plan \in Plan, NEW ok \in BOOLEAN, RestoreThenReport(ok)
    PROVE  Moved(flow')
BY FlowTypedMeans, FlowMoves, RollBackMoves DEF RestoreThenReport

LEMMA ResetOthersTyped == Typed /\ ResetOthers => Typed'
<1> SUFFICES ASSUME Typed, ResetOthers PROVE Typed'
  OBVIOUS
<1> USE FlowTypedMeans
<1>1. flow.step = "reset" /\ flow.kind = "commit" /\ flow.plan \in Plan
  BY DEF ResetOthers, At, AtItsStage, CommitStages, MergeStages, OtherStages, Flow
<1>2. AfterReset(flow.plan.reset) \in Index
  <2>1. flow.plan.reset \cap Paths \in SUBSET Paths
    OBVIOUS
  <2>2. AfterReset(flow.plan.reset) = AfterReset(flow.plan.reset \cap Paths)
    BY DEF AfterReset
  <2> QED
    BY <2>1, <2>2, IndexTyped
<1>3. DiskTypeOK' /\ moved' \in BOOLEAN
  BY <1>2, UntouchedTyped, IndexBecomesTyped DEF ResetOthers
<1>4. Moved(flow')
  <2>1. StepAfterReset(flow.plan) \in CommitStages
    BY DEF StepAfterReset, CommitStages
  <2> QED
    BY <1>1, <2>1, FlowMoves, RestoreMoves DEF ResetOthers, GoOn
<1> QED
  BY <1>1, <1>3, <1>4, StepTyped DEF ResetOthers, Moved

LEMMA AddCheckedTyped == Typed /\ AddChecked => Typed'
<1> SUFFICES ASSUME Typed, AddChecked PROVE Typed'
  OBVIOUS
<1> USE FlowTypedMeans
<1>1. flow.step = "add" /\ flow.kind = "commit" /\ flow.plan \in Plan
  BY DEF AddChecked, At, AtItsStage, CommitStages, MergeStages, OtherStages, Flow
<1>2. AfterAdd(flow.plan.add) \in Index
  <2>1. flow.plan.add \cap Paths \in SUBSET Paths
    OBVIOUS
  <2>2. AfterAdd(flow.plan.add) = AfterAdd(flow.plan.add \cap Paths)
    BY DEF AfterAdd
  <2> QED
    BY <2>1, <2>2, IndexTyped
<1>3. DiskTypeOK' /\ moved' \in BOOLEAN
  BY <1>2, UntouchedTyped, IndexBecomesTyped DEF AddChecked
<1>4. Moved(flow')
  <2>1. "commit" \in CommitStages
    BY DEF CommitStages
  <2> QED
    BY <1>1, <2>1, FlowMoves, RestoreMoves DEF AddChecked, GoOn
<1> QED
  BY <1>1, <1>3, <1>4, StepTyped DEF AddChecked, Moved

LEMMA RunCommitTyped == Typed /\ RunCommit => Typed'
<1> SUFFICES ASSUME Typed, RunCommit PROVE Typed'
  OBVIOUS
<1> USE FlowTypedMeans
<1>1. flow.step = "commit" /\ flow.kind \in {"commit", "merge"} /\ (flow.kind = "commit" => flow.plan \in Plan)
  BY DEF RunCommit, At, AtItsStage, CommitStages, MergeStages, OtherStages, Flow
<1>2. DiskTypeOK' /\ moved' \in BOOLEAN
  <2>1. CASE Untouched
    BY <2>1, UntouchedTyped
  <2>2. CASE /\ Committable /\ log' = Committed(index, NoCopies) /\ merging' = FALSE /\ moved' = TRUE
             /\ UNCHANGED <<index, work, inside>>
    <3>1. index \in Tree
      BY <2>2 DEF DiskTypeOK, Committable, Tree
    <3>2. [tree |-> index, joins |-> merging, copies |-> NoCopies] \in Commit
      BY <3>1 DEF Commit, NoCopies, DiskTypeOK, WorkingTreeTypeOK
    <3>3. log' \in Seq(Commit)
      BY <2>2, <3>2, AppendProperties DEF Committed, DiskTypeOK, WorkingTreeTypeOK
    <3> QED
      BY <2>2, <3>3 DEF DiskTypeOK, WorkingTreeTypeOK
  <2> QED
    BY <2>1, <2>2 DEF RunCommit, Try
<1>3. Moved(flow')
  BY <1>1, RestoreMoves, RollBackMoves DEF RunCommit, RestoresAfter
<1> QED
  BY <1>1, <1>2, <1>3, StepTyped DEF RunCommit, Moved

LEMMA RestoreStagingTyped == Typed /\ RestoreStaging => Typed'
<1> SUFFICES ASSUME Typed, RestoreStaging PROVE Typed'
  OBVIOUS
<1> USE FlowTypedMeans
<1>1. flow.step = "restoreStaging" /\ flow.kind = "commit" /\ flow.plan \in Plan
  BY DEF RestoreStaging, At, AtItsStage, CommitStages, MergeStages, OtherStages, Flow
<1>2. AfterUpdateIndex(flow.plan.saved) \in Index
  BY <1>1, IndexTyped DEF Plan
<1>3. DiskTypeOK' /\ moved' \in BOOLEAN
  BY <1>2, UntouchedTyped, IndexBecomesTyped DEF RestoreStaging
<1>4. Moved(flow')
  <2>1. flow.ok \in BOOLEAN
    BY DEF Flow
  <2> QED
    BY <1>1, <2>1, RollBackMoves DEF RestoreStaging
<1> QED
  BY <1>1, <1>3, <1>4, StepTyped DEF RestoreStaging, Moved
LEMMA RollBackAddTyped == Typed /\ RollBackAdd => Typed'
<1> SUFFICES ASSUME Typed, RollBackAdd PROVE Typed'
  OBVIOUS
<1> USE FlowTypedMeans
<1>1. flow.step = "rollBack" /\ flow.kind \in {"commit", "merge"}
  BY DEF RollBackAdd, At, AtItsStage, CommitStages, MergeStages, OtherStages, Flow
<1>2. DiskTypeOK' /\ moved' \in BOOLEAN
  BY UntouchedTyped, IndexTyped, IndexBecomesTyped DEF RollBackAdd
<1>3. Moved(flow')
  <2>1. PICK l \in BOOLEAN : flow' = [flow EXCEPT !.step = "report", !.lost = l]
    <3>1. PICK ok \in BOOLEAN : flow' = [flow EXCEPT !.step = "report", !.lost = @ \/ ~ok]
      BY DEF RollBackAdd
    <3>2. (flow.lost \/ ~ok) \in BOOLEAN
      OBVIOUS
    <3> QED
      BY <3>1, <3>2
  <2> QED
    BY <1>1, <2>1, RollBackMoves
<1> QED
  BY <1>1, <1>2, <1>3, StepTyped DEF RollBackAdd, Moved

LEMMA AddAllTyped == Typed /\ (AddTracked \/ AddUntracked) => Typed'
<1> SUFFICES ASSUME Typed, AddTracked \/ AddUntracked PROVE Typed'
  OBVIOUS
<1> USE FlowTypedMeans
<1>1. flow.step \in {"commitAll", "addUntracked"} /\ flow.kind = "merge"
  BY DEF AddTracked, AddUntracked, At, AtItsStage, CommitStages, MergeStages, OtherStages, Flow
<1>2. DiskTypeOK' /\ moved' \in BOOLEAN
  BY UntouchedTyped, IndexTyped, IndexBecomesTyped DEF AddTracked, AddUntracked
<1>3. Moved(flow')
  <2>1. {"commit", "addUntracked"} \subseteq MergeStages
    BY DEF MergeStages
  <2> QED
    BY <1>1, <2>1, FlowMoves DEF AddTracked, AddUntracked, GoOn, Ended
<1> QED
  BY <1>1, <1>2, <1>3, StepTyped DEF AddTracked, AddUntracked, Moved

\* The stages of a flow that neither commits path by path nor ends an operation.
Elsewhere == {"restore", "unAdd", "addToIndex", "markResolved", "trash", "discardAll", "undo", "abort"}

LEMMA OtherStep ==
    ASSUME Typed, flow.step \in Elsewhere
    PROVE  /\ flow.kind \in OtherKinds /\ flow.kind # "none" /\ flow.step # "none"
           /\ \A ok \in BOOLEAN : Ended(ok) => Moved(flow')
           /\ \A s \in OtherStages : GoOn(s) => Moved(flow')
<1>1. flow.kind \in OtherKinds /\ flow.kind # "none" /\ flow.step # "none"
  BY FlowTypedMeans, FlowUnderway
     DEF Elsewhere, AtItsStage, CommitStages, MergeStages, OtherStages, OtherKinds, Flow
<1> QED
  BY <1>1, FlowTypedMeans, FlowMoves DEF Ended, GoOn

LEMMA RestoreHeadTyped == Typed /\ RestoreHead => Typed'
<1> SUFFICES ASSUME Typed, RestoreHead PROVE Typed'
  OBVIOUS
<1> USE FlowTypedMeans
<1>1. flow.step \in Elsewhere
  BY DEF RestoreHead, At, Elsewhere
<1>2. DiskTypeOK' /\ moved' \in BOOLEAN
  <2>1. CASE Untouched
    BY <2>1, UntouchedTyped
  <2>2. CASE /\ index' = AfterReset(flow.paths)
             /\ work' = [p \in Paths |-> IF p \in flow.paths THEN head[p] ELSE work[p]]
             /\ moved' = TRUE /\ UNCHANGED <<log, inside, merging>>
    <3>1. index' \in Index /\ work' \in Tree
      BY <2>2, IndexTyped DEF Tree
    <3> QED
      BY <2>2, <3>1 DEF DiskTypeOK, WorkingTreeTypeOK, Index
  <2> QED
    BY <2>1, <2>2 DEF RestoreHead
<1>3. Moved(flow')
  BY <1>1, OtherStep DEF RestoreHead, AfterRestore, OtherStages
<1> QED
  BY <1>1, <1>2, <1>3, OtherStep, StepTyped DEF RestoreHead, Moved

LEMMA UnAddTyped == Typed /\ UnAdd => Typed'
<1> SUFFICES ASSUME Typed, UnAdd PROVE Typed'
  OBVIOUS
<1> USE FlowTypedMeans
<1>1. flow.step \in Elsewhere
  BY DEF UnAdd, At, Elsewhere
<1>2. DiskTypeOK' /\ moved' \in BOOLEAN
  BY UntouchedTyped, IndexTyped, IndexBecomesTyped DEF UnAdd
<1>3. Moved(flow') \/ flow' = NoFlow
  BY <1>1, OtherStep DEF UnAdd, AfterUnAdd, OtherStages
<1> QED
  BY <1>1, <1>2, <1>3, OtherStep, StepTyped, NoFlowTyped DEF UnAdd, Moved

LEMMA AddToIndexTyped == Typed /\ AddToIndex => Typed'
<1> SUFFICES ASSUME Typed, AddToIndex PROVE Typed'
  OBVIOUS
<1> USE FlowTypedMeans
<1>1. flow.step \in Elsewhere
  BY DEF AddToIndex, At, Elsewhere
<1>2. DiskTypeOK' /\ moved' \in BOOLEAN
  BY UntouchedTyped, IndexTyped, IndexBecomesTyped DEF AddToIndex
<1>3. Moved(flow')
  BY <1>1, OtherStep DEF AddToIndex
<1> QED
  BY <1>1, <1>2, <1>3, OtherStep, StepTyped DEF AddToIndex, Moved

LEMMA TrashTyped == Typed /\ MoveFilesToTrash => Typed'
<1> SUFFICES ASSUME Typed, MoveFilesToTrash PROVE Typed'
  OBVIOUS
<1> USE FlowTypedMeans
<1>1. flow.step \in Elsewhere
  BY DEF MoveFilesToTrash, MoveToTrash, At, Elsewhere
<1>2. DiskTypeOK' /\ moved' \in BOOLEAN
  <2>1. work' \in Tree
    BY DEF MoveFilesToTrash, MoveToTrash, Tree, Held
  <2> QED
    BY <2>1 DEF MoveFilesToTrash, MoveToTrash, DiskTypeOK, WorkingTreeTypeOK
<1>3. Moved(flow')
  <2>1. \E ok \in BOOLEAN : Ended(ok)
    BY DEF MoveFilesToTrash, MoveToTrash
  <2> QED
    BY <1>1, <2>1, OtherStep
<1> QED
  BY <1>1, <1>2, <1>3, OtherStep, StepTyped DEF MoveFilesToTrash, MoveToTrash, Moved

LEMMA ResetAllTyped == Typed /\ ResetAll => Typed'
<1> SUFFICES ASSUME Typed, ResetAll PROVE Typed'
  OBVIOUS
<1> USE FlowTypedMeans
<1>1. flow.step \in Elsewhere
  BY DEF ResetAll, At, Elsewhere
<1>2. DiskTypeOK' /\ moved' \in BOOLEAN
  <2>1. flow.paths \cup flow.added \in SUBSET Paths
    OBVIOUS
  <2> QED
    BY <2>1, UntouchedTyped, IndexTyped, IndexBecomesTyped DEF ResetAll
<1>3. Moved(flow')
  <2>1. CASE \E ok \in BOOLEAN : Ended(ok)
    BY <1>1, <2>1, OtherStep
  <2>2. CASE flow' = [flow EXCEPT !.step = "restore", !.added = {}]
    <3>1. flow.kind \notin {"commit", "merge"} /\ "restore" \in OtherStages
      BY <1>1, OtherStep DEF OtherKinds, OtherStages
    <3> QED
      BY <2>2, <3>1 DEF Moved, AtItsStage, Flow
  <2> QED
    BY <2>1, <2>2 DEF ResetAll
<1> QED
  BY <1>1, <1>2, <1>3, OtherStep, StepTyped DEF ResetAll, Moved

LEMMA UndoTyped == Typed /\ Undo => Typed'
<1> SUFFICES ASSUME Typed, Undo PROVE Typed'
  OBVIOUS
<1> USE FlowTypedMeans
<1>1. flow.step \in Elsewhere
  BY DEF Undo, At, Elsewhere
<1>2. DiskTypeOK' /\ moved' \in BOOLEAN
  <2>1. CASE Untouched
    BY <2>1, UntouchedTyped
  <2>2. CASE /\ Len(log) > 1 /\ log' = SubSeq(log, 1, Len(log) - 1) /\ moved' = TRUE
             /\ UNCHANGED <<index, work, inside, merging>>
    <3>1. log' \in Seq(Commit)
      BY <2>2, SubSeqProperties DEF DiskTypeOK, WorkingTreeTypeOK
    <3> QED
      BY <2>2, <3>1 DEF DiskTypeOK, WorkingTreeTypeOK
  <2> QED
    BY <2>1, <2>2 DEF Undo, Try
<1>3. Moved(flow')
  BY <1>1, OtherStep DEF Undo
<1> QED
  BY <1>1, <1>2, <1>3, OtherStep, StepTyped DEF Undo, Moved

LEMMA AbortTyped == Typed /\ AbortOperation => Typed'
<1> SUFFICES ASSUME Typed, AbortOperation PROVE Typed'
  OBVIOUS
<1> USE FlowTypedMeans
<1>1. flow.step \in Elsewhere
  BY DEF AbortOperation, At, Elsewhere
<1>2. DiskTypeOK' /\ moved' \in BOOLEAN
  <2>1. CASE Untouched
    BY <2>1, UntouchedTyped
  <2>2. CASE /\ index' = head
             /\ work' = [p \in Paths |-> IF p \in Submodules \/ index[p] = head[p] THEN work[p] ELSE head[p]]
             /\ merging' = FALSE /\ moved' = TRUE /\ UNCHANGED <<log, inside>>
    <3>1. index' \in Index /\ work' \in Tree
      BY <2>2, IndexTyped DEF Tree
    <3> QED
      BY <2>2, <3>1 DEF DiskTypeOK, WorkingTreeTypeOK, Index
  <2> QED
    BY <2>1, <2>2 DEF AbortOperation
<1>3. Moved(flow')
  BY <1>1, OtherStep DEF AbortOperation
<1> QED
  BY <1>1, <1>2, <1>3, OtherStep, StepTyped DEF AbortOperation, Moved

LEMMA FlowStepsTyped == Typed /\ (CommitSteps \/ OtherSteps) => Typed'
BY ListStagedTyped, ResetOthersTyped, AddCheckedTyped, RunCommitTyped, RestoreStagingTyped, RollBackAddTyped,
   AddAllTyped, RestoreHeadTyped, UnAddTyped, AddToIndexTyped, TrashTyped, ResetAllTyped, UndoTyped, AbortTyped
   DEF CommitSteps, OtherSteps
-------------------------------------------------------------------------------
(* The renames of a diff. *)

\* A path that went and one that came holding the same.
RenamePairs == {r \in Files \X Files : /\ head[r[1]] # None /\ InTree(r[1]) = None
                                       /\ head[r[2]] = None /\ InTree(r[2]) = head[r[1]]}
OneToOne(m) == \A r, s \in m : r = s \/ (r[1] # s[1] /\ r[2] # s[2])

\* Renames pairs no path twice: of the finitely many ways to pair them one has the most pairs.
LEMMA RenamesPair == Renames \in SUBSET RenamePairs /\ OneToOne(Renames)
<1> DEFINE M == {m \in SUBSET RenamePairs : OneToOne(m)}
           Largest(m) == OneToOne(m) /\ \A n \in SUBSET RenamePairs : OneToOne(n) => Cardinality(n) <= Cardinality(m)
<1>1. IsFiniteSet(RenamePairs)
  <2>1. IsFiniteSet(Files \X Files)
    BY WorkingTreeAssumption, FS_Product
  <2> QED
    BY <2>1, FS_Subset DEF RenamePairs
<1>2. IsFiniteSet(M) /\ \A m \in M : Cardinality(m) \in Nat
  <2>1. IsFiniteSet(SUBSET RenamePairs) /\ M \in SUBSET (SUBSET RenamePairs)
    BY <1>1, FS_SUBSET
  <2>2. \A m \in M : IsFiniteSet(m)
    BY <1>1, FS_Subset
  <2> QED
    BY <2>1, <2>2, FS_Subset, FS_CardinalityType
<1>3. {} \in M
  BY DEF OneToOne
<1>4. PICK m \in M : \A k \in M : Cardinality(k) <= Cardinality(m)
  <2> DEFINE f == [k \in M |-> Cardinality(k)]
  <2>1. \A k \in M : f[k] \in Int
    BY <1>2
  <2>2. PICK m \in M : \A k \in M : f[k] <= f[m]
    <3> HIDE DEF f, M
    <3> QED
      BY <1>2, <1>3, <2>1, LastOf
  <2> QED
    BY <2>2
<1>5. \E k \in SUBSET RenamePairs : Largest(k)
  BY <1>4
<1>6. Renames = CHOOSE k \in SUBSET RenamePairs : Largest(k)
  BY DEF Renames, RenamePairs, OneToOne
<1> HIDE DEF Largest
<1>7. Renames \in SUBSET RenamePairs /\ Largest(Renames)
  BY <1>5, <1>6
<1> QED
  BY <1>7 DEF Largest

LEMMA NameStatusTyped == log \in Seq(Commit) /\ work \in Tree => NameStatus \in SUBSET TrackedEntry
<1>1. Renames \in SUBSET (Files \X Files)
  BY RenamesPair DEF RenamePairs
<1>2. \A r \in Renames : [path |-> r[2], was |-> r[1], type |-> "Renamed"] \in TrackedEntry
  BY <1>1 DEF TrackedEntry, Paths
<1>3. \A p \in Paths, t \in {"Added", "Deleted", "Modified"} : [path |-> p, was |-> None, type |-> t] \in TrackedEntry
  BY DEF TrackedEntry
<1> QED
  BY <1>2, <1>3 DEF NameStatus, Differing
-------------------------------------------------------------------------------
(* The beginnings of the flows, and what happens between their steps, keep the types. *)

LEMMA BeginTyped ==
    ASSUME Typed, NEW k, NEW s, NEW P, k \in OtherKinds \cup {"commit", "merge"},
           s \in CommitStages \cup MergeStages \cup OtherStages, P \in SUBSET Paths
    PROVE  Begin(k, s, P) \in Flow /\ Begin(k, s, P).kind = k /\ Begin(k, s, P).step = s /\ Begin(k, s, P).paths = P
<1> DEFINE f == Begin(k, s, P)
<1>1. (run.round = 0 /\ ~moved) \in BOOLEAN /\ declined \in SUBSET Paths
  BY DEF Typed, ListTyped
<1>2. ASSUME NEW g \in Flow, NEW b \in BOOLEAN, NEW d \in SUBSET Paths
      PROVE  [g EXCEPT !.kind = k, !.step = s, !.paths = P, !.fresh = b, !.declined = d] \in Flow
  BY <1>2 DEF Flow
<1>3. f \in Flow
  <2>1. CASE run.round = 0 /\ ~moved
    <3>1. f = [NoFlow EXCEPT !.kind = k, !.step = s, !.paths = P, !.fresh = TRUE, !.declined = declined]
      BY <2>1 DEF Begin
    <3> HIDE DEF f
    <3> QED
      BY <1>1, <1>2, <3>1, NoFlowTyped
  <2>2. CASE ~(run.round = 0 /\ ~moved)
    <3>1. f = [NoFlow EXCEPT !.kind = k, !.step = s, !.paths = P, !.fresh = FALSE, !.declined = declined]
      BY <2>2 DEF Begin
    <3> HIDE DEF f
    <3> QED
      BY <1>1, <1>2, <3>1, NoFlowTyped
  <2> QED
    BY <2>1, <2>2
<1>4. f.kind = k /\ f.step = s /\ f.paths = P
  BY DEF Begin, NoFlow
<1> QED
  BY <1>3, <1>4

LEMMA RowPaths ==
    ASSUME Typed, NEW R \in SUBSET rows
    PROVE  /\ Named(R) \in SUBSET Paths
           /\ {e.path : e \in R} \in SUBSET Paths
BY DEF Typed, ListTyped, ListTypeOK, FileEntry, Named

\* How a flow begins.
Started(f) == f \in Flow /\ AtItsStage(f) /\ f.kind # "none"

LEMMA StartsTyped == Typed /\ Starts => Started(flow') /\ (StartCommit \/ flow'.kind \notin {"commit", "merge"})
<1> DEFINE Done == Started(flow') /\ (StartCommit \/ flow'.kind \notin {"commit", "merge"})
<1> SUFFICES ASSUME Typed, Starts PROVE Done
  OBVIOUS
<1>0. /\ "commitRows" \in CommitStages /\ "commitAll" \in MergeStages
      /\ {"unAdd", "restore", "markResolved", "addToIndex", "trash", "undo", "abort"} \subseteq OtherStages
      /\ {"discard", "add", "unAdd", "delete", "undo", "abort"} \subseteq OtherKinds
      /\ OtherKinds \cap {"commit", "merge", "none"} = {"none"}
  BY DEF CommitStages, MergeStages, OtherStages, OtherKinds
<1>1. CASE StartCommit
  <2>1. checkedPathspec \in SUBSET Paths /\ checkedUntrackedPaths \in SUBSET Paths
    BY DEF Typed, ListTyped, ListTypeOK, FileEntry, checkedPathspec, checkedUntrackedPaths
  <2> DEFINE m == Begin("merge", "commitAll", checkedPathspec)
             c == Begin("commit", "commitRows", checkedPathspec)
  <2>2. m \in Flow /\ m.kind = "merge" /\ m.step = "commitAll"
    BY <2>1, <1>0, BeginTyped
  <2>3. c \in Flow /\ c.kind = "commit" /\ c.step = "commitRows"
    BY <2>1, <1>0, BeginTyped
  <2>4. flow' = [m EXCEPT !.untracked = checkedUntrackedPaths] \/ flow' = [c EXCEPT !.untracked = checkedUntrackedPaths]
    BY <1>1 DEF StartCommit
  <2> HIDE DEF m, c
  <2>5. Started(flow')
    BY <1>0, <2>1, <2>2, <2>3, <2>4 DEF Started, AtItsStage, Flow
  <2> QED
    BY <1>1, <2>5
<1>2. ASSUME NEW R \in SUBSET rows, StartDiscard(R) PROVE Done
  <2> DEFINE added == {e \in R : ~e.sub /\ e.type = "Added"}
             restored == {e \in R \ added : discardable(e)}
             s == IF restored = {} THEN "unAdd" ELSE "restore"
             f == Begin("discard", s, Named(restored))
  <2>1. Named(restored) \in SUBSET Paths /\ Named(added) \in SUBSET Paths
    BY RowPaths
  <2>2. f \in Flow /\ f.kind = "discard" /\ f.step = s
    BY <2>1, <1>0, BeginTyped
  <2>3. flow' = [f EXCEPT !.added = Named(added)]
    BY <1>2 DEF StartDiscard
  <2>4. s \in {"unAdd", "restore"}
    OBVIOUS
  <2> HIDE DEF f, s
  <2> QED
    BY <1>0, <2>1, <2>2, <2>3, <2>4 DEF Started, AtItsStage, Flow
<1>3. ASSUME NEW R \in SUBSET rows, NEW type, StartAdd(R, type) PROVE Done
  <2> DEFINE wanted == {e \in R : ~e.sub /\ ~e.nested /\ e.type = type}
             s == IF type = "Conflicted" THEN "markResolved" ELSE "addToIndex"
  <2>1. {e.path : e \in wanted} \in SUBSET Paths /\ s \in {"markResolved", "addToIndex"}
    BY RowPaths
  <2>2. flow' = Begin("add", s, {e.path : e \in wanted})
    BY <1>3 DEF StartAdd
  <2> HIDE DEF wanted, s
  <2>3. flow' \in Flow /\ flow'.kind = "add" /\ flow'.step = s
    BY <2>1, <2>2, <1>0, BeginTyped
  <2> QED
    BY <1>0, <2>1, <2>3 DEF Started, AtItsStage
<1>4. ASSUME NEW R \in SUBSET rows, StartUnAdd(R) PROVE Done
  <2> DEFINE added == {e \in R : ~e.sub /\ e.type = "Added"}
             f == Begin("unAdd", "unAdd", {})
  <2>1. Named(added) \in SUBSET Paths /\ {} \in SUBSET Paths
    BY RowPaths
  <2>2. f \in Flow /\ f.kind = "unAdd" /\ f.step = "unAdd"
    BY <2>1, <1>0, BeginTyped
  <2>3. flow' = [f EXCEPT !.added = Named(added)]
    BY <1>4 DEF StartUnAdd
  <2> HIDE DEF f
  <2> QED
    BY <1>0, <2>1, <2>2, <2>3 DEF Started, AtItsStage, Flow
<1>5. ASSUME NEW R \in SUBSET rows, StartDelete(R) PROVE Done
  <2> DEFINE deleted == {e \in R : ~e.sub /\ ~e.nested /\ e.type # "Deleted"}
             added == {e \in deleted : e.type = "Added"}
             s == IF added = {} THEN "trash" ELSE "unAdd"
             f == Begin("delete", s, {e.path : e \in deleted})
             A == {e.path : e \in added}
  <2>1. {e.path : e \in deleted} \in SUBSET Paths /\ A \in SUBSET Paths /\ s \in {"trash", "unAdd"}
    BY RowPaths
  <2>2. f \in Flow /\ f.kind = "delete" /\ f.step = s
    BY <2>1, <1>0, BeginTyped
  <2>3. flow' = [f EXCEPT !.added = A]
    BY <1>5 DEF StartDelete
  <2> HIDE DEF f, A, s
  <2> QED
    BY <1>0, <2>1, <2>2, <2>3 DEF Started, AtItsStage, Flow
<1>6. CASE StartUndo \/ StartAbort
  <2>1. flow' = Begin("undo", "undo", {}) \/ flow' = Begin("abort", "abort", {})
    BY <1>6 DEF StartUndo, StartAbort
  <2> QED
    BY <2>1, <1>0, BeginTyped DEF Started, AtItsStage
<1> QED
  BY <1>1, <1>2, <1>3, <1>4, <1>5, <1>6 DEF Starts

LEMMA PlanDiscardAllTyped == Typed /\ PlanDiscardAll => Started(flow') /\ flow'.kind = "discardAll"
<1> SUFFICES ASSUME Typed, PlanDiscardAll PROVE Started(flow') /\ flow'.kind = "discardAll"
  OBVIOUS
<1> DEFINE plan == discardPlanFor(NameStatus)
           f == Begin("discardAll", "discardAll", plan.restored)
<1>1. plan.restored \in SUBSET Paths /\ plan.keptOnDisk \in SUBSET Paths
  <2>1. NameStatus \in SUBSET TrackedEntry
    BY NameStatusTyped DEF Typed, DiskTypeOK, WorkingTreeTypeOK
  <2> QED
    BY <2>1 DEF discardPlanFor, TrackedEntry
<1> HIDE DEF plan
<1>2. f \in Flow /\ f.kind = "discardAll" /\ f.step = "discardAll"
  BY <1>1, BeginTyped DEF OtherKinds, OtherStages
<1>3. flow' = [f EXCEPT !.added = plan.keptOnDisk, !.fresh = TRUE]
  BY DEF PlanDiscardAll, StartDiscardAll, plan
<1> HIDE DEF f
<1> QED
  BY <1>1, <1>2, <1>3 DEF Started, AtItsStage, Flow, OtherStages, OtherKinds

LEMMA NotedTyped == Typed => Noted \in Snapshot
<1> SUFFICES ASSUME Typed PROVE Noted \in Snapshot
  OBVIOUS
<1>1. head \in Tree /\ work \in Tree /\ index \in Index /\ merging \in BOOLEAN
  BY FlowTypedMeans DEF DiskTypeOK, WorkingTreeTypeOK, Index
<1> QED
  BY <1>1 DEF Noted, Snapshot

LEMMA BeginsTyped == Typed /\ Begins => Typed'
<1> SUFFICES ASSUME Typed, Begins PROVE Typed'
  OBVIOUS
<1>1. Started(flow')
  BY StartsTyped, PlanDiscardAllTyped DEF Begins
<1>2. before' \in Snapshot
  BY NotedTyped DEF Begins
<1>3. UNCHANGED <<disk, run, again, state, files, moved, listVars, declined>>
  BY DEF Begins, Starts, PlanDiscardAll, KeepRefresh, KeepSettled
<1>4. FlowTyped'
  BY <1>1, <1>2 DEF FlowTyped, Started
<1>5. DiskTypeOK' /\ RunTyped' /\ ListTyped'
  BY <1>3 DEF Typed, DiskTypeOK, WorkingTreeTypeOK, RunTyped, ListTyped, CycleTypeOK, ListTypeOK, disk, listVars
<1> QED
  BY <1>4, <1>5 DEF Typed
\* What leaves the disk and the flow alone.
LEMMA ListStepTyped ==
    ASSUME Typed, RunTyped', ListTyped', UNCHANGED <<disk, flow, before>>
    PROVE  Typed'
<1>1. DiskTypeOK'
  BY DEF Typed, DiskTypeOK, WorkingTreeTypeOK, disk
<1>2. FlowTyped'
  BY DEF Typed, FlowTyped
<1> QED
  BY <1>1, <1>2 DEF Typed

LEMMA RefreshTyped ==
    ASSUME Typed, Refresh(NewRun), UNCHANGED <<state, files, listVars, declined>>
    PROVE  RunTyped' /\ ListTyped'
<1>1. RunTyped'
  BY NoRunTyped DEF Typed, RunTyped, Refresh
<1>2. again' \in BOOLEAN /\ moved' \in BOOLEAN
  BY DEF Typed, ListTyped, CycleTypeOK, Refresh
<1> QED
  BY <1>1, <1>2 DEF Typed, ListTyped, CycleTypeOK, ListTypeOK, listVars

LEMMA ReportTyped == Typed /\ Report(NewRun) /\ UNCHANGED disk => Typed'
<1> SUFFICES ASSUME Typed, Report(NewRun), UNCHANGED disk PROVE Typed'
  OBVIOUS
<1>1. RunTyped' /\ ListTyped'
  BY RefreshTyped DEF Report
<1>2. FlowTyped'
  BY NoFlowTyped DEF Report, FlowTyped, NoFlow
<1>3. DiskTypeOK'
  BY DEF Typed, DiskTypeOK, WorkingTreeTypeOK, disk
<1> QED
  BY <1>1, <1>2, <1>3 DEF Typed

LEMMA RefreshIsDueTyped == Typed /\ RefreshIsDue(NewRun) /\ UNCHANGED disk => Typed'
<1> SUFFICES ASSUME Typed, RefreshIsDue(NewRun), UNCHANGED disk PROVE Typed'
  OBVIOUS
<1>1. UNCHANGED <<state, files, listVars, declined, flow, before>> /\ Refresh(NewRun)
  BY DEF RefreshIsDue, flowVars
<1> QED
  BY <1>1, RefreshTyped, ListStepTyped

\* A run keeps its type and its books when a query answers.
LEMMA AnswerFirstTyped ==
    ASSUME Typed, NEW q \in run.asked \cap FirstRound, NEW ok \in BOOLEAN, AnswerFirst(q, ok)
    PROVE  RunTyped'
<1>1. run \in RefreshRun /\ Rounds(run) /\ run.round = 1
  BY DEF Typed, RunTyped, AnswerFirst
<1> DEFINE r == Answered(q, run)
<1>2. r \in RefreshRun /\ r.round = 1 /\ r.asked \subseteq FirstRound /\ r.subs = {} /\ DOMAIN r.content = {}
  BY <1>1 DEF Answered, RefreshRun, Rounds
<1> HIDE DEF r
<1>3. StatusRead(r) \in RefreshRun /\ StatusRead(r).round = 1 /\ StatusRead(r).asked = r.asked
      /\ StatusRead(r).subs = r.subs /\ StatusRead(r).content = r.content
  <2>1. /\ (log = <<>>) \in BOOLEAN /\ parentCount \in 0..2
        /\ {s \in Submodules : Tracked(s)} \in SUBSET Submodules
        /\ {p \in Paths : IsUntracked(p)} \in SUBSET Paths
        /\ {p \in Paths : index[p] = Unmerged} \in SUBSET Paths
    BY HeadTyped DEF Typed, DiskTypeOK, WorkingTreeTypeOK
  <2> QED
    BY <1>2, <2>1 DEF StatusRead, RefreshRun
<1>4. NameStatus \in SUBSET TrackedEntry
  BY NameStatusTyped DEF Typed, DiskTypeOK, WorkingTreeTypeOK
<1>5. \/ run' = StatusRead(r) \/ run' = [r EXCEPT !.failed = TRUE]
      \/ run' = [r EXCEPT !.diff = NameStatus] \/ run' = [r EXCEPT !.trackedError = TRUE]
  BY DEF AnswerFirst, FirstRound, r
<1>6. run' \in RefreshRun /\ run'.round = 1 /\ run'.asked = r.asked /\ run'.subs = r.subs /\ run'.content = r.content
  <2>1. CASE run' = StatusRead(r)
    BY <1>3, <1>2, <2>1
  <2>2. CASE run' = [r EXCEPT !.failed = TRUE] \/ run' = [r EXCEPT !.trackedError = TRUE]
    BY <1>2, <2>2 DEF RefreshRun
  <2>3. CASE run' = [r EXCEPT !.diff = NameStatus]
    BY <1>2, <1>4, <2>3 DEF RefreshRun
  <2> QED
    BY <1>5, <2>1, <2>2, <2>3
<1> QED
  BY <1>2, <1>6 DEF RunTyped, Rounds

LEMMA StartDependentTyped == Typed /\ StartDependentQueries => RunTyped'
<1> SUFFICES ASSUME Typed, StartDependentQueries PROVE RunTyped'
  OBVIOUS
<1> DEFINE Q == IF run.unborn THEN {"emptyTree"} ELSE {}
<1>1. run \in RefreshRun /\ Rounds(run) /\ run.round = 1
  BY DEF Typed, RunTyped, StartDependentQueries
<1>2. Q \in SUBSET Queries /\ Q \subseteq {"emptyTree"}
  BY DEF Queries
<1>3. run' = [run EXCEPT !.round = 2, !.asked = Q, !.subs = run.submodules]
  BY DEF StartDependentQueries
<1> HIDE DEF Q
<1>4. run' \in RefreshRun /\ run'.round = 2 /\ run'.asked = Q /\ run'.subs = run.submodules
      /\ run'.submodules = run.submodules /\ run'.content = run.content
  <2>1. ASSUME NEW n \in 0..2, NEW S \in SUBSET Submodules
        PROVE  [run EXCEPT !.round = n, !.asked = Q, !.subs = S] \in RefreshRun
    BY <1>1, <1>2 DEF RefreshRun
  <2>2. ASSUME NEW S \in SUBSET Submodules
        PROVE  /\ [run EXCEPT !.round = 2, !.asked = Q, !.subs = S].submodules = run.submodules
               /\ [run EXCEPT !.round = 2, !.asked = Q, !.subs = S].content = run.content
    BY <1>1, <1>2 DEF RefreshRun
  <2>3. run.submodules \in SUBSET Submodules
    BY <1>1 DEF RefreshRun
  <2>4. run'.round = 2 /\ run'.asked = Q /\ run'.subs = run.submodules
    BY <1>1, <1>3 DEF RefreshRun
  <2> QED
    <3>1. 2 \in 0..2
      OBVIOUS
    <3> QED
      BY <1>3, <2>1, <2>2, <2>3, <2>4, <3>1
<1> QED
  BY <1>1, <1>2, <1>4 DEF RunTyped, Rounds

LEMMA AnswerEmptyTreeTyped ==
    ASSUME Typed, NEW ok \in BOOLEAN, AnswerEmptyTree(ok)
    PROVE  RunTyped'
<1>1. run \in RefreshRun /\ Rounds(run) /\ run.round = 2
  BY DEF Typed, RunTyped, AnswerEmptyTree
<1> DEFINE r == Answered("emptyTree", run)
<1>2. r \in RefreshRun /\ r.round = 2 /\ r.asked \subseteq {"emptyTree"} /\ r.subs \subseteq r.submodules
      /\ DOMAIN r.content = r.submodules \ r.subs
  BY <1>1 DEF Answered, RefreshRun, Rounds
<1>3. run' = [r EXCEPT !.diff = NameStatus, !.trackedError = FALSE] \/ run' = [r EXCEPT !.trackedError = TRUE]
  BY DEF AnswerEmptyTree
<1>4. NameStatus \in SUBSET TrackedEntry
  BY NameStatusTyped DEF Typed, DiskTypeOK, WorkingTreeTypeOK
<1> HIDE DEF r
<1>5. run' \in RefreshRun /\ run'.round = 2 /\ run'.asked = r.asked /\ run'.subs = r.subs
      /\ run'.submodules = r.submodules /\ run'.content = r.content
  <2>1. ASSUME NEW D \in SUBSET TrackedEntry PROVE [r EXCEPT !.diff = D, !.trackedError = FALSE] \in RefreshRun
    BY <1>2 DEF RefreshRun
  <2>2. [r EXCEPT !.trackedError = TRUE] \in RefreshRun
    BY <1>2 DEF RefreshRun
  <2>3. run' \in RefreshRun
    BY <1>3, <1>4, <2>1, <2>2
  <2>4. run'.round = 2 /\ run'.asked = r.asked /\ run'.subs = r.subs
        /\ run'.submodules = r.submodules /\ run'.content = r.content
    BY <1>2, <1>3 DEF RefreshRun
  <2> QED
    BY <2>3, <2>4
<1> QED
  BY <1>2, <1>5 DEF RunTyped, Rounds

LEMMA AnswerInsideTyped ==
    ASSUME Typed, NEW s \in Submodules, NEW ok \in BOOLEAN, AnswerInside(s, ok)
    PROVE  RunTyped'
<1>1. run \in RefreshRun /\ Rounds(run) /\ s \in run.subs
  BY DEF Typed, RunTyped, AnswerInside
<1>2. run.round = 2
  BY <1>1 DEF Rounds, NoRun, RefreshRun
<1> DEFINE c == [q \in DOMAIN run.content \cup {s} |->
                    IF q = s THEN (IF ok THEN inside[s] ELSE "Unknown") ELSE run.content[q]]
<1>3. run' = [run EXCEPT !.subs = run.subs \ {s}, !.content = c]
  BY DEF AnswerInside
<1>4. c \in ContentRead /\ DOMAIN c = DOMAIN run.content \cup {s}
  <2>1. PICK S \in SUBSET Submodules : run.content \in [S -> ContentStates]
    BY <1>1 DEF RefreshRun, ContentRead
  <2>2. inside[s] \in ContentStates /\ "Unknown" \in ContentStates
    BY DEF Typed, DiskTypeOK, WorkingTreeTypeOK, ContentStates
  <2>3. c \in [DOMAIN run.content \cup {s} -> ContentStates]
    BY <2>1, <2>2
  <2>4. DOMAIN run.content \cup {s} \in SUBSET Submodules
    BY <2>1
  <2> QED
    BY <2>3, <2>4 DEF ContentRead
<1> HIDE DEF c
<1>5. run' \in RefreshRun /\ run'.round = 2 /\ run'.asked = run.asked /\ run'.subs = run.subs \ {s}
      /\ run'.submodules = run.submodules /\ run'.content = c
  BY <1>1, <1>2, <1>3, <1>4 DEF RefreshRun
<1>6. run.asked \subseteq {"emptyTree"} /\ run.subs \subseteq run.submodules /\ DOMAIN run.content = run.submodules \ run.subs
  BY <1>1, <1>2 DEF Rounds
<1> QED
  BY <1>1, <1>4, <1>5, <1>6 DEF RunTyped, Rounds

LEMMA AnswerTyped == Typed /\ Answer => Typed'
<1> SUFFICES ASSUME Typed, Answer PROVE Typed'
  OBVIOUS
<1>1. RunTyped'
  BY AnswerFirstTyped, StartDependentTyped, AnswerEmptyTreeTyped, AnswerInsideTyped DEF Answer, AnswerQuery
<1>2. UNCHANGED <<again, state, files, moved, disk, listVars, flowVars>>
  BY DEF Answer, AnswerQuery
<1> QED
  BY <1>1, <1>2, ListStepTyped DEF Typed, ListTyped, CycleTypeOK, ListTypeOK, listVars, flowVars
\* The rows a run comes to are entries of the list.
LEMMA RowsTyped ==
    ASSUME run \in RefreshRun, Rounds(run), run.round = 2, run.subs = {}
    PROVE  filesFromRun(run) \in SUBSET FileEntry
<1>1. /\ run.diff \in SUBSET TrackedEntry /\ run.submodules \in SUBSET Submodules
      /\ run.conflicted \in SUBSET Paths /\ run.untracked \in SUBSET Paths
      /\ \A s \in run.submodules : run.content[s] \in ContentStates
  <2>1. DOMAIN run.content = run.submodules
    BY DEF Rounds, RefreshRun
  <2>2. PICK S \in SUBSET Submodules : run.content \in [S -> ContentStates]
    BY DEF RefreshRun, ContentRead
  <2> QED
    BY <2>1, <2>2 DEF RefreshRun
<1>2. \A d \in run.diff : diffRow(d, run) \in FileEntry
  BY <1>1 DEF diffRow, FileEntry, TrackedEntry, ContentStates
<1>3. \A p \in Paths, t \in {"Conflicted", "Untracked"} : plainRow(p, t) \in FileEntry
  BY DEF plainRow, FileEntry
<1>4. \A S \in SUBSET run.submodules : contentRows(S, run) \subseteq FileEntry
  BY <1>1 DEF contentRows, FileEntry, Paths
<1> QED
  BY <1>1, <1>2, <1>3, <1>4 DEF filesFromRun

LEMMA EndRefreshTyped == Typed /\ EndRefresh => Typed'
<1> SUFFICES ASSUME Typed, EndRefresh PROVE Typed'
  OBVIOUS
<1>1. run \in RefreshRun /\ Rounds(run) /\ run.round = 2 /\ run.subs = {}
  BY DEF Typed, RunTyped, EndRefresh, FinishRefresh
<1>2. RunTyped'
  BY NoRunTyped DEF EndRefresh, RestartIfAsked, RunTyped
<1>3. again' \in BOOLEAN /\ moved' \in BOOLEAN /\ UNCHANGED <<disk, flow, before, policy>>
  BY DEF EndRefresh, RestartIfAsked, TakeRows, Typed, ListTyped, CycleTypeOK
<1>4. files' \in SUBSET FileEntry
  BY <1>1, RowsTyped DEF EndRefresh, FinishRefresh, Establish, Typed, ListTyped, CycleTypeOK
<1>5. state' \in [known : BOOLEAN, merging : BOOLEAN, unborn : BOOLEAN, parents : 0..2]
  <2>1. CASE state' = [state EXCEPT !.known = FALSE]
    BY <2>1 DEF Typed, ListTyped, CycleTypeOK
  <2>2. CASE state' = [known |-> TRUE, merging |-> merging, unborn |-> run.unborn, parents |-> run.parents]
    <3>1. merging \in BOOLEAN /\ run.unborn \in BOOLEAN /\ run.parents \in 0..2
      BY <1>1 DEF Typed, DiskTypeOK, WorkingTreeTypeOK, RefreshRun
    <3> QED
      BY <2>2, <3>1
  <2> QED
    BY <2>1, <2>2 DEF EndRefresh, FinishRefresh, Establish
<1>6. rows' = files' /\ mergeMode' = state'.merging /\ checked' \subseteq rows' /\ declined' \subseteq declined
  BY DEF EndRefresh, TakeRows, setEntries
<1>7. mergeMode' \in BOOLEAN
  BY <1>5, <1>6
<1>8. ListTyped'
  BY <1>3, <1>4, <1>5, <1>6, <1>7 DEF Typed, ListTyped, CycleTypeOK, ListTypeOK
<1> QED
  BY <1>2, <1>3, <1>8, ListStepTyped

LEMMA UserChecksTyped == Typed /\ UserChecks /\ UNCHANGED disk => Typed'
<1> SUFFICES ASSUME Typed, UserChecks, UNCHANGED disk PROVE Typed'
  OBVIOUS
<1>1. checked' \subseteq rows
  BY DEF UserChecks, setRowsChecked, applyChecked, Typed, ListTyped, ListTypeOK
<1>2. UNCHANGED <<refreshVars, rows, mergeMode, policy, flow, before>>
  BY DEF UserChecks
<1>3. checked \subseteq rows /\ rows \subseteq FileEntry /\ declined \subseteq Paths
  BY DEF Typed, ListTyped, ListTypeOK
<1>4. declined' \subseteq Paths
  BY <1>3 DEF UserChecks, FileEntry
<1> QED
  BY <1>1, <1>2, <1>4, ListStepTyped
     DEF Typed, RunTyped, ListTyped, CycleTypeOK, ListTypeOK, refreshVars

LEMMA OutsideTyped == Typed /\ OutsideActions => Typed'
<1> SUFFICES ASSUME Typed, OutsideActions PROVE Typed'
  OBVIOUS
<1>1. PICK P \in SUBSET Paths : OutsideChanges(P)
  <2>1. \A p \in Paths, c \in Held : OutsideEdit(p, c) \/ OutsideStage(p, c) => OutsideChanges({p})
    BY DEF OutsideEdit, OutsideStage
  <2>2. \A s \in Submodules : \A v : OutsideInside(s, v) => OutsideChanges({s})
    BY DEF OutsideInside
  <2>3. \A q \in Files, c \in Contents : \A P \in SUBSET (Files \ {q}) : OutsideMerge(P, q, c) => OutsideChanges(P \cup {q})
    BY DEF OutsideMerge
  <2> QED
    BY <2>1, <2>2, <2>3 DEF OutsideActions, Paths
<1>2. /\ log' = log /\ moved' = TRUE /\ UNCHANGED <<run, again, state, files, listVars, before, declined>>
      /\ flow' = IF flow.kind = "none" THEN flow ELSE [flow EXCEPT !.touched = flow.touched \cup P]
  BY <1>1 DEF OutsideChanges, Touch, KeepRefresh
<1>3. DiskTypeOK'
  <2>1. /\ work \in Tree /\ index \in Index /\ inside \in [Submodules -> {"Clean", "Untracked", "DirtyTracked"}]
        /\ merging \in BOOLEAN /\ log \in Seq(Commit)
    BY DEF Typed, DiskTypeOK, WorkingTreeTypeOK, Index
  <2>2. ASSUME NEW p \in Paths, NEW c \in Held, OutsideEdit(p, c) \/ OutsideStage(p, c)
        PROVE  work' \in Tree /\ index' \in Index /\ UNCHANGED <<inside, merging>>
    BY <2>1, <2>2 DEF OutsideEdit, OutsideStage, Tree, Index
  <2>3. ASSUME NEW s \in Submodules, NEW v \in {"Clean", "Untracked", "DirtyTracked"}, OutsideInside(s, v)
        PROVE  inside' \in [Submodules -> {"Clean", "Untracked", "DirtyTracked"}] /\ UNCHANGED <<work, index, merging>>
    BY <2>1, <2>3 DEF OutsideInside
  <2>4. ASSUME NEW q \in Files, NEW c \in Contents, NEW R \in SUBSET (Files \ {q}), OutsideMerge(R, q, c)
        PROVE  work' \in Tree /\ index' \in Index /\ merging' \in BOOLEAN /\ inside' = inside
    <3>1. c \in Held /\ head \in Tree
      BY HeadTyped, <2>1 DEF Held
    <3>2. index' \in Index
      BY <2>1, <2>4, <3>1 DEF OutsideMerge, Index
    <3>3. PICK d \in {c, head[q]} : work' = [p \in Paths |-> IF p \in R THEN c ELSE IF p = q THEN d ELSE work[p]]
      BY <2>4 DEF OutsideMerge
    <3>4. work' \in Tree
      BY <2>1, <3>1, <3>3 DEF Tree, Paths
    <3> QED
      BY <2>4, <3>2, <3>4 DEF OutsideMerge
  <2> QED
    BY <1>2, <2>1, <2>2, <2>3, <2>4 DEF OutsideActions, DiskTypeOK, WorkingTreeTypeOK, Index
<1>4. FlowTyped'
  <2>1. CASE flow.kind = "none"
    BY <1>2, <2>1 DEF Typed, FlowTyped
  <2>2. CASE flow.kind # "none"
    <3>1. flow' = [flow EXCEPT !.touched = flow.touched \cup P]
      BY <1>2, <2>2
    <3>2. flow' \in Flow /\ flow'.kind = flow.kind /\ flow'.step = flow.step /\ flow'.plan = flow.plan
      BY <3>1 DEF Typed, FlowTyped, Flow
    <3> QED
      BY <1>2, <2>2, <3>2 DEF Typed, FlowTyped, AtItsStage
  <2> QED
    BY <2>1, <2>2
<1>5. RunTyped' /\ ListTyped'
  BY <1>2 DEF Typed, RunTyped, ListTyped, CycleTypeOK, ListTypeOK, listVars
<1> QED
  BY <1>3, <1>4, <1>5 DEF Typed

LEMMA InitTyped == Init => Typed
<1> SUFFICES ASSUME Init PROVE Typed
  OBVIOUS
<1>1. log \in Seq(Commit) /\ work \in Tree /\ index \in Index
  <2>1. ASSUME NEW P \in SUBSET Paths, NEW c \in Contents
        PROVE  <<[tree |-> [p \in Paths |-> IF p \in P THEN c ELSE None], joins |-> FALSE, copies |-> NoCopies]>>
                  \in Seq(Commit)
    BY DEF Commit, Tree, Held, NoCopies
  <2>2. log \in Seq(Commit)
    <3>1. CASE log = <<>>
      BY <3>1
    <3>2. CASE log # <<>>
      <4>1. PICK P \in SUBSET Paths, c \in Contents :
               log = <<[tree |-> [p \in Paths |-> IF p \in P THEN c ELSE None], joins |-> FALSE, copies |-> NoCopies]>>
        <5>1. log \in {<<>>} \cup
                 {<<[tree |-> [p \in Paths |-> IF p \in P THEN c ELSE None], joins |-> FALSE, copies |-> NoCopies]>>
                    : P \in {Q \in SUBSET Paths : Cardinality(Q) <= MaxPaths}, c \in Contents}
          BY DEF Init
        <5>2. PICK P \in {Q \in SUBSET Paths : Cardinality(Q) <= MaxPaths}, c \in Contents :
                 log = <<[tree |-> [p \in Paths |-> IF p \in P THEN c ELSE None], joins |-> FALSE, copies |-> NoCopies]>>
          BY <3>2, <5>1
        <5> QED
          BY <5>2
      <4> QED
        BY <2>1, <4>1
    <3> QED
      BY <3>1, <3>2
  <2>3. head \in Tree
    BY <2>2, HeadTyped
  <2>4. PICK p \in Paths, q \in Paths, c \in Held, d \in Held :
            index = [head EXCEPT ![p] = c] /\ work = [index EXCEPT ![q] = IF p = q THEN c ELSE d]
    <3>1. ChangedBefore
      BY DEF Init
    <3> QED
      BY <3>1 DEF ChangedBefore
  <2> QED
    BY <2>2, <2>3, <2>4 DEF Tree, Index
<1>2. DiskTypeOK
  BY <1>1 DEF Init, DiskTypeOK, WorkingTreeTypeOK, Index
<1>3. RunTyped
  BY NoRunTyped DEF Init, RunTyped
<1>4. FlowTyped
  BY NoFlowTyped DEF Init, ListInit, FlowTyped, NoFlow
<1>5. ListTyped
  <2>1. ListInit
    BY DEF Init
  <2>2. state \in [known : BOOLEAN, merging : BOOLEAN, unborn : BOOLEAN, parents : 0..2]
    BY <2>1 DEF ListInit, FirstState
  <2> QED
    BY <2>1, <2>2, RowFlowsAssumption DEF ListInit, ListTyped, CycleTypeOK, ListTypeOK
<1> QED
  BY <1>2, <1>3, <1>4, <1>5 DEF Typed

LEMMA NextTyped == Typed /\ [Next]_vars => Typed'
<1> SUFFICES ASSUME Typed, [Next]_vars PROVE Typed'
  OBVIOUS
<1>1. CASE UNCHANGED vars
  <2>1. RunTyped' /\ ListTyped' /\ UNCHANGED <<disk, flow, before>>
    BY <1>1 DEF vars, refreshVars, listVars, flowVars, Typed, RunTyped, ListTyped, CycleTypeOK, ListTypeOK
  <2> QED
    BY <2>1, ListStepTyped
<1> QED
  BY <1>1, BeginsTyped, FlowStepsTyped, ReportTyped, AnswerTyped, EndRefreshTyped, RefreshIsDueTyped, UserChecksTyped,
     OutsideTyped DEF Next

LEMMA AlwaysTyped == Spec => []Typed
<1> QED
  BY InitTyped, NextTyped, PTL DEF Spec

(***************************************************************************)
(* The disk, the run of a refresh, the list and the flow keep their types, *)
(* and a flow's plan only names paths.                                     *)
(***************************************************************************)
THEOREM GitTypeCorrect == Spec => []TypeOK
<1> QED
  BY AlwaysTyped, TypedMeans, PTL
-------------------------------------------------------------------------------
(* Commits.  For a path nothing outside touched since the flow began, where *)
(* each stage has its index; the two ends of a commit follow from it.       *)

Steady == Paths \ flow.touched

StagedBefore(p) == before.index[p] # before.head[p]

\* The plan read from an index nobody else changed at p.
Planned(p) ==
    /\ p \in flow.plan.reset <=> p \notin flow.paths /\ StagedBefore(p)
    /\ p \in flow.plan.add <=> p \in flow.paths /\ ~(StagedBefore(p) /\ before.index[p] \in {None, Unmerged})
    /\ p \in DOMAIN flow.plan.saved <=> p \in flow.plan.reset /\ before.index[p] # Unmerged
    /\ p \in DOMAIN flow.plan.saved => flow.plan.saved[p] = before.index[p]

AsFound(p) == index[p] = before.index[p]
AsReset(p) == index[p] = IF p \in flow.plan.reset THEN before.head[p] ELSE before.index[p]
AsAdded(p) ==
    index[p] = IF p \in flow.plan.add THEN before.work[p]
               ELSE IF p \in flow.plan.reset THEN before.head[p] ELSE before.index[p]

StagingKept(p) == p \notin flow.paths /\ before.index[p] # Unmerged => AsFound(p)
NewLeftOut(p) == p \in flow.untracked /\ before.index[p] = None /\ before.head[p] = None => index[p] = None

CommitStage(p) ==
    /\ flow.step \in {"commitRows", "reset"} => AsFound(p)
    /\ flow.step \in {"reset", "add", "commit", "restoreStaging"} => Planned(p)
    /\ flow.step = "add" => AsReset(p)
    /\ flow.step = "commit" => AsAdded(p)
    /\ flow.step = "restoreStaging" => AsFound(p) \/ AsReset(p) \/ AsAdded(p)
    /\ flow.step \in {"rollBack", "report"} /\ ~flow.lost => StagingKept(p)

MergeStage(p) ==
    /\ flow.step = "commitAll" => AsFound(p)
    /\ flow.step = "addUntracked" => index[p] = IF before.index[p] = None THEN None ELSE before.work[p]
    /\ flow.step = "commit" => index[p] = Wanted(p)

\* What is so of a path at every stage of a commit.
SteadyPath(p) ==
    /\ work[p] = before.work[p]
    /\ flow.ok => head[p] = Wanted(p)
    /\ flow.step = "report" /\ ~flow.lost /\ ~flow.ok => NewLeftOut(p)
    /\ flow.kind = "commit" => CommitStage(p)
    /\ flow.kind = "merge" => MergeStage(p)

Committing == flow.kind \in {"commit", "merge"}

CommitInv ==
    Committing =>
        /\ flow.kind = "commit" => flow.paths = before.chosen
        /\ flow.untracked \subseteq flow.paths
        /\ ~flow.ok => head = before.head
        /\ flow.ok => flow.step \in {"restoreStaging", "report"}
        /\ \A p \in Steady : SteadyPath(p)

\* A step of a commit leaves what it is of as it is.
Same(f) == /\ f.kind = flow.kind /\ f.paths = flow.paths /\ f.untracked = flow.untracked
           /\ f.touched = flow.touched

LEMMA StartCommitEstablishes == Typed /\ Begins => CommitInv'
<1> SUFFICES ASSUME Typed, Begins, Committing' PROVE CommitInv'
  BY DEF CommitInv
<1>1. StartCommit
  BY StartsTyped, PlanDiscardAllTyped DEF Begins, Committing
<1>2. /\ flow'.paths = checkedPathspec /\ flow'.untracked = checkedUntrackedPaths /\ flow'.ok = FALSE
      /\ flow'.kind = "commit" => flow'.step = "commitRows"
      /\ flow'.kind = "merge" => flow'.step = "commitAll"
  <2> DEFINE m == Begin("merge", "commitAll", checkedPathspec)
             c == Begin("commit", "commitRows", checkedPathspec)
  <2>1. /\ m.kind = "merge" /\ m.step = "commitAll" /\ m.paths = checkedPathspec /\ m.ok = FALSE
        /\ c.kind = "commit" /\ c.step = "commitRows" /\ c.paths = checkedPathspec /\ c.ok = FALSE
    BY DEF Begin, NoFlow
  <2>2. checkedPathspec \in SUBSET Paths
    BY DEF Typed, ListTyped, ListTypeOK, FileEntry, checkedPathspec
  <2>3. m \in Flow /\ c \in Flow
    BY <2>2, BeginTyped DEF OtherKinds, CommitStages, MergeStages
  <2>4. flow' = [m EXCEPT !.untracked = checkedUntrackedPaths] \/ flow' = [c EXCEPT !.untracked = checkedUntrackedPaths]
    BY <1>1 DEF StartCommit
  <2> HIDE DEF m, c
  <2> QED
    BY <2>1, <2>3, <2>4 DEF Flow
<1>3. before' = Noted /\ index' = index /\ work' = work /\ log' = log
  BY DEF Begins, disk
<1>4. before'.index = index /\ before'.work = work /\ before'.head = head
      /\ before'.chosen = {p \in Paths : \E e \in checked : p \in {e.path, e.was}}
  BY <1>3 DEF Noted
<1>5. head' = head
  BY <1>3 DEF head
<1>6. flow'.paths = before'.chosen
  <2>1. \A e \in checked : e.path \in Paths /\ e.was \in Paths \cup {None}
    BY DEF Typed, ListTyped, ListTypeOK, FileEntry
  <2> QED
    BY <1>2, <1>4, <2>1, WorkingTreeAssumption DEF checkedPathspec
<1>7. flow'.untracked \subseteq flow'.paths
  BY <1>2 DEF checkedPathspec, checkedUntrackedPaths
<1>8. \A p \in Steady' : SteadyPath(p)'
  <2> SUFFICES ASSUME NEW p \in Paths PROVE SteadyPath(p)'
    BY DEF Steady
  <2>1. CASE flow'.kind = "commit"
    BY <1>2, <1>3, <1>4, <2>1 DEF SteadyPath, CommitStage, AsFound
  <2>2. CASE flow'.kind = "merge"
    BY <1>2, <1>3, <1>4, <2>2 DEF SteadyPath, MergeStage, AsFound
  <2> QED
    BY <2>1, <2>2 DEF Committing
<1> QED
  BY <1>2, <1>4, <1>5, <1>6, <1>7, <1>8 DEF CommitInv

\* What each stage of a commit moves: the index at a steady path, and the flow.
LEMMA ListStagedKeeps == Typed /\ CommitInv /\ ListStaged => CommitInv'
<1> SUFFICES ASSUME Typed, CommitInv, ListStaged PROVE CommitInv'
  OBVIOUS
<1>1. flow.step = "commitRows" /\ flow.kind = "commit" /\ flow \in Flow
  BY FlowTypedMeans DEF ListStaged, At, AtItsStage, CommitStages, MergeStages, OtherStages, Flow
<1>2. UNCHANGED <<log, index, work, before>> /\ head' = head
  BY DEF ListStaged, Untouched, disk, KeepList, head
<1>3. CASE Ended(FALSE)
  <2>1. Same(flow') /\ flow'.ok = FALSE /\ flow'.step = "report" /\ flow'.lost = flow.lost /\ flow'.plan = flow.plan
    BY <1>1, <1>3 DEF Ended, Flow, Same
  <2>2. ASSUME NEW p \in Steady PROVE SteadyPath(p)'
    <3>1. SteadyPath(p) /\ AsFound(p)
      BY <1>1, <2>2 DEF CommitInv, Committing, SteadyPath, CommitStage
    <3> QED
      BY <1>1, <1>2, <2>1, <3>1 DEF SteadyPath, CommitStage, Same, AsFound, StagingKept, NewLeftOut
  <2> QED
    BY <1>1, <1>2, <2>1, <2>2 DEF CommitInv, Committing, Same, Steady
<1>4. CASE ~Ended(FALSE)
  <2> DEFINE plan == plannedIndexChange(flow.paths)
  <2>1. flow' = [flow EXCEPT !.plan = plan, !.step = IF plan.reset # {} THEN "reset" ELSE StepAfterReset(plan)]
    BY <1>4 DEF ListStaged
  <2>2. Same(flow') /\ flow'.ok = flow.ok /\ flow'.lost = flow.lost /\ flow'.plan = plan
        /\ flow'.step = IF plan.reset # {} THEN "reset" ELSE IF plan.add = {} THEN "commit" ELSE "add"
    <3> HIDE DEF plan
    <3> QED
      BY <1>1, <2>1 DEF Flow, Same, StepAfterReset
  <2>3. /\ plan.reset = Staged \ flow.paths
        /\ plan.add = flow.paths \ {q \in Staged : index[q] \in {None, Unmerged}}
        /\ DOMAIN plan.saved = {q \in Staged \ flow.paths : index[q] # Unmerged}
        /\ \A q \in DOMAIN plan.saved : plan.saved[q] = index[q]
    BY DEF plannedIndexChange
  <2> HIDE DEF plan
  <2>4. ~flow.ok /\ head = before.head
    BY <1>1 DEF CommitInv, Committing
  <2>5. ASSUME NEW p \in Steady PROVE SteadyPath(p)'
    <3>1. SteadyPath(p) /\ AsFound(p) /\ p \in Paths
      BY <1>1, <2>5 DEF CommitInv, Committing, SteadyPath, CommitStage, Steady
    <3>2. AsFound(p)' /\ Planned(p)'
      BY <1>2, <2>2, <2>3, <2>4, <3>1 DEF AsFound, Planned, Staged, StagedBefore, Same
    <3> QED
      BY <1>1, <1>2, <2>2, <2>4, <3>1, <3>2 DEF SteadyPath, CommitStage, Same, AsFound, AsReset, AsAdded
  <2> QED
    BY <1>1, <1>2, <2>2, <2>4, <2>5 DEF CommitInv, Committing, Same, Steady
<1> QED
  BY <1>3, <1>4
\* What a commit should hold stays what it was while the flow goes on.
LEMMA WantedStays == Same(flow') /\ before' = before => \A p : Wanted(p)' = Wanted(p)
BY DEF Same, Wanted

\* The stages from the reset on end by giving the index back.
LEMMA RestoreThenReportKeeps ==
    ASSUME Typed, CommitInv, flow.kind = "commit", flow.step \in {"reset", "add", "commit"},
           NEW ok \in BOOLEAN, RestoreThenReport(ok), UNCHANGED <<index, work, before>>,
           ok => \A p \in Steady : head'[p] = Wanted(p),
           ~ok => head' = head
    PROVE  CommitInv'
<1>1. flow \in Flow /\ flow.plan \in Plan /\ Committing
  BY DEF Typed, FlowTyped, AtItsStage, Committing
<1>2. flow'.step = IF flow.plan.saved # <<>> THEN "restoreStaging" ELSE IF ok \/ flow.untracked = {} THEN "report" ELSE "rollBack"
  BY <1>1 DEF RestoreThenReport, RollBackThenReport, Flow
<1>3. Same(flow') /\ flow'.ok = ok /\ flow'.lost = flow.lost /\ flow'.plan = flow.plan
  BY <1>1 DEF RestoreThenReport, RollBackThenReport, Flow, Same
<1>4. \A p \in Steady : Wanted(p)' = Wanted(p)
  BY <1>3, WantedStays
<1>5. flow.plan.saved = <<>> => DOMAIN flow.plan.saved = {}
  <2>1. DOMAIN <<>> = {}
    OBVIOUS
  <2> QED
    BY <2>1
<1>6. ASSUME NEW p \in Steady PROVE SteadyPath(p)'
  <2>1. SteadyPath(p) /\ Planned(p) /\ (AsFound(p) \/ AsReset(p) \/ AsAdded(p))
    BY <1>1, <1>6 DEF CommitInv, SteadyPath, CommitStage
  <2>2. Planned(p)' /\ (AsFound(p) \/ AsReset(p) \/ AsAdded(p))'
    BY <1>3, <2>1 DEF Planned, AsFound, AsReset, AsAdded, StagedBefore, Same
  <2>3. flow'.step \in {"rollBack", "report"} => StagingKept(p)'
    BY <1>2, <1>3, <1>5, <2>1 DEF Planned, AsFound, AsReset, AsAdded, StagedBefore, StagingKept, Same
  <2>4. ok => head'[p] = Wanted(p)'
    BY <1>4, <1>6
  <2>5. flow'.step = "report" /\ ~ok => NewLeftOut(p)'
    BY <1>2, <1>3 DEF NewLeftOut, Same
  <2>6. CommitStage(p)'
    BY <1>2, <2>2, <2>3 DEF CommitStage
  <2>7. work'[p] = before'.work[p]
    BY <2>1 DEF SteadyPath
  <2> QED
    BY <1>3, <2>4, <2>5, <2>6, <2>7 DEF SteadyPath, Same
<1>7. Steady' = Steady /\ flow'.kind = "commit" /\ flow'.paths = before'.chosen /\ flow'.untracked \subseteq flow'.paths
  BY <1>1, <1>3 DEF Steady, Same, CommitInv
<1>8. head = before.head
  BY <1>1 DEF CommitInv
<1>9. flow'.ok => flow'.step \in {"restoreStaging", "report"}
  BY <1>2, <1>3
<1> QED
  BY <1>3, <1>6, <1>7, <1>8, <1>9 DEF CommitInv
\* A step of a commit that succeeds and goes on to the next stage.
LEMMA GoesOn ==
    ASSUME Typed, CommitInv, Committing, ~flow.ok, UNCHANGED <<log, work, before>>,
           NEW s, GoOn(s), s \notin {"report"},
           \A p \in Steady : SteadyPath(p) =>
               (flow.kind = "commit" => CommitStage(p)') /\ (flow.kind = "merge" => MergeStage(p)')
    PROVE  CommitInv'
<1>1. Same(flow') /\ flow'.ok = FALSE /\ flow'.lost = flow.lost /\ flow'.plan = flow.plan /\ flow'.step = s
  BY DEF Typed, FlowTyped, Flow, GoOn, Same
<1>2. head' = head /\ Steady' = Steady
  BY <1>1 DEF head, Steady, Same
<1>3. ASSUME NEW p \in Steady PROVE SteadyPath(p)'
  <2>1. SteadyPath(p)
    BY <1>3 DEF CommitInv
  <2>2. work'[p] = before'.work[p]
    BY <2>1 DEF SteadyPath
  <2>3. (flow'.kind = "commit" => CommitStage(p)') /\ (flow'.kind = "merge" => MergeStage(p)')
    BY <1>1, <1>3, <2>1 DEF Same
  <2> QED
    BY <1>1, <2>2, <2>3 DEF SteadyPath
<1> QED
  BY <1>1, <1>2, <1>3 DEF CommitInv, Same

LEMMA StageOfCommit ==
    ASSUME Typed, flow.step \in {"commitRows", "reset", "add", "restoreStaging"}
    PROVE  flow.kind = "commit" /\ flow \in Flow
BY FlowTypedMeans DEF AtItsStage, CommitStages, MergeStages, OtherStages, Flow

LEMMA ResetOthersKeeps == Typed /\ CommitInv /\ ResetOthers => CommitInv'
<1> SUFFICES ASSUME Typed, CommitInv, ResetOthers PROVE CommitInv'
  OBVIOUS
<1>1. flow.step = "reset" /\ flow.kind = "commit" /\ flow \in Flow /\ Committing
  BY StageOfCommit DEF ResetOthers, At, Committing
<1>2. before' = before /\ ~flow.ok /\ head = before.head
  BY <1>1 DEF ResetOthers, KeepList, CommitInv
<1>3. CASE Untouched /\ RestoreThenReport(FALSE)
  <2>1. UNCHANGED <<index, work, log>> /\ head' = head
    BY <1>3 DEF Untouched, disk, head
  <2> QED
    BY <1>1, <1>2, <1>3, <2>1, RestoreThenReportKeeps
<1>4. CASE IndexBecomes(AfterReset(flow.plan.reset)) /\ GoOn(StepAfterReset(flow.plan))
  <2> DEFINE s == StepAfterReset(flow.plan)
  <2>1. s = (IF flow.plan.add = {} THEN "commit" ELSE "add") /\ UNCHANGED <<log, work>>
    BY <1>4 DEF StepAfterReset, IndexBecomes, KeepTree
  <2>2. flow'.step = s /\ flow'.plan = flow.plan /\ flow'.kind = "commit" /\ flow'.paths = flow.paths
    BY <1>1, <1>4 DEF GoOn, Flow
  <2>3. ASSUME NEW p \in Steady, SteadyPath(p) PROVE CommitStage(p)'
    <3>1. AsFound(p) /\ Planned(p) /\ p \in Paths
      BY <1>1, <2>3 DEF SteadyPath, CommitStage, Steady
    <3>2. index'[p] = IF p \in flow.plan.reset THEN head[p] ELSE index[p]
      BY <1>4, <3>1 DEF IndexBecomes, AfterReset
    <3>3. AsReset(p)' /\ Planned(p)'
      BY <1>2, <2>2, <3>1, <3>2 DEF AsFound, AsReset, Planned, StagedBefore
    <3>4. flow.plan.add = {} => AsAdded(p)'
      BY <2>2, <3>3 DEF AsReset, AsAdded
    <3> QED
      BY <2>1, <2>2, <3>3, <3>4 DEF CommitStage
  <2>4. s # "report" /\ GoOn(s)
    BY <1>4, <2>1
  <2> QED
    BY <1>1, <1>2, <2>1, <2>3, <2>4, GoesOn
<1> QED
  BY <1>3, <1>4 DEF ResetOthers

LEMMA AddCheckedKeeps == Typed /\ CommitInv /\ AddChecked => CommitInv'
<1> SUFFICES ASSUME Typed, CommitInv, AddChecked PROVE CommitInv'
  OBVIOUS
<1>1. flow.step = "add" /\ flow.kind = "commit" /\ flow \in Flow /\ Committing
  BY StageOfCommit DEF AddChecked, At, Committing
<1>2. before' = before /\ ~flow.ok /\ head = before.head
  BY <1>1 DEF AddChecked, KeepList, CommitInv
<1>3. CASE Untouched /\ RestoreThenReport(FALSE)
  <2>1. UNCHANGED <<index, work, log>> /\ head' = head
    BY <1>3 DEF Untouched, disk, head
  <2> QED
    BY <1>1, <1>2, <1>3, <2>1, RestoreThenReportKeeps
<1>4. CASE IndexBecomes(AfterAdd(flow.plan.add)) /\ GoOn("commit")
  <2>1. UNCHANGED <<log, work>>
    BY <1>4 DEF IndexBecomes, KeepTree
  <2>2. flow'.step = "commit" /\ flow'.plan = flow.plan /\ flow'.kind = "commit" /\ flow'.paths = flow.paths
    BY <1>1, <1>4 DEF GoOn, Flow
  <2>3. ASSUME NEW p \in Steady, SteadyPath(p) PROVE CommitStage(p)'
    <3>1. AsReset(p) /\ Planned(p) /\ p \in Paths /\ work[p] = before.work[p]
      BY <1>1, <2>3 DEF SteadyPath, CommitStage, Steady
    <3>2. index'[p] = IF p \in flow.plan.add THEN work[p] ELSE index[p]
      BY <1>4, <3>1 DEF IndexBecomes, AfterAdd
    <3>3. AsAdded(p)' /\ Planned(p)'
      BY <1>2, <2>2, <3>1, <3>2 DEF AsAdded, AsReset, Planned, StagedBefore
    <3> QED
      BY <2>2, <3>3 DEF CommitStage
  <2> QED
    BY <1>1, <1>2, <1>4, <2>1, <2>3, GoesOn
<1> QED
  BY <1>3, <1>4 DEF AddChecked

LEMMA CommittedHead == ASSUME Typed, log' = Committed(index, NoCopies) PROVE head' = index
<1>1. log \in Seq(Commit)
  BY DEF Typed, DiskTypeOK, WorkingTreeTypeOK
<1> DEFINE c == [tree |-> index, joins |-> merging, copies |-> NoCopies]
<1>2. log' = Append(log, c)
  BY DEF Committed
<1>3. Len(log') = Len(log) + 1 /\ log'[Len(log')] = c /\ log' # <<>>
  BY <1>1, <1>2
<1> QED
  BY <1>3 DEF head

LEMMA RunCommitKeeps == Typed /\ CommitInv /\ RunCommit => CommitInv'
<1> SUFFICES ASSUME Typed, CommitInv, RunCommit PROVE CommitInv'
  OBVIOUS
<1>1. flow.step = "commit" /\ flow \in Flow /\ flow.kind \in {"commit", "merge"} /\ Committing
  BY FlowTypedMeans DEF RunCommit, At, AtItsStage, OtherStages, Flow, Committing
<1>2. PICK ok \in BOOLEAN :
         /\ Try(Committable, ok)
         /\ RestoresAfter(ok)
         /\ IF ok THEN /\ log' = Committed(index, NoCopies)
                       /\ UNCHANGED <<index, work>>
                  ELSE Untouched
  BY DEF RunCommit
<1>3. before' = before /\ ~flow.ok /\ head = before.head /\ UNCHANGED <<index, work>>
  BY <1>1, <1>2 DEF RunCommit, KeepList, CommitInv, Untouched, disk
<1>4. ~ok => head' = head
  BY <1>2 DEF Untouched, disk, head
<1>5. ok => head' = index /\ \A p \in Paths : index[p] # Unmerged
  BY <1>2, CommittedHead DEF Try, Committable
<1>6. ASSUME ok, NEW p \in Steady PROVE head'[p] = Wanted(p)
  <2>1. SteadyPath(p) /\ p \in Paths
    BY <1>1, <1>6 DEF CommitInv, Steady
  <2>2. CASE flow.kind = "merge"
    BY <1>1, <1>5, <1>6, <2>1, <2>2 DEF SteadyPath, MergeStage
  <2>3. CASE flow.kind = "commit"
    <3>1. AsAdded(p) /\ Planned(p) /\ flow.paths = before.chosen
      BY <1>1, <2>1, <2>3 DEF SteadyPath, CommitStage, CommitInv
    <3>2. head'[p] = index[p] /\ index[p] # Unmerged
      BY <1>5, <1>6, <2>1
    <3>3. CASE p \notin flow.paths
      <4>1. index[p] = before.head[p]
        BY <3>1, <3>3 DEF AsAdded, Planned, StagedBefore
      <4>2. Wanted(p) = before.head[p]
        BY <2>3, <3>1, <3>3 DEF Wanted
      <4> QED
        BY <3>2, <4>1, <4>2
    <3>4. CASE p \in flow.paths /\ p \in flow.plan.add
      BY <2>3, <3>1, <3>2, <3>4 DEF AsAdded, Planned, StagedBefore, Wanted
    <3>5. CASE p \in flow.paths /\ p \notin flow.plan.add
      <4>1. before.index[p] = None /\ before.head[p] # None /\ index[p] = None
        BY <3>1, <3>2, <3>5 DEF AsAdded, Planned, StagedBefore
      <4> QED
        BY <2>3, <3>1, <3>2, <3>5, <4>1 DEF Wanted
    <3> QED
      BY <3>3, <3>4, <3>5
  <2> QED
    BY <1>1, <2>2, <2>3
<1>7. CASE flow.kind = "commit"
  BY <1>1, <1>2, <1>3, <1>4, <1>6, <1>7, RestoreThenReportKeeps DEF RestoresAfter
<1>8. CASE flow.kind = "merge"
  <2>1. flow' = RollBackThenReport(flow, ok)
    BY <1>2, <1>8 DEF RestoresAfter
  <2>2. Same(flow') /\ flow'.ok = ok /\ flow'.lost = flow.lost
        /\ flow'.step = IF ok \/ flow.untracked = {} THEN "report" ELSE "rollBack"
    BY <1>1, <2>1 DEF RollBackThenReport, Flow, Same
  <2>3. ASSUME NEW p \in Steady PROVE SteadyPath(p)'
    <3>1. work'[p] = before'.work[p]
      BY <1>1, <1>3, <2>3 DEF CommitInv, SteadyPath
    <3>2. ok => head'[p] = Wanted(p)'
      BY <1>3, <1>6, <2>2, <2>3, WantedStays
    <3> QED
      BY <1>8, <2>2, <3>1, <3>2 DEF SteadyPath, MergeStage, NewLeftOut, Same
  <2> QED
    BY <1>1, <1>3, <1>4, <1>8, <2>2, <2>3 DEF CommitInv, Same, Steady
<1> QED
  BY <1>1, <1>7, <1>8
LEMMA RestoreStagingKeeps == Typed /\ CommitInv /\ RestoreStaging => CommitInv'
<1> SUFFICES ASSUME Typed, CommitInv, RestoreStaging PROVE CommitInv'
  OBVIOUS
<1>1. flow.step = "restoreStaging" /\ flow.kind = "commit" /\ flow \in Flow /\ Committing
  BY StageOfCommit DEF RestoreStaging, At, Committing
<1>2. PICK ok \in BOOLEAN :
         /\ flow' = [RollBackThenReport(flow, flow.ok) EXCEPT !.lost = ~ok]
         /\ IF ok THEN IndexBecomes(AfterUpdateIndex(flow.plan.saved)) ELSE Untouched
  BY DEF RestoreStaging
<1>3. before' = before /\ UNCHANGED <<log, work>> /\ head' = head
  BY <1>2 DEF RestoreStaging, KeepList, Untouched, disk, IndexBecomes, KeepTree, head
<1>4. Same(flow') /\ flow'.ok = flow.ok /\ flow'.lost = ~ok /\ flow'.plan = flow.plan
      /\ flow'.step = IF flow.ok \/ flow.untracked = {} THEN "report" ELSE "rollBack"
  <2> DEFINE f == RollBackThenReport(flow, flow.ok)
  <2>1. f \in Flow /\ f.ok = flow.ok /\ f.plan = flow.plan /\ f.kind = flow.kind /\ f.paths = flow.paths
        /\ f.untracked = flow.untracked /\ f.touched = flow.touched
        /\ f.step = IF flow.ok \/ flow.untracked = {} THEN "report" ELSE "rollBack"
    BY <1>1 DEF RollBackThenReport, Flow, CommitStages
  <2>2. flow' = [f EXCEPT !.lost = ~ok]
    BY <1>2
  <2> HIDE DEF f
  <2> QED
    BY <2>1, <2>2 DEF Flow, Same
<1>5. ASSUME NEW p \in Steady PROVE SteadyPath(p)'
  <2>1. SteadyPath(p) /\ Planned(p) /\ (AsFound(p) \/ AsReset(p) \/ AsAdded(p)) /\ p \in Paths
    BY <1>1, <1>5 DEF CommitInv, SteadyPath, CommitStage, Steady
  <2>2. ASSUME ok PROVE StagingKept(p)'
    <3>1. index'[p] = IF p \in DOMAIN flow.plan.saved THEN flow.plan.saved[p] ELSE index[p]
      BY <1>2, <2>1, <2>2 DEF IndexBecomes, AfterUpdateIndex
    <3> QED
      BY <1>3, <1>4, <2>1, <3>1 DEF Planned, AsFound, AsReset, AsAdded, StagedBefore, StagingKept, Same
  <2>3. CommitStage(p)'
    BY <1>4, <2>2 DEF CommitStage
  <2>4. flow'.step = "report" /\ ~flow'.ok => NewLeftOut(p)'
    BY <1>4 DEF NewLeftOut, Same
  <2>5. work'[p] = before'.work[p] /\ (flow'.ok => head'[p] = Wanted(p)')
    BY <1>3, <1>4, <2>1, WantedStays DEF SteadyPath
  <2> QED
    BY <1>1, <1>4, <2>3, <2>4, <2>5 DEF SteadyPath, Same
<1> QED
  BY <1>1, <1>3, <1>4, <1>5 DEF CommitInv, Same, Steady

LEMMA RollBackAddKeeps == Typed /\ CommitInv /\ RollBackAdd => CommitInv'
<1> SUFFICES ASSUME Typed, CommitInv, RollBackAdd PROVE CommitInv'
  OBVIOUS
<1>1. flow.step = "rollBack" /\ flow \in Flow /\ flow.kind \in {"commit", "merge"} /\ Committing
  BY FlowTypedMeans DEF RollBackAdd, At, AtItsStage, OtherStages, Flow, Committing
<1>2. PICK ok \in BOOLEAN :
         /\ flow' = [flow EXCEPT !.step = "report", !.lost = flow.lost \/ ~ok]
         /\ IF ok THEN IndexBecomes(AfterReset(flow.untracked)) ELSE Untouched
  BY DEF RollBackAdd
<1>3. before' = before /\ UNCHANGED <<log, work>> /\ head' = head /\ ~flow.ok /\ head = before.head
  BY <1>1, <1>2 DEF RollBackAdd, KeepList, Untouched, disk, IndexBecomes, KeepTree, head, CommitInv
<1>4. Same(flow') /\ flow'.ok = FALSE /\ flow'.step = "report" /\ (~flow'.lost => ok /\ ~flow.lost)
  BY <1>1, <1>2, <1>3 DEF Flow, Same
<1>5. ASSUME NEW p \in Steady PROVE SteadyPath(p)'
  <2>1. SteadyPath(p) /\ p \in Paths /\ flow.untracked \subseteq flow.paths
    BY <1>1, <1>5 DEF CommitInv, Steady
  <2>2. ASSUME ok, ~flow.lost PROVE NewLeftOut(p)' /\ (flow.kind = "commit" => StagingKept(p)')
    <3>1. index'[p] = IF p \in flow.untracked THEN head[p] ELSE index[p]
      BY <1>2, <2>1, <2>2 DEF IndexBecomes, AfterReset
    <3>2. flow.kind = "commit" => StagingKept(p)
      BY <1>1, <2>1, <2>2 DEF SteadyPath, CommitStage
    <3>3. NewLeftOut(p)'
      BY <1>3, <1>4, <3>1 DEF NewLeftOut, Same
    <3>4. flow.kind = "commit" => StagingKept(p)'
      BY <1>3, <1>4, <2>1, <3>1, <3>2 DEF StagingKept, AsFound, Same
    <3> QED
      BY <3>3, <3>4
  <2>3. flow'.kind = "commit" => CommitStage(p)'
    BY <1>4, <2>2 DEF CommitStage, Same
  <2>4. flow'.kind = "merge" => MergeStage(p)'
    BY <1>4 DEF MergeStage
  <2>5. work'[p] = before'.work[p]
    BY <1>3, <2>1 DEF SteadyPath
  <2> QED
    BY <1>4, <2>2, <2>3, <2>4, <2>5 DEF SteadyPath
<1> QED
  BY <1>1, <1>3, <1>4, <1>5 DEF CommitInv, Same, Steady

\* A stage of the commit that ends an operation fails with nothing rolled back.
LEMMA MergeStageFails ==
    ASSUME Typed, CommitInv, flow.kind = "merge", ~flow.ok, Untouched, before' = before, Ended(FALSE),
           \A p \in Steady : SteadyPath(p) => NewLeftOut(p)
    PROVE  CommitInv'
<1>1. Same(flow') /\ flow'.ok = FALSE /\ flow'.step = "report" /\ flow'.kind = "merge"
  BY DEF Typed, FlowTyped, Flow, Ended, Same
<1>2. UNCHANGED <<log, index, work>> /\ head' = head /\ Committing
  BY DEF Untouched, disk, head, Committing
<1>3. ASSUME NEW p \in Steady PROVE SteadyPath(p)'
  <2>1. SteadyPath(p) /\ NewLeftOut(p)
    BY <1>2, <1>3 DEF CommitInv
  <2> QED
    BY <1>1, <1>2, <2>1 DEF SteadyPath, NewLeftOut, MergeStage, Same
<1> QED
  BY <1>1, <1>2, <1>3 DEF CommitInv, Same, Steady

LEMMA StageOfMerge ==
    ASSUME Typed, flow.step \in {"commitAll", "addUntracked"}
    PROVE  flow.kind = "merge" /\ flow \in Flow
BY FlowTypedMeans DEF AtItsStage, CommitStages, MergeStages, OtherStages, Flow

LEMMA AddTrackedKeeps == Typed /\ CommitInv /\ AddTracked => CommitInv'
<1> SUFFICES ASSUME Typed, CommitInv, AddTracked PROVE CommitInv'
  OBVIOUS
<1>1. flow.step = "commitAll" /\ flow.kind = "merge" /\ flow \in Flow /\ Committing
  BY StageOfMerge DEF AddTracked, At, Committing
<1>2. before' = before /\ ~flow.ok
  BY <1>1 DEF AddTracked, KeepList, CommitInv
<1>3. \A p \in Steady : SteadyPath(p) => AsFound(p)
  BY <1>1 DEF SteadyPath, MergeStage
<1>4. CASE Untouched /\ Ended(FALSE)
  BY <1>1, <1>2, <1>3, <1>4, MergeStageFails DEF AsFound, NewLeftOut
<1>5. CASE IndexBecomes(AfterAddTracked) /\ GoOn(IF flow.untracked = {} THEN "commit" ELSE "addUntracked")
  <2> DEFINE s == IF flow.untracked = {} THEN "commit" ELSE "addUntracked"
  <2>1. flow'.step = s /\ flow'.kind = "merge" /\ flow'.untracked = flow.untracked /\ UNCHANGED <<log, work>>
    BY <1>1, <1>5 DEF GoOn, Flow, IndexBecomes, KeepTree
  <2>2. ASSUME NEW p \in Steady, SteadyPath(p) PROVE MergeStage(p)'
    <3>1. AsFound(p) /\ p \in Paths /\ work[p] = before.work[p]
      BY <1>3, <2>2 DEF SteadyPath, Steady
    <3>2. index'[p] = IF index[p] = None THEN None ELSE work[p]
      BY <1>5, <3>1 DEF IndexBecomes, AfterAddTracked, InTree, Tracked
    <3>3. index'[p] = IF before.index[p] = None THEN None ELSE before.work[p]
      BY <3>1, <3>2 DEF AsFound
    <3>4. flow.untracked = {} => Wanted(p)' = IF before.index[p] = None THEN None ELSE before.work[p]
      BY <1>2, <2>1 DEF Wanted
    <3> QED
      BY <1>2, <2>1, <3>3, <3>4 DEF MergeStage
  <2>3. s # "report" /\ GoOn(s)
    BY <1>5
  <2> HIDE DEF s
  <2> QED
    BY <1>1, <1>2, <2>1, <2>2, <2>3, GoesOn
<1> QED
  BY <1>4, <1>5 DEF AddTracked

LEMMA AddUntrackedKeeps == Typed /\ CommitInv /\ AddUntracked => CommitInv'
<1> SUFFICES ASSUME Typed, CommitInv, AddUntracked PROVE CommitInv'
  OBVIOUS
<1>1. flow.step = "addUntracked" /\ flow.kind = "merge" /\ flow \in Flow /\ Committing
  BY StageOfMerge DEF AddUntracked, At, Committing
<1>2. before' = before /\ ~flow.ok
  BY <1>1 DEF AddUntracked, KeepList, CommitInv
<1>3. \A p \in Steady : SteadyPath(p) => index[p] = IF before.index[p] = None THEN None ELSE before.work[p]
  BY <1>1 DEF SteadyPath, MergeStage
<1>4. CASE Untouched /\ Ended(FALSE)
  BY <1>1, <1>2, <1>3, <1>4, MergeStageFails DEF NewLeftOut
<1>5. CASE IndexBecomes(AfterAdd(flow.untracked)) /\ GoOn("commit")
  <2>1. flow'.step = "commit" /\ flow'.kind = "merge" /\ flow'.untracked = flow.untracked /\ UNCHANGED <<log, work>>
    BY <1>1, <1>5 DEF GoOn, Flow, IndexBecomes, KeepTree
  <2>2. ASSUME NEW p \in Steady, SteadyPath(p) PROVE MergeStage(p)'
    <3>1. p \in Paths /\ work[p] = before.work[p] /\ index[p] = IF before.index[p] = None THEN None ELSE before.work[p]
      BY <1>3, <2>2 DEF SteadyPath, Steady
    <3>2. index'[p] = IF p \in flow.untracked THEN work[p] ELSE index[p]
      BY <1>5, <3>1 DEF IndexBecomes, AfterAdd
    <3>3. Wanted(p)' = IF before.index[p] # None \/ p \in flow.untracked THEN before.work[p] ELSE None
      BY <1>2, <2>1 DEF Wanted
    <3> QED
      BY <2>1, <3>1, <3>2, <3>3 DEF MergeStage
  <2> QED
    BY <1>1, <1>2, <1>5, <2>1, <2>2, GoesOn
<1> QED
  BY <1>4, <1>5 DEF AddUntracked
\* The other flows commit nothing.
LEMMA OtherStepsCommitNothing == Typed /\ OtherSteps => flow'.kind \notin {"commit", "merge"}
<1> SUFFICES ASSUME Typed, OtherSteps PROVE flow'.kind \notin {"commit", "merge"}
  OBVIOUS
<1>1. flow.step \in Elsewhere
  BY DEF OtherSteps, RestoreHead, UnAdd, AddToIndex, MoveFilesToTrash, MoveToTrash, ResetAll, Undo, AbortOperation, At,
         Elsewhere
<1>2. flow \in Flow /\ flow.kind \notin {"commit", "merge"}
  BY <1>1, OtherStep, FlowTypedMeans DEF OtherKinds
<1>3. \/ flow' = NoFlow
      \/ \E ok \in BOOLEAN : flow' = [flow EXCEPT !.step = "report", !.ok = ok]
      \/ \E s : flow' = [flow EXCEPT !.step = s]
      \/ flow' = [flow EXCEPT !.step = "restore", !.added = {}]
  BY DEF OtherSteps, RestoreHead, UnAdd, AddToIndex, MoveFilesToTrash, MoveToTrash, ResetAll, Undo, AbortOperation,
         AfterRestore, AfterUnAdd, Ended, GoOn
<1>4. CASE flow' = NoFlow
  BY <1>4 DEF NoFlow
<1>5. ASSUME NEW s, NEW ok, \/ flow' = [flow EXCEPT !.step = "report", !.ok = ok] \/ flow' = [flow EXCEPT !.step = s]
                            \/ flow' = [flow EXCEPT !.step = "restore", !.added = {}]
      PROVE  flow'.kind = flow.kind
  BY <1>2, <1>5 DEF Flow
<1> QED
  BY <1>2, <1>3, <1>4, <1>5

LEMMA OtherStepsKeep == Typed /\ OtherSteps => CommitInv'
BY OtherStepsCommitNothing DEF CommitInv, Committing

LEMMA CommitStepsKeep == Typed /\ CommitInv /\ CommitSteps => CommitInv'
BY ListStagedKeeps, ResetOthersKeeps, AddCheckedKeeps, RunCommitKeeps, RestoreStagingKeeps, RollBackAddKeeps,
   AddTrackedKeeps, AddUntrackedKeeps DEF CommitSteps

\* What happens outside leaves the paths it does not touch.
LEMMA OutsideLeaves ==
    ASSUME Typed, OutsideActions
    PROVE  \E P \in SUBSET Paths :
              /\ UNCHANGED <<log, before>>
              /\ flow' = IF flow.kind = "none" THEN flow ELSE [flow EXCEPT !.touched = @ \cup P]
              /\ \A p \in Paths \ P : index'[p] = index[p] /\ work'[p] = work[p]
<1>1. work \in Tree /\ index \in Index
  BY FlowTypedMeans DEF DiskTypeOK, Index
<1>2. \A P : OutsideChanges(P) => /\ UNCHANGED <<log, before>>
                                  /\ flow' = IF flow.kind = "none" THEN flow ELSE [flow EXCEPT !.touched = @ \cup P]
  BY DEF OutsideChanges, Touch
<1>3. ASSUME NEW p \in Paths, NEW c \in Held, OutsideEdit(p, c) \/ OutsideStage(p, c)
      PROVE  OutsideChanges({p}) /\ \A q \in Paths \ {p} : index'[q] = index[q] /\ work'[q] = work[q]
  BY <1>1, <1>3 DEF OutsideEdit, OutsideStage, Tree, Index
<1>4. ASSUME NEW s \in Submodules, NEW v, OutsideInside(s, v)
      PROVE  OutsideChanges({s}) /\ UNCHANGED <<index, work>>
  BY <1>4 DEF OutsideInside
<1>5. ASSUME NEW q \in Files, NEW c \in Contents, NEW P \in SUBSET (Files \ {q}), OutsideMerge(P, q, c)
      PROVE  OutsideChanges(P \cup {q}) /\ \A p \in Paths \ (P \cup {q}) : index'[p] = index[p] /\ work'[p] = work[p]
  <2>1. PICK d \in {c, head[q]} : work' = [p \in Paths |-> IF p \in P THEN c ELSE IF p = q THEN d ELSE work[p]]
    BY <1>5 DEF OutsideMerge
  <2>2. index' = [p \in Paths |-> IF p = q THEN Unmerged ELSE IF p \in P THEN c ELSE index[p]] /\ OutsideChanges(P \cup {q})
    BY <1>5 DEF OutsideMerge
  <2> QED
    BY <2>1, <2>2
<1>6. \A p \in Paths : {p} \in SUBSET Paths
  OBVIOUS
<1>7. \A q \in Files : \A P \in SUBSET (Files \ {q}) : P \cup {q} \in SUBSET Paths
  BY DEF Paths
<1>8. \A s \in Submodules : {s} \in SUBSET Paths
  BY DEF Paths
<1> DEFINE Leaves(P) == OutsideChanges(P) /\ \A p \in Paths \ P : index'[p] = index[p] /\ work'[p] = work[p]
<1>9. PICK P \in SUBSET Paths : Leaves(P)
  <2>1. CASE \E p \in Paths, c \in Held : OutsideEdit(p, c) \/ OutsideStage(p, c)
    BY <1>3, <1>6, <2>1
  <2>2. CASE \E s \in Submodules, v \in {"Clean", "Untracked", "DirtyTracked"} : OutsideInside(s, v)
    <3>1. PICK s \in Submodules : Leaves({s})
      BY <1>4, <2>2
    <3> QED
      BY <1>8, <3>1
  <2>3. CASE \E q \in Files, c \in Contents : \E P \in SUBSET (Files \ {q}) : OutsideMerge(P, q, c)
    <3>1. PICK q \in Files, c \in Contents : \E P \in SUBSET (Files \ {q}) : OutsideMerge(P, q, c)
      BY <2>3
    <3>2. PICK P \in SUBSET (Files \ {q}) : OutsideMerge(P, q, c)
      BY <3>1
    <3>3. Leaves(P \cup {q})
      BY <1>5, <3>2
    <3> QED
      BY <1>7, <3>3
  <2> QED
    BY <2>1, <2>2, <2>3 DEF OutsideActions
<1> QED
  BY <1>2, <1>9

LEMMA OutsideKeeps == Typed /\ CommitInv /\ OutsideActions => CommitInv'
<1> SUFFICES ASSUME Typed, CommitInv, OutsideActions, Committing' PROVE CommitInv'
  BY DEF CommitInv
<1>1. PICK P \in SUBSET Paths :
         /\ UNCHANGED <<log, before>>
         /\ flow' = IF flow.kind = "none" THEN flow ELSE [flow EXCEPT !.touched = @ \cup P]
         /\ \A p \in Paths \ P : index'[p] = index[p] /\ work'[p] = work[p]
  BY OutsideLeaves
<1>2. flow \in Flow
  BY FlowTypedMeans
<1>3. Committing /\ flow' = [flow EXCEPT !.touched = @ \cup P]
  BY <1>1, <1>2 DEF Committing, Flow
<1>4. /\ flow'.kind = flow.kind /\ flow'.step = flow.step /\ flow'.paths = flow.paths /\ flow'.untracked = flow.untracked
      /\ flow'.ok = flow.ok /\ flow'.plan = flow.plan /\ flow'.lost = flow.lost /\ flow'.touched = flow.touched \cup P
  BY <1>2, <1>3 DEF Flow
<1>5. head' = head /\ before' = before
  BY <1>1 DEF head
<1>6. ASSUME NEW p \in Steady' PROVE SteadyPath(p)'
  <2>1. p \in Steady /\ p \in Paths \ P
    BY <1>4, <1>6 DEF Steady
  <2>2. SteadyPath(p) /\ index'[p] = index[p] /\ work'[p] = work[p]
    BY <1>1, <1>3, <2>1 DEF CommitInv
  <2>3. Wanted(p)' = Wanted(p)
    BY <1>4, <1>5 DEF Wanted
  <2>4. /\ AsFound(p)' = AsFound(p) /\ Planned(p)' = Planned(p) /\ AsReset(p)' = AsReset(p) /\ AsAdded(p)' = AsAdded(p)
        /\ NewLeftOut(p)' = NewLeftOut(p)
    BY <1>4, <1>5, <2>2 DEF AsFound, Planned, AsReset, AsAdded, NewLeftOut, StagedBefore
  <2>5. StagingKept(p)' = StagingKept(p)
    BY <1>4, <1>5, <2>4 DEF StagingKept
  <2>6. flow.kind = "commit" => CommitStage(p)'
    BY <1>4, <2>2, <2>4, <2>5 DEF SteadyPath, CommitStage
  <2>7. flow.kind = "merge" => MergeStage(p)'
    BY <1>4, <1>5, <2>2, <2>3, <2>4 DEF SteadyPath, MergeStage
  <2>8. flow'.step = "report" /\ ~flow'.lost /\ ~flow'.ok => NewLeftOut(p)'
    BY <1>4, <2>2, <2>4 DEF SteadyPath
  <2> QED
    BY <1>4, <1>5, <2>2, <2>3, <2>6, <2>7, <2>8 DEF SteadyPath
<1> QED
  BY <1>3, <1>4, <1>5, <1>6 DEF CommitInv
LEMMA RestKeeps ==
    ASSUME Typed, CommitInv, UNCHANGED <<disk, flow, before>>
    PROVE  CommitInv'
<1>1. UNCHANGED <<log, index, work>> /\ head' = head
  BY DEF disk, head
<1> QED
  BY <1>1 DEF CommitInv, Committing, Steady, SteadyPath, CommitStage, MergeStage, Wanted, AsFound, AsReset, AsAdded, Planned,
              StagedBefore, StagingKept, NewLeftOut

LEMMA NextKeeps == Typed /\ CommitInv /\ [Next]_vars => CommitInv'
<1> SUFFICES ASSUME Typed, CommitInv, [Next]_vars PROVE CommitInv'
  OBVIOUS
<1>1. CASE Report(NewRun)
  BY <1>1 DEF Report, CommitInv, Committing, NoFlow
<1>2. CASE UNCHANGED <<disk, flow, before>>
  BY <1>2, RestKeeps
<1>3. Answer \/ EndRefresh \/ (RefreshIsDue(NewRun) /\ UNCHANGED disk) \/ (UserChecks /\ UNCHANGED disk) \/ UNCHANGED vars
        => UNCHANGED <<disk, flow, before>>
  BY DEF Answer, EndRefresh, TakeRows, RefreshIsDue, UserChecks, vars, flowVars
<1> QED
  BY <1>1, <1>2, <1>3, StartCommitEstablishes, CommitStepsKeep, OtherStepsKeep, OutsideKeeps DEF Next

LEMMA AlwaysCommitInv == Spec => [](Typed /\ CommitInv)
<1>1. Init => CommitInv
  BY DEF Init, ListInit, CommitInv, Committing, NoFlow
<1> QED
  BY <1>1, InitTyped, NextTyped, NextKeeps, PTL DEF Spec

(***************************************************************************)
(* A commit gives the index back: what was staged of a path that was not   *)
(* checked is staged as it was when the commit ends, whichever step of it  *)
(* failed, unless the restoring command did.                               *)
(***************************************************************************)
THEOREM StagingGivenBack == Spec => []StagingSurvives
<1>1. Typed /\ CommitInv => StagingSurvives
  BY DEF CommitInv, Committing, Steady, SteadyPath, CommitStage, StagingKept, AsFound, StagingSurvives, Reporting, Undisturbed
<1> QED
  BY <1>1, AlwaysCommitInv, PTL

(***************************************************************************)
(* A commit that failed, of rows or of an operation, leaves no new file    *)
(* tracked, unless the command that un-adds them failed.                   *)
(***************************************************************************)
THEOREM NothingLeftTracked == Spec => []FailedCommitTracksNothing
<1>1. Typed /\ CommitInv => FailedCommitTracksNothing
  <2> SUFFICES ASSUME Typed, CommitInv, Reporting({"commit", "merge"}), ~flow.ok, ~flow.lost,
                      NEW p \in flow.untracked, Undisturbed(p), before.index[p] = None, before.head[p] = None
               PROVE  index[p] = None
    BY DEF FailedCommitTracksNothing
  <2>1. p \in Steady
    BY FlowTypedMeans DEF Steady, Undisturbed
  <2> QED
    BY <2>1 DEF CommitInv, Committing, SteadyPath, NewLeftOut, Reporting
<1> QED
  BY <1>1, AlwaysCommitInv, PTL

(***************************************************************************)
(* A commit holds the checked rows as they were on disk and nothing else   *)
(* the last commit did not hold; one that ends an operation, every tracked *)
(* change and the untracked files checked.                                 *)
(***************************************************************************)
THEOREM CommitsCheckedRows == Spec => []CommitIsTheCheckedRows
<1>1. Typed /\ CommitInv => CommitIsTheCheckedRows
  BY DEF CommitInv, Committing, Steady, SteadyPath, CommitIsTheCheckedRows, Reporting, Undisturbed
<1> QED
  BY <1>1, AlwaysCommitInv, PTL
-------------------------------------------------------------------------------
(* Submodules.  No step of the app, and none of the outside modelled here,   *)
(* adds one or takes one away, so each is in every commit, the index and the *)
(* tree or in none of them, and what a run reads of them at different        *)
(* moments fits.  Nor do they come into conflict.                            *)

Present == {s \in Submodules : work[s] # None}
Within(t) == \A s \in Submodules : t[s] # Unmerged /\ (t[s] # None <=> s \in Present)

DiskStands ==
    /\ Within(index)
    /\ \A i \in DOMAIN log : Within(log[i].tree)
    /\ log = <<>> => Present = {}
    /\ \A s \in Submodules : inside[s] # "Clean" => s \in Present

PlanStands == \A s \in Submodules \cap DOMAIN flow.plan.saved : flow.plan.saved[s] # None <=> s \in Present

FlowStands ==
    /\ flow.kind = "commit" /\ flow.step \in {"reset", "add", "commit", "restoreStaging"} => PlanStands
    /\ flow.kind = "delete" => flow.paths \subseteq Files
    /\ flow.step = "trash" => flow.kind = "delete"

RunStands ==
    /\ run.round # 0 /\ "status" \notin run.asked /\ ~run.failed => run.submodules = Present /\ run.conflicted \subseteq Files
    /\ \A d \in run.diff : d.path \in Submodules => d.path \in Present /\ d.was = None

RowsStand == files = rows /\ \A e \in rows : e.path \in Submodules => e.sub \/ e.nested

Standing == DiskStands /\ FlowStands /\ RunStands /\ RowsStand

LEMMA PresentPaths == Present \subseteq Submodules /\ Submodules \cap Files = {} /\ Submodules \subseteq Paths /\ Files \subseteq Paths
BY WorkingTreeAssumption DEF Present, Paths

LEMMA HeadWithin == Typed /\ DiskStands => Within(head) /\ Within(work)
<1> SUFFICES ASSUME Typed, DiskStands PROVE Within(head) /\ Within(work)
  OBVIOUS
<1>1. log \in Seq(Commit) /\ work \in Tree
  BY FlowTypedMeans DEF DiskTypeOK, WorkingTreeTypeOK
<1>2. Within(work)
  BY <1>1, GitWorkTreeAssumption DEF Within, Present, Tree, Held, Paths
<1>3. CASE log = <<>>
  BY <1>3, GitWorkTreeAssumption DEF DiskStands, Within, head, Present, Paths
<1>4. CASE log # <<>>
  <2>1. Len(log) \in DOMAIN log
    BY <1>1, <1>4
  <2>2. Within(log[Len(log)].tree)
    BY <2>1 DEF DiskStands
  <2>3. head = log[Len(log)].tree
    BY <1>4 DEF head
  <2> QED
    BY <1>2, <2>2, <2>3
<1> QED
  BY <1>2, <1>3, <1>4

LEMMA CommandsWithin ==
    ASSUME Typed, DiskStands
    PROVE  /\ \A P \in SUBSET Paths : Within(AfterAdd(P)) /\ Within(AfterReset(P))
           /\ Within(AfterAddTracked)
           /\ \A saved : (\A s \in Submodules \cap DOMAIN saved : saved[s] # Unmerged /\ (saved[s] # None <=> s \in Present))
                           => Within(AfterUpdateIndex(saved))
<1>1. Within(head) /\ Within(work) /\ Within(index)
  BY HeadWithin DEF DiskStands
<1>2. Submodules \subseteq Paths
  BY PresentPaths
<1>3. Within(AfterAddTracked)
  BY <1>1, <1>2, GitWorkTreeAssumption DEF Within, AfterAddTracked, InTree, Tracked
<1>4. \A P : Within(AfterAdd(P)) /\ Within(AfterReset(P))
  BY <1>1, <1>2 DEF Within, AfterAdd, AfterReset
<1>5. \A saved : (\A s \in Submodules \cap DOMAIN saved : saved[s] # Unmerged /\ (saved[s] # None <=> s \in Present))
                   => Within(AfterUpdateIndex(saved))
  BY <1>1, <1>2 DEF Within, AfterUpdateIndex
<1> QED
  BY <1>3, <1>4, <1>5

\* The disk stands, and the submodules on it are those that were.
DiskStays == DiskStands' /\ Present' = Present

LEMMA SameDiskStays == DiskStands /\ UNCHANGED disk => DiskStays
BY DEF DiskStands, DiskStays, disk, Within, Present

LEMMA IndexStays == ASSUME DiskStands, NEW i, Within(i), IndexBecomes(i) PROVE DiskStays
BY DEF IndexBecomes, KeepTree, DiskStands, DiskStays, Within, Present

\* What a flow's step keeps of the flow, but for the first of a commit.
LEMMA FlowStays ==
    ASSUME Typed, FlowStands, Present' = Present, flow'.kind = flow.kind, flow'.paths = flow.paths, flow'.plan = flow.plan,
           flow.kind = "commit" => flow.step \in {"reset", "add", "commit", "restoreStaging"}
                                   \/ flow'.step \in {"rollBack", "report"},
           flow'.step = "trash" => flow.kind = "delete"
    PROVE  FlowStands'
BY DEF FlowStands, PlanStands

LEMMA ListStagedStands == Typed /\ Standing /\ ListStaged => DiskStays /\ FlowStands'
<1> SUFFICES ASSUME Typed, Standing, ListStaged PROVE DiskStays /\ FlowStands'
  OBVIOUS
<1> USE FlowTypedMeans
<1>1. DiskStays
  BY SameDiskStays DEF Standing, ListStaged, Untouched
<1>2. flow.kind = "commit"
  BY DEF ListStaged, At, AtItsStage, CommitStages, MergeStages, OtherStages, Flow
<1> DEFINE p == plannedIndexChange(flow.paths)
           s == IF p.reset # {} THEN "reset" ELSE StepAfterReset(p)
<1>3. CASE \E ok \in BOOLEAN : Ended(ok)
  <2>1. flow'.kind = "commit" /\ flow'.step = "report"
    BY <1>2, <1>3 DEF Ended, Flow
  <2> QED
    BY <1>1, <2>1 DEF FlowStands
<1>4. CASE flow' = [flow EXCEPT !.plan = p, !.step = s]
  <2>1. \A q \in DOMAIN p.saved : p.saved[q] = index[q]
    BY DEF plannedIndexChange
  <2>2. s \in {"reset", "commit", "add"}
    BY DEF StepAfterReset
  <2> HIDE DEF p, s
  <2>3. flow'.kind = "commit" /\ flow'.step = s /\ flow'.plan = p
    BY <1>2, <1>4 DEF Flow
  <2>4. Within(index)
    BY DEF Standing, DiskStands
  <2>5. PlanStands'
    BY <1>1, <2>1, <2>3, <2>4 DEF PlanStands, Within, DiskStays
  <2> QED
    BY <1>1, <2>2, <2>3, <2>5 DEF FlowStands
<1> QED
  BY <1>1, <1>3, <1>4 DEF ListStaged

LEMMA RestoreThenReportStays ==
    ASSUME flow \in Flow, flow.kind = "commit", NEW ok \in BOOLEAN, RestoreThenReport(ok)
    PROVE  flow'.kind = flow.kind /\ flow'.paths = flow.paths /\ flow'.plan = flow.plan
           /\ flow'.step \in {"restoreStaging", "rollBack", "report"}
BY DEF RestoreThenReport, RollBackThenReport, Flow

LEMMA CommitStepsStand == Typed /\ Standing /\ (ResetOthers \/ AddChecked \/ RestoreStaging \/ RollBackAdd) => DiskStays /\ FlowStands'
<1> SUFFICES ASSUME Typed, Standing, ResetOthers \/ AddChecked \/ RestoreStaging \/ RollBackAdd PROVE DiskStays /\ FlowStands'
  OBVIOUS
<1> USE FlowTypedMeans
<1>1. /\ flow.step \in {"reset", "add", "restoreStaging", "rollBack"}
      /\ flow.kind = "commit" \/ (flow.kind = "merge" /\ flow.step = "rollBack")
      /\ flow.step # "rollBack" => flow.plan \in Plan
  BY DEF ResetOthers, AddChecked, RestoreStaging, RollBackAdd, At, AtItsStage, CommitStages, MergeStages, OtherStages, Flow
<1>2. DiskStays
  <2>1. CASE Untouched
    BY <2>1, SameDiskStays DEF Standing, Untouched
  <2>2. CASE ResetOthers /\ IndexBecomes(AfterReset(flow.plan.reset))
    <3>1. flow.plan.reset \in SUBSET Paths
      BY <1>1, <2>2 DEF ResetOthers, At, Plan
    <3> QED
      BY <2>2, <3>1, CommandsWithin, IndexStays DEF Standing
  <2>3. CASE AddChecked /\ IndexBecomes(AfterAdd(flow.plan.add))
    <3>1. flow.plan.add \in SUBSET Paths
      BY <1>1, <2>3 DEF AddChecked, At, Plan
    <3> QED
      BY <2>3, <3>1, CommandsWithin, IndexStays DEF Standing
  <2>4. CASE RestoreStaging /\ IndexBecomes(AfterUpdateIndex(flow.plan.saved))
    <3>1. flow.step = "restoreStaging" /\ flow.plan \in Plan /\ flow.kind = "commit"
      BY <1>1, <2>4 DEF RestoreStaging, At
    <3>2. \A s \in DOMAIN flow.plan.saved : flow.plan.saved[s] \in Held
      BY <3>1 DEF Plan, Saved
    <3>3. PlanStands
      BY <3>1 DEF Standing, FlowStands
    <3>4. Unmerged \notin Held
      BY GitWorkTreeAssumption DEF Held
    <3>5. \A s \in Submodules \cap DOMAIN flow.plan.saved :
             flow.plan.saved[s] # Unmerged /\ (flow.plan.saved[s] # None <=> s \in Present)
      BY <3>2, <3>3, <3>4 DEF PlanStands
    <3>6. Within(AfterUpdateIndex(flow.plan.saved))
      BY <3>5, CommandsWithin DEF Standing
    <3> QED
      BY <2>4, <3>6, IndexStays DEF Standing
  <2>5. CASE RollBackAdd /\ IndexBecomes(AfterReset(flow.untracked))
    BY <2>5, CommandsWithin, IndexStays DEF Standing
  <2> QED
    BY <2>1, <2>2, <2>3, <2>4, <2>5 DEF ResetOthers, AddChecked, RestoreStaging, RollBackAdd
<1>3. /\ flow'.kind = flow.kind /\ flow'.paths = flow.paths /\ flow'.plan = flow.plan
      /\ flow'.step \in {"add", "commit", "restoreStaging", "rollBack", "report"}
      /\ flow.step = "rollBack" => flow'.step = "report"
  <2>1. CASE ResetOthers
    <3>1. CASE GoOn(StepAfterReset(flow.plan))
      BY <2>1, <3>1 DEF GoOn, StepAfterReset, Flow, ResetOthers, At
    <3>2. CASE RestoreThenReport(FALSE)
      BY <1>1, <2>1, <3>2, RestoreThenReportStays DEF ResetOthers, At
    <3> QED
      BY <2>1, <3>1, <3>2 DEF ResetOthers
  <2>2. CASE AddChecked
    <3>1. CASE GoOn("commit")
      BY <2>2, <3>1 DEF GoOn, Flow, AddChecked, At
    <3>2. CASE RestoreThenReport(FALSE)
      BY <1>1, <2>2, <3>2, RestoreThenReportStays DEF AddChecked, At
    <3> QED
      BY <2>2, <3>1, <3>2 DEF AddChecked
  <2>3. CASE RestoreStaging
    <3>1. PICK ok \in BOOLEAN : flow' = [RollBackThenReport(flow, flow.ok) EXCEPT !.lost = ~ok]
      BY <2>3 DEF RestoreStaging
    <3> QED
      BY <2>3, <3>1 DEF RollBackThenReport, Flow, RestoreStaging, At
  <2>4. CASE RollBackAdd
    <3>1. PICK ok \in BOOLEAN : flow' = [flow EXCEPT !.step = "report", !.lost = @ \/ ~ok]
      BY <2>4 DEF RollBackAdd
    <3> QED
      BY <3>1 DEF Flow
  <2> QED
    BY <2>1, <2>2, <2>3, <2>4
<1> QED
  BY <1>1, <1>2, <1>3, FlowStays DEF Standing, DiskStays

LEMMA RunCommitStands == Typed /\ Standing /\ RunCommit => DiskStays /\ FlowStands'
<1> SUFFICES ASSUME Typed, Standing, RunCommit PROVE DiskStays /\ FlowStands'
  OBVIOUS
<1> USE FlowTypedMeans
<1>1. flow.step = "commit" /\ flow.kind \in {"commit", "merge"}
  BY DEF RunCommit, At, AtItsStage, CommitStages, MergeStages, OtherStages, Flow
<1>2. DiskStays
  <2>1. CASE Untouched
    BY <2>1, SameDiskStays DEF Standing, Untouched
  <2>2. CASE log' = Committed(index, NoCopies) /\ UNCHANGED <<index, work, inside>>
    <3>1. log \in Seq(Commit)
      BY DEF DiskTypeOK, WorkingTreeTypeOK
    <3> DEFINE c == [tree |-> index, joins |-> merging, copies |-> NoCopies]
    <3>2. log' = Append(log, c) /\ c.tree = index
      BY <2>2 DEF Committed
    <3> HIDE DEF c
    <3>3. \A i \in DOMAIN log' : log'[i].tree = index \/ (i \in DOMAIN log /\ log'[i] = log[i])
      BY <3>1, <3>2
    <3>4. log' # <<>>
      BY <3>1, <3>2
    <3>5. Present' = Present /\ Within(index)
      BY <2>2 DEF Present, Standing, DiskStands
    <3>6. \A i \in DOMAIN log' : Within(log'[i].tree)
      BY <3>3, <3>5 DEF Standing, DiskStands
    <3> QED
      BY <2>2, <3>4, <3>5, <3>6 DEF Standing, DiskStands, DiskStays, Within
  <2> QED
    BY <2>1, <2>2 DEF RunCommit
<1>3. PICK ok \in BOOLEAN : RestoresAfter(ok)
  BY DEF RunCommit
<1>4. /\ flow'.kind = flow.kind /\ flow'.paths = flow.paths /\ flow'.plan = flow.plan
      /\ flow'.step \in {"restoreStaging", "rollBack", "report"}
  <2>1. CASE flow.kind = "commit"
    BY <1>3, <2>1, RestoreThenReportStays DEF RestoresAfter
  <2>2. CASE flow.kind # "commit"
    BY <1>3, <2>2 DEF RestoresAfter, RollBackThenReport, Flow
  <2> QED
    BY <2>1, <2>2
<1> QED
  BY <1>1, <1>2, <1>4, FlowStays DEF Standing, DiskStays

LEMMA MergeStepsStand == Typed /\ Standing /\ (AddTracked \/ AddUntracked) => DiskStays /\ FlowStands'
<1> SUFFICES ASSUME Typed, Standing, AddTracked \/ AddUntracked PROVE DiskStays /\ FlowStands'
  OBVIOUS
<1> USE FlowTypedMeans
<1>1. flow.kind = "merge"
  BY DEF AddTracked, AddUntracked, At, AtItsStage, CommitStages, MergeStages, OtherStages, Flow
<1>2. DiskStays
  BY SameDiskStays, CommandsWithin, IndexStays DEF Standing, Untouched, AddTracked, AddUntracked
<1>3. flow'.kind = flow.kind /\ flow'.paths = flow.paths /\ flow'.plan = flow.plan /\ flow'.step # "trash"
  BY DEF AddTracked, AddUntracked, GoOn, Ended, Flow
<1> QED
  BY <1>1, <1>2, <1>3, FlowStays DEF Standing, DiskStays

\* A step of a flow that does not commit: what it makes of the flow.
LEMMA OtherFlowStays ==
    ASSUME Typed, FlowStands, Present' = Present, flow.kind \in OtherKinds,
           \/ flow' = NoFlow
           \/ flow'.kind = flow.kind /\ flow'.paths = flow.paths /\ (flow'.step = "trash" => flow.kind = "delete")
    PROVE  FlowStands'
BY DEF FlowStands, NoFlow, OtherKinds

LEMMA OtherStepsStand == Typed /\ Standing /\ OtherSteps => DiskStays /\ FlowStands'
<1> SUFFICES ASSUME Typed, Standing, OtherSteps PROVE DiskStays /\ FlowStands'
  OBVIOUS
<1> USE FlowTypedMeans
<1>1. flow.step \in Elsewhere
  BY DEF OtherSteps, RestoreHead, UnAdd, AddToIndex, MoveFilesToTrash, MoveToTrash, ResetAll, Undo, AbortOperation, At, Elsewhere
<1>2. flow.kind \in OtherKinds
  BY <1>1, OtherStep
<1>3. \/ flow' = NoFlow
      \/ flow'.kind = flow.kind /\ flow'.paths = flow.paths /\ (flow'.step = "trash" => flow.kind = "delete")
  <2>1. \A ok : Ended(ok) => flow'.kind = flow.kind /\ flow'.paths = flow.paths /\ flow'.step # "trash"
    BY DEF Ended, Flow
  <2>2. \A s : GoOn(s) => flow'.kind = flow.kind /\ flow'.paths = flow.paths /\ flow'.step = s
    BY DEF GoOn, Flow
  <2>3. CASE RestoreHead
    <3>1. Ended(TRUE) \/ Ended(FALSE) \/ GoOn("unAdd")
      BY <2>3 DEF RestoreHead, AfterRestore
    <3>2. GoOn("unAdd") => flow'.kind = flow.kind /\ flow'.paths = flow.paths /\ flow'.step = "unAdd"
      BY <2>2
    <3> QED
      BY <2>1, <3>1, <3>2
  <2>4. CASE UnAdd
    BY <2>1, <2>2, <2>4 DEF UnAdd, AfterUnAdd
  <2>5. CASE AddToIndex \/ MoveFilesToTrash \/ Undo \/ AbortOperation
    <3>1. \E ok : Ended(ok)
      BY <2>5 DEF AddToIndex, MoveFilesToTrash, MoveToTrash, Undo, AbortOperation
    <3> QED
      BY <2>1, <3>1
  <2>6. CASE ResetAll
    <3>1. CASE flow' = [flow EXCEPT !.step = "restore", !.added = {}]
      BY <3>1 DEF Flow
    <3> QED
      BY <2>1, <2>6, <3>1 DEF ResetAll
  <2> QED
    BY <2>3, <2>4, <2>5, <2>6 DEF OtherSteps
<1>4. DiskStays
  <2>1. CASE Untouched
    BY <2>1, SameDiskStays DEF Standing, Untouched
  <2>2. CASE UnAdd /\ IndexBecomes(AfterReset(flow.added))
    BY <2>2, CommandsWithin, IndexStays DEF Standing
  <2>3. CASE AddToIndex /\ IndexBecomes(AfterAdd(flow.paths))
    BY <2>3, CommandsWithin, IndexStays DEF Standing
  <2>4. CASE ResetAll /\ IndexBecomes(AfterReset(flow.paths \cup flow.added))
    <3>1. flow.paths \cup flow.added \in SUBSET Paths
      OBVIOUS
    <3> QED
      BY <2>4, <3>1, CommandsWithin, IndexStays DEF Standing
  <2>5. CASE /\ index' = AfterReset(flow.paths)
             /\ work' = [p \in Paths |-> IF p \in flow.paths THEN head[p] ELSE work[p]]
             /\ UNCHANGED <<log, inside, merging>>
    <3>1. Within(head) /\ Within(work) /\ Within(index') /\ Submodules \subseteq Paths
      BY <2>5, HeadWithin, CommandsWithin, PresentPaths DEF Standing
    <3>2. Present' = Present
      BY <2>5, <3>1 DEF Present, Within
    <3> QED
      BY <2>5, <3>1, <3>2 DEF Standing, DiskStands, DiskStays, Within
  <2>6. CASE MoveFilesToTrash
    <3>1. PICK gone \in SUBSET flow.paths : work' = [p \in Paths |-> IF p \in gone THEN None ELSE work[p]]
      BY <2>6 DEF MoveFilesToTrash, MoveToTrash
    <3>2. flow.paths \subseteq Files
      BY <2>6 DEF MoveFilesToTrash, MoveToTrash, At, Standing, FlowStands
    <3>3. Present' = Present
      BY <3>1, <3>2, PresentPaths DEF Present
    <3> QED
      BY <2>6, <3>3 DEF MoveFilesToTrash, Standing, DiskStands, DiskStays, Within
  <2>7. CASE Len(log) > 1 /\ log' = SubSeq(log, 1, Len(log) - 1) /\ UNCHANGED <<index, work, inside, merging>>
    <3>1. log \in Seq(Commit)
      BY DEF DiskTypeOK, WorkingTreeTypeOK
    <3>2. log' # <<>> /\ \A i \in DOMAIN log' : i \in DOMAIN log /\ log'[i] = log[i]
      <4>1. /\ Len(log) \in Nat /\ Len(log) > 1 /\ DOMAIN log = 1..Len(log)
            /\ DOMAIN log' = 1..(Len(log) - 1) /\ Len(log') = Len(log) - 1
            /\ \A i \in 1..(Len(log) - 1) : log'[i] = log[i]
        BY <2>7, <3>1, SubSeqProperties
      <4>2. Len(log') # 0
        BY <4>1
      <4> QED
        BY <4>1, <4>2
    <3>3. Present' = Present
      BY <2>7 DEF Present
    <3> QED
      BY <2>7, <3>2, <3>3 DEF Standing, DiskStands, DiskStays, Within
  <2>8. CASE /\ index' = head
             /\ work' = [p \in Paths |-> IF p \in Submodules \/ index[p] = head[p] THEN work[p] ELSE head[p]]
             /\ UNCHANGED <<log, inside>>
    <3>1. Present' = Present
      BY <2>8, PresentPaths DEF Present
    <3>2. Within(head)
      BY HeadWithin DEF Standing
    <3> QED
      BY <2>8, <3>1, <3>2 DEF Standing, DiskStands, DiskStays, Within
  <2>9. RestoreHead => Untouched \/ (/\ index' = AfterReset(flow.paths)
                                     /\ work' = [p \in Paths |-> IF p \in flow.paths THEN head[p] ELSE work[p]]
                                     /\ UNCHANGED <<log, inside, merging>>)
    BY DEF RestoreHead
  <2>10. Undo => Untouched \/ (Len(log) > 1 /\ log' = SubSeq(log, 1, Len(log) - 1) /\ UNCHANGED <<index, work, inside, merging>>)
    BY DEF Undo, Try
  <2>11. AbortOperation =>
            \/ Untouched
            \/ /\ index' = head
               /\ work' = [p \in Paths |-> IF p \in Submodules \/ index[p] = head[p] THEN work[p] ELSE head[p]]
               /\ UNCHANGED <<log, inside>>
    BY DEF AbortOperation
  <2>12. UnAdd => Untouched \/ IndexBecomes(AfterReset(flow.added))
    BY DEF UnAdd
  <2>13. AddToIndex => Untouched \/ IndexBecomes(AfterAdd(flow.paths))
    BY DEF AddToIndex
  <2>14. ResetAll => Untouched \/ IndexBecomes(AfterReset(flow.paths \cup flow.added))
    BY DEF ResetAll
  <2> QED
    BY <2>1, <2>2, <2>3, <2>4, <2>5, <2>6, <2>7, <2>8, <2>9, <2>10, <2>11, <2>12, <2>13, <2>14 DEF OtherSteps
<1> QED
  BY <1>2, <1>3, <1>4, OtherFlowStays DEF Standing, DiskStays

LEMMA OutsideStands == Typed /\ Standing /\ OutsideActions => DiskStays /\ FlowStands'
<1> SUFFICES ASSUME Typed, Standing, OutsideActions PROVE DiskStays /\ FlowStands'
  OBVIOUS
<1> USE FlowTypedMeans
<1>1. work \in Tree /\ index \in Index /\ inside \in [Submodules -> {"Clean", "Untracked", "DirtyTracked"}] /\ Within(index)
  BY DEF DiskTypeOK, WorkingTreeTypeOK, Index, Standing, DiskStands
<1>2. PICK P \in SUBSET Paths :
         UNCHANGED <<log, before>> /\ flow' = IF flow.kind = "none" THEN flow ELSE [flow EXCEPT !.touched = @ \cup P]
  BY OutsideLeaves
<1>3. Unmerged \notin Held /\ Submodules \subseteq Paths /\ Submodules \cap Files = {}
  BY GitWorkTreeAssumption, PresentPaths DEF Held
<1>4. Present' = Present /\ Within(index)' /\ \A s \in Submodules : inside'[s] # "Clean" => inside[s] # "Clean" \/ s \in Present
  <2>1. ASSUME NEW p \in Paths, NEW c \in Held, OutsideEdit(p, c)
        PROVE  Present' = Present /\ UNCHANGED <<index, inside>>
    <3>1. work' = [work EXCEPT ![p] = c] /\ UNCHANGED <<index, inside>> /\ (p \in Submodules => c # None /\ Tracked(p))
      BY <2>1 DEF OutsideEdit
    <3>2. p \in Submodules => p \in Present
      BY <1>1, <3>1 DEF Within, Tracked
    <3> QED
      BY <1>1, <1>3, <3>1, <3>2 DEF Present, Tree
  <2>2. ASSUME NEW p \in Paths, NEW c \in Held, OutsideStage(p, c)
        PROVE  Present' = Present /\ Within(index)' /\ UNCHANGED inside
    <3>1. index' = [index EXCEPT ![p] = c] /\ UNCHANGED <<work, inside>> /\ (p \in Submodules => c # None /\ Tracked(p))
      BY <2>2 DEF OutsideStage
    <3>2. Present' = Present
      BY <3>1 DEF Present
    <3> QED
      BY <1>1, <1>3, <3>1, <3>2 DEF Within, Tracked, Index
  <2>3. ASSUME NEW s \in Submodules, NEW v \in {"Clean", "Untracked", "DirtyTracked"}, OutsideInside(s, v)
        PROVE  Present' = Present /\ index' = index /\ inside' = [inside EXCEPT ![s] = v] /\ s \in Present
    BY <1>1, <2>3 DEF OutsideInside, Present, Tracked, Within
  <2>4. ASSUME NEW q \in Files, NEW c \in Contents, NEW R \in SUBSET (Files \ {q}), OutsideMerge(R, q, c)
        PROVE  Present' = Present /\ Within(index)' /\ UNCHANGED inside
    <3>1. PICK d \in {c, head[q]} : work' = [p \in Paths |-> IF p \in R THEN c ELSE IF p = q THEN d ELSE work[p]]
      BY <2>4 DEF OutsideMerge
    <3>2. index' = [p \in Paths |-> IF p = q THEN Unmerged ELSE IF p \in R THEN c ELSE index[p]] /\ inside' = inside
      BY <2>4 DEF OutsideMerge
    <3>3. \A s \in Submodules : s \in Paths /\ s # q /\ s \notin R
      BY <1>3
    <3>4. \A s \in Submodules : work'[s] = work[s] /\ index'[s] = index[s]
      BY <3>1, <3>2, <3>3
    <3>5. Present' = Present
      BY <3>4 DEF Present
    <3> QED
      BY <1>1, <3>2, <3>4, <3>5 DEF Within
  <2>5. CASE \E p \in Paths, c \in Held : OutsideEdit(p, c) \/ OutsideStage(p, c)
    <3>1. UNCHANGED index /\ Present' = Present => Within(index)'
      BY <1>1 DEF Within
    <3> QED
      BY <2>1, <2>2, <2>5, <3>1
  <2>6. CASE \E s \in Submodules, v \in {"Clean", "Untracked", "DirtyTracked"} : OutsideInside(s, v)
    <3>1. PICK s \in Submodules, v \in {"Clean", "Untracked", "DirtyTracked"} :
             Present' = Present /\ index' = index /\ inside' = [inside EXCEPT ![s] = v] /\ s \in Present
      BY <2>3, <2>6
    <3>2. Within(index)'
      BY <1>1, <3>1 DEF Within
    <3> QED
      BY <1>1, <3>1, <3>2
  <2>7. CASE \E q \in Files, c \in Contents : \E R \in SUBSET (Files \ {q}) : OutsideMerge(R, q, c)
    BY <2>4, <2>7
  <2> QED
    BY <2>5, <2>6, <2>7 DEF OutsideActions
<1>5. DiskStays
  BY <1>2, <1>4 DEF Standing, DiskStands, DiskStays, Within
<1>6. flow'.kind = flow.kind /\ flow'.step = flow.step /\ flow'.paths = flow.paths /\ flow'.plan = flow.plan
  BY <1>2 DEF Flow
<1>7. FlowStands'
  BY <1>4, <1>6 DEF Standing, FlowStands, PlanStands
<1> QED
  BY <1>5, <1>7

\* What a flow is to delete is the path of a file.
LEMMA BeginsStand == Typed /\ Standing /\ Begins => DiskStays /\ FlowStands'
<1> SUFFICES ASSUME Typed, Standing, Begins PROVE DiskStays /\ FlowStands'
  OBVIOUS
<1>1. DiskStays
  BY SameDiskStays DEF Standing, Begins
<1>2. Started(flow')
  BY StartsTyped, PlanDiscardAllTyped DEF Begins
<1>3. CASE \E R \in SUBSET rows : StartDelete(R)
  <2>1. PICK R \in SUBSET rows : StartDelete(R)
    BY <1>3
  <2> DEFINE deleted == {e \in R : ~e.sub /\ ~e.nested /\ e.type # "Deleted"}
             added == {e \in deleted : e.type = "Added"}
             P == {e.path : e \in deleted}
             s == IF added = {} THEN "trash" ELSE "unAdd"
             f == Begin("delete", s, P)
             A == {e.path : e \in added}
  <2>2. P \in SUBSET Paths /\ s \in {"trash", "unAdd"}
    BY RowPaths
  <2>3. P \subseteq Files
    BY <2>2 DEF Standing, RowsStand, Paths
  <2>4. f \in Flow /\ f.kind = "delete" /\ f.paths = P
    BY <2>2, BeginTyped DEF OtherKinds, OtherStages
  <2>5. flow' = [f EXCEPT !.added = A]
    BY <2>1 DEF StartDelete
  <2> HIDE DEF f, A, P
  <2>6. flow'.kind = "delete" /\ flow'.paths = P
    BY <2>4, <2>5 DEF Flow
  <2> QED
    BY <1>1, <2>3, <2>6 DEF FlowStands
<1>4. CASE StartCommit
  <2> DEFINE m == Begin("merge", "commitAll", checkedPathspec)
             c == Begin("commit", "commitRows", checkedPathspec)
  <2>1. checkedPathspec \in SUBSET Paths
    BY DEF Typed, ListTyped, ListTypeOK, FileEntry, checkedPathspec
  <2>2. /\ m \in Flow /\ m.kind = "merge" /\ m.step = "commitAll"
        /\ c \in Flow /\ c.kind = "commit" /\ c.step = "commitRows"
    BY <2>1, BeginTyped DEF CommitStages, MergeStages
  <2>3. flow' = [m EXCEPT !.untracked = checkedUntrackedPaths] \/ flow' = [c EXCEPT !.untracked = checkedUntrackedPaths]
    BY <1>4 DEF StartCommit
  <2> HIDE DEF m, c
  <2>4. flow'.kind \in {"merge", "commit"} /\ flow'.step \in {"commitAll", "commitRows"}
    BY <2>2, <2>3 DEF Flow
  <2> QED
    BY <1>1, <2>4 DEF FlowStands
<1>5. CASE flow'.kind \notin {"commit", "merge", "delete"} /\ flow'.step # "trash"
  BY <1>1, <1>5 DEF FlowStands
<1>6. \/ \E R \in SUBSET rows : StartDelete(R)
      \/ StartCommit
      \/ flow'.kind \notin {"commit", "merge", "delete"} /\ flow'.step # "trash"
  <2>1. ASSUME NEW R \in SUBSET rows, StartDiscard(R) \/ (\E t \in {"Untracked", "Conflicted"} : StartAdd(R, t)) \/ StartUnAdd(R)
        PROVE  flow'.kind \in {"discard", "add", "unAdd"} /\ flow'.step # "trash"
    <3> DEFINE added == {e \in R : ~e.sub /\ e.type = "Added"}
               restored == {e \in R \ added : discardable(e)}
               P == Named(restored)
               Q == {e.path : e \in {g \in R : ~g.sub /\ ~g.nested}}
               Addable(t) == {e.path : e \in {g \in R : ~g.sub /\ ~g.nested /\ g.type = t}}
    <3>1. P \in SUBSET Paths /\ {} \in SUBSET Paths /\ \A t : Addable(t) \in SUBSET Paths
      BY RowPaths
    <3>2. \/ \E s \in {"unAdd", "restore"} : flow' = [Begin("discard", s, P) EXCEPT !.added = Named(added)]
          \/ \E s \in {"markResolved", "addToIndex"}, t \in {"Untracked", "Conflicted"} : flow' = Begin("add", s, Addable(t))
          \/ flow' = [Begin("unAdd", "unAdd", {}) EXCEPT !.added = Named(added)]
      BY <2>1 DEF StartDiscard, StartAdd, StartUnAdd
    <3>3. ASSUME NEW k \in {"discard", "add", "unAdd"}, NEW s \in {"unAdd", "restore", "markResolved", "addToIndex"},
                 NEW S \in SUBSET Paths
          PROVE  Begin(k, s, S) \in Flow /\ Begin(k, s, S).kind = k /\ Begin(k, s, S).step = s
      BY BeginTyped DEF OtherKinds, OtherStages
    <3>4. \A f \in Flow : \A a : [f EXCEPT !.added = a].kind = f.kind /\ [f EXCEPT !.added = a].step = f.step
      BY DEF Flow
    <3> HIDE DEF P, Addable
    <3>5. CASE \E s \in {"unAdd", "restore"} : flow' = [Begin("discard", s, P) EXCEPT !.added = Named(added)]
      BY <3>1, <3>3, <3>4, <3>5
    <3>6. CASE \E s \in {"markResolved", "addToIndex"}, t \in {"Untracked", "Conflicted"} : flow' = Begin("add", s, Addable(t))
      BY <3>1, <3>3, <3>6
    <3>7. CASE flow' = [Begin("unAdd", "unAdd", {}) EXCEPT !.added = Named(added)]
      BY <3>1, <3>3, <3>4, <3>7
    <3> QED
      BY <3>2, <3>5, <3>6, <3>7
  <2>2. ASSUME StartUndo \/ StartAbort PROVE flow'.kind \in {"undo", "abort"} /\ flow'.step # "trash"
    <3>1. flow' = Begin("undo", "undo", {}) \/ flow' = Begin("abort", "abort", {})
      BY <2>2 DEF StartUndo, StartAbort
    <3> QED
      BY <3>1, BeginTyped DEF OtherKinds, OtherStages
  <2>3. ASSUME PlanDiscardAll PROVE flow'.kind = "discardAll" /\ flow'.step # "trash"
    <3> DEFINE plan == discardPlanFor(NameStatus)
               f == Begin("discardAll", "discardAll", plan.restored)
    <3>1. plan.restored \in SUBSET Paths
      <4>1. NameStatus \in SUBSET TrackedEntry
        BY NameStatusTyped DEF Typed, DiskTypeOK, WorkingTreeTypeOK
      <4> QED
        BY <4>1 DEF discardPlanFor, TrackedEntry
    <3> HIDE DEF plan
    <3>2. f \in Flow /\ f.kind = "discardAll" /\ f.step = "discardAll"
      BY <3>1, BeginTyped DEF OtherKinds, OtherStages
    <3>3. flow' = [f EXCEPT !.added = plan.keptOnDisk, !.fresh = TRUE]
      BY <2>3 DEF PlanDiscardAll, StartDiscardAll, plan
    <3> HIDE DEF f
    <3> QED
      BY <3>2, <3>3 DEF Flow
  <2>4. \/ PlanDiscardAll \/ StartCommit \/ StartUndo \/ StartAbort
        \/ \E R \in SUBSET rows : \/ StartDiscard(R) \/ StartAdd(R, "Untracked") \/ StartAdd(R, "Conflicted")
                                \/ StartUnAdd(R) \/ StartDelete(R)
    BY DEF Begins, Starts
  <2>5. CASE \E R \in SUBSET rows : \/ StartDiscard(R) \/ StartAdd(R, "Untracked") \/ StartAdd(R, "Conflicted")
                                 \/ StartUnAdd(R) \/ StartDelete(R)
    <3>1. PICK R \in SUBSET rows : \/ StartDiscard(R) \/ StartAdd(R, "Untracked") \/ StartAdd(R, "Conflicted")
                                   \/ StartUnAdd(R) \/ StartDelete(R)
      BY <2>5
    <3>2. CASE StartDelete(R)
      BY <3>2
    <3>3. CASE StartDiscard(R) \/ StartAdd(R, "Untracked") \/ StartAdd(R, "Conflicted") \/ StartUnAdd(R)
      BY <2>1, <3>3
    <3> QED
      BY <3>1, <3>2, <3>3
  <2> QED
    BY <2>2, <2>3, <2>4, <2>5
<1> QED
  BY <1>3, <1>4, <1>5, <1>6

\* The other steps leave the disk alone, and the flow, but that it ends.
LEMMA RestStands == Typed /\ Standing /\ UNCHANGED disk /\ (flow' = flow \/ flow' = NoFlow) => DiskStays /\ FlowStands'
<1> SUFFICES ASSUME Typed, Standing, UNCHANGED disk, flow' = flow \/ flow' = NoFlow PROVE DiskStays /\ FlowStands'
  OBVIOUS
<1>1. DiskStays
  BY SameDiskStays DEF Standing
<1> QED
  BY <1>1 DEF DiskStays, Standing, FlowStands, PlanStands, NoFlow

LEMMA RestLeaves ==
    ASSUME \/ Report(NewRun) /\ UNCHANGED disk
           \/ Answer \/ EndRefresh
           \/ RefreshIsDue(NewRun) /\ UNCHANGED disk
           \/ UserChecks /\ UNCHANGED disk
           \/ UNCHANGED vars
    PROVE  UNCHANGED disk /\ (flow' = flow \/ flow' = NoFlow)
BY DEF Report, Answer, EndRefresh, TakeRows, RefreshIsDue, UserChecks, flowVars, vars

LEMMA NextStands == Typed /\ Standing /\ [Next]_vars => DiskStays /\ FlowStands'
BY ListStagedStands, CommitStepsStand, RunCommitStands, MergeStepsStand, OtherStepsStand, OutsideStands, BeginsStand,
   RestStands, RestLeaves DEF Next, CommitSteps
-------------------------------------------------------------------------------
(* What a run has read. *)

LEMMA NameStatusStands == Typed /\ DiskStands => \A d \in NameStatus : d.path \in Submodules => d.path \in Present /\ d.was = None
<1> SUFFICES ASSUME Typed, DiskStands, NEW d \in NameStatus, d.path \in Submodules PROVE d.path \in Present /\ d.was = None
  OBVIOUS
<1>1. Renames \in SUBSET (Files \X Files) /\ Submodules \cap Files = {}
  BY RenamesPair, PresentPaths DEF RenamePairs
<1>2. \A r \in Renames : d # [path |-> r[2], was |-> r[1], type |-> "Renamed"]
  BY <1>1
<1>3. d.path \in Differing /\ d.was = None
  BY <1>2 DEF NameStatus
<1>4. Within(head) /\ Within(index)
  BY HeadWithin DEF DiskStands
<1> QED
  BY <1>3, <1>4 DEF Differing, InTree, Tracked, Within

\* An answer leaves what was read before it, or is what the disk holds now.
StatusAsRead(r) == /\ r.submodules = {s \in Submodules : Tracked(s)}
                   /\ r.untracked = {p \in Paths : IsUntracked(p)}
                   /\ r.conflicted = {p \in Paths : index[p] = Unmerged}

Answers(r) ==
    /\ run.round # 0 /\ r.round # 0
    /\ "status" \notin r.asked /\ ~r.failed =>
          \/ "status" \notin run.asked /\ ~run.failed /\ r.submodules = run.submodules
             /\ r.untracked = run.untracked /\ r.conflicted = run.conflicted
          \/ StatusAsRead(r)
    /\ "tracked" \notin r.asked /\ ~r.trackedError =>
          r.diff = NameStatus \/ ("tracked" \notin run.asked /\ ~run.trackedError /\ r.diff = run.diff)
    /\ r.diff \in {run.diff, NameStatus}
    /\ \A s \in DOMAIN r.content :
          (s \in DOMAIN run.content /\ r.content[s] = run.content[s]) \/ r.content[s] \in {inside[s], "Unknown"}

LEMMA AnswerFirstAnswers ==
    ASSUME Typed, NEW q \in run.asked \cap FirstRound, NEW ok \in BOOLEAN, AnswerFirst(q, ok)
    PROVE  Answers(run')
<1>1. run \in RefreshRun /\ run.round = 1
  BY DEF Typed, RunTyped, AnswerFirst
<1> DEFINE r == Answered(q, run)
<1>2. /\ r \in RefreshRun /\ r.asked = run.asked \ {q} /\ r.round = 1 /\ r.failed = run.failed /\ r.trackedError = run.trackedError
      /\ r.submodules = run.submodules /\ r.untracked = run.untracked /\ r.conflicted = run.conflicted /\ r.diff = run.diff
      /\ r.content = run.content
  BY <1>1 DEF Answered, RefreshRun
<1>3. \/ q = "status" /\ (run' = StatusRead(r) \/ run' = [r EXCEPT !.failed = TRUE])
      \/ q = "tracked" /\ (run' = [r EXCEPT !.diff = NameStatus] \/ run' = [r EXCEPT !.trackedError = TRUE])
  BY DEF AnswerFirst, FirstRound
<1> HIDE DEF r
<1>4. CASE q = "status" /\ run' = StatusRead(r)
  <2>1. /\ run'.asked = r.asked /\ run'.round = 1 /\ run'.failed = r.failed /\ run'.trackedError = r.trackedError
        /\ run'.diff = r.diff /\ run'.content = r.content
    BY <1>2, <1>4 DEF StatusRead, RefreshRun
  <2>2. StatusAsRead(run')
    BY <1>2, <1>4 DEF StatusRead, StatusAsRead, RefreshRun
  <2> QED
    BY <1>1, <1>2, <1>4, <2>1, <2>2 DEF Answers
<1>5. CASE q = "status" /\ run' = [r EXCEPT !.failed = TRUE]
  <2>1. run'.asked = r.asked /\ run'.round = 1 /\ run'.failed /\ run'.trackedError = r.trackedError
        /\ run'.diff = r.diff /\ run'.content = r.content
    BY <1>2, <1>5 DEF RefreshRun
  <2> QED
    BY <1>1, <1>2, <1>5, <2>1 DEF Answers
<1>6. CASE q = "tracked" /\ (run' = [r EXCEPT !.diff = NameStatus] \/ run' = [r EXCEPT !.trackedError = TRUE])
  <2>1. /\ run'.asked = r.asked /\ run'.round = 1 /\ run'.failed = r.failed
        /\ run'.submodules = r.submodules /\ run'.untracked = r.untracked /\ run'.conflicted = r.conflicted
        /\ run'.content = r.content /\ (run'.diff = NameStatus \/ (run'.trackedError /\ run'.diff = r.diff))
    BY <1>2, <1>6 DEF RefreshRun
  <2> QED
    BY <1>1, <1>2, <1>6, <2>1 DEF Answers
<1> QED
  BY <1>3, <1>4, <1>5, <1>6

LEMMA StartDependentAnswers == Typed /\ StartDependentQueries => Answers(run')
<1> SUFFICES ASSUME Typed, StartDependentQueries PROVE Answers(run')
  OBVIOUS
<1> DEFINE Q == IF run.unborn THEN {"emptyTree"} ELSE {}
<1>1. run \in RefreshRun /\ run.round = 1 /\ run.asked = {}
  BY DEF Typed, RunTyped, StartDependentQueries
<1>2. run' = [run EXCEPT !.round = 2, !.asked = Q, !.subs = run.submodules]
  BY DEF StartDependentQueries
<1> HIDE DEF Q
<1>3. run'.round = 2 /\ run'.failed = run.failed /\ run'.trackedError = run.trackedError
      /\ run'.submodules = run.submodules /\ run'.untracked = run.untracked /\ run'.conflicted = run.conflicted
      /\ run'.diff = run.diff /\ run'.content = run.content
  BY <1>1, <1>2 DEF RefreshRun
<1> QED
  BY <1>1, <1>3 DEF Answers

LEMMA AnswerEmptyTreeAnswers ==
    ASSUME Typed, NEW ok \in BOOLEAN, AnswerEmptyTree(ok)
    PROVE  Answers(run')
<1>1. run \in RefreshRun /\ run.round = 2 /\ "status" \notin run.asked
  BY DEF Typed, RunTyped, Rounds, AnswerEmptyTree
<1> DEFINE r == Answered("emptyTree", run)
<1>2. /\ r \in RefreshRun /\ r.round = 2 /\ r.failed = run.failed /\ r.trackedError = run.trackedError
      /\ r.submodules = run.submodules /\ r.untracked = run.untracked /\ r.conflicted = run.conflicted /\ r.diff = run.diff
      /\ r.content = run.content
  BY <1>1 DEF Answered, RefreshRun
<1>3. run' = [r EXCEPT !.diff = NameStatus, !.trackedError = FALSE] \/ run' = [r EXCEPT !.trackedError = TRUE]
  BY DEF AnswerEmptyTree
<1> HIDE DEF r
<1>4. /\ run'.round = 2 /\ run'.failed = r.failed
      /\ run'.submodules = r.submodules /\ run'.untracked = r.untracked /\ run'.conflicted = r.conflicted
      /\ run'.content = r.content /\ (run'.diff = NameStatus \/ (run'.trackedError /\ run'.diff = r.diff))
  BY <1>2, <1>3 DEF RefreshRun
<1> QED
  BY <1>1, <1>2, <1>4 DEF Answers

LEMMA AnswerInsideAnswers ==
    ASSUME Typed, NEW s \in Submodules, NEW ok \in BOOLEAN, AnswerInside(s, ok)
    PROVE  Answers(run')
<1>1. run \in RefreshRun /\ run.round # 0
  BY DEF Typed, RunTyped, Rounds, AnswerInside, NoRun
<1> DEFINE c == [q \in DOMAIN run.content \cup {s} |->
                    IF q = s THEN (IF ok THEN inside[s] ELSE "Unknown") ELSE run.content[q]]
<1>2. run' = [run EXCEPT !.subs = run.subs \ {s}, !.content = c]
  BY DEF AnswerInside
<1>3. \A q \in DOMAIN c : (q \in DOMAIN run.content /\ c[q] = run.content[q]) \/ c[q] \in {inside[q], "Unknown"}
  OBVIOUS
<1> HIDE DEF c
<1>4. /\ run'.round = run.round /\ run'.asked = run.asked /\ run'.failed = run.failed /\ run'.trackedError = run.trackedError
      /\ run'.submodules = run.submodules /\ run'.untracked = run.untracked /\ run'.conflicted = run.conflicted
      /\ run'.diff = run.diff /\ run'.content = c
  BY <1>1, <1>2 DEF RefreshRun
<1> QED
  BY <1>1, <1>3, <1>4 DEF Answers

LEMMA AnswerAnswers == Typed /\ Answer => Answers(run')
BY AnswerFirstAnswers, StartDependentAnswers, AnswerEmptyTreeAnswers, AnswerInsideAnswers DEF Answer, AnswerQuery

LEMMA AnswerStands == Typed /\ Standing /\ Answer => RunStands'
<1> SUFFICES ASSUME Typed, Standing, Answer PROVE RunStands'
  OBVIOUS
<1>1. Answers(run') /\ Present' = Present
  BY AnswerAnswers, NextStands DEF Next, DiskStays
<1>2. Within(index)
  BY DEF Standing, DiskStands
<1>3. StatusAsRead(run') => run'.submodules = Present /\ run'.conflicted \subseteq Files
  BY <1>2 DEF StatusAsRead, Within, Present, Tracked, Paths
<1>4. \A d \in NameStatus \cup run.diff : d.path \in Submodules => d.path \in Present /\ d.was = None
  BY NameStatusStands DEF Standing, RunStands
<1> QED
  BY <1>1, <1>3, <1>4 DEF Answers, Standing, RunStands

\* A step that reads nothing keeps the run, or begins a new one.
LEMMA RunKept ==
    ASSUME Typed, Standing, [Next]_vars, ~Answer
    PROVE  run' \in {run, NoRun, NewRun}
<1>1. CASE CommitSteps \/ OtherSteps
  <2>1. UNCHANGED run
    BY <1>1 DEF CommitSteps, OtherSteps, ListStaged, ResetOthers, AddChecked, RunCommit, RestoreStaging, RollBackAdd,
                AddTracked, AddUntracked, RestoreHead, UnAdd, AddToIndex, MoveFilesToTrash, MoveToTrash, ResetAll, Undo,
                AbortOperation, KeepRefresh
  <2> QED
    BY <2>1
<1>2. CASE OutsideActions
  <2>1. UNCHANGED run
    BY <1>2 DEF OutsideActions, OutsideEdit, OutsideStage, OutsideInside, OutsideMerge, OutsideChanges, Touch, KeepRefresh
  <2> QED
    BY <2>1
<1>3. CASE Begins \/ UserChecks \/ UNCHANGED vars
  BY <1>3 DEF Begins, Starts, PlanDiscardAll, UserChecks, vars, refreshVars, KeepRefresh
<1>4. CASE Report(NewRun) \/ RefreshIsDue(NewRun) \/ EndRefresh
  BY <1>4 DEF Report, RefreshIsDue, EndRefresh, Refresh, RestartIfAsked
<1> QED
  BY <1>1, <1>2, <1>3, <1>4 DEF Next

LEMMA NoRunStands == \A r \in {NoRun, NewRun} : (r.round = 0 \/ "status" \in r.asked) /\ r.diff = {}
<1>1. NoRun.round = 0 /\ NoRun.diff = {}
  BY DEF NoRun
<1>2. NewRun.asked = FirstRound /\ NewRun.diff = {}
  BY DEF NewRun, NoRun
<1> QED
  BY <1>1, <1>2 DEF FirstRound

LEMMA RunStandsNext == Typed /\ Standing /\ [Next]_vars => RunStands'
<1> SUFFICES ASSUME Typed, Standing, [Next]_vars, ~Answer PROVE RunStands'
  BY AnswerStands
<1>1. run' \in {run, NoRun, NewRun} /\ Present' = Present
  BY RunKept, NextStands DEF DiskStays
<1>2. CASE run' = run
  BY <1>1, <1>2 DEF Standing, RunStands
<1>3. CASE run' \in {NoRun, NewRun}
  BY <1>3, NoRunStands DEF RunStands
<1> QED
  BY <1>1, <1>2, <1>3

\* The end of a refresh: all has answered of a run that is good.
Known == ~run.failed /\ ~run.trackedError

LEMMA RefreshEnds ==
    ASSUME Typed, Standing, EndRefresh
    PROVE  /\ run \in RefreshRun /\ run.round = 2 /\ run.asked = {} /\ run.subs = {}
           /\ DOMAIN run.content = run.submodules
           /\ rows' = files' /\ files' = IF Known THEN filesFromRun(run) ELSE files
           /\ state'.known = Known
           /\ ~run.failed => run.submodules = Present /\ run.conflicted \subseteq Files
<1>1. run \in RefreshRun /\ run.round = 2 /\ run.asked = {} /\ run.subs = {}
  BY DEF Typed, RunTyped, EndRefresh, FinishRefresh
<1>2. DOMAIN run.content = run.submodules
  BY <1>1 DEF Typed, RunTyped, Rounds
<1>3. rows' = files' /\ files' = IF Known THEN filesFromRun(run) ELSE files
  BY DEF EndRefresh, FinishRefresh, Establish, TakeRows, setEntries, Known
<1>4. state'.known = Known
  <2>1. state \in [known : BOOLEAN, merging : BOOLEAN, unborn : BOOLEAN, parents : 0..2]
    BY DEF Typed, ListTyped, CycleTypeOK
  <2>2. CASE Known
    <3>1. state' = [known |-> TRUE, merging |-> merging, unborn |-> run.unborn, parents |-> run.parents]
      BY <2>2 DEF EndRefresh, FinishRefresh, Establish, Known
    <3> QED
      BY <2>2, <3>1
  <2>3. CASE ~Known
    BY <2>1, <2>3 DEF EndRefresh, FinishRefresh, Establish, Known
  <2> QED
    BY <2>2, <2>3
<1>5. ~run.failed => run.submodules = Present /\ run.conflicted \subseteq Files
  BY <1>1 DEF Standing, RunStands
<1> QED
  BY <1>1, <1>2, <1>3, <1>4, <1>5

\* What is read of the rows.
LEMMA RowFields ==
    /\ \A d, r : LET e == diffRow(d, r)
                 IN  /\ e.path = d.path /\ e.was = d.was /\ ~e.nested
                     /\ e.sub <=> d.path \in r.submodules
                     /\ e.sub => e.content = r.content[d.path]
                     /\ e.type = IF d.path \in r.conflicted /\ ~e.sub THEN "Conflicted" ELSE d.type
    /\ \A p, t : LET e == plainRow(p, t)
                 IN  /\ e.path = p /\ e.was = None /\ ~e.sub /\ e.type = t
                     /\ e.nested <=> t = "Untracked" /\ p \in Submodules
    /\ \A S, r : \A e \in contentRows(S, r) :
          /\ e.path \in S /\ e.was = None /\ e.sub /\ ~e.nested /\ ~e.pointerMoved /\ e.type = "Modified"
          /\ e.content \in {"DirtyTracked", "Unknown"}
<1>1. ASSUME NEW d, NEW r
      PROVE  LET e == diffRow(d, r)
             IN  /\ e.path = d.path /\ e.was = d.was /\ ~e.nested
                 /\ e.sub <=> d.path \in r.submodules
                 /\ e.sub => e.content = r.content[d.path]
                 /\ e.type = IF d.path \in r.conflicted /\ ~e.sub THEN "Conflicted" ELSE d.type
  <2>1. CASE d.path \in r.submodules
    BY <2>1 DEF diffRow
  <2>2. CASE d.path \notin r.submodules
    BY <2>2 DEF diffRow
  <2> QED
    BY <2>1, <2>2
<1>2. ASSUME NEW p, NEW t
      PROVE  LET e == plainRow(p, t)
             IN  /\ e.path = p /\ e.was = None /\ ~e.sub /\ e.type = t
                 /\ e.nested <=> t = "Untracked" /\ p \in Submodules
  <2>1. CASE t = "Untracked" /\ p \in Submodules
    BY <2>1 DEF plainRow
  <2>2. CASE ~(t = "Untracked" /\ p \in Submodules)
    BY <2>2 DEF plainRow
  <2> QED
    BY <2>1, <2>2
<1>3. ASSUME NEW S, NEW r, NEW e \in contentRows(S, r)
      PROVE  /\ e.path \in S /\ e.was = None /\ e.sub /\ ~e.nested /\ ~e.pointerMoved /\ e.type = "Modified"
             /\ e.content \in {"DirtyTracked", "Unknown"}
  BY DEF contentRows
<1> QED
  BY <1>1, <1>2, <1>3

LEMMA RowsStandNext == Typed /\ Standing /\ [Next]_vars => RowsStand'
<1> SUFFICES ASSUME Typed, Standing, [Next]_vars PROVE RowsStand'
  OBVIOUS
<1>1. CASE EndRefresh
  <2>1. CASE ~Known
    BY <1>1, <2>1, RefreshEnds DEF Standing, RowsStand
  <2>2. CASE Known
    <3>1. rows' = files' /\ files' = filesFromRun(run) /\ run.submodules = Present /\ run.conflicted \subseteq Files
      BY <1>1, <2>2, RefreshEnds DEF Known
    <3>2. ASSUME NEW e \in filesFromRun(run), e.path \in Submodules PROVE e.sub \/ e.nested
      <4>1. CASE \E d \in run.diff : e = diffRow(d, run)
        BY <3>1, <3>2, <4>1, RowFields DEF Standing, RunStands
      <4>2. CASE \E p \in run.conflicted : e = plainRow(p, "Conflicted")
        BY <3>1, <3>2, <4>2, PresentPaths, RowFields
      <4>3. CASE \E p \in run.untracked : e = plainRow(p, "Untracked")
        BY <3>2, <4>3, RowFields
      <4>4. CASE \E S : e \in contentRows(S, run)
        BY <4>4, RowFields
      <4> QED
        BY <3>2, <4>1, <4>2, <4>3, <4>4 DEF filesFromRun
    <3> QED
      BY <3>1, <3>2 DEF RowsStand
  <2> QED
    BY <2>1, <2>2
<1>2. CASE UNCHANGED <<files, rows>>
  BY <1>2 DEF Standing, RowsStand
<1>3. CASE CommitSteps \/ OtherSteps
  <2>1. UNCHANGED <<files, rows>>
    BY <1>3 DEF CommitSteps, OtherSteps, ListStaged, ResetOthers, AddChecked, RunCommit, RestoreStaging, RollBackAdd,
                AddTracked, AddUntracked, RestoreHead, UnAdd, AddToIndex, MoveFilesToTrash, MoveToTrash, ResetAll, Undo,
                AbortOperation, KeepRefresh, KeepList, KeepSettled, listVars
  <2> QED
    BY <1>2, <2>1
<1>4. CASE OutsideActions
  <2>1. UNCHANGED <<files, rows>>
    BY <1>4 DEF OutsideActions, OutsideEdit, OutsideStage, OutsideInside, OutsideMerge, OutsideChanges, Touch, KeepRefresh, listVars
  <2> QED
    BY <1>2, <2>1
<1>5. CASE Begins \/ UserChecks \/ UNCHANGED vars \/ Answer \/ Report(NewRun) \/ RefreshIsDue(NewRun)
  <2>1. UNCHANGED <<files, rows>>
    BY <1>5 DEF Begins, Starts, PlanDiscardAll, UserChecks, vars, refreshVars, listVars, KeepRefresh, KeepSettled, Answer,
                AnswerQuery, Report, RefreshIsDue
  <2> QED
    BY <1>2, <2>1
<1> QED
  BY <1>1, <1>3, <1>4, <1>5 DEF Next

LEMMA InitStands == Init => Standing
<1> SUFFICES ASSUME Init PROVE Standing
  OBVIOUS
<1>1. log \in Seq(Commit) /\ Typed
  BY InitTyped DEF Typed, DiskTypeOK, WorkingTreeTypeOK
<1>2. PICK p \in Paths, q \in Paths, c \in Held, d \in Held :
         /\ p \in Submodules => {head[p], c} \cap {None} = {}
         /\ q \in Submodules => {head[q], d} \cap {None} = {}
         /\ index = [head EXCEPT ![p] = c]
         /\ work = [index EXCEPT ![q] = IF p = q THEN c ELSE d]
  <2>1. ChangedBefore
    BY DEF Init
  <2> QED
    BY <2>1 DEF ChangedBefore
<1>3. head \in Tree /\ Unmerged \notin Held /\ Submodules \subseteq Paths
  BY <1>1, HeadTyped, GitWorkTreeAssumption, PresentPaths DEF Held
<1>4. \A s \in Submodules : (head[s] # None <=> s \in Present) /\ (index[s] # None <=> s \in Present)
  BY <1>2, <1>3 DEF Present, Tree
<1>5. Within(head)
  BY <1>3, <1>4 DEF Within, Tree
<1>6. Within(index)
  BY <1>1, <1>2, <1>3, <1>4 DEF Within, Tree
<1>7. log = <<>> => Present = {}
  BY <1>4, <1>3 DEF head, Present
<1>8. \A i \in DOMAIN log : Within(log[i].tree)
  <2>1. log = <<>> \/ Len(log) = 1
    <3>1. log \in {<<>>} \cup
             {<<[tree |-> [r \in Paths |-> IF r \in P THEN x ELSE None], joins |-> FALSE, copies |-> NoCopies]>>
                : P \in {Q \in SUBSET Paths : Cardinality(Q) <= MaxPaths}, x \in Contents}
      BY DEF Init
    <3>2. \A x : Len(<<x>>) = 1
      OBVIOUS
    <3> QED
      BY <3>1, <3>2
  <2>2. CASE log = <<>>
    BY <2>2
  <2>3. CASE Len(log) = 1
    <3>1. DOMAIN log = {1} /\ log # <<>>
      <4>1. DOMAIN log = 1..Len(log) /\ 1..1 = {1}
        BY <1>1
      <4> QED
        BY <2>3, <4>1
    <3>2. head = log[1].tree
      BY <2>3, <3>1 DEF head
    <3> QED
      BY <1>5, <3>1, <3>2
  <2> QED
    BY <2>1, <2>2, <2>3
<1>9. DiskStands
  BY <1>6, <1>7, <1>8 DEF DiskStands, Init
<1>10. run = NewRun /\ flow = NoFlow /\ files = rows /\ rows = {}
  BY DEF Init, ListInit
<1> QED
  BY <1>9, <1>10, NoRunStands DEF Standing, FlowStands, RunStands, RowsStand, NoFlow

LEMMA StandingNext == Typed /\ Standing /\ [Next]_vars => Standing'
BY NextStands, RunStandsNext, RowsStandNext DEF Standing, DiskStays

-------------------------------------------------------------------------------
(* What is read of a disk nothing has changed since is what it holds. *)

RunTruth ==
    run.round # 0 /\ ~moved =>
        /\ "status" \notin run.asked /\ ~run.failed => StatusAsRead(run)
        /\ "tracked" \notin run.asked /\ ~run.trackedError => run.diff = NameStatus
        /\ \A s \in DOMAIN run.content : run.content[s] \in {inside[s], "Unknown"}

\* The pairing a diff makes of a set of pairs.
Pairing(S) == CHOOSE m \in SUBSET S : OneToOne(m) /\ \A n \in SUBSET S : OneToOne(n) => Cardinality(n) <= Cardinality(m)

LEMMA SameDiskReads ==
    UNCHANGED disk => /\ NameStatus' = NameStatus /\ head' = head
                      /\ \A p : (InTree(p)' = InTree(p)) /\ (IsUntracked(p)' <=> IsUntracked(p)) /\ (Tracked(p)' <=> Tracked(p))
                      /\ \A r : StatusAsRead(r)' <=> StatusAsRead(r)
<1> SUFFICES ASSUME UNCHANGED disk
             PROVE  /\ NameStatus' = NameStatus /\ head' = head
                    /\ \A p : (InTree(p)' = InTree(p)) /\ (IsUntracked(p)' <=> IsUntracked(p)) /\ (Tracked(p)' <=> Tracked(p))
                    /\ \A r : StatusAsRead(r)' <=> StatusAsRead(r)
  OBVIOUS
<1>1. UNCHANGED <<log, index, work, inside, merging>>
  BY DEF disk
<1>2. head' = head
  BY <1>1 DEF head
<1>3. \A p : (InTree(p)' = InTree(p)) /\ (IsUntracked(p)' <=> IsUntracked(p)) /\ (Tracked(p)' <=> Tracked(p))
  BY <1>1 DEF InTree, IsUntracked, Tracked
<1>4. \A r : StatusAsRead(r)' <=> StatusAsRead(r)
  BY <1>1, <1>3 DEF StatusAsRead
<1>5. Renames' = Renames
  <2>1. RenamePairs' = RenamePairs
    BY <1>2, <1>3 DEF RenamePairs
  <2>2. Renames = Pairing(RenamePairs)
    BY DEF Renames, RenamePairs, Pairing, OneToOne
  <2>3. Renames' = Pairing(RenamePairs')
    BY DEF Renames, RenamePairs, Pairing, OneToOne
  <2> QED
    BY <2>1, <2>2, <2>3
<1>6. NameStatus' = NameStatus
  BY <1>2, <1>3, <1>5 DEF NameStatus, Differing
<1> QED
  BY <1>2, <1>3, <1>4, <1>6

\* The disk never changes unseen: it is marked, but for a run that begins now.
LEMMA ChangesAreMarked ==
    ASSUME Typed, [Next]_vars
    PROVE  moved' = TRUE \/ UNCHANGED disk
<1>1. CASE CommitSteps
  BY <1>1 DEF CommitSteps, ListStaged, ResetOthers, AddChecked, RunCommit, RestoreStaging, RollBackAdd, AddTracked, AddUntracked,
              Untouched, IndexBecomes
<1>2. CASE OtherSteps
  BY <1>2 DEF OtherSteps, RestoreHead, UnAdd, AddToIndex, MoveFilesToTrash, MoveToTrash, ResetAll, Undo, AbortOperation,
              Untouched, IndexBecomes
<1>3. CASE OutsideActions
  BY <1>3 DEF OutsideActions, OutsideEdit, OutsideStage, OutsideInside, OutsideMerge, OutsideChanges, Touch
<1>4. CASE Begins
  BY <1>4 DEF Begins
<1> QED
  BY <1>1, <1>2, <1>3, <1>4, RestLeaves DEF Next

LEMMA RunTruthNext == Typed /\ RunTruth /\ Standing /\ [Next]_vars => RunTruth'
<1> SUFFICES ASSUME Typed, RunTruth, Standing, [Next]_vars, run'.round # 0, ~moved' PROVE RunTruth'
  BY DEF RunTruth
<1>1. UNCHANGED disk
  BY ChangesAreMarked
<1>2. /\ NameStatus' = NameStatus /\ inside' = inside
      /\ \A p : (IsUntracked(p)' <=> IsUntracked(p)) /\ (Tracked(p)' <=> Tracked(p)) /\ index' = index
  BY <1>1, SameDiskReads DEF disk
<1>3. StatusAsRead(run)' <=>
        /\ run'.submodules = {s \in Submodules : Tracked(s)}
        /\ run'.untracked = {p \in Paths : IsUntracked(p)}
        /\ run'.conflicted = {p \in Paths : index[p] = Unmerged}
  BY <1>2 DEF StatusAsRead
<1>4. CASE Answer
  <2>1. Answers(run') /\ ~moved
    BY <1>4, AnswerAnswers DEF Answer, AnswerQuery
  <2> QED
    BY <1>2, <1>3, <2>1 DEF Answers, RunTruth, StatusAsRead
<1>5. CASE run' \in {NoRun, NewRun}
  <2>1. run'.round # 0 /\ run'.asked = FirstRound /\ DOMAIN run'.content = {}
    <3>1. NoRun.round = 0
      BY DEF NoRun
    <3>2. NewRun.asked = FirstRound /\ NewRun.content = <<>>
      BY DEF NewRun, NoRun
    <3>3. DOMAIN <<>> = {}
      OBVIOUS
    <3> QED
      BY <1>5, <3>1, <3>2, <3>3
  <2> QED
    BY <2>1 DEF RunTruth, FirstRound
<1>6. CASE run' = run /\ moved' = moved
  BY <1>2, <1>3, <1>6 DEF RunTruth, StatusAsRead
<1>7. Answer \/ run' \in {NoRun, NewRun} \/ (run' = run /\ moved' = moved)
  <2>1. CASE CommitSteps
    BY <2>1 DEF CommitSteps, ListStaged, ResetOthers, AddChecked, RunCommit, RestoreStaging, RollBackAdd, AddTracked, AddUntracked,
                Untouched, IndexBecomes, KeepRefresh
  <2>2. CASE OtherSteps
    BY <2>2 DEF OtherSteps, RestoreHead, UnAdd, AddToIndex, MoveFilesToTrash, MoveToTrash, ResetAll, Undo, AbortOperation,
                Untouched, IndexBecomes, KeepRefresh
  <2>3. CASE OutsideActions
    BY <2>3 DEF OutsideActions, OutsideEdit, OutsideStage, OutsideInside, OutsideMerge, OutsideChanges, Touch
  <2>4. CASE Begins \/ UserChecks \/ UNCHANGED vars
    BY <2>4 DEF Begins, Starts, PlanDiscardAll, UserChecks, vars, refreshVars, KeepRefresh
  <2>5. CASE Report(NewRun) \/ RefreshIsDue(NewRun) \/ EndRefresh
    BY <2>5 DEF Report, RefreshIsDue, EndRefresh, Refresh, RestartIfAsked
  <2> QED
    BY <2>1, <2>2, <2>3, <2>4, <2>5 DEF Next
<1> QED
  BY <1>4, <1>5, <1>6, <1>7

\* What RowsTellTheTruth says of a set of rows.
Listed(R) == {e.path : e \in R} \cup {e.was : e \in {f \in R : f.was # None}}
ToList(R) == {p \in Paths : \/ InTree(p) # head[p] \/ IsUntracked(p) \/ index[p] = Unmerged
                            \/ p \in Submodules /\ \E e \in R : e.path = p /\ contentBlocksPointer(e)}
Conflicts(R) == {e.path : e \in {f \in R : f.type = "Conflicted"}}

\* A run that read all of a disk that stayed as it is.
ReadsTrue(r) ==
    /\ StatusAsRead(r)
    /\ r.diff = NameStatus
    /\ DOMAIN r.content = r.submodules
    /\ \A s \in DOMAIN r.content : r.content[s] \in {inside[s], "Unknown"}

LEMMA RowsOfTruth ==
    ASSUME Typed, Standing, NEW r \in RefreshRun, ReadsTrue(r), NEW R, R = filesFromRun(r)
    PROVE  /\ Listed(R) = ToList(R)
           /\ Conflicts(R) = {p \in Paths : index[p] = Unmerged}
           /\ \A s \in Submodules : inside[s] = "DirtyTracked" => \E e \in R : e.path = s /\ ~committable(e)
<1> USE DEF ReadsTrue
<1> DEFINE listed == {d.path : d \in r.diff}
<1>1. /\ Within(index) /\ Within(head) /\ head \in Tree /\ log \in Seq(Commit) /\ work \in Tree
      /\ None \notin Paths /\ Submodules \subseteq Paths /\ Submodules \cap Files = {} /\ Files \subseteq Paths
  BY HeadWithin, FlowTypedMeans, PresentPaths, WorkingTreeAssumption
     DEF Standing, DiskStands, DiskTypeOK, WorkingTreeTypeOK
<1>2. /\ r.submodules = Present /\ r.untracked = {p \in Paths : IsUntracked(p)}
      /\ r.conflicted = {p \in Paths : index[p] = Unmerged} /\ r.conflicted \subseteq Files
  BY <1>1 DEF StatusAsRead, Within, Tracked, Present, Paths
<1>3. Renames \in SUBSET RenamePairs /\ r.diff \in SUBSET TrackedEntry
  BY <1>1, RenamesPair, NameStatusTyped
<1>4. \A d \in r.diff : /\ d.path \in Differing /\ d.was \in Paths \cup {None}
                        /\ d.was # None => d.was \in Differing
                        /\ d.type # "Conflicted"
  <2>1. ASSUME NEW p \in Renames
        PROVE  p[1] \in Differing /\ p[2] \in Differing
    <3>1. p \in Files \X Files /\ head[p[1]] # None /\ InTree(p[1]) = None /\ head[p[2]] = None /\ InTree(p[2]) = head[p[1]]
      BY <1>3 DEF RenamePairs
    <3> QED
      BY <1>1, <3>1 DEF Differing
  <2>2. \A d \in NameStatus : \/ \E p \in Renames : d.path = p[2] /\ d.was = p[1]
                              \/ d.path \in Differing /\ d.was = None
    BY DEF NameStatus
  <2> QED
    BY <1>3, <2>1, <2>2 DEF TrackedEntry
<1>5. \A p \in Differing : \E d \in r.diff : p \in {d.path, d.was}
  <2> SUFFICES ASSUME NEW p \in Differing PROVE \E d \in NameStatus : p \in {d.path, d.was}
    OBVIOUS
  <2>1. CASE \E m \in Renames : p \in {m[1], m[2]}
    <3>1. PICK m \in Renames : p \in {m[1], m[2]}
      BY <2>1
    <3>2. [path |-> m[2], was |-> m[1], type |-> "Renamed"] \in NameStatus
      BY DEF NameStatus
    <3> QED
      BY <3>1, <3>2
  <2>2. CASE ~\E m \in Renames : p \in {m[1], m[2]}
    <3>1. p \in Differing \ UNION {{m[1], m[2]} : m \in Renames}
      BY <2>2
    <3> DEFINE t == IF head[p] = None THEN "Added" ELSE IF InTree(p) = None THEN "Deleted" ELSE "Modified"
    <3>2. [path |-> p, was |-> None, type |-> t] \in NameStatus
      BY <3>1 DEF NameStatus
    <3> QED
      BY <3>2
  <2> QED
    BY <2>1, <2>2
<1>6. /\ \A d \in r.diff : diffRow(d, r) \in R
      /\ \A p \in r.conflicted \ listed : plainRow(p, "Conflicted") \in R
      /\ \A p \in r.untracked : plainRow(p, "Untracked") \in R
      /\ contentRows(r.submodules \ listed, r) \subseteq R
      /\ \A e \in R : \/ \E d \in r.diff : e = diffRow(d, r)
                      \/ \E p \in r.conflicted \ listed : e = plainRow(p, "Conflicted")
                      \/ \E p \in r.untracked : e = plainRow(p, "Untracked")
                      \/ e \in contentRows(r.submodules \ listed, r)
  BY DEF filesFromRun
<1>7. \A p \in Paths : IsUntracked(p) \/ index[p] = Unmerged \/ p \in Differing => p \in ToList(R)
  BY DEF ToList, Differing
<1>8. \A e \in R : /\ e.path \in ToList(R)
                   /\ e.was # None => e.was \in ToList(R)
  <2> SUFFICES ASSUME NEW e \in R PROVE e.path \in ToList(R) /\ (e.was # None => e.was \in ToList(R))
    OBVIOUS
  <2>1. ASSUME NEW d \in r.diff, e = diffRow(d, r) PROVE e.path \in ToList(R) /\ (e.was # None => e.was \in ToList(R))
    <3>1. e.path = d.path /\ e.was = d.was
      BY <2>1, RowFields
    <3>2. Differing \subseteq Paths
      BY DEF Differing
    <3> QED
      BY <1>4, <1>7, <3>1, <3>2
  <2>2. ASSUME NEW p \in r.conflicted, e = plainRow(p, "Conflicted") PROVE e.path \in ToList(R) /\ e.was = None
    BY <1>2, <1>7, <2>2, RowFields
  <2>3. ASSUME NEW p \in r.untracked, e = plainRow(p, "Untracked") PROVE e.path \in ToList(R) /\ e.was = None
    BY <1>2, <1>7, <2>3, RowFields
  <2>4. ASSUME e \in contentRows(r.submodules \ listed, r) PROVE e.path \in ToList(R) /\ e.was = None
    <3>1. e.path \in Submodules /\ e.was = None /\ e.content \in {"DirtyTracked", "Unknown"}
      BY <1>2, <2>4, RowFields DEF Present
    <3> QED
      BY <1>1, <3>1 DEF ToList, contentBlocksPointer
  <2> QED
    BY <1>6, <2>1, <2>2, <2>3, <2>4
<1>9. Listed(R) \subseteq ToList(R)
  BY <1>8 DEF Listed
<1>10. ToList(R) \subseteq Listed(R)
  <2> SUFFICES ASSUME NEW p \in ToList(R) PROVE p \in Listed(R)
    OBVIOUS
  <2>1. p \in Paths /\ (p \in Differing \/ IsUntracked(p) \/ index[p] = Unmerged \/ \E e \in R : e.path = p)
    BY DEF ToList, Differing
  <2>2. CASE p \in Differing
    <3>1. PICK d \in r.diff : p \in {d.path, d.was}
      BY <1>5, <2>2
    <3>2. diffRow(d, r) \in R /\ diffRow(d, r).path = d.path /\ diffRow(d, r).was = d.was
      BY <1>6, RowFields
    <3> QED
      BY <1>1, <2>1, <3>1, <3>2 DEF Listed
  <2>3. CASE IsUntracked(p)
    <3>1. plainRow(p, "Untracked") \in R /\ plainRow(p, "Untracked").path = p
      BY <1>2, <1>6, <2>1, <2>3, RowFields
    <3> QED
      BY <3>1 DEF Listed
  <2>4. CASE index[p] = Unmerged
    <3>1. CASE p \in listed
      <4>1. PICK d \in r.diff : p = d.path
        BY <3>1
      <4>2. diffRow(d, r) \in R /\ diffRow(d, r).path = p
        BY <1>6, <4>1, RowFields
      <4> QED
        BY <4>2 DEF Listed
    <3>2. CASE p \notin listed
      <4>1. plainRow(p, "Conflicted") \in R /\ plainRow(p, "Conflicted").path = p
        BY <1>2, <1>6, <2>1, <2>4, <3>2, RowFields
      <4> QED
        BY <4>1 DEF Listed
    <3> QED
      BY <3>1, <3>2
  <2>5. CASE \E e \in R : e.path = p
    BY <2>5 DEF Listed
  <2> QED
    BY <2>1, <2>2, <2>3, <2>4, <2>5
<1>11. Conflicts(R) = {p \in Paths : index[p] = Unmerged}
  <2>1. ASSUME NEW e \in R, e.type = "Conflicted" PROVE e.path \in r.conflicted
    <3>1. ASSUME NEW d \in r.diff, e = diffRow(d, r) PROVE d.path \in r.conflicted /\ e.path = d.path
      BY <1>4, <2>1, <3>1, RowFields
    <3>2. ASSUME NEW p \in r.untracked, e = plainRow(p, "Untracked") PROVE FALSE
      BY <2>1, <3>2, RowFields
    <3>3. e \notin contentRows(r.submodules \ listed, r)
      BY <2>1, RowFields
    <3>4. ASSUME NEW p \in r.conflicted, e = plainRow(p, "Conflicted") PROVE e.path = p
      BY <3>4, RowFields
    <3> QED
      BY <1>6, <3>1, <3>2, <3>3, <3>4
  <2>2. ASSUME NEW p \in r.conflicted PROVE \E e \in R : e.type = "Conflicted" /\ e.path = p
    <3>1. CASE p \in listed
      <4>1. PICK d \in r.diff : p = d.path
        BY <3>1
      <4>2. p \notin r.submodules
        BY <1>1, <1>2 DEF Present
      <4>3. diffRow(d, r) \in R /\ diffRow(d, r).path = p /\ diffRow(d, r).type = "Conflicted"
        BY <1>6, <4>1, <4>2, RowFields
      <4> QED
        BY <4>3
    <3>2. CASE p \notin listed
      <4>1. plainRow(p, "Conflicted") \in R /\ plainRow(p, "Conflicted").path = p /\ plainRow(p, "Conflicted").type = "Conflicted"
        BY <1>6, <3>2, RowFields
      <4> QED
        BY <4>1
    <3> QED
      BY <3>1, <3>2
  <2>3. Conflicts(R) = r.conflicted
    BY <2>1, <2>2 DEF Conflicts
  <2> QED
    BY <1>2, <2>3
<1>12. ASSUME NEW s \in Submodules, inside[s] = "DirtyTracked" PROVE \E e \in R : e.path = s /\ ~committable(e)
  <2>1. s \in r.submodules /\ r.content[s] \in {"DirtyTracked", "Unknown"}
    <3>1. s \in Present
      BY <1>12 DEF Standing, DiskStands
    <3> QED
      BY <1>2, <1>12, <3>1
  <2>2. CASE s \in listed
    <3>1. PICK d \in r.diff : s = d.path
      BY <2>2
    <3> DEFINE e == diffRow(d, r)
    <3>2. e \in R /\ e.path = s /\ e.sub /\ e.content = r.content[s]
      BY <1>6, <2>1, <3>1, RowFields
    <3>3. ~committable(e)
      BY <2>1, <3>2 DEF committable, contentBlocksPointer
    <3> QED
      BY <3>2, <3>3
  <2>3. CASE s \notin listed
    <3> DEFINE e == [path |-> s, was |-> None, sub |-> TRUE, nested |-> FALSE, pointerMoved |-> FALSE, type |-> "Modified",
                     content |-> r.content[s]]
    <3>1. e \in contentRows(r.submodules \ listed, r)
      BY <2>1, <2>3 DEF contentRows
    <3>2. e.path = s /\ ~committable(e)
      BY DEF committable
    <3> QED
      BY <1>6, <3>1, <3>2
  <2> QED
    BY <2>2, <2>3
<1> QED
  BY <1>9, <1>10, <1>11, <1>12

\* The rows shown while nothing has changed are those of such a run, and so is the operation in progress.
RowsRead ==
    run.round = 0 /\ state.known /\ ~moved =>
        /\ state.merging = merging
        /\ \E r \in RefreshRun : ReadsTrue(r) /\ rows = filesFromRun(r)

LEMMA RowsReadTell == Typed /\ Standing /\ RowsRead => RowsTellTheTruth
<1> SUFFICES ASSUME Typed, Standing, RowsRead, run.round = 0, state.known, ~moved PROVE RowsTellTheTruth
  BY DEF RowsTellTheTruth
<1>1. PICK r \in RefreshRun : ReadsTrue(r) /\ rows = filesFromRun(r)
  BY DEF RowsRead
<1>2. /\ Listed(rows) = ToList(rows)
      /\ Conflicts(rows) = {p \in Paths : index[p] = Unmerged}
      /\ \A s \in Submodules : inside[s] = "DirtyTracked" => \E e \in rows : e.path = s /\ ~committable(e)
  BY <1>1, RowsOfTruth
<1> QED
  BY <1>2 DEF RowsTellTheTruth, Listed, ToList, Conflicts, unresolvedConflictPaths

\* What else ends with no run under way begins so, and changes neither rows nor what they tell of.
LEMMA TruthKept ==
    ASSUME Typed, [Next]_vars, run'.round = 0, ~moved', ~EndRefresh
    PROVE  run.round = 0 /\ ~moved /\ UNCHANGED <<disk, rows, state>>
<1>1. UNCHANGED disk
  BY ChangesAreMarked
<1>2. CASE CommitSteps
  BY <1>1, <1>2 DEF CommitSteps, ListStaged, ResetOthers, AddChecked, RunCommit, RestoreStaging, RollBackAdd, AddTracked, AddUntracked,
                    Untouched, IndexBecomes, KeepRefresh, KeepList, KeepSettled, listVars
<1>3. CASE OtherSteps
  BY <1>1, <1>3 DEF OtherSteps, RestoreHead, UnAdd, AddToIndex, MoveFilesToTrash, MoveToTrash, ResetAll, Undo, AbortOperation,
                    Untouched, IndexBecomes, KeepRefresh, KeepList, KeepSettled, listVars
<1>4. CASE OutsideActions
  BY <1>4 DEF OutsideActions, OutsideEdit, OutsideStage, OutsideInside, OutsideMerge, OutsideChanges, Touch
<1>5. CASE Begins \/ UserChecks \/ UNCHANGED vars
  BY <1>1, <1>5 DEF Begins, Starts, PlanDiscardAll, UserChecks, vars, refreshVars, listVars, KeepRefresh, KeepSettled
<1>6. CASE Report(NewRun) \/ RefreshIsDue(NewRun)
  <2>1. NewRun.round = 1
    BY DEF NewRun, NoRun
  <2> QED
    BY <1>6, <2>1 DEF Report, RefreshIsDue, Refresh
<1>7. CASE Answer
  BY <1>7, AnswerAnswers DEF Answers
<1> QED
  BY <1>2, <1>3, <1>4, <1>5, <1>6, <1>7 DEF Next

LEMMA RowsReadNext == Typed /\ Standing /\ RunTruth /\ RowsRead /\ [Next]_vars => RowsRead'
<1> SUFFICES ASSUME Typed, Standing, RunTruth, RowsRead, [Next]_vars, run'.round = 0, state'.known, ~moved'
             PROVE  RowsRead'
  BY DEF RowsRead
<1>1. UNCHANGED disk
  BY ChangesAreMarked
<1>2. ASSUME NEW r, ReadsTrue(r) PROVE ReadsTrue(r)'
  <2>1. /\ NameStatus' = NameStatus /\ UNCHANGED <<index, inside>>
        /\ \A p : (IsUntracked(p)' <=> IsUntracked(p)) /\ (Tracked(p)' <=> Tracked(p))
    BY <1>1, SameDiskReads DEF disk
  <2> QED
    BY <1>2, <2>1 DEF ReadsTrue, StatusAsRead
<1>3. UNCHANGED merging
  BY <1>1 DEF disk
<1>4. CASE ~EndRefresh
  <2>1. run.round = 0 /\ ~moved /\ UNCHANGED <<rows, state>>
    BY <1>4, TruthKept
  <2>2. state.merging = merging
    BY <2>1 DEF RowsRead
  <2>3. PICK r \in RefreshRun : ReadsTrue(r) /\ rows = filesFromRun(r)
    BY <2>1 DEF RowsRead
  <2>4. ReadsTrue(r)' /\ rows' = filesFromRun(r)
    BY <1>2, <2>1, <2>3
  <2> QED
    BY <1>3, <2>1, <2>2, <2>4 DEF RowsRead
<1>5. CASE EndRefresh
  <2>1. /\ run \in RefreshRun /\ run.round = 2 /\ run.asked = {} /\ DOMAIN run.content = run.submodules
        /\ Known /\ rows' = filesFromRun(run)
    BY <1>5, RefreshEnds
  <2>2. ~moved
    <3>1. NewRun.round = 1
      BY DEF NewRun, NoRun
    <3> QED
      BY <1>5, <3>1 DEF EndRefresh, RestartIfAsked
  <2>3. ReadsTrue(run)
    BY <2>1, <2>2 DEF RunTruth, Known, ReadsTrue
  <2>4. state'.merging = merging
    <3>1. state' = [known |-> TRUE, merging |-> merging, unborn |-> run.unborn, parents |-> run.parents]
      BY <1>5, <2>1 DEF EndRefresh, FinishRefresh, Establish, Known
    <3> QED
      BY <3>1
  <2>5. PICK r \in RefreshRun : r = run
    BY <2>1
  <2>6. ReadsTrue(r)' /\ rows' = filesFromRun(r)
    BY <1>2, <2>1, <2>3, <2>5
  <2> QED
    BY <1>3, <2>4, <2>6 DEF RowsRead
<1> QED
  BY <1>4, <1>5

LEMMA AlwaysRead == Spec => [](Typed /\ Standing /\ RunTruth /\ RowsRead)
<1>1. Init => RunTruth /\ RowsRead
  <2> SUFFICES ASSUME Init PROVE RunTruth /\ RowsRead
    OBVIOUS
  <2>1. NewRun.round = 1 /\ NewRun.asked = FirstRound /\ DOMAIN NewRun.content = {}
    BY NoRunTyped DEF NewRun, NoRun, Rounds
  <2> QED
    BY <2>1 DEF Init, RunTruth, RowsRead, FirstRound
<1> QED
  BY <1>1, InitTyped, InitStands, NextTyped, StandingNext, RunTruthNext, RowsReadNext, PTL DEF Spec

(***************************************************************************)
(* Whatever the queries' order, failures and the changes between them, a   *)
(* list read while nothing changed has a row for every difference between  *)
(* HEAD and the working tree and none besides, shows the index's conflicts *)
(* and does not offer a submodule whose content blocks its pointer.        *)
(***************************************************************************)
THEOREM RowsAreTrue == Spec => []RowsTellTheTruth
<1> QED
  BY AlwaysRead, RowsReadTell, PTL
-------------------------------------------------------------------------------
(* Discards. *)

\* A conflict is one of an operation in progress.
Unfinished == \A p \in Paths : index[p] = Unmerged => merging

LEMMA NoNewConflicts ==
    ASSUME Typed, CommitSteps \/ OtherSteps, NEW p \in Paths, index'[p] = Unmerged
    PROVE  index[p] = Unmerged /\ merging' = merging
<1> USE FlowTypedMeans
<1>1. /\ head \in Tree /\ work \in Tree /\ index \in Index /\ Unmerged \notin Held /\ None \in Held
      /\ head[p] # Unmerged /\ work[p] # Unmerged /\ None # Unmerged
  BY GitWorkTreeAssumption DEF DiskTypeOK, Index, Held, Tree
<1>2. /\ \A P : AfterAdd(P)[p] = Unmerged \/ AfterReset(P)[p] = Unmerged => index[p] = Unmerged
      /\ AfterAddTracked[p] # Unmerged
      /\ \A saved \in Saved : AfterUpdateIndex(saved)[p] = Unmerged => index[p] = Unmerged
  <2>1. ASSUME NEW saved \in Saved PROVE AfterUpdateIndex(saved)[p] = Unmerged => index[p] = Unmerged
    <3>1. p \in DOMAIN saved => saved[p] \in Held
      BY DEF Saved
    <3> QED
      BY <1>1, <3>1 DEF AfterUpdateIndex
  <2> QED
    BY <1>1, <2>1 DEF AfterAdd, AfterReset, AfterAddTracked, InTree
<1>3. Untouched => index' = index /\ merging' = merging
  BY DEF Untouched, disk
<1>4. \A i : IndexBecomes(i) => index' = i /\ merging' = merging
  BY DEF IndexBecomes, KeepTree
<1>5. CASE Untouched
  BY <1>3, <1>5
<1>6. CASE \E P : IndexBecomes(AfterAdd(P)) \/ IndexBecomes(AfterReset(P))
  BY <1>2, <1>4, <1>6
<1>7. CASE IndexBecomes(AfterAddTracked)
  BY <1>2, <1>4, <1>7
<1>8. CASE RestoreStaging /\ IndexBecomes(AfterUpdateIndex(flow.plan.saved))
  <2>1. flow.plan \in Plan
    BY <1>8 DEF RestoreStaging, At, AtItsStage, MergeStages, OtherStages, OtherKinds, Flow
  <2> QED
    BY <1>2, <1>4, <1>8, <2>1 DEF Plan
<1>9. CASE RunCommit \/ Undo \/ MoveFilesToTrash
  <2>1. Committable => index[p] # Unmerged
    BY DEF Committable
  <2>2. index' = index /\ (merging' = merging \/ Committable)
    BY <1>3, <1>9 DEF RunCommit, Undo, MoveFilesToTrash, Try
  <2> QED
    BY <2>1, <2>2
<1>10. CASE RestoreHead \/ AbortOperation
  <2>1. RestoreHead => Untouched \/ (index' = AfterReset(flow.paths) /\ merging' = merging)
    BY DEF RestoreHead
  <2>2. AbortOperation => Untouched \/ index' = head
    BY DEF AbortOperation
  <2> QED
    BY <1>1, <1>2, <1>3, <1>10, <2>1, <2>2
<1>11. ListStaged \/ ResetOthers \/ AddChecked \/ RollBackAdd \/ AddTracked \/ AddUntracked =>
          Untouched \/ (\E P : IndexBecomes(AfterAdd(P)) \/ IndexBecomes(AfterReset(P))) \/ IndexBecomes(AfterAddTracked)
  BY DEF ListStaged, ResetOthers, AddChecked, RollBackAdd, AddTracked, AddUntracked
<1>12. UnAdd \/ AddToIndex \/ ResetAll =>
          Untouched \/ (\E P : IndexBecomes(AfterAdd(P)) \/ IndexBecomes(AfterReset(P)))
  BY DEF UnAdd, AddToIndex, ResetAll
<1>13. RestoreStaging => Untouched \/ IndexBecomes(AfterUpdateIndex(flow.plan.saved))
  BY DEF RestoreStaging
<1> QED
  BY <1>5, <1>6, <1>7, <1>8, <1>9, <1>10, <1>11, <1>12, <1>13 DEF CommitSteps, OtherSteps

LEMMA UnfinishedNext == Typed /\ Unfinished /\ [Next]_vars => Unfinished'
<1> SUFFICES ASSUME Typed, Unfinished, [Next]_vars, NEW p \in Paths, index'[p] = Unmerged PROVE merging'
  BY DEF Unfinished
<1>1. CASE CommitSteps \/ OtherSteps
  BY <1>1, NoNewConflicts DEF Unfinished
<1>2. CASE UNCHANGED disk
  BY <1>2 DEF Unfinished, disk
<1>3. CASE OutsideActions
  <2>1. index \in Index /\ Unmerged \notin Held
    BY FlowTypedMeans, GitWorkTreeAssumption DEF DiskTypeOK, Index, Held
  <2>2. CASE \E q \in Paths, c \in Held : OutsideEdit(q, c) \/ OutsideStage(q, c)
    <3>1. PICK q \in Paths, c \in Held : OutsideEdit(q, c) \/ OutsideStage(q, c)
      BY <2>2
    <3>2. (index' = index \/ index' = [index EXCEPT ![q] = c]) /\ merging' = merging
      BY <3>1 DEF OutsideEdit, OutsideStage
    <3>3. index[p] = Unmerged
      BY <2>1, <3>2 DEF Index
    <3> QED
      BY <3>2, <3>3 DEF Unfinished
  <2>3. CASE \E s \in Submodules, v \in {"Clean", "Untracked", "DirtyTracked"} : OutsideInside(s, v)
    BY <2>3 DEF OutsideInside, Unfinished
  <2>4. CASE \E q \in Files, c \in Contents : \E P \in SUBSET (Files \ {q}) : OutsideMerge(P, q, c)
    BY <2>4 DEF OutsideMerge
  <2> QED
    BY <1>3, <2>2, <2>3, <2>4 DEF OutsideActions
<1> QED
  BY <1>1, <1>2, <1>3, RestLeaves DEF Next, Begins

\* What an up-to-date list offers to discard of a path the last commit does not have is the new name of a rename.
RenamedTo(p) == \E e \in rows : e.path = p /\ e.was # None

Restorable(R) == {e \in R : ~(~e.sub /\ e.type = "Added") /\ discardable(e)}

LEMMA RestorableWasCommitted ==
    ASSUME Typed, Standing, Unfinished, RowsRead, run.round = 0, state.known, ~moved, ~state.merging,
           NEW R \in SUBSET rows, NEW p \in Files, p \in Named(Restorable(R)), head[p] = None
    PROVE  RenamedTo(p)
<1>1. PICK r \in RefreshRun : ReadsTrue(r) /\ rows = filesFromRun(r)
  BY DEF RowsRead
<1>2. r.diff = NameStatus /\ r.conflicted = {}
  BY <1>1 DEF ReadsTrue, StatusAsRead, RowsRead, Unfinished
<1>3. PICK e \in Restorable(R) : p = e.path \/ (e.was # None /\ p = e.was)
  BY DEF Named
<1>4. e \in rows /\ ~(~e.sub /\ e.type = "Added") /\ discardable(e)
  BY <1>3 DEF Restorable
<1>5. Submodules \cap Files = {} /\ \A s : s \in r.submodules => s \in Submodules
  BY PresentPaths DEF RefreshRun
<1>6. CASE \E d \in NameStatus : e = diffRow(d, r)
  <2>1. PICK d \in NameStatus : e = diffRow(d, r)
    BY <1>6
  <2>2. e.path = d.path /\ e.was = d.was /\ (e.sub <=> d.path \in r.submodules) /\ (~e.sub => e.type = d.type)
    BY <1>2, <2>1, RowFields
  <2>3. Renames \in SUBSET RenamePairs
    BY RenamesPair
  <2>4. \/ \E m \in Renames : d = [path |-> m[2], was |-> m[1], type |-> "Renamed"]
        \/ \E q \in Differing : d = [path |-> q, was |-> None,
                                     type |-> IF head[q] = None THEN "Added" ELSE IF InTree(q) = None THEN "Deleted" ELSE "Modified"]
    BY DEF NameStatus
  <2>5. CASE \E m \in Renames : d = [path |-> m[2], was |-> m[1], type |-> "Renamed"]
    <3>1. PICK m \in Renames : d = [path |-> m[2], was |-> m[1], type |-> "Renamed"]
      BY <2>5
    <3>2. head[m[1]] # None /\ m[1] \in Files
      BY <2>3, <3>1 DEF RenamePairs
    <3>3. d.path = m[2] /\ d.was = m[1]
      BY <3>1
    <3>4. e.path = p /\ e.was # None
      BY <1>3, <2>2, <3>2, <3>3, WorkingTreeAssumption DEF Paths
    <3> QED
      BY <1>4, <3>4 DEF RenamedTo
  <2>6. CASE \E q \in Differing : d = [path |-> q, was |-> None,
                                     type |-> IF head[q] = None THEN "Added" ELSE IF InTree(q) = None THEN "Deleted" ELSE "Modified"]
    <3>1. PICK q \in Differing : d = [path |-> q, was |-> None,
                                     type |-> IF head[q] = None THEN "Added" ELSE IF InTree(q) = None THEN "Deleted" ELSE "Modified"]
      BY <2>6
    <3>2. d.path = q /\ d.was = None /\ (head[q] = None => d.type = "Added")
      BY <3>1
    <3>3. p = q
      BY <1>3, <2>2, <3>2
    <3> QED
      BY <1>4, <1>5, <2>2, <3>2, <3>3
  <2> QED
    BY <2>4, <2>5, <2>6
<1>7. CASE \E q : e = plainRow(q, "Untracked")
  BY <1>4, <1>7, RowFields DEF discardable
<1>8. CASE e \in contentRows(r.submodules \ {d.path : d \in r.diff}, r)
  <2>1. e.path \in r.submodules /\ e.was = None
    BY <1>8, RowFields
  <2> QED
    BY <1>3, <1>5, <2>1
<1>9. \/ \E d \in NameStatus : e = diffRow(d, r)
      \/ \E q : e = plainRow(q, "Untracked")
      \/ e \in contentRows(r.submodules \ {d.path : d \in r.diff}, r)
  BY <1>1, <1>2, <1>4 DEF filesFromRun
<1> QED
  BY <1>6, <1>7, <1>8, <1>9

Discards == {"discard", "discardAll"}
Sparing == Discards \cup {"add", "unAdd"}
SparingSteps == {"restore", "unAdd", "discardAll", "addToIndex", "markResolved", "report"}

\* Of a flow that may write to the index, and to the disk only by restoring from HEAD.
Spares(f) ==
    /\ f.step \in SparingSteps
    /\ f.step = "restore" => f.kind \in Discards
    /\ f.step = "discardAll" => f.kind = "discardAll"
RestoresWhatWas(f) ==
    f.fresh /\ f.kind \in Discards =>
        /\ f.kind = "discard" => run.round = 0
        /\ \A p \in Files \cap f.paths : head[p] = None => f.kind = "discard" /\ RenamedTo(p)

LEMMA BeginFresh == \A k, s, P : Begin(k, s, P).fresh <=> run.round = 0 /\ ~moved
<1> SUFFICES ASSUME NEW k, NEW s, NEW P PROVE Begin(k, s, P).fresh <=> run.round = 0 /\ ~moved
  OBVIOUS
<1>1. CASE run.round = 0 /\ ~moved
  BY <1>1 DEF Begin, NoFlow
<1>2. CASE ~(run.round = 0 /\ ~moved)
  BY <1>2 DEF Begin, NoFlow
<1> QED
  BY <1>1, <1>2

LEMMA DiscardStarts ==
    ASSUME Typed, Standing, Unfinished, RowsRead, NEW R \in SUBSET rows, StartDiscard(R)
    PROVE  flow'.kind = "discard" /\ Spares(flow') /\ RestoresWhatWas(flow')
<1> DEFINE added == {e \in R : ~e.sub /\ e.type = "Added"}
           restored == {e \in R \ added : discardable(e)}
           P == Named(restored)
           s == IF restored = {} THEN "unAdd" ELSE "restore"
           f == Begin("discard", s, P)
           A == Named(added)
<1>1. P \in SUBSET Paths /\ s \in {"restore", "unAdd"}
  BY RowPaths
<1>2. f \in Flow /\ f.kind = "discard" /\ f.step = s /\ f.paths = P /\ (f.fresh => run.round = 0 /\ ~moved)
  BY <1>1, BeginTyped, BeginFresh DEF OtherKinds, OtherStages
<1>3. flow' = [f EXCEPT !.added = A]
  BY DEF StartDiscard
<1>4. state.known /\ ~state.merging
  BY DEF StartDiscard, CanStart
<1>5. P = Named(Restorable(R))
  <2>1. restored = Restorable(R)
    BY DEF Restorable
  <2> QED
    BY <2>1
<1> HIDE DEF P, s, f, A
<1>6. flow'.kind = "discard" /\ flow'.step = s /\ flow'.paths = P /\ flow'.fresh = f.fresh
  BY <1>2, <1>3 DEF Flow
<1>7. flow'.fresh => \A p \in Files \cap P : head[p] = None => RenamedTo(p)
  BY <1>2, <1>4, <1>5, <1>6, RestorableWasCommitted
<1> QED
  BY <1>1, <1>2, <1>6, <1>7 DEF Spares, SparingSteps, Discards, RestoresWhatWas

LEMMA DiscardAllStarts ==
    ASSUME Typed, PlanDiscardAll
    PROVE  flow'.kind = "discardAll" /\ Spares(flow') /\ RestoresWhatWas(flow')
<1> DEFINE plan == discardPlanFor(NameStatus)
           f == Begin("discardAll", "discardAll", plan.restored)
<1>1. NameStatus \in SUBSET TrackedEntry
  BY NameStatusTyped DEF Typed, DiskTypeOK, WorkingTreeTypeOK
<1>2. plan.restored \in SUBSET Paths
  BY <1>1 DEF discardPlanFor, TrackedEntry
<1>3. \A p \in plan.restored : head[p] # None
  <2> SUFFICES ASSUME NEW p \in plan.restored PROVE head[p] # None
    OBVIOUS
  <2>1. PICK d \in NameStatus : d.type \notin {"Added", "Untracked"} /\ p = IF d.was = None THEN d.path ELSE d.was
    BY DEF discardPlanFor
  <2>2. Renames \in SUBSET RenamePairs /\ None \notin Files
    BY RenamesPair, WorkingTreeAssumption DEF Paths
  <2>3. \/ \E m \in Renames : d = [path |-> m[2], was |-> m[1], type |-> "Renamed"]
        \/ \E q \in Differing : d = [path |-> q, was |-> None,
                                     type |-> IF head[q] = None THEN "Added" ELSE IF InTree(q) = None THEN "Deleted" ELSE "Modified"]
    BY DEF NameStatus
  <2>4. CASE \E m \in Renames : d = [path |-> m[2], was |-> m[1], type |-> "Renamed"]
    <3>1. PICK m \in Renames : d = [path |-> m[2], was |-> m[1], type |-> "Renamed"]
      BY <2>4
    <3>2. head[m[1]] # None /\ m[1] \in Files
      BY <2>2, <3>1 DEF RenamePairs
    <3> QED
      BY <2>1, <2>2, <3>1, <3>2
  <2>5. CASE \E q \in Differing : d = [path |-> q, was |-> None,
                                     type |-> IF head[q] = None THEN "Added" ELSE IF InTree(q) = None THEN "Deleted" ELSE "Modified"]
    BY <2>1, <2>5
  <2> QED
    BY <2>3, <2>4, <2>5
<1> HIDE DEF plan
<1>4. f \in Flow /\ f.kind = "discardAll" /\ f.step = "discardAll" /\ f.paths = plan.restored
  BY <1>2, BeginTyped DEF OtherKinds, OtherStages
<1>5. flow' = [f EXCEPT !.added = plan.keptOnDisk, !.fresh = TRUE]
  BY DEF PlanDiscardAll, StartDiscardAll, plan
<1> HIDE DEF f
<1>6. flow'.kind = "discardAll" /\ flow'.step = "discardAll" /\ flow'.paths = plan.restored
  BY <1>4, <1>5 DEF Flow
<1> QED
  BY <1>3, <1>6 DEF Spares, SparingSteps, Discards, RestoresWhatWas

LEMMA AddStarts ==
    ASSUME Typed, NEW R \in SUBSET rows, StartUnAdd(R) \/ StartAdd(R, "Untracked") \/ StartAdd(R, "Conflicted")
    PROVE  flow'.kind \in {"add", "unAdd"} /\ Spares(flow')
<1> DEFINE Addable(t) == {e.path : e \in {g \in R : ~g.sub /\ ~g.nested /\ g.type = t}}
           added == {e \in R : ~e.sub /\ e.type = "Added"}
           u == Begin("unAdd", "unAdd", {})
<1>1. \A t : Addable(t) \in SUBSET Paths
  BY RowPaths
<1>2. \/ \E s \in {"markResolved", "addToIndex"}, t \in {"Untracked", "Conflicted"} : flow' = Begin("add", s, Addable(t))
      \/ flow' = [u EXCEPT !.added = Named(added)]
  BY DEF StartAdd, StartUnAdd
<1>3. u \in Flow /\ u.kind = "unAdd" /\ u.step = "unAdd"
  BY BeginTyped DEF OtherKinds, OtherStages
<1>4. ASSUME NEW s \in {"markResolved", "addToIndex"}, NEW P \in SUBSET Paths
      PROVE  Begin("add", s, P).kind = "add" /\ Begin("add", s, P).step = s
  BY BeginTyped DEF OtherKinds, OtherStages
<1> HIDE DEF Addable, u
<1>5. CASE \E s \in {"markResolved", "addToIndex"}, t \in {"Untracked", "Conflicted"} : flow' = Begin("add", s, Addable(t))
  BY <1>1, <1>4, <1>5 DEF Spares, SparingSteps
<1>6. CASE flow' = [u EXCEPT !.added = Named(added)]
  <2>1. flow'.kind = "unAdd" /\ flow'.step = "unAdd"
    BY <1>3, <1>6 DEF Flow
  <2> QED
    BY <2>1 DEF Spares, SparingSteps
<1> QED
  BY <1>2, <1>5, <1>6

LEMMA SparingStarts ==
    ASSUME Typed, Standing, Unfinished, RowsRead, Begins, flow'.kind \in Sparing
    PROVE  Spares(flow') /\ RestoresWhatWas(flow')
<1>1. \/ PlanDiscardAll \/ StartCommit \/ StartUndo \/ StartAbort
      \/ \E R \in SUBSET rows : \/ StartDiscard(R) \/ StartAdd(R, "Untracked") \/ StartAdd(R, "Conflicted")
                                \/ StartUnAdd(R) \/ StartDelete(R)
  BY DEF Begins, Starts
<1>2. CASE PlanDiscardAll
  BY <1>2, DiscardAllStarts
<1>3. CASE \E R \in SUBSET rows : StartDiscard(R)
  BY <1>3, DiscardStarts
<1>4. CASE \E R \in SUBSET rows : StartAdd(R, "Untracked") \/ StartAdd(R, "Conflicted") \/ StartUnAdd(R)
  <2>1. flow'.kind \in {"add", "unAdd"} /\ Spares(flow')
    BY <1>4, AddStarts
  <2> QED
    BY <2>1 DEF RestoresWhatWas, Discards
<1>5. ~StartCommit
  <2> SUFFICES ASSUME StartCommit PROVE FALSE
    OBVIOUS
  <2> DEFINE m == Begin("merge", "commitAll", checkedPathspec)
             c == Begin("commit", "commitRows", checkedPathspec)
  <2>1. checkedPathspec \in SUBSET Paths
    BY DEF Typed, ListTyped, ListTypeOK, FileEntry, checkedPathspec
  <2>2. m \in Flow /\ m.kind = "merge" /\ c \in Flow /\ c.kind = "commit"
    BY <2>1, BeginTyped DEF CommitStages, MergeStages
  <2>3. flow' = [m EXCEPT !.untracked = checkedUntrackedPaths] \/ flow' = [c EXCEPT !.untracked = checkedUntrackedPaths]
    BY DEF StartCommit
  <2> HIDE DEF m, c
  <2> QED
    BY <2>2, <2>3 DEF Flow, Sparing, Discards
<1>6. ~StartUndo /\ ~StartAbort
  <2>1. Begin("undo", "undo", {}).kind = "undo" /\ Begin("abort", "abort", {}).kind = "abort"
    BY BeginTyped DEF OtherKinds, OtherStages
  <2> QED
    BY <2>1 DEF StartUndo, StartAbort, Sparing, Discards
<1>7. ASSUME NEW R \in SUBSET rows, StartDelete(R) PROVE FALSE
  <2> DEFINE deleted == {e \in R : ~e.sub /\ ~e.nested /\ e.type # "Deleted"}
             added == {e \in deleted : e.type = "Added"}
             P == {e.path : e \in deleted}
             s == IF added = {} THEN "trash" ELSE "unAdd"
             f == Begin("delete", s, P)
             A == {e.path : e \in added}
  <2>1. P \in SUBSET Paths /\ s \in {"trash", "unAdd"}
    BY RowPaths
  <2>2. f \in Flow /\ f.kind = "delete"
    BY <2>1, BeginTyped DEF OtherKinds, OtherStages
  <2>3. flow' = [f EXCEPT !.added = A]
    BY <1>7 DEF StartDelete
  <2> HIDE DEF f, A
  <2> QED
    BY <2>2, <2>3 DEF Flow, Sparing, Discards
<1> QED
  BY <1>1, <1>2, <1>3, <1>4, <1>5, <1>6, <1>7

\* The steps of a commit go on with it.
LEMMA CommitStepsGoOn ==
    ASSUME Typed, CommitSteps
    PROVE  flow.kind \in {"commit", "merge"} /\ flow'.kind = flow.kind /\ flow'.declined = flow.declined
<1> USE FlowTypedMeans
<1> DEFINE Alike(f) == f.kind = flow.kind /\ f.declined = flow.declined
<1>1. flow.kind \in {"commit", "merge"}
  BY DEF CommitSteps, ListStaged, ResetOthers, AddChecked, RunCommit, RestoreStaging, RollBackAdd, AddTracked, AddUntracked,
         At, AtItsStage, OtherStages, OtherKinds, Flow
<1>2. Alike(flow')
  <2>1. \A ok : Ended(ok) => Alike(flow')
    BY DEF Ended, Flow
  <2>2. \A s : GoOn(s) => Alike(flow')
    BY DEF GoOn, Flow
  <2>3. \A ok : Alike(RollBackThenReport(flow, ok))
    BY DEF RollBackThenReport, Flow
  <2>4. \A ok : RestoreThenReport(ok) => Alike(flow')
    BY <2>3 DEF RestoreThenReport, Flow
  <2>5. \A ok : RestoresAfter(ok) => Alike(flow')
    BY <2>3, <2>4 DEF RestoresAfter
  <2>6. CASE ListStaged
    <3>1. (\E p, s : flow' = [flow EXCEPT !.plan = p, !.step = s]) \/ \E ok : Ended(ok)
      BY <2>6 DEF ListStaged
    <3>2. CASE \E p, s : flow' = [flow EXCEPT !.plan = p, !.step = s]
      BY <3>2 DEF Flow
    <3> QED
      BY <2>1, <3>1, <3>2
  <2>7. CASE ResetOthers \/ AddChecked
    BY <2>2, <2>4, <2>7 DEF ResetOthers, AddChecked
  <2>8. CASE RunCommit
    BY <2>5, <2>8 DEF RunCommit
  <2>9. CASE RestoreStaging
    <3>1. PICK l : flow' = [RollBackThenReport(flow, flow.ok) EXCEPT !.lost = l]
      BY <2>9 DEF RestoreStaging
    <3>2. RollBackThenReport(flow, flow.ok) \in Flow
      BY <1>1, RollBackMoves DEF Moved, Flow
    <3> QED
      BY <2>3, <3>1, <3>2 DEF Flow
  <2>10. CASE RollBackAdd
    <3>1. PICK l : flow' = [flow EXCEPT !.step = "report", !.lost = l]
      BY <2>10 DEF RollBackAdd
    <3> QED
      BY <3>1 DEF Flow
  <2>11. CASE AddTracked \/ AddUntracked
    BY <2>1, <2>2, <2>11 DEF AddTracked, AddUntracked
  <2> QED
    BY <2>6, <2>7, <2>8, <2>9, <2>10, <2>11 DEF CommitSteps
<1> QED
  BY <1>1, <1>2

LEMMA CommitStepsCommit == Typed /\ CommitSteps => flow'.kind \notin Sparing
BY CommitStepsGoOn DEF Sparing, Discards

\* A file nobody else touched is as it was or, discarded, as the last commit has it.
LeftOrRestored(p) == work[p] = before.work[p] \/ (flow.kind \in Discards /\ p \in flow.paths /\ work[p] = head[p])

DiscardInv ==
    flow.kind \in Sparing =>
        /\ head = before.head
        /\ Spares(flow) /\ RestoresWhatWas(flow)
        /\ \A p \in Files \ flow.touched : LeftOrRestored(p)

LEMMA SparingStepsKeep == Typed /\ DiscardInv /\ OtherSteps => DiscardInv'
<1> SUFFICES ASSUME Typed, DiscardInv, OtherSteps, flow'.kind \in Sparing PROVE DiscardInv'
  BY DEF DiscardInv
<1> USE FlowTypedMeans
<1>1. UNCHANGED <<run, rows, before>>
  BY DEF OtherSteps, RestoreHead, UnAdd, AddToIndex, MoveFilesToTrash, MoveToTrash, ResetAll, Undo, AbortOperation,
         KeepRefresh, KeepList, KeepSettled, listVars
<1> DEFINE To(s) == /\ flow'.kind = flow.kind /\ flow'.step = s /\ flow'.paths = flow.paths
                    /\ flow'.touched = flow.touched /\ flow'.fresh = flow.fresh
<1>2. \A ok : Ended(ok) => To("report")
  BY DEF Ended, Flow
<1>3. \A s : GoOn(s) => To(s)
  BY DEF GoOn, Flow
<1>4. \/ (UnAdd \/ AddToIndex \/ MoveFilesToTrash \/ Undo \/ AbortOperation) /\ (flow' = NoFlow \/ To("report") \/ To("trash"))
      \/ RestoreHead /\ (To("report") \/ To("unAdd"))
      \/ ResetAll /\ (To("report") \/ To("restore"))
  <2>1. CASE UnAdd
    BY <1>2, <1>3, <2>1 DEF UnAdd, AfterUnAdd
  <2>2. CASE AddToIndex \/ MoveFilesToTrash \/ Undo \/ AbortOperation
    <3>1. \E ok : Ended(ok)
      BY <2>2 DEF AddToIndex, MoveFilesToTrash, MoveToTrash, Undo, AbortOperation
    <3> QED
      BY <1>2, <2>2, <3>1
  <2>3. CASE RestoreHead
    BY <1>2, <1>3, <2>3 DEF RestoreHead, AfterRestore
  <2>4. CASE ResetAll
    <3>1. CASE flow' = [flow EXCEPT !.step = "restore", !.added = {}]
      BY <2>4, <3>1 DEF Flow
    <3> QED
      BY <1>2, <2>4, <3>1 DEF ResetAll
  <2> QED
    BY <2>1, <2>2, <2>3, <2>4 DEF OtherSteps
<1>5. NoFlow.kind \notin Sparing
  BY DEF NoFlow, Sparing, Discards
<1>6. /\ flow.kind \in Sparing /\ flow'.kind = flow.kind /\ flow'.paths = flow.paths
      /\ flow'.touched = flow.touched /\ flow'.fresh = flow.fresh
  BY <1>4, <1>5
<1>7. head = before.head /\ Spares(flow) /\ RestoresWhatWas(flow) /\ \A p \in Files \ flow.touched : LeftOrRestored(p)
  BY <1>6 DEF DiscardInv
<1>8. UnAdd \/ AddToIndex \/ RestoreHead \/ ResetAll
  BY <1>7 DEF OtherSteps, MoveFilesToTrash, MoveToTrash, Undo, AbortOperation, At, Spares, SparingSteps
<1>9. /\ UNCHANGED log
      /\ work' = work \/ (/\ flow.step = "restore"
                          /\ work' = [p \in Paths |-> IF p \in flow.paths THEN head[p] ELSE work[p]])
  <2>1. Untouched => UNCHANGED <<log, work>>
    BY DEF Untouched, disk
  <2>2. \A i : IndexBecomes(i) => UNCHANGED <<log, work>>
    BY DEF IndexBecomes, KeepTree
  <2>3. CASE RestoreHead
    BY <2>1, <2>3 DEF RestoreHead, At
  <2>4. CASE UnAdd \/ AddToIndex \/ ResetAll
    BY <2>1, <2>2, <2>4 DEF UnAdd, AddToIndex, ResetAll
  <2> QED
    BY <1>8, <2>3, <2>4
<1>10. head' = head
  BY <1>9 DEF head
<1>11. Spares(flow')
  <2>1. CASE RestoreHead
    <3>1. flow'.step \in {"report", "unAdd"}
      BY <1>4, <1>5, <2>1 DEF RestoreHead, UnAdd, AddToIndex, MoveFilesToTrash, MoveToTrash, ResetAll, Undo, AbortOperation, At
    <3> QED
      BY <3>1 DEF Spares, SparingSteps
  <2>2. CASE ResetAll
    <3>1. flow.kind = "discardAll"
      BY <1>7, <2>2 DEF ResetAll, At, Spares
    <3>2. flow'.step \in {"report", "restore"}
      BY <1>4, <1>5, <2>2 DEF RestoreHead, UnAdd, AddToIndex, MoveFilesToTrash, MoveToTrash, ResetAll, Undo, AbortOperation, At
    <3> QED
      BY <1>6, <3>1, <3>2 DEF Spares, SparingSteps, Discards
  <2>3. CASE UnAdd
    <3>1. flow.kind # "delete"
      BY <1>6 DEF Sparing, Discards
    <3>2. flow'.step = "report"
      BY <1>2, <2>3, <3>1 DEF UnAdd, AfterUnAdd
    <3> QED
      BY <3>2 DEF Spares, SparingSteps
  <2>4. CASE AddToIndex
    <3>1. flow'.step = "report"
      BY <1>2, <2>4 DEF AddToIndex
    <3> QED
      BY <3>1 DEF Spares, SparingSteps
  <2> QED
    BY <1>8, <2>1, <2>2, <2>3, <2>4
<1>12. RestoresWhatWas(flow)'
  BY <1>1, <1>6, <1>7, <1>10 DEF RestoresWhatWas, RenamedTo
<1>13. ASSUME NEW p \in Files \ flow'.touched PROVE LeftOrRestored(p)'
  <2>1. LeftOrRestored(p) /\ p \in Paths
    BY <1>6, <1>7, <1>13 DEF Paths
  <2>2. CASE work' = work
    BY <1>1, <1>6, <1>10, <2>1, <2>2 DEF LeftOrRestored
  <2>3. CASE flow.step = "restore" /\ work' = [q \in Paths |-> IF q \in flow.paths THEN head[q] ELSE work[q]]
    <3>1. flow.kind \in Discards
      BY <1>7, <2>3 DEF Spares
    <3>2. work'[p] = IF p \in flow.paths THEN head[p] ELSE work[p]
      BY <2>1, <2>3
    <3> QED
      BY <1>1, <1>6, <1>10, <2>1, <3>1, <3>2 DEF LeftOrRestored
  <2> QED
    BY <1>9, <2>2, <2>3
<1>14. Spares(flow)'
  BY <1>11 DEF Spares
<1> QED
  BY <1>1, <1>7, <1>10, <1>12, <1>13, <1>14 DEF DiscardInv

LEMMA DiscardInvNext == Typed /\ Standing /\ Unfinished /\ RowsRead /\ DiscardInv /\ [Next]_vars => DiscardInv'
<1> SUFFICES ASSUME Typed, Standing, Unfinished, RowsRead, DiscardInv, [Next]_vars, flow'.kind \in Sparing PROVE DiscardInv'
  BY DEF DiscardInv
<1>1. CASE Begins
  <2>1. UNCHANGED <<run, rows, log, work>> /\ before' = Noted
    BY <1>1 DEF Begins, Starts, PlanDiscardAll, KeepRefresh, KeepSettled, listVars, disk
  <2>2. head' = head /\ before'.head = head /\ before'.work = work
    BY <2>1 DEF head, Noted
  <2>3. Spares(flow') /\ RestoresWhatWas(flow')
    BY <1>1, SparingStarts
  <2>4. Spares(flow)'
    BY <2>3 DEF Spares
  <2>5. RestoresWhatWas(flow)'
    BY <2>1, <2>2, <2>3 DEF RestoresWhatWas, RenamedTo
  <2> QED
    BY <2>1, <2>2, <2>4, <2>5 DEF DiscardInv, LeftOrRestored
<1>2. CASE OutsideActions
  <2>1. PICK P \in SUBSET Paths :
           /\ UNCHANGED <<log, before>>
           /\ flow' = IF flow.kind = "none" THEN flow ELSE [flow EXCEPT !.touched = @ \cup P]
           /\ \A p \in Paths \ P : index'[p] = index[p] /\ work'[p] = work[p]
    BY <1>2, OutsideLeaves
  <2>2. flow' = [flow EXCEPT !.touched = @ \cup P] /\ flow \in Flow
    BY <2>1, FlowTypedMeans DEF Sparing, Discards
  <2>3. /\ flow'.kind = flow.kind /\ flow'.step = flow.step /\ flow'.paths = flow.paths /\ flow'.fresh = flow.fresh
        /\ flow'.touched = flow.touched \cup P
    BY <2>2 DEF Flow
  <2>4. UNCHANGED <<run, rows>> /\ head' = head /\ before' = before
    BY <1>2, <2>1 DEF OutsideActions, OutsideEdit, OutsideStage, OutsideInside, OutsideMerge, OutsideChanges, Touch,
                      KeepRefresh, listVars, head
  <2>5. head = before.head /\ Spares(flow) /\ RestoresWhatWas(flow) /\ \A p \in Files \ flow.touched : LeftOrRestored(p)
    BY <2>3 DEF DiscardInv
  <2>6. Spares(flow)' /\ RestoresWhatWas(flow)'
    BY <2>3, <2>4, <2>5 DEF Spares, RestoresWhatWas, RenamedTo
  <2>7. ASSUME NEW p \in Files \ flow'.touched PROVE LeftOrRestored(p)'
    <3>1. LeftOrRestored(p) /\ work'[p] = work[p]
      BY <2>1, <2>3, <2>5, <2>7 DEF Paths
    <3> QED
      BY <2>3, <2>4, <3>1 DEF LeftOrRestored
  <2> QED
    BY <2>4, <2>5, <2>6, <2>7 DEF DiscardInv
<1>3. CASE Report(NewRun)
  BY <1>3 DEF Report, NoFlow, Sparing, Discards
<1>4. CASE Answer \/ EndRefresh \/ (RefreshIsDue(NewRun) /\ UNCHANGED disk) \/ (UserChecks /\ UNCHANGED disk) \/ UNCHANGED vars
  <2>1. UNCHANGED <<flow, before, disk>>
    BY <1>4 DEF Answer, EndRefresh, TakeRows, RefreshIsDue, UserChecks, vars, flowVars
  <2>2. head' = head /\ work' = work
    BY <2>1 DEF disk, head
  <2>3. run.round = 0 => UNCHANGED <<run, rows>>
    <3>1. CASE Answer
      BY <1>4, <3>1, AnswerAnswers DEF Answers
    <3>2. CASE EndRefresh
      BY <3>2 DEF EndRefresh, FinishRefresh
    <3>3. CASE RefreshIsDue(NewRun)
      BY <2>1, <3>3 DEF RefreshIsDue, Sparing, Discards
    <3>4. CASE UserChecks \/ UNCHANGED vars
      BY <3>4 DEF UserChecks, vars, refreshVars, listVars
    <3> QED
      BY <1>4, <3>1, <3>2, <3>3, <3>4
  <2>4. head = before.head /\ Spares(flow) /\ RestoresWhatWas(flow) /\ \A p \in Files \ flow.touched : LeftOrRestored(p)
    BY <2>1 DEF DiscardInv
  <2>5. RestoresWhatWas(flow)'
    <3>1. CASE flow.fresh /\ flow.kind \in Discards
      <4>1. CASE flow.kind = "discard"
        <5>1. run.round = 0 /\ UNCHANGED <<run, rows>>
          BY <2>3, <2>4, <3>1, <4>1 DEF RestoresWhatWas
        <5> QED
          BY <2>1, <2>2, <2>4, <5>1 DEF RestoresWhatWas, RenamedTo
      <4>2. CASE flow.kind # "discard"
        BY <2>1, <2>2, <2>4, <4>2 DEF RestoresWhatWas
      <4> QED
        BY <4>1, <4>2
    <3>2. CASE ~(flow.fresh /\ flow.kind \in Discards)
      BY <2>1, <3>2 DEF RestoresWhatWas
    <3> QED
      BY <3>1, <3>2
  <2>6. Spares(flow)' /\ \A p \in Files \ flow'.touched : LeftOrRestored(p)'
    BY <2>1, <2>2, <2>4 DEF Spares, LeftOrRestored
  <2> QED
    BY <2>1, <2>2, <2>4, <2>5, <2>6 DEF DiscardInv
<1> QED
  BY <1>1, <1>2, <1>3, <1>4, CommitStepsCommit, SparingStepsKeep DEF Next

(***************************************************************************)
(* Discarding from an up-to-date list, all that is uncommitted, un-adding  *)
(* and adding take no file off the disk that the last commit does not      *)
(* have, the new name of a rename aside, and change no file they were not  *)
(* asked for: what was never committed is not lost, whatever fails.        *)
(***************************************************************************)
THEOREM NothingNewIsLost == Spec => []NewFilesStayOnDisk
<1>1. Init => Unfinished /\ DiscardInv
  <2> SUFFICES ASSUME Init PROVE Unfinished /\ DiscardInv
    OBVIOUS
  <2>1. PICK p \in Paths, c \in Held : index = [head EXCEPT ![p] = c]
    <3>1. ChangedBefore
      BY DEF Init
    <3> QED
      BY <3>1 DEF ChangedBefore
  <2>2. head \in Tree /\ Unmerged \notin Held
    BY InitTyped, FlowTypedMeans, GitWorkTreeAssumption DEF Held
  <2>3. \A q \in Paths : index[q] # Unmerged
    BY <2>1, <2>2 DEF Tree
  <2> QED
    BY <2>3 DEF Init, ListInit, NoFlow, Unfinished, DiscardInv, Sparing, Discards
<1>2. DiscardInv => NewFilesStayOnDisk
  <2> SUFFICES ASSUME DiscardInv, Reporting(Sparing), flow.fresh,
                      NEW p \in Files, Undisturbed(p), work[p] # before.work[p]
               PROVE  /\ p \in flow.paths
                      /\ work[p] = before.head[p]
                      /\ work[p] = None => flow.kind = "discard" /\ \E e \in rows : e.path = p /\ e.was # None
    BY DEF NewFilesStayOnDisk, Reporting, Sparing, Discards
  <2>1. head = before.head /\ RestoresWhatWas(flow) /\ LeftOrRestored(p)
    BY DEF DiscardInv, Reporting, Undisturbed
  <2> QED
    BY <2>1 DEF LeftOrRestored, RestoresWhatWas, RenamedTo
<1> QED
  BY <1>1, <1>2, AlwaysRead, UnfinishedNext, DiscardInvNext, PTL DEF Spec
-------------------------------------------------------------------------------
(* What the user unchecked.                                                  *)

\* Nothing declined is about to be committed, nor is being committed.
DeclinedOut ==
    /\ declined \cap checkedPathspec = {}
    /\ DeclinedStaysOut

\* A commit takes the paths of the rows checked as it begins.
LEMMA ChosenAreChecked == Noted.chosen \subseteq checkedPathspec
<1>1. None \notin Paths
  BY WorkingTreeAssumption
<1> QED
  BY <1>1 DEF Noted, checkedPathspec

LEMMA StartCommitDeclines == StartCommit => flow'.declined = declined
<1>1. \A k, s, P : Begin(k, s, P).declined = declined
  <2> SUFFICES ASSUME NEW k, NEW s, NEW P PROVE Begin(k, s, P).declined = declined
    OBVIOUS
  <2> QED
    BY DEF Begin, NoFlow
<1>2. \A k, s, P, u : [Begin(k, s, P) EXCEPT !.untracked = u].declined = declined
  <2> SUFFICES ASSUME NEW k, NEW s, NEW P, NEW u PROVE [Begin(k, s, P) EXCEPT !.untracked = u].declined = declined
    OBVIOUS
  <2> QED
    BY <1>1 DEF Begin, NoFlow
<1> QED
  BY <1>2 DEF StartCommit

\* A new list checks no row whose path it still takes for declined.
LEMMA TakeRowsDeclines ==
    ASSUME declined \cap checkedPathspec = {}, TakeRows
    PROVE  declined' \cap checkedPathspec' = {}
<1> SUFFICES ASSUME NEW p \in declined', p \in checkedPathspec' PROVE FALSE
  OBVIOUS
<1>1. p \in declined /\ StillDeclined(p)
  BY DEF TakeRows
<1>2. \A f \in rows : f.path = p => f \notin checked
  BY <1>1 DEF checkedPathspec
<1>3. PICK e \in checked' : e.path = p
  BY <1>1 DEF StillDeclined, checkedPathspec
<1>4. e \in rows' /\ StartsChecked(e, state'.merging)
  BY DEF TakeRows, setEntries
<1>5. previousRows(p) \subseteq {f \in rows : f.path = p} /\ previousRows(p) # {}
  BY <1>1 DEF previousRows, StillDeclined
<1>6. \A f \in previousRows(e.path) : f \notin checked
  BY <1>2, <1>3, <1>5
<1>7. CASE state'.merging
  <2>1. e.type = "Untracked"
    BY <1>1, <1>3, <1>4, <1>7 DEF StillDeclined
  <2> QED
    BY <1>4, <1>6, <1>7, <2>1 DEF StartsChecked
<1>8. CASE ~state'.merging
  <2>1. e.type = "Added" => \A f \in previousRows(e.path) : f.type = "Added"
    BY <1>1, <1>3, <1>4, <1>5 DEF StillDeclined
  <2> QED
    BY <1>3, <1>4, <1>5, <1>6, <1>8, <2>1 DEF StartsChecked
<1> QED
  BY <1>7, <1>8

LEMMA DeclinedOutNext == Typed /\ DeclinedOut /\ [Next]_vars => DeclinedOut'
<1> SUFFICES ASSUME Typed, DeclinedOut, [Next]_vars PROVE DeclinedOut'
  OBVIOUS
<1> USE DEF DeclinedOut, DeclinedStaysOut
<1>1. ASSUME UNCHANGED <<declined, checked>> PROVE (declined \cap checkedPathspec = {})'
  BY <1>1 DEF checkedPathspec
<1>2. CASE Begins
  <2>1. UNCHANGED <<declined, checked>> /\ before' = Noted
    BY <1>2 DEF Begins, Starts, PlanDiscardAll, KeepSettled, listVars
  <2>2. flow'.kind = "commit" => flow'.declined = declined
    BY <1>2, StartsTyped, PlanDiscardAllTyped, StartCommitDeclines DEF Begins
  <2>3. Noted.chosen \cap declined = {}
    BY ChosenAreChecked
  <2> QED
    BY <1>1, <2>1, <2>2, <2>3
<1>3. CASE CommitSteps
  <2>1. UNCHANGED <<declined, checked, before>>
    BY <1>3 DEF CommitSteps, ListStaged, ResetOthers, AddChecked, RunCommit, RestoreStaging, RollBackAdd, AddTracked,
                AddUntracked, KeepList, KeepSettled, listVars
  <2> QED
    BY <1>1, <1>3, <2>1, CommitStepsGoOn
<1>4. CASE OtherSteps
  <2>1. UNCHANGED <<declined, checked>>
    BY <1>4 DEF OtherSteps, RestoreHead, UnAdd, AddToIndex, MoveFilesToTrash, MoveToTrash, ResetAll, Undo, AbortOperation,
                KeepList, KeepSettled, listVars
  <2> QED
    BY <1>1, <1>4, <2>1, OtherStepsCommitNothing
<1>5. CASE OutsideActions
  <2>1. UNCHANGED <<declined, checked>>
    BY <1>5 DEF OutsideActions, OutsideEdit, OutsideStage, OutsideInside, OutsideMerge, OutsideChanges, Touch, listVars
  <2>2. PICK P \in SUBSET Paths :
           before' = before /\ flow' = IF flow.kind = "none" THEN flow ELSE [flow EXCEPT !.touched = @ \cup P]
    BY <1>5, OutsideLeaves
  <2>3. flow'.kind = flow.kind /\ flow'.declined = flow.declined
    BY <2>2, FlowTypedMeans DEF Flow
  <2> QED
    BY <1>1, <2>1, <2>2, <2>3
<1>6. CASE Report(NewRun)
  <2>1. flow'.kind # "commit" /\ UNCHANGED <<declined, checked>>
    BY <1>6 DEF Report, NoFlow, listVars
  <2> QED
    BY <1>1, <2>1
<1>7. CASE EndRefresh
  <2>1. UNCHANGED <<flow, before>> /\ TakeRows
    BY <1>7 DEF EndRefresh, TakeRows
  <2> QED
    BY <2>1, TakeRowsDeclines
<1>8. CASE UserChecks
  <2>1. UNCHANGED <<flow, before>> /\ declined' \cap checkedPathspec' = {}
    BY <1>8 DEF UserChecks
  <2> QED
    BY <2>1
<1>9. CASE Answer \/ RefreshIsDue(NewRun) \/ UNCHANGED vars
  <2>1. UNCHANGED <<declined, checked, flow, before>>
    BY <1>9 DEF Answer, RefreshIsDue, vars, listVars, flowVars
  <2> QED
    BY <1>1, <2>1
<1> QED
  BY <1>2, <1>3, <1>4, <1>5, <1>6, <1>7, <1>8, <1>9 DEF Next

(***************************************************************************)
(* What the user did not choose is left alone, on disk by every discard    *)
(* and add, and by the commits: a path unchecked and listed ever since is  *)
(* in none, through any refreshes, checks, flows and changes from outside. *)
(***************************************************************************)
THEOREM UnchosenLeftAlone == Spec => []UnchosenIsLeftAlone
<1>1. Init => DeclinedOut
  BY DEF Init, ListInit, NoFlow, DeclinedOut, DeclinedStaysOut
<1>2. DeclinedOut /\ NewFilesStayOnDisk => UnchosenIsLeftAlone
  BY DEF DeclinedOut, UnchosenIsLeftAlone
<1> QED
  BY <1>1, <1>2, NothingNewIsLost, AlwaysTyped, DeclinedOutNext, PTL DEF Spec
================================================================================
