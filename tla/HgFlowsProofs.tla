----------------------------- MODULE HgFlowsProofs ----------------------------
(***************************************************************************)
(* Theorems of HgFlows, for any files, subrepos and contents, and any      *)
(* number of flows, failures and changes from outside; and, for any        *)
(* listing, of CommitGraph and of HgPush.                                  *)
(***************************************************************************)
EXTENDS HgFlows, Algorithms, ArrivalsProofs, SequenceTheorems, TLAPS

\* The stages of the flows that commit path by path, that end a merge, and of the others.
CommitStages == {"commitRows", "commit", "rollBack", "report"}
MergeStages == {"commitAll", "commit", "rollBack", "report"}
OtherStages == {"none", "restore", "unAdd", "addToIndex", "markResolved", "trash", "discardAll", "undo", "abort", "report"}
OtherKinds == {"none", "discard", "discardAll", "add", "unAdd", "delete", "undo", "abort"}

Flow == [kind : OtherKinds \cup {"commit", "merge"}, step : CommitStages \cup MergeStages \cup OtherStages,
         paths : SUBSET Paths, untracked : SUBSET Files, added : SUBSET Paths, ok : BOOLEAN,
         plan : {<<>>}, touched : SUBSET Paths, fresh : BOOLEAN, declined : SUBSET Paths, lost : BOOLEAN]

Snapshot == [head : Tree, tracked : SUBSET Files, work : Tree, merging : BOOLEAN, chosen : SUBSET Paths]

\* A flow is at a stage of its kind, and only files are added.
AtItsStage(f) ==
    /\ f.kind = "commit" => f.step \in CommitStages
    /\ f.kind = "merge" => f.step \in MergeStages
    /\ f.kind \in OtherKinds => f.step \in OtherStages
    /\ f.step = "addToIndex" => f.paths \subseteq Files

FlowTyped ==
    /\ flow \in Flow
    /\ AtItsStage(flow)
    /\ flow.kind = "none" => flow = NoFlow
    /\ flow.kind # "none" => before \in Snapshot

ContentStates == {"Clean", "Untracked", "DirtyTracked", "Unknown"}
ContentRead == UNION {[S -> ContentStates] : S \in SUBSET Submodules}
NodesRead == UNION {[S -> Held] : S \in SUBSET Submodules}

Change == [path : Files, was : Files \cup {None}, type : {"Added", "Deleted", "Modified", "Renamed", "Untracked"}]
SubQueries == [of : Submodules, what : {"content", "node"}]

RefreshRun == [round : 0..1, asked : SUBSET {"status", "wdir", "resolve"}, subs : SUBSET SubQueries,
               failed : BOOLEAN, blind : BOOLEAN, recorded : [Submodules -> Held] \cup {<<>>},
               changes : SUBSET Change, unborn : BOOLEAN, parents : 0..2, merging : BOOLEAN,
               conflicted : SUBSET Files, content : ContentRead, nodes : NodesRead]

\* What has answered of a run is read.
Rounds(r) ==
    r.round = 1 => /\ r.recorded \in [Submodules -> Held]
                   /\ \A s \in Submodules : s \in DOMAIN r.content \/ [of |-> s, what |-> "content"] \in r.subs

RunTyped == run \in RefreshRun /\ Rounds(run)

\* A subrepo's row is of its own kind, and no other is at its path.
Row == {e \in FileEntry : /\ e.sub => e.path \in Submodules /\ e.type = "Modified" /\ e.was = None
                          /\ ~e.sub => e.path \in Files /\ e.was \in Files \cup {None}}

ListTyped ==
    /\ CycleTypeOK
    /\ ListTypeOK
    /\ files \subseteq Row /\ rows \subseteq Row
    /\ declined \subseteq Paths

Typed == DiskTypeOK /\ RunTyped /\ ListTyped /\ FlowTyped

-------------------------------------------------------------------------------
(* Types. *)

LEMMA TypedMeans == Typed => TypeOK
<1> SUFFICES ASSUME Typed PROVE TypeOK
  OBVIOUS
<1>1. flow.paths \cup flow.untracked \cup flow.added \subseteq Paths
  BY DEF Typed, FlowTyped, Flow, Paths
<1>2. run.round \in 0..1 /\ run.changes \subseteq Change
  BY DEF Typed, RunTyped, RefreshRun
<1> QED
  BY <1>1, <1>2 DEF Typed, TypeOK, RefreshTypeOK, FlowsTypeOK, ListTyped, Change

LEMMA NoFlowTyped == NoFlow \in Flow /\ AtItsStage(NoFlow)
BY DEF NoFlow, Flow, AtItsStage, OtherKinds, OtherStages

LEMMA HeadTyped == log \in Seq(Commit) => head \in Tree /\ parentCount \in 0..2
<1> SUFFICES ASSUME log \in Seq(Commit) PROVE head \in Tree /\ parentCount \in 0..2
  OBVIOUS
<1>1. parentCount \in 0..2
  BY DEF parentCount
<1>2. CASE log = <<>>
  BY <1>1, <1>2 DEF head, Tree, Held
<1>3. CASE log # <<>>
  <2>1. log[Len(log)] \in Commit
    BY <1>3
  <2> QED
    BY <1>1, <1>3, <2>1 DEF head, Commit
<1> QED
  BY <1>2, <1>3

\* Between two refreshes, and when one begins.
LEMMA NoRunTyped ==
    ASSUME DiskTypeOK
    PROVE  /\ \A b \in BOOLEAN : [NoRun EXCEPT !.blind = b] \in RefreshRun /\ Rounds([NoRun EXCEPT !.blind = b])
           /\ NewRun \in RefreshRun /\ Rounds(NewRun)
<1>1. <<>> \in ContentRead /\ <<>> \in NodesRead
  <2>1. <<>> \in [{} -> ContentStates] /\ <<>> \in [{} -> Held]
    OBVIOUS
  <2> QED
    BY <2>1 DEF ContentRead, NodesRead
<1>2. NoRun \in RefreshRun /\ NoRun.round = 0
  BY <1>1 DEF NoRun, RefreshRun
<1>3. PICK rec : rec = [s \in Submodules |-> head[s]]
  OBVIOUS
<1>4. rec \in [Submodules -> Held]
  BY <1>3, HeadTyped DEF DiskTypeOK, WorkingTreeTypeOK, Tree, Paths
<1>5. PICK Q : Q = {"status", "wdir"} \cup (IF mergestate THEN {"resolve"} ELSE {})
  OBVIOUS
<1>6. Q \in SUBSET {"status", "wdir", "resolve"}
  BY <1>5
<1>7. NewRun = [NoRun EXCEPT !.round = 1, !.recorded = rec, !.asked = Q, !.subs = SubQueries]
  BY <1>3, <1>5 DEF NewRun, SubQueries
<1>8. NewRun \in RefreshRun /\ NewRun.recorded = rec /\ NewRun.subs = SubQueries
  <2>1. ASSUME NEW S \in SUBSET SubQueries, NEW r, r = [NoRun EXCEPT !.round = 1, !.recorded = rec, !.asked = Q, !.subs = S]
        PROVE  r \in RefreshRun /\ r.recorded = rec /\ r.subs = S
    <3>1. 1 \in 0..1
      OBVIOUS
    <3> QED
      BY <1>2, <1>4, <1>6, <2>1, <3>1 DEF RefreshRun
  <2>2. SubQueries \in SUBSET SubQueries
    OBVIOUS
  <2> QED
    BY <1>7, <2>1, <2>2
<1>9. Rounds(NewRun)
  BY <1>4, <1>8 DEF Rounds, SubQueries
<1>10. ASSUME NEW b \in BOOLEAN PROVE [NoRun EXCEPT !.blind = b] \in RefreshRun /\ Rounds([NoRun EXCEPT !.blind = b])
  BY <1>2 DEF RefreshRun, Rounds
<1> QED
  BY <1>8, <1>9, <1>10

LEMMA FlowUnderway ==
    ASSUME Typed, flow.step \notin {"none"}
    PROVE  flow.kind # "none" /\ before \in Snapshot
BY DEF Typed, FlowTyped, NoFlow

\* A step of a flow under way that leaves disk and flow as they should be.
LEMMA StepTyped ==
    ASSUME Typed, KeepRefresh, KeepList, DiskTypeOK', moved' \in BOOLEAN,
           flow' \in Flow, AtItsStage(flow'), flow' = NoFlow \/ flow'.kind = flow.kind, flow.step # "none"
    PROVE  Typed'
<1>1. flow.kind # "none" /\ before \in Snapshot
  BY FlowUnderway
<1>2. FlowTyped'
  BY <1>1 DEF FlowTyped, KeepList, NoFlow
<1>3. RunTyped'
  BY DEF Typed, RunTyped, KeepRefresh
<1>4. ListTyped'
  BY DEF Typed, ListTyped, CycleTypeOK, ListTypeOK, KeepRefresh, KeepList, KeepSettled, listVars
<1> QED
  BY <1>2, <1>3, <1>4 DEF Typed

LEMMA UntouchedTyped == DiskTypeOK /\ moved \in BOOLEAN /\ Untouched => DiskTypeOK' /\ moved' \in BOOLEAN
BY DEF DiskTypeOK, WorkingTreeTypeOK, Untouched, disk, hgState

LEMMA WithoutTyped == DiskTypeOK => \A P : Without(P) \in [Files -> Files \cup {None}]
BY DEF DiskTypeOK, Without

LEMMA DirstateTyped ==
    ASSUME DiskTypeOK, NEW t \in SUBSET Files, DirstateBecomes(t)
    PROVE  DiskTypeOK' /\ moved' \in BOOLEAN
BY WithoutTyped DEF DirstateBecomes, DiskTypeOK, WorkingTreeTypeOK

Moved(f) == f \in Flow /\ AtItsStage(f) /\ f.kind = flow.kind

\* Where the ends of a step may lead.
LEMMA FlowMoves ==
    ASSUME flow \in Flow, AtItsStage(flow), flow.kind # "none"
    PROVE  /\ \A ok \in BOOLEAN : Moved([flow EXCEPT !.step = "report", !.ok = ok])
           /\ flow.kind = "commit" => \A s \in CommitStages : Moved([flow EXCEPT !.step = s])
           /\ flow.kind = "merge" => \A s \in MergeStages : Moved([flow EXCEPT !.step = s])
           /\ flow.kind \in OtherKinds => \A s \in OtherStages \ {"addToIndex"} : Moved([flow EXCEPT !.step = s])
<1> USE DEF Moved, AtItsStage
<1>1. "report" \in CommitStages \cap MergeStages \cap OtherStages /\ "addToIndex" \notin CommitStages \cup MergeStages
  BY DEF CommitStages, MergeStages, OtherStages
<1>2. flow.kind \notin OtherKinds \/ flow.kind \notin {"commit", "merge"}
  BY DEF OtherKinds
<1>3. ASSUME NEW ok \in BOOLEAN PROVE Moved([flow EXCEPT !.step = "report", !.ok = ok])
  BY <1>1 DEF Flow
<1>4. ASSUME flow.kind = "commit", NEW s \in CommitStages PROVE Moved([flow EXCEPT !.step = s])
  BY <1>1, <1>2, <1>4 DEF Flow
<1>5. ASSUME flow.kind = "merge", NEW s \in MergeStages PROVE Moved([flow EXCEPT !.step = s])
  BY <1>1, <1>2, <1>5 DEF Flow
<1>6. ASSUME flow.kind \in OtherKinds, NEW s \in OtherStages \ {"addToIndex"} PROVE Moved([flow EXCEPT !.step = s])
  BY <1>2, <1>6 DEF Flow
<1> HIDE DEF Moved, AtItsStage
<1> QED
  BY <1>3, <1>4, <1>5, <1>6

LEMMA RollBackMoves ==
    ASSUME flow \in Flow, AtItsStage(flow), flow.kind \in {"commit", "merge"}, NEW ok \in BOOLEAN
    PROVE  /\ Moved(RollBackThenReport(flow, ok))
           /\ \A l \in BOOLEAN : Moved([RollBackThenReport(flow, ok) EXCEPT !.lost = l])
           /\ \A l \in BOOLEAN : Moved([flow EXCEPT !.step = "report", !.lost = l])
<1> USE DEF Moved, AtItsStage
<1>1. {"report", "rollBack"} \subseteq CommitStages \cap MergeStages /\ flow.kind \notin OtherKinds
  BY DEF CommitStages, MergeStages, OtherKinds
<1>2. Moved(RollBackThenReport(flow, ok))
  BY <1>1 DEF Flow, RollBackThenReport
<1>3. ASSUME NEW l \in BOOLEAN PROVE Moved([flow EXCEPT !.step = "report", !.lost = l])
  BY <1>1 DEF Flow
<1>4. ASSUME NEW f, Moved(f), NEW l \in BOOLEAN PROVE Moved([f EXCEPT !.lost = l])
  BY <1>1, <1>4 DEF Flow
<1> HIDE DEF Moved, AtItsStage
<1> QED
  BY <1>2, <1>3, <1>4

LEMMA FlowTypedMeans ==
    ASSUME Typed
    PROVE  /\ flow \in Flow /\ AtItsStage(flow) /\ DiskTypeOK /\ moved \in BOOLEAN
           /\ flow.paths \in SUBSET Paths /\ flow.untracked \in SUBSET Files /\ flow.added \in SUBSET Paths
           /\ head \in Tree /\ work \in Tree /\ tracked \in SUBSET Files
BY HeadTyped DEF Typed, FlowTyped, ListTyped, CycleTypeOK, Flow, DiskTypeOK, WorkingTreeTypeOK

-------------------------------------------------------------------------------
(* The steps of the flows keep the types. *)

LEMMA AddRemoveTyped == Typed /\ AddRemove => Typed'
<1> SUFFICES ASSUME Typed, AddRemove PROVE Typed'
  OBVIOUS
<1> USE FlowTypedMeans
<1>1. flow.step = "commitRows" /\ flow.kind = "commit"
  BY DEF AddRemove, At, AtItsStage, CommitStages, MergeStages, OtherStages, Flow
<1>2. DiskTypeOK' /\ moved' \in BOOLEAN
  <2>1. \A P \in SUBSET (flow.paths \cap Files) : AfterAddRemove(P) \in SUBSET Files
    BY DEF AfterAddRemove
  <2>2. FilesToTrack \in SUBSET Files
    BY <2>1 DEF FilesToTrack
  <2> QED
    BY <2>1, <2>2, UntouchedTyped, DirstateTyped DEF AddRemove
<1>3. Moved(flow')
  <2>1. "commit" \in CommitStages
    BY DEF CommitStages
  <2> QED
    BY <1>1, <2>1, FlowMoves, RollBackMoves DEF AddRemove, GoOn
<1> QED
  BY <1>1, <1>2, <1>3, StepTyped DEF AddRemove, Moved

LEMMA AddUntrackedTyped == Typed /\ AddUntracked => Typed'
<1> SUFFICES ASSUME Typed, AddUntracked PROVE Typed'
  OBVIOUS
<1> USE FlowTypedMeans
<1>1. flow.step = "commitAll" /\ flow.kind = "merge"
  BY DEF AddUntracked, At, AtItsStage, CommitStages, MergeStages, OtherStages, Flow
<1>2. DiskTypeOK' /\ moved' \in BOOLEAN
  <2>1. \A P \in SUBSET flow.untracked : AfterAdd(P) \in SUBSET Files
    BY DEF AfterAdd
  <2>2. AfterAdd(flow.untracked) \in SUBSET Files
    BY <2>1
  <2> QED
    BY <2>1, <2>2, UntouchedTyped, DirstateTyped DEF AddUntracked
<1>3. Moved(flow')
  <2>1. "commit" \in MergeStages
    BY DEF MergeStages
  <2> QED
    BY <1>1, <2>1, FlowMoves, RollBackMoves DEF AddUntracked, GoOn
<1> QED
  BY <1>1, <1>2, <1>3, StepTyped DEF AddUntracked, Moved

LEMMA RunCommitTyped == Typed /\ RunCommit => Typed'
<1> SUFFICES ASSUME Typed, RunCommit PROVE Typed'
  OBVIOUS
<1> USE FlowTypedMeans
<1>1. flow.step = "commit" /\ flow.kind \in {"commit", "merge"}
  BY DEF RunCommit, At, AtItsStage, CommitStages, MergeStages, OtherStages, Flow
<1>2. DiskTypeOK' /\ moved' \in BOOLEAN
  <2>1. CASE Untouched
    BY <2>1, UntouchedTyped
  <2>2. ASSUME NEW P, Commits(P) PROVE DiskTypeOK' /\ moved' \in BOOLEAN
    <3>1. PICK t, c : /\ t = AfterCommit(P) /\ c = [p \in Files |-> IF p \in P THEN source[p] ELSE None]
                      /\ log' = Committed(t, c)
      BY <2>2 DEF Commits
    <3>2. t \in Tree
      BY <3>1 DEF AfterCommit, Tree, Held
    <3>3. c \in [Files -> Files \cup {None}]
      BY <3>1 DEF DiskTypeOK
    <3>4. [tree |-> t, joins |-> merging, copies |-> c] \in Commit
      BY <3>2, <3>3 DEF Commit, DiskTypeOK, WorkingTreeTypeOK
    <3>5. log' \in Seq(Commit)
      BY <3>1, <3>4, AppendProperties DEF Committed, DiskTypeOK, WorkingTreeTypeOK
    <3> QED
      BY <2>2, <3>5, WithoutTyped DEF Commits, DiskTypeOK, WorkingTreeTypeOK
  <2> QED
    BY <2>1, <2>2 DEF RunCommit
<1>3. Moved(flow')
  BY <1>1, RollBackMoves DEF RunCommit
<1> QED
  BY <1>1, <1>2, <1>3, StepTyped DEF RunCommit, Moved

LEMMA RollBackAddTyped == Typed /\ RollBackAdd => Typed'
<1> SUFFICES ASSUME Typed, RollBackAdd PROVE Typed'
  OBVIOUS
<1> USE FlowTypedMeans
<1>1. flow.step = "rollBack" /\ flow.kind \in {"commit", "merge"}
  BY DEF RollBackAdd, At, AtItsStage, CommitStages, MergeStages, OtherStages, Flow
<1>2. DiskTypeOK' /\ moved' \in BOOLEAN
  <2>1. AfterForget(flow.untracked) \in SUBSET Files
    BY DEF AfterForget
  <2> QED
    BY <2>1, UntouchedTyped, DirstateTyped DEF RollBackAdd
<1>3. Moved(flow')
  <2>1. PICK l \in BOOLEAN : flow' = [flow EXCEPT !.step = "report", !.lost = l]
    <3>1. PICK ok \in BOOLEAN : flow' = [flow EXCEPT !.step = "report", !.lost = ~ok]
      BY DEF RollBackAdd
    <3>2. (~ok) \in BOOLEAN
      OBVIOUS
    <3> QED
      BY <3>1, <3>2
  <2> QED
    BY <1>1, <2>1, RollBackMoves
<1> QED
  BY <1>1, <1>2, <1>3, StepTyped DEF RollBackAdd, Moved

\* The stages of a flow that neither commits path by path nor ends a merge.
Elsewhere == {"restore", "unAdd", "addToIndex", "markResolved", "trash", "discardAll", "undo", "abort"}

LEMMA OtherStep ==
    ASSUME Typed, flow.step \in Elsewhere
    PROVE  /\ flow.kind \in OtherKinds /\ flow.kind # "none" /\ flow.step # "none"
           /\ \A ok \in BOOLEAN : Ended(ok) => Moved(flow')
           /\ \A s \in OtherStages \ {"addToIndex"} : GoOn(s) => Moved(flow')
<1>1. flow.kind \in OtherKinds /\ flow.kind # "none" /\ flow.step # "none"
  BY FlowTypedMeans, FlowUnderway
     DEF Elsewhere, AtItsStage, CommitStages, MergeStages, OtherStages, OtherKinds, Flow
<1> QED
  BY <1>1, FlowTypedMeans, FlowMoves DEF Ended, GoOn

LEMMA RevertTyped ==
    ASSUME Typed, NEW P \in SUBSET Paths, Revert(P)
    PROVE  DiskTypeOK' /\ moved' \in BOOLEAN
<1>1. tracked' \subseteq Files
  BY FlowTypedMeans DEF Revert, AfterRevert
<1>2. work' \in Tree
  BY FlowTypedMeans DEF Revert, Reverted, Tree
<1> QED
  BY <1>1, <1>2, FlowTypedMeans, WithoutTyped DEF Revert, DiskTypeOK, WorkingTreeTypeOK

LEMMA RevertStepsTyped == Typed /\ (RevertRows \/ RevertAll) => Typed'
<1> SUFFICES ASSUME Typed, RevertRows \/ RevertAll PROVE Typed'
  OBVIOUS
<1> USE FlowTypedMeans
<1>1. flow.step \in Elsewhere
  BY DEF RevertRows, RevertAll, At, Elsewhere
<1>2. DiskTypeOK' /\ moved' \in BOOLEAN
  <2>1. flow.paths \cup flow.added \in SUBSET Paths
    OBVIOUS
  <2> QED
    BY <2>1, UntouchedTyped, RevertTyped DEF RevertRows, RevertAll
<1>3. Moved(flow')
  BY <1>1, OtherStep DEF RevertRows, RevertAll, AfterRestore, OtherStages
<1> QED
  BY <1>1, <1>2, <1>3, OtherStep, StepTyped DEF RevertRows, RevertAll, Moved

LEMMA UnAddTyped == Typed /\ UnAdd => Typed'
<1> SUFFICES ASSUME Typed, UnAdd PROVE Typed'
  OBVIOUS
<1> USE FlowTypedMeans
<1>1. flow.step \in Elsewhere
  BY DEF UnAdd, At, Elsewhere
<1>2. DiskTypeOK' /\ moved' \in BOOLEAN
  <2>1. AfterForget(flow.added) \in SUBSET Files
    BY DEF AfterForget
  <2> QED
    BY <2>1, UntouchedTyped, DirstateTyped DEF UnAdd
<1>3. Moved(flow') \/ flow' = NoFlow
  BY <1>1, OtherStep DEF UnAdd, AfterUnAdd, OtherStages
<1> QED
  BY <1>1, <1>2, <1>3, OtherStep, StepTyped, NoFlowTyped DEF UnAdd, Moved

LEMMA AddToIndexTyped == Typed /\ AddToIndex => Typed'
<1> SUFFICES ASSUME Typed, AddToIndex PROVE Typed'
  OBVIOUS
<1> USE FlowTypedMeans
<1>1. flow.step \in Elsewhere
  BY DEF AddToIndex, At, Elsewhere
<1>2. DiskTypeOK' /\ moved' \in BOOLEAN
  <2>1. AfterAdd(flow.paths) \in SUBSET Files
    BY DEF AfterAdd, AddToIndex, At, AtItsStage
  <2> QED
    BY <2>1, UntouchedTyped, DirstateTyped DEF AddToIndex
<1>3. Moved(flow')
  BY <1>1, OtherStep DEF AddToIndex
<1> QED
  BY <1>1, <1>2, <1>3, OtherStep, StepTyped DEF AddToIndex, Moved

LEMMA MarkResolvedTyped == Typed /\ MarkResolved => Typed'
<1> SUFFICES ASSUME Typed, MarkResolved PROVE Typed'
  OBVIOUS
<1> USE FlowTypedMeans
<1>1. flow.step \in Elsewhere
  BY DEF MarkResolved, At, Elsewhere
<1>2. DiskTypeOK' /\ moved' \in BOOLEAN
  BY DEF MarkResolved, DiskTypeOK, WorkingTreeTypeOK
<1>3. Moved(flow')
  BY <1>1, OtherStep DEF MarkResolved
<1> QED
  BY <1>1, <1>2, <1>3, OtherStep, StepTyped DEF MarkResolved, Moved

LEMMA TrashTyped == Typed /\ MoveFilesToTrash => Typed'
<1> SUFFICES ASSUME Typed, MoveFilesToTrash PROVE Typed'
  OBVIOUS
<1> USE FlowTypedMeans
<1>1. flow.step \in Elsewhere
  BY DEF MoveFilesToTrash, MoveToTrash, At, Elsewhere
<1>2. DiskTypeOK' /\ moved' \in BOOLEAN
  <2>1. work' \in Tree
    BY DEF MoveFilesToTrash, MoveToTrash, Tree, Held
  <2> QED
    BY <2>1 DEF MoveFilesToTrash, MoveToTrash, DiskTypeOK, WorkingTreeTypeOK, hgState
<1>3. Moved(flow')
  <2>1. \E ok \in BOOLEAN : Ended(ok)
    BY DEF MoveFilesToTrash, MoveToTrash
  <2> QED
    BY <1>1, <2>1, OtherStep
<1> QED
  BY <1>1, <1>2, <1>3, OtherStep, StepTyped DEF MoveFilesToTrash, MoveToTrash, Moved

LEMMA UndoTyped == Typed /\ Undo => Typed'
<1> SUFFICES ASSUME Typed, Undo PROVE Typed'
  OBVIOUS
<1> USE FlowTypedMeans
<1>1. flow.step \in Elsewhere
  BY DEF Undo, At, Elsewhere
<1>2. DiskTypeOK' /\ moved' \in BOOLEAN
  <2>1. CASE Untouched
    BY <2>1, UntouchedTyped
  <2>2. CASE /\ Len(log) > 1 /\ log' = SubSeq(log, 1, Len(log) - 1) /\ moved' = TRUE
             /\ source' = [p \in Files |-> IF p \in tracked /\ source[p] = None THEN log[Len(log)].copies[p] ELSE source[p]]
             /\ UNCHANGED <<work, inside, merging, tracked, unresolved, mergestate>>
    <3>1. log' \in Seq(Commit) /\ log[Len(log)] \in Commit
      BY <2>2, SubSeqProperties DEF DiskTypeOK, WorkingTreeTypeOK
    <3>2. source' \in [Files -> Files \cup {None}]
      BY <2>2, <3>1 DEF Commit, DiskTypeOK
    <3> QED
      BY <2>2, <3>1, <3>2 DEF DiskTypeOK, WorkingTreeTypeOK
  <2> QED
    BY <2>1, <2>2 DEF Undo, Try
<1>3. Moved(flow')
  BY <1>1, OtherStep DEF Undo
<1> QED
  BY <1>1, <1>2, <1>3, OtherStep, StepTyped DEF Undo, Moved

LEMMA AbortTyped == Typed /\ AbortOperation => Typed'
<1> SUFFICES ASSUME Typed, AbortOperation PROVE Typed'
  OBVIOUS
<1> USE FlowTypedMeans
<1>1. flow.step \in Elsewhere
  BY DEF AbortOperation, At, Elsewhere
<1>2. DiskTypeOK' /\ moved' \in BOOLEAN
  <2>1. CASE Untouched
    BY <2>1, UntouchedTyped
  <2>2. CASE /\ work' = [p \in Paths |-> IF head[p] # None THEN head[p] ELSE work[p]]
             /\ tracked' = {p \in Files : head[p] # None} /\ source' = NoCopies
             /\ merging' = FALSE /\ unresolved' = {} /\ mergestate' = FALSE /\ moved' = TRUE /\ UNCHANGED <<log, inside>>
    <3>1. work' \in Tree /\ source' \in [Files -> Files \cup {None}]
      BY <2>2 DEF Tree, NoCopies
    <3> QED
      BY <2>2, <3>1 DEF DiskTypeOK, WorkingTreeTypeOK
  <2> QED
    BY <2>1, <2>2 DEF AbortOperation
<1>3. Moved(flow')
  BY <1>1, OtherStep DEF AbortOperation
<1> QED
  BY <1>1, <1>2, <1>3, OtherStep, StepTyped DEF AbortOperation, Moved

LEMMA FlowStepsTyped == Typed /\ FlowSteps => Typed'
BY AddRemoveTyped, AddUntrackedTyped, RunCommitTyped, RollBackAddTyped, RevertStepsTyped, UnAddTyped, AddToIndexTyped,
   MarkResolvedTyped, TrashTyped, UndoTyped, AbortTyped
   DEF FlowSteps

-------------------------------------------------------------------------------
(* The beginnings of the flows, and what happens between their steps, keep the types. *)

LEMMA BeginTyped ==
    ASSUME Typed, NEW k, NEW s, NEW P, k \in OtherKinds \cup {"commit", "merge"},
           s \in CommitStages \cup MergeStages \cup OtherStages, P \in SUBSET Paths
    PROVE  Begin(k, s, P) \in Flow /\ Begin(k, s, P).kind = k /\ Begin(k, s, P).step = s /\ Begin(k, s, P).paths = P
<1>1. PICK b \in BOOLEAN : b = (run.round = 0 /\ ~moved)
  OBVIOUS
<1>2. declined \in SUBSET Paths
  BY DEF Typed, ListTyped
<1>3. Begin(k, s, P) = [NoFlow EXCEPT !.kind = k, !.step = s, !.paths = P, !.fresh = b, !.declined = declined]
  BY <1>1 DEF Begin
<1>4. ASSUME NEW f, f = [NoFlow EXCEPT !.kind = k, !.step = s, !.paths = P, !.fresh = b, !.declined = declined]
      PROVE  f \in Flow /\ f.kind = k /\ f.step = s /\ f.paths = P
  BY <1>2, <1>4, NoFlowTyped DEF Flow
<1> QED
  BY <1>3, <1>4

LEMMA RowPaths ==
    ASSUME Typed, NEW R \in SUBSET rows
    PROVE  /\ Named(R) \in SUBSET Paths
           /\ {e.path : e \in R} \in SUBSET Paths
           /\ \A e \in R : ~e.sub => e.path \in Files
BY DEF Typed, ListTyped, Row, FileEntry, Named, Paths

\* How a flow begins.
Started(f) == f \in Flow /\ AtItsStage(f) /\ f.kind # "none"

LEMMA StartsTyped == Typed /\ Starts => Started(flow') /\ (StartCommit \/ flow'.kind \notin {"commit", "merge"})
<1> DEFINE Done == Started(flow') /\ (StartCommit \/ flow'.kind \notin {"commit", "merge"})
<1> SUFFICES ASSUME Typed, Starts PROVE Done
  OBVIOUS
<1>0. /\ "commitRows" \in CommitStages /\ "commitAll" \in MergeStages
      /\ {"unAdd", "restore", "markResolved", "addToIndex", "trash", "undo", "abort"} \subseteq OtherStages
      /\ {"discard", "add", "unAdd", "delete", "undo", "abort"} \subseteq OtherKinds
      /\ OtherKinds \cap {"commit", "merge", "none"} = {"none"}
  BY DEF CommitStages, MergeStages, OtherStages, OtherKinds
<1>1. CASE StartCommit
  <2>1. checkedPathspec \in SUBSET Paths /\ checkedUntrackedPaths \in SUBSET Files
    <3>1. checked \subseteq rows /\ rows \subseteq Row
      BY DEF Typed, ListTyped, ListTypeOK
    <3> QED
      BY <3>1 DEF Row, FileEntry, Paths, checkedPathspec, checkedUntrackedPaths
  <2> DEFINE m == Begin("merge", "commitAll", checkedPathspec)
             c == Begin("commit", "commitRows", checkedPathspec)
  <2>2. m \in Flow /\ m.kind = "merge" /\ m.step = "commitAll"
    BY <2>1, <1>0, BeginTyped
  <2>3. c \in Flow /\ c.kind = "commit" /\ c.step = "commitRows"
    BY <2>1, <1>0, BeginTyped
  <2>4. flow' = [m EXCEPT !.untracked = checkedUntrackedPaths] \/ flow' = [c EXCEPT !.untracked = checkedUntrackedPaths]
    BY <1>1 DEF StartCommit
  <2> HIDE DEF m, c
  <2>5. Started(flow')
    BY <1>0, <2>1, <2>2, <2>3, <2>4 DEF Started, AtItsStage, Flow
  <2> QED
    BY <1>1, <2>5
<1>2. ASSUME NEW R \in SUBSET rows, StartDiscard(R) PROVE Done
  <2> DEFINE added == {e \in R : ~e.sub /\ e.type = "Added"}
             restored == {e \in R \ added : discardable(e)}
             s == IF restored = {} THEN "unAdd" ELSE "restore"
             f == Begin("discard", s, Named(restored))
  <2>1. Named(restored) \in SUBSET Paths /\ Named(added) \in SUBSET Paths
    BY RowPaths
  <2>2. f \in Flow /\ f.kind = "discard" /\ f.step = s
    BY <2>1, <1>0, BeginTyped
  <2>3. flow' = [f EXCEPT !.added = Named(added)]
    BY <1>2 DEF StartDiscard
  <2>4. s \in {"unAdd", "restore"}
    OBVIOUS
  <2> HIDE DEF f, s
  <2> QED
    BY <1>0, <2>1, <2>2, <2>3, <2>4 DEF Started, AtItsStage, Flow
<1>3. ASSUME NEW R \in SUBSET rows, NEW type, StartAdd(R, type) PROVE Done
  <2> DEFINE wanted == {e \in R : ~e.sub /\ ~e.nested /\ e.type = type}
             s == IF type = "Conflicted" THEN "markResolved" ELSE "addToIndex"
             A == {e.path : e \in wanted}
  <2>1. A \in SUBSET Paths /\ A \subseteq Files /\ s \in {"markResolved", "addToIndex"}
    BY RowPaths
  <2>2. flow' = Begin("add", s, A)
    BY <1>3 DEF StartAdd
  <2> HIDE DEF wanted, s, A
  <2>3. flow' \in Flow /\ flow'.kind = "add" /\ flow'.step = s /\ flow'.paths = A
    BY <2>1, <2>2, <1>0, BeginTyped
  <2> QED
    BY <1>0, <2>1, <2>3 DEF Started, AtItsStage
<1>4. ASSUME NEW R \in SUBSET rows, StartUnAdd(R) PROVE Done
  <2> DEFINE added == {e \in R : ~e.sub /\ e.type = "Added"}
             f == Begin("unAdd", "unAdd", {})
  <2>1. Named(added) \in SUBSET Paths /\ {} \in SUBSET Paths
    BY RowPaths
  <2>2. f \in Flow /\ f.kind = "unAdd" /\ f.step = "unAdd"
    BY <2>1, <1>0, BeginTyped
  <2>3. flow' = [f EXCEPT !.added = Named(added)]
    BY <1>4 DEF StartUnAdd
  <2> HIDE DEF f
  <2> QED
    BY <1>0, <2>1, <2>2, <2>3 DEF Started, AtItsStage, Flow
<1>5. ASSUME NEW R \in SUBSET rows, StartDelete(R) PROVE Done
  <2> DEFINE deleted == {e \in R : ~e.sub /\ ~e.nested /\ e.type # "Deleted"}
             added == {e \in deleted : e.type = "Added"}
             s == IF added = {} THEN "trash" ELSE "unAdd"
             f == Begin("delete", s, {e.path : e \in deleted})
             A == {e.path : e \in added}
  <2>1. {e.path : e \in deleted} \in SUBSET Paths /\ A \in SUBSET Paths /\ s \in {"trash", "unAdd"}
    BY RowPaths
  <2>2. f \in Flow /\ f.kind = "delete" /\ f.step = s
    BY <2>1, <1>0, BeginTyped
  <2>3. flow' = [f EXCEPT !.added = A]
    BY <1>5 DEF StartDelete
  <2> HIDE DEF f, A, s
  <2> QED
    BY <1>0, <2>1, <2>2, <2>3, <2>1 DEF Started, AtItsStage, Flow
<1>6. CASE StartUndo \/ StartAbort
  <2>1. flow' = Begin("undo", "undo", {}) \/ flow' = Begin("abort", "abort", {})
    BY <1>6 DEF StartUndo, StartAbort
  <2> QED
    BY <2>1, <1>0, BeginTyped DEF Started, AtItsStage
<1> QED
  BY <1>1, <1>2, <1>3, <1>4, <1>5, <1>6 DEF Starts

LEMMA StatusTyped == DiskTypeOK => parseStatus \in SUBSET Change
<1> SUFFICES ASSUME DiskTypeOK, NEW p \in Files, ChangedFile(p)
             PROVE  [path |-> p, was |-> source[p], type |-> ChangeType(p)] \in Change
  BY DEF parseStatus
<1>1. ChangeType(p) \in {"Added", "Deleted", "Modified", "Renamed", "Untracked"}
  BY DEF ChangeType, ChangedFile
<1>2. source[p] \in Files \cup {None}
  BY DEF DiskTypeOK
<1> QED
  BY <1>1, <1>2 DEF Change

LEMMA PlanDiscardAllTyped == Typed /\ PlanDiscardAll => Started(flow') /\ flow'.kind = "discardAll"
<1> SUFFICES ASSUME Typed, PlanDiscardAll PROVE Started(flow') /\ flow'.kind = "discardAll"
  OBVIOUS
<1> DEFINE plan == discardPlanFor(parseStatus)
           f == Begin("discardAll", "discardAll", plan.restored)
<1>1. plan.restored \in SUBSET Paths /\ plan.keptOnDisk \in SUBSET Paths
  <2>1. parseStatus \in SUBSET Change
    BY StatusTyped DEF Typed
  <2> QED
    BY <2>1 DEF discardPlanFor, Change, Paths
<1> HIDE DEF plan
<1>2. f \in Flow /\ f.kind = "discardAll" /\ f.step = "discardAll"
  BY <1>1, BeginTyped DEF OtherKinds, OtherStages
<1>3. flow' = [f EXCEPT !.added = plan.keptOnDisk, !.fresh = TRUE]
  BY DEF PlanDiscardAll, StartDiscardAll, plan
<1> HIDE DEF f
<1> QED
  BY <1>1, <1>2, <1>3 DEF Started, AtItsStage, Flow, OtherStages, OtherKinds

LEMMA NotedTyped == Typed => Noted \in Snapshot
<1> SUFFICES ASSUME Typed PROVE Noted \in Snapshot
  OBVIOUS
<1>1. head \in Tree /\ work \in Tree /\ tracked \in SUBSET Files /\ merging \in BOOLEAN
  BY FlowTypedMeans DEF DiskTypeOK, WorkingTreeTypeOK
<1>2. {e.path : e \in checked} \in SUBSET Paths
  BY RowPaths DEF Typed, ListTyped, ListTypeOK
<1> QED
  BY <1>1, <1>2 DEF Noted, Snapshot, Paths

LEMMA BeginsTyped == Typed /\ Begins => Typed'
<1> SUFFICES ASSUME Typed, Begins PROVE Typed'
  OBVIOUS
<1>1. Started(flow')
  BY StartsTyped, PlanDiscardAllTyped DEF Begins
<1>2. before' \in Snapshot
  BY NotedTyped DEF Begins
<1>3. UNCHANGED <<disk, run, again, state, files, moved, listVars, declined>>
  BY DEF Begins, Starts, PlanDiscardAll, KeepRefresh, KeepSettled
<1>4. FlowTyped'
  BY <1>1, <1>2 DEF FlowTyped, Started
<1>5. DiskTypeOK' /\ RunTyped' /\ ListTyped'
  BY <1>3 DEF Typed, DiskTypeOK, WorkingTreeTypeOK, RunTyped, ListTyped, CycleTypeOK, ListTypeOK, disk, hgState, listVars
<1> QED
  BY <1>4, <1>5 DEF Typed

\* What leaves the disk and the flow alone.
LEMMA ListStepTyped ==
    ASSUME Typed, RunTyped', ListTyped', UNCHANGED <<disk, flow, before>>
    PROVE  Typed'
<1>1. DiskTypeOK'
  BY DEF Typed, DiskTypeOK, WorkingTreeTypeOK, disk, hgState
<1>2. FlowTyped'
  BY DEF Typed, FlowTyped
<1> QED
  BY <1>1, <1>2 DEF Typed

LEMMA RefreshTyped ==
    ASSUME Typed, Refresh(NewRun), UNCHANGED <<state, files, listVars, declined>>
    PROVE  RunTyped' /\ ListTyped'
<1>1. RunTyped'
  BY NoRunTyped DEF Typed, RunTyped, Refresh
<1>2. again' \in BOOLEAN /\ moved' \in BOOLEAN
  BY DEF Typed, ListTyped, CycleTypeOK, Refresh
<1> QED
  BY <1>1, <1>2 DEF Typed, ListTyped, CycleTypeOK, ListTypeOK, listVars

LEMMA ReportTyped == Typed /\ Report(NewRun) /\ UNCHANGED disk => Typed'
<1> SUFFICES ASSUME Typed, Report(NewRun), UNCHANGED disk PROVE Typed'
  OBVIOUS
<1>1. RunTyped' /\ ListTyped'
  BY RefreshTyped DEF Report
<1>2. FlowTyped'
  BY NoFlowTyped DEF Report, FlowTyped, NoFlow
<1>3. DiskTypeOK'
  BY DEF Typed, DiskTypeOK, WorkingTreeTypeOK, disk, hgState
<1> QED
  BY <1>1, <1>2, <1>3 DEF Typed

LEMMA RefreshIsDueTyped == Typed /\ RefreshIsDue(NewRun) /\ UNCHANGED disk => Typed'
<1> SUFFICES ASSUME Typed, RefreshIsDue(NewRun), UNCHANGED disk PROVE Typed'
  OBVIOUS
<1>1. UNCHANGED <<state, files, listVars, declined, flow, before>> /\ Refresh(NewRun)
  BY DEF RefreshIsDue, flowVars
<1> QED
  BY <1>1, RefreshTyped, ListStepTyped


\* A run keeps its type when a query answers.
LEMMA AnswerQueryTyped ==
    ASSUME Typed, NEW q \in run.asked, NEW ok \in BOOLEAN, AnswerQuery(q, ok)
    PROVE  RunTyped'
<1> DEFINE r == [run EXCEPT !.asked = run.asked \ {q}]
<1>1. run \in RefreshRun /\ Rounds(run) /\ q \in {"status", "wdir", "resolve"}
  BY DEF Typed, RunTyped, RefreshRun
<1>2. r \in RefreshRun /\ r.round = run.round /\ r.recorded = run.recorded /\ r.content = run.content /\ r.subs = run.subs
  BY <1>1 DEF RefreshRun
<1>3. PICK n, b : n = parentCount /\ b = (log = <<>>) /\ n \in 0..2 /\ b \in BOOLEAN
  BY HeadTyped DEF Typed, DiskTypeOK, WorkingTreeTypeOK
<1>4. parseStatus \in SUBSET Change /\ merging \in BOOLEAN /\ unresolved \in SUBSET Files
  BY StatusTyped DEF Typed, DiskTypeOK, WorkingTreeTypeOK
<1>5. \/ run' \in {[r EXCEPT !.failed = TRUE], [r EXCEPT !.blind = TRUE]}
      \/ run' = [r EXCEPT !.changes = parseStatus]
      \/ run' = [r EXCEPT !.merging = merging, !.parents = n, !.unborn = b]
      \/ run' = [r EXCEPT !.conflicted = unresolved]
  BY <1>1, <1>3 DEF AnswerQuery
<1> HIDE DEF r
<1>6. run' \in RefreshRun /\ run'.round = r.round /\ run'.recorded = r.recorded /\ run'.content = r.content /\ run'.subs = r.subs
  <2>1. CASE run' \in {[r EXCEPT !.failed = TRUE], [r EXCEPT !.blind = TRUE]}
    BY <1>2, <2>1 DEF RefreshRun
  <2>2. CASE run' = [r EXCEPT !.changes = parseStatus]
    BY <1>2, <1>4, <2>2 DEF RefreshRun
  <2>3. CASE run' = [r EXCEPT !.merging = merging, !.parents = n, !.unborn = b]
    BY <1>2, <1>3, <1>4, <2>3 DEF RefreshRun
  <2>4. CASE run' = [r EXCEPT !.conflicted = unresolved]
    BY <1>2, <1>4, <2>4 DEF RefreshRun
  <2> QED
    BY <1>5, <2>1, <2>2, <2>3, <2>4
<1> QED
  BY <1>1, <1>2, <1>6 DEF RunTyped, Rounds

\* What a run has read of the subrepos, once s has answered.
LEMMA ReadOfSubrepos ==
    ASSUME NEW V, NEW f \in UNION {[S -> V] : S \in SUBSET Submodules}, NEW s \in Submodules, NEW v \in V
    PROVE  [t \in DOMAIN f \cup {s} |-> IF t = s THEN v ELSE f[t]] \in UNION {[S -> V] : S \in SUBSET Submodules}
<1>1. PICK S \in SUBSET Submodules : f \in [S -> V]
  OBVIOUS
<1>2. [t \in DOMAIN f \cup {s} |-> IF t = s THEN v ELSE f[t]] \in [S \cup {s} -> V]
  BY <1>1
<1>3. S \cup {s} \in SUBSET Submodules
  OBVIOUS
<1> QED
  BY <1>2, <1>3

LEMMA AnswerSubrepoTyped ==
    ASSUME Typed, NEW q \in run.subs, NEW ok \in BOOLEAN, AnswerSubrepo(q, ok)
    PROVE  RunTyped'
<1> DEFINE s == q.of
           r == [run EXCEPT !.subs = run.subs \ {q}]
           u == IF ok THEN inside[s] ELSE "Unknown"
           c == [t \in DOMAIN run.content \cup {s} |-> IF t = s THEN u ELSE run.content[t]]
           n == [t \in DOMAIN run.nodes \cup {s} |-> IF t = s THEN work[s] ELSE run.nodes[t]]
<1>1. run \in RefreshRun /\ Rounds(run) /\ q \in SubQueries
  BY DEF Typed, RunTyped, RefreshRun
<1>2. s \in Submodules /\ q = [of |-> s, what |-> q.what] /\ q.what \in {"content", "node"}
  BY <1>1 DEF SubQueries
<1>3. r \in RefreshRun /\ r.round = run.round /\ r.recorded = run.recorded /\ r.content = run.content /\ r.nodes = run.nodes
      /\ r.subs = run.subs \ {q}
  BY <1>1 DEF RefreshRun
<1>4. c \in ContentRead /\ n \in NodesRead
  <2>1. u \in ContentStates /\ work[s] \in Held
    BY <1>2 DEF Typed, DiskTypeOK, WorkingTreeTypeOK, ContentStates, Tree, Paths
  <2>2. run.content \in ContentRead /\ run.nodes \in NodesRead
    BY <1>1 DEF RefreshRun
  <2>3. ASSUME NEW f \in ContentRead, NEW v \in ContentStates, NEW t \in Submodules
        PROVE  [x \in DOMAIN f \cup {t} |-> IF x = t THEN v ELSE f[x]] \in ContentRead
    BY ReadOfSubrepos DEF ContentRead
  <2>4. ASSUME NEW f \in NodesRead, NEW v \in Held, NEW t \in Submodules
        PROVE  [x \in DOMAIN f \cup {t} |-> IF x = t THEN v ELSE f[x]] \in NodesRead
    BY ReadOfSubrepos DEF NodesRead
  <2> HIDE DEF s, u
  <2>5. c \in ContentRead
    BY <1>2, <2>1, <2>2, <2>3
  <2>6. n \in NodesRead
    BY <1>2, <2>1, <2>2, <2>4
  <2> QED
    BY <2>5, <2>6
<1>5. \/ q.what = "content" /\ run' = [r EXCEPT !.content = c]
      \/ q.what = "node" /\ run' \in {r, [r EXCEPT !.nodes = n]}
  BY <1>2 DEF AnswerSubrepo
<1>6. DOMAIN c = DOMAIN run.content \cup {s}
  OBVIOUS
<1> HIDE DEF s, r, u, c, n
<1>7. run' \in RefreshRun /\ run'.round = r.round /\ run'.recorded = r.recorded /\ run'.subs = r.subs
      /\ run'.content = (IF q.what = "content" THEN c ELSE r.content)
  BY <1>3, <1>4, <1>5 DEF RefreshRun
<1>8. ASSUME NEW t \in Submodules, run.round = 1
      PROVE  t \in DOMAIN run'.content \/ [of |-> t, what |-> "content"] \in run'.subs
  <2>1. t \in DOMAIN run.content \/ [of |-> t, what |-> "content"] \in run.subs
    BY <1>1, <1>8 DEF Rounds
  <2>2. CASE t \in DOMAIN run.content
    BY <1>3, <1>6, <1>7, <2>2
  <2>3. CASE [of |-> t, what |-> "content"] \in run.subs /\ q # [of |-> t, what |-> "content"]
    BY <1>3, <1>7, <2>3
  <2>4. CASE q = [of |-> t, what |-> "content"]
    BY <1>6, <1>7, <2>4 DEF s
  <2> QED
    BY <2>1, <2>2, <2>3, <2>4
<1> QED
  BY <1>1, <1>3, <1>7, <1>8 DEF RunTyped, Rounds

LEMMA AnswerTyped == Typed /\ Answer => Typed'
<1> SUFFICES ASSUME Typed, Answer PROVE Typed'
  OBVIOUS
<1>1. RunTyped'
  BY AnswerQueryTyped, AnswerSubrepoTyped DEF Answer
<1>2. UNCHANGED <<again, state, files, moved, disk, listVars, flowVars>>
  BY DEF Answer
<1> QED
  BY <1>1, <1>2, ListStepTyped DEF Typed, ListTyped, CycleTypeOK, ListTypeOK, listVars, flowVars

\* The rows a run comes to are entries of the list.
LEMMA RowsTyped ==
    ASSUME run \in RefreshRun, Rounds(run), run.round = 1, run.subs = {}
    PROVE  filesFromRun(run) \in SUBSET Row
<1>1. /\ run.changes \in SUBSET Change /\ run.conflicted \in SUBSET Files
      /\ \A s \in Submodules : run.content[s] \in ContentStates
  <2>1. PICK S \in SUBSET Submodules : run.content \in [S -> ContentStates]
    BY DEF RefreshRun, ContentRead
  <2> QED
    BY <2>1 DEF Rounds, RefreshRun
<1>2. \A c \in run.changes : statusRow(c, run) \in Row
  BY <1>1 DEF statusRow, Row, FileEntry, Change, Paths
<1>3. \A p \in Files : conflictRow(p) \in Row
  BY DEF conflictRow, Row, FileEntry, Paths
<1>4. ASSUME NEW s \in Submodules PROVE subrepoRow(s, run) \in Row
  <2>1. PICK k, c : /\ k = (s \in DOMAIN run.nodes /\ run.nodes[s] # run.recorded[s])
                    /\ c = IF s \notin DOMAIN run.nodes /\ run.content[s] \in {"Clean", "Untracked"} THEN "Unknown"
                           ELSE run.content[s]
    OBVIOUS
  <2>2. k \in BOOLEAN /\ c \in ContentStates
    BY <1>1, <2>1 DEF ContentStates
  <2>3. subrepoRow(s, run) = [path |-> s, was |-> None, sub |-> TRUE, nested |-> FALSE, type |-> "Modified",
                              pointerMoved |-> k, content |-> c]
    BY <2>1 DEF subrepoRow
  <2> QED
    BY <2>2, <2>3 DEF Row, FileEntry, Paths, ContentStates
<1> QED
  BY <1>1, <1>2, <1>3, <1>4 DEF filesFromRun

LEMMA EndRefreshTyped == Typed /\ EndRefresh => Typed'
<1> SUFFICES ASSUME Typed, EndRefresh PROVE Typed'
  OBVIOUS
<1>1. run \in RefreshRun /\ Rounds(run) /\ run.round = 1 /\ run.subs = {} /\ run.blind \in BOOLEAN
  BY DEF Typed, RunTyped, EndRefresh, FinishRefresh, RefreshRun
<1>2. RunTyped'
  <2>1. run' = NewRun \/ run' = [NoRun EXCEPT !.blind = run.blind]
    BY DEF EndRefresh, RestartIfAsked
  <2> QED
    BY <1>1, <2>1, NoRunTyped DEF Typed, RunTyped
<1>3. again' \in BOOLEAN /\ moved' \in BOOLEAN /\ UNCHANGED <<disk, flow, before, policy>>
  BY DEF EndRefresh, RestartIfAsked, TakeRows, Typed, ListTyped, CycleTypeOK
<1>4. files' \in SUBSET Row
  BY <1>1, RowsTyped DEF EndRefresh, FinishRefresh, Establish, Typed, ListTyped
<1>5. state' \in [known : BOOLEAN, merging : BOOLEAN, unborn : BOOLEAN, parents : 0..2]
  <2>1. CASE state' = [state EXCEPT !.known = FALSE]
    BY <2>1 DEF Typed, ListTyped, CycleTypeOK
  <2>2. CASE state' = [known |-> TRUE, merging |-> run.merging \/ (merging /\ ~DirstateV2),
                       unborn |-> run.unborn, parents |-> run.parents]
    <3>1. (run.merging \/ (merging /\ ~DirstateV2)) \in BOOLEAN
      OBVIOUS
    <3>2. run.unborn \in BOOLEAN /\ run.parents \in 0..2
      BY <1>1 DEF RefreshRun
    <3> QED
      BY <2>2, <3>1, <3>2
  <2> QED
    BY <2>1, <2>2 DEF EndRefresh, FinishRefresh, Establish
<1>6. rows' = files' /\ mergeMode' = state'.merging /\ checked' \subseteq rows' /\ declined' \subseteq declined
  BY DEF EndRefresh, TakeRows, setEntries
<1>7. mergeMode' \in BOOLEAN
  BY <1>5, <1>6
<1>8. ListTyped'
  BY <1>3, <1>4, <1>5, <1>6, <1>7 DEF Typed, ListTyped, CycleTypeOK, ListTypeOK, Row
<1> QED
  BY <1>2, <1>3, <1>8, ListStepTyped

LEMMA UserChecksTyped == Typed /\ UserChecks /\ UNCHANGED disk => Typed'
<1> SUFFICES ASSUME Typed, UserChecks, UNCHANGED disk PROVE Typed'
  OBVIOUS
<1>1. checked' \subseteq rows
  BY DEF UserChecks, setRowsChecked, applyChecked, Typed, ListTyped, ListTypeOK
<1>2. UNCHANGED <<refreshVars, rows, mergeMode, policy, flow, before>>
  BY DEF UserChecks
<1>3. checked \subseteq rows /\ rows \subseteq FileEntry /\ declined \subseteq Paths
  BY DEF Typed, ListTyped, ListTypeOK
<1>4. declined' \subseteq Paths
  BY <1>3 DEF UserChecks, FileEntry
<1> QED
  BY <1>1, <1>2, <1>4, ListStepTyped
     DEF Typed, RunTyped, ListTyped, CycleTypeOK, ListTypeOK, refreshVars

LEMMA OutsideDiskTyped == Typed /\ OutsideActions => DiskTypeOK'
<1> SUFFICES ASSUME Typed, OutsideActions PROVE DiskTypeOK'
  OBVIOUS
<1> USE FlowTypedMeans
<1>1. log' = log
  BY DEF OutsideActions, OutsideEdit, OutsideInside, OutsideTrack, OutsideCopy, OutsideMerge, OutsideChanges
<1>2. CASE \E p \in Paths, c \in Held : OutsideEdit(p, c)
  BY <1>1, <1>2 DEF OutsideEdit, DiskTypeOK, WorkingTreeTypeOK, hgState, Tree
<1>3. CASE \E s \in Submodules, v \in {"Clean", "Untracked", "DirtyTracked"} : OutsideInside(s, v)
  BY <1>1, <1>3 DEF OutsideInside, DiskTypeOK, WorkingTreeTypeOK, hgState
<1>4. CASE \E p \in Files : OutsideTrack(p)
  <2>1. tracked' \subseteq Files /\ source' \in [Files -> Files \cup {None}]
    BY <1>4, WithoutTyped DEF OutsideTrack
  <2> QED
    BY <1>1, <1>4, <2>1 DEF OutsideTrack, DiskTypeOK, WorkingTreeTypeOK
<1>5. ASSUME NEW p \in Files, NEW q \in Files, NEW keep \in BOOLEAN, OutsideCopy(p, q, keep)
      PROVE  DiskTypeOK'
  <2>1. tracked' \subseteq Files
    BY <1>5 DEF OutsideCopy
  <2>2. source' \in [Files -> Files \cup {None}]
    BY <1>5 DEF OutsideCopy, DiskTypeOK
  <2>3. PICK d \in Held : work' = [work EXCEPT ![q] = work[p], ![p] = d]
    BY <1>5 DEF OutsideCopy, Tree, Paths, Held
  <2>4. work[p] \in Held
    BY DEF Tree, Paths
  <2>5. work' \in Tree
    BY <2>3, <2>4 DEF Tree
  <2> QED
    BY <1>1, <1>5, <2>1, <2>2, <2>5 DEF OutsideCopy, DiskTypeOK, WorkingTreeTypeOK
<1>6. ASSUME NEW P \in SUBSET Files, NEW Q \in SUBSET Files, NEW c \in Contents, OutsideMerge(P, Q, c)
      PROVE  DiskTypeOK'
  <2>1. work' \in Tree /\ mergestate' \in BOOLEAN /\ merging' \in BOOLEAN
    BY <1>6 DEF OutsideMerge, Tree, Held
  <2> QED
    BY <1>1, <1>6, <2>1 DEF OutsideMerge, DiskTypeOK, WorkingTreeTypeOK
<1> QED
  BY <1>2, <1>3, <1>4, <1>5, <1>6 DEF OutsideActions

\* Every change from outside touches the paths it changes.
LEMMA OutsideTouches ==
    ASSUME OutsideActions
    PROVE  \E P \in SUBSET Paths : OutsideChanges(P)
<1>1. \A p \in Paths, c \in Held : OutsideEdit(p, c) => OutsideChanges({p})
  BY DEF OutsideEdit
<1>2. \A s \in Submodules : \A v : OutsideInside(s, v) => OutsideChanges({s})
  BY DEF OutsideInside
<1>3. \A p \in Files : OutsideTrack(p) => OutsideChanges({p})
  BY DEF OutsideTrack
<1>4. /\ \A p \in Files : {p} \in SUBSET Paths
      /\ \A P, Q \in SUBSET Files : P \cup Q \in SUBSET Paths
      /\ \A s \in Submodules : {s} \in SUBSET Paths
  BY DEF Paths
<1> QED
  <2>1. CASE \E p \in Paths, c \in Held : OutsideEdit(p, c)
    BY <1>1, <2>1, {{p} : p \in Paths} \subseteq SUBSET Paths
  <2>2. CASE \E s \in Submodules, v \in {"Clean", "Untracked", "DirtyTracked"} : OutsideInside(s, v)
    BY <1>2, <1>4, <2>2
  <2>3. CASE \E p \in Files : OutsideTrack(p)
    BY <1>3, <1>4, <2>3
  <2>4. CASE \E p, q \in Files, keep \in BOOLEAN : OutsideCopy(p, q, keep)
    <3>1. PICK p \in Files, q \in Files, keep \in BOOLEAN : OutsideCopy(p, q, keep)
      BY <2>4
    <3>2. OutsideChanges({p, q})
      BY <3>1 DEF OutsideCopy
    <3>3. {p, q} \in SUBSET Paths
      BY DEF Paths
    <3> QED
      BY <3>2, <3>3
  <2>5. CASE \E P, Q \in SUBSET Files, c \in Contents : OutsideMerge(P, Q, c)
    <3>1. PICK P \in SUBSET Files, Q \in SUBSET Files, c \in Contents : OutsideMerge(P, Q, c)
      BY <2>5
    <3>2. OutsideChanges(P \cup Q)
      BY <3>1 DEF OutsideMerge
    <3>3. P \cup Q \in SUBSET Paths
      BY <1>4
    <3> QED
      BY <3>2, <3>3
  <2> QED
    BY <2>1, <2>2, <2>3, <2>4, <2>5 DEF OutsideActions

LEMMA OutsideTyped == Typed /\ OutsideActions => Typed'
<1> SUFFICES ASSUME Typed, OutsideActions PROVE Typed'
  OBVIOUS
<1>1. PICK P \in SUBSET Paths : OutsideChanges(P)
  BY OutsideTouches
<1>2. /\ moved' = TRUE /\ UNCHANGED <<run, again, state, files, listVars, before, declined>>
      /\ flow' = IF flow.kind = "none" THEN flow ELSE [flow EXCEPT !.touched = flow.touched \cup P]
  BY <1>1 DEF OutsideChanges, Touch, KeepRefresh
<1>3. FlowTyped'
  <2>1. CASE flow.kind = "none"
    BY <1>2, <2>1 DEF Typed, FlowTyped
  <2>2. CASE flow.kind # "none"
    <3>1. flow' = [flow EXCEPT !.touched = flow.touched \cup P]
      BY <1>2, <2>2
    <3>2. flow' \in Flow /\ flow'.kind = flow.kind /\ flow'.step = flow.step /\ flow'.paths = flow.paths
      BY <3>1 DEF Typed, FlowTyped, Flow
    <3> QED
      BY <1>2, <2>2, <3>2 DEF Typed, FlowTyped, AtItsStage
  <2> QED
    BY <2>1, <2>2
<1>4. RunTyped' /\ ListTyped'
  BY <1>2 DEF Typed, RunTyped, ListTyped, CycleTypeOK, ListTypeOK, listVars
<1> QED
  BY <1>3, <1>4, OutsideDiskTyped DEF Typed

LEMMA InitTyped == Init => Typed
<1> SUFFICES ASSUME Init PROVE Typed
  OBVIOUS
<1>1. log \in Seq(Commit)
  <2>1. ASSUME NEW P \in SUBSET Paths, NEW c \in Contents
        PROVE  <<[tree |-> [p \in Paths |-> IF p \in P THEN c ELSE None], joins |-> FALSE, copies |-> NoCopies]>>
                  \in Seq(Commit)
    BY DEF Commit, Tree, Held, NoCopies
  <2>2. CASE log = <<>>
    BY <2>2
  <2>3. CASE log # <<>>
    <3>1. log \in {<<>>} \cup
             {<<[tree |-> [p \in Paths |-> IF p \in P THEN c ELSE None], joins |-> FALSE, copies |-> NoCopies]>>
                : P \in {Q \in SUBSET Paths : Submodules \subseteq Q /\ Cardinality(Q) <= MaxPaths}, c \in Contents}
      BY DEF Init
    <3>2. PICK P \in {Q \in SUBSET Paths : Submodules \subseteq Q /\ Cardinality(Q) <= MaxPaths}, c \in Contents :
             log = <<[tree |-> [p \in Paths |-> IF p \in P THEN c ELSE None], joins |-> FALSE, copies |-> NoCopies]>>
      BY <2>3, <3>1
    <3> QED
      BY <2>1, <3>2
  <2> QED
    BY <2>2, <2>3
<1>2. work \in Tree
  <2>1. head \in Tree
    BY <1>1, HeadTyped
  <2>2. ChangedBefore
    BY DEF Init
  <2>3. PICK q \in Paths, d \in Held : work = [head EXCEPT ![q] = d]
    BY <2>2 DEF ChangedBefore
  <2> QED
    BY <2>1, <2>3 DEF Tree
<1>3. tracked \subseteq Files
  BY DEF Init, ChangedBefore
<1>4. DiskTypeOK
  BY <1>1, <1>2, <1>3 DEF Init, DiskTypeOK, WorkingTreeTypeOK, NoCopies
<1>5. RunTyped
  BY <1>4, NoRunTyped DEF Init, RunTyped
<1>6. FlowTyped
  BY NoFlowTyped DEF Init, ListInit, FlowTyped, NoFlow
<1>7. ListTyped
  <2>1. ListInit
    BY DEF Init
  <2>2. state \in [known : BOOLEAN, merging : BOOLEAN, unborn : BOOLEAN, parents : 0..2]
    BY <2>1 DEF ListInit, FirstState
  <2> QED
    BY <2>1, <2>2, RowFlowsAssumption DEF ListInit, ListTyped, CycleTypeOK, ListTypeOK
<1> QED
  BY <1>4, <1>5, <1>6, <1>7 DEF Typed

LEMMA NextTyped == Typed /\ [Next]_vars => Typed'
<1> SUFFICES ASSUME Typed, [Next]_vars PROVE Typed'
  OBVIOUS
<1>1. CASE UNCHANGED vars
  <2>1. RunTyped' /\ ListTyped' /\ UNCHANGED <<disk, flow, before>>
    BY <1>1 DEF vars, refreshVars, listVars, flowVars, Typed, RunTyped, ListTyped, CycleTypeOK, ListTypeOK
  <2> QED
    BY <2>1, ListStepTyped
<1> QED
  BY <1>1, BeginsTyped, FlowStepsTyped, ReportTyped, AnswerTyped, EndRefreshTyped, RefreshIsDueTyped, UserChecksTyped,
     OutsideTyped DEF Next

LEMMA AlwaysTyped == Spec => []Typed
<1> QED
  BY InitTyped, NextTyped, PTL DEF Spec

(***************************************************************************)
(* The disk, the run of a refresh, the list and the flow keep their types. *)
(***************************************************************************)
THEOREM HgTypeCorrect == Spec => []TypeOK
<1> QED
  BY AlwaysTyped, TypedMeans, PTL

-------------------------------------------------------------------------------
(* Commits.  For a path nothing outside touched since the flow began, what   *)
(* each stage has of it; the two ends of a commit follow from it.            *)

Commitment(p) ==
    /\ work[p] = before.work[p]
    /\ flow.step \in {"commitRows", "commitAll", "commit"} => head[p] = before.head[p]
    /\ flow.step \in {"commitRows", "commitAll"} => (p \in tracked <=> p \in before.tracked)
    /\ flow.step = "commit" /\ flow.kind = "commit" /\ p \in flow.paths \cap Files =>
         (p \in tracked <=> before.work[p] # None /\ (p \in before.tracked \/ before.head[p] = None))
    /\ flow.step = "commit" /\ flow.kind = "merge" =>
         (p \in tracked <=> p \in before.tracked \/ (p \in flow.untracked /\ before.work[p] # None))
    /\ CommitSucceeded => HoldsAsChecked(p) \/ (flow.kind = "commit" /\ p \in flow.paths \ before.chosen)
    /\ flow.step = "report" /\ ~flow.ok /\ ~flow.lost => p \notin flow.untracked \cap tracked

CommitInv ==
    flow.kind \in {"commit", "merge"} =>
        /\ before.chosen \subseteq flow.paths
        /\ flow.step = "rollBack" => ~flow.ok
        /\ flow.kind = "merge" /\ before.merging /\ flow.step \in {"commitAll", "commit"} => merging
        /\ \A p \in Paths : Undisturbed(p) => Commitment(p)

LEMMA CommitInvMeans == Typed /\ CommitInv => CommitAddsOnlyCopies /\ FailedCommitTracksNothing
<1> SUFFICES ASSUME Typed, CommitInv PROVE CommitAddsOnlyCopies /\ FailedCommitTracksNothing
  OBVIOUS
<1>1. CommitAddsOnlyCopies
  BY DEF CommitInv, Commitment, CommitAddsOnlyCopies, CommitSucceeded, Reporting
<1>2. FailedCommitTracksNothing
  BY FlowTypedMeans DEF CommitInv, Commitment, FailedCommitTracksNothing, Reporting, Paths
<1> QED
  BY <1>1, <1>2

\* What neither touches the repository nor the flow.
LEMMA CommitKept ==
    ASSUME CommitInv, UNCHANGED <<log, work, tracked, merging, flow, before>>
    PROVE  CommitInv'
BY DEF CommitInv, Commitment, CommitSucceeded, HoldsAsChecked, Reporting, Undisturbed, head

LEMMA CommitBegins == Typed /\ Begins => CommitInv'
<1> SUFFICES ASSUME Typed, Begins, flow'.kind \in {"commit", "merge"} PROVE CommitInv'
  BY DEF CommitInv
<1>1. StartCommit
  <2>1. PlanDiscardAll => flow'.kind = "discardAll"
    BY PlanDiscardAllTyped
  <2> QED
    BY <2>1, StartsTyped DEF Begins
<1>2. before' = Noted /\ UNCHANGED disk
  BY DEF Begins
<1>3. flow'.touched = {} /\ flow'.step \in {"commitRows", "commitAll"} /\ flow'.paths = checkedPathspec
      /\ (flow'.step = "commitAll" => flow'.kind = "merge")
  BY <1>1 DEF StartCommit, Begin, NoFlow
<1>4. before'.chosen \subseteq flow'.paths
  BY <1>2, <1>3, WorkingTreeAssumption DEF Noted, checkedPathspec, Paths
<1>5. before'.work = work /\ before'.tracked = tracked /\ before'.head = head /\ before'.merging = merging
  BY <1>2 DEF Noted
<1>6. work' = work /\ tracked' = tracked /\ head' = head /\ merging' = merging
  BY <1>2 DEF disk, hgState, head
<1> QED
  BY <1>3, <1>4, <1>5, <1>6 DEF CommitInv, Commitment, CommitSucceeded, Reporting

\* A step of a commit's flow that commits nothing.
LEMMA StageKeeps ==
    ASSUME Typed, flow.kind \in {"commit", "merge"}, UNCHANGED <<log, work, merging, before>>,
           flow'.kind = flow.kind, flow'.paths = flow.paths, flow'.untracked = flow.untracked, flow'.touched = flow.touched
    PROVE  head' = head /\ \A p : Undisturbed(p)' <=> Undisturbed(p)
BY DEF head, Undisturbed

\* Fields a step of a flow leaves.
LEMMA SameFlow ==
    ASSUME flow \in Flow
    PROVE  /\ \A s : flow' = [flow EXCEPT !.step = s] =>
                 /\ flow'.step = s /\ flow'.kind = flow.kind /\ flow'.paths = flow.paths /\ flow'.untracked = flow.untracked
                 /\ flow'.touched = flow.touched /\ flow'.ok = flow.ok
           /\ \A l : flow' = [flow EXCEPT !.step = "report", !.lost = l] =>
                 /\ flow'.step = "report" /\ flow'.kind = flow.kind /\ flow'.paths = flow.paths
                 /\ flow'.untracked = flow.untracked /\ flow'.touched = flow.touched /\ flow'.ok = flow.ok /\ flow'.lost = l
           /\ \A ok : flow' = RollBackThenReport(flow, ok) =>
                 /\ flow'.step = (IF ok \/ flow.untracked = {} THEN "report" ELSE "rollBack")
                 /\ flow'.kind = flow.kind /\ flow'.paths = flow.paths /\ flow'.untracked = flow.untracked
                 /\ flow'.touched = flow.touched /\ flow'.ok = ok
BY DEF Flow, RollBackThenReport

LEMMA AddRemoveCommits == Typed /\ CommitInv /\ AddRemove => CommitInv'
<1> SUFFICES ASSUME Typed, CommitInv, AddRemove PROVE CommitInv'
  OBVIOUS
<1> USE FlowTypedMeans
<1>1. flow.step = "commitRows" /\ flow.kind = "commit"
  BY DEF AddRemove, At, AtItsStage, CommitStages, MergeStages, OtherStages, Flow
<1>2. UNCHANGED <<log, work, merging, before>>
  BY DEF AddRemove, Untouched, DirstateBecomes, KeepList, disk
<1>3. CASE GoOn("commit") /\ (\/ flow.paths \cap Files = {} /\ Untouched
                              \/ DirstateBecomes(FilesToTrack))
  <2>1. /\ flow'.step = "commit" /\ flow'.kind = flow.kind /\ flow'.paths = flow.paths
        /\ flow'.untracked = flow.untracked /\ flow'.touched = flow.touched
    BY <1>3, SameFlow DEF GoOn
  <2>2. head' = head /\ \A p : Undisturbed(p)' <=> Undisturbed(p)
    BY <1>1, <1>2, <2>1, StageKeeps
  <2>3. ASSUME NEW p \in Paths, Undisturbed(p) PROVE Commitment(p)'
    <3>1. Commitment(p)
      BY <1>1, <2>3 DEF CommitInv
    <3>2. ASSUME p \in flow.paths \cap Files
          PROVE  p \in tracked' <=> before.work[p] # None /\ (p \in before.tracked \/ before.head[p] = None)
      BY <1>1, <1>3, <3>1, <3>2 DEF Commitment, DirstateBecomes, FilesToTrack, AfterAddRemove, IsUnknown, IsMissing
    <3> QED
      BY <1>1, <1>2, <2>1, <2>2, <3>1, <3>2 DEF Commitment, CommitSucceeded, Reporting
  <2> QED
    BY <1>1, <1>2, <2>1, <2>2, <2>3 DEF CommitInv
<1>4. CASE flow' = RollBackThenReport(flow, FALSE)
  <2>1. /\ flow'.step = (IF flow.untracked = {} THEN "report" ELSE "rollBack") /\ flow'.kind = flow.kind
        /\ flow'.paths = flow.paths /\ flow'.untracked = flow.untracked /\ flow'.touched = flow.touched /\ flow'.ok = FALSE
    BY <1>4, SameFlow
  <2>2. head' = head /\ \A p : Undisturbed(p)' <=> Undisturbed(p)
    BY <1>1, <1>2, <2>1, StageKeeps
  <2> QED
    BY <1>1, <1>2, <2>1, <2>2 DEF CommitInv, Commitment, CommitSucceeded, Reporting
<1> QED
  BY <1>3, <1>4 DEF AddRemove

LEMMA AddUntrackedCommits == Typed /\ CommitInv /\ AddUntracked => CommitInv'
<1> SUFFICES ASSUME Typed, CommitInv, AddUntracked PROVE CommitInv'
  OBVIOUS
<1> USE FlowTypedMeans
<1>1. flow.step = "commitAll" /\ flow.kind = "merge"
  BY DEF AddUntracked, At, AtItsStage, CommitStages, MergeStages, OtherStages, Flow
<1>2. UNCHANGED <<log, work, merging, before>>
  BY DEF AddUntracked, Untouched, DirstateBecomes, KeepList, disk
<1>3. CASE GoOn("commit") /\ (\/ flow.untracked = {} /\ Untouched
                              \/ DirstateBecomes(AfterAdd(flow.untracked)))
  <2>1. /\ flow'.step = "commit" /\ flow'.kind = flow.kind /\ flow'.paths = flow.paths
        /\ flow'.untracked = flow.untracked /\ flow'.touched = flow.touched
    BY <1>3, SameFlow DEF GoOn
  <2>2. head' = head /\ \A p : Undisturbed(p)' <=> Undisturbed(p)
    BY <1>1, <1>2, <2>1, StageKeeps
  <2>3. ASSUME NEW p \in Paths, Undisturbed(p) PROVE Commitment(p)'
    <3>1. Commitment(p)
      BY <1>1, <2>3 DEF CommitInv
    <3>2. p \in tracked' <=> p \in before.tracked \/ (p \in flow.untracked /\ before.work[p] # None)
      BY <1>1, <1>3, <3>1 DEF Commitment, DirstateBecomes, AfterAdd, Untouched, disk, hgState
    <3> QED
      BY <1>1, <1>2, <2>1, <2>2, <3>1, <3>2 DEF Commitment, CommitSucceeded, Reporting
  <2> QED
    BY <1>1, <1>2, <2>1, <2>2, <2>3 DEF CommitInv
<1>4. CASE flow' = RollBackThenReport(flow, FALSE)
  <2>1. /\ flow'.step = (IF flow.untracked = {} THEN "report" ELSE "rollBack") /\ flow'.kind = flow.kind
        /\ flow'.paths = flow.paths /\ flow'.untracked = flow.untracked /\ flow'.touched = flow.touched /\ flow'.ok = FALSE
    BY <1>4, SameFlow
  <2>2. head' = head /\ \A p : Undisturbed(p)' <=> Undisturbed(p)
    BY <1>1, <1>2, <2>1, StageKeeps
  <2> QED
    BY <1>1, <1>2, <2>1, <2>2 DEF CommitInv, Commitment, CommitSucceeded, Reporting
<1> QED
  BY <1>3, <1>4 DEF AddUntracked

\* The last commit once another is made.
LEMMA HeadAfter ==
    ASSUME log \in Seq(Commit), NEW t, NEW c, log' = Committed(t, c)
    PROVE  head' = t
<1>1. PICK x : x = [tree |-> t, joins |-> merging, copies |-> c]
  OBVIOUS
<1>2. log' = Append(log, x)
  BY <1>1 DEF Committed
<1>3. Len(log') = Len(log) + 1 /\ log'[Len(log) + 1] = x /\ log' # <<>>
  BY <1>2
<1> QED
  BY <1>1, <1>3 DEF head

\* What the commit of a flow holds of a path nothing else touched.
LEMMA CommitHolds ==
    ASSUME Typed, CommitInv, At("commit"), flow.kind \in {"commit", "merge"}, NEW p \in Paths, Undisturbed(p),
           flow.kind = "commit" => CanCommitNamed(flow.paths), flow.kind = "merge" => CanCommitAll,
           before.merging = (flow.kind = "merge"), NEW h, h = AfterCommit(IF flow.kind = "merge" THEN Paths ELSE flow.paths)
    PROVE  \/ h[p] = IF flow.kind = "commit" /\ p \notin before.chosen THEN before.head[p]
                     ELSE IF p \in Submodules \cup before.tracked THEN before.work[p]
                     ELSE IF IF flow.kind = "commit" THEN before.head[p] = None ELSE p \in flow.untracked THEN before.work[p]
                     ELSE None
           \/ flow.kind = "commit" /\ p \in flow.paths \ before.chosen
<1> USE FlowTypedMeans
<1>1. Commitment(p) /\ before.chosen \subseteq flow.paths /\ before.tracked \subseteq Files
  BY FlowUnderway DEF CommitInv, At, Snapshot
<1>2. Files \cap Submodules = {}
  BY WorkingTreeAssumption
<1>3. CASE flow.kind = "commit"
  <2>1. h[p] = IF p \notin flow.paths \/ (p \in Files /\ IsMissing(p)) THEN head[p]
               ELSE IF p \in Files \ tracked THEN None ELSE work[p]
    BY <1>3 DEF AfterCommit
  <2>2. p \in flow.paths \cap Files => (p \in tracked \/ IsRemoved(p)) /\ ~IsMissing(p)
    BY <1>3 DEF CanCommitNamed
  <2> QED
    BY <1>1, <1>2, <1>3, <2>1, <2>2 DEF Commitment, At, Paths, IsMissing, IsRemoved
<1>4. CASE flow.kind = "merge"
  <2>1. h[p] = IF p \in Files /\ IsMissing(p) THEN head[p] ELSE IF p \in Files \ tracked THEN None ELSE work[p]
    BY <1>4 DEF AfterCommit
  <2>2. merging
    BY <1>4 DEF CommitInv, At
  <2>3. p \in Files => ~IsMissing(p)
    BY <1>4, <2>2 DEF CanCommitAll
  <2> QED
    BY <1>1, <1>2, <1>4, <2>1, <2>3 DEF Commitment, At, Paths
<1> QED
  BY <1>3, <1>4

LEMMA RunCommitCommits == Typed /\ CommitInv /\ RunCommit => CommitInv'
<1> SUFFICES ASSUME Typed, CommitInv, RunCommit PROVE CommitInv'
  OBVIOUS
<1> USE FlowTypedMeans
<1>1. flow.step = "commit" /\ flow.kind \in {"commit", "merge"} /\ At("commit")
  BY DEF RunCommit, At, AtItsStage, CommitStages, MergeStages, OtherStages, Flow
<1>2. PICK ok \in BOOLEAN :
         /\ flow' = RollBackThenReport(flow, ok)
         /\ IF ok THEN /\ IF flow.kind = "merge" THEN CanCommitAll ELSE CanCommitNamed(flow.paths)
                       /\ Commits(IF flow.kind = "merge" THEN Paths ELSE flow.paths)
                  ELSE Untouched
  BY DEF RunCommit, Try
<1>3. before' = before /\ work' = work
  BY <1>2 DEF RunCommit, KeepList, Commits, Untouched, disk
<1>4. /\ flow'.kind = flow.kind /\ flow'.paths = flow.paths /\ flow'.untracked = flow.untracked
      /\ flow'.touched = flow.touched /\ flow'.ok = ok
      /\ flow'.step = (IF ok \/ flow.untracked = {} THEN "report" ELSE "rollBack")
  BY <1>2, SameFlow
<1>5. \A p : Undisturbed(p)' <=> Undisturbed(p)
  BY <1>4 DEF Undisturbed
<1>6. CASE ~ok
  <2>1. head' = head /\ tracked' = tracked
    BY <1>2, <1>6 DEF Untouched, disk, hgState, head
  <2> QED
    BY <1>1, <1>3, <1>4, <1>5, <1>6, <2>1 DEF CommitInv, Commitment, CommitSucceeded, Reporting
<1>7. CASE ok
  <2>1. PICK h, c : h = AfterCommit(IF flow.kind = "merge" THEN Paths ELSE flow.paths) /\ log' = Committed(h, c)
    BY <1>2, <1>7 DEF Commits
  <2>2. head' = h
    BY <2>1, HeadAfter DEF DiskTypeOK, WorkingTreeTypeOK
  <2>3. ASSUME NEW p \in Paths, Undisturbed(p) PROVE Commitment(p)'
    <3>1. work[p] = before.work[p]
      BY <1>1, <2>3 DEF CommitInv, Commitment
    <3>2. CommitSucceeded' => HoldsAsChecked(p)' \/ (flow.kind = "commit" /\ p \in flow.paths \ before.chosen)
      BY <1>1, <1>2, <1>3, <1>4, <1>7, <2>1, <2>2, <2>3, CommitHolds DEF CommitSucceeded, HoldsAsChecked
    <3> QED
      BY <1>1, <1>3, <1>4, <1>7, <3>1, <3>2 DEF Commitment
  <2> QED
    BY <1>1, <1>3, <1>4, <1>5, <1>7, <2>3 DEF CommitInv
<1> QED
  BY <1>6, <1>7

LEMMA RollBackCommits == Typed /\ CommitInv /\ RollBackAdd => CommitInv'
<1> SUFFICES ASSUME Typed, CommitInv, RollBackAdd PROVE CommitInv'
  OBVIOUS
<1> USE FlowTypedMeans
<1>1. flow.step = "rollBack" /\ flow.kind \in {"commit", "merge"}
  BY DEF RollBackAdd, At, AtItsStage, CommitStages, MergeStages, OtherStages, Flow
<1>2. UNCHANGED <<log, work, merging, before>>
  BY DEF RollBackAdd, Untouched, DirstateBecomes, KeepList, disk
<1>3. PICK l : flow' = [flow EXCEPT !.step = "report", !.lost = l] /\ (l \/ DirstateBecomes(AfterForget(flow.untracked)))
  BY DEF RollBackAdd
<1>4. /\ flow'.step = "report" /\ flow'.kind = flow.kind /\ flow'.paths = flow.paths
      /\ flow'.untracked = flow.untracked /\ flow'.touched = flow.touched /\ flow'.ok = flow.ok /\ flow'.lost = l
  BY <1>3, SameFlow
<1>5. head' = head /\ \A p : Undisturbed(p)' <=> Undisturbed(p)
  BY <1>1, <1>2, <1>4, StageKeeps
<1>6. l \/ tracked' \cap flow.untracked = {}
  BY <1>3 DEF DirstateBecomes, AfterForget
<1>7. ~flow.ok
  BY <1>1 DEF CommitInv
<1> QED
  BY <1>1, <1>2, <1>4, <1>5, <1>6, <1>7 DEF CommitInv, Commitment, CommitSucceeded, Reporting

LEMMA OutsideCommits == Typed /\ CommitInv /\ OutsideActions => CommitInv'
<1> SUFFICES ASSUME Typed, CommitInv, OutsideActions PROVE CommitInv'
  OBVIOUS
<1> SUFFICES ASSUME flow.kind \in {"commit", "merge"} PROVE CommitInv'
  <2>1. PICK P \in SUBSET Paths : OutsideChanges(P)
    BY OutsideTouches
  <2>2. flow'.kind = flow.kind
    BY <2>1, FlowTypedMeans DEF OutsideChanges, Touch, Flow
  <2> QED
    BY <2>2 DEF CommitInv
<1> USE FlowTypedMeans
<1>1. PICK P \in SUBSET Paths : /\ OutsideChanges(P)
                                /\ \A p \in Paths \ P : work'[p] = work[p] /\ (p \in tracked' <=> p \in tracked)
                                /\ merging => merging'
  <2>1. CASE \E p \in Paths, c \in Held : OutsideEdit(p, c)
    <3>1. PICK p \in Paths, c \in Held : OutsideEdit(p, c)
      BY <2>1
    <3> QED
      BY <3>1 DEF OutsideEdit, hgState, Tree
  <2>2. CASE \E s \in Submodules, v \in {"Clean", "Untracked", "DirtyTracked"} : OutsideInside(s, v)
    <3>1. PICK s \in Submodules, v \in {"Clean", "Untracked", "DirtyTracked"} : OutsideInside(s, v)
      BY <2>2
    <3> QED
      BY <3>1 DEF OutsideInside, hgState, Paths
  <2>3. CASE \E p \in Files : OutsideTrack(p)
    <3>1. PICK p \in Files : OutsideTrack(p)
      BY <2>3
    <3> QED
      BY <3>1 DEF OutsideTrack, Paths
  <2>4. ASSUME NEW p \in Files, NEW q \in Files, NEW keep \in BOOLEAN, OutsideCopy(p, q, keep)
        PROVE  /\ OutsideChanges({p, q}) /\ {p, q} \in SUBSET Paths
               /\ \A r \in Paths \ {p, q} : work'[r] = work[r] /\ (r \in tracked' <=> r \in tracked)
               /\ merging => merging'
    BY <2>4 DEF OutsideCopy, Tree, Paths
  <2>5. ASSUME NEW R \in SUBSET Files, NEW Q \in SUBSET Files, NEW c \in Contents, OutsideMerge(R, Q, c)
        PROVE  /\ OutsideChanges(R \cup Q) /\ R \cup Q \in SUBSET Paths
               /\ \A p \in Paths \ (R \cup Q) : work'[p] = work[p] /\ (p \in tracked' <=> p \in tracked)
               /\ merging => merging'
    BY <2>5 DEF OutsideMerge, Paths
  <2> QED
    BY <2>1, <2>2, <2>3, <2>4, <2>5 DEF OutsideActions
<1>2. flow' = [flow EXCEPT !.touched = flow.touched \cup P] /\ before' = before /\ head' = head
  BY <1>1 DEF OutsideChanges, Touch, head
<1>3. /\ flow'.step = flow.step /\ flow'.kind = flow.kind /\ flow'.paths = flow.paths /\ flow'.untracked = flow.untracked
      /\ flow'.ok = flow.ok /\ flow'.lost = flow.lost /\ flow'.touched = flow.touched \cup P
  BY <1>2 DEF Flow
<1>4. ASSUME NEW p \in Paths, Undisturbed(p)' PROVE Commitment(p)'
  <2>1. Undisturbed(p) /\ p \notin P
    BY <1>3, <1>4 DEF Undisturbed
  <2>2. Commitment(p)
    BY <2>1 DEF CommitInv
  <2>3. work'[p] = work[p] /\ (p \in tracked' <=> p \in tracked)
    BY <1>1, <2>1
  <2> QED
    BY <1>2, <1>3, <2>2, <2>3 DEF Commitment, CommitSucceeded, HoldsAsChecked, Reporting
<1> QED
  BY <1>1, <1>2, <1>3, <1>4 DEF CommitInv

LEMMA OthersCommitNothing ==
    ASSUME Typed, CommitInv, FlowSteps, ~AddRemove, ~AddUntracked, ~RunCommit, ~RollBackAdd
    PROVE  CommitInv'
<1>1. flow.step \in Elsewhere
  BY DEF FlowSteps, RevertRows, RevertAll, UnAdd, AddToIndex, MarkResolved, MoveFilesToTrash, MoveToTrash, Undo,
         AbortOperation, At, Elsewhere
<1>2. flow.kind \notin {"commit", "merge"}
  BY <1>1, OtherStep DEF OtherKinds
<1>3. flow' = NoFlow \/ flow'.kind = flow.kind
  <2>1. \/ \E ok \in BOOLEAN : Ended(ok)
        \/ \E s \in {"unAdd", "trash"} : GoOn(s)
        \/ flow' = NoFlow
    BY <1>1 DEF FlowSteps, RevertRows, RevertAll, UnAdd, AddToIndex, MarkResolved, MoveFilesToTrash, MoveToTrash, Undo,
                AbortOperation, AfterRestore, AfterUnAdd
  <2> QED
    BY <2>1, FlowTypedMeans DEF Ended, GoOn, Flow
<1> QED
  BY <1>2, <1>3 DEF CommitInv, NoFlow

LEMMA NextCommits == Typed /\ CommitInv /\ [Next]_vars => CommitInv'
<1> SUFFICES ASSUME Typed, CommitInv, [Next]_vars PROVE CommitInv'
  OBVIOUS
<1>1. CASE FlowSteps
  BY <1>1, AddRemoveCommits, AddUntrackedCommits, RunCommitCommits, RollBackCommits, OthersCommitNothing
<1>2. CASE Report(NewRun)
  BY <1>2 DEF Report, CommitInv, NoFlow
<1>3. CASE \/ Answer \/ EndRefresh \/ UNCHANGED vars
           \/ (RefreshIsDue(NewRun) /\ UNCHANGED disk) \/ (UserChecks /\ UNCHANGED disk)
  <2>1. UNCHANGED <<disk, flow, before>>
    BY <1>3 DEF Answer, EndRefresh, TakeRows, RefreshIsDue, UserChecks, vars, flowVars
  <2> QED
    BY <2>1, CommitKept DEF disk, hgState
<1> QED
  BY <1>1, <1>2, <1>3, CommitBegins, OutsideCommits DEF Next

LEMMA AlwaysCommits == Spec => []CommitInv
<1>1. Init => CommitInv
  BY DEF Init, ListInit, CommitInv, NoFlow
<1> QED
  BY <1>1, NextCommits, AlwaysTyped, PTL DEF Spec

(***************************************************************************)
(* Whatever fails, is refreshed or changed outside at other paths while a  *)
(* commit runs, a commit that succeeded holds the checked rows as they     *)
(* were on disk when it began and, path by path, nothing else that its     *)
(* parent did not, but for the name a checked file was copied from.        *)
(***************************************************************************)
THEOREM CommitsCheckedRows == Spec => []CommitAddsOnlyCopies
<1> QED
  BY AlwaysTyped, AlwaysCommits, CommitInvMeans, PTL

(***************************************************************************)
(* A commit that failed, at whichever step and however far `hg add` had    *)
(* come, leaves no untracked file tracked, unless forgetting it failed.    *)
(***************************************************************************)
THEOREM NothingLeftTracked == Spec => []FailedCommitTracksNothing
<1> QED
  BY AlwaysTyped, AlwaysCommits, CommitInvMeans, PTL

-------------------------------------------------------------------------------
(* The rows.  What a run has read is so while nothing changes the disk, and  *)
(* a step that changes it marks what is listed as moved.                     *)

\* Only what is tracked has a source, and a mergestate that is not there lists no conflict.
DiskHeld ==
    /\ \A p \in Files : source[p] # None => p \in tracked
    /\ mergestate \/ unresolved = {}

RunTruth ==
    /\ run.round = 0 => run.asked = {} /\ run.subs = {}
    /\ run.round = 1 /\ ~moved =>
         /\ \A s \in Submodules : run.recorded[s] = head[s]
         /\ run.failed \/ "status" \in run.asked \/ run.changes = parseStatus
         /\ run.failed \/ "wdir" \in run.asked \/ run.merging = merging
         /\ run.blind \/ "resolve" \in run.asked \/ run.conflicted = unresolved
         /\ \A s \in DOMAIN run.content : run.content[s] \in {inside[s], "Unknown"}
         /\ \A s \in DOMAIN run.nodes : run.nodes[s] = work[s]

RowsInv == DiskHeld /\ RunTruth /\ RowsTellTheTruth

\* The steps that leave the run and the rows: one that changes the disk says so.
Quiet ==
    /\ UNCHANGED <<run, state, rows>>
    /\ moved' = TRUE \/ UNCHANGED <<disk, moved>>

LEMMA DiskKept ==
    ASSUME UNCHANGED disk
    PROVE  /\ DiskHeld => DiskHeld'
           /\ head' = head /\ parseStatus' = parseStatus
           /\ UNCHANGED <<log, work, inside, merging, tracked, source, unresolved, mergestate>>
<1>1. UNCHANGED <<log, work, inside, merging, tracked, source, unresolved, mergestate>>
  BY DEF disk, hgState
<1>2. head' = head
  BY <1>1 DEF head
<1>3. \A p : /\ IsRemoved(p)' <=> IsRemoved(p)
             /\ ChangedFile(p)' <=> ChangedFile(p)
             /\ ChangeType(p)' = ChangeType(p)
  BY <1>1, <1>2 DEF ChangedFile, ChangeType, IsMissing, IsAdded, IsModified, IsUnknown, IsRemoved
<1>4. parseStatus' = parseStatus
  BY <1>1, <1>3 DEF parseStatus
<1> QED
  BY <1>1, <1>2, <1>4 DEF DiskHeld

LEMMA QuietKeeps == RunTruth /\ RowsTellTheTruth /\ Quiet => RunTruth' /\ RowsTellTheTruth'
<1> SUFFICES ASSUME RunTruth, RowsTellTheTruth, Quiet PROVE RunTruth' /\ RowsTellTheTruth'
  OBVIOUS
<1>1. CASE moved' = TRUE
  BY <1>1 DEF RunTruth, RowsTellTheTruth, Quiet
<1>2. CASE UNCHANGED <<disk, moved>>
  <2>1. head' = head /\ parseStatus' = parseStatus
        /\ UNCHANGED <<log, work, inside, merging, tracked, source, unresolved, mergestate>>
    BY <1>2, DiskKept
  <2>2. RunTruth'
    BY <1>2, <2>1 DEF RunTruth, Quiet
  <2>3. RowsTellTheTruth'
    BY <1>2, <2>1
       DEF RowsTellTheTruth, Quiet, ChangedFile, IsMissing, IsAdded, IsModified, IsUnknown, IsRemoved, MovedSubrepo,
           unresolvedConflictPaths
  <2> QED
    BY <2>2, <2>3
<1> QED
  BY <1>1, <1>2 DEF Quiet

LEMMA DirstateHolds == \A t : DiskHeld /\ DirstateBecomes(t) => DiskHeld'
BY DEF DiskHeld, DirstateBecomes, Without

LEMMA RevertHolds == \A P : DiskHeld /\ Revert(P) => DiskHeld'
BY DEF DiskHeld, Revert, Without, AfterRevert

LEMMA FlowStepsQuiet == Typed /\ DiskHeld /\ FlowSteps => DiskHeld' /\ Quiet
<1> SUFFICES ASSUME Typed, DiskHeld, FlowSteps PROVE DiskHeld' /\ Quiet
  OBVIOUS
<1>1. Untouched => DiskHeld' /\ UNCHANGED <<disk, moved>>
  BY DiskKept DEF Untouched
<1>2. \A t : DirstateBecomes(t) => DiskHeld' /\ moved' = TRUE
  BY DirstateHolds DEF DirstateBecomes
<1>3. \A P : Revert(P) => DiskHeld' /\ moved' = TRUE
  BY RevertHolds DEF Revert
<1>4. CASE AddRemove \/ AddUntracked
  BY <1>1, <1>2, <1>4 DEF AddRemove, AddUntracked, Quiet, KeepRefresh, KeepList, KeepSettled, listVars
<1>5. CASE RunCommit
  <2>1. \A P : Commits(P) => DiskHeld' /\ moved' = TRUE
    BY DEF Commits, DiskHeld, Without
  <2> QED
    BY <1>1, <1>5, <2>1 DEF RunCommit, Quiet, KeepRefresh, KeepList, KeepSettled, listVars
<1>6. CASE RollBackAdd \/ UnAdd \/ AddToIndex
  BY <1>1, <1>2, <1>6 DEF RollBackAdd, UnAdd, AddToIndex, Quiet, KeepRefresh, KeepList, KeepSettled, listVars
<1>7. CASE RevertRows \/ RevertAll
  BY <1>1, <1>3, <1>7 DEF RevertRows, RevertAll, Quiet, KeepRefresh, KeepList, KeepSettled, listVars
<1>8. CASE MarkResolved
  BY <1>8 DEF MarkResolved, DiskHeld, Quiet, KeepRefresh, KeepList, KeepSettled, listVars
<1>9. CASE MoveFilesToTrash
  BY <1>9 DEF MoveFilesToTrash, MoveToTrash, DiskHeld, hgState, Quiet, KeepRefresh, KeepList, KeepSettled, listVars
<1>10. CASE Undo
  <2>1. CASE Untouched
    BY <1>1, <1>10, <2>1 DEF Undo, Quiet, KeepRefresh, KeepList, KeepSettled, listVars
  <2>2. CASE /\ source' = [p \in Files |-> IF p \in tracked /\ source[p] = None THEN log[Len(log)].copies[p] ELSE source[p]]
             /\ moved' = TRUE /\ UNCHANGED <<tracked, unresolved, mergestate>>
    BY <1>10, <2>2 DEF Undo, DiskHeld, Quiet, KeepRefresh, KeepList, KeepSettled, listVars
  <2> QED
    BY <1>10, <2>1, <2>2 DEF Undo
<1>11. CASE AbortOperation
  <2>1. CASE Untouched
    BY <1>1, <1>11, <2>1 DEF AbortOperation, Quiet, KeepRefresh, KeepList, KeepSettled, listVars
  <2>2. CASE source' = NoCopies /\ unresolved' = {} /\ moved' = TRUE
    BY <1>11, <2>2 DEF AbortOperation, DiskHeld, NoCopies, Quiet, KeepRefresh, KeepList, KeepSettled, listVars
  <2> QED
    BY <1>11, <2>1, <2>2 DEF AbortOperation
<1> QED
  BY <1>4, <1>5, <1>6, <1>7, <1>8, <1>9, <1>10, <1>11 DEF FlowSteps

LEMMA OutsideQuiet == Typed /\ DiskHeld /\ OutsideActions => DiskHeld' /\ Quiet
<1> SUFFICES ASSUME Typed, DiskHeld, OutsideActions PROVE DiskHeld' /\ Quiet
  OBVIOUS
<1>1. Quiet
  <2>1. PICK P \in SUBSET Paths : OutsideChanges(P)
    BY OutsideTouches
  <2> QED
    BY <2>1 DEF OutsideChanges, Touch, KeepRefresh, listVars, Quiet
<1>2. CASE \E p \in Paths, c \in Held : OutsideEdit(p, c)
  BY <1>1, <1>2 DEF OutsideEdit, DiskHeld, hgState
<1>3. CASE \E s \in Submodules, v \in {"Clean", "Untracked", "DirtyTracked"} : OutsideInside(s, v)
  BY <1>1, <1>3 DEF OutsideInside, DiskHeld, hgState
<1>4. CASE \E p \in Files : OutsideTrack(p)
  BY <1>1, <1>4 DEF OutsideTrack, DiskHeld, Without
<1>5. ASSUME NEW p \in Files, NEW q \in Files, NEW keep \in BOOLEAN, OutsideCopy(p, q, keep)
      PROVE  DiskHeld'
  <2>1. source \in [Files -> Files \cup {None}]
    BY DEF Typed, DiskTypeOK
  <2> QED
    BY <1>5, <2>1 DEF OutsideCopy, DiskHeld
<1>6. ASSUME NEW P \in SUBSET Files, NEW Q \in SUBSET Files, NEW c \in Contents, OutsideMerge(P, Q, c)
      PROVE  DiskHeld'
  BY <1>6 DEF OutsideMerge, DiskHeld
<1> QED
  BY <1>1, <1>2, <1>3, <1>4, <1>5, <1>6 DEF OutsideActions

\* A run that begins has read what the last commit records, and nothing else.
LEMMA RunBegins ==
    ASSUME DiskHeld, UNCHANGED disk, run' = NewRun
    PROVE  RunTruth' /\ RowsTellTheTruth'
<1>1. NewRun.round = 1 /\ NewRun.recorded = [s \in Submodules |-> head[s]] /\ {"status", "wdir"} \subseteq NewRun.asked
      /\ (mergestate => "resolve" \in NewRun.asked) /\ NewRun.conflicted = {} /\ DOMAIN NewRun.content = {}
      /\ DOMAIN NewRun.nodes = {}
  BY DEF NewRun, NoRun
<1>2. head' = head /\ unresolved' = unresolved
  BY DiskKept
<1> QED
  BY <1>1, <1>2 DEF RunTruth, RowsTellTheTruth, DiskHeld

LEMMA AnswerQueryTruth ==
    ASSUME Typed, RunTruth, UNCHANGED <<disk, moved>>, NEW q \in run.asked, NEW ok \in BOOLEAN, AnswerQuery(q, ok)
    PROVE  RunTruth' /\ run'.round = run.round
<1> DEFINE r == [run EXCEPT !.asked = run.asked \ {q}]
<1>1. run \in RefreshRun /\ Rounds(run) /\ q \in {"status", "wdir", "resolve"}
  BY DEF Typed, RunTyped, RefreshRun
<1>2. /\ r.round = run.round /\ r.recorded = run.recorded /\ r.content = run.content /\ r.subs = run.subs
      /\ r.nodes = run.nodes /\ r.failed = run.failed /\ r.blind = run.blind /\ r.changes = run.changes
      /\ r.merging = run.merging /\ r.conflicted = run.conflicted /\ r.asked = run.asked \ {q} /\ r \in RefreshRun
  BY <1>1 DEF RefreshRun
<1>3. PICK n, b : n = parentCount /\ b = (log = <<>>)
  OBVIOUS
<1>4. \/ q # "resolve" /\ run' = [r EXCEPT !.failed = TRUE]
      \/ q = "resolve" /\ run' = [r EXCEPT !.blind = TRUE]
      \/ q = "status" /\ run' = [r EXCEPT !.changes = parseStatus]
      \/ q = "wdir" /\ run' = [r EXCEPT !.merging = merging, !.parents = n, !.unborn = b]
      \/ q = "resolve" /\ run' = [r EXCEPT !.conflicted = unresolved]
  BY <1>1, <1>3 DEF AnswerQuery
<1>5. run.round = 1
  BY <1>1 DEF RunTruth, RefreshRun
<1> HIDE DEF r
<1>6. /\ run'.round = 1 /\ run'.recorded = r.recorded /\ run'.content = r.content /\ run'.nodes = r.nodes
      /\ run'.asked = r.asked
      /\ run'.failed \/ (/\ run'.failed = r.failed
                         /\ run'.changes = (IF q = "status" THEN parseStatus ELSE r.changes)
                         /\ run'.merging = (IF q = "wdir" THEN merging ELSE r.merging))
      /\ run'.blind \/ (/\ run'.blind = r.blind
                        /\ run'.conflicted = (IF q = "resolve" THEN unresolved ELSE r.conflicted))
  <2>1. CASE run' \in {[r EXCEPT !.failed = TRUE], [r EXCEPT !.blind = TRUE]}
    BY <1>2, <1>4, <1>5, <2>1 DEF RefreshRun
  <2>2. CASE q = "status" /\ run' = [r EXCEPT !.changes = parseStatus]
    BY <1>2, <1>5, <2>2 DEF RefreshRun
  <2>3. CASE q = "wdir" /\ run' = [r EXCEPT !.merging = merging, !.parents = n, !.unborn = b]
    BY <1>2, <1>5, <2>3 DEF RefreshRun
  <2>4. CASE q = "resolve" /\ run' = [r EXCEPT !.conflicted = unresolved]
    BY <1>2, <1>5, <2>4 DEF RefreshRun
  <2> QED
    BY <1>4, <2>1, <2>2, <2>3, <2>4
<1>7. head' = head /\ parseStatus' = parseStatus /\ UNCHANGED <<work, inside, merging, unresolved>>
  BY DiskKept
<1> QED
  BY <1>1, <1>2, <1>5, <1>6, <1>7 DEF RunTruth

LEMMA AnswerSubrepoTruth ==
    ASSUME Typed, RunTruth, UNCHANGED <<disk, moved>>, NEW q \in run.subs, NEW ok \in BOOLEAN, AnswerSubrepo(q, ok)
    PROVE  RunTruth' /\ run'.round = run.round
<1> DEFINE s == q.of
           r == [run EXCEPT !.subs = run.subs \ {q}]
           u == IF ok THEN inside[s] ELSE "Unknown"
           c == [t \in DOMAIN run.content \cup {s} |-> IF t = s THEN u ELSE run.content[t]]
           n == [t \in DOMAIN run.nodes \cup {s} |-> IF t = s THEN work[s] ELSE run.nodes[t]]
<1>1. run \in RefreshRun /\ q \in SubQueries
  BY DEF Typed, RunTyped, RefreshRun
<1>2. /\ r.round = run.round /\ r.recorded = run.recorded /\ r.content = run.content
      /\ r.nodes = run.nodes /\ r.failed = run.failed /\ r.blind = run.blind /\ r.changes = run.changes
      /\ r.merging = run.merging /\ r.conflicted = run.conflicted /\ r.asked = run.asked /\ r \in RefreshRun
  BY <1>1 DEF RefreshRun
<1>3. run' \in {r, [r EXCEPT !.content = c], [r EXCEPT !.nodes = n]}
  BY <1>1 DEF AnswerSubrepo, SubQueries
<1>4. run.round = 1
  BY <1>1 DEF RunTruth, RefreshRun
<1>5. head' = head /\ parseStatus' = parseStatus /\ UNCHANGED <<work, inside, merging, unresolved>>
  BY DiskKept
<1>6. ASSUME ~moved
      PROVE  /\ \A t \in DOMAIN c : c[t] \in {inside[t], "Unknown"}
             /\ \A t \in DOMAIN n : n[t] = work[t]
  BY <1>4, <1>6 DEF RunTruth
<1> HIDE DEF s, r, u, c, n
<1>7. /\ run'.round = 1 /\ run'.recorded = r.recorded /\ run'.failed = r.failed /\ run'.blind = r.blind
      /\ run'.changes = r.changes /\ run'.merging = r.merging /\ run'.conflicted = r.conflicted /\ run'.asked = r.asked
      /\ run'.content \in {r.content, c} /\ run'.nodes \in {r.nodes, n}
  BY <1>2, <1>3, <1>4 DEF RefreshRun
<1> QED
  BY <1>2, <1>4, <1>5, <1>6, <1>7 DEF RunTruth

LEMMA AnswerRows == Typed /\ RowsInv /\ Answer => RowsInv'
<1> SUFFICES ASSUME Typed, RowsInv, Answer PROVE RowsInv'
  OBVIOUS
<1>1. UNCHANGED <<disk, moved>>
  BY DEF Answer
<1>2. RunTruth' /\ run'.round = run.round
  BY <1>1, AnswerQueryTruth, AnswerSubrepoTruth DEF Answer, RowsInv
<1>3. run.round # 0
  BY DEF Answer, RowsInv, RunTruth
<1> QED
  BY <1>1, <1>2, <1>3, DiskKept DEF RowsInv, RowsTellTheTruth

-------------------------------------------------------------------------------
(* What a list says that was read from a disk that stood still.              *)

\* Every answer is in, none failed, and nothing moved.
ReadWell ==
    /\ run.changes = parseStatus /\ run.conflicted = unresolved
    /\ \A s \in Submodules : /\ run.recorded[s] = head[s]
                             /\ run.content[s] \in {inside[s], "Unknown"}
                             /\ s \in DOMAIN run.nodes => run.nodes[s] = work[s]

\* A file's row.
LEMMA FileRows ==
    ASSUME DiskTypeOK, DiskHeld, ReadWell, NEW R, R = filesFromRun(run)
    PROVE  /\ \A e \in R : e.path \in Files => /\ ChangedFile(e.path) \/ e.path \in unresolved
                                               /\ e.was # None => e.was = source[e.path]
                                               /\ e.type = "Conflicted" <=> e.path \in unresolved
           /\ \A e \in R : e.path \in Submodules => e.was = None /\ e.type # "Conflicted"
           /\ \A e \in R : e.path \in Paths
           /\ \A p \in unresolved : \E e \in R : e.path = p
           /\ \A p \in Files : ChangedFile(p) => \E e \in R : e.path = p \/ (IsRemoved(p) /\ e.was = p)
<1>1. parseStatus \subseteq Change /\ unresolved \subseteq Files /\ Files \cap Submodules = {}
  BY StatusTyped, WorkingTreeAssumption DEF DiskTypeOK
<1>2. \A e \in R : \/ \E c \in parseStatus : e = statusRow(c, run)
                   \/ \E p \in unresolved \ {c.path : c \in parseStatus} : e = conflictRow(p)
                   \/ \E s \in Submodules : e = subrepoRow(s, run)
  BY DEF filesFromRun, ReadWell
<1>3. /\ \A c \in parseStatus : statusRow(c, run) \in R
      /\ \A p \in unresolved \ {c.path : c \in parseStatus} : conflictRow(p) \in R
  BY DEF filesFromRun, ReadWell
<1>4. \A c : /\ statusRow(c, run).path = c.path /\ statusRow(c, run).was = c.was
             /\ statusRow(c, run).type = IF c.path \in unresolved THEN "Conflicted" ELSE c.type
  BY DEF statusRow, ReadWell
<1>5. \A p : conflictRow(p).path = p /\ conflictRow(p).was = None /\ conflictRow(p).type = "Conflicted"
  BY DEF conflictRow
<1>6. \A s : subrepoRow(s, run).path = s /\ subrepoRow(s, run).was = None /\ subrepoRow(s, run).type = "Modified"
  BY DEF subrepoRow
<1>7. \A c \in parseStatus : /\ c.path \in Files /\ ChangedFile(c.path) /\ c.was = source[c.path] /\ c.type # "Conflicted"
  BY <1>1 DEF parseStatus, Change
<1>8. ASSUME NEW p \in Files, ChangedFile(p)
      PROVE  \E c \in parseStatus : c.path = p \/ (IsRemoved(p) /\ c.was = p)
  <2> DEFINE Of(q) == [path |-> q, was |-> source[q], type |-> ChangeType(q)]
  <2>1. \A q \in Files : ChangedFile(q) /\ ~IsRemoved(q) => Of(q) \in parseStatus
    BY DEF parseStatus
  <2>2. CASE \E q \in Files : ChangedFile(q) /\ source[q] = p
    <3>1. PICK q \in Files : ChangedFile(q) /\ source[q] = p
      BY <2>2
    <3>2. ~IsRemoved(q)
      BY <3>1, WorkingTreeAssumption DEF DiskHeld, IsRemoved, Paths
    <3>3. CASE IsRemoved(p)
      BY <2>1, <3>1, <3>2, <3>3
    <3>4. CASE ~IsRemoved(p)
      BY <1>8, <2>1, <3>4
    <3> QED
      BY <3>3, <3>4
  <2>3. CASE ~\E q \in Files : ChangedFile(q) /\ source[q] = p
    <3>1. Of(p) \in parseStatus
      BY <1>8, <2>3 DEF parseStatus
    <3> QED
      BY <3>1
  <2> QED
    BY <2>2, <2>3
<1>9. \A p \in unresolved : \E e \in R : e.path = p
  BY <1>3, <1>4, <1>5
<1>10. \A p \in Files : ChangedFile(p) => \E e \in R : e.path = p \/ (IsRemoved(p) /\ e.was = p)
  BY <1>3, <1>4, <1>8
<1>11. ASSUME NEW e \in R
       PROVE  /\ e.path \in Paths
              /\ e.path \in Submodules => e.was = None /\ e.type # "Conflicted"
              /\ e.path \in Files => /\ ChangedFile(e.path) \/ e.path \in unresolved
                                     /\ e.was # None => e.was = source[e.path]
                                     /\ e.type = "Conflicted" <=> e.path \in unresolved
  <2>1. CASE \E c \in parseStatus : e = statusRow(c, run)
    BY <1>1, <1>4, <1>7, <2>1 DEF Paths
  <2>2. CASE \E p \in unresolved : e = conflictRow(p)
    BY <1>1, <1>5, <2>2 DEF Paths
  <2>3. CASE \E s \in Submodules : e = subrepoRow(s, run)
    BY <1>1, <1>6, <2>3 DEF Paths
  <2> QED
    BY <1>2, <2>1, <2>2, <2>3
<1> QED
  BY <1>9, <1>10, <1>11

\* A subrepo's row.
LEMMA SubrepoRows ==
    ASSUME DiskTypeOK, ReadWell, NEW R, R = filesFromRun(run)
    PROVE  /\ \A s \in Submodules : MovedSubrepo(s) => \E e \in R : e.path = s
           /\ \A e \in R : e.path \in Submodules => MovedSubrepo(e.path) \/ contentBlocksPointer(e)
           /\ \A s \in Submodules : inside[s] = "DirtyTracked" => \E e \in R : e.path = s /\ ~committable(e)
<1>1. parseStatus \subseteq Change /\ unresolved \subseteq Files /\ Files \cap Submodules = {}
  BY StatusTyped, WorkingTreeAssumption DEF DiskTypeOK
<1>2. \A s \in Submodules : inside[s] \in {"Clean", "Untracked", "DirtyTracked"}
  BY DEF DiskTypeOK, WorkingTreeTypeOK
<1>3. ASSUME NEW s \in Submodules
      PROVE  LET e == subrepoRow(s, run)
             IN  /\ e.path = s /\ e.sub
                 /\ e.pointerMoved => MovedSubrepo(s)
                 /\ MovedSubrepo(s) => e.pointerMoved \/ contentBlocksPointer(e)
                 /\ inside[s] = "DirtyTracked" => contentBlocksPointer(e)
  BY <1>2 DEF subrepoRow, ReadWell, MovedSubrepo, contentBlocksPointer
<1>4. \A s \in Submodules : LET e == subrepoRow(s, run) IN e.pointerMoved \/ contentBlocksPointer(e) => e \in R
  BY DEF filesFromRun
<1>5. \A e \in R : e.path \in Submodules =>
          \E s \in Submodules : e = subrepoRow(s, run) /\ (e.pointerMoved \/ contentBlocksPointer(e))
  BY <1>1 DEF filesFromRun, ReadWell, statusRow, conflictRow, Change
<1>6. \A s \in Submodules : MovedSubrepo(s) => \E e \in R : e.path = s
  BY <1>3, <1>4
<1>7. \A e \in R : e.path \in Submodules => MovedSubrepo(e.path) \/ contentBlocksPointer(e)
  BY <1>3, <1>5
<1>8. \A s \in Submodules : inside[s] = "DirtyTracked" => \E e \in R : e.path = s /\ ~committable(e)
  BY <1>3, <1>4 DEF committable
<1> QED
  BY <1>6, <1>7, <1>8

LEMMA ReadWellMeans ==
    ASSUME Typed, DiskHeld, ReadWell, UNCHANGED disk, rows' = filesFromRun(run), state'.merging = merging
    PROVE  RowsTellTheTruth'
<1>1. UNCHANGED <<log, work, inside, merging, tracked, source, unresolved, mergestate>> /\ head' = head
  BY DiskKept
<1>2. \A p : /\ ChangedFile(p)' <=> ChangedFile(p)
             /\ IsRemoved(p)' <=> IsRemoved(p)
             /\ MovedSubrepo(p)' <=> MovedSubrepo(p)
  BY <1>1 DEF ChangedFile, IsMissing, IsAdded, IsModified, IsUnknown, IsRemoved, MovedSubrepo
<1>3. PICK R : R = filesFromRun(run)
  OBVIOUS
<1>4. DiskTypeOK /\ unresolved \subseteq Files
  BY DEF Typed, DiskTypeOK
<1>5. /\ \A e \in R : e.path \in Files => /\ ChangedFile(e.path) \/ e.path \in unresolved
                                          /\ e.was # None => e.was = source[e.path]
                                          /\ e.type = "Conflicted" <=> e.path \in unresolved
      /\ \A e \in R : e.path \in Submodules => e.was = None /\ e.type # "Conflicted"
      /\ \A e \in R : e.path \in Paths
      /\ \A p \in unresolved : \E e \in R : e.path = p
      /\ \A p \in Files : ChangedFile(p) => \E e \in R : e.path = p \/ (IsRemoved(p) /\ e.was = p)
  BY <1>3, <1>4, FileRows
<1>6. /\ \A s \in Submodules : MovedSubrepo(s) => \E e \in R : e.path = s
      /\ \A e \in R : e.path \in Submodules => MovedSubrepo(e.path) \/ contentBlocksPointer(e)
      /\ \A s \in Submodules : inside[s] = "DirtyTracked" => \E e \in R : e.path = s /\ ~committable(e)
  BY <1>3, <1>4, SubrepoRows
<1>7. {e.path : e \in R} \cup ({e.was : e \in R} \cap {p \in Files : IsRemoved(p)}) =
        {p \in Files : ChangedFile(p) \/ p \in unresolved}
          \cup {s \in Submodules : MovedSubrepo(s) \/ \E e \in R : e.path = s /\ contentBlocksPointer(e)}
  <2>1. \A p : IsRemoved(p) => ChangedFile(p)
    BY DEF ChangedFile
  <2>2. ASSUME NEW e \in R
        PROVE  \/ e.path \in Files /\ (ChangedFile(e.path) \/ e.path \in unresolved)
               \/ e.path \in Submodules /\ (MovedSubrepo(e.path) \/ contentBlocksPointer(e))
    BY <1>5, <1>6 DEF Paths
  <2> QED
    BY <1>4, <1>5, <1>6, <2>1, <2>2
<1>8. \A e \in R : e.was # None => e.was = source[e.path]
  BY <1>5 DEF Paths
<1>9. {e.path : e \in {f \in R : f.type = "Conflicted"}} = unresolved
  BY <1>4, <1>5 DEF Paths
<1>10. rows' = R
  BY <1>3
<1> HIDE DEF ReadWell
<1> QED
  BY <1>1, <1>2, <1>6, <1>7, <1>8, <1>9, <1>10 DEF RowsTellTheTruth, unresolvedConflictPaths

LEMMA EndRefreshRows == Typed /\ RowsInv /\ EndRefresh => RowsInv'
<1> SUFFICES ASSUME Typed, RowsInv, EndRefresh PROVE RowsInv'
  OBVIOUS
<1>1. UNCHANGED disk /\ DiskHeld' /\ run.round = 1 /\ run.asked = {} /\ run.subs = {}
  BY DiskKept DEF EndRefresh, FinishRefresh, RowsInv
<1>2. run \in RefreshRun /\ Rounds(run)
  BY DEF Typed, RunTyped
<1>3. CASE run' = NewRun
  BY <1>1, <1>3, RunBegins DEF RowsInv
<1>4. CASE run' = [NoRun EXCEPT !.blind = run.blind] /\ moved' = moved
  <2>1. run'.round = 0 /\ run'.asked = {} /\ run'.subs = {} /\ run'.blind = run.blind
    BY <1>4 DEF NoRun
  <2>2. RunTruth'
    BY <2>1 DEF RunTruth
  <2>3. ASSUME state'.known, ~moved, ~run.blind PROVE RowsTellTheTruth'
    <3>1. ~run.failed
      BY <2>3 DEF EndRefresh, FinishRefresh, Establish, Typed, ListTyped, CycleTypeOK
    <3>2. ReadWell
      <4>1. \A s \in Submodules : s \in DOMAIN run.content
        BY <1>1, <1>2 DEF Rounds
      <4> QED
        BY <1>1, <2>3, <3>1, <4>1 DEF RowsInv, RunTruth, ReadWell
    <3>3. run.merging = merging
      BY <1>1, <2>3, <3>1 DEF RowsInv, RunTruth
    <3>4. rows' = filesFromRun(run)
      BY <3>1 DEF EndRefresh, FinishRefresh, Establish, TakeRows, setEntries
    <3>5. state'.merging = (run.merging \/ (merging /\ ~DirstateV2))
      BY <3>1 DEF EndRefresh, FinishRefresh, Establish
    <3>6. state'.merging = merging
      BY <3>3, <3>5 DEF Typed, DiskTypeOK, WorkingTreeTypeOK
    <3> QED
      BY <1>1, <3>2, <3>4, <3>6, ReadWellMeans DEF RowsInv
  <2> QED
    BY <1>1, <1>4, <2>1, <2>2, <2>3 DEF RowsInv, RowsTellTheTruth
<1> QED
  BY <1>3, <1>4 DEF EndRefresh, RestartIfAsked

\* A refresh that is asked for: it begins, or it is noted.
LEMMA RefreshRows ==
    ASSUME RowsInv, UNCHANGED disk, Refresh(NewRun), UNCHANGED <<state, rows>>
    PROVE  RowsInv'
<1>1. CASE run' = NewRun
  BY <1>1, DiskKept, RunBegins DEF RowsInv
<1>2. CASE UNCHANGED <<run, moved>>
  BY <1>2, DiskKept, QuietKeeps DEF RowsInv, Quiet
<1> QED
  BY <1>1, <1>2 DEF Refresh

LEMMA NextRows == Typed /\ RowsInv /\ [Next]_vars => RowsInv'
<1> SUFFICES ASSUME Typed, RowsInv, [Next]_vars PROVE RowsInv'
  OBVIOUS
<1>1. CASE Begins \/ UNCHANGED vars \/ (UserChecks /\ UNCHANGED disk)
  <2>1. UNCHANGED disk /\ Quiet
    BY <1>1 DEF Begins, Starts, PlanDiscardAll, KeepRefresh, KeepSettled, UserChecks, vars, refreshVars, listVars, Quiet
  <2> QED
    BY <2>1, DiskKept, QuietKeeps DEF RowsInv
<1>2. CASE FlowSteps \/ OutsideActions
  BY <1>2, FlowStepsQuiet, OutsideQuiet, QuietKeeps DEF RowsInv
<1>3. CASE (Report(NewRun) \/ RefreshIsDue(NewRun)) /\ UNCHANGED disk
  BY <1>3, RefreshRows DEF Report, RefreshIsDue, listVars
<1> QED
  BY <1>1, <1>2, <1>3, AnswerRows, EndRefreshRows DEF Next

LEMMA AlwaysRows == Spec => []RowsInv
<1>1. Init => RowsInv
  <2> SUFFICES ASSUME Init PROVE RowsInv
    OBVIOUS
  <2>1. NewRun.round = 1 /\ NewRun.recorded = [s \in Submodules |-> head[s]] /\ {"status", "wdir"} \subseteq NewRun.asked
        /\ NewRun.conflicted = {} /\ DOMAIN NewRun.content = {} /\ DOMAIN NewRun.nodes = {}
    BY DEF NewRun, NoRun
  <2> QED
    BY <2>1 DEF Init, RowsInv, DiskHeld, NoCopies, RunTruth, RowsTellTheTruth
<1> QED
  BY <1>1, NextRows, AlwaysTyped, PTL DEF Spec

(***************************************************************************)
(* A list read while nothing changed the disk names every changed file and *)
(* no other, knows the merge and its conflicts, and shows each subrepo     *)
(* that moved or holds what blocks a commit: whatever order the queries    *)
(* answer in, and whichever of them fail.                                  *)
(***************************************************************************)
THEOREM RowsAreTrue == Spec => []RowsTellTheTruth
<1> QED
  BY AlwaysRows, PTL DEF RowsInv
-------------------------------------------------------------------------------
(* The history of a listing: History() of HgPush.                            *)

\* A parent is listed further down, or not at all.
ParentsBelow(par, n) == \A i \in 1..n : \A p \in ToSet(par[i]) : p = 0 \/ p \in (i+1)..n

\* History's recursion.
Reaches(f, par, n) ==
    f = [i \in 0..n |-> IF i = 0 THEN {} ELSE {i} \cup UNION {f[p] : p \in ToSet(par[i])}]

LEMMA ReachesExist ==
    ASSUME NEW n \in Nat, NEW par, ParentsBelow(par, n)
    PROVE  \E f : Reaches(f, par, n)
<1> DEFINE Solves(f, m) ==
              /\ f = [i \in 0..n |-> f[i]] /\ f[0] = {}
              /\ \A i \in 1..n : i > n - m => f[i] = {i} \cup UNION {f[p] : p \in ToSet(par[i])}
           Has(m) == \E f : Solves(f, m)
           S == {m \in 0..n : Has(m)}
<1>1. Has(0)
  <2>1. PICK f : f = [i \in 0..n |-> {}]
    OBVIOUS
  <2>2. f = [i \in 0..n |-> f[i]] /\ f[0] = {}
    BY <2>1
  <2> QED
    BY <2>2
<1>2. ASSUME NEW m \in 0..n, m < n, Has(m) PROVE Has(m + 1)
  <2>1. PICK f : Solves(f, m)
    BY <1>2
  <2>2. PICK j : j = n - m
    OBVIOUS
  <2>3. PICK new : new = {j} \cup UNION {f[p] : p \in ToSet(par[j])}
    OBVIOUS
  <2>4. PICK g : g = [i \in 0..n |-> IF i = j THEN new ELSE f[i]]
    OBVIOUS
  <2>5. j \in 1..n /\ g = [i \in 0..n |-> g[i]] /\ g[0] = {} /\ g[j] = new
        /\ \A i \in 0..n : i # j => g[i] = f[i]
    BY <1>2, <2>1, <2>2, <2>4
  <2>6. ASSUME NEW i \in 1..n, i > n - (m + 1) PROVE g[i] = {i} \cup UNION {g[p] : p \in ToSet(par[i])}
    <3>1. i = j \/ i > n - m
      BY <2>2, <2>6
    <3>2. \A p \in ToSet(par[i]) : p \in 0..n /\ p # j
      BY <2>2, <2>5, <2>6 DEF ParentsBelow
    <3>3. \A p \in ToSet(par[i]) : g[p] = f[p]
      BY <2>5, <3>2
    <3>4. {g[p] : p \in ToSet(par[i])} = {f[p] : p \in ToSet(par[i])}
      BY <3>3
    <3>5. g[i] = {i} \cup UNION {f[p] : p \in ToSet(par[i])}
      <4>1. CASE i = j
        BY <2>3, <2>5, <4>1
      <4>2. CASE i # j
        <5>1. g[i] = f[i] /\ i > n - m
          BY <2>2, <2>5, <3>1, <4>2
        <5>2. f[i] = {i} \cup UNION {f[p] : p \in ToSet(par[i])}
          BY <2>1, <5>1
        <5> QED
          BY <5>1, <5>2
      <4> QED
        BY <4>1, <4>2
    <3> QED
      BY <3>4, <3>5
  <2> QED
    BY <2>5, <2>6
<1>3. n \in S
  <2> HIDE DEF Has
  <2>1. 0 \in S /\ \A m \in 0..n : m < n /\ m \in S => m + 1 \in S
    BY <1>1, <1>2
  <2> HIDE DEF S
  <2>2. \A m \in 0..n : m \in S
    BY <2>1, InductUpTo
  <2> QED
    BY <2>2
<1>4. PICK f : Solves(f, n)
  BY <1>3
<1>5. \A i \in 0..n : f[i] = IF i = 0 THEN {} ELSE {i} \cup UNION {f[p] : p \in ToSet(par[i])}
  <2> SUFFICES ASSUME NEW i \in 0..n
               PROVE  f[i] = IF i = 0 THEN {} ELSE {i} \cup UNION {f[p] : p \in ToSet(par[i])}
    OBVIOUS
  <2>1. CASE i = 0
    BY <1>4, <2>1
  <2>2. CASE i # 0
    <3>1. i \in 1..n /\ i > n - n
      BY <2>2
    <3>2. f[i] = {i} \cup UNION {f[p] : p \in ToSet(par[i])}
      BY <1>4, <3>1
    <3> QED
      BY <2>2, <3>2
  <2> QED
    BY <2>1, <2>2
<1>6. f = [i \in 0..n |-> f[i]]
  BY <1>4
<1>7. f = [i \in 0..n |-> IF i = 0 THEN {} ELSE {i} \cup UNION {f[p] : p \in ToSet(par[i])}]
  BY <1>5, <1>6
<1> QED
  BY <1>7 DEF Reaches

\* A history, of what it is made of.
IsHistory(h, n) ==
    /\ h.parents \in [1..n -> Seq(0..n)] /\ ParentsBelow(h.parents, n)
    /\ DOMAIN h.below = 1..n
    /\ \A i \in 1..n : \A j : j \in h.below[i] <=> \/ j = i
                                                   \/ \E p \in ToSet(h.parents[i]) : p # 0 /\ j \in h.below[p]

\* The listing: the newest commit first, its parents named further down.
ListedCommit == [sha : Range(ShaOf), parents : Seq(Range(ShaOf) \cup Unlisted)]
Listing ==
    /\ commits \in Seq(ListedCommit) /\ Len(commits) <= Len(ShaOf)
    /\ \A i \in 1..Len(commits) : commits[i].sha = ShaOf[Len(commits) + 1 - i]
    /\ \A i \in 1..Len(commits) : IsInjective(commits[i].parents)
    /\ \A i \in 1..Len(commits) : \A k \in 1..Len(commits[i].parents) :
          \/ commits[i].parents[k] \in Unlisted
          \/ \E m \in 1..Len(commits) - i : commits[i].parents[k] = ShaOf[m]

\* The row of a commit, and of one that is not listed.
LEMMA RowsFound ==
    ASSUME Listing, NEW i \in 1..Len(commits), NEW k \in 1..Len(commits[i].parents)
    PROVE  LET row == rowOf(commits, commits[i].parents[k])
           IN  row = 0 \/ row \in (i+1)..Len(commits)
<1> DEFINE n == Len(commits)
           sha == commits[i].parents[k]
           I == {j \in 1..n : commits[j].sha = sha}
<1>1. n \in Nat /\ Len(ShaOf) \in Nat /\ \A j \in 1..Len(ShaOf) : ShaOf[j] \in Range(ShaOf)
  BY NamesAssumption, LenProperties DEF Listing, Range
<1>2. rowOf(commits, sha) = IF I # {} THEN Min(I) ELSE 0
  BY DEF rowOf, SelectInSeq
<1>3. \A j \in I : j > i
  <2> SUFFICES ASSUME NEW j \in I PROVE j > i
    OBVIOUS
  <2>1. sha = ShaOf[n + 1 - j] /\ n + 1 - j \in 1..Len(ShaOf)
    BY <1>1 DEF Listing
  <2>2. sha \notin Unlisted
    BY <1>1, <2>1, NamesAssumption
  <2>3. PICK m \in 1..n - i : sha = ShaOf[m]
    BY <2>2 DEF Listing
  <2>4. m \in 1..Len(ShaOf) /\ DOMAIN ShaOf = 1..Len(ShaOf)
    BY <1>1, NamesAssumption, LenProperties DEF Listing
  <2>5. m = n + 1 - j
    BY <2>1, <2>3, <2>4, NamesAssumption DEF IsInjective
  <2> QED
    BY <1>1, <2>5
<1>4. I # {} => Min(I) \in I
  <2>1. I \in SUBSET (0..n)
    BY <1>1
  <2> HIDE DEF I
  <2>2. I # {} => \E x \in I : \A y \in I : x <= y
    BY <1>1, <2>1, LeastUpTo
  <2> QED
    BY <2>2 DEF Min
<1> QED
  BY <1>1, <1>2, <1>3, <1>4

LEMMA HistoryOfListing ==
    ASSUME Listing
    PROVE  IsHistory(History(commits), Len(commits))
<1> DEFINE par == [i \in DOMAIN commits |->
                     [k \in DOMAIN commits[i].parents |-> rowOf(commits, commits[i].parents[k])]]
           f == CHOOSE g : Reaches(g, par, Len(commits))
<1>1. History(commits) = [parents |-> par, below |-> [i \in DOMAIN commits |-> f[i]]]
  BY Zenon DEF History, Reaches
<1>2. PICK n : n = Len(commits)
  OBVIOUS
<1>3. n \in Nat /\ DOMAIN commits = 1..n
      /\ \A i \in 1..n : Len(commits[i].parents) \in Nat /\ DOMAIN commits[i].parents = 1..Len(commits[i].parents)
  BY <1>2, LenProperties, ElementOfSeq DEF Listing, ListedCommit
<1>4. \A i \in 1..n : \A k \in 1..Len(commits[i].parents) :
         rowOf(commits, commits[i].parents[k]) = 0 \/ rowOf(commits, commits[i].parents[k]) \in (i+1)..n
  BY <1>2, RowsFound
<1>5. ASSUME NEW i \in 1..n
      PROVE  par[i] \in Seq(0..n) /\ \A p \in ToSet(par[i]) : p = 0 \/ p \in (i+1)..n
  <2>1. PICK q : q = par[i]
    OBVIOUS
  <2>2. q = [k \in 1..Len(commits[i].parents) |-> rowOf(commits, commits[i].parents[k])]
    BY <1>3, <2>1
  <2>3. \A k \in 1..Len(commits[i].parents) : q[k] = 0 \/ q[k] \in (i+1)..n
    BY <1>4, <2>2
  <2>4. q \in [1..Len(commits[i].parents) -> 0..n]
    <3>1. \A x : x = 0 \/ x \in (i+1)..n => x \in 0..n
      BY <1>3
    <3> QED
      BY <2>2, <2>3, <3>1
  <2>5. q \in Seq(0..n)
    BY <1>3, <2>4
  <2>6. \A p \in ToSet(q) : p = 0 \/ p \in (i+1)..n
    BY <2>3, <2>4 DEF ToSet
  <2> QED
    BY <2>1, <2>5, <2>6
<1>6. ParentsBelow(par, n) /\ par \in [1..n -> Seq(0..n)]
  <2>1. DOMAIN par = 1..n /\ par = [i \in 1..n |-> par[i]]
    BY <1>3
  <2> HIDE DEF par
  <2> QED
    BY <1>5, <2>1 DEF ParentsBelow
<1> HIDE DEF par
<1>7. Reaches(f, par, n)
  BY <1>2, <1>3, <1>6, ReachesExist
<1> HIDE DEF f
<1>8. \A i \in 0..n : f[i] = IF i = 0 THEN {} ELSE {i} \cup UNION {f[p] : p \in ToSet(par[i])}
  BY <1>7 DEF Reaches
<1>9. PICK h : h = History(commits)
  OBVIOUS
<1>10. h.parents = par /\ DOMAIN h.below = 1..n /\ \A i \in 1..n : h.below[i] = f[i]
  BY <1>1, <1>3, <1>9
<1>11. ASSUME NEW i \in 1..n, NEW j
       PROVE  j \in h.below[i] <=> \/ j = i
                                   \/ \E p \in ToSet(h.parents[i]) : p # 0 /\ j \in h.below[p]
  <2>1. j \in f[i] <=> j = i \/ \E p \in ToSet(par[i]) : j \in f[p]
    <3>1. f[i] = {i} \cup UNION {f[p] : p \in ToSet(par[i])}
      <4>1. i \in 0..n /\ i # 0
        BY <1>3
      <4> QED
        BY <1>8, <4>1
    <3> QED
      BY <3>1
  <2>2. f[0] = {}
    <3>1. 0 \in 0..n
      BY <1>3
    <3> QED
      BY <1>8, <3>1
  <2>3. \A p \in ToSet(par[i]) : p = 0 \/ p \in 1..n
    BY <1>3, <1>6 DEF ParentsBelow
  <2> QED
    BY <1>10, <2>1, <2>2, <2>3
<1> QED
  BY <1>2, <1>6, <1>9, <1>10, <1>11 DEF IsHistory

-------------------------------------------------------------------------------
(* What a changeset has below it.                                            *)

LEMMA Ancestry ==
    ASSUME NEW n \in Nat, NEW h, IsHistory(h, n)
    PROVE  \A i \in 1..n : /\ i \in h.below[i] /\ h.below[i] \subseteq i..n
                           /\ \A j \in h.below[i] : h.below[j] \subseteq h.below[i]
<1> DEFINE Good(i) == /\ i \in h.below[i] /\ h.below[i] \subseteq i..n
                      /\ \A j \in h.below[i] : h.below[j] \subseteq h.below[i]
           S == {m \in 0..n : \A i \in 1..n : i > n - m => Good(i)}
<1>1. 0 \in S
  OBVIOUS
<1>2. ASSUME NEW m \in 0..n, m < n, m \in S PROVE m + 1 \in S
  <2>1. PICK i : i = n - m
    OBVIOUS
  <2>2. i \in 1..n /\ \A j \in 1..n : j > n - (m + 1) => j = i \/ j > n - m
    BY <1>2, <2>1
  <2>3. \A p \in ToSet(h.parents[i]) : p # 0 => p \in (i+1)..n /\ p \in 1..n /\ p > n - m
    <3>1. \A p \in ToSet(h.parents[i]) : p = 0 \/ p \in (i+1)..n
      BY <2>2 DEF IsHistory, ParentsBelow
    <3> QED
      BY <2>1, <2>2, <3>1
  <2>4. \A p \in ToSet(h.parents[i]) : p # 0 => Good(p)
    BY <1>2, <2>3
  <2>5. \A j : j \in h.below[i] <=> j = i \/ \E p \in ToSet(h.parents[i]) : p # 0 /\ j \in h.below[p]
    BY <2>2 DEF IsHistory
  <2>6. i \in h.below[i] /\ h.below[i] \subseteq i..n
    <3>1. ASSUME NEW j \in h.below[i] PROVE j \in i..n
      <4>1. CASE j = i
        BY <2>2, <4>1
      <4>2. CASE j # i
        <5>1. PICK p \in ToSet(h.parents[i]) : p # 0 /\ j \in h.below[p]
          BY <2>5, <4>2
        <5>2. j \in p..n
          BY <2>4, <5>1
        <5> QED
          BY <2>2, <2>3, <5>1, <5>2
      <4> QED
        BY <4>1, <4>2
    <3> QED
      BY <2>5, <3>1
  <2>7. \A j \in h.below[i] : h.below[j] \subseteq h.below[i]
    <3> SUFFICES ASSUME NEW j \in h.below[i], j # i, NEW x \in h.below[j] PROVE x \in h.below[i]
      OBVIOUS
    <3>1. PICK p \in ToSet(h.parents[i]) : p # 0 /\ j \in h.below[p]
      BY <2>5
    <3>2. x \in h.below[p]
      BY <2>4, <3>1
    <3> QED
      BY <2>5, <3>1, <3>2
  <2>8. Good(i)
    BY <2>6, <2>7
  <2> QED
    BY <1>2, <2>1, <2>2, <2>8
<1>3. n \in S
  <2> HIDE DEF S
  <2>1. \A m \in 0..n : m \in S
    BY <1>1, <1>2, InductUpTo
  <2> QED
    BY <2>1
<1>4. \A i \in 1..n : i > n - n
  OBVIOUS
<1> QED
  BY <1>3, <1>4

LEMMA LeastAndGreatest ==
    ASSUME NEW n \in Nat, NEW S \in SUBSET (1..n), S # {}
    PROVE  /\ \E x \in S : \A y \in S : x <= y
           /\ \E x \in S : \A y \in S : y <= x
<1>1. S \in SUBSET (0..n)
  OBVIOUS
<1>2. \E x \in S : \A y \in S : x <= y
  BY <1>1, LeastUpTo
<1> DEFINE T == {n - x : x \in S}
<1>3. T \in SUBSET (0..n) /\ T # {}
  OBVIOUS
<1>4. PICK t \in T : \A u \in T : t <= u
  <2> HIDE DEF T
  <2> QED
    BY <1>3, LeastUpTo
<1>5. PICK x \in S : t = n - x
  OBVIOUS
<1>6. \A y \in S : y <= x
  <2> SUFFICES ASSUME NEW y \in S PROVE y <= x
    OBVIOUS
  <2>1. n - y \in T
    OBVIOUS
  <2>2. t <= n - y
    BY <1>4, <2>1
  <2> QED
    BY <1>5, <2>2
<1> QED
  BY <1>2, <1>6

\* Under every changeset there is one with no parent listed.
LEMMA RootBelow ==
    ASSUME NEW n \in Nat, NEW h, IsHistory(h, n), NEW i \in 1..n
    PROVE  \E x \in 1..n : x \in h.below[i] /\ h.below[x] = {x}
<1>1. h.below[i] \in SUBSET (1..n) /\ h.below[i] # {}
  BY Ancestry
<1>2. PICK x \in h.below[i] : \A y \in h.below[i] : y <= x
  BY <1>1, LeastAndGreatest
<1>3. x \in 1..n /\ h.below[x] \subseteq h.below[i] /\ x \in h.below[x] /\ h.below[x] \subseteq x..n
  BY <1>1, Ancestry
<1>4. \A y \in h.below[x] : y = x
  BY <1>2, <1>3
<1> QED
  BY <1>3, <1>4

-------------------------------------------------------------------------------
(* The line of a push one by one: firstParentLineOldestFirst().              *)

FirstParent(h, i) == IF h.parents[i] = <<>> THEN 0 ELSE h.parents[i][1]

\* Its recursion, and the line it leads to.
ComesDown(f, h, candidates) ==
    f = [i \in 0..Len(h.parents) |-> IF i \in candidates THEN Append(f[FirstParent(h, i)], i) ELSE <<>>]

IsLine(s, h, candidates, newest) ==
    /\ s \in Seq(candidates) /\ Len(s) # 0 /\ s[Len(s)] = newest
    /\ \A k \in 1..Len(s) - 1 : s[k] = FirstParent(h, s[k+1])
    /\ FirstParent(h, s[1]) \notin candidates

LEMMA FirstParentBelow ==
    ASSUME NEW n \in Nat, NEW h, IsHistory(h, n), NEW i \in 1..n
    PROVE  \/ FirstParent(h, i) = 0
           \/ FirstParent(h, i) \in (i+1)..n /\ h.parents[i] # <<>> /\ FirstParent(h, i) = h.parents[i][1]
<1>1. PICK q : q = h.parents[i]
  OBVIOUS
<1>2. q \in Seq(0..n)
  BY <1>1 DEF IsHistory
<1>3. CASE q = <<>>
  <2>1. FirstParent(h, i) = 0
    BY <1>1, <1>3, Zenon DEF FirstParent
  <2> QED
    BY <2>1
<1>4. CASE q # <<>>
  <2>1. Len(q) \in Nat /\ Len(q) # 0 /\ DOMAIN q = 1..Len(q)
    BY <1>2, <1>4, LenProperties, EmptySeq
  <2>2. q[1] \in ToSet(q)
    BY <2>1 DEF ToSet
  <2>3. FirstParent(h, i) = q[1]
    BY <1>1, <1>4, Zenon DEF FirstParent
  <2> QED
    BY <1>1, <1>4, <2>1, <2>2, <2>3 DEF IsHistory, ParentsBelow
<1> QED
  BY <1>3, <1>4

LEMMA ComesDownExists ==
    ASSUME NEW n \in Nat, NEW h, IsHistory(h, n), NEW candidates \in SUBSET (1..n)
    PROVE  \E f : ComesDown(f, h, candidates)
<1> DEFINE Step(f, i) == IF i \in candidates THEN Append(f[FirstParent(h, i)], i) ELSE <<>>
           Solves(f, m) ==
              /\ f = [i \in 0..n |-> f[i]] /\ f[0] = <<>>
              /\ \A i \in 1..n : i > n - m => f[i] = Step(f, i)
           Has(m) == \E f : Solves(f, m)
           S == {m \in 0..n : Has(m)}
<1>1. Has(0)
  <2>1. PICK f : f = [i \in 0..n |-> <<>>]
    OBVIOUS
  <2>2. f = [i \in 0..n |-> f[i]] /\ f[0] = <<>>
    BY <2>1
  <2> QED
    BY <2>2
<1>2. ASSUME NEW m \in 0..n, m < n, Has(m) PROVE Has(m + 1)
  <2>1. PICK f : Solves(f, m)
    BY <1>2
  <2>2. PICK j : j = n - m
    OBVIOUS
  <2>3. PICK new : new = Step(f, j)
    OBVIOUS
  <2>4. PICK g : g = [i \in 0..n |-> IF i = j THEN new ELSE f[i]]
    OBVIOUS
  <2>5. j \in 1..n /\ g = [i \in 0..n |-> g[i]] /\ g[0] = <<>> /\ g[j] = new
        /\ \A i \in 0..n : i # j => g[i] = f[i]
    BY <1>2, <2>1, <2>2, <2>4
  <2>6. ASSUME NEW i \in 1..n, i > n - (m + 1) PROVE g[i] = Step(g, i)
    <3>1. i = j \/ i > n - m
      BY <2>2, <2>6
    <3>2. PICK p : p = FirstParent(h, i)
      OBVIOUS
    <3>3. p \in 0..n /\ p # j
      BY <2>2, <2>5, <2>6, <3>2, FirstParentBelow
    <3>4. Step(g, i) = Step(f, i)
      BY <2>5, <3>2, <3>3
    <3>5. g[i] = Step(f, i)
      <4>1. CASE i = j
        BY <2>3, <2>5, <4>1
      <4>2. CASE i # j
        <5>1. g[i] = f[i] /\ i > n - m
          BY <2>2, <2>5, <3>1, <4>2
        <5> HIDE DEF Step
        <5>2. f[i] = Step(f, i)
          BY <2>1, <5>1
        <5> QED
          BY <5>1, <5>2
      <4> QED
        BY <4>1, <4>2
    <3> QED
      BY <3>4, <3>5
  <2> HIDE DEF Step
  <2> QED
    BY <2>5, <2>6
<1>3. n \in S
  <2> HIDE DEF Has
  <2>1. 0 \in S /\ \A m \in 0..n : m < n /\ m \in S => m + 1 \in S
    BY <1>1, <1>2
  <2> HIDE DEF S
  <2>2. \A m \in 0..n : m \in S
    BY <2>1, InductUpTo
  <2> QED
    BY <2>2
<1>4. PICK f : Solves(f, n)
  BY <1>3
<1>5. \A i \in 0..n : f[i] = Step(f, i)
  <2> SUFFICES ASSUME NEW i \in 0..n PROVE f[i] = Step(f, i)
    OBVIOUS
  <2>1. CASE i = 0
    BY <1>4, <2>1
  <2>2. CASE i # 0
    <3>1. i \in 1..n /\ i > n - n
      BY <2>2
    <3> HIDE DEF Step
    <3> QED
      BY <1>4, <3>1
  <2> QED
    BY <2>1, <2>2
<1>6. f = [i \in 0..n |-> f[i]]
  BY <1>4
<1>7. f = [i \in 0..n |-> Step(f, i)]
  <2> HIDE DEF Step
  <2> QED
    BY <1>5, <1>6
<1>8. Len(h.parents) = n
  BY DEF IsHistory
<1> QED
  BY <1>7, <1>8 DEF ComesDown

LEMMA LineFollowed ==
    ASSUME NEW n \in Nat, NEW h, IsHistory(h, n), NEW candidates \in SUBSET (1..n),
           NEW f, ComesDown(f, h, candidates)
    PROVE  \A i \in candidates : IsLine(f[i], h, candidates, i)
<1> DEFINE S == {m \in 0..n : \A i \in candidates : i > n - m => IsLine(f[i], h, candidates, i)}
<1>1. Len(h.parents) = n
  BY DEF IsHistory
<1>2. \A i \in 0..n : f[i] = IF i \in candidates THEN Append(f[FirstParent(h, i)], i) ELSE <<>>
  BY <1>1 DEF ComesDown
<1>3. 0 \in S
  OBVIOUS
<1>4. ASSUME NEW m \in 0..n, m < n, m \in S PROVE m + 1 \in S
  <2>1. PICK i : i = n - m
    OBVIOUS
  <2>2. i \in 1..n /\ i \in 0..n /\ \A j \in 1..n : j > n - (m + 1) => j = i \/ j > n - m
    BY <1>4, <2>1
  <2>3. ASSUME i \in candidates PROVE IsLine(f[i], h, candidates, i)
    <3>1. PICK p : p = FirstParent(h, i)
      OBVIOUS
    <3>2. p = 0 \/ p \in (i+1)..n
      BY <2>2, <3>1, FirstParentBelow
    <3>3. PICK s : s = f[p]
      OBVIOUS
    <3>4. PICK line : line = f[i]
      OBVIOUS
    <3>5. line = Append(s, i)
      BY <1>2, <2>2, <2>3, <3>1, <3>3, <3>4
    <3>6. CASE p \in candidates
      <4>1. IsLine(s, h, candidates, p)
        <5>1. p > n - m
          BY <2>1, <3>2, <3>6
        <5> QED
          BY <1>4, <3>3, <3>6, <5>1
      <4>2. s \in Seq(candidates) /\ Len(s) \in Nat /\ Len(s) # 0 /\ s[Len(s)] = p
            /\ (\A k \in 1..Len(s) - 1 : s[k] = FirstParent(h, s[k+1])) /\ FirstParent(h, s[1]) \notin candidates
        BY <4>1, LenProperties DEF IsLine
      <4>3. line \in Seq(candidates) /\ Len(line) = Len(s) + 1 /\ line[Len(s) + 1] = i
            /\ \A k \in 1..Len(s) : line[k] = s[k]
        BY <2>3, <3>5, <4>2, AppendProperties
      <4>4. ASSUME NEW k \in 1..Len(line) - 1 PROVE line[k] = FirstParent(h, line[k+1])
        <5>1. CASE k = Len(s)
          BY <3>1, <4>2, <4>3, <5>1
        <5>2. CASE k # Len(s)
          <6>1. k \in 1..Len(s) - 1 /\ k \in 1..Len(s) /\ k + 1 \in 1..Len(s)
            BY <4>2, <4>3, <5>2
          <6> QED
            BY <4>2, <4>3, <6>1
        <5> QED
          BY <5>1, <5>2
      <4>5. line[1] = s[1] /\ line[Len(line)] = i /\ Len(line) # 0
        BY <4>2, <4>3
      <4> QED
        BY <3>4, <4>2, <4>3, <4>4, <4>5 DEF IsLine
    <3>7. CASE p \notin candidates
      <4>1. p \in 0..n
        BY <2>2, <3>2
      <4>2. s = <<>>
        BY <1>2, <3>3, <3>7, <4>1
      <4>3. line = <<i>>
        BY <3>5, <4>2
      <4>4. line \in Seq(candidates) /\ Len(line) = 1 /\ line[1] = i
        BY <2>3, <4>3
      <4> QED
        BY <3>1, <3>4, <3>7, <4>4 DEF IsLine
    <3> QED
      BY <3>6, <3>7
  <2> QED
    BY <1>4, <2>1, <2>2, <2>3
<1>5. n \in S
  <2> HIDE DEF S
  <2>1. \A m \in 0..n : m \in S
    BY <1>3, <1>4, InductUpTo
  <2> QED
    BY <2>1
<1>6. \A i \in candidates : i > n - n
  OBVIOUS
<1> QED
  BY <1>5, <1>6

LEMMA LineShape ==
    ASSUME NEW n \in Nat, NEW h, IsHistory(h, n), NEW candidates \in SUBSET (1..n)
    PROVE  /\ candidates = {} => firstParentLineOldestFirst(h, candidates) = <<>>
           /\ candidates # {} =>
                \E newest \in candidates :
                   /\ \A j \in candidates : newest <= j
                   /\ IsLine(firstParentLineOldestFirst(h, candidates), h, candidates, newest)
<1> DEFINE f == CHOOSE g : ComesDown(g, h, candidates)
           newest == CHOOSE i \in candidates : \A j \in candidates : i <= j
<1>1. firstParentLineOldestFirst(h, candidates) = IF candidates = {} THEN <<>> ELSE f[newest]
  BY Zenon DEF firstParentLineOldestFirst, ComesDown, FirstParent
<1>2. ComesDown(f, h, candidates)
  BY ComesDownExists
<1> HIDE DEF f
<1>3. candidates # {} => newest \in candidates /\ \A j \in candidates : newest <= j
  BY LeastAndGreatest
<1> HIDE DEF newest
<1>4. candidates # {} => IsLine(f[newest], h, candidates, newest)
  BY <1>2, <1>3, LineFollowed
<1> QED
  BY <1>1, <1>3, <1>4

-------------------------------------------------------------------------------
(* The plan: planPush() of a push one by one.                                *)

\* A changeset's phase is no lower than those below it.
Phased(h, n, phase) ==
    /\ \A i \in 1..n : phase[i] \in {"public", "draft", "secret"}
    /\ \A i \in 1..n : \A j \in h.below[i] :
          /\ phase[i] = "public" => phase[j] = "public"
          /\ phase[i] = "draft" => phase[j] # "secret"

\* What the candidates are, and how they are closed under only parents.
LEMMA Candidates ==
    ASSUME NEW n \in Nat, NEW h, IsHistory(h, n), NEW phase, Phased(h, n, phase), NEW dot \in 1..n
    PROVE  /\ pushCandidates(h, phase, dot) \in SUBSET (1..n)
           /\ \A i \in pushCandidates(h, phase, dot) : i \in h.below[dot] /\ phase[i] = "draft" /\ dot <= i
           /\ phase[dot] = "draft" => dot \in pushCandidates(h, phase, dot)
           /\ \A j \in pushCandidates(h, phase, dot), p \in 1..n :
                 ToSet(h.parents[j]) = {p} /\ phase[p] = "draft" => p \in pushCandidates(h, phase, dot)
<1> DEFINE below == h.below[dot]
           public == OfPhase(below, phase, "public")
           draftRoots == OfPhase(roots(h, below), phase, "draft")
           from == heads(h, public) \cup draftRoots
<1>1. PICK C : C = pushCandidates(h, phase, dot)
  OBVIOUS
<1>2. \A i : i \in C <=> i \in below /\ phase[i] = "draft" /\ i \in 1..n /\ h.below[i] \cap from # {}
  <2>1. DOMAIN h.below = 1..n
    BY DEF IsHistory
  <2>2. C = OfPhase(below, phase, "draft") \cap descendants(h, from)
    BY <1>1 DEF pushCandidates
  <2> HIDE DEF from
  <2> QED
    BY <2>1, <2>2 DEF OfPhase, descendants
<1>3. \A i \in 1..n : i \in h.below[i] /\ h.below[i] \subseteq i..n /\ \A j \in h.below[i] : h.below[j] \subseteq h.below[i]
  BY Ancestry
<1>4. below \subseteq dot..n /\ dot \in below /\ below \subseteq 1..n
  BY <1>3
<1>5. ASSUME phase[dot] = "draft" PROVE dot \in C
  <2>1. PICK x \in 1..n : x \in below /\ h.below[x] = {x}
    BY RootBelow
  <2>2. phase[x] = "public" \/ phase[x] = "draft"
    BY <1>5, <2>1 DEF Phased
  <2>3. CASE phase[x] = "draft"
    <3>1. x \in draftRoots
      BY <2>1, <2>3 DEF roots, OfPhase
    <3> QED
      BY <1>2, <1>4, <1>5, <2>1, <3>1
  <2>4. CASE phase[x] = "public"
    <3>1. public \in SUBSET (1..n) /\ public # {}
      BY <1>4, <2>1, <2>4 DEF OfPhase
    <3> HIDE DEF public
    <3>2. PICK y \in public : \A z \in public : y <= z
      BY <3>1, LeastAndGreatest
    <3>3. \A z \in public : y \in h.below[z] => y = z
      <4> SUFFICES ASSUME NEW z \in public, y \in h.below[z] PROVE y = z
        OBVIOUS
      <4>1. z \in 1..n /\ y \in z..n /\ y <= z /\ y \in 1..n
        BY <1>3, <3>1, <3>2
      <4> QED
        BY <4>1
    <3>4. y \in heads(h, public)
      BY <3>2, <3>3 DEF heads
    <3>5. y \in below
      BY <3>2 DEF public, OfPhase
    <3> QED
      BY <1>2, <1>4, <1>5, <3>4, <3>5
  <2> QED
    BY <2>2, <2>3, <2>4
<1>6. ASSUME NEW j \in C, NEW p \in 1..n, ToSet(h.parents[j]) = {p}, phase[p] = "draft" PROVE p \in C
  <2>1. j \in below /\ phase[j] = "draft" /\ j \in 1..n /\ h.below[j] \cap from # {}
    BY <1>2, <1>6
  <2>2. \A x : x \in h.below[j] <=> x = j \/ x \in h.below[p]
    <3>1. \A x : x \in h.below[j] <=> x = j \/ \E q \in ToSet(h.parents[j]) : q # 0 /\ x \in h.below[q]
      BY <2>1 DEF IsHistory
    <3> QED
      BY <1>6, <3>1
  <2>3. p \in h.below[j] /\ p # j
    <3>1. p \in h.below[p] /\ p \in h.below[j]
      BY <1>3, <2>2
    <3>2. p = 0 \/ p \in (j+1)..n
      BY <1>6, <2>1 DEF IsHistory, ParentsBelow
    <3> QED
      BY <2>1, <3>1, <3>2
  <2>4. p \in below
    BY <1>3, <2>1, <2>3
  <2>5. j \notin from
    <3>1. j \notin heads(h, public)
      BY <2>1 DEF heads, OfPhase
    <3>2. j \notin roots(h, below)
      BY <2>3, <2>4 DEF roots
    <3> QED
      BY <3>1, <3>2 DEF OfPhase
  <2>6. h.below[p] \cap from # {}
    <3> HIDE DEF from
    <3> QED
      BY <2>1, <2>2, <2>5
  <2> HIDE DEF from
  <2> QED
    BY <1>2, <1>6, <2>4, <2>6
<1> HIDE DEF below, public, draftRoots, from
<1>7. C \in SUBSET (1..n)
  BY <1>2
<1>8. \A i \in C : i \in h.below[dot] /\ phase[i] = "draft" /\ dot <= i
  BY <1>2, <1>4 DEF below
<1> QED
  BY <1>1, <1>5, <1>6, <1>7, <1>8

\* The rows of the line, which ends at the newest: each the first parent of the next.
LEMMA LineDescends ==
    ASSUME NEW n \in Nat, NEW h, IsHistory(h, n), NEW candidates \in SUBSET (1..n),
           NEW s, NEW newest, IsLine(s, h, candidates, newest)
    PROVE  /\ Len(s) \in Nat /\ DOMAIN s = 1..Len(s) /\ \A k \in 1..Len(s) : s[k] \in candidates
           /\ \A k \in 1..Len(s) : \A j \in 1..k : s[k] <= s[j] /\ h.below[s[j]] \subseteq h.below[s[k]]
           /\ \A k \in 1..Len(s) : \A j \in 1..k - 1 : s[k] < s[j]
<1>1. /\ s \in Seq(candidates) /\ Len(s) \in Nat /\ DOMAIN s = 1..Len(s) /\ \A k \in 1..Len(s) : s[k] \in candidates
      /\ \A k \in 1..Len(s) - 1 : s[k] = FirstParent(h, s[k+1])
  BY LenProperties, ElementOfSeq DEF IsLine
<1>2. ASSUME NEW k \in 1..Len(s) - 1
      PROVE  s[k+1] < s[k] /\ s[k] \in h.below[s[k+1]] /\ h.below[s[k]] \subseteq h.below[s[k+1]]
  <2>1. PICK i : i = s[k+1]
    OBVIOUS
  <2>2. PICK p : p = s[k]
    OBVIOUS
  <2>3. k \in 1..Len(s) /\ k + 1 \in 1..Len(s)
    BY <1>1
  <2>4. p \in 1..n /\ i \in 1..n /\ p = FirstParent(h, i)
    BY <1>1, <2>1, <2>2, <2>3
  <2>5. p # 0 /\ p \in (i+1)..n /\ h.parents[i] # <<>> /\ p = h.parents[i][1]
    BY <2>4, FirstParentBelow
  <2>6. p \in ToSet(h.parents[i])
    <3>1. h.parents[i] \in Seq(0..n)
      BY <2>4 DEF IsHistory
    <3>2. 1 \in DOMAIN h.parents[i]
      BY <2>5, <3>1, LenProperties, EmptySeq
    <3> QED
      BY <2>5, <3>2 DEF ToSet
  <2>7. p \in h.below[p]
    BY <2>4, Ancestry
  <2>8. p \in h.below[i]
    BY <2>4, <2>5, <2>6, <2>7 DEF IsHistory
  <2>9. h.below[p] \subseteq h.below[i]
    BY <2>4, <2>8, Ancestry
  <2> QED
    BY <2>1, <2>2, <2>4, <2>5, <2>8, <2>9
<1> DEFINE Below(k) == \A j \in 1..k : /\ s[k] <= s[j] /\ h.below[s[j]] \subseteq h.below[s[k]]
                                       /\ j # k => s[k] < s[j]
           S == {m \in 0..Len(s) : m # 0 => Below(m)}
<1>3. 0 \in S
  BY <1>1
<1>4. ASSUME NEW m \in 0..Len(s), m < Len(s), m \in S PROVE m + 1 \in S
  <2>1. m + 1 \in 1..Len(s) /\ s[m+1] \in 1..n
    <3>1. m + 1 \in 1..Len(s)
      BY <1>1, <1>4
    <3> QED
      BY <1>1, <3>1
  <2>2. ASSUME NEW j \in 1..m + 1
        PROVE  /\ s[m+1] <= s[j] /\ h.below[s[j]] \subseteq h.below[s[m+1]]
               /\ j # m + 1 => s[m+1] < s[j]
    <3>1. CASE j = m + 1
      BY <2>1, <3>1
    <3>2. CASE j # m + 1
      <4>1. j \in 1..m /\ m \in 1..Len(s) - 1 /\ m \in 1..Len(s) /\ j \in 1..Len(s) /\ m # 0
        BY <1>1, <1>4, <3>2
      <4>2. s[m] <= s[j] /\ h.below[s[j]] \subseteq h.below[s[m]]
        BY <1>4, <4>1
      <4>3. s[m+1] < s[m] /\ h.below[s[m]] \subseteq h.below[s[m+1]]
        BY <1>2, <4>1
      <4>4. s[m] \in 1..n /\ s[j] \in 1..n
        BY <1>1, <4>1
      <4> QED
        BY <2>1, <4>2, <4>3, <4>4
    <3> QED
      BY <3>1, <3>2
  <2> QED
    BY <2>1, <2>2
<1>5. \A m \in 0..Len(s) : m \in S
  <2> HIDE DEF S
  <2> QED
    BY <1>1, <1>3, <1>4, InductUpTo
<1>6. ASSUME NEW k \in 1..Len(s) PROVE Below(k)
  <2>1. k \in 0..Len(s) /\ k # 0
    BY <1>1
  <2> QED
    BY <1>5, <2>1
<1>7. ASSUME NEW k \in 1..Len(s), NEW j \in 1..k - 1 PROVE s[k] < s[j]
  <2>1. j \in 1..k /\ j # k
    BY <1>1
  <2> QED
    BY <1>6, <2>1
<1> QED
  BY <1>1, <1>6, <1>7

LEMMA LineIs ==
    ASSUME NEW n \in Nat, NEW h, IsHistory(h, n), NEW phase, Phased(h, n, phase), NEW dot \in 1..n,
           NEW C, C = pushCandidates(h, phase, dot), NEW line, line = oneByOneLine(h, phase, dot)
    PROVE  /\ C = {} => line = <<>>
           /\ C # {} => \E newest \in C : (\A j \in C : newest <= j) /\ IsLine(line, h, C, newest)
<1>1. C \in SUBSET (1..n)
  BY Candidates
<1>2. line = firstParentLineOldestFirst(h, C)
  BY DEF oneByOneLine
<1> QED
  BY <1>1, <1>2, LineShape

\* Every draft is published, one off the line with a merge on it.
LEMMA AllPublished ==
    ASSUME NEW n \in Nat, NEW h, IsHistory(h, n), NEW phase, Phased(h, n, phase), NEW dot \in 1..n
    PROVE  LinePublishesAll(h, phase, dot)
<1>1. PICK line : line = oneByOneLine(h, phase, dot)
  OBVIOUS
<1>2. PICK C : C = pushCandidates(h, phase, dot)
  OBVIOUS
<1> SUFFICES ASSUME phase[dot] # "secret", NEW i \in OfPhase(h.below[dot], phase, "draft")
             PROVE  \E j \in ToSet(line) :
                       /\ i \in h.below[j]
                       /\ planUpTo(h, phase, dot, i) = "OffTheLine" => Len(h.parents[j]) > 1
  BY <1>1 DEF LinePublishesAll
<1>3. i \in h.below[dot] /\ phase[i] = "draft" /\ i \in 1..n
  BY Ancestry DEF OfPhase
<1>4. phase[dot] = "draft"
  BY <1>3 DEF Phased
<1>5. /\ C \in SUBSET (1..n) /\ dot \in C
      /\ \A k \in C : k \in h.below[dot] /\ phase[k] = "draft" /\ dot <= k
      /\ \A j \in C, p \in 1..n : ToSet(h.parents[j]) = {p} /\ phase[p] = "draft" => p \in C
  BY <1>2, <1>4, Candidates
<1>6. PICK newest \in C : (\A j \in C : newest <= j) /\ IsLine(line, h, C, newest)
  BY <1>1, <1>2, <1>5, LineIs
<1>7. newest = dot
  BY <1>5, <1>6
<1>8. Len(line) \in Nat /\ DOMAIN line = 1..Len(line) /\ \A k \in 1..Len(line) : line[k] \in C
  BY <1>5, <1>6, LineDescends
<1>9. Len(line) # 0 /\ line[Len(line)] = dot /\ FirstParent(h, line[1]) \notin C
      /\ \A k \in 1..Len(line) - 1 : line[k] = FirstParent(h, line[k+1])
  BY <1>6, <1>7 DEF IsLine
<1>10. CASE planUpTo(h, phase, dot, i) # "OffTheLine"
  <2>1. dot \in ToSet(line)
    BY <1>8, <1>9 DEF ToSet
  <2> QED
    BY <1>3, <1>10, <2>1
<1>11. CASE planUpTo(h, phase, dot, i) = "OffTheLine"
  <2>1. i \notin ToSet(line)
    BY <1>1, <1>11 DEF planUpTo
  <2> DEFINE K == {k \in 1..Len(line) : i \in h.below[line[k]]}
  <2>2. Len(line) \in K
    BY <1>3, <1>8, <1>9
  <2>3. PICK k \in K : \A m \in K : k <= m
    <3>1. K \in SUBSET (1..Len(line)) /\ K # {}
      BY <2>2
    <3> HIDE DEF K
    <3> QED
      BY <1>8, <3>1, LeastAndGreatest
  <2>4. PICK j : j = line[k]
    OBVIOUS
  <2>5. j \in ToSet(line) /\ i \in h.below[j] /\ i # j /\ j \in C /\ j \in 1..n
    BY <1>5, <1>8, <2>1, <2>3, <2>4 DEF ToSet
  <2>6. ASSUME ~(Len(h.parents[j]) > 1) PROVE FALSE
    <3>1. PICK q : q = h.parents[j]
      OBVIOUS
    <3>2. q \in Seq(0..n) /\ Len(q) \in Nat /\ DOMAIN q = 1..Len(q)
      BY <2>5, <3>1, LenProperties DEF IsHistory
    <3>3. PICK p \in ToSet(q) : p # 0 /\ i \in h.below[p]
      BY <2>5, <3>1 DEF IsHistory
    <3>4. Len(q) = 1 /\ q # <<>>
      <4>1. PICK x \in DOMAIN q : q[x] = p
        BY <3>3 DEF ToSet
      <4> QED
        <5>1. Len(q) = 1
          <6>1. ~(Len(q) > 1)
            BY <2>6, <3>1, Zenon
          <6>2. x \in 1..Len(q)
            BY <3>2
          <6> QED
            BY <3>2, <6>1, <6>2
        <5>2. q # <<>>
          <6> SUFFICES ASSUME q = <<>> PROVE FALSE
            OBVIOUS
          <6>1. Len(q) = 0
            BY <3>2, EmptySeq
          <6> QED
            BY <5>1, <6>1
        <5> QED
          BY <5>1, <5>2
    <3>5. ToSet(q) = {p} /\ p = q[1]
      <4>1. DOMAIN q = {1}
        BY <3>2, <3>4
      <4>2. ToSet(q) = {q[1]}
        BY <4>1 DEF ToSet
      <4> QED
        BY <3>3, <4>2
    <3>6. p = FirstParent(h, j) /\ p \in 1..n
      <4>1. FirstParent(h, j) = q[1]
        BY <3>1, <3>4, Zenon DEF FirstParent
      <4>2. p \in (j+1)..n
        BY <2>5, <3>1, <3>3 DEF IsHistory, ParentsBelow
      <4> QED
        BY <2>5, <3>5, <4>1, <4>2
    <3>7. p \in h.below[j]
      BY <2>5, <3>1, <3>3, <3>6, Ancestry DEF IsHistory
    <3>8. phase[p] = "draft"
      BY <1>3, <1>5, <2>5, <3>3, <3>6, <3>7 DEF Phased
    <3>9. p \in C
      BY <1>5, <2>5, <3>1, <3>5, <3>6, <3>8
    <3>10. k # 1
      BY <1>9, <2>4, <3>6, <3>9
    <3>11. k - 1 \in 1..Len(line) - 1 /\ k - 1 \in 1..Len(line) /\ (k - 1) + 1 = k
      BY <1>8, <2>3, <3>10
    <3>12. line[k-1] = p
      BY <1>9, <2>4, <3>6, <3>11
    <3>13. k - 1 \in K
      BY <3>3, <3>11, <3>12
    <3> QED
      BY <1>8, <2>3, <3>13
  <2> QED
    BY <2>5, <2>6
<1> QED
  BY <1>10, <1>11

\* Each step replaces a head.
LEMMA HeadsReplaced ==
    ASSUME NEW n \in Nat, NEW h, IsHistory(h, n), NEW phase, Phased(h, n, phase), NEW dot \in 1..n,
           ~UnrelatedDraft(h, phase, dot)
    PROVE  StepsReplaceHeads(h, phase, dot)
<1> DEFINE public == OfPhase(h.below[dot], phase, "public")
           draftRoots == OfPhase(roots(h, h.below[dot]), phase, "draft")
<1>1. PICK line : line = oneByOneLine(h, phase, dot)
  OBVIOUS
<1>2. PICK C : C = pushCandidates(h, phase, dot)
  OBVIOUS
<1> DEFINE earlier(k) == public \cup UNION {h.below[line[j]] : j \in 1..k - 1}
<1> SUFFICES ASSUME NEW k \in DOMAIN line
             PROVE  /\ earlier(k) # {} => heads(h, earlier(k)) \cap h.below[line[k]] # {}
                    /\ line[k] \notin earlier(k)
                    /\ \A j \in DOMAIN line : line[j] \in h.below[line[k]] => j <= k
  BY <1>1 DEF StepsReplaceHeads
<1>3. C \in SUBSET (1..n) /\ \A i \in C : phase[i] = "draft"
  BY <1>2, Candidates
<1>4. C # {}
  <2>1. SUFFICES ASSUME line = <<>> PROVE FALSE
    BY <1>1, <1>2, LineIs
  <2> QED
    BY <2>1
<1>5. PICK newest \in C : IsLine(line, h, C, newest)
  BY <1>1, <1>2, <1>4, LineIs
<1>6. /\ Len(line) \in Nat /\ DOMAIN line = 1..Len(line) /\ \A m \in 1..Len(line) : line[m] \in C
      /\ \A m \in 1..Len(line) : \A j \in 1..m : line[m] <= line[j] /\ h.below[line[j]] \subseteq h.below[line[m]]
      /\ \A m \in 1..Len(line) : \A j \in 1..m - 1 : line[m] < line[j]
  BY <1>3, <1>5, LineDescends
<1>7. k \in 1..Len(line) /\ line[k] \in 1..n /\ phase[line[k]] = "draft"
  BY <1>3, <1>6
<1>8. \A i \in 1..n : i \in h.below[i] /\ h.below[i] \subseteq i..n
  BY Ancestry
<1>9. \A j \in DOMAIN line : line[j] \in h.below[line[k]] => j <= k
  <2> SUFFICES ASSUME NEW j \in 1..Len(line), line[j] \in h.below[line[k]], j > k PROVE FALSE
    BY <1>6
  <2>1. k \in 1..j - 1
    BY <1>6, <1>7
  <2>2. line[j] < line[k]
    BY <1>6, <2>1
  <2>3. line[j] \in line[k]..n
    BY <1>7, <1>8
  <2> QED
    BY <1>7, <2>2, <2>3
<1>10. \A j \in 1..k - 1 : j \in 1..Len(line) /\ line[k] < line[j] /\ line[j] \in 1..n /\ h.below[line[j]] \subseteq line[j]..n
  <2> SUFFICES ASSUME NEW j \in 1..k - 1
               PROVE  j \in 1..Len(line) /\ line[k] < line[j] /\ line[j] \in 1..n /\ h.below[line[j]] \subseteq line[j]..n
    OBVIOUS
  <2>1. j \in 1..Len(line)
    BY <1>6, <1>7
  <2>2. line[j] \in 1..n
    BY <1>3, <1>6, <2>1
  <2> QED
    BY <1>6, <1>7, <1>8, <2>1, <2>2
<1>11. line[k] \notin earlier(k)
  <2>1. line[k] \notin public
    BY <1>7 DEF OfPhase
  <2>2. \A j \in 1..k - 1 : line[k] \notin h.below[line[j]]
    BY <1>7, <1>10
  <2> QED
    BY <2>1, <2>2
<1>12. ASSUME earlier(k) # {} PROVE heads(h, earlier(k)) \cap h.below[line[k]] # {}
  <2>1. CASE k = 1
    <3>1. earlier(k) = public
      <4>1. 1..k - 1 = {}
        BY <2>1
      <4> HIDE DEF public
      <4> QED
        BY <4>1
    <3>2. draftRoots = {}
      BY <1>12, <3>1 DEF UnrelatedDraft
    <3>3. h.below[line[k]] \cap (heads(h, public) \cup draftRoots) # {}
      BY <1>2, <1>6, <1>7 DEF pushCandidates, descendants
    <3> HIDE DEF public, draftRoots, earlier
    <3> QED
      BY <3>1, <3>2, <3>3
  <2>2. CASE k # 1
    <3>1. k - 1 \in 1..k - 1 /\ k - 1 \in 1..Len(line) /\ k - 1 \in 1..k
      BY <1>6, <1>7, <2>2
    <3>2. PICK last : last = line[k-1]
      OBVIOUS
    <3>3. last \in C /\ last \in 1..n /\ phase[last] = "draft" /\ last \in h.below[last] /\ h.below[last] \subseteq h.below[line[k]]
      BY <1>3, <1>6, <1>7, <1>8, <3>1, <3>2
    <3>4. last \in earlier(k)
      BY <3>1, <3>2, <3>3
    <3>5. ASSUME NEW x \in earlier(k), last \in h.below[x] PROVE last = x
      <4>1. CASE x \in public
        <5>1. x \in 1..n /\ phase[x] = "public"
          BY <1>8, <4>1 DEF OfPhase
        <5> QED
          BY <3>3, <3>5, <5>1 DEF Phased
      <4>2. CASE x \notin public
        <5>1. PICK j \in 1..k - 1 : x \in h.below[line[j]]
          BY <3>5, <4>2
        <5>2. x \in line[j]..n /\ line[j] \in 1..n
          BY <1>10, <5>1
        <5>3. last <= line[j]
          <6>1. j \in 1..k - 1 /\ k - 1 \in 1..Len(line)
            BY <3>1
          <6> QED
            BY <1>6, <3>2, <6>1
        <5>4. last \in x..n
          BY <1>8, <3>5, <5>2
        <5> QED
          BY <3>3, <5>2, <5>3, <5>4
      <4> QED
        BY <4>1, <4>2
    <3> HIDE DEF earlier
    <3>6. last \in heads(h, earlier(k))
      BY <3>4, <3>5 DEF heads
    <3> QED
      BY <3>3, <3>6
  <2> QED
    BY <2>1, <2>2
<1> QED
  BY <1>9, <1>11, <1>12

LEMMA ListingGrows ==
    ASSUME Listing, NEW parents \in Parents, Len(commits) < Len(ShaOf),
           commits' = <<[sha |-> ShaOf[Len(commits) + 1], parents |-> parents]>> \o commits
    PROVE  Listing'
<1>1. PICK n : n = Len(commits)
  OBVIOUS
<1>2. /\ n \in Nat /\ DOMAIN commits = 1..n /\ Len(ShaOf) \in Nat
      /\ \A m \in 1..Len(ShaOf) : ShaOf[m] \in Range(ShaOf)
  BY <1>1, NamesAssumption, LenProperties DEF Listing, Range
<1>3. PICK c : c = [sha |-> ShaOf[n + 1], parents |-> parents]
  OBVIOUS
<1>4. parents \in Seq(Range(ShaOf) \cup Unlisted)
      /\ \A k \in 1..Len(parents) : parents[k] \in Unlisted \/ \E m \in 1..n : parents[k] = ShaOf[m]
  <2>1. PICK m \in 0..MaxParents : parents \in [1..m -> ListedShas \cup Unlisted]
    BY DEF Parents
  <2>2. m \in Nat
    BY <2>1
  <2>3. \A x \in ListedShas : \E i \in 1..n : x = ShaOf[i]
    <3> SUFFICES ASSUME NEW x \in ListedShas PROVE \E i \in 1..n : x = ShaOf[i]
      OBVIOUS
    <3>1. PICK j \in 1..n : x = commits[j].sha
      BY <1>2 DEF ListedShas
    <3>2. x = ShaOf[n + 1 - j]
      BY <1>1, <3>1 DEF Listing
    <3>3. n + 1 - j \in 1..n
      BY <1>2
    <3> QED
      BY <3>2, <3>3
  <2>4. \A x \in ListedShas : x \in Range(ShaOf)
    <3> SUFFICES ASSUME NEW x \in ListedShas PROVE x \in Range(ShaOf)
      OBVIOUS
    <3>1. PICK i \in 1..n : x = ShaOf[i]
      BY <2>3
    <3>2. i \in 1..Len(ShaOf)
      BY <1>1, <1>2
    <3> QED
      BY <1>2, <3>1, <3>2
  <2>5. parents \in [1..m -> Range(ShaOf) \cup Unlisted]
    BY <2>1, <2>4
  <2>6. parents \in Seq(Range(ShaOf) \cup Unlisted) /\ Len(parents) = m
    BY <2>2, <2>5
  <2>7. \A k \in 1..m : parents[k] \in ListedShas \/ parents[k] \in Unlisted
    BY <2>1
  <2> QED
    BY <2>3, <2>6, <2>7
<1>5. c \in ListedCommit /\ c.parents = parents /\ c.sha = ShaOf[n + 1]
  <2>1. n + 1 \in 1..Len(ShaOf)
    BY <1>1, <1>2
  <2> QED
    BY <1>2, <1>3, <1>4, <2>1 DEF ListedCommit
<1>6. PICK next : next = commits'
  OBVIOUS
<1>7. next \in Seq(ListedCommit) /\ Len(next) = n + 1 /\ next[1] = c
      /\ \A i \in 2..n + 1 : next[i] = commits[i - 1]
  <2>1. <<c>> \in Seq(ListedCommit) /\ Len(<<c>>) = 1 /\ <<c>>[1] = c
    BY <1>5
  <2>2. commits \in Seq(ListedCommit) /\ next = <<c>> \o commits
    BY <1>1, <1>3, <1>6 DEF Listing
  <2>3. next \in Seq(ListedCommit) /\ Len(next) = 1 + n
        /\ \A i \in 1..(1 + n) : next[i] = IF i <= 1 THEN <<c>>[i] ELSE commits[i - 1]
    BY <1>1, <2>1, <2>2, ConcatProperties
  <2>4. 1 \in 1..(1 + n) /\ \A i \in 2..n + 1 : i \in 1..(1 + n) /\ ~(i <= 1)
    BY <1>2
  <2> QED
    BY <1>2, <2>1, <2>3, <2>4
<1>8. \A i \in 1..n + 1 : i = 1 \/ (i \in 2..n + 1 /\ i - 1 \in 1..n)
  BY <1>2
<1>9. ASSUME NEW i \in 1..n + 1
      PROVE  /\ next[i].sha = ShaOf[(n + 1) + 1 - i]
             /\ \A k \in 1..Len(next[i].parents) :
                   \/ next[i].parents[k] \in Unlisted
                   \/ \E m \in 1..(n + 1) - i : next[i].parents[k] = ShaOf[m]
  <2>1. CASE i = 1
    <3>1. next[i] = c /\ (n + 1) + 1 - i = n + 1 /\ (n + 1) - i = n
      BY <1>2, <1>7, <2>1
    <3> QED
      BY <1>4, <1>5, <3>1
  <2>2. CASE i # 1
    <3>1. PICK j : j = i - 1
      OBVIOUS
    <3>2. j \in 1..n /\ next[i] = commits[j] /\ (n + 1) + 1 - i = n + 1 - j /\ (n + 1) - i = n - j
      BY <1>2, <1>7, <1>8, <2>2, <3>1
    <3>3. /\ commits[j].sha = ShaOf[n + 1 - j]
          /\ \A k \in 1..Len(commits[j].parents) :
                \/ commits[j].parents[k] \in Unlisted
                \/ \E m \in 1..n - j : commits[j].parents[k] = ShaOf[m]
      BY <1>1, <3>2 DEF Listing
    <3> QED
      BY <3>2, <3>3
  <2> QED
    BY <2>1, <2>2
<1>10. Len(next) = n + 1 /\ n + 1 <= Len(ShaOf)
  BY <1>1, <1>2, <1>7
<1>11. \A i \in 1..n + 1 : IsInjective(next[i].parents)
  <2>1. \A j \in 1..n : IsInjective(commits[j].parents)
    BY <1>1 DEF Listing
  <2>2. IsInjective(parents)
    BY DEF Parents
  <2> QED
    BY <1>5, <1>7, <1>8, <2>1, <2>2
<1> QED
  <2>1. Len(next) = n + 1 /\ Len(next) <= Len(ShaOf)
    BY <1>10
  <2>2. ASSUME NEW i \in 1..Len(next)
        PROVE  /\ next[i].sha = ShaOf[Len(next) + 1 - i]
               /\ \A k \in 1..Len(next[i].parents) :
                     \/ next[i].parents[k] \in Unlisted
                     \/ \E m \in 1..Len(next) - i : next[i].parents[k] = ShaOf[m]
    <3>1. i \in 1..n + 1
      BY <2>1
    <3> QED
      BY <1>9, <2>1, <3>1, Zenon
  <2>3. \A i \in 1..Len(next) : IsInjective(next[i].parents)
    BY <1>10, <1>11
  <2> QED
    BY <1>6, <1>7, <2>1, <2>2, <2>3 DEF Listing

LEMMA PhasesRise ==
    ASSUME NEW n \in Nat, NEW h, IsHistory(h, n), NEW phase \in Phases(h)
    PROVE  Phased(h, n, phase)
<1> DEFINE rank == [p \in {"public", "draft", "secret"} |->
                      CASE p = "public" -> 0 [] p = "draft" -> 1 [] p = "secret" -> 2]
<1>1. /\ phase \in [1..n -> {"public", "draft", "secret"}]
      /\ \A i \in 1..n : \A j \in h.below[i] : rank[phase[j]] <= rank[phase[i]]
  BY DEF Phases, IsHistory
<1>3. \A i \in 1..n : h.below[i] \subseteq 1..n
  BY Ancestry
<1>2. rank["public"] = 0 /\ rank["draft"] = 1 /\ rank["secret"] = 2
  OBVIOUS
<1> HIDE DEF rank
<1> QED
  <2>1. \A i \in 1..n : phase[i] = "public" \/ phase[i] = "draft" \/ phase[i] = "secret"
    BY <1>1
  <2>2. ASSUME NEW i \in 1..n, NEW j \in h.below[i]
        PROVE  /\ phase[i] = "public" => phase[j] = "public"
               /\ phase[i] = "draft" => phase[j] # "secret"
    <3>1. j \in 1..n
      BY <1>3
    <3>2. rank[phase[j]] <= rank[phase[i]]
      BY <1>1
    <3> QED
      BY <1>2, <2>1, <3>1, <3>2
  <2> QED
    BY <2>1, <2>2 DEF Phased

\* Whatever is listed is a listing.
LEMMA ListingStands == InputsSpec => []Listing
<1>1. InputsInit => Listing
  <2> SUFFICES ASSUME InputsInit PROVE Listing
    OBVIOUS
  <2>1. commits = <<>> /\ Len(ShaOf) \in Nat
    BY NamesAssumption, LenProperties DEF InputsInit
  <2>2. <<>> \in Seq(ListedCommit) /\ Len(<<>>) = 0
    OBVIOUS
  <2> QED
    BY <2>1, <2>2 DEF Listing
<1>2. Listing /\ [InputsNext]_inputs => Listing'
  <2> SUFFICES ASSUME Listing, [InputsNext]_inputs PROVE Listing'
    OBVIOUS
  <2>1. CASE AddCommit
    <3>1. PICK parents \in Parents :
             commits' = <<[sha |-> ShaOf[Len(commits) + 1], parents |-> parents]>> \o commits
      BY <2>1 DEF AddCommit
    <3>2. Len(commits) < Len(ShaOf)
      BY <2>1 DEF AddCommit
    <3> QED
      BY <3>1, <3>2, ListingGrows
  <2>2. CASE AddFile \/ AddHunk \/ AddLine \/ UNCHANGED inputs
    <3>1. commits' = commits
      BY <2>2 DEF AddFile, AddHunk, AddLine, inputs
    <3> QED
      BY <3>1 DEF Listing
  <2> QED
    BY <2>1, <2>2 DEF InputsNext
<1> QED
  BY <1>1, <1>2, PTL DEF InputsSpec

(***************************************************************************)
(* PushesAddNoHead, of any history and any phases and wherever dot is: a   *)
(* push one by one ('planPush') replaces a head with each of its steps and *)
(* leaves no draft behind, but where an unrelated draft root was merged in.*)
(***************************************************************************)
THEOREM StepsAddNoHead == InputsSpec => []PushesAddNoHead
<1>1. Listing => PushesAddNoHead
  <2> SUFFICES ASSUME Listing PROVE PushesAddNoHead
    OBVIOUS
  <2>1. PICK n : n = Len(commits)
    OBVIOUS
  <2>2. n \in Nat /\ DOMAIN commits = 1..n
    BY <2>1, LenProperties DEF Listing
  <2>3. PICK h : h = History(commits)
    OBVIOUS
  <2>4. IsHistory(h, n)
    BY <2>1, <2>3, HistoryOfListing
  <2>5. ASSUME NEW phase \in Phases(h), NEW dot \in 1..n
        PROVE  /\ UnrelatedDraft(h, phase, dot) \/ StepsReplaceHeads(h, phase, dot)
               /\ LinePublishesAll(h, phase, dot)
    <3>1. Phased(h, n, phase)
      BY <2>2, <2>4, PhasesRise
    <3> QED
      BY <2>2, <2>4, <3>1, AllPublished, HeadsReplaced
  <2> QED
    BY <2>2, <2>3, <2>5 DEF PushesAddNoHead
<1> QED
  BY <1>1, ListingStands, PTL

-------------------------------------------------------------------------------
(* The lanes, and what each step of a row makes of them.                     *)

Names == Range(ShaOf) \cup Unlisted
Lane == [waitingFor : Names \cup {NoSha}, chain : Nat, ahead : BOOLEAN]
Segment == [from : Nat, to : Nat, chain : Nat, ahead : BOOLEAN]
GraphState == [lanes : Seq(Lane), nextChain : Nat, lane : Nat, chain : Nat, ahead : BOOLEAN, segments : SUBSET Segment]

\* A lane never opened waits for nothing.
LaneAt(lanes, l) == IF l \in 1..Len(lanes) THEN lanes[l] ELSE Free
Wait(lanes, l) == LaneAt(lanes, l).waitingFor

LEMMA FreeIsLane == Free \in Lane /\ Free.waitingFor = NoSha
BY DEF Free, Lane

LEMMA LaneTyped ==
    ASSUME NEW lanes \in Seq(Lane), NEW l
    PROVE  LaneAt(lanes, l) \in Lane
<1>1. \A k \in 1..Len(lanes) : lanes[k] \in Lane
  BY LenProperties, ElementOfSeq
<1> QED
  BY <1>1, FreeIsLane DEF LaneAt

\* The first entry that passes a test, which SelectInSeq finds.
LEMMA FirstOne ==
    ASSUME NEW n \in Nat, NEW I \in SUBSET (1..n), NEW found, found = IF I # {} THEN Min(I) ELSE 0
    PROVE  \/ I = {} /\ found = 0
           \/ I # {} /\ found \in I
<1>1. I \in SUBSET (0..n)
  OBVIOUS
<1>2. I # {} => \E x \in I : \A y \in I : x <= y
  BY <1>1, LeastUpTo
<1> QED
  BY <1>2 DEF Min

LEMMA LaneWaiting ==
    ASSUME NEW lanes \in Seq(Lane), NEW sha \in Names
    PROVE  \/ laneWaitingFor(lanes, sha) = 0 /\ \A k \in Nat : Wait(lanes, k) # sha
           \/ laneWaitingFor(lanes, sha) \in 1..Len(lanes) /\ Wait(lanes, laneWaitingFor(lanes, sha)) = sha
<1> DEFINE I == {k \in 1..Len(lanes) : lanes[k].waitingFor = sha}
<1>1. Len(lanes) \in Nat /\ I \in SUBSET (1..Len(lanes))
  BY LenProperties
<1>2. laneWaitingFor(lanes, sha) = IF I # {} THEN Min(I) ELSE 0
  BY DEF laneWaitingFor, SelectInSeq
<1>3. sha # NoSha
  BY NamesAssumption DEF Names
<1>4. I = {} => \A k \in Nat : Wait(lanes, k) # sha
  BY <1>3 DEF Wait, LaneAt, Free
<1>5. \A k \in I : k \in 1..Len(lanes) /\ Wait(lanes, k) = sha
  BY DEF Wait, LaneAt
<1> HIDE DEF I
<1> QED
  BY <1>1, <1>2, <1>4, <1>5, FirstOne

LEMMA LaneOpen ==
    ASSUME NEW lanes \in Seq(Lane)
    PROVE  /\ leftmostFreeLane(lanes) \in 1..(Len(lanes) + 1)
           /\ Wait(lanes, leftmostFreeLane(lanes)) = NoSha
<1> DEFINE I == {k \in 1..Len(lanes) : lanes[k].waitingFor = NoSha}
           found == IF I # {} THEN Min(I) ELSE 0
<1>1. Len(lanes) \in Nat /\ I \in SUBSET (1..Len(lanes))
  BY LenProperties
<1>2. leftmostFreeLane(lanes) = IF found = 0 THEN Len(lanes) + 1 ELSE found
  BY DEF leftmostFreeLane, SelectInSeq
<1>3. \A k \in I : k \in 1..Len(lanes) /\ Wait(lanes, k) = NoSha
  BY DEF Wait, LaneAt
<1>4. Wait(lanes, Len(lanes) + 1) = NoSha
  BY <1>1 DEF Wait, LaneAt, Free
<1>5. (I = {} /\ found = 0) \/ (I # {} /\ found \in I)
  <2> HIDE DEF I
  <2> QED
    BY <1>1, FirstOne
<1> HIDE DEF I, found
<1>6. CASE found = 0
  BY <1>1, <1>2, <1>4, <1>6
<1>7. CASE found # 0
  <2>1. found \in I /\ leftmostFreeLane(lanes) = found
    BY <1>2, <1>5, <1>7
  <2> QED
    BY <1>1, <1>3, <2>1
<1> QED
  BY <1>6, <1>7

LEMMA LanePut ==
    ASSUME NEW lanes \in Seq(Lane), NEW l \in 1..(Len(lanes) + 1), NEW lane \in Lane,
           NEW new, new = withLane(lanes, l, lane)
    PROVE  /\ new \in Seq(Lane) /\ Len(new) \in Nat /\ Len(lanes) <= Len(new) /\ l \in 1..Len(new)
           /\ \A k \in Nat : LaneAt(new, k) = IF k = l THEN lane ELSE LaneAt(lanes, k)
<1>2. PICK n : n = Len(lanes)
  OBVIOUS
<1>3. n \in Nat /\ \A k \in 1..n : lanes[k] \in Lane
  BY <1>2, LenProperties, ElementOfSeq
<1>4. CASE l > n
  <2>1. new = Append(lanes, lane) /\ l = n + 1
    BY <1>2, <1>3, <1>4 DEF withLane
  <2>2. /\ new \in Seq(Lane) /\ Len(new) = n + 1
        /\ \A k \in 1..n : new[k] = lanes[k]
        /\ new[n + 1] = lane
    BY <1>2, <2>1, AppendProperties
  <2>3. \A k \in 1..(n + 1) : k # l => k \in 1..n
    BY <1>3, <2>1
  <2> QED
    BY <1>2, <1>3, <2>1, <2>2, <2>3 DEF LaneAt
<1>5. CASE ~(l > n)
  <2>1. new = [lanes EXCEPT ![l] = lane] /\ l \in 1..n
    BY <1>2, <1>3, <1>5 DEF withLane
  <2>2. new \in Seq(Lane) /\ Len(new) = n /\ \A k \in 1..n : new[k] = IF k = l THEN lane ELSE lanes[k]
    BY <1>2, <1>3, <2>1, ExceptSeq
  <2> QED
    BY <1>2, <1>3, <2>1, <2>2 DEF LaneAt
<1> QED
  BY <1>4, <1>5

\* What a row changes, as its parts.
LEMMA Placed ==
    ASSUME NEW g \in GraphState, NEW c, c.sha \in Names
    PROVE  LET h == placeNode(g, c)
               X(k) == LaneAt(g.lanes, k)
           IN  /\ h \in GraphState /\ h.ahead = g.ahead /\ h.lane \in 1..Len(h.lanes)
               /\ Len(g.lanes) <= Len(h.lanes)
               /\ \A k \in Nat : LaneAt(h.lanes, k) = IF k = h.lane THEN Free ELSE X(k)
               /\ \/ /\ X(h.lane).waitingFor = c.sha
                     /\ h.chain = X(h.lane).chain /\ h.nextChain = g.nextChain
                     /\ h.segments = {segment(h.lane, Node, X(h.lane).chain, X(h.lane).ahead)}
                  \/ /\ \A k \in Nat : X(k).waitingFor # c.sha
                     /\ X(h.lane).waitingFor = NoSha
                     /\ h.chain = g.nextChain /\ h.nextChain = g.nextChain + 1 /\ h.segments = {}
<1>1. PICK h : h = placeNode(g, c)
  OBVIOUS
<1>2. PICK r : r = laneWaitingFor(g.lanes, c.sha)
  OBVIOUS
<1>3. g.lanes \in Seq(Lane) /\ g.nextChain \in Nat /\ g.ahead \in BOOLEAN /\ Len(g.lanes) \in Nat
  BY LenProperties DEF GraphState
<1>4. CASE r = 0
  <2>1. PICK l : l = leftmostFreeLane(g.lanes)
    OBVIOUS
  <2>2. h = [g EXCEPT !.lane = l, !.chain = g.nextChain, !.nextChain = @ + 1,
                      !.lanes = withLane(@, l, Free), !.segments = {}]
    BY <1>1, <1>2, <1>4, <2>1 DEF placeNode
  <2>3. /\ h.lane = l /\ h.chain = g.nextChain /\ h.nextChain = g.nextChain + 1
        /\ h.lanes = withLane(g.lanes, l, Free) /\ h.segments = {} /\ h.ahead = g.ahead
        /\ h = [lanes |-> h.lanes, nextChain |-> h.nextChain, lane |-> h.lane, chain |-> h.chain,
                ahead |-> h.ahead, segments |-> h.segments]
    BY <2>2 DEF GraphState
  <2>4. l \in 1..(Len(g.lanes) + 1) /\ Wait(g.lanes, l) = NoSha
    BY <1>3, <2>1, LaneOpen
  <2>5. /\ h.lanes \in Seq(Lane) /\ Len(g.lanes) <= Len(h.lanes) /\ l \in 1..Len(h.lanes)
        /\ \A k \in Nat : LaneAt(h.lanes, k) = IF k = l THEN Free ELSE LaneAt(g.lanes, k)
    <3>1. Free \in Lane /\ g.lanes \in Seq(Lane)
      BY <1>3, FreeIsLane
    <3> QED
      BY <2>3, <2>4, <3>1, LanePut
  <2>6. \A k \in Nat : Wait(g.lanes, k) # c.sha
    <3>1. r = 0 /\ ~(r \in 1..Len(g.lanes))
      BY <1>3, <1>4
    <3> QED
      BY <1>2, <1>3, <3>1, LaneWaiting
  <2>7. h \in GraphState
    <3>1. h.lane \in Nat /\ h.chain \in Nat /\ h.nextChain \in Nat /\ h.ahead \in BOOLEAN /\ h.segments \in SUBSET Segment
      BY <1>3, <2>3, <2>4
    <3> QED
      BY <2>3, <2>5, <3>1 DEF GraphState
  <2> QED
    BY <1>1, <2>3, <2>4, <2>5, <2>6, <2>7 DEF Wait
<1>5. CASE r # 0
  <2>1. r \in 1..Len(g.lanes) /\ Wait(g.lanes, r) = c.sha
    BY <1>2, <1>3, <1>5, LaneWaiting
  <2>2. h = [g EXCEPT !.lane = r, !.chain = g.lanes[r].chain, !.lanes[r] = Free,
                      !.segments = {segment(r, Node, g.lanes[r].chain, g.lanes[r].ahead)}]
    BY <1>1, <1>2, <1>5 DEF placeNode
  <2>3. /\ h.lane = r /\ h.chain = g.lanes[r].chain /\ h.nextChain = g.nextChain
        /\ h.lanes = [g.lanes EXCEPT ![r] = Free] /\ h.ahead = g.ahead
        /\ h.segments = {segment(r, Node, g.lanes[r].chain, g.lanes[r].ahead)}
        /\ h = [lanes |-> h.lanes, nextChain |-> h.nextChain, lane |-> h.lane, chain |-> h.chain,
                ahead |-> h.ahead, segments |-> h.segments]
    BY <2>2 DEF GraphState
  <2>4. h.lanes = withLane(g.lanes, r, Free) /\ LaneAt(g.lanes, r) = g.lanes[r] /\ g.lanes[r] \in Lane
    BY <1>3, <2>1, <2>3, ElementOfSeq DEF withLane, LaneAt
  <2>5. /\ h.lanes \in Seq(Lane) /\ Len(g.lanes) <= Len(h.lanes) /\ r \in 1..Len(h.lanes)
        /\ \A k \in Nat : LaneAt(h.lanes, k) = IF k = r THEN Free ELSE LaneAt(g.lanes, k)
    <3>1. Free \in Lane /\ g.lanes \in Seq(Lane) /\ r \in 1..(Len(g.lanes) + 1)
      BY <1>3, <2>1, FreeIsLane
    <3>2. PICK new : new = h.lanes
      OBVIOUS
    <3>3. PICK old : old = g.lanes
      OBVIOUS
    <3>4. old \in Seq(Lane) /\ r \in 1..(Len(old) + 1) /\ Free \in Lane /\ new = withLane(old, r, Free)
      BY <2>4, <3>1, <3>2, <3>3
    <3>5. PICK free : free = Free
      OBVIOUS
    <3>6. old \in Seq(Lane) /\ r \in 1..(Len(old) + 1) /\ free \in Lane /\ new = withLane(old, r, free)
      BY <3>4, <3>5
    <3>7. /\ new \in Seq(Lane) /\ Len(new) \in Nat /\ Len(old) <= Len(new) /\ r \in 1..Len(new)
          /\ \A k \in Nat : LaneAt(new, k) = IF k = r THEN free ELSE LaneAt(old, k)
      BY <3>6, LanePut, SMTT(60)
    <3> QED
      BY <3>2, <3>3, <3>5, <3>7
  <2>6. g.lanes[r].chain \in Nat /\ g.lanes[r].ahead \in BOOLEAN
    BY <2>4 DEF Lane
  <2>7. h \in GraphState
    <3>1. h.lane \in Nat /\ h.chain \in Nat /\ h.nextChain \in Nat /\ h.ahead \in BOOLEAN
      BY <1>3, <2>1, <2>3, <2>6
    <3>2. h.segments \in SUBSET Segment
      BY <1>3, <2>1, <2>3, <2>6 DEF Segment, segment, Node
    <3> QED
      BY <2>3, <2>5, <3>1, <3>2 DEF GraphState
  <2> QED
    BY <1>1, <2>1, <2>3, <2>4, <2>5, <2>7 DEF Wait
<1> QED
  BY <1>4, <1>5

\* The edge of the row's own commit to a lane.
LEMMA EdgeMade ==
    ASSUME NEW g \in GraphState, NEW t \in 1..Len(g.lanes)
    PROVE  LET h == ownEdge(g, t)
           IN  /\ h \in GraphState /\ h.lanes = g.lanes /\ h.nextChain = g.nextChain /\ h.lane = g.lane
               /\ h.chain = g.chain /\ h.ahead = g.ahead
               /\ h.segments = g.segments \cup {segment(Node, t, LaneAt(g.lanes, t).chain, g.ahead)}
<1>1. PICK h : h = ownEdge(g, t)
  OBVIOUS
<1>2. h = [g EXCEPT !.segments = @ \cup {segment(Node, t, g.lanes[t].chain, g.ahead)}] /\ LaneAt(g.lanes, t) = g.lanes[t]
  BY <1>1 DEF ownEdge, LaneAt
<1>3. /\ h.lanes = g.lanes /\ h.nextChain = g.nextChain /\ h.lane = g.lane /\ h.chain = g.chain /\ h.ahead = g.ahead
      /\ h.segments = g.segments \cup {segment(Node, t, LaneAt(g.lanes, t).chain, g.ahead)}
      /\ h = [lanes |-> h.lanes, nextChain |-> h.nextChain, lane |-> h.lane, chain |-> h.chain,
              ahead |-> h.ahead, segments |-> h.segments]
  BY <1>2 DEF GraphState
<1>4. LaneAt(g.lanes, t).chain \in Nat /\ t \in Nat /\ g.ahead \in BOOLEAN
  <2>1. g.lanes \in Seq(Lane) /\ g.ahead \in BOOLEAN
    BY DEF GraphState
  <2>2. LaneAt(g.lanes, t) \in Lane
    BY <2>1, LaneTyped
  <2> QED
    BY <2>1, <2>2 DEF Lane
<1>5. segment(Node, t, LaneAt(g.lanes, t).chain, g.ahead) \in Segment
  BY <1>4 DEF segment, Segment, Node
<1>6. h \in GraphState
  BY <1>3, <1>5 DEF GraphState
<1> QED
  BY <1>1, <1>3, <1>6

LEMMA LineOpened ==
    ASSUME NEW g \in GraphState, NEW t \in 1..(Len(g.lanes) + 1), NEW line \in Lane, NEW next \in Nat, NEW b,
           NEW new, new = withLane(g.lanes, t, line),
           b = [lanes |-> new, nextChain |-> next, lane |-> g.lane, chain |-> g.chain,
                ahead |-> g.ahead, segments |-> g.segments]
    PROVE  LET h == ownEdge(b, t)
           IN  /\ h \in GraphState /\ h.lane = g.lane /\ h.chain = g.chain /\ h.ahead = g.ahead
               /\ Len(g.lanes) <= Len(h.lanes) /\ t \in 1..Len(h.lanes) /\ h.nextChain = next
               /\ LaneAt(h.lanes, t) = line
               /\ \A k \in Nat : k # t => LaneAt(h.lanes, k) = LaneAt(g.lanes, k)
               /\ h.segments = g.segments \cup {segment(Node, t, line.chain, g.ahead)}
<1>1. PICK h : h = ownEdge(b, t)
  OBVIOUS
<1>2. /\ g.lanes \in Seq(Lane) /\ g.nextChain \in Nat /\ g.chain \in Nat /\ g.ahead \in BOOLEAN /\ Len(g.lanes) \in Nat
      /\ g.lane \in Nat /\ g.segments \in SUBSET Segment
  BY LenProperties DEF GraphState
<1>3. /\ b.lanes = new /\ b.nextChain = next
      /\ b.lane = g.lane /\ b.chain = g.chain /\ b.ahead = g.ahead /\ b.segments = g.segments
  OBVIOUS
<1>5. /\ new \in Seq(Lane) /\ Len(g.lanes) <= Len(new) /\ t \in 1..Len(new)
      /\ \A k \in Nat : LaneAt(new, k) = IF k = t THEN line ELSE LaneAt(g.lanes, k)
  <2>1. g.lanes \in Seq(Lane)
    BY <1>2
  <2> QED
    <3>1. new \in Seq(Lane) /\ Len(g.lanes) <= Len(new) /\ t \in 1..Len(new)
      BY <2>1, LanePut
    <3>2. \A k \in Nat : LaneAt(new, k) = IF k = t THEN line ELSE LaneAt(g.lanes, k)
      BY <2>1, LanePut
    <3> QED
      BY <3>1, <3>2
<1>6. b \in GraphState
  BY <1>2, <1>5 DEF GraphState
<1>7. /\ h \in GraphState /\ h.lanes = new /\ h.nextChain = next /\ h.lane = g.lane
      /\ h.chain = g.chain /\ h.ahead = g.ahead
      /\ h.segments = g.segments \cup {segment(Node, t, LaneAt(new, t).chain, g.ahead)}
  <2>1. t \in 1..Len(b.lanes)
    BY <1>3, <1>5
  <2> QED
    BY <1>1, <1>3, <1>6, <2>1, EdgeMade
<1>8. t \in Nat
  BY <1>2
<1>9. LaneAt(h.lanes, t) = line /\ \A k \in Nat : k # t => LaneAt(h.lanes, k) = LaneAt(g.lanes, k)
  BY <1>5, <1>7, <1>8
<1>10. h.segments = g.segments \cup {segment(Node, t, line.chain, g.ahead)}
  BY <1>7, <1>9
<1> QED
  BY <1>1, <1>5, <1>7, <1>9, <1>10

LEMMA LineTaken ==
    ASSUME NEW g \in GraphState, g.lane \in 1..Len(g.lanes), NEW parent \in Names,
           NEW t \in 1..Len(g.lanes), g.lane # t
    PROVE  LET h == takeLine(g, parent, t)
               given == LaneAt(g.lanes, t)
           IN  /\ h \in GraphState /\ h.lane = g.lane /\ h.chain = g.chain /\ h.ahead = g.ahead
               /\ Len(g.lanes) <= Len(h.lanes)
               /\ h.nextChain = g.nextChain
               /\ LaneAt(h.lanes, g.lane) = [waitingFor |-> parent, chain |-> g.chain, ahead |-> given.ahead /\ g.ahead]
               /\ LaneAt(h.lanes, t) = Free
               /\ \A k \in Nat : k # t /\ k # g.lane => LaneAt(h.lanes, k) = LaneAt(g.lanes, k)
               /\ \E n : h.segments = g.segments \cup {segment(t, g.lane, given.chain, given.ahead),
                                                       segment(Node, g.lane, n, g.ahead)}
<1>1. PICK given : given = g.lanes[t]
  OBVIOUS
<1>2. PICK line : line = [waitingFor |-> parent, chain |-> g.chain, ahead |-> given.ahead /\ g.ahead]
  OBVIOUS
<1>3. PICK b : b = [g EXCEPT !.lanes = [@ EXCEPT ![t] = Free, ![g.lane] = line],
                             !.segments = @ \cup {segment(t, g.lane, given.chain, given.ahead)}]
  OBVIOUS
<1>4. PICK h : h = takeLine(g, parent, t)
  OBVIOUS
<1>5. h = ownEdge(b, g.lane)
  BY <1>1, <1>2, <1>3, <1>4 DEF takeLine
<1>6. /\ g.lanes \in Seq(Lane) /\ g.nextChain \in Nat /\ g.chain \in Nat /\ g.ahead \in BOOLEAN /\ Len(g.lanes) \in Nat
      /\ g.lane \in Nat /\ g.segments \in SUBSET Segment
  BY LenProperties DEF GraphState
<1>7. given = LaneAt(g.lanes, t) /\ given \in Lane /\ given.chain \in Nat /\ given.ahead \in BOOLEAN
  BY <1>1, <1>6, LaneTyped DEF LaneAt, Lane
<1>8. line \in Lane
  BY <1>2, <1>6, <1>7 DEF Lane
<1>9. /\ b.lanes = [[g.lanes EXCEPT ![t] = Free] EXCEPT ![g.lane] = line]
      /\ b.nextChain = g.nextChain
      /\ b.lane = g.lane /\ b.chain = g.chain /\ b.ahead = g.ahead
      /\ b.segments = g.segments \cup {segment(t, g.lane, given.chain, given.ahead)}
      /\ b = [lanes |-> b.lanes, nextChain |-> b.nextChain, lane |-> b.lane, chain |-> b.chain,
              ahead |-> b.ahead, segments |-> b.segments]
  BY <1>3 DEF GraphState
<1>10. /\ b.lanes \in Seq(Lane) /\ Len(b.lanes) = Len(g.lanes)
       /\ \A k \in 1..Len(g.lanes) : b.lanes[k] = IF k = g.lane THEN line ELSE IF k = t THEN Free ELSE g.lanes[k]
  <2>1. PICK m : m = [g.lanes EXCEPT ![t] = Free]
    OBVIOUS
  <2>2. m \in Seq(Lane) /\ Len(m) = Len(g.lanes) /\ \A k \in 1..Len(g.lanes) : m[k] = IF k = t THEN Free ELSE g.lanes[k]
    BY <1>6, <2>1, FreeIsLane, ExceptSeq
  <2>3. b.lanes = [m EXCEPT ![g.lane] = line]
    BY <1>9, <2>1
  <2>4. b.lanes \in Seq(Lane) /\ Len(b.lanes) = Len(m) /\ \A k \in 1..Len(m) : b.lanes[k] = IF k = g.lane THEN line ELSE m[k]
    BY <1>8, <2>2, <2>3, ExceptSeq
  <2> QED
    BY <2>2, <2>4
<1>11. \A k \in Nat : LaneAt(b.lanes, k) = IF k = g.lane THEN line ELSE IF k = t THEN Free ELSE LaneAt(g.lanes, k)
  BY <1>6, <1>10 DEF LaneAt
<1>12. b \in GraphState
  <2>1. segment(t, g.lane, given.chain, given.ahead) \in Segment
    BY <1>6, <1>7 DEF segment, Segment
  <2> QED
    BY <1>6, <1>9, <1>10, <2>1 DEF GraphState
<1>13. /\ h \in GraphState /\ h.lanes = b.lanes /\ h.nextChain = b.nextChain /\ h.lane = b.lane
       /\ h.chain = b.chain /\ h.ahead = b.ahead
       /\ h.segments = b.segments \cup {segment(Node, g.lane, LaneAt(b.lanes, g.lane).chain, b.ahead)}
  BY <1>5, <1>10, <1>12, EdgeMade
<1>14. h.segments = g.segments \cup {segment(t, g.lane, given.chain, given.ahead),
                                     segment(Node, g.lane, LaneAt(b.lanes, g.lane).chain, g.ahead)}
  BY <1>9, <1>13
<1>15. t \in Nat
  BY <1>6
<1>16. Len(g.lanes) <= Len(h.lanes) /\ g.lane \in Nat
  BY <1>6, <1>10, <1>13
<1>17. /\ LaneAt(h.lanes, g.lane) = line /\ LaneAt(h.lanes, t) = Free
       /\ \A k \in Nat : k # t /\ k # g.lane => LaneAt(h.lanes, k) = LaneAt(g.lanes, k)
  BY <1>11, <1>13, <1>15, <1>16
<1>18. h.nextChain = g.nextChain /\ h.lane = g.lane /\ h.chain = g.chain /\ h.ahead = g.ahead
  BY <1>9, <1>13
<1> QED
  BY <1>2, <1>4, <1>7, <1>13, <1>14, <1>16, <1>17, <1>18

LEMMA LineJoined ==
    ASSUME NEW g \in GraphState, NEW t \in 1..Len(g.lanes)
    PROVE  LET h == joinLine(g, t)
               at == LaneAt(g.lanes, t)
           IN  /\ h \in GraphState /\ h.lane = g.lane /\ h.chain = g.chain /\ h.ahead = g.ahead
               /\ Len(g.lanes) <= Len(h.lanes)
               /\ h.nextChain = g.nextChain
               /\ LaneAt(h.lanes, t) = [waitingFor |-> at.waitingFor, chain |-> at.chain, ahead |-> at.ahead /\ g.ahead]
               /\ \A k \in Nat : k # t => LaneAt(h.lanes, k) = LaneAt(g.lanes, k)
               /\ \E n : h.segments = g.segments \cup {segment(Node, t, n, g.ahead)}
<1>1. PICK b : b = [g EXCEPT !.lanes[t].ahead = @ /\ g.ahead]
  OBVIOUS
<1>2. PICK h : h = joinLine(g, t)
  OBVIOUS
<1>3. h = ownEdge(b, t)
  BY <1>1, <1>2 DEF joinLine
<1>4. /\ g.lanes \in Seq(Lane) /\ g.nextChain \in Nat /\ g.chain \in Nat /\ g.ahead \in BOOLEAN /\ Len(g.lanes) \in Nat
      /\ g.lane \in Nat /\ g.segments \in SUBSET Segment
  BY LenProperties DEF GraphState
<1>5. PICK at : at = g.lanes[t]
  OBVIOUS
<1>6. at = LaneAt(g.lanes, t) /\ at \in Lane /\ at.waitingFor \in Names \cup {NoSha} /\ at.chain \in Nat /\ at.ahead \in BOOLEAN
  BY <1>4, <1>5, LaneTyped DEF LaneAt, Lane
<1>7. PICK line : line = [waitingFor |-> at.waitingFor, chain |-> at.chain, ahead |-> at.ahead /\ g.ahead]
  OBVIOUS
<1>8. line \in Lane
  BY <1>4, <1>6, <1>7 DEF Lane
<1>9. line = [at EXCEPT !.ahead = @ /\ g.ahead]
  BY <1>6, <1>7 DEF Lane
<1>10. /\ b.lanes = [g.lanes EXCEPT ![t] = [g.lanes[t] EXCEPT !.ahead = @ /\ g.ahead]]
       /\ b.nextChain = g.nextChain
       /\ b.lane = g.lane /\ b.chain = g.chain /\ b.ahead = g.ahead /\ b.segments = g.segments
       /\ b = [lanes |-> b.lanes, nextChain |-> b.nextChain, lane |-> b.lane, chain |-> b.chain,
               ahead |-> b.ahead, segments |-> b.segments]
  BY <1>1, <1>4, <1>6 DEF GraphState
<1>11. b.lanes = [g.lanes EXCEPT ![t] = line]
  BY <1>5, <1>9, <1>10
<1>12. /\ b.lanes \in Seq(Lane) /\ Len(b.lanes) = Len(g.lanes)
       /\ \A k \in 1..Len(g.lanes) : b.lanes[k] = IF k = t THEN line ELSE g.lanes[k]
  BY <1>4, <1>8, <1>11, ExceptSeq
<1>13. \A k \in Nat : LaneAt(b.lanes, k) = IF k = t THEN line ELSE LaneAt(g.lanes, k)
  BY <1>4, <1>12 DEF LaneAt
<1>14. b \in GraphState
  BY <1>4, <1>10, <1>12 DEF GraphState
<1>15. /\ h \in GraphState /\ h.lanes = b.lanes /\ h.nextChain = b.nextChain /\ h.lane = b.lane
       /\ h.chain = b.chain /\ h.ahead = b.ahead
       /\ h.segments = b.segments \cup {segment(Node, t, LaneAt(b.lanes, t).chain, b.ahead)}
  BY <1>3, <1>12, <1>14, EdgeMade
<1>16. t \in Nat
  BY <1>4
<1>17. Len(g.lanes) <= Len(h.lanes)
  BY <1>4, <1>12, <1>15
<1>18. /\ LaneAt(h.lanes, t) = line
       /\ \A k \in Nat : k # t => LaneAt(h.lanes, k) = LaneAt(g.lanes, k)
  BY <1>13, <1>15, <1>16
<1>19. h.nextChain = g.nextChain /\ h.lane = g.lane /\ h.chain = g.chain /\ h.ahead = g.ahead
  BY <1>10, <1>15
<1>20. h.segments = g.segments \cup {segment(Node, t, LaneAt(b.lanes, t).chain, g.ahead)}
  BY <1>10, <1>15
<1> QED
  BY <1>2, <1>6, <1>7, <1>15, <1>17, <1>18, <1>19, <1>20

-------------------------------------------------------------------------------
(* A row, once some of its parents are passed.                               *)

\* No two lanes wait for one commit, or are of one chain.
Apart(lanes) == \A k, l \in Nat : Wait(lanes, k) # NoSha /\ Wait(lanes, k) = Wait(lanes, l) => k = l
ChainsApart(g) ==
    \A k \in Nat : Wait(g.lanes, k) # NoSha =>
        /\ LaneAt(g.lanes, k).chain < g.nextChain
        /\ \A l \in Nat : Wait(g.lanes, l) # NoSha /\ LaneAt(g.lanes, k).chain = LaneAt(g.lanes, l).chain => k = l

(* What a row has of the lanes above it once m of its parents are passed.    *)
NoneYet(was, g, m) ==
    m = 0 => \A k \in Nat : LaneAt(g.lanes, k) = IF k = g.lane THEN Free ELSE LaneAt(was.lanes, k)

StillAwaited(was, c, g) ==
    \A k \in Nat : Wait(was.lanes, k) \notin {NoSha, c.sha} => \E l \in Nat : Wait(g.lanes, l) = Wait(was.lanes, k)

NodePlaced(was, c, g) ==
    /\ was.nextChain <= g.nextChain /\ g.chain < g.nextChain
    /\ \A k \in Nat : Wait(g.lanes, k) # NoSha /\ k # g.lane => LaneAt(g.lanes, k).chain # g.chain
    /\ \/ Wait(was.lanes, g.lane) = c.sha /\ g.chain = LaneAt(was.lanes, g.lane).chain
       \/ /\ \A k \in Nat : Wait(was.lanes, k) # c.sha
          /\ Wait(was.lanes, g.lane) = NoSha /\ was.nextChain <= g.chain

Origin(was, c, g, m, k) ==
    \/ Wait(was.lanes, k) = Wait(g.lanes, k) /\ LaneAt(was.lanes, k).chain = LaneAt(g.lanes, k).chain
    \/ k = g.lane /\ LaneAt(g.lanes, k).chain = g.chain /\ m # 0 /\ Wait(g.lanes, k) = c.parents[1]
    \/ /\ was.nextChain <= LaneAt(g.lanes, k).chain /\ LaneAt(g.lanes, k).chain # g.chain
       /\ \E p \in 1..m : Wait(g.lanes, k) = c.parents[p]
Origins(was, c, g, m) == \A k \in Nat : Wait(g.lanes, k) # NoSha => Wait(g.lanes, k) # c.sha /\ Origin(was, c, g, m, k)

OwnEdge(c, g, m, s) == s.from = Node /\ s.to # Node /\ \E p \in 1..m : Wait(g.lanes, s.to) = c.parents[p]
InEdge(was, c, g, s) ==
    /\ s.to = Node /\ s.from # Node /\ s.from = g.lane /\ Wait(was.lanes, s.from) = c.sha
    /\ s.ahead = LaneAt(was.lanes, s.from).ahead
TakenEdge(was, c, g, m, s) ==
    /\ s.from # Node /\ s.to = g.lane /\ m # 0 /\ Wait(g.lanes, s.to) = c.parents[1]
    /\ Wait(was.lanes, s.from) = c.parents[1] /\ s.from # s.to
    /\ s.ahead = LaneAt(was.lanes, s.from).ahead
Drawn(was, c, g, m) ==
    \A s \in g.segments : OwnEdge(c, g, m, s) \/ InEdge(was, c, g, s) \/ TakenEdge(was, c, g, m, s)

EdgesDrawn(c, g, m) ==
    \A p \in 1..m : \E s \in g.segments : s.from = Node /\ s.to # Node /\ Wait(g.lanes, s.to) = c.parents[p]

NoneTwice(segs) ==
    \A s, t \in segs : s.from = t.from /\ (s.from # Node \/ s.to = t.to) => s = t

LeftBehind(was, c, g) ==
    \A k \in Nat : \/ Wait(was.lanes, k) = NoSha
                   \/ Wait(was.lanes, k) # c.sha /\ Wait(g.lanes, k) = Wait(was.lanes, k)
                   \/ \E s \in g.segments : s.from = k

MarkOf(was, g, k) ==
    /\ Wait(was.lanes, k) = Wait(g.lanes, k) => LaneAt(was.lanes, k).ahead
    /\ \A s \in g.segments : s.to = k /\ s.from # Node => LaneAt(was.lanes, s.from).ahead
    /\ \A s \in g.segments : s.to = k /\ s.from = Node => g.ahead
MarkedSo(was, g) ==
    \A k \in Nat : Wait(g.lanes, k) # NoSha => (LaneAt(g.lanes, k).ahead <=> MarkOf(was, g, k))

Shaped(was, g) == g \in GraphState /\ g.lane \in 1..Len(g.lanes) /\ Len(was.lanes) <= Len(g.lanes)

Passing(was, c, g, m) ==
    /\ Shaped(was, g) /\ NoneYet(was, g, m) /\ Apart(g.lanes) /\ ChainsApart(g)
    /\ StillAwaited(was, c, g) /\ NodePlaced(was, c, g) /\ Origins(was, c, g, m)
    /\ Drawn(was, c, g, m) /\ EdgesDrawn(c, g, m) /\ NoneTwice(g.segments)
    /\ LeftBehind(was, c, g) /\ MarkedSo(was, g) /\ g.ahead = was.ahead

\* A commit as its listing has it.
Proper(c) ==
    /\ c.sha \in Names /\ c.parents \in Seq(Names) /\ Len(c.parents) \in Nat
    /\ \A p \in 1..Len(c.parents) : c.parents[p] \in Names /\ c.parents[p] # c.sha
    /\ \A p, q \in 1..Len(c.parents) : c.parents[p] = c.parents[q] => p = q

LEMMA PlacedPasses ==
    ASSUME NEW was \in GraphState, NEW c, Proper(c), Apart(was.lanes), ChainsApart(was)
    PROVE  Passing(was, c, placeNode(was, c), 0)
<1> DEFINE X(k) == LaneAt(was.lanes, k)
<1>1. PICK h : h = placeNode(was, c)
  OBVIOUS
<1>2. /\ h \in GraphState /\ h.ahead = was.ahead /\ h.lane \in 1..Len(h.lanes)
      /\ Len(was.lanes) <= Len(h.lanes)
      /\ \A k \in Nat : LaneAt(h.lanes, k) = IF k = h.lane THEN Free ELSE X(k)
      /\ \/ /\ X(h.lane).waitingFor = c.sha
            /\ h.chain = X(h.lane).chain /\ h.nextChain = was.nextChain
            /\ h.segments = {segment(h.lane, Node, X(h.lane).chain, X(h.lane).ahead)}
         \/ /\ \A k \in Nat : X(k).waitingFor # c.sha
            /\ X(h.lane).waitingFor = NoSha
            /\ h.chain = was.nextChain /\ h.nextChain = was.nextChain + 1 /\ h.segments = {}
  BY <1>1, Placed DEF Proper
<1>3. \A k \in Nat : Wait(h.lanes, k) = IF k = h.lane THEN NoSha ELSE Wait(was.lanes, k)
  BY <1>2, FreeIsLane DEF Wait
<1>4. h.lane \in Nat /\ h.lane # Node /\ was.nextChain \in Nat /\ h.chain \in Nat
  BY <1>2 DEF GraphState, Node
<1>5. c.sha # NoSha
  BY NamesAssumption DEF Proper, Names
<1>6. /\ \A k, l \in Nat : Wait(was.lanes, k) # NoSha /\ Wait(was.lanes, k) = Wait(was.lanes, l) => k = l
      /\ \A k \in Nat : Wait(was.lanes, k) # NoSha =>
            /\ X(k).chain < was.nextChain
            /\ \A l \in Nat : Wait(was.lanes, l) # NoSha /\ X(k).chain = X(l).chain => k = l
  BY DEF Apart, ChainsApart
<1>7. \/ /\ Wait(was.lanes, h.lane) = c.sha
         /\ h.chain = X(h.lane).chain /\ h.nextChain = was.nextChain
         /\ \A s \in h.segments : s.from = h.lane /\ s.to = Node /\ s.ahead = X(h.lane).ahead
         /\ \E s \in h.segments : s.from = h.lane
         /\ \A s, t \in h.segments : s = t
      \/ /\ \A k \in Nat : Wait(was.lanes, k) # c.sha
         /\ Wait(was.lanes, h.lane) = NoSha
         /\ h.chain = was.nextChain /\ h.nextChain = was.nextChain + 1 /\ h.segments = {}
  <2>1. CASE /\ X(h.lane).waitingFor = c.sha
             /\ h.chain = X(h.lane).chain /\ h.nextChain = was.nextChain
             /\ h.segments = {segment(h.lane, Node, X(h.lane).chain, X(h.lane).ahead)}
    <3>1. PICK e : e = segment(h.lane, Node, X(h.lane).chain, X(h.lane).ahead)
      OBVIOUS
    <3>2. e.from = h.lane /\ e.to = Node /\ e.ahead = X(h.lane).ahead
      BY <3>1 DEF segment
    <3> HIDE DEF X
    <3>3. h.segments = {e} /\ Wait(was.lanes, h.lane) = c.sha
      BY <2>1, <3>1 DEF Wait, X
    <3> QED
      BY <2>1, <3>2, <3>3
  <2>2. CASE /\ \A k \in Nat : X(k).waitingFor # c.sha
             /\ X(h.lane).waitingFor = NoSha
             /\ h.chain = was.nextChain /\ h.nextChain = was.nextChain + 1 /\ h.segments = {}
    BY <2>2 DEF Wait
  <2> QED
    BY <1>2, <2>1, <2>2
<1>8. \A k \in Nat : X(k).chain \in Nat
  <2>1. was.lanes \in Seq(Lane)
    BY DEF GraphState
  <2> QED
    BY <2>1, LaneTyped DEF Lane
<1>9. \A k \in Nat : k # h.lane => LaneAt(h.lanes, k) = X(k)
  BY <1>2
<1> HIDE DEF X
<1>10. Shaped(was, h) /\ NoneYet(was, h, 0)
  BY <1>2 DEF Shaped, NoneYet, X
<1>11. Apart(h.lanes)
  BY <1>3, <1>6 DEF Apart
<1>12. ChainsApart(h)
  <2> SUFFICES ASSUME NEW k \in Nat, Wait(h.lanes, k) # NoSha
               PROVE  /\ LaneAt(h.lanes, k).chain < h.nextChain
                      /\ \A l \in Nat : Wait(h.lanes, l) # NoSha /\ LaneAt(h.lanes, k).chain = LaneAt(h.lanes, l).chain => k = l
    BY DEF ChainsApart
  <2>1. k # h.lane /\ Wait(was.lanes, k) # NoSha /\ X(k).chain < was.nextChain /\ LaneAt(h.lanes, k) = X(k)
    BY <1>3, <1>6, <1>9
  <2>2. X(k).chain < h.nextChain
    BY <1>4, <1>7, <1>8, <2>1
  <2>3. \A l \in Nat : Wait(h.lanes, l) # NoSha => Wait(was.lanes, l) # NoSha /\ LaneAt(h.lanes, l) = X(l)
    BY <1>3, <1>9
  <2> QED
    BY <1>6, <2>1, <2>2, <2>3
<1>13. StillAwaited(was, c, h)
  BY <1>3, <1>4, <1>7 DEF StillAwaited
<1>14. NodePlaced(was, c, h)
  <2>1. \A k \in Nat : Wait(h.lanes, k) # NoSha /\ k # h.lane => LaneAt(h.lanes, k).chain # h.chain
    <3> SUFFICES ASSUME NEW k \in Nat, Wait(h.lanes, k) # NoSha, k # h.lane PROVE X(k).chain # h.chain
      BY <1>9
    <3>1. Wait(was.lanes, k) # NoSha
      BY <1>3
    <3> QED
      BY <1>4, <1>5, <1>6, <1>7, <1>8, <3>1
  <2>2. was.nextChain <= h.nextChain /\ h.chain < h.nextChain
    BY <1>4, <1>5, <1>6, <1>7
  <2> QED
    BY <1>4, <1>7, <2>1, <2>2 DEF NodePlaced, X
<1>15. Origins(was, c, h, 0)
  <2> SUFFICES ASSUME NEW k \in Nat, Wait(h.lanes, k) # NoSha PROVE Wait(h.lanes, k) # c.sha /\ Origin(was, c, h, 0, k)
    BY DEF Origins
  <2>1. k # h.lane /\ Wait(was.lanes, k) = Wait(h.lanes, k) /\ LaneAt(h.lanes, k) = LaneAt(was.lanes, k)
    BY <1>3, <1>9 DEF X
  <2>2. Wait(was.lanes, k) # c.sha
    BY <1>4, <1>6, <1>7, <2>1
  <2> QED
    BY <2>1, <2>2 DEF Origin
<1>16. Drawn(was, c, h, 0) /\ EdgesDrawn(c, h, 0) /\ NoneTwice(h.segments)
  BY <1>4, <1>7 DEF Drawn, EdgesDrawn, NoneTwice, InEdge, X
<1>17. LeftBehind(was, c, h)
  BY <1>3, <1>4, <1>6, <1>7 DEF LeftBehind
<1>18. MarkedSo(was, h)
  <2> SUFFICES ASSUME NEW k \in Nat, Wait(h.lanes, k) # NoSha PROVE LaneAt(h.lanes, k).ahead <=> MarkOf(was, h, k)
    BY DEF MarkedSo
  <2>1. k # h.lane /\ Wait(was.lanes, k) = Wait(h.lanes, k) /\ LaneAt(h.lanes, k) = LaneAt(was.lanes, k)
    BY <1>3, <1>9 DEF X
  <2>2. k # Node
    <3>1. Wait(h.lanes, 0) = NoSha
      BY DEF Wait, LaneAt, Free
    <3> QED
      BY <3>1 DEF Node
  <2>3. \A s \in h.segments : s.to # k
    BY <1>7, <2>2
  <2> QED
    BY <2>1, <2>3 DEF MarkOf
<1> QED
  BY <1>1, <1>2, <1>10, <1>11, <1>12, <1>13, <1>14, <1>15, <1>16, <1>17, <1>18 DEF Passing

\* What a row keeps, whichever lane a parent is passed to.
LEMMA PassingParts ==
    ASSUME NEW was \in GraphState, NEW c, Proper(c), NEW g, NEW m \in Nat, m < Len(c.parents), Passing(was, c, g, m)
    PROVE  /\ g \in GraphState /\ g.lane \in 1..Len(g.lanes) /\ g.lane \in Nat /\ g.lane # Node
           /\ was.nextChain \in Nat /\ g.nextChain \in Nat /\ g.chain \in Nat /\ g.ahead \in BOOLEAN
           /\ \A k \in Nat : LaneAt(g.lanes, k).chain \in Nat /\ LaneAt(g.lanes, k).ahead \in BOOLEAN
           /\ Wait(g.lanes, Node) = NoSha
           /\ \A s \in g.segments : s.from \in Nat /\ s.to \in Nat
           /\ c.sha # NoSha /\ \A p \in 1..Len(c.parents) : c.parents[p] # NoSha
           /\ c.parents[m + 1] \in Names /\ c.parents[m + 1] # c.sha
           /\ \A p \in 1..m : c.parents[p] # c.parents[m + 1]
           /\ \A p \in 1..m : p \in 1..(m + 1)
<1>1. g \in GraphState /\ g.lane \in 1..Len(g.lanes)
  BY DEF Passing, Shaped
<1>2. was.nextChain \in Nat /\ g.nextChain \in Nat /\ g.chain \in Nat /\ g.ahead \in BOOLEAN /\ g.lanes \in Seq(Lane)
      /\ g.segments \in SUBSET Segment
  BY <1>1 DEF GraphState
<1>3. \A k \in Nat : LaneAt(g.lanes, k).chain \in Nat /\ LaneAt(g.lanes, k).ahead \in BOOLEAN
  BY <1>2, LaneTyped DEF Lane
<1>4. Wait(g.lanes, Node) = NoSha
  BY DEF Wait, LaneAt, Free, Node
<1>5. \A s \in g.segments : s.from \in Nat /\ s.to \in Nat
  BY <1>2 DEF Segment
<1>6. c.sha # NoSha /\ \A p \in 1..Len(c.parents) : c.parents[p] # NoSha
  BY NamesAssumption DEF Proper, Names
<1>7. m + 1 \in 1..Len(c.parents) /\ \A p \in 1..m : p \in 1..Len(c.parents) /\ p # m + 1 /\ p \in 1..(m + 1)
  BY DEF Proper
<1>8. /\ c.parents[m + 1] \in Names /\ c.parents[m + 1] # c.sha
      /\ \A p \in 1..m : c.parents[p] # c.parents[m + 1]
  BY <1>7 DEF Proper
<1>9. g.lane \in Nat /\ g.lane # Node
  BY <1>1 DEF Node
<1> QED
  BY <1>1, <1>2, <1>3, <1>4, <1>5, <1>6, <1>7, <1>8, <1>9

LEMMA NewLinePasses ==
    ASSUME NEW was \in GraphState, NEW c, Proper(c), NEW g, NEW m \in Nat, m < Len(c.parents), Passing(was, c, g, m),
           \A k \in Nat : Wait(g.lanes, k) # c.parents[m + 1], NEW q, q = m + 1
    PROVE  Passing(was, c, newLine(g, c.parents[q], q = 1), q)
<1>1. PICK parent : parent = c.parents[m + 1]
  OBVIOUS
<1>2. PICK h : h = newLine(g, c.parents[q], q = 1)
  OBVIOUS
<1>3. /\ g \in GraphState /\ g.lane \in 1..Len(g.lanes) /\ g.lane \in Nat /\ g.lane # Node
      /\ was.nextChain \in Nat /\ g.nextChain \in Nat /\ g.chain \in Nat /\ g.ahead \in BOOLEAN
      /\ \A k \in Nat : LaneAt(g.lanes, k).chain \in Nat /\ LaneAt(g.lanes, k).ahead \in BOOLEAN
      /\ Wait(g.lanes, Node) = NoSha
      /\ \A s \in g.segments : s.from \in Nat /\ s.to \in Nat
      /\ c.sha # NoSha /\ \A p \in 1..Len(c.parents) : c.parents[p] # NoSha
      /\ parent \in Names /\ parent # c.sha
      /\ \A p \in 1..m : c.parents[p] # parent
      /\ \A p \in 1..m : p \in 1..(m + 1)
  BY <1>1, PassingParts
<1>24. PICK t : t = IF m = 0 THEN g.lane ELSE leftmostFreeLane(g.lanes)
  OBVIOUS
<1>25. PICK line : line = [waitingFor |-> parent, chain |-> IF m = 0 THEN g.chain ELSE g.nextChain, ahead |-> g.ahead]
  OBVIOUS
<1>26. PICK next : next = IF m = 0 THEN g.nextChain ELSE g.nextChain + 1
  OBVIOUS
<1>31. PICK new : new = withLane(g.lanes, t, line)
  OBVIOUS
<1>27. PICK b : b = [lanes |-> new, nextChain |-> next, lane |-> g.lane, chain |-> g.chain,
                     ahead |-> g.ahead, segments |-> g.segments]
  OBVIOUS
<1>28. h = ownEdge(b, t)
  <2>1. b = [g EXCEPT !.lanes = withLane(@, t, line), !.nextChain = IF m = 0 THEN @ ELSE @ + 1]
    <3>1. [g EXCEPT !.lanes = withLane(@, t, line), !.nextChain = IF m = 0 THEN @ ELSE @ + 1] =
             [lanes |-> withLane(g.lanes, t, line), nextChain |-> IF m = 0 THEN g.nextChain ELSE g.nextChain + 1,
              lane |-> g.lane, chain |-> g.chain, ahead |-> g.ahead, segments |-> g.segments]
      <4>1. PICK x : x = withLane(g.lanes, t, line)
        OBVIOUS
      <4>2. PICK y : y = IF m = 0 THEN g.nextChain ELSE g.nextChain + 1
        OBVIOUS
      <4>3. [g EXCEPT !.lanes = x, !.nextChain = y] =
               [lanes |-> x, nextChain |-> y,
                lane |-> g.lane, chain |-> g.chain, ahead |-> g.ahead, segments |-> g.segments]
        <5>1. PICK r : r = [g EXCEPT !.lanes = x, !.nextChain = y]
          OBVIOUS
        <5>2. /\ r.lanes = x /\ r.nextChain = y /\ r.lane = g.lane /\ r.chain = g.chain /\ r.ahead = g.ahead
              /\ r.segments = g.segments
              /\ r = [lanes |-> r.lanes, nextChain |-> r.nextChain, lane |-> r.lane, chain |-> r.chain,
                      ahead |-> r.ahead, segments |-> r.segments]
          BY <1>3, <5>1 DEF GraphState
        <5> QED
          BY <5>1, <5>2
      <4> QED
        BY <4>1, <4>2, <4>3
    <3> QED
      BY <1>26, <1>27, <1>31, <3>1
  <2>2. CASE m = 0
    <3>1. q = 1
      BY <2>2
    <3> QED
      BY <1>1, <1>2, <1>24, <1>25, <2>1, <2>2, <3>1 DEF newLine
  <2>3. CASE m # 0
    <3>1. q # 1
      BY <2>3
    <3> QED
      BY <1>1, <1>2, <1>24, <1>25, <2>1, <2>3, <3>1 DEF newLine
  <2> QED
    BY <2>2, <2>3
<1>29. t \in 1..(Len(g.lanes) + 1) /\ (m # 0 => Wait(g.lanes, t) = NoSha) /\ line \in Lane /\ next \in Nat
  <2>1. g.lanes \in Seq(Lane) /\ Len(g.lanes) \in Nat
    BY <1>3, LenProperties DEF GraphState
  <2>2. line \in Lane /\ next \in Nat
    BY <1>3, <1>25, <1>26 DEF Lane
  <2>3. leftmostFreeLane(g.lanes) \in 1..(Len(g.lanes) + 1) /\ Wait(g.lanes, leftmostFreeLane(g.lanes)) = NoSha
    BY <2>1, LaneOpen
  <2>4. g.lane \in 1..(Len(g.lanes) + 1)
    BY <1>3, <2>1
  <2> QED
    BY <1>24, <2>2, <2>3, <2>4
<1>30. /\ h \in GraphState /\ h.lane = g.lane /\ h.chain = g.chain /\ h.ahead = g.ahead
       /\ Len(g.lanes) <= Len(h.lanes) /\ t \in 1..Len(h.lanes) /\ h.nextChain = next
       /\ LaneAt(h.lanes, t) = line
       /\ \A k \in Nat : k # t => LaneAt(h.lanes, k) = LaneAt(g.lanes, k)
       /\ h.segments = g.segments \cup {segment(Node, t, line.chain, g.ahead)}
  <2>1. g \in GraphState /\ t \in 1..(Len(g.lanes) + 1) /\ line \in Lane /\ next \in Nat
    BY <1>3, <1>29
  <2> QED
    BY <1>27, <1>28, <1>31, <2>1, LineOpened
<1>4. /\ h \in GraphState /\ h.lane = g.lane /\ h.chain = g.chain /\ h.ahead = g.ahead
      /\ Len(g.lanes) <= Len(h.lanes) /\ t \in 1..Len(h.lanes)
      /\ h.nextChain = (IF m = 0 THEN g.nextChain ELSE g.nextChain + 1)
      /\ IF m = 0 THEN t = g.lane ELSE Wait(g.lanes, t) = NoSha
      /\ LaneAt(h.lanes, t) = [waitingFor |-> parent, chain |-> IF m = 0 THEN g.chain ELSE g.nextChain, ahead |-> g.ahead]
      /\ \A k \in Nat : k # t => LaneAt(h.lanes, k) = LaneAt(g.lanes, k)
  BY <1>24, <1>25, <1>26, <1>29, <1>30
<1>5. PICK e : h.segments = g.segments \cup {e} /\ e.from = Node /\ e.to = t
  <2>1. segment(Node, t, line.chain, g.ahead).from = Node /\ segment(Node, t, line.chain, g.ahead).to = t
    BY DEF segment
  <2> QED
    BY <1>30, <2>1
<1>6. t \in Nat /\ t # Node
  BY <1>4 DEF Node, GraphState
<1>7. Wait(g.lanes, t) = NoSha
  <2>1. CASE m = 0
    <3>1. LaneAt(g.lanes, g.lane) = Free
      BY <1>3, <2>1 DEF Passing, NoneYet
    <3> QED
      BY <1>4, <2>1, <3>1, FreeIsLane DEF Wait
  <2> QED
    BY <1>4, <2>1
<1>8. /\ \A k \in Nat : k # t => LaneAt(h.lanes, k) = LaneAt(g.lanes, k) /\ Wait(h.lanes, k) = Wait(g.lanes, k)
      /\ Wait(h.lanes, t) = parent /\ LaneAt(h.lanes, t).chain = (IF m = 0 THEN g.chain ELSE g.nextChain)
      /\ LaneAt(h.lanes, t).ahead = g.ahead
      /\ parent # NoSha
  BY <1>3, <1>4, NamesAssumption DEF Wait, Names
<1>9. \A k \in Nat : Wait(was.lanes, k) # parent
  BY <1>1, <1>3, <1>8 DEF Passing, StillAwaited
<1>10. \A k \in Nat : Wait(g.lanes, k) # NoSha => k # t
  BY <1>7
<1>11. \A s \in g.segments : s.to # t
  <2> SUFFICES ASSUME NEW s \in g.segments, s.to = t PROVE FALSE
    OBVIOUS
  <2>1. OwnEdge(c, g, m, s) \/ InEdge(was, c, g, s) \/ TakenEdge(was, c, g, m, s)
    BY DEF Passing, Drawn
  <2>2. ~InEdge(was, c, g, s)
    BY <1>6 DEF InEdge
  <2>3. m + 0 = m /\ \A p \in 1..m : p \in 1..Len(c.parents) /\ c.parents[p] # NoSha
    BY <1>3 DEF Proper
  <2>4. m # 0 => c.parents[1] # NoSha
    BY <2>3
  <2> QED
    BY <1>7, <2>1, <2>2, <2>3, <2>4 DEF OwnEdge, TakenEdge
<1>12. Shaped(was, h)
  <2>1. Len(was.lanes) <= Len(g.lanes) /\ g.lane \in 1..Len(g.lanes)
    BY DEF Passing, Shaped
  <2>2. Len(was.lanes) \in Nat /\ Len(g.lanes) \in Nat /\ Len(h.lanes) \in Nat
    BY <1>3, <1>4, LenProperties DEF GraphState
  <2> QED
    BY <1>4, <2>1, <2>2 DEF Shaped
<1>13. NoneYet(was, h, m + 1)
  BY DEF NoneYet
<1>14. Apart(h.lanes)
  BY <1>1, <1>8 DEF Passing, Apart
<1>15. ChainsApart(h)
  <2>1. \A k \in Nat : Wait(g.lanes, k) # NoSha =>
           /\ LaneAt(g.lanes, k).chain < g.nextChain
           /\ \A l \in Nat : Wait(g.lanes, l) # NoSha /\ LaneAt(g.lanes, k).chain = LaneAt(g.lanes, l).chain => k = l
    BY DEF Passing, ChainsApart
  <2>2. \A k \in Nat : Wait(g.lanes, k) # NoSha /\ k # g.lane => LaneAt(g.lanes, k).chain # g.chain
    BY DEF Passing, NodePlaced
  <2>3. g.chain < g.nextChain
    BY DEF Passing, NodePlaced
  <2>4. \A k \in Nat : k # t /\ Wait(h.lanes, k) # NoSha => LaneAt(h.lanes, k).chain # LaneAt(h.lanes, t).chain
    <3> SUFFICES ASSUME NEW k \in Nat, k # t, Wait(g.lanes, k) # NoSha PROVE LaneAt(g.lanes, k).chain # LaneAt(h.lanes, t).chain
      BY <1>8
    <3>1. CASE m = 0
      BY <1>4, <1>8, <2>2, <3>1
    <3>2. CASE m # 0
      BY <1>3, <1>8, <2>1, <3>2
    <3> QED
      BY <3>1, <3>2
  <2>5. \A k \in Nat : Wait(h.lanes, k) # NoSha => LaneAt(h.lanes, k).chain < h.nextChain
    <3> SUFFICES ASSUME NEW k \in Nat, Wait(h.lanes, k) # NoSha PROVE LaneAt(h.lanes, k).chain < h.nextChain
      OBVIOUS
    <3>1. CASE k = t
      BY <1>3, <1>4, <1>8, <2>3, <3>1
    <3>2. CASE k # t
      <4>1. LaneAt(h.lanes, k) = LaneAt(g.lanes, k) /\ LaneAt(g.lanes, k).chain < g.nextChain /\ g.nextChain <= h.nextChain
        BY <1>3, <1>4, <1>8, <2>1, <3>2
      <4>2. h.nextChain \in Nat
        BY <1>3, <1>4
      <4> QED
        BY <1>3, <4>1, <4>2
    <3> QED
      BY <3>1, <3>2
  <2> QED
    BY <1>8, <2>1, <2>4, <2>5 DEF ChainsApart
<1>16. StillAwaited(was, c, h)
  BY <1>8, <1>10 DEF Passing, StillAwaited
<1>17. NodePlaced(was, c, h)
  <2>1. \A k \in Nat : Wait(h.lanes, k) # NoSha /\ k # h.lane => LaneAt(h.lanes, k).chain # h.chain
    <3> SUFFICES ASSUME NEW k \in Nat, Wait(h.lanes, k) # NoSha, k # g.lane PROVE LaneAt(h.lanes, k).chain # g.chain
      BY <1>4
    <3>1. CASE k = t
      <4>1. m # 0
        BY <1>4, <3>1
      <4> QED
        BY <1>3, <1>8, <3>1, <4>1 DEF Passing, NodePlaced
    <3>2. CASE k # t
      BY <1>8, <3>2 DEF Passing, NodePlaced
    <3> QED
      BY <3>1, <3>2
  <2>2. was.nextChain <= h.nextChain /\ h.chain < h.nextChain
    BY <1>3, <1>4 DEF Passing, NodePlaced
  <2> QED
    BY <1>4, <2>1, <2>2 DEF Passing, NodePlaced
<1>18. Origins(was, c, h, m + 1)
  <2> SUFFICES ASSUME NEW k \in Nat, Wait(h.lanes, k) # NoSha PROVE Wait(h.lanes, k) # c.sha /\ Origin(was, c, h, m + 1, k)
    BY DEF Origins
  <2>1. CASE k = t
    <3>1. m = 0 => Origin(was, c, h, m + 1, k)
      BY <1>1, <1>4, <1>8, <2>1 DEF Origin
    <3>2. m # 0 => Origin(was, c, h, m + 1, k)
      <4>1. m + 1 \in 1..(m + 1) /\ was.nextChain <= g.nextChain /\ g.chain < g.nextChain
        BY DEF Passing, NodePlaced
      <4> QED
        BY <1>1, <1>3, <1>4, <1>8, <2>1, <4>1 DEF Origin
    <3> QED
      BY <1>3, <1>8, <2>1, <3>1, <3>2
  <2>2. CASE k # t
    <3>1. Wait(g.lanes, k) # c.sha /\ Origin(was, c, g, m, k)
      BY <1>8, <2>2 DEF Passing, Origins
    <3> QED
      BY <1>3, <1>4, <1>8, <2>2, <3>1 DEF Origin
  <2> QED
    BY <2>1, <2>2
<1>19. Drawn(was, c, h, m + 1)
  <2> SUFFICES ASSUME NEW s \in h.segments
               PROVE  OwnEdge(c, h, m + 1, s) \/ InEdge(was, c, h, s) \/ TakenEdge(was, c, h, m + 1, s)
    BY DEF Drawn
  <2>1. CASE s = e
    <3>1. m + 1 \in 1..(m + 1)
      OBVIOUS
    <3> QED
      BY <1>1, <1>5, <1>6, <1>8, <2>1, <3>1 DEF OwnEdge
  <2>2. CASE s \in g.segments
    <3>1. OwnEdge(c, g, m, s) \/ InEdge(was, c, g, s) \/ TakenEdge(was, c, g, m, s)
      BY <2>2 DEF Passing, Drawn
    <3>2. Wait(h.lanes, s.to) = Wait(g.lanes, s.to)
      BY <1>3, <1>8, <1>11, <2>2
    <3> QED
      BY <1>3, <1>4, <3>1, <3>2 DEF OwnEdge, InEdge, TakenEdge
  <2> QED
    BY <1>5, <2>1, <2>2
<1>20. EdgesDrawn(c, h, m + 1)
  <2> SUFFICES ASSUME NEW p \in 1..(m + 1)
               PROVE  \E s \in h.segments : s.from = Node /\ s.to # Node /\ Wait(h.lanes, s.to) = c.parents[p]
    BY DEF EdgesDrawn
  <2>1. CASE p = m + 1
    BY <1>1, <1>5, <1>6, <1>8, <2>1
  <2>2. CASE p # m + 1
    <3>1. p \in 1..m
      BY <2>2
    <3>2. PICK s \in g.segments : s.from = Node /\ s.to # Node /\ Wait(g.lanes, s.to) = c.parents[p]
      BY <3>1 DEF Passing, EdgesDrawn
    <3> QED
      BY <1>3, <1>5, <1>8, <1>11, <3>2
  <2> QED
    BY <2>1, <2>2
<1>21. NoneTwice(h.segments)
  BY <1>5, <1>11 DEF Passing, NoneTwice
<1>22. LeftBehind(was, c, h)
  <2> SUFFICES ASSUME NEW k \in Nat
               PROVE  \/ Wait(was.lanes, k) = NoSha
                      \/ Wait(was.lanes, k) # c.sha /\ Wait(h.lanes, k) = Wait(was.lanes, k)
                      \/ \E s \in h.segments : s.from = k
    BY DEF LeftBehind
  <2>1. \/ Wait(was.lanes, k) = NoSha
        \/ Wait(was.lanes, k) # c.sha /\ Wait(g.lanes, k) = Wait(was.lanes, k)
        \/ \E s \in g.segments : s.from = k
    BY DEF Passing, LeftBehind
  <2> QED
    BY <1>5, <1>7, <1>8, <2>1
<1>23. MarkedSo(was, h)
  <2> SUFFICES ASSUME NEW k \in Nat, Wait(h.lanes, k) # NoSha PROVE LaneAt(h.lanes, k).ahead <=> MarkOf(was, h, k)
    BY DEF MarkedSo
  <2>1. CASE k = t
    BY <1>3, <1>4, <1>5, <1>8, <1>9, <1>11, <2>1 DEF MarkOf
  <2>2. CASE k # t
    <3>1. LaneAt(g.lanes, k).ahead <=> MarkOf(was, g, k)
      BY <1>8, <2>2 DEF Passing, MarkedSo
    <3> QED
      BY <1>4, <1>5, <1>8, <2>2, <3>1 DEF MarkOf
  <2> QED
    BY <2>1, <2>2
<1>40. h.ahead = was.ahead
  BY <1>4 DEF Passing
<1> QED
  BY <1>1, <1>2, <1>12, <1>13, <1>14, <1>15, <1>16, <1>17, <1>18, <1>19, <1>20, <1>21, <1>22, <1>23, <1>40 DEF Passing

LEMMA JoinLinePasses ==
    ASSUME NEW was \in GraphState, NEW c, Proper(c), NEW g, NEW m \in Nat, m < Len(c.parents), Passing(was, c, g, m),
           NEW t \in 1..Len(g.lanes), Wait(g.lanes, t) = c.parents[m + 1]
    PROVE  Passing(was, c, joinLine(g, t), m + 1)
<1>1. PICK parent : parent = c.parents[m + 1]
  OBVIOUS
<1>2. PICK h : h = joinLine(g, t)
  OBVIOUS
<1>3. /\ g \in GraphState /\ g.lane \in 1..Len(g.lanes) /\ g.lane \in Nat /\ g.lane # Node
      /\ was.nextChain \in Nat /\ g.nextChain \in Nat /\ g.chain \in Nat /\ g.ahead \in BOOLEAN
      /\ \A k \in Nat : LaneAt(g.lanes, k).chain \in Nat /\ LaneAt(g.lanes, k).ahead \in BOOLEAN
      /\ Wait(g.lanes, Node) = NoSha
      /\ \A s \in g.segments : s.from \in Nat /\ s.to \in Nat
      /\ c.sha # NoSha /\ \A p \in 1..Len(c.parents) : c.parents[p] # NoSha
      /\ parent \in Names /\ parent # c.sha
      /\ \A p \in 1..m : c.parents[p] # parent
      /\ \A p \in 1..m : p \in 1..(m + 1)
  BY <1>1, PassingParts
<1>4. /\ h \in GraphState /\ h.lane = g.lane /\ h.chain = g.chain /\ h.ahead = g.ahead
      /\ Len(g.lanes) <= Len(h.lanes)
      /\ h.nextChain = g.nextChain
      /\ LaneAt(h.lanes, t) = [waitingFor |-> LaneAt(g.lanes, t).waitingFor, chain |-> LaneAt(g.lanes, t).chain,
                               ahead |-> LaneAt(g.lanes, t).ahead /\ g.ahead]
      /\ \A k \in Nat : k # t => LaneAt(h.lanes, k) = LaneAt(g.lanes, k)
      /\ \E n : h.segments = g.segments \cup {segment(Node, t, n, g.ahead)}
  <2>1. g \in GraphState
    BY <1>3
  <2> QED
    BY <1>2, <2>1, LineJoined
<1>5. PICK e : h.segments = g.segments \cup {e} /\ e.from = Node /\ e.to = t
  <2>1. PICK n : h.segments = g.segments \cup {segment(Node, t, n, g.ahead)}
    BY <1>4
  <2>2. segment(Node, t, n, g.ahead).from = Node /\ segment(Node, t, n, g.ahead).to = t
    BY DEF segment
  <2> QED
    BY <2>1, <2>2
<1>6. t \in Nat /\ t # Node
  BY <1>3 DEF Node, GraphState
<1>7. /\ \A k \in Nat : Wait(h.lanes, k) = Wait(g.lanes, k) /\ LaneAt(h.lanes, k).chain = LaneAt(g.lanes, k).chain
      /\ \A k \in Nat : k # t => LaneAt(h.lanes, k) = LaneAt(g.lanes, k)
      /\ LaneAt(h.lanes, t).ahead = (LaneAt(g.lanes, t).ahead /\ g.ahead)
      /\ Wait(g.lanes, t) = parent
  BY <1>1, <1>4, <1>6 DEF Wait
<1>8. parent # NoSha
  BY <1>3, NamesAssumption DEF Names
<1>9. \A s \in g.segments : s.from = Node => s.to # t
  <2> SUFFICES ASSUME NEW s \in g.segments, s.from = Node, s.to = t PROVE FALSE
    OBVIOUS
  <2>1. OwnEdge(c, g, m, s) \/ InEdge(was, c, g, s) \/ TakenEdge(was, c, g, m, s)
    BY DEF Passing, Drawn
  <2> QED
    BY <1>3, <1>7, <2>1 DEF OwnEdge, InEdge, TakenEdge
<1>10. Shaped(was, h)
  <2>1. Len(was.lanes) <= Len(g.lanes) /\ g.lane \in 1..Len(g.lanes)
    BY DEF Passing, Shaped
  <2>2. Len(was.lanes) \in Nat /\ Len(g.lanes) \in Nat /\ Len(h.lanes) \in Nat
    BY <1>3, <1>4, LenProperties DEF GraphState
  <2> QED
    BY <1>4, <2>1, <2>2 DEF Shaped
<1>11. NoneYet(was, h, m + 1)
  BY DEF NoneYet
<1>12. Apart(h.lanes) /\ StillAwaited(was, c, h)
  BY <1>7 DEF Passing, Apart, StillAwaited
<1>13. ChainsApart(h)
  BY <1>4, <1>7 DEF Passing, ChainsApart
<1>14. NodePlaced(was, c, h)
  BY <1>4, <1>7 DEF Passing, NodePlaced
<1>15. Origins(was, c, h, m + 1)
  <2> SUFFICES ASSUME NEW k \in Nat, Wait(h.lanes, k) # NoSha PROVE Wait(h.lanes, k) # c.sha /\ Origin(was, c, h, m + 1, k)
    BY DEF Origins
  <2>1. Wait(g.lanes, k) # c.sha /\ Origin(was, c, g, m, k)
    BY <1>7 DEF Passing, Origins
  <2> QED
    BY <1>3, <1>4, <1>7, <2>1 DEF Origin
<1>16. Drawn(was, c, h, m + 1)
  <2> SUFFICES ASSUME NEW s \in h.segments
               PROVE  OwnEdge(c, h, m + 1, s) \/ InEdge(was, c, h, s) \/ TakenEdge(was, c, h, m + 1, s)
    BY DEF Drawn
  <2>1. CASE s = e
    <3>1. m + 1 \in 1..(m + 1)
      OBVIOUS
    <3> QED
      BY <1>1, <1>5, <1>6, <1>7, <2>1, <3>1 DEF OwnEdge
  <2>2. CASE s \in g.segments
    <3>1. OwnEdge(c, g, m, s) \/ InEdge(was, c, g, s) \/ TakenEdge(was, c, g, m, s)
      BY <2>2 DEF Passing, Drawn
    <3>2. Wait(h.lanes, s.to) = Wait(g.lanes, s.to)
      BY <1>3, <1>7, <2>2
    <3> QED
      BY <1>3, <1>4, <3>1, <3>2 DEF OwnEdge, InEdge, TakenEdge
  <2> QED
    BY <1>5, <2>1, <2>2
<1>17. EdgesDrawn(c, h, m + 1)
  <2> SUFFICES ASSUME NEW p \in 1..(m + 1)
               PROVE  \E s \in h.segments : s.from = Node /\ s.to # Node /\ Wait(h.lanes, s.to) = c.parents[p]
    BY DEF EdgesDrawn
  <2>1. CASE p = m + 1
    BY <1>1, <1>5, <1>6, <1>7, <2>1
  <2>2. CASE p # m + 1
    <3>1. p \in 1..m
      BY <2>2
    <3>2. PICK s \in g.segments : s.from = Node /\ s.to # Node /\ Wait(g.lanes, s.to) = c.parents[p]
      BY <3>1 DEF Passing, EdgesDrawn
    <3> QED
      BY <1>3, <1>5, <1>7, <3>2
  <2> QED
    BY <2>1, <2>2
<1>18. NoneTwice(h.segments)
  BY <1>5, <1>9 DEF Passing, NoneTwice
<1>19. LeftBehind(was, c, h)
  BY <1>5, <1>7 DEF Passing, LeftBehind
<1>20. MarkedSo(was, h)
  <2> SUFFICES ASSUME NEW k \in Nat, Wait(h.lanes, k) # NoSha PROVE LaneAt(h.lanes, k).ahead <=> MarkOf(was, h, k)
    BY DEF MarkedSo
  <2>1. LaneAt(g.lanes, k).ahead <=> MarkOf(was, g, k)
    BY <1>7 DEF Passing, MarkedSo
  <2>2. CASE k = t
    <3>1. MarkOf(was, h, k) <=> MarkOf(was, g, k) /\ g.ahead
      BY <1>4, <1>5, <1>6, <1>7, <1>9, <2>2 DEF MarkOf
    <3> QED
      BY <1>7, <2>1, <2>2, <3>1
  <2>3. CASE k # t
    <3>1. MarkOf(was, h, k) <=> MarkOf(was, g, k)
      BY <1>4, <1>5, <1>7, <2>3 DEF MarkOf
    <3> QED
      BY <1>7, <2>1, <2>3, <3>1
  <2> QED
    BY <2>2, <2>3
<1>40. h.ahead = was.ahead
  BY <1>4 DEF Passing
<1> QED
  BY <1>1, <1>2, <1>10, <1>11, <1>12, <1>13, <1>14, <1>15, <1>16, <1>17, <1>18, <1>19, <1>20, <1>40 DEF Passing

LEMMA TakeLinePasses ==
    ASSUME NEW was \in GraphState, NEW c, Proper(c), NEW g, 0 < Len(c.parents), Passing(was, c, g, 0),
           NEW t \in 1..Len(g.lanes), Wait(g.lanes, t) = c.parents[1]
    PROVE  Passing(was, c, takeLine(g, c.parents[1], t), 1)
<1>1. PICK parent : parent = c.parents[1]
  OBVIOUS
<1>2. PICK h : h = takeLine(g, parent, t)
  OBVIOUS
<1>3. /\ g \in GraphState /\ g.lane \in 1..Len(g.lanes) /\ g.lane \in Nat /\ g.lane # Node
      /\ was.nextChain \in Nat /\ g.nextChain \in Nat /\ g.chain \in Nat /\ g.ahead \in BOOLEAN
      /\ \A k \in Nat : LaneAt(g.lanes, k).chain \in Nat /\ LaneAt(g.lanes, k).ahead \in BOOLEAN
      /\ Wait(g.lanes, Node) = NoSha
      /\ \A s \in g.segments : s.from \in Nat /\ s.to \in Nat
      /\ c.sha # NoSha
      /\ parent \in Names /\ parent # c.sha
  BY <1>1, PassingParts
<1>4. parent # NoSha
  BY <1>3, NamesAssumption DEF Names
<1>5. /\ LaneAt(g.lanes, g.lane) = Free /\ Wait(g.lanes, g.lane) = NoSha
      /\ \A k \in Nat : k # g.lane => LaneAt(g.lanes, k) = LaneAt(was.lanes, k) /\ Wait(g.lanes, k) = Wait(was.lanes, k)
  BY <1>3, FreeIsLane DEF Passing, NoneYet, Wait
<1>6. t \in Nat /\ t # Node /\ t # g.lane /\ Wait(was.lanes, t) = parent /\ LaneAt(g.lanes, t) = LaneAt(was.lanes, t)
  <2>1. t \in Nat /\ t # Node
    BY <1>3 DEF Node, GraphState
  <2>2. t # g.lane
    BY <1>1, <1>4, <1>5
  <2> QED
    BY <1>1, <1>5, <2>1, <2>2
<1>7. /\ h \in GraphState /\ h.lane = g.lane /\ h.chain = g.chain /\ h.ahead = g.ahead
      /\ Len(g.lanes) <= Len(h.lanes)
      /\ h.nextChain = g.nextChain
      /\ LaneAt(h.lanes, g.lane) = [waitingFor |-> parent, chain |-> g.chain, ahead |-> LaneAt(g.lanes, t).ahead /\ g.ahead]
      /\ LaneAt(h.lanes, t) = Free
      /\ \A k \in Nat : k # t /\ k # g.lane => LaneAt(h.lanes, k) = LaneAt(g.lanes, k)
      /\ \E n : h.segments = g.segments \cup {segment(t, g.lane, LaneAt(g.lanes, t).chain, LaneAt(g.lanes, t).ahead),
                                              segment(Node, g.lane, n, g.ahead)}
  <2>1. g \in GraphState /\ g.lane \in 1..Len(g.lanes) /\ parent \in Names /\ g.lane # t
    BY <1>3, <1>6
  <2> QED
    BY <1>2, <2>1, LineTaken
<1>8. PICK e, d : /\ h.segments = g.segments \cup {d, e} /\ e.from = Node /\ e.to = g.lane
                  /\ d.from = t /\ d.to = g.lane /\ d.ahead = LaneAt(was.lanes, t).ahead
  <2>1. PICK n : h.segments = g.segments \cup {segment(t, g.lane, LaneAt(g.lanes, t).chain, LaneAt(g.lanes, t).ahead),
                                               segment(Node, g.lane, n, g.ahead)}
    BY <1>7
  <2>2. PICK e : e = segment(Node, g.lane, n, g.ahead)
    OBVIOUS
  <2>3. PICK d : d = segment(t, g.lane, LaneAt(g.lanes, t).chain, LaneAt(g.lanes, t).ahead)
    OBVIOUS
  <2>4. e.from = Node /\ e.to = g.lane
    BY <2>2 DEF segment
  <2>5. d.from = t /\ d.to = g.lane /\ d.ahead = LaneAt(was.lanes, t).ahead
    BY <1>6, <2>3 DEF segment
  <2> QED
    BY <2>1, <2>2, <2>3, <2>4, <2>5
<1>9. /\ \A k \in Nat : k # t /\ k # g.lane =>
            /\ LaneAt(h.lanes, k) = LaneAt(g.lanes, k) /\ Wait(h.lanes, k) = Wait(g.lanes, k)
            /\ LaneAt(h.lanes, k) = LaneAt(was.lanes, k) /\ Wait(h.lanes, k) = Wait(was.lanes, k)
      /\ Wait(h.lanes, g.lane) = parent /\ LaneAt(h.lanes, g.lane).chain = g.chain
      /\ LaneAt(h.lanes, g.lane).ahead = (LaneAt(was.lanes, t).ahead /\ g.ahead)
      /\ Wait(h.lanes, t) = NoSha
  <2>1. /\ \A k \in Nat : k # t /\ k # g.lane => LaneAt(h.lanes, k) = LaneAt(g.lanes, k) /\ Wait(h.lanes, k) = Wait(g.lanes, k)
        /\ Wait(h.lanes, t) = NoSha
    BY <1>7, FreeIsLane DEF Wait
  <2>2. /\ Wait(h.lanes, g.lane) = parent /\ LaneAt(h.lanes, g.lane).chain = g.chain
        /\ LaneAt(h.lanes, g.lane).ahead = (LaneAt(was.lanes, t).ahead /\ g.ahead)
    BY <1>6, <1>7 DEF Wait
  <2> QED
    BY <1>5, <2>1, <2>2
<1>10. \A s \in g.segments : InEdge(was, c, g, s) /\ s.to = Node
  <2>1. \A p \in 1..0 : FALSE
    OBVIOUS
  <2> QED
    BY <2>1 DEF Passing, Drawn, OwnEdge, TakenEdge, InEdge
<1>11. \A k \in Nat : k # g.lane /\ k # t => Wait(was.lanes, k) # parent
  BY <1>1, <1>4, <1>5, <1>6 DEF Passing, Apart
<1>12. Wait(was.lanes, g.lane) # parent /\ (Wait(was.lanes, g.lane) = c.sha \/ Wait(was.lanes, g.lane) = NoSha)
  BY <1>3, <1>4 DEF Passing, NodePlaced
<1>13. Shaped(was, h)
  <2>1. Len(was.lanes) <= Len(g.lanes) /\ g.lane \in 1..Len(g.lanes)
    BY DEF Passing, Shaped
  <2>2. Len(was.lanes) \in Nat /\ Len(g.lanes) \in Nat /\ Len(h.lanes) \in Nat
    BY <1>3, <1>7, LenProperties DEF GraphState
  <2> QED
    BY <1>7, <2>1, <2>2 DEF Shaped
<1>14. NoneYet(was, h, 1)
  BY DEF NoneYet
<1>15. Apart(h.lanes)
  <2> SUFFICES ASSUME NEW k \in Nat, NEW l \in Nat, Wait(h.lanes, k) # NoSha, Wait(h.lanes, k) = Wait(h.lanes, l) PROVE k = l
    BY DEF Apart
  <2>1. k # t /\ l # t
    BY <1>9
  <2>2. CASE k # g.lane /\ l # g.lane
    BY <1>9, <2>1, <2>2 DEF Passing, Apart
  <2>3. CASE k = g.lane \/ l = g.lane
    BY <1>9, <1>11, <2>1, <2>3
  <2> QED
    BY <2>2, <2>3
<1>16. ChainsApart(h)
  <2> SUFFICES ASSUME NEW k \in Nat, Wait(h.lanes, k) # NoSha
               PROVE  /\ LaneAt(h.lanes, k).chain < h.nextChain
                      /\ \A l \in Nat : Wait(h.lanes, l) # NoSha /\ LaneAt(h.lanes, k).chain = LaneAt(h.lanes, l).chain => k = l
    BY DEF ChainsApart
  <2>1. \A l \in Nat : Wait(h.lanes, l) # NoSha =>
           l = g.lane \/ (l # g.lane /\ Wait(g.lanes, l) # NoSha /\ LaneAt(h.lanes, l) = LaneAt(g.lanes, l))
    BY <1>9
  <2>2. \A l \in Nat : l # g.lane /\ Wait(g.lanes, l) # NoSha => LaneAt(g.lanes, l).chain # g.chain
    BY DEF Passing, NodePlaced
  <2>3. g.chain < g.nextChain
    BY DEF Passing, NodePlaced
  <2>4. \A i \in Nat : Wait(g.lanes, i) # NoSha =>
           /\ LaneAt(g.lanes, i).chain < g.nextChain
           /\ \A l \in Nat : Wait(g.lanes, l) # NoSha /\ LaneAt(g.lanes, i).chain = LaneAt(g.lanes, l).chain => i = l
    BY DEF Passing, ChainsApart
  <2>5. CASE k = g.lane
    BY <1>7, <1>9, <2>1, <2>2, <2>3, <2>5
  <2>6. CASE k # g.lane
    BY <1>7, <1>9, <2>1, <2>2, <2>4, <2>6
  <2> QED
    BY <2>5, <2>6
<1>17. StillAwaited(was, c, h)
  <2> SUFFICES ASSUME NEW k \in Nat, Wait(was.lanes, k) \notin {NoSha, c.sha} PROVE \E l \in Nat : Wait(h.lanes, l) = Wait(was.lanes, k)
    BY DEF StillAwaited
  <2>1. CASE k = t
    BY <1>3, <1>6, <1>9, <2>1
  <2>2. CASE k # t
    BY <1>9, <1>12, <2>2
  <2> QED
    BY <2>1, <2>2
<1>18. NodePlaced(was, c, h)
  <2>1. \A k \in Nat : Wait(h.lanes, k) # NoSha /\ k # h.lane => LaneAt(h.lanes, k).chain # h.chain
    BY <1>7, <1>9 DEF Passing, NodePlaced
  <2> QED
    BY <1>7, <2>1 DEF Passing, NodePlaced
<1>19. Origins(was, c, h, 1)
  <2> SUFFICES ASSUME NEW k \in Nat, Wait(h.lanes, k) # NoSha PROVE Wait(h.lanes, k) # c.sha /\ Origin(was, c, h, 1, k)
    BY DEF Origins
  <2>1. CASE k = g.lane
    BY <1>1, <1>3, <1>7, <1>9, <2>1 DEF Origin
  <2>2. CASE k # g.lane
    <3>1. k # t /\ Wait(h.lanes, k) = Wait(g.lanes, k) /\ Wait(h.lanes, k) = Wait(was.lanes, k) /\ LaneAt(h.lanes, k) = LaneAt(was.lanes, k)
      BY <1>9, <2>2
    <3>2. Wait(g.lanes, k) # c.sha
      BY <3>1 DEF Passing, Origins
    <3> QED
      BY <3>1, <3>2 DEF Origin
  <2> QED
    BY <2>1, <2>2
<1>20. Drawn(was, c, h, 1)
  <2> SUFFICES ASSUME NEW s \in h.segments
               PROVE  OwnEdge(c, h, 1, s) \/ InEdge(was, c, h, s) \/ TakenEdge(was, c, h, 1, s)
    BY DEF Drawn
  <2>1. CASE s = e
    <3>1. 1 \in 1..1
      OBVIOUS
    <3> QED
      BY <1>1, <1>3, <1>8, <1>9, <2>1, <3>1 DEF OwnEdge
  <2>2. CASE s = d
    BY <1>1, <1>3, <1>6, <1>7, <1>8, <1>9, <2>2 DEF TakenEdge
  <2>3. CASE s \in g.segments
    BY <1>7, <1>10, <2>3 DEF InEdge
  <2> QED
    BY <1>8, <2>1, <2>2, <2>3
<1>21. EdgesDrawn(c, h, 1)
  <2>1. \A p \in 1..1 : p = 1
    OBVIOUS
  <2> QED
    BY <1>1, <1>3, <1>8, <1>9, <2>1 DEF EdgesDrawn
<1>22. NoneTwice(h.segments)
  <2>1. \A s \in g.segments : s.from # t /\ s.from # Node /\ s.from = g.lane
    BY <1>6, <1>10 DEF InEdge
  <2> QED
    BY <1>6, <1>8, <2>1 DEF Passing, NoneTwice
<1>23. LeftBehind(was, c, h)
  <2> SUFFICES ASSUME NEW k \in Nat
               PROVE  \/ Wait(was.lanes, k) = NoSha
                      \/ Wait(was.lanes, k) # c.sha /\ Wait(h.lanes, k) = Wait(was.lanes, k)
                      \/ \E s \in h.segments : s.from = k
    BY DEF LeftBehind
  <2>1. CASE k = t
    BY <1>8, <2>1
  <2>2. CASE k = g.lane
    <3>1. Wait(g.lanes, k) # Wait(was.lanes, k) \/ Wait(was.lanes, k) = NoSha
      BY <1>5, <2>2
    <3> QED
      BY <1>8, <3>1 DEF Passing, LeftBehind
  <2>3. CASE k # t /\ k # g.lane
    BY <1>8, <1>9, <2>3 DEF Passing, LeftBehind
  <2> QED
    BY <2>1, <2>2, <2>3
<1>24. MarkedSo(was, h)
  <2> SUFFICES ASSUME NEW k \in Nat, Wait(h.lanes, k) # NoSha PROVE LaneAt(h.lanes, k).ahead <=> MarkOf(was, h, k)
    BY DEF MarkedSo
  <2>1. CASE k = g.lane
    BY <1>3, <1>6, <1>7, <1>8, <1>9, <1>10, <1>12, <2>1 DEF MarkOf
  <2>2. CASE k # g.lane
    <3>1. k # t /\ Wait(h.lanes, k) = Wait(was.lanes, k) /\ LaneAt(h.lanes, k) = LaneAt(was.lanes, k)
      BY <1>9, <2>2
    <3>2. \A s \in h.segments : s.to # k
      <4>1. k # Node
        <5>1. Wait(h.lanes, 0) = NoSha
          BY DEF Wait, LaneAt, Free
        <5> QED
          BY <5>1 DEF Node
      <4> QED
        BY <1>8, <1>10, <2>2, <4>1
    <3> QED
      BY <3>1, <3>2 DEF MarkOf
  <2> QED
    BY <2>1, <2>2
<1>40. h.ahead = was.ahead
  BY <1>7 DEF Passing
<1> QED
  BY <1>1, <1>2, <1>13, <1>14, <1>15, <1>16, <1>17, <1>18, <1>19, <1>20, <1>21, <1>22, <1>23, <1>24, <1>40 DEF Passing

LEMMA ParentPassed ==
    ASSUME NEW was \in GraphState, NEW c, Proper(c), NEW g, NEW q \in 1..Len(c.parents), Passing(was, c, g, q - 1)
    PROVE  Passing(was, c, passParent(g, c.parents[q], q = 1), q)
<1>1. PICK m : m = q - 1
  OBVIOUS
<1>2. m \in Nat /\ m < Len(c.parents) /\ q = m + 1 /\ Passing(was, c, g, m) /\ c.parents[q] \in Names
  BY <1>1 DEF Proper
<1>3. PICK t : t = laneWaitingFor(g.lanes, c.parents[q])
  OBVIOUS
<1>4. g.lanes \in Seq(Lane)
  BY <1>2 DEF Passing, Shaped, GraphState
<1>5. \/ t = 0 /\ \A k \in Nat : Wait(g.lanes, k) # c.parents[q]
      \/ t \in 1..Len(g.lanes) /\ Wait(g.lanes, t) = c.parents[q]
  BY <1>2, <1>3, <1>4, LaneWaiting
<1>6. CASE t = 0
  <2>1. \A k \in Nat : Wait(g.lanes, k) # c.parents[m + 1]
    <3>1. ~(t \in 1..Len(g.lanes))
      BY <1>4, <1>6, LenProperties
    <3> QED
      BY <1>2, <1>5, <3>1
  <2>2. passParent(g, c.parents[q], q = 1) = newLine(g, c.parents[q], q = 1)
    BY <1>3, <1>6 DEF passParent
  <2>3. m \in Nat /\ m < Len(c.parents) /\ Passing(was, c, g, m) /\ q = m + 1
    BY <1>2
  <2>4. Passing(was, c, newLine(g, c.parents[q], q = 1), q)
    BY <2>1, <2>3, NewLinePasses
  <2> QED
    BY <2>2, <2>4
<1>7. CASE t # 0 /\ q = 1 /\ g.lane < t
  <2>1. passParent(g, c.parents[q], q = 1) = takeLine(g, c.parents[1], t)
    BY <1>3, <1>7 DEF passParent
  <2>2. Passing(was, c, g, 0) /\ t \in 1..Len(g.lanes) /\ Wait(g.lanes, t) = c.parents[1] /\ 0 < Len(c.parents)
    <3>1. m = 0
      BY <1>2, <1>7
    <3>2. Passing(was, c, g, 0)
      BY <1>2, <3>1
    <3>3. 0 < Len(c.parents)
      BY <1>2, <3>1
    <3>4. t \in 1..Len(g.lanes) /\ Wait(g.lanes, t) = c.parents[1]
      BY <1>5, <1>7
    <3> QED
      BY <3>2, <3>3, <3>4
  <2>3. Passing(was, c, takeLine(g, c.parents[1], t), 1)
    BY <2>2, TakeLinePasses
  <2> QED
    BY <1>7, <2>1, <2>3
<1>8. CASE t # 0 /\ ~(q = 1 /\ g.lane < t)
  <2>1. passParent(g, c.parents[q], q = 1) = joinLine(g, t)
    BY <1>3, <1>8 DEF passParent
  <2>2. t \in 1..Len(g.lanes) /\ Wait(g.lanes, t) = c.parents[m + 1]
    BY <1>2, <1>5, <1>8
  <2>3. Passing(was, c, joinLine(g, t), m + 1)
    BY <1>2, <2>2, JoinLinePasses
  <2> QED
    BY <1>2, <2>1, <2>3
<1> QED
  BY <1>6, <1>7, <1>8

\* A recursion up to n, of steps that each make a state of a state.
Steps(F, n, S) == F \in [1..n -> [S -> S]]
Walks(f, F, n, S, a) == f \in [0..n -> S] /\ f[0] = a /\ \A k \in 1..n : f[k] = F[k][f[k - 1]]

LEMMA StepsExist ==
    ASSUME NEW n \in Nat, NEW S, NEW a \in S, NEW F, Steps(F, n, S)
    PROVE  \E f : Walks(f, F, n, S, a)
<1> DEFINE Upto(f, m) == f \in [0..n -> S] /\ f[0] = a /\ \A k \in 1..m : f[k] = F[k][f[k - 1]]
           M == {m \in 0..n : \E f : Upto(f, m)}
<1>1. 0 \in M
  <2>1. PICK f : f = [k \in 0..n |-> a]
    OBVIOUS
  <2>2. f \in [0..n -> S] /\ f[0] = a /\ \A k \in 1..0 : FALSE
    BY <2>1
  <2> QED
    BY <2>2
<1>2. ASSUME NEW m \in 0..n, m < n, m \in M PROVE m + 1 \in M
  <2>1. PICK f : Upto(f, m)
    BY <1>2
  <2>2. PICK x : x = F[m + 1][f[m]]
    OBVIOUS
  <2>3. m + 1 \in 1..n /\ f[m] \in S /\ x \in S
    BY <1>2, <2>1, <2>2 DEF Steps
  <2>4. PICK h : h = [k \in 0..n |-> IF k = m + 1 THEN x ELSE f[k]]
    OBVIOUS
  <2>5. h \in [0..n -> S] /\ \A k \in 0..n : h[k] = IF k = m + 1 THEN x ELSE f[k]
    BY <2>1, <2>3, <2>4
  <2>6. h[0] = a
    BY <2>1, <2>5
  <2>7. \A k \in 1..(m + 1) : h[k] = F[k][h[k - 1]]
    <3> SUFFICES ASSUME NEW k \in 1..(m + 1) PROVE h[k] = F[k][h[k - 1]]
      OBVIOUS
    <3>1. k - 1 \in 0..n /\ k \in 0..n /\ k - 1 # m + 1
      BY <1>2
    <3>2. h[k - 1] = f[k - 1]
      BY <2>5, <3>1
    <3>3. CASE k = m + 1
      BY <2>2, <2>5, <3>1, <3>2, <3>3
    <3>4. CASE k # m + 1
      BY <2>1, <2>5, <3>1, <3>2, <3>4
    <3> QED
      BY <3>3, <3>4
  <2>8. Upto(h, m + 1)
    BY <2>5, <2>6, <2>7
  <2> QED
    BY <1>2, <2>8
<1> HIDE DEF M
<1>3. n \in M
  <2>1. \A m \in 0..n : m \in M
    BY <1>1, <1>2, InductUpTo
  <2> QED
    BY <2>1
<1> QED
  BY <1>3 DEF M, Walks

PassesFrom(f, g, parents) ==
    f = [p \in 0..Len(parents) |-> IF p = 0 THEN g ELSE passParent(f[p - 1], parents[p], p = 1)]

LEMMA AllPassed ==
    ASSUME NEW was \in GraphState, NEW c, Proper(c), NEW g, Passing(was, c, g, 0)
    PROVE  Passing(was, c, passParents(g, c.parents), Len(c.parents))
<1> DEFINE ps == c.parents
           n == Len(ps)
           f == CHOOSE x : PassesFrom(x, g, ps)
           Step(p, x) == IF Passing(was, c, x, p - 1) THEN passParent(x, ps[p], p = 1) ELSE x
           F == [p \in 1..n |-> [x \in GraphState |-> Step(p, x)]]
<1>1. passParents(g, ps) = f[n]
  BY Zenon DEF passParents, PassesFrom
<1>2. n \in Nat
  BY DEF Proper
<1>3. g \in GraphState
  BY DEF Passing, Shaped
<1>4. \A p \in 1..n : \A x : Passing(was, c, x, p - 1) => Passing(was, c, passParent(x, ps[p], p = 1), p)
  BY ParentPassed
<1>5. \A p \in 1..n : \A x \in GraphState : Step(p, x) \in GraphState
  BY <1>4 DEF Passing, Shaped
<1>6. F \in [1..n -> [GraphState -> GraphState]]
  <2> HIDE DEF Step
  <2> QED
    BY <1>5
<1>7. PICK s \in [0..n -> GraphState] : s[0] = g /\ \A p \in 1..n : s[p] = F[p][s[p - 1]]
  <2> HIDE DEF F, n
  <2>1. Steps(F, n, GraphState)
    BY <1>6 DEF Steps
  <2>2. \E x : Walks(x, F, n, GraphState, g)
    BY <1>2, <1>3, <2>1, StepsExist
  <2> QED
    BY <2>2 DEF Walks
<1>8. \A p \in 1..n : s[p] = Step(p, s[p - 1])
  <2> SUFFICES ASSUME NEW p \in 1..n PROVE s[p] = Step(p, s[p - 1])
    OBVIOUS
  <2>1. s[p - 1] \in GraphState
    BY <1>2, <1>7
  <2> HIDE DEF Step
  <2>2. F[p] = [x \in GraphState |-> Step(p, x)]
    OBVIOUS
  <2> HIDE DEF F
  <2> QED
    BY <1>7, <2>1, <2>2
<1> DEFINE M == {p \in 0..n : Passing(was, c, s[p], p)}
<1>9. \A p \in 0..n : p \in M
  <2>1. 0 \in M
    BY <1>2, <1>7
  <2>2. ASSUME NEW m \in 0..n, m < n, m \in M PROVE m + 1 \in M
    <3>1. m + 1 \in 1..n /\ (m + 1) - 1 = m /\ Passing(was, c, s[m], m)
      BY <1>2, <2>2
    <3>2. s[m + 1] = passParent(s[m], ps[m + 1], m + 1 = 1)
      BY <1>8, <3>1
    <3>3. Passing(was, c, s[m + 1], m + 1)
      BY <1>4, <3>1, <3>2
    <3> QED
      BY <1>2, <2>2, <3>3
  <2> HIDE DEF M
  <2> QED
    BY <1>2, <2>1, <2>2, InductUpTo
<1>10. s = [p \in 0..n |-> IF p = 0 THEN g ELSE passParent(s[p - 1], ps[p], p = 1)]
  <2>1. \A p \in 0..n : s[p] = IF p = 0 THEN g ELSE passParent(s[p - 1], ps[p], p = 1)
    <3> SUFFICES ASSUME NEW p \in 0..n, p # 0 PROVE s[p] = passParent(s[p - 1], ps[p], p = 1)
      BY <1>7
    <3>1. p \in 1..n /\ p - 1 \in 0..n
      BY <1>2
    <3>2. Passing(was, c, s[p - 1], p - 1)
      BY <1>9, <3>1
    <3> QED
      BY <1>8, <3>1, <3>2
  <2>2. s = [p \in 0..n |-> s[p]]
    BY <1>7
  <2> QED
    BY <2>1, <2>2
<1>11. PassesFrom(f, g, ps)
  <2>1. PassesFrom(s, g, ps)
    BY <1>10 DEF PassesFrom
  <2> QED
    BY <2>1
<1> HIDE DEF f
<1>12. \A p \in 0..n : f[p] = IF p = 0 THEN g ELSE passParent(f[p - 1], ps[p], p = 1)
  BY <1>11 DEF PassesFrom
<1> DEFINE N == {p \in 0..n : Passing(was, c, f[p], p)}
<1>13. \A p \in 0..n : p \in N
  <2>1. 0 \in N
    BY <1>2, <1>12
  <2>2. ASSUME NEW m \in 0..n, m < n, m \in N PROVE m + 1 \in N
    <3>1. m + 1 \in 1..n /\ m + 1 \in 0..n /\ m + 1 # 0 /\ (m + 1) - 1 = m /\ Passing(was, c, f[m], m)
      BY <1>2, <2>2
    <3>2. f[m + 1] = passParent(f[m], ps[m + 1], m + 1 = 1)
      BY <1>12, <3>1
    <3>3. Passing(was, c, f[m + 1], m + 1)
      BY <1>4, <3>1, <3>2
    <3> QED
      BY <1>2, <2>2, <3>3
  <2> HIDE DEF N
  <2> QED
    BY <1>2, <2>1, <2>2, InductUpTo
<1> QED
  BY <1>1, <1>2, <1>13

-------------------------------------------------------------------------------
(* What one row makes of the lanes above it.                                 *)

MovedEdge(was, c, h, s) ==
    /\ s.from # Node /\ s.to # Node
    /\ Wait(was.lanes, s.from) = Wait(h.lanes, s.to) /\ Wait(was.lanes, s.from) \notin {NoSha, c.sha}
    /\ s.ahead => LaneAt(was.lanes, s.from).ahead
    /\ LaneAt(h.lanes, s.to).ahead => s.ahead

RowDrawn(was, c, h) ==
    \A s \in h.segments : OwnEdge(c, h, Len(c.parents), s) \/ InEdge(was, c, h, s) \/ MovedEdge(was, c, h, s)

GoesOn(was, h) == \A k \in Nat : Wait(was.lanes, k) # NoSha => \E s \in h.segments : s.from = k
ComesFrom(h) == \A k \in Nat : Wait(h.lanes, k) # NoSha => \E s \in h.segments : s.to = k

RowMarked(was, h) ==
    \A k \in Nat : Wait(h.lanes, k) # NoSha =>
        (LaneAt(h.lanes, k).ahead <=> /\ \A s \in h.segments : s.to = k /\ s.from # Node => LaneAt(was.lanes, s.from).ahead
                                      /\ \A s \in h.segments : s.to = k /\ s.from = Node => h.ahead)

RowMade(was, c, h) ==
    /\ Shaped(was, h) /\ Apart(h.lanes) /\ ChainsApart(h)
    /\ StillAwaited(was, c, h) /\ NodePlaced(was, c, h) /\ Origins(was, c, h, Len(c.parents))
    /\ RowDrawn(was, c, h) /\ EdgesDrawn(c, h, Len(c.parents)) /\ NoneTwice(h.segments)
    /\ GoesOn(was, h) /\ ComesFrom(h) /\ RowMarked(was, h)

LEMMA DrawnThrough ==
    ASSUME NEW was \in GraphState, NEW c, Proper(c), NEW g, Passing(was, c, g, Len(c.parents))
    PROVE  RowMade(was, c, drawThrough(g, was.lanes)) /\ drawThrough(g, was.lanes).ahead = was.ahead
<1> DEFINE L == {k \in DOMAIN was.lanes : /\ was.lanes[k].waitingFor # NoSha
                                          /\ g.lanes[k].waitingFor = was.lanes[k].waitingFor}
           through(l) == segment(l, l, g.lanes[l].chain, g.lanes[l].ahead)
<1>1. PICK n : n = Len(c.parents)
  OBVIOUS
<1>2. PICK h : h = drawThrough(g, was.lanes)
  OBVIOUS
<1>3. PICK new : new = {through(l) : l \in L}
  OBVIOUS
<1>4. h = [g EXCEPT !.segments = @ \cup new]
  BY <1>2, <1>3 DEF drawThrough
<1>5. /\ g \in GraphState /\ g.lanes \in Seq(Lane) /\ was.lanes \in Seq(Lane) /\ Len(g.lanes) \in Nat /\ Len(was.lanes) \in Nat
      /\ Len(was.lanes) <= Len(g.lanes) /\ g.lane \in 1..Len(g.lanes) /\ g.segments \in SUBSET Segment
  BY LenProperties DEF Passing, Shaped, GraphState
<1>6. /\ h.lanes = g.lanes /\ h.nextChain = g.nextChain /\ h.lane = g.lane /\ h.chain = g.chain /\ h.ahead = g.ahead
      /\ h.segments = g.segments \cup new
      /\ h = [lanes |-> h.lanes, nextChain |-> h.nextChain, lane |-> h.lane, chain |-> h.chain,
              ahead |-> h.ahead, segments |-> h.segments]
  BY <1>4, <1>5 DEF GraphState
<1>7. \A l : l \in L <=> l \in Nat /\ Wait(was.lanes, l) # NoSha /\ Wait(g.lanes, l) = Wait(was.lanes, l)
  <2> SUFFICES ASSUME NEW l PROVE l \in L <=> l \in Nat /\ Wait(was.lanes, l) # NoSha /\ Wait(g.lanes, l) = Wait(was.lanes, l)
    OBVIOUS
  <2>1. DOMAIN was.lanes = 1..Len(was.lanes)
    BY <1>5, LenProperties
  <2>2. CASE l \in 1..Len(was.lanes)
    <3>1. l \in 1..Len(g.lanes) /\ l \in Nat
      BY <1>5, <2>2
    <3> QED
      BY <2>1, <2>2, <3>1 DEF Wait, LaneAt
  <2>3. CASE l \notin 1..Len(was.lanes)
    <3>1. Wait(was.lanes, l) = NoSha
      BY <2>3 DEF Wait, LaneAt, Free
    <3> QED
      BY <2>1, <2>3, <3>1
  <2> QED
    BY <2>2, <2>3
<1>8. \A l \in L : LaneAt(g.lanes, l) = g.lanes[l] /\ l # Node
  <2> SUFFICES ASSUME NEW l \in L PROVE LaneAt(g.lanes, l) = g.lanes[l] /\ l # Node
    OBVIOUS
  <2>1. l \in 1..Len(was.lanes)
    BY <1>5, LenProperties
  <2> QED
    BY <1>5, <2>1 DEF LaneAt, Node
<1>9. \A l \in L : LaneAt(g.lanes, l).chain \in Nat /\ LaneAt(g.lanes, l).ahead \in BOOLEAN
  BY <1>5, LaneTyped DEF Lane
<1>10. \A l \in L : through(l) = segment(l, l, LaneAt(g.lanes, l).chain, LaneAt(g.lanes, l).ahead)
  BY <1>8
<1>11. /\ \A l \in L : /\ through(l) \in new /\ through(l) \in Segment /\ through(l).from = l /\ through(l).to = l
                       /\ through(l).ahead = LaneAt(g.lanes, l).ahead
       /\ \A s \in new : \E l \in L : s = through(l)
  <2>1. \A l \in L : /\ segment(l, l, LaneAt(g.lanes, l).chain, LaneAt(g.lanes, l).ahead) \in Segment
                     /\ segment(l, l, LaneAt(g.lanes, l).chain, LaneAt(g.lanes, l).ahead).from = l
                     /\ segment(l, l, LaneAt(g.lanes, l).chain, LaneAt(g.lanes, l).ahead).to = l
                     /\ segment(l, l, LaneAt(g.lanes, l).chain, LaneAt(g.lanes, l).ahead).ahead = LaneAt(g.lanes, l).ahead
    <3> HIDE DEF L
    <3> QED
      BY <1>7, <1>9 DEF segment, Segment
  <2> HIDE DEF L, through
  <2> QED
    BY <1>3, <1>10, <2>1
<1> HIDE DEF L, through
<1>12. /\ \A s \in new : /\ s.from \in Nat /\ s.from = s.to /\ s.from # Node
                         /\ Wait(was.lanes, s.from) # NoSha /\ Wait(g.lanes, s.from) = Wait(was.lanes, s.from)
                         /\ s.ahead = LaneAt(g.lanes, s.from).ahead
       /\ \A s, t \in new : s.from = t.from => s = t
       /\ \A k \in Nat : Wait(was.lanes, k) # NoSha /\ Wait(g.lanes, k) = Wait(was.lanes, k) =>
             \E s \in new : s.from = k /\ s.to = k
  BY <1>7, <1>8, <1>11
<1>13. \A k \in Nat : Wait(g.lanes, k) # NoSha => Wait(g.lanes, k) # c.sha
  BY DEF Passing, Origins
<1>14. \A s \in g.segments : s.from \in Nat /\ s.to \in Nat
  BY <1>5 DEF Segment
<1>15. \A s \in g.segments : OwnEdge(c, g, n, s) \/ InEdge(was, c, g, s) \/ TakenEdge(was, c, g, n, s)
  BY <1>1 DEF Passing, Drawn
<1>16. \A k \in Nat : Wait(g.lanes, k) # NoSha => (LaneAt(g.lanes, k).ahead <=> MarkOf(was, g, k))
  BY DEF Passing, MarkedSo
<1>17. n # 0 => c.parents[1] # NoSha /\ c.parents[1] # c.sha
  <2>1. n \in Nat /\ (n # 0 => 1 \in 1..n)
    BY <1>1 DEF Proper
  <2> QED
    BY <1>1, <2>1, NamesAssumption DEF Proper, Names
<1>18. h \in GraphState
  <2>1. new \in SUBSET Segment
    BY <1>11
  <2> QED
    BY <1>5, <1>6, <2>1 DEF GraphState
<1>19. Shaped(was, h)
  BY <1>5, <1>6, <1>18 DEF Shaped
<1>20. Apart(h.lanes) /\ ChainsApart(h) /\ StillAwaited(was, c, h) /\ NodePlaced(was, c, h)
  BY <1>6 DEF Passing, Apart, ChainsApart, StillAwaited, NodePlaced
<1>21. Origins(was, c, h, n)
  BY <1>1, <1>6 DEF Passing, Origins, Origin
<1>22. RowDrawn(was, c, h)
  <2> SUFFICES ASSUME NEW s \in h.segments PROVE OwnEdge(c, h, n, s) \/ InEdge(was, c, h, s) \/ MovedEdge(was, c, h, s)
    BY <1>1 DEF RowDrawn
  <2>1. CASE s \in new
    <3>1. LaneAt(g.lanes, s.from).ahead => LaneAt(was.lanes, s.from).ahead
      BY <1>12, <1>16, <2>1 DEF MarkOf
    <3> QED
      BY <1>6, <1>12, <1>13, <2>1, <3>1 DEF MovedEdge
  <2>2. CASE s \in g.segments /\ OwnEdge(c, g, n, s)
    BY <1>6, <2>2 DEF OwnEdge
  <2>3. CASE s \in g.segments /\ InEdge(was, c, g, s)
    BY <1>6, <2>3 DEF InEdge
  <2>4. CASE s \in g.segments /\ TakenEdge(was, c, g, n, s)
    <3>1. LaneAt(g.lanes, s.to).ahead => LaneAt(was.lanes, s.from).ahead
      BY <1>14, <1>16, <1>17, <2>4 DEF TakenEdge, MarkOf
    <3>2. s.to # Node
      BY <1>5, <2>4 DEF TakenEdge, Node
    <3> QED
      BY <1>6, <1>17, <2>4, <3>1, <3>2 DEF TakenEdge, MovedEdge
  <2> QED
    BY <1>6, <1>15, <2>1, <2>2, <2>3, <2>4
<1>23. EdgesDrawn(c, h, n)
  BY <1>1, <1>6 DEF Passing, EdgesDrawn
<1>24. NoneTwice(h.segments)
  <2>1. \A s \in g.segments, t \in new : s.from # t.from
    <3> SUFFICES ASSUME NEW s \in g.segments, NEW t \in new, s.from = t.from PROVE FALSE
      OBVIOUS
    <3>1. ~OwnEdge(c, g, n, s)
      BY <1>12 DEF OwnEdge
    <3>2. ~InEdge(was, c, g, s)
      BY <1>12, <1>13 DEF InEdge
    <3>3. ~TakenEdge(was, c, g, n, s)
      <4>1. Apart(g.lanes)
        BY DEF Passing
      <4> QED
        BY <1>12, <1>14, <4>1 DEF TakenEdge, Apart
    <3> QED
      BY <1>15, <3>1, <3>2, <3>3
  <2> QED
    BY <1>6, <1>12, <2>1 DEF Passing, NoneTwice
<1>25. GoesOn(was, h)
  BY <1>6, <1>12 DEF Passing, LeftBehind, GoesOn
<1>26. ComesFrom(h)
  <2> SUFFICES ASSUME NEW k \in Nat, Wait(g.lanes, k) # NoSha PROVE \E s \in h.segments : s.to = k
    BY <1>6 DEF ComesFrom
  <2>1. Origin(was, c, g, n, k)
    BY <1>1 DEF Passing, Origins
  <2>2. CASE Wait(was.lanes, k) = Wait(g.lanes, k)
    BY <1>6, <1>12, <2>2
  <2>3. CASE \E p \in 1..n : Wait(g.lanes, k) = c.parents[p]
    <3>1. PICK p \in 1..n : Wait(g.lanes, k) = c.parents[p]
      BY <2>3
    <3>2. PICK s \in g.segments : Wait(g.lanes, s.to) = c.parents[p]
      BY <1>1 DEF Passing, EdgesDrawn
    <3>3. s.to = k
      BY <1>14, <3>1, <3>2 DEF Passing, Apart
    <3> QED
      BY <1>6, <3>3
  <2>4. n # 0 => 1 \in 1..n
    BY <1>1 DEF Proper
  <2> QED
    BY <2>1, <2>2, <2>3, <2>4 DEF Origin
<1>27. RowMarked(was, h)
  <2> SUFFICES ASSUME NEW k \in Nat, Wait(g.lanes, k) # NoSha
               PROVE  LaneAt(g.lanes, k).ahead <=>
                         /\ \A s \in h.segments : s.to = k /\ s.from # Node => LaneAt(was.lanes, s.from).ahead
                         /\ \A s \in h.segments : s.to = k /\ s.from = Node => h.ahead
    BY <1>6 DEF RowMarked
  <2>1. LaneAt(g.lanes, k).ahead <=> MarkOf(was, g, k)
    BY <1>16
  <2>2. \A s \in new : s.to = k => s.from = k /\ s.from # Node /\ Wait(was.lanes, k) = Wait(g.lanes, k)
    BY <1>12
  <2>3. Wait(was.lanes, k) = Wait(g.lanes, k) => \E s \in new : s.from = k /\ s.to = k /\ s.from # Node
    BY <1>12
  <2> QED
    BY <1>6, <2>1, <2>2, <2>3 DEF MarkOf
<1> QED
  BY <1>1, <1>2, <1>6, <1>19, <1>20, <1>21, <1>22, <1>23, <1>24, <1>25, <1>26, <1>27 DEF RowMade, Passing

\* The row, from the state above it.
LEMMA RowComes ==
    ASSUME NEW g \in GraphState, Apart(g.lanes), ChainsApart(g), NEW c, Proper(c), NEW a \in BOOLEAN
    PROVE  RowMade(g, c, nextRow(g, c, a)) /\ nextRow(g, c, a).ahead = a
<1>1. PICK was : was = [g EXCEPT !.ahead = a]
  OBVIOUS
<1>2. /\ was.lanes = g.lanes /\ was.nextChain = g.nextChain /\ was.ahead = a /\ was \in GraphState
  BY <1>1 DEF GraphState
<1>3. Apart(was.lanes) /\ ChainsApart(was)
  BY <1>2 DEF ChainsApart
<1>4. PICK p : p = passParents(placeNode(was, c), c.parents)
  OBVIOUS
<1>5. Passing(was, c, placeNode(was, c), 0)
  BY <1>2, <1>3, PlacedPasses
<1>6. Passing(was, c, p, Len(c.parents))
  BY <1>2, <1>4, <1>5, AllPassed
<1>7. PICK h : h = drawThrough(p, was.lanes)
  OBVIOUS
<1>8. RowMade(was, c, h) /\ h.ahead = was.ahead
  BY <1>2, <1>6, <1>7, DrawnThrough
<1>9. h = nextRow(g, c, a)
  BY <1>1, <1>2, <1>4, <1>7 DEF nextRow
<1>10. RowMade(g, c, h)
  BY <1>2, <1>8 DEF RowMade, Shaped, StillAwaited, NodePlaced, Origins, Origin, RowDrawn, OwnEdge, InEdge, MovedEdge,
                    GoesOn, RowMarked
<1> QED
  BY <1>2, <1>8, <1>9, <1>10

\* The row of a name, and none of one that is not listed.
LEMMA RowOfName ==
    ASSUME Listing, NEW sha
    PROVE  /\ rowOf(commits, sha) \in 0..Len(commits) /\ Len(commits) \in Nat
           /\ rowOf(commits, sha) # 0 => commits[rowOf(commits, sha)].sha = sha
           /\ \A i \in 1..Len(commits) : commits[i].sha = sha <=> rowOf(commits, sha) = i
<1> DEFINE n == Len(commits)
           I == {j \in 1..n : commits[j].sha = sha}
           r == rowOf(commits, sha)
<1>1. n \in Nat /\ Len(ShaOf) \in Nat /\ n <= Len(ShaOf) /\ DOMAIN ShaOf = 1..Len(ShaOf)
  BY NamesAssumption, LenProperties DEF Listing
<1>2. r = IF I # {} THEN Min(I) ELSE 0
  BY DEF rowOf, SelectInSeq
<1>3. \A i, j \in I : i = j
  <2> SUFFICES ASSUME NEW i \in I, NEW j \in I PROVE i = j
    OBVIOUS
  <2>1. n + 1 - i \in 1..Len(ShaOf) /\ n + 1 - j \in 1..Len(ShaOf)
    BY <1>1
  <2>3. \A k \in 1..Len(commits) : commits[k].sha = ShaOf[Len(commits) + 1 - k]
    BY DEF Listing
  <2>4. ShaOf[n + 1 - i] = ShaOf[n + 1 - j]
    BY <2>3
  <2>2. n + 1 - i = n + 1 - j
    BY <1>1, <2>1, <2>4, NamesAssumption DEF IsInjective
  <2> QED
    BY <1>1, <2>2
<1>4. (I = {} /\ r = 0) \/ (I # {} /\ r \in I)
  <2>1. I \in SUBSET (1..n)
    OBVIOUS
  <2> HIDE DEF I, r
  <2> QED
    BY <1>1, <1>2, <2>1, FirstOne
<1>5. r \in 0..n /\ (r # 0 => r \in I)
  BY <1>1, <1>4
<1>6. \A i \in 1..n : commits[i].sha = sha <=> i \in I
  OBVIOUS
<1>7. \A i \in 1..n : i \in I <=> r = i
  <2> HIDE DEF I, r
  <2> QED
    BY <1>1, <1>3, <1>4
<1> QED
  BY <1>1, <1>5, <1>6, <1>7

LEMMA ListedIsProper ==
    ASSUME Listing, NEW i \in 1..Len(commits)
    PROVE  Proper(commits[i])
<1>1. commits[i] \in ListedCommit
  BY LenProperties, ElementOfSeq DEF Listing
<1>2. commits[i].sha \in Names /\ commits[i].parents \in Seq(Names)
  BY <1>1 DEF ListedCommit, Names
<1>3. /\ Len(commits[i].parents) \in Nat /\ DOMAIN commits[i].parents = 1..Len(commits[i].parents)
      /\ \A p \in 1..Len(commits[i].parents) : commits[i].parents[p] \in Names
  BY <1>2, LenProperties, ElementOfSeq
<1>4. \A p \in 1..Len(commits[i].parents) : commits[i].parents[p] # commits[i].sha
  <2> SUFFICES ASSUME NEW p \in 1..Len(commits[i].parents), commits[i].parents[p] = commits[i].sha PROVE FALSE
    OBVIOUS
  <2>1. PICK row : row = rowOf(commits, commits[i].parents[p])
    OBVIOUS
  <2>2. row = 0 \/ row \in (i+1)..Len(commits)
    BY <2>1, RowsFound
  <2>3. row = i
    BY <2>1, RowOfName
  <2>4. Len(commits) \in Nat
    BY RowOfName
  <2> QED
    BY <2>2, <2>3, <2>4
<1>5. \A p, q \in 1..Len(commits[i].parents) : commits[i].parents[p] = commits[i].parents[q] => p = q
  BY <1>3 DEF Listing, IsInjective
<1> QED
  BY <1>2, <1>3, <1>4, <1>5 DEF Proper

-------------------------------------------------------------------------------
(* The states the rows are drawn from.                                       *)
Start == [lanes |-> <<>>, nextChain |-> 0, lane |-> 0, chain |-> 0, ahead |-> FALSE, segments |-> {}]
AwaitsBelow(g, i) ==
    \A k \in Nat : Wait(g.lanes, k) # NoSha =>
        rowOf(commits, Wait(g.lanes, k)) = 0 \/ i < rowOf(commits, Wait(g.lanes, k))
Sound(g, i) == g \in GraphState /\ Apart(g.lanes) /\ ChainsApart(g) /\ AwaitsBelow(g, i)

LEMMA StartIsSound == Sound(Start, 0) /\ \A k : Wait(Start.lanes, k) = NoSha
<1>1. Start \in GraphState
  BY EmptySeq DEF Start, GraphState
<1>2. \A k : Wait(Start.lanes, k) = NoSha
  BY EmptySeq DEF Start, Wait, LaneAt, Free
<1> QED
  BY <1>1, <1>2 DEF Sound, Apart, ChainsApart, AwaitsBelow

LEMMA RowIsSound ==
    ASSUME Listing, NEW i \in 1..Len(commits), NEW g, Sound(g, i - 1), NEW a \in BOOLEAN
    PROVE  LET h == nextRow(g, commits[i], a)
           IN  RowMade(g, commits[i], h) /\ h.ahead = a /\ Sound(h, i)
<1> DEFINE c == commits[i]
<1>1. PICK h : h = nextRow(g, c, a)
  OBVIOUS
<1>2. RowMade(g, c, h) /\ h.ahead = a
  <2>1. Proper(c)
    BY ListedIsProper
  <2> QED
    BY <1>1, <2>1, RowComes DEF Sound
<1>3. h \in GraphState /\ Apart(h.lanes) /\ ChainsApart(h) /\ Origins(g, c, h, Len(c.parents))
  BY <1>2 DEF RowMade, Shaped
<1>4. AwaitsBelow(h, i)
  <2> SUFFICES ASSUME NEW k \in Nat, Wait(h.lanes, k) # NoSha
               PROVE  rowOf(commits, Wait(h.lanes, k)) = 0 \/ i < rowOf(commits, Wait(h.lanes, k))
    BY DEF AwaitsBelow
  <2>1. PICK w : w = Wait(h.lanes, k)
    OBVIOUS
  <2>2. w # c.sha /\ Origin(g, c, h, Len(c.parents), k)
    BY <1>3, <2>1 DEF Origins
  <2>3. rowOf(commits, w) \in 0..Len(commits) /\ Len(commits) \in Nat /\ rowOf(commits, w) # i
    BY <2>2, RowOfName
  <2>4. CASE w = Wait(g.lanes, k)
    <3>1. rowOf(commits, w) = 0 \/ i - 1 < rowOf(commits, w)
      BY <2>1, <2>4 DEF Sound, AwaitsBelow
    <3> QED
      BY <2>1, <2>3, <3>1
  <2>5. CASE \E p \in 1..Len(c.parents) : w = c.parents[p]
    <3>1. rowOf(commits, w) = 0 \/ rowOf(commits, w) \in (i+1)..Len(commits)
      BY <2>5, RowsFound
    <3> QED
      BY <2>1, <2>3, <3>1
  <2>6. Len(c.parents) \in Nat
    BY ListedIsProper DEF Proper
  <2>7. Len(c.parents) # 0 => 1 \in 1..Len(c.parents)
    BY <2>6
  <2> QED
    BY <2>1, <2>2, <2>4, <2>5, <2>7 DEF Origin
<1> QED
  BY <1>1, <1>2, <1>3, <1>4 DEF Sound

\* buildCommitGraph's recursion, and the states it goes through.
Builds(f, cs, ahead) ==
    f = [i \in 0..Len(cs) |-> IF i = 0 THEN <<Start>> ELSE Append(f[i - 1], nextRow(Last(f[i - 1]), cs[i], ahead[i]))]
Drawing(G, ahead) ==
    /\ G \in [0..Len(commits) -> GraphState] /\ G[0] = Start
    /\ \A i \in 0..Len(commits) : Sound(G[i], i)
    /\ \A i \in 1..Len(commits) : RowMade(G[i - 1], commits[i], G[i]) /\ G[i].ahead = ahead[i]
RowsOf(G, ahead, current) ==
    [i \in 1..Len(commits) |->
        [lane |-> G[i].lane, chain |-> G[i].chain, segments |-> G[i].segments,
         ahead |-> ahead[i], current |-> current # NoSha /\ commits[i].sha = current]]

LEMMA GraphIsDrawn ==
    ASSUME Listing, NEW current, NEW ahead, ahead = commitsAboveCurrent(commits, current),
           ahead \in [1..Len(commits) -> BOOLEAN]
    PROVE  \E G : Drawing(G, ahead) /\ buildCommitGraph(commits, current) = RowsOf(G, ahead, current)
<1> DEFINE cs == commits
           n == Len(cs)
           f == CHOOSE x : Builds(x, cs, commitsAboveCurrent(cs, current))
           Step(i, g) == IF Sound(g, i - 1) THEN nextRow(g, cs[i], ahead[i]) ELSE g
           F == [i \in 1..n |-> [g \in GraphState |-> Step(i, g)]]
<1>1. n \in Nat
  BY LenProperties DEF Listing
<1>2. buildCommitGraph(cs, current) =
        [i \in 1..n |-> [lane |-> f[n][i + 1].lane, chain |-> f[n][i + 1].chain, segments |-> f[n][i + 1].segments,
                         ahead |-> ahead[i], current |-> current # NoSha /\ cs[i].sha = current]]
  BY Zenon DEF buildCommitGraph, Builds, Start
<1>3. \A i \in 1..n : \A g : Sound(g, i - 1) =>
         /\ Sound(nextRow(g, cs[i], ahead[i]), i)
         /\ RowMade(g, cs[i], nextRow(g, cs[i], ahead[i]))
         /\ nextRow(g, cs[i], ahead[i]).ahead = ahead[i]
  <2> SUFFICES ASSUME NEW i \in 1..n, NEW g, Sound(g, i - 1)
               PROVE  /\ Sound(nextRow(g, cs[i], ahead[i]), i)
                      /\ RowMade(g, cs[i], nextRow(g, cs[i], ahead[i]))
                      /\ nextRow(g, cs[i], ahead[i]).ahead = ahead[i]
    OBVIOUS
  <2>1. PICK a : a = ahead[i]
    OBVIOUS
  <2>2. a \in BOOLEAN
    BY <2>1
  <2> QED
    BY <2>1, <2>2, RowIsSound
<1>4. PICK G \in [0..n -> GraphState] : G[0] = Start /\ \A i \in 1..n : G[i] = F[i][G[i - 1]]
  <2>1. \A i \in 1..n : \A g \in GraphState : Step(i, g) \in GraphState
    BY <1>3 DEF Sound
  <2> HIDE DEF Step
  <2>2. F \in [1..n -> [GraphState -> GraphState]]
    BY <2>1
  <2> HIDE DEF F, n
  <2>3. Steps(F, n, GraphState) /\ Start \in GraphState
    BY <2>2, StartIsSound DEF Steps, Sound
  <2>4. \E x : Walks(x, F, n, GraphState, Start)
    BY <1>1, <2>3, StepsExist
  <2> QED
    BY <2>4 DEF Walks
<1>5. \A i \in 1..n : G[i] = Step(i, G[i - 1])
  <2> SUFFICES ASSUME NEW i \in 1..n PROVE G[i] = Step(i, G[i - 1])
    OBVIOUS
  <2>1. G[i - 1] \in GraphState
    BY <1>1, <1>4
  <2> HIDE DEF Step
  <2>2. F[i] = [g \in GraphState |-> Step(i, g)]
    OBVIOUS
  <2> HIDE DEF F
  <2> QED
    BY <1>4, <2>1, <2>2
<1> DEFINE M == {i \in 0..n : Sound(G[i], i)}
<1>6. \A i \in 0..n : i \in M
  <2>1. 0 \in M
    BY <1>1, <1>4, StartIsSound
  <2>2. ASSUME NEW m \in 0..n, m < n, m \in M PROVE m + 1 \in M
    <3>1. m + 1 \in 1..n /\ (m + 1) - 1 = m /\ Sound(G[m], m)
      BY <1>1, <2>2
    <3>2. G[m + 1] = nextRow(G[m], cs[m + 1], ahead[m + 1])
      BY <1>5, <3>1
    <3>3. Sound(G[m + 1], m + 1)
      BY <1>3, <3>1, <3>2
    <3> QED
      BY <1>1, <2>2, <3>3
  <2> HIDE DEF M
  <2> QED
    BY <1>1, <2>1, <2>2, InductUpTo
<1>7. \A i \in 1..n : G[i] = nextRow(G[i - 1], cs[i], ahead[i]) /\ RowMade(G[i - 1], cs[i], G[i]) /\ G[i].ahead = ahead[i]
  <2> SUFFICES ASSUME NEW i \in 1..n
               PROVE  G[i] = nextRow(G[i - 1], cs[i], ahead[i]) /\ RowMade(G[i - 1], cs[i], G[i]) /\ G[i].ahead = ahead[i]
    OBVIOUS
  <2>1. i - 1 \in 0..n
    BY <1>1
  <2>2. Sound(G[i - 1], i - 1)
    BY <1>6, <2>1
  <2>3. G[i] = nextRow(G[i - 1], cs[i], ahead[i])
    BY <1>5, <2>2
  <2> QED
    BY <1>3, <2>2, <2>3
<1>8. Drawing(G, ahead)
  BY <1>4, <1>6, <1>7 DEF Drawing
<1> DEFINE T(i) == [j \in 1..(i + 1) |-> G[j - 1]]
<1>9. /\ T(0) = <<Start>>
      /\ \A i \in 1..n : T(i) = Append(T(i - 1), nextRow(Last(T(i - 1)), cs[i], ahead[i]))
  <2>1. T(0) = <<Start>>
    BY <1>4
  <2>2. ASSUME NEW i \in 1..n PROVE T(i) = Append(T(i - 1), nextRow(Last(T(i - 1)), cs[i], ahead[i]))
    <3>1. PICK t : t = T(i - 1)
      OBVIOUS
    <3>2. t \in Seq(GraphState) /\ Len(t) = i /\ DOMAIN t = 1..i /\ \A j \in 1..i : t[j] = G[j - 1]
      <4>1. i \in Nat /\ (i - 1) + 1 = i
        BY <1>1
      <4>2. t = [j \in 1..i |-> G[j - 1]]
        BY <3>1, <4>1
      <4>3. \A j \in 1..i : G[j - 1] \in GraphState
        <5> SUFFICES ASSUME NEW j \in 1..i PROVE G[j - 1] \in GraphState
          OBVIOUS
        <5>1. j - 1 \in 0..n
          BY <1>1
        <5> QED
          BY <1>4, <5>1
      <4>4. t \in [1..i -> GraphState]
        BY <4>2, <4>3
      <4>5. t \in Seq(GraphState)
        BY <4>1, <4>4
      <4>6. DOMAIN t = 1..i
        BY <4>4
      <4>7. Len(t) = i
        BY <4>1, <4>5, <4>6
      <4> QED
        BY <4>2, <4>5, <4>6, <4>7
    <3>3. Last(t) = G[i - 1]
      BY <1>1, <3>2 DEF Last
    <3>4. Append(t, G[i]) = T(i)
      <4>1. G[i] \in GraphState
        BY <1>1, <1>4
      <4>2. PICK u : u = Append(t, G[i])
        OBVIOUS
      <4>3. u \in Seq(GraphState) /\ Len(u) = i + 1 /\ \A j \in 1..i : u[j] = t[j]
        BY <3>2, <4>1, <4>2, AppendProperties
      <4>4. u[i + 1] = G[i] /\ DOMAIN u = 1..(i + 1)
        BY <3>2, <4>1, <4>2, <4>3, AppendProperties, LenProperties
      <4>5. u = [j \in 1..(i + 1) |-> u[j]]
        BY <4>3, <4>4
      <4>6. \A j \in 1..(i + 1) : u[j] = G[j - 1]
        BY <1>1, <3>2, <4>3, <4>4
      <4> QED
        BY <4>2, <4>5, <4>6
    <3> QED
      BY <1>7, <3>1, <3>3, <3>4
  <2> QED
    BY <2>1, <2>2
<1>10. Builds(f, cs, ahead)
  <2>1. PICK x : x = [i \in 0..n |-> T(i)]
    OBVIOUS
  <2>2. \A i \in 0..n : x[i] = IF i = 0 THEN <<Start>> ELSE Append(x[i - 1], nextRow(Last(x[i - 1]), cs[i], ahead[i]))
    <3> SUFFICES ASSUME NEW i \in 0..n
                 PROVE x[i] = IF i = 0 THEN <<Start>> ELSE Append(x[i - 1], nextRow(Last(x[i - 1]), cs[i], ahead[i]))
      OBVIOUS
    <3> HIDE DEF T
    <3>1. CASE i = 0
      BY <1>9, <2>1, <3>1
    <3>2. CASE i # 0
      <4>1. i \in 1..n /\ i - 1 \in 0..n
        BY <1>1, <3>2
      <4>2. x[i] = T(i) /\ x[i - 1] = T(i - 1)
        BY <2>1, <4>1
      <4> QED
        BY <1>9, <3>2, <4>1, <4>2
    <3> QED
      BY <3>1, <3>2
  <2>3. x = [i \in 0..n |-> x[i]]
    BY <2>1
  <2>4. Builds(x, cs, ahead)
    <3> HIDE DEF T
    <3> QED
      BY <2>2, <2>3 DEF Builds
  <2> QED
    BY <2>4
<1> HIDE DEF f, T
<1>11. \A i \in 0..n : f[i] = IF i = 0 THEN <<Start>> ELSE Append(f[i - 1], nextRow(Last(f[i - 1]), cs[i], ahead[i]))
  BY <1>10 DEF Builds
<1> DEFINE N == {i \in 0..n : f[i] = T(i)}
<1>12. \A i \in 0..n : i \in N
  <2>1. 0 \in N
    BY <1>1, <1>9, <1>11
  <2>2. ASSUME NEW m \in 0..n, m < n, m \in N PROVE m + 1 \in N
    <3>1. m + 1 \in 1..n /\ m + 1 \in 0..n /\ m + 1 # 0 /\ (m + 1) - 1 = m /\ f[m] = T(m)
      BY <1>1, <2>2
    <3> QED
      BY <1>9, <1>11, <3>1
  <2> HIDE DEF N
  <2> QED
    BY <1>1, <2>1, <2>2, InductUpTo
<1>13. \A i \in 1..n : f[n][i + 1] = G[i]
  <2>1. f[n] = T(n)
    <3>1. n \in 0..n
      BY <1>1
    <3> QED
      BY <1>12, <3>1
  <2>2. \A i \in 1..n : T(n)[i + 1] = G[i]
    BY <1>1 DEF T
  <2> QED
    BY <2>1, <2>2
<1>14. buildCommitGraph(cs, current) = RowsOf(G, ahead, current)
  BY <1>2, <1>13 DEF RowsOf
<1> QED
  BY <1>8, <1>14

-------------------------------------------------------------------------------
(* Ancestry, as commitsAboveCurrent and Descendants tell it.                 *)

\* The rows a commit has below it, itself among them.
Below(i) == History(commits).below[i]

LEMMA BelowRow ==
    ASSUME Listing, NEW i \in 1..Len(commits)
    PROVE  /\ i \in Below(i) /\ Below(i) \subseteq i..Len(commits) /\ \A j \in Below(i) : Below(j) \subseteq Below(i)
           /\ \A j : j \in Below(i) <=> \/ j = i
                                        \/ \E p \in ToSet(commits[i].parents) :
                                              rowOf(commits, p) # 0 /\ j \in Below(rowOf(commits, p))
<1> DEFINE n == Len(commits)
<1>1. PICK h : h = History(commits)
  OBVIOUS
<1>2. n \in Nat /\ IsHistory(h, n) /\ DOMAIN commits = 1..n
  BY <1>1, HistoryOfListing, LenProperties DEF Listing
<1>3. i \in h.below[i] /\ h.below[i] \subseteq i..n /\ \A j \in h.below[i] : h.below[j] \subseteq h.below[i]
  BY <1>2, Ancestry
<1>4. \A j : j \in h.below[i] <=> \/ j = i
                                  \/ \E p \in ToSet(h.parents[i]) : p # 0 /\ j \in h.below[p]
  BY <1>2 DEF IsHistory
<1>5. h.parents[i] = [k \in DOMAIN commits[i].parents |-> rowOf(commits, commits[i].parents[k])]
  BY <1>1, <1>2 DEF History
<1>6. ToSet(h.parents[i]) = {rowOf(commits, p) : p \in ToSet(commits[i].parents)}
  BY <1>5 DEF ToSet
<1>7. \A j : (\E p \in ToSet(h.parents[i]) : p # 0 /\ j \in h.below[p]) <=>
                (\E p \in ToSet(commits[i].parents) : rowOf(commits, p) # 0 /\ j \in h.below[rowOf(commits, p)])
  BY <1>6
<1> QED
  BY <1>1, <1>3, <1>4, <1>7 DEF Below

LEMMA ParentRow ==
    ASSUME Listing, NEW i \in 1..Len(commits), NEW p \in ToSet(commits[i].parents)
    PROVE  rowOf(commits, p) = 0 \/ rowOf(commits, p) \in (i+1)..Len(commits)
<1>1. PICK k \in DOMAIN commits[i].parents : p = commits[i].parents[k]
  BY DEF ToSet
<1>2. DOMAIN commits[i].parents = 1..Len(commits[i].parents)
  BY ListedIsProper, LenProperties DEF Proper
<1> QED
  BY <1>1, <1>2, RowsFound

-------------------------------------------------------------------------------
(* The commits above the current one: commitsAboveCurrent's recursion.       *)
Ascends(f, cs, current) ==
    f = [i \in 1..Len(cs) |->
            /\ current # NoSha /\ cs[i].sha # current
            /\ \E parent \in ToSet(cs[i].parents) :
                  parent = current \/ (rowOf(cs, parent) # 0 /\ f[rowOf(cs, parent)])]

LEMMA AheadIsAbove ==
    ASSUME Listing, NEW current
    PROVE  commitsAboveCurrent(commits, current) =
              [i \in 1..Len(commits) |-> /\ current # NoSha /\ commits[i].sha # current
                                         /\ \E j \in Below(i) : current \in ToSet(commits[j].parents)]
<1> DEFINE n == Len(commits)
           A(i) == /\ current # NoSha /\ commits[i].sha # current
                   /\ \E j \in Below(i) : current \in ToSet(commits[j].parents)
           f == CHOOSE x : Ascends(x, commits, current)
<1>1. n \in Nat
  BY RowOfName
<1>2. commitsAboveCurrent(commits, current) = f
  BY Zenon DEF commitsAboveCurrent, Ascends
<1>3. \A i \in 1..n : A(i) <=> /\ current # NoSha /\ commits[i].sha # current
                               /\ \E p \in ToSet(commits[i].parents) :
                                     p = current \/ (rowOf(commits, p) # 0 /\ A(rowOf(commits, p)))
  <2> SUFFICES ASSUME NEW i \in 1..n, current # NoSha, commits[i].sha # current
               PROVE  (\E j \in Below(i) : current \in ToSet(commits[j].parents)) <=>
                         \E p \in ToSet(commits[i].parents) : p = current \/ (rowOf(commits, p) # 0 /\ A(rowOf(commits, p)))
    OBVIOUS
  <2>1. \A j : j \in Below(i) <=> \/ j = i
                                  \/ \E p \in ToSet(commits[i].parents) :
                                        rowOf(commits, p) # 0 /\ j \in Below(rowOf(commits, p))
    BY BelowRow
  <2>2. ASSUME NEW j \in Below(i), current \in ToSet(commits[j].parents)
        PROVE  \E p \in ToSet(commits[i].parents) : p = current \/ (rowOf(commits, p) # 0 /\ A(rowOf(commits, p)))
    <3>1. CASE j = i
      BY <2>2, <3>1
    <3>2. CASE j # i
      <4>1. PICK p \in ToSet(commits[i].parents) : rowOf(commits, p) # 0 /\ j \in Below(rowOf(commits, p))
        BY <2>1, <3>2
      <4>2. commits[rowOf(commits, p)].sha = p
        BY <4>1, RowOfName
      <4> QED
        BY <2>2, <4>1, <4>2
    <3> QED
      BY <3>1, <3>2
  <2>3. ASSUME NEW p \in ToSet(commits[i].parents), p = current \/ (rowOf(commits, p) # 0 /\ A(rowOf(commits, p)))
        PROVE  \E j \in Below(i) : current \in ToSet(commits[j].parents)
    <3>1. CASE p = current
      BY <2>1, <3>1
    <3>2. CASE rowOf(commits, p) # 0 /\ A(rowOf(commits, p))
      BY <2>1, <3>2
    <3> QED
      BY <2>3, <3>1, <3>2
  <2> QED
    BY <2>2, <2>3
<1>4. Ascends([i \in 1..n |-> A(i)], commits, current)
  <2>1. PICK a : a = [i \in 1..n |-> A(i)]
    OBVIOUS
  <2>2. \A i \in 1..n : \A p \in ToSet(commits[i].parents) : rowOf(commits, p) # 0 => a[rowOf(commits, p)] = A(rowOf(commits, p))
    <3> SUFFICES ASSUME NEW i \in 1..n, NEW p \in ToSet(commits[i].parents), rowOf(commits, p) # 0
                 PROVE  rowOf(commits, p) \in 1..n
      BY <2>1
    <3> QED
      BY <1>1, RowOfName
  <2>3. \A i \in 1..n : a[i] = A(i)
    BY <2>1
  <2> HIDE DEF A
  <2>4. \A i \in 1..n : a[i] = (/\ current # NoSha /\ commits[i].sha # current
                               /\ \E p \in ToSet(commits[i].parents) :
                                     p = current \/ (rowOf(commits, p) # 0 /\ a[rowOf(commits, p)]))
    <3> SUFFICES ASSUME NEW i \in 1..n
                 PROVE  A(i) = (/\ current # NoSha /\ commits[i].sha # current
                               /\ \E p \in ToSet(commits[i].parents) :
                                     p = current \/ (rowOf(commits, p) # 0 /\ a[rowOf(commits, p)]))
      BY <2>3
    <3>1. (\E p \in ToSet(commits[i].parents) : p = current \/ (rowOf(commits, p) # 0 /\ a[rowOf(commits, p)])) <=>
          (\E p \in ToSet(commits[i].parents) : p = current \/ (rowOf(commits, p) # 0 /\ A(rowOf(commits, p))))
      BY <2>2
    <3>2. A(i) \in BOOLEAN
      BY DEF A
    <3> QED
      BY <1>3, <3>1, <3>2
  <2>5. a = [i \in 1..n |-> a[i]]
    BY <2>1
  <2>6. a = [i \in 1..n |-> /\ current # NoSha /\ commits[i].sha # current
                            /\ \E p \in ToSet(commits[i].parents) :
                                  p = current \/ (rowOf(commits, p) # 0 /\ a[rowOf(commits, p)])]
    BY <2>4, <2>5
  <2> QED
    BY <2>1, <2>6 DEF Ascends
<1>5. Ascends(f, commits, current)
  <2> HIDE DEF A
  <2> QED
    BY <1>4
<1> HIDE DEF f
<1>6. \A i \in 1..n : f[i] = (/\ current # NoSha /\ commits[i].sha # current
                              /\ \E p \in ToSet(commits[i].parents) :
                                    p = current \/ (rowOf(commits, p) # 0 /\ f[rowOf(commits, p)]))
  BY <1>5 DEF Ascends
<1> DEFINE M == {m \in 0..n : \A i \in 1..n : i > n - m => f[i] = A(i)}
<1> HIDE DEF A
<1>7. \A m \in 0..n : m \in M
  <2>1. 0 \in M
    BY <1>1
  <2>2. ASSUME NEW m \in 0..n, m < n, m \in M PROVE m + 1 \in M
    <3> SUFFICES ASSUME NEW i \in 1..n, i > n - (m + 1) PROVE f[i] = A(i)
      BY <1>1, <2>2
    <3>1. \A p \in ToSet(commits[i].parents) : rowOf(commits, p) # 0 => f[rowOf(commits, p)] = A(rowOf(commits, p))
      <4> SUFFICES ASSUME NEW p \in ToSet(commits[i].parents), rowOf(commits, p) # 0
                   PROVE  f[rowOf(commits, p)] = A(rowOf(commits, p))
        OBVIOUS
      <4>1. PICK r : r = rowOf(commits, p)
        OBVIOUS
      <4>2. r \in (i+1)..n
        BY <4>1, ParentRow
      <4>3. r \in 1..n /\ r > n - m
        BY <1>1, <4>2
      <4> QED
        BY <2>2, <4>1, <4>3
    <3>2. (\E p \in ToSet(commits[i].parents) : p = current \/ (rowOf(commits, p) # 0 /\ f[rowOf(commits, p)])) <=>
          (\E p \in ToSet(commits[i].parents) : p = current \/ (rowOf(commits, p) # 0 /\ A(rowOf(commits, p))))
      BY <3>1
    <3>3. A(i) \in BOOLEAN
      BY DEF A
    <3> QED
      BY <1>3, <1>6, <3>2, <3>3
  <2> HIDE DEF M
  <2> QED
    BY <1>1, <2>1, <2>2, InductUpTo
<1>8. \A i \in 1..n : f[i] = A(i)
  <2>1. n \in M
    BY <1>1, <1>7
  <2>2. \A i \in 1..n : i > n - n
    BY <1>1
  <2> QED
    BY <2>1, <2>2
<1>9. f = [i \in 1..n |-> f[i]]
  BY <1>5 DEF Ascends
<1>10. f = [i \in 1..n |-> A(i)]
  BY <1>8, <1>9
<1> QED
  BY <1>2, <1>10 DEF A

\* Above a listed commit are those it is below.
LEMMA AheadIsDescending ==
    ASSUME Listing, NEW at \in 1..Len(commits), NEW i \in 1..Len(commits)
    PROVE  commitsAboveCurrent(commits, commits[at].sha)[i] = (i # at /\ at \in Below(i))
<1> DEFINE n == Len(commits)
           sha == commits[at].sha
           Near(k) == \E j \in Below(k) : sha \in ToSet(commits[j].parents)
           M == {m \in 0..n : \A k \in 1..n : k > n - m /\ k # at /\ at \in Below(k) => Near(k)}
<1>1. n \in Nat
  BY RowOfName
<1>2. \A k \in 1..n : \A j : j \in Below(k) <=> \/ j = k
                                                \/ \E p \in ToSet(commits[k].parents) :
                                                      rowOf(commits, p) # 0 /\ j \in Below(rowOf(commits, p))
  BY BelowRow
<1>3. \A k \in 1..n : k \in Below(k) /\ Below(k) \subseteq k..n /\ \A j \in Below(k) : Below(j) \subseteq Below(k)
  BY BelowRow
<1>4. \A m \in 0..n : m \in M
  <2>1. 0 \in M
    BY <1>1
  <2>2. ASSUME NEW m \in 0..n, m < n, m \in M PROVE m + 1 \in M
    <3> SUFFICES ASSUME NEW k \in 1..n, k > n - (m + 1), k # at, at \in Below(k) PROVE Near(k)
      BY <1>1, <2>2
    <3>1. PICK p \in ToSet(commits[k].parents) : rowOf(commits, p) # 0 /\ at \in Below(rowOf(commits, p))
      BY <1>2
    <3>2. PICK r : r = rowOf(commits, p)
      OBVIOUS
    <3>3. r \in (k+1)..n /\ commits[r].sha = p
      BY <3>1, <3>2, ParentRow, RowOfName
    <3>4. r \in 1..n /\ r > n - m
      BY <1>1, <3>3
    <3>5. CASE r = at
      BY <1>3, <3>1, <3>3, <3>5
    <3>6. CASE r # at
      <4>1. Near(r)
        BY <2>2, <3>1, <3>2, <3>4, <3>6
      <4>2. r \in Below(k)
        BY <1>2, <1>3, <3>1, <3>2, <3>4
      <4> QED
        BY <1>3, <4>1, <4>2
    <3> QED
      BY <3>5, <3>6
  <2> HIDE DEF M
  <2> QED
    BY <1>1, <2>1, <2>2, InductUpTo
<1>5. i # at /\ at \in Below(i) => Near(i)
  <2>1. n \in M
    BY <1>1, <1>4
  <2>2. i > n - n
    BY <1>1
  <2> QED
    BY <2>1, <2>2
<1>6. Near(i) => at \in Below(i)
  <2> SUFFICES ASSUME NEW j \in Below(i), sha \in ToSet(commits[j].parents) PROVE at \in Below(i)
    OBVIOUS
  <2>1. j \in 1..n
    BY <1>1, <1>3
  <2>2. rowOf(commits, sha) = at
    BY RowOfName
  <2>3. at \in Below(j)
    BY <1>2, <1>3, <2>1, <2>2
  <2> QED
    BY <1>3, <2>3
<1>7. commits[i].sha = sha <=> i = at
  <2>1. rowOf(commits, sha) = at
    BY RowOfName
  <2> QED
    BY <2>1, RowOfName
<1>8. sha # NoSha
  <2>1. sha \in Names
    BY ListedIsProper DEF Proper
  <2> QED
    BY <2>1, NamesAssumption DEF Names
<1>9. commitsAboveCurrent(commits, sha)[i] = (/\ sha # NoSha /\ commits[i].sha # sha /\ Near(i))
  BY AheadIsAbove
<1> QED
  BY <1>5, <1>6, <1>7, <1>8, <1>9

-------------------------------------------------------------------------------
(* Descendants' recursion.                                                   *)
Climbs(f, cs, i) ==
    f = [k \in 0..i |->
            IF k = 0 THEN {i}
            ELSE f[k - 1] \cup {j \in 1..i : \E p \in ToSet(cs[j].parents) : rowOf(cs, p) \in f[k - 1]}]

LEMMA DescendantsFound ==
    ASSUME Listing, NEW i \in 1..Len(commits)
    PROVE  Descendants(commits, i) = {j \in 1..i : i \in Below(j)}
<1> DEFINE n == Len(commits)
           D == {j \in 1..i : i \in Below(j)}
           Climb(x) == x \cup {j \in 1..i : \E p \in ToSet(commits[j].parents) : rowOf(commits, p) \in x}
           f == CHOOSE x : Climbs(x, commits, i)
           S == SUBSET (1..i)
           F == [k \in 1..i |-> [x \in S |-> Climb(x)]]
<1>1. n \in Nat /\ i \in Nat
  BY RowOfName
<1>2. Descendants(commits, i) = f[i]
  BY Zenon DEF Descendants, Climbs
<1>3. Climbs(f, commits, i)
  <2>1. \A x \in S : Climb(x) \in S
    OBVIOUS
  <2> HIDE DEF Climb, S
  <2>2. F \in [1..i -> [S -> S]]
    BY <2>1
  <2>3. {i} \in S
    BY <1>1 DEF S
  <2> HIDE DEF F
  <2>4. PICK x : Walks(x, F, i, S, {i})
    BY <1>1, <2>2, <2>3, StepsExist DEF Steps
  <2>5. x \in [0..i -> S] /\ x[0] = {i} /\ \A k \in 1..i : x[k] = F[k][x[k - 1]]
    BY <2>4 DEF Walks
  <2>6. \A k \in 1..i : x[k] = Climb(x[k - 1])
    <3> SUFFICES ASSUME NEW k \in 1..i PROVE x[k] = Climb(x[k - 1])
      OBVIOUS
    <3>1. x[k - 1] \in S
      BY <1>1, <2>5
    <3> QED
      BY <2>5, <3>1 DEF F
  <2>7. x = [k \in 0..i |-> IF k = 0 THEN {i} ELSE Climb(x[k - 1])]
    <3>1. \A k \in 0..i : x[k] = IF k = 0 THEN {i} ELSE Climb(x[k - 1])
      BY <1>1, <2>5, <2>6
    <3>2. x = [k \in 0..i |-> x[k]]
      BY <2>5
    <3> QED
      BY <3>1, <3>2
  <2>8. Climbs(x, commits, i)
    BY <2>7 DEF Climbs, Climb
  <2> QED
    BY <2>8
<1> HIDE DEF f
<1>4. \A k \in 0..i : f[k] = IF k = 0 THEN {i} ELSE Climb(f[k - 1])
  BY <1>3 DEF Climbs
<1>5. \A k \in 1..n : \A j : j \in Below(k) <=> \/ j = k
                                                \/ \E p \in ToSet(commits[k].parents) :
                                                      rowOf(commits, p) # 0 /\ j \in Below(rowOf(commits, p))
  BY BelowRow
<1>6. \A k \in 1..n : Below(k) \subseteq k..n
  BY BelowRow
<1>7. ASSUME NEW x, x \subseteq D PROVE Climb(x) \subseteq D
  <2> SUFFICES ASSUME NEW j \in 1..i, NEW p \in ToSet(commits[j].parents), rowOf(commits, p) \in x PROVE i \in Below(j)
    BY <1>7
  <2>1. PICK r : r = rowOf(commits, p)
    OBVIOUS
  <2>2. r \in D
    BY <1>7, <2>1
  <2>3. r \in 1..i /\ i \in Below(r) /\ j \in 1..n
    BY <1>1, <2>2
  <2>4. r # 0
    BY <1>1, <2>3
  <2> QED
    BY <1>5, <2>1, <2>3, <2>4
<1>8. ASSUME NEW x, NEW k \in 1..i, \A j \in D : j >= i - (k - 1) => j \in x
      PROVE  \A j \in D : j >= i - k => j \in Climb(x)
  <2> SUFFICES ASSUME NEW j \in D, j >= i - k PROVE j \in Climb(x)
    OBVIOUS
  <2>0. i \in D /\ i >= i - (k - 1) /\ j \in 1..n
    BY <1>1, <1>5
  <2>1. CASE j = i
    BY <1>8, <2>0, <2>1
  <2>2. CASE j # i
    <3>1. PICK p \in ToSet(commits[j].parents) : rowOf(commits, p) # 0 /\ i \in Below(rowOf(commits, p))
      BY <1>5, <2>0, <2>2
    <3>2. PICK r : r = rowOf(commits, p)
      OBVIOUS
    <3>3. r \in (j+1)..n
      BY <2>0, <3>1, <3>2, ParentRow
    <3>4. r \in 1..n /\ r \in 1..i
      BY <1>1, <1>6, <3>1, <3>2, <3>3
    <3>5. r \in D /\ r >= i - (k - 1)
      BY <1>1, <3>1, <3>2, <3>3, <3>4
    <3>6. r \in x
      BY <1>8, <3>5
    <3> QED
      BY <3>1, <3>2, <3>6
  <2> QED
    BY <2>1, <2>2
<1> DEFINE Good(k) == f[k] \subseteq D /\ \A j \in D : j >= i - k => j \in f[k]
           M == {k \in 0..i : Good(k)}
<1>9. \A k \in 0..i : k \in M
  <2>1. 0 \in M
    <3>1. i \in D /\ \A j \in D : j >= i - 0 => j = i
      BY <1>1, <1>5
    <3>2. f[0] = {i}
      <4> HIDE DEF Climb
      <4>1. 0 \in 0..i
        BY <1>1
      <4> QED
        BY <1>4, <4>1
    <3> HIDE DEF D
    <3> QED
      BY <1>1, <3>1, <3>2
  <2>2. ASSUME NEW m \in 0..i, m < i, m \in M PROVE m + 1 \in M
    <3>1. m + 1 \in 1..i /\ m + 1 \in 0..i /\ m + 1 # 0 /\ (m + 1) - 1 = m
      BY <1>1, <2>2
    <3>2. f[m + 1] = Climb(f[m])
      <4> HIDE DEF Climb
      <4> QED
        BY <1>4, <3>1
    <3>3. f[m] \subseteq D /\ \A j \in D : j >= i - ((m + 1) - 1) => j \in f[m]
      BY <2>2, <3>1
    <3> HIDE DEF D, Climb
    <3>4. Good(m + 1)
      BY <1>7, <1>8, <3>1, <3>2, <3>3
    <3> QED
      BY <3>1, <3>4
  <2> HIDE DEF M
  <2> QED
    BY <1>1, <2>1, <2>2, InductUpTo
<1>10. f[i] \subseteq D /\ \A j \in D : j >= i - i => j \in f[i]
  <2>1. i \in M
    BY <1>1, <1>9
  <2> QED
    BY <2>1
<1> QED
  BY <1>1, <1>2, <1>10

-------------------------------------------------------------------------------
(* The lines of a diagram, and the chains.                                   *)

\* A row's edges join the lanes in use above it and below it.
LEMMA RowLanes ==
    ASSUME NEW was \in GraphState, NEW c, Proper(c), NEW h, RowMade(was, c, h)
    PROVE  /\ \A s \in h.segments : s.from \in Nat /\ s.to \in Nat
           /\ \A s \in h.segments : s.from # Node =>
                 /\ Wait(was.lanes, s.from) # NoSha
                 /\ s.to = Node => Wait(was.lanes, s.from) = c.sha /\ s.from = h.lane
                 /\ s.to # Node => Wait(h.lanes, s.to) = Wait(was.lanes, s.from)
           /\ \A s \in h.segments : s.from = Node =>
                 s.to # Node /\ \E p \in 1..Len(c.parents) : Wait(h.lanes, s.to) = c.parents[p]
           /\ \A s \in h.segments : s.to # Node => Wait(h.lanes, s.to) # NoSha
           /\ Wait(was.lanes, Node) = NoSha /\ Wait(h.lanes, Node) = NoSha
<1>1. h \in GraphState
  BY DEF RowMade, Shaped
<1>2. \A s \in h.segments : s.from \in Nat /\ s.to \in Nat
  BY <1>1 DEF GraphState, Segment
<1>3. c.sha # NoSha /\ \A p \in 1..Len(c.parents) : c.parents[p] # NoSha
  BY NamesAssumption DEF Proper, Names
<1>4. \A s \in h.segments : \/ OwnEdge(c, h, Len(c.parents), s)
                            \/ InEdge(was, c, h, s)
                            \/ MovedEdge(was, c, h, s)
  BY DEF RowMade, RowDrawn
<1>5. Wait(was.lanes, Node) = NoSha /\ Wait(h.lanes, Node) = NoSha
  BY DEF Wait, LaneAt, Free, Node
<1> QED
  BY <1>2, <1>3, <1>4, <1>5 DEF OwnEdge, InEdge, MovedEdge

\* The lines join from row to row.
LEMMA RowsJoin ==
    ASSUME Listing, NEW ahead, NEW current, NEW G, Drawing(G, ahead)
    PROVE  LinesJoin(RowsOf(G, ahead, current))
<1> DEFINE n == Len(commits)
           Live(k) == {l \in Nat : Wait(G[k].lanes, l) # NoSha}
<1>1. n \in Nat
  BY RowOfName
<1>2. PICK drawn : drawn = RowsOf(G, ahead, current)
  OBVIOUS
<1>3. DOMAIN drawn = 1..n /\ \A k \in 1..n : drawn[k].lane = G[k].lane /\ drawn[k].segments = G[k].segments
  BY <1>2 DEF RowsOf
<1>4. Len(drawn) = n
  <2>1. \A k \in 1..n : drawn[k] \in Range(drawn)
    BY <1>3 DEF Range
  <2>2. drawn = [k \in 1..n |-> drawn[k]]
    BY <1>2 DEF RowsOf
  <2>3. drawn \in Seq(Range(drawn))
    BY <1>1, <2>1, <2>2
  <2> QED
    BY <1>1, <1>3, <2>3, LenProperties
<1>5. \A k \in 1..n : RowMade(G[k - 1], commits[k], G[k]) /\ G[k - 1] \in GraphState /\ Proper(commits[k])
  <2> SUFFICES ASSUME NEW k \in 1..n PROVE RowMade(G[k - 1], commits[k], G[k]) /\ G[k - 1] \in GraphState /\ Proper(commits[k])
    OBVIOUS
  <2>1. k - 1 \in 0..n
    BY <1>1
  <2> QED
    BY <2>1, ListedIsProper DEF Drawing
<1>6. ASSUME NEW k \in 1..n
      PROVE  /\ {s.from : s \in {x \in G[k].segments : x.from # Node}} = Live(k - 1)
             /\ {s.to : s \in G[k].segments} \ {Node} = Live(k)
             /\ \A s, t \in {x \in G[k].segments : x.from # Node} : s.from = t.from => s = t
             /\ \A s \in {x \in G[k].segments : x.from # Node} : s.to = Node => s.from = G[k].lane
  <2>1. PICK was, h, c : was = G[k - 1] /\ h = G[k] /\ c = commits[k]
    OBVIOUS
  <2>2. RowMade(was, c, h) /\ was \in GraphState /\ Proper(c)
    BY <1>5, <2>1
  <2>3. /\ \A s \in h.segments : s.from \in Nat /\ s.to \in Nat
        /\ \A s \in h.segments : s.from # Node =>
              /\ Wait(was.lanes, s.from) # NoSha
              /\ s.to = Node => s.from = h.lane
        /\ \A s \in h.segments : s.to # Node => Wait(h.lanes, s.to) # NoSha
        /\ Wait(was.lanes, Node) = NoSha /\ Wait(h.lanes, Node) = NoSha
    BY <2>2, RowLanes
  <2>4. /\ \A l \in Nat : Wait(was.lanes, l) # NoSha => \E s \in h.segments : s.from = l
        /\ \A l \in Nat : Wait(h.lanes, l) # NoSha => \E s \in h.segments : s.to = l
        /\ \A s, t \in h.segments : s.from = t.from /\ s.from # Node => s = t
    BY <2>2 DEF RowMade, GoesOn, ComesFrom, NoneTwice
  <2>5. {s.from : s \in {x \in h.segments : x.from # Node}} = {l \in Nat : Wait(was.lanes, l) # NoSha}
    BY <2>3, <2>4
  <2>6. {s.to : s \in h.segments} \ {Node} = {l \in Nat : Wait(h.lanes, l) # NoSha}
    BY <2>3, <2>4
  <2> QED
    BY <2>1, <2>3, <2>4, <2>5, <2>6
<1>7. Live(0) = {}
  BY StartIsSound DEF Drawing
<1> HIDE DEF Live
<1>8. ASSUME NEW k \in 1..n
      PROVE  LET entering == {s \in drawn[k].segments : s.from # Node}
             IN  /\ {s.from : s \in entering} =
                       IF k = 1 THEN {} ELSE {s.to : s \in drawn[k - 1].segments} \ {Node}
                 /\ \A s, t \in entering : s.from = t.from => s = t
                 /\ \A s \in entering : s.to = Node => s.from = drawn[k].lane
  <2>1. k # 1 => k - 1 \in 1..n
    BY <1>1
  <2>2. k # 1 => {s.to : s \in drawn[k - 1].segments} \ {Node} = Live(k - 1)
    BY <1>3, <1>6, <2>1
  <2>3. k = 1 => Live(k - 1) = {}
    BY <1>7
  <2> QED
    BY <1>3, <1>6, <2>2, <2>3
<1> QED
  BY <1>2, <1>4, <1>8 DEF LinesJoin

LEMMA RowsAre ==
    ASSUME Listing, NEW ahead, NEW current, NEW G, Drawing(G, ahead), NEW drawn, drawn = RowsOf(G, ahead, current)
    PROVE  /\ Len(commits) \in Nat /\ DOMAIN drawn = 1..Len(commits) /\ Len(drawn) = Len(commits)
           /\ \A k \in 1..Len(commits) : /\ drawn[k].lane = G[k].lane /\ drawn[k].segments = G[k].segments
                                         /\ drawn[k].chain = G[k].chain /\ drawn[k].ahead = ahead[k]
                                         /\ drawn[k].current = (current # NoSha /\ commits[k].sha = current)
           /\ \A k \in 1..Len(commits) : /\ RowMade(G[k - 1], commits[k], G[k]) /\ G[k].ahead = ahead[k]
                                         /\ G[k - 1] \in GraphState /\ Proper(commits[k])
           /\ \A k \in 0..Len(commits) : Sound(G[k], k)
           /\ \A k \in 1..Len(commits) : \A s \in drawn[k].segments : s.from \in Nat /\ s.to \in Nat
<1> DEFINE n == Len(commits)
<1>1. n \in Nat
  BY RowOfName
<1>2. /\ DOMAIN drawn = 1..n
      /\ \A k \in 1..n : /\ drawn[k].lane = G[k].lane /\ drawn[k].segments = G[k].segments
                         /\ drawn[k].chain = G[k].chain /\ drawn[k].ahead = ahead[k]
                         /\ drawn[k].current = (current # NoSha /\ commits[k].sha = current)
  BY DEF RowsOf
<1>3. Len(drawn) = n
  <2>1. \A k \in 1..n : drawn[k] \in Range(drawn)
    BY <1>2 DEF Range
  <2>2. drawn = [k \in 1..n |-> drawn[k]]
    BY DEF RowsOf
  <2>3. drawn \in Seq(Range(drawn))
    BY <1>1, <2>1, <2>2
  <2> QED
    BY <1>1, <1>2, <2>3, LenProperties
<1>4. \A k \in 1..n : /\ RowMade(G[k - 1], commits[k], G[k]) /\ G[k].ahead = ahead[k]
                      /\ G[k - 1] \in GraphState /\ Proper(commits[k])
  <2> SUFFICES ASSUME NEW k \in 1..n PROVE G[k - 1] \in GraphState
    BY ListedIsProper DEF Drawing
  <2>1. k - 1 \in 0..n
    BY <1>1
  <2> QED
    BY <2>1 DEF Drawing
<1>5. \A k \in 1..n : \A s \in drawn[k].segments : s.from \in Nat /\ s.to \in Nat
  <2> SUFFICES ASSUME NEW k \in 1..n PROVE \A s \in G[k].segments : s.from \in Nat /\ s.to \in Nat
    BY <1>2
  <2>1. RowMade(G[k - 1], commits[k], G[k]) /\ G[k - 1] \in GraphState /\ Proper(commits[k])
    BY <1>4
  <2> QED
    BY <2>1, RowLanes
<1> QED
  BY <1>1, <1>2, <1>3, <1>4, <1>5 DEF Drawing

\* endsOfLine's recursion.
EndsAt(f, drawn) ==
    f = [at \in (1..Len(drawn) + 1) \X Nat |->
            IF at[1] > Len(drawn) THEN {at[1]}
            ELSE UNION {IF s.to = Node THEN {at[1]} ELSE f[<<at[1] + 1, s.to>>] :
                           s \in {x \in drawn[at[1]].segments : x.from = at[2]}}]

LEMMA EndsExist ==
    ASSUME NEW drawn, Len(drawn) \in Nat, \A k \in 1..Len(drawn) : \A s \in drawn[k].segments : s.to \in Nat
    PROVE  \E f : EndsAt(f, drawn)
<1> DEFINE n == Len(drawn)
           S == [Nat -> SUBSET Nat]
           Down(k, g) == [l \in Nat |-> UNION {IF s.to = Node THEN {k} ELSE g[s.to] : s \in {x \in drawn[k].segments : x.from = l}}]
           F == [m \in 1..n |-> [g \in S |-> Down(n + 1 - m, g)]]
           last == [l \in Nat |-> {n + 1}]
<1>1. \A k \in 1..n : \A g \in S : Down(k, g) \in S
  <2> SUFFICES ASSUME NEW k \in 1..n, NEW g \in S PROVE Down(k, g) \in S
    OBVIOUS
  <2>1. \A s \in drawn[k].segments : (IF s.to = Node THEN {k} ELSE g[s.to]) \in SUBSET Nat
    OBVIOUS
  <2>2. \A l \in Nat : UNION {IF s.to = Node THEN {k} ELSE g[s.to] : s \in {x \in drawn[k].segments : x.from = l}} \in SUBSET Nat
    BY <2>1
  <2> QED
    BY <2>2
<1>2. \A m \in 1..n : n + 1 - m \in 1..n
  OBVIOUS
<1>3. PICK E : E \in [0..n -> S] /\ E[0] = last /\ \A m \in 1..n : E[m] = F[m][E[m - 1]]
  <2>1. last \in S
    OBVIOUS
  <2> HIDE DEF S, Down, last
  <2>2. F \in [1..n -> [S -> S]]
    BY <1>1, <1>2
  <2> HIDE DEF F
  <2>3. PICK f : Walks(f, F, n, S, last)
    BY <2>1, <2>2, StepsExist DEF Steps
  <2> QED
    BY <2>3 DEF Walks
<1>4. \A m \in 1..n : E[m] = Down(n + 1 - m, E[m - 1])
  <2> SUFFICES ASSUME NEW m \in 1..n PROVE E[m] = Down(n + 1 - m, E[m - 1])
    OBVIOUS
  <2> HIDE DEF S, Down
  <2>1. E[m - 1] \in S
    <3> HIDE DEF F, last
    <3>1. m - 1 \in 0..n
      <4>1. n \in Nat
        OBVIOUS
      <4> QED
        BY <4>1
    <3> QED
      BY <1>3, <3>1
  <2>2. F[m] = [g \in S |-> Down(n + 1 - m, g)]
    OBVIOUS
  <2> HIDE DEF F
  <2> QED
    BY <1>3, <2>1, <2>2
<1> DEFINE D == (1..n + 1) \X Nat
           Fit(f, at) == IF at[1] > n THEN {at[1]}
                         ELSE UNION {IF s.to = Node THEN {at[1]} ELSE f[<<at[1] + 1, s.to>>] :
                                        s \in {x \in drawn[at[1]].segments : x.from = at[2]}}
<1>5. PICK f : f = [at \in D |-> E[n + 1 - at[1]][at[2]]]
  OBVIOUS
<1>6. \A k \in 1..n + 1, l \in Nat : f[<<k, l>>] = E[n + 1 - k][l]
  BY <1>5
<1>7. \A at \in D : f[at] = Fit(f, at)
  <2> SUFFICES ASSUME NEW at \in D PROVE f[at] = Fit(f, at)
    OBVIOUS
  <2>1. PICK k, l : k = at[1] /\ l = at[2]
    OBVIOUS
  <2>2. k \in 1..n + 1 /\ l \in Nat /\ at = <<k, l>>
    BY <2>1
  <2>3. f[at] = E[n + 1 - k][l]
    BY <1>6, <2>2
  <2>4. CASE k > n
    <3>1. n + 1 - k = 0
      BY <2>2, <2>4
    <3>2. E[0][l] = {n + 1}
      BY <1>3, <2>2
    <3>3. k = n + 1
      BY <2>2, <2>4
    <3>4. f[at] = {at[1]}
      BY <2>1, <2>3, <3>1, <3>2, <3>3
    <3> QED
      BY <2>1, <2>4, <3>4
  <2>5. CASE ~(k > n)
    <3>1. PICK m : m = n + 1 - k
      OBVIOUS
    <3>2. m \in 1..n /\ n + 1 - m = k /\ k \in 1..n /\ n + 1 - (k + 1) = m - 1 /\ k + 1 \in 1..n + 1
      BY <2>2, <2>5, <3>1
    <3>3. E[m] = Down(k, E[m - 1])
      <4> HIDE DEF Down
      <4> QED
        BY <1>4, <3>2
    <3>4. \A s \in drawn[k].segments : f[<<k + 1, s.to>>] = E[m - 1][s.to]
      BY <1>6, <3>2
    <3>5. E[m][l] = UNION {IF s.to = Node THEN {k} ELSE E[m - 1][s.to] : s \in {x \in drawn[k].segments : x.from = l}}
      BY <2>2, <3>3
    <3>6. E[m][l] = UNION {IF s.to = Node THEN {k} ELSE f[<<k + 1, s.to>>] : s \in {x \in drawn[k].segments : x.from = l}}
      BY <3>4, <3>5
    <3> QED
      BY <2>1, <2>3, <2>5, <3>1, <3>6
  <2> QED
    BY <2>4, <2>5
<1>8. f = [at \in D |-> f[at]]
  BY <1>5
<1>9. f = [at \in D |-> Fit(f, at)]
  <2> HIDE DEF Fit, D
  <2> QED
    BY <1>7, <1>8
<1> QED
  BY <1>9 DEF EndsAt

\* Where a line ends: at the row it waits for.
EndRow(sha) == IF rowOf(commits, sha) = 0 THEN Len(commits) + 1 ELSE rowOf(commits, sha)

LEMMA LineEnds ==
    ASSUME Listing, NEW ahead, NEW current, NEW G, Drawing(G, ahead), NEW drawn, drawn = RowsOf(G, ahead, current),
           NEW k \in 1..Len(commits) + 1, NEW l \in Nat, Wait(G[k - 1].lanes, l) # NoSha
    PROVE  endsOfLine(drawn, k, l) = {EndRow(Wait(G[k - 1].lanes, l))}
<1> DEFINE n == Len(commits)
           f == CHOOSE x : EndsAt(x, drawn)
           Good(i) == \A m \in Nat : Wait(G[i - 1].lanes, m) # NoSha => f[<<i, m>>] = {EndRow(Wait(G[i - 1].lanes, m))}
           M == {m \in 0..n : Good(n + 1 - m)}
           Fan(i, set) == UNION {IF s.to = Node THEN {i} ELSE f[<<i + 1, s.to>>] : s \in set}
<1>1. endsOfLine(drawn, k, l) = f[<<k, l>>]
  BY Zenon DEF endsOfLine, EndsAt
<1>2. /\ n \in Nat /\ Len(drawn) = n
      /\ \A i \in 1..n : \A s \in drawn[i].segments : s.from \in Nat /\ s.to \in Nat
      /\ \A i \in 0..n : Sound(G[i], i)
      /\ \A i \in 1..n : RowMade(G[i - 1], commits[i], G[i]) /\ G[i - 1] \in GraphState /\ Proper(commits[i])
      /\ \A i \in 1..n : drawn[i].segments = G[i].segments
  BY RowsAre
<1>3. EndsAt(f, drawn)
  <2>1. \E x : EndsAt(x, drawn)
    BY <1>2, EndsExist
  <2> QED
    BY <2>1
<1> HIDE DEF f
<1>4. \A i \in 1..n + 1, m \in Nat :
         f[<<i, m>>] = IF i > n THEN {i} ELSE Fan(i, {x \in drawn[i].segments : x.from = m})
  <2> SUFFICES ASSUME NEW i \in 1..n + 1, NEW m \in Nat
               PROVE  f[<<i, m>>] = IF i > n THEN {i} ELSE Fan(i, {x \in drawn[i].segments : x.from = m})
    OBVIOUS
  <2>1. PICK at : at = <<i, m>>
    OBVIOUS
  <2>2. at \in (1..Len(drawn) + 1) \X Nat /\ at[1] = i /\ at[2] = m
    BY <1>2, <2>1
  <2>3. f[at] = IF at[1] > Len(drawn) THEN {at[1]}
                ELSE UNION {IF s.to = Node THEN {at[1]} ELSE f[<<at[1] + 1, s.to>>] :
                               s \in {x \in drawn[at[1]].segments : x.from = at[2]}}
    BY <1>3, <2>2 DEF EndsAt
  <2> QED
    BY <1>2, <2>1, <2>2, <2>3
<1>5. \A sha : rowOf(commits, sha) \in 0..n /\ \A i \in 1..n : commits[i].sha = sha <=> rowOf(commits, sha) = i
  BY RowOfName
<1>6. Good(n + 1)
  <2> SUFFICES ASSUME NEW m \in Nat, Wait(G[n].lanes, m) # NoSha PROVE f[<<n + 1, m>>] = {EndRow(Wait(G[n].lanes, m))}
    BY <1>2
  <2>1. n \in 0..n /\ n + 1 \in 1..n + 1
    BY <1>2
  <2>2. rowOf(commits, Wait(G[n].lanes, m)) = 0 \/ n < rowOf(commits, Wait(G[n].lanes, m))
    BY <1>2, <2>1 DEF Sound, AwaitsBelow
  <2>3. rowOf(commits, Wait(G[n].lanes, m)) = 0
    BY <1>2, <1>5, <2>2
  <2>4. f[<<n + 1, m>>] = {n + 1}
    <3>1. n + 1 > n
      BY <1>2
    <3> HIDE DEF Fan
    <3> QED
      BY <1>4, <2>1, <3>1
  <2> QED
    BY <2>3, <2>4 DEF EndRow
<1>7. ASSUME NEW i \in 1..n, Good(i + 1) PROVE Good(i)
  <2> SUFFICES ASSUME NEW m \in Nat, Wait(G[i - 1].lanes, m) # NoSha PROVE f[<<i, m>>] = {EndRow(Wait(G[i - 1].lanes, m))}
    OBVIOUS
  <2>1. PICK was, h, c : was = G[i - 1] /\ h = G[i] /\ c = commits[i]
    OBVIOUS
  <2>2. RowMade(was, c, h) /\ was \in GraphState /\ Proper(c)
    BY <1>2, <2>1
  <2>3. /\ \A s \in h.segments : s.from # Node =>
              /\ s.to = Node => Wait(was.lanes, s.from) = c.sha
              /\ s.to # Node => Wait(h.lanes, s.to) = Wait(was.lanes, s.from)
        /\ Wait(was.lanes, Node) = NoSha
    BY <2>2, RowLanes
  <2>4. /\ \A j \in Nat : Wait(was.lanes, j) # NoSha => \E s \in h.segments : s.from = j
        /\ \A s, t \in h.segments : s.from = t.from /\ s.from # Node => s = t
    BY <2>2 DEF RowMade, GoesOn, NoneTwice
  <2>5. m # Node
    BY <2>1, <2>3
  <2>6. PICK s \in h.segments : s.from = m
    BY <2>1, <2>4
  <2>7. {x \in drawn[i].segments : x.from = m} = {s}
    BY <1>2, <2>1, <2>4, <2>5, <2>6
  <2>8. i \in 1..n + 1 /\ ~(i > n) /\ i + 1 \in 1..n + 1 /\ (i + 1) - 1 = i
    BY <1>2
  <2>9. f[<<i, m>>] = IF s.to = Node THEN {i} ELSE f[<<i + 1, s.to>>]
    <3>1. f[<<i, m>>] = Fan(i, {s})
      <4> HIDE DEF Fan
      <4> QED
        BY <1>4, <2>7, <2>8
    <3> QED
      BY <3>1
  <2>10. CASE s.to = Node
    <3>1. Wait(was.lanes, m) = c.sha
      BY <2>3, <2>5, <2>6, <2>10
    <3>2. rowOf(commits, c.sha) = i
      BY <1>5, <2>1
    <3> QED
      BY <1>2, <2>1, <2>9, <2>10, <3>1, <3>2 DEF EndRow
  <2>11. CASE s.to # Node
    <3>1. Wait(h.lanes, s.to) = Wait(was.lanes, m) /\ s.to \in Nat
      BY <1>2, <2>1, <2>3, <2>5, <2>6, <2>11
    <3>2. f[<<i + 1, s.to>>] = {EndRow(Wait(G[i].lanes, s.to))}
      BY <1>7, <2>1, <2>8, <3>1
    <3> QED
      BY <2>1, <2>9, <2>11, <3>1, <3>2
  <2> QED
    BY <2>10, <2>11
<1> HIDE DEF Good
<1>8. \A m \in 0..n : m \in M
  <2>1. 0 \in M
    BY <1>2, <1>6
  <2>2. ASSUME NEW m \in 0..n, m < n, m \in M PROVE m + 1 \in M
    <3>1. PICK i : i = n - m
      OBVIOUS
    <3>2. i \in 1..n /\ n + 1 - m = i + 1 /\ n + 1 - (m + 1) = i /\ m + 1 \in 0..n
      BY <1>2, <2>2, <3>1
    <3> QED
      BY <1>7, <2>2, <3>2
  <2> HIDE DEF M
  <2> QED
    BY <1>2, <2>1, <2>2, InductUpTo
<1>9. Good(k)
  <2>1. PICK m : m = n + 1 - k
    OBVIOUS
  <2>2. m \in 0..n /\ n + 1 - m = k
    BY <1>2, <2>1
  <2> QED
    BY <1>8, <2>2
<1> QED
  BY <1>1, <1>9 DEF Good

LEMMA RowsReach ==
    ASSUME Listing, NEW ahead, NEW current, NEW G, Drawing(G, ahead), NEW drawn, drawn = RowsOf(G, ahead, current)
    PROVE  LinesReachParents(commits, drawn)
<1> DEFINE n == Len(commits)
           Own(i) == {s \in drawn[i].segments : s.from = Node}
<1>1. /\ n \in Nat /\ Len(drawn) = n
      /\ \A i \in 0..n : Sound(G[i], i)
      /\ \A i \in 1..n : RowMade(G[i - 1], commits[i], G[i]) /\ G[i - 1] \in GraphState /\ Proper(commits[i])
      /\ \A i \in 1..n : drawn[i].segments = G[i].segments
  BY RowsAre
<1>2. ASSUME NEW i \in 1..n
      PROVE  /\ UNION {endsOfLine(drawn, i + 1, s.to) : s \in Own(i)} = {EndRow(p) : p \in ToSet(commits[i].parents)}
             /\ Cardinality(Own(i)) = Len(commits[i].parents)
  <2>1. PICK h, c, m : h = G[i] /\ c = commits[i] /\ m = Len(c.parents)
    OBVIOUS
  <2>2. RowMade(G[i - 1], c, h) /\ G[i - 1] \in GraphState /\ Proper(c)
    BY <1>1, <2>1
  <2>3. /\ \A s \in h.segments : s.from \in Nat /\ s.to \in Nat
        /\ \A s \in h.segments : s.from = Node =>
              s.to # Node /\ \E p \in 1..m : Wait(h.lanes, s.to) = c.parents[p]
        /\ \A s \in h.segments : s.to # Node => Wait(h.lanes, s.to) # NoSha
    BY <2>1, <2>2, RowLanes
  <2>4. /\ Apart(h.lanes) /\ NoneTwice(h.segments)
        /\ \A p \in 1..m : \E s \in h.segments : s.from = Node /\ s.to # Node /\ Wait(h.lanes, s.to) = c.parents[p]
    BY <2>1, <2>2 DEF RowMade, EdgesDrawn
  <2>5. /\ m \in Nat /\ DOMAIN c.parents = 1..m
        /\ \A p, q \in 1..m : c.parents[p] = c.parents[q] => p = q
    BY <2>1, <2>2, LenProperties DEF Proper
  <2>6. PICK own : own = Own(i)
    OBVIOUS
  <2>7. own = {s \in h.segments : s.from = Node}
    BY <1>1, <2>1, <2>6
  <2>8. \A s \in own : s.to \in Nat /\ s.to # Node /\ Wait(h.lanes, s.to) # NoSha /\ \E p \in 1..m : Wait(h.lanes, s.to) = c.parents[p]
    BY <2>3, <2>7
  <2>9. \A p \in 1..m : \E s \in own : Wait(h.lanes, s.to) = c.parents[p]
    BY <2>4, <2>7
  <2>10. \A s \in own : endsOfLine(drawn, i + 1, s.to) = {EndRow(Wait(h.lanes, s.to))}
    <3> SUFFICES ASSUME NEW s \in own PROVE endsOfLine(drawn, i + 1, s.to) = {EndRow(Wait(h.lanes, s.to))}
      OBVIOUS
    <3>1. PICK k, l : k = i + 1 /\ l = s.to
      OBVIOUS
    <3>2. k \in 1..n + 1 /\ k - 1 = i /\ l \in Nat /\ Wait(G[k - 1].lanes, l) # NoSha
      BY <1>1, <2>1, <2>8, <3>1
    <3>3. endsOfLine(drawn, k, l) = {EndRow(Wait(G[k - 1].lanes, l))}
      BY <3>2, LineEnds
    <3> QED
      BY <2>1, <3>1, <3>2, <3>3
  <2>11. ToSet(c.parents) = {c.parents[p] : p \in 1..m}
    BY <2>5 DEF ToSet
  <2>12. UNION {endsOfLine(drawn, i + 1, s.to) : s \in own} = {EndRow(p) : p \in ToSet(c.parents)}
    <3> DEFINE Ends(s) == endsOfLine(drawn, i + 1, s.to)
               EndedAt(s) == EndRow(Wait(h.lanes, s.to))
    <3>1. UNION {Ends(s) : s \in own} = {EndedAt(s) : s \in own}
      <4>1. \A s \in own : Ends(s) = {EndedAt(s)}
        BY <2>10
      <4> HIDE DEF Ends, EndedAt
      <4> QED
        BY <4>1
    <3>2. {Wait(h.lanes, s.to) : s \in own} = ToSet(c.parents)
      BY <2>8, <2>9, <2>11
    <3> QED
      BY <3>1, <3>2
  <2>13. Cardinality(own) = m
    <3>1. PICK f : f = [p \in 1..m |-> CHOOSE s \in own : Wait(h.lanes, s.to) = c.parents[p]]
      OBVIOUS
    <3>2. f \in [1..m -> own] /\ \A p \in 1..m : Wait(h.lanes, f[p].to) = c.parents[p]
      BY <2>9, <3>1
    <3>3. \A p, q \in 1..m : f[p] = f[q] => p = q
      BY <2>5, <3>2
    <3>4. \A s \in own : \E p \in 1..m : f[p] = s
      <4> SUFFICES ASSUME NEW s \in own PROVE \E p \in 1..m : f[p] = s
        OBVIOUS
      <4>1. PICK p \in 1..m : Wait(h.lanes, s.to) = c.parents[p]
        BY <2>8
      <4>2. PICK t \in own : t = f[p]
        BY <3>2
      <4>3. Wait(h.lanes, t.to) = Wait(h.lanes, s.to)
        BY <3>2, <4>1, <4>2
      <4>4. s.to = t.to
        BY <2>4, <2>8, <4>3 DEF Apart
      <4>5. s \in h.segments /\ t \in h.segments /\ s.from = t.from
        BY <2>7
      <4>6. s = t
        BY <2>4, <4>4, <4>5 DEF NoneTwice
      <4> QED
        BY <4>2, <4>6
    <3>5. f \in Bijection(1..m, own)
      BY <3>2, <3>3, <3>4 DEF Bijection, Injection, Surjection, IsInjective
    <3>6. ExistsBijection(1..m, own)
      BY <3>5 DEF ExistsBijection
    <3> QED
      BY <2>5, <3>6, FS_CountingElements
  <2> QED
    BY <2>1, <2>6, <2>12, <2>13
<1> HIDE DEF Own
<1>3. ASSUME NEW i \in 1..Len(commits)
      PROVE  LET own == {s \in drawn[i].segments : s.from = Node}
                 row(parent) == IF rowOf(commits, parent) = 0 THEN Len(commits) + 1 ELSE rowOf(commits, parent)
             IN  /\ UNION {endsOfLine(drawn, i + 1, s.to) : s \in own} = {row(p) : p \in ToSet(commits[i].parents)}
                 /\ Cardinality(own) = Len(commits[i].parents)
  BY <1>2 DEF Own, EndRow
<1> QED
  BY <1>3 DEF LinesReachParents

\* A chain's line stays in the lane of the chain's nodes and waits for what is below them all.
ChainsHeld(G, k) ==
    \A i \in 1..k :
        /\ G[i].chain < G[k].nextChain
        /\ \A l \in Nat : Wait(G[k].lanes, l) # NoSha /\ LaneAt(G[k].lanes, l).chain = G[i].chain =>
              /\ l = G[i].lane
              /\ rowOf(commits, Wait(G[k].lanes, l)) # 0 => rowOf(commits, Wait(G[k].lanes, l)) \in Below(i)
        /\ \A j \in i + 1..k : G[i].chain = G[j].chain => j \in Below(i) /\ G[i].lane = G[j].lane

LEMMA ChainGoesOn ==
    ASSUME Listing, NEW ahead, NEW G, Drawing(G, ahead), NEW k \in 0..Len(commits), k < Len(commits), ChainsHeld(G, k)
    PROVE  ChainsHeld(G, k + 1)
<1> DEFINE n == Len(commits)
           q == k + 1
<1>1. PICK was, h, c : was = G[k] /\ h = G[q] /\ c = commits[q]
  OBVIOUS
<1>2. n \in Nat /\ q \in 1..n /\ k \in Nat /\ q - 1 = k /\ q \in 0..n
  BY RowOfName
<1>3. RowMade(was, c, h) /\ was \in GraphState /\ h \in GraphState /\ Proper(c)
  BY <1>1, <1>2, ListedIsProper DEF Drawing
<1>4. /\ was.nextChain \in Nat /\ h.nextChain \in Nat /\ h.chain \in Nat /\ h.lane \in Nat
      /\ \A i \in 1..k : G[i].chain \in Nat
      /\ \A l \in Nat : LaneAt(was.lanes, l).chain \in Nat /\ LaneAt(h.lanes, l).chain \in Nat
  <2>1. was.lanes \in Seq(Lane) /\ h.lanes \in Seq(Lane)
    BY <1>3 DEF GraphState
  <2>2. \A l \in Nat : LaneAt(was.lanes, l).chain \in Nat /\ LaneAt(h.lanes, l).chain \in Nat
    BY <2>1, LaneTyped DEF Lane
  <2>3. \A i \in 1..k : G[i] \in GraphState
    <3>1. \A i \in 1..k : i \in 0..n
      BY <1>2
    <3>2. \A i \in 0..n : G[i] \in GraphState
      BY DEF Drawing
    <3> QED
      BY <3>1, <3>2
  <2> QED
    BY <1>3, <2>2, <2>3 DEF GraphState
<1>5. /\ was.nextChain <= h.nextChain /\ h.chain < h.nextChain
      /\ \A l \in Nat : Wait(h.lanes, l) # NoSha /\ l # h.lane => LaneAt(h.lanes, l).chain # h.chain
      /\ \/ Wait(was.lanes, h.lane) = c.sha /\ h.chain = LaneAt(was.lanes, h.lane).chain
         \/ Wait(was.lanes, h.lane) = NoSha /\ was.nextChain <= h.chain
  BY <1>3 DEF RowMade, NodePlaced
<1>6. \A l \in Nat : Wait(h.lanes, l) # NoSha => Wait(h.lanes, l) # c.sha /\ Origin(was, c, h, Len(c.parents), l)
  BY <1>3 DEF RowMade, Origins
<1>7. \A i \in 1..k :
         /\ G[i].chain < was.nextChain
         /\ \A l \in Nat : Wait(was.lanes, l) # NoSha /\ LaneAt(was.lanes, l).chain = G[i].chain =>
               /\ l = G[i].lane
               /\ rowOf(commits, Wait(was.lanes, l)) # 0 => rowOf(commits, Wait(was.lanes, l)) \in Below(i)
         /\ \A j \in i + 1..k : G[i].chain = G[j].chain => j \in Below(i) /\ G[i].lane = G[j].lane
  BY <1>1 DEF ChainsHeld
<1>8. rowOf(commits, c.sha) = q /\ q # 0 /\ c.sha # NoSha
  BY <1>1, <1>2, <1>3, RowOfName, NamesAssumption DEF Proper, Names
<1>9. \A i \in 1..n : \A j \in Below(i) : Below(j) \subseteq Below(i)
  BY BelowRow
<1>10. \A i \in 1..k : G[i].chain = h.chain => q \in Below(i) /\ G[i].lane = h.lane
  BY <1>4, <1>5, <1>7, <1>8
<1>11. ASSUME NEW l \in Nat, Wait(h.lanes, l) # NoSha, LaneAt(h.lanes, l).chain = h.chain
       PROVE  /\ l = h.lane
              /\ rowOf(commits, Wait(h.lanes, l)) # 0 => rowOf(commits, Wait(h.lanes, l)) \in Below(q)
  <2>1. l = h.lane
    BY <1>5, <1>11
  <2>2. ~(Wait(was.lanes, l) = Wait(h.lanes, l))
    BY <1>5, <1>6, <1>11, <2>1
  <2>3. Len(c.parents) # 0 /\ Wait(h.lanes, l) = c.parents[1]
    BY <1>6, <1>11, <2>2 DEF Origin
  <2>4. c.parents[1] \in ToSet(c.parents)
    <3>1. DOMAIN c.parents = 1..Len(c.parents) /\ Len(c.parents) \in Nat
      BY <1>3, LenProperties DEF Proper
    <3> QED
      BY <2>3, <3>1 DEF ToSet
  <2>5. PICK r : r = rowOf(commits, c.parents[1])
    OBVIOUS
  <2>6. r # 0 => r \in 1..n /\ r \in Below(r) /\ r \in Below(q)
    <3>1. r \in 0..n
      BY <2>5, RowOfName
    <3>2. r # 0 => r \in 1..n /\ r \in Below(r)
      BY <1>2, <3>1, BelowRow
    <3> QED
      BY <1>1, <1>2, <2>4, <2>5, <3>2, BelowRow
  <2> QED
    BY <2>1, <2>3, <2>5, <2>6
<1>12. ASSUME NEW i \in 1..k, NEW l \in Nat, Wait(h.lanes, l) # NoSha, LaneAt(h.lanes, l).chain = G[i].chain
       PROVE  /\ l = G[i].lane
              /\ rowOf(commits, Wait(h.lanes, l)) # 0 => rowOf(commits, Wait(h.lanes, l)) \in Below(i)
  <2>1. CASE LaneAt(h.lanes, l).chain = h.chain
    <3>1. q \in Below(i) /\ G[i].lane = h.lane
      BY <1>10, <1>12, <2>1
    <3>2. i \in 1..n
      BY <1>2
    <3>3. Below(q) \subseteq Below(i)
      BY <1>9, <3>1, <3>2
    <3> QED
      BY <1>11, <1>12, <2>1, <3>1, <3>3
  <2>2. CASE LaneAt(h.lanes, l).chain # h.chain
    <3>1. ~(was.nextChain <= LaneAt(h.lanes, l).chain)
      BY <1>4, <1>7, <1>12
    <3>2. Wait(was.lanes, l) = Wait(h.lanes, l) /\ LaneAt(was.lanes, l).chain = LaneAt(h.lanes, l).chain
      BY <1>6, <1>12, <2>2, <3>1 DEF Origin
    <3> QED
      BY <1>7, <1>12, <3>2
  <2> QED
    BY <2>1, <2>2
<1>13. ASSUME NEW i \in 1..q
       PROVE  /\ G[i].chain < h.nextChain
              /\ \A l \in Nat : Wait(h.lanes, l) # NoSha /\ LaneAt(h.lanes, l).chain = G[i].chain =>
                    /\ l = G[i].lane
                    /\ rowOf(commits, Wait(h.lanes, l)) # 0 => rowOf(commits, Wait(h.lanes, l)) \in Below(i)
              /\ \A j \in i + 1..q : G[i].chain = G[j].chain => j \in Below(i) /\ G[i].lane = G[j].lane
  <2>1. CASE i = q
    <3>1. \A j \in i + 1..q : FALSE
      BY <1>2, <2>1
    <3> QED
      BY <1>1, <1>5, <1>11, <2>1, <3>1
  <2>2. CASE i # q
    <3>1. i \in 1..k
      BY <1>2, <2>2
    <3>2. G[i].chain < h.nextChain
      BY <1>4, <1>5, <1>7, <3>1
    <3>3. \A j \in i + 1..q : j = q \/ j \in i + 1..k
      BY <1>2, <3>1
    <3>4. \A j \in i + 1..q : G[i].chain = G[j].chain => j \in Below(i) /\ G[i].lane = G[j].lane
      BY <1>1, <1>7, <1>10, <3>1, <3>3
    <3> QED
      BY <1>12, <3>1, <3>2, <3>4
  <2> QED
    BY <2>1, <2>2
<1> QED
  BY <1>1, <1>13 DEF ChainsHeld

LEMMA ChainsStand ==
    ASSUME Listing, NEW ahead, NEW current, NEW G, Drawing(G, ahead), NEW drawn, drawn = RowsOf(G, ahead, current)
    PROVE  ChainsAreLines(commits, drawn)
<1> DEFINE n == Len(commits)
           M == {k \in 0..n : ChainsHeld(G, k)}
<1>1. n \in Nat
  BY RowOfName
<1>2. \A k \in 0..n : k \in M
  <2>1. 0 \in M
    BY <1>1 DEF ChainsHeld
  <2>2. ASSUME NEW m \in 0..n, m < n, m \in M PROVE m + 1 \in M
    BY <1>1, <2>2, ChainGoesOn
  <2> HIDE DEF M
  <2> QED
    BY <1>1, <2>1, <2>2, InductUpTo
<1>3. ChainsHeld(G, n)
  BY <1>1, <1>2
<1>4. \A i \in 1..n : drawn[i].chain = G[i].chain /\ drawn[i].lane = G[i].lane
  BY RowsAre
<1>5. ASSUME NEW i \in 1..n, NEW j \in 1..n, i < j, drawn[i].chain = drawn[j].chain
      PROVE  i \in Descendants(commits, j) /\ drawn[i].lane = drawn[j].lane
  <2>1. j \in i + 1..n /\ i \in 1..j
    BY <1>1, <1>5
  <2>2. j \in Below(i) /\ G[i].lane = G[j].lane
    BY <1>3, <1>4, <1>5, <2>1 DEF ChainsHeld
  <2>3. i \in Descendants(commits, j)
    BY <2>1, <2>2, DescendantsFound
  <2> QED
    BY <1>4, <2>2, <2>3
<1> QED
  BY <1>5 DEF ChainsAreLines

-------------------------------------------------------------------------------
(* What is marked as above the checkout.                                     *)

\* The lanes reach the parents, in any listing.
LEMMA LanesReach ==
    ASSUME Listing
    PROVE  LanesReachParents
<1>1. PICK ahead : ahead = commitsAboveCurrent(commits, NoSha)
  OBVIOUS
<1>2. ahead \in [1..Len(commits) -> BOOLEAN]
  BY <1>1, AheadIsAbove
<1>3. PICK G : Drawing(G, ahead) /\ buildCommitGraph(commits, NoSha) = RowsOf(G, ahead, NoSha)
  BY <1>1, <1>2, GraphIsDrawn
<1>4. PICK drawn : drawn = buildCommitGraph(commits, NoSha)
  OBVIOUS
<1>5. LinesJoin(drawn) /\ LinesReachParents(commits, drawn) /\ ChainsAreLines(commits, drawn)
  BY <1>3, <1>4, RowsJoin, RowsReach, ChainsStand
<1> QED
  BY <1>4, <1>5 DEF LanesReachParents

\* CarriedRows' recursion.
CarriesDown(f, drawn) ==
    f = [at \in (0..Len(drawn)) \X Nat |->
            IF at[1] = 0 THEN {}
            ELSE UNION {IF s.from = Node THEN {at[1]} ELSE f[<<at[1] - 1, s.from>>] :
                           s \in {x \in drawn[at[1]].segments : x.to = at[2]}}]

LEMMA CarriedExist ==
    ASSUME NEW drawn, Len(drawn) \in Nat, \A k \in 1..Len(drawn) : \A s \in drawn[k].segments : s.from \in Nat
    PROVE  \E f : CarriesDown(f, drawn)
<1> DEFINE n == Len(drawn)
           S == [Nat -> SUBSET Nat]
           Down(k, g) == [l \in Nat |-> UNION {IF s.from = Node THEN {k} ELSE g[s.from] : s \in {x \in drawn[k].segments : x.to = l}}]
           F == [k \in 1..n |-> [g \in S |-> Down(k, g)]]
           none == [l \in Nat |-> {}]
<1>1. \A k \in 1..n : \A g \in S : Down(k, g) \in S
  <2> SUFFICES ASSUME NEW k \in 1..n, NEW g \in S PROVE Down(k, g) \in S
    OBVIOUS
  <2>1. \A s \in drawn[k].segments : (IF s.from = Node THEN {k} ELSE g[s.from]) \in SUBSET Nat
    OBVIOUS
  <2>2. \A l \in Nat : UNION {IF s.from = Node THEN {k} ELSE g[s.from] : s \in {x \in drawn[k].segments : x.to = l}} \in SUBSET Nat
    BY <2>1
  <2> QED
    BY <2>2
<1>3. PICK E : E \in [0..n -> S] /\ E[0] = none /\ \A k \in 1..n : E[k] = F[k][E[k - 1]]
  <2>1. none \in S
    OBVIOUS
  <2> HIDE DEF S, Down, none
  <2>2. F \in [1..n -> [S -> S]]
    BY <1>1
  <2> HIDE DEF F
  <2>3. PICK f : Walks(f, F, n, S, none)
    BY <2>1, <2>2, StepsExist DEF Steps
  <2> QED
    BY <2>3 DEF Walks
<1>4. \A k \in 1..n : E[k] = Down(k, E[k - 1])
  <2> SUFFICES ASSUME NEW k \in 1..n PROVE E[k] = Down(k, E[k - 1])
    OBVIOUS
  <2>1. E[k - 1] \in S
    BY <1>3
  <2> HIDE DEF S, Down
  <2>2. F[k] = [g \in S |-> Down(k, g)]
    OBVIOUS
  <2> HIDE DEF F
  <2> QED
    BY <1>3, <2>1, <2>2
<1> DEFINE D == (0..n) \X Nat
           Fit(f, at) == IF at[1] = 0 THEN {}
                         ELSE UNION {IF s.from = Node THEN {at[1]} ELSE f[<<at[1] - 1, s.from>>] :
                                        s \in {x \in drawn[at[1]].segments : x.to = at[2]}}
<1>5. PICK f : f = [at \in D |-> E[at[1]][at[2]]]
  OBVIOUS
<1>6. \A k \in 0..n, l \in Nat : f[<<k, l>>] = E[k][l]
  BY <1>5
<1>7. \A at \in D : f[at] = Fit(f, at)
  <2> SUFFICES ASSUME NEW at \in D PROVE f[at] = Fit(f, at)
    OBVIOUS
  <2>1. PICK k, l : k = at[1] /\ l = at[2]
    OBVIOUS
  <2>2. k \in 0..n /\ l \in Nat /\ at = <<k, l>>
    BY <2>1
  <2>3. f[at] = E[k][l]
    BY <1>6, <2>2
  <2>4. CASE k = 0
    <3>1. E[0][l] = {}
      BY <1>3, <2>2
    <3>2. f[at] = {}
      BY <2>3, <2>4, <3>1
    <3> QED
      BY <2>1, <2>4, <3>2
  <2>5. CASE k # 0
    <3>1. k \in 1..n /\ k - 1 \in 0..n
      BY <2>2, <2>5
    <3>2. E[k] = Down(k, E[k - 1])
      <4> HIDE DEF Down
      <4> QED
        BY <1>4, <3>1
    <3>3. \A s \in drawn[k].segments : f[<<k - 1, s.from>>] = E[k - 1][s.from]
      BY <1>6, <3>1
    <3>4. E[k][l] = UNION {IF s.from = Node THEN {k} ELSE E[k - 1][s.from] : s \in {x \in drawn[k].segments : x.to = l}}
      BY <2>2, <3>2
    <3>5. E[k][l] = UNION {IF s.from = Node THEN {k} ELSE f[<<k - 1, s.from>>] : s \in {x \in drawn[k].segments : x.to = l}}
      BY <3>3, <3>4
    <3> QED
      BY <2>1, <2>3, <2>5, <3>5
  <2> QED
    BY <2>4, <2>5
<1>8. f = [at \in D |-> f[at]]
  BY <1>5
<1>9. f = [at \in D |-> Fit(f, at)]
  <2> HIDE DEF Fit, D
  <2> QED
    BY <1>7, <1>8
<1> QED
  BY <1>9 DEF CarriesDown

\* The rows carried, line by line.
LEMMA CarriedStep ==
    ASSUME NEW drawn, Len(drawn) \in Nat, \A k \in 1..Len(drawn) : \A s \in drawn[k].segments : s.from \in Nat,
           NEW k \in 1..Len(drawn), NEW l \in Nat
    PROVE  \A j : j \in CarriedRows(drawn, k, l) <=>
              \E s \in drawn[k].segments :
                 s.to = l /\ IF s.from = Node THEN j = k ELSE j \in CarriedRows(drawn, k - 1, s.from)
<1> DEFINE f == CHOOSE x : CarriesDown(x, drawn)
           Fan(set) == UNION {IF s.from = Node THEN {k} ELSE f[<<k - 1, s.from>>] : s \in set}
<1>1. \A i, m : CarriedRows(drawn, i, m) = f[<<i, m>>]
  BY Zenon DEF CarriedRows, CarriesDown
<1>2. CarriesDown(f, drawn)
  <2>1. \E x : CarriesDown(x, drawn)
    BY CarriedExist
  <2> QED
    BY <2>1
<1> HIDE DEF f
<1>3. f[<<k, l>>] = Fan({x \in drawn[k].segments : x.to = l})
  <2>1. PICK at : at = <<k, l>>
    OBVIOUS
  <2>2. at \in (0..Len(drawn)) \X Nat /\ at[1] = k /\ at[2] = l /\ k # 0
    BY <2>1
  <2>3. f[at] = IF at[1] = 0 THEN {}
                ELSE UNION {IF s.from = Node THEN {at[1]} ELSE f[<<at[1] - 1, s.from>>] :
                               s \in {x \in drawn[at[1]].segments : x.to = at[2]}}
    BY <1>2, <2>2 DEF CarriesDown
  <2> QED
    BY <2>1, <2>2, <2>3
<1>4. \A j : j \in Fan({x \in drawn[k].segments : x.to = l}) <=>
           \E s \in drawn[k].segments : s.to = l /\ IF s.from = Node THEN j = k ELSE j \in f[<<k - 1, s.from>>]
  OBVIOUS
<1> HIDE DEF Fan
<1>5. \A j : j \in f[<<k, l>>] <=>
           \E s \in drawn[k].segments : s.to = l /\ IF s.from = Node THEN j = k ELSE j \in f[<<k - 1, s.from>>]
  BY <1>3, <1>4
<1>6. CarriedRows(drawn, k, l) = f[<<k, l>>] /\ \A s \in drawn[k].segments : CarriedRows(drawn, k - 1, s.from) = f[<<k - 1, s.from>>]
  BY <1>1
<1> QED
  BY <1>5, <1>6

LEMMA MarksAreNew ==
    ASSUME Listing, NEW at \in 1..Len(commits), NEW sha, sha = commits[at].sha,
           NEW ahead, ahead = commitsAboveCurrent(commits, sha), NEW G, Drawing(G, ahead),
           NEW drawn, drawn = RowsOf(G, ahead, sha)
    PROVE  AheadIsNew(commits, sha, drawn)
<1> DEFINE n == Len(commits)
<1>1. /\ n \in Nat /\ Len(drawn) = n
      /\ \A k \in 1..n : drawn[k].segments = G[k].segments /\ drawn[k].ahead = ahead[k]
      /\ \A k \in 1..n : /\ RowMade(G[k - 1], commits[k], G[k]) /\ G[k].ahead = ahead[k]
                         /\ G[k - 1] \in GraphState /\ Proper(commits[k])
      /\ \A k \in 1..n : \A s \in drawn[k].segments : s.from \in Nat /\ s.to \in Nat
  <2>1. n \in Nat /\ Len(drawn) = n
    BY RowsAre
  <2>2. \A k \in 1..n : drawn[k].segments = G[k].segments /\ drawn[k].ahead = ahead[k]
    BY RowsAre
  <2>3. \A k \in 1..n : /\ RowMade(G[k - 1], commits[k], G[k]) /\ G[k].ahead = ahead[k]
                         /\ G[k - 1] \in GraphState /\ Proper(commits[k])
    BY RowsAre
  <2>4. \A k \in 1..n : \A s \in drawn[k].segments : s.from \in Nat /\ s.to \in Nat
    BY RowsAre
  <2> QED
    BY <2>1, <2>2, <2>3, <2>4
<1> DEFINE new == Descendants(commits, at) \ {at}
           C(k, l) == CarriedRows(drawn, k, l)
           MarksFit(k) == \A l \in Nat : Wait(G[k].lanes, l) # NoSha => (LaneAt(G[k].lanes, l).ahead <=> C(k, l) \subseteq new)
           M == {k \in 0..n : MarksFit(k)}
<1>2. \A k \in 1..n : ahead[k] <=> k \in new
  <2> SUFFICES ASSUME NEW k \in 1..n PROVE ahead[k] <=> k \in new
    OBVIOUS
  <2>1. ahead[k] <=> k # at /\ at \in Below(k)
    BY AheadIsDescending
  <2>2. k \in new <=> k \in 1..at /\ at \in Below(k) /\ k # at
    BY DescendantsFound
  <2>3. at \in Below(k) => k \in 1..at
    BY <1>1, BelowRow
  <2> QED
    BY <2>1, <2>2, <2>3
<1>3. rowOf(commits, sha) = at /\ at # 0
  BY RowOfName
<1>4. \A k \in 1..n, l \in Nat : \A j : j \in C(k, l) <=>
         \E s \in G[k].segments : s.to = l /\ IF s.from = Node THEN j = k ELSE j \in C(k - 1, s.from)
  <2> SUFFICES ASSUME NEW k \in 1..n, NEW l \in Nat
               PROVE  \A j : j \in C(k, l) <=>
                         \E s \in G[k].segments : s.to = l /\ IF s.from = Node THEN j = k ELSE j \in C(k - 1, s.from)
    OBVIOUS
  <2>1. \A j : j \in CarriedRows(drawn, k, l) <=>
              \E s \in drawn[k].segments :
                 s.to = l /\ IF s.from = Node THEN j = k ELSE j \in CarriedRows(drawn, k - 1, s.from)
    <3> HIDE DEF C, new
    <3>1. Len(drawn) \in Nat /\ k \in 1..Len(drawn) /\ \A i \in 1..Len(drawn) : \A s \in drawn[i].segments : s.from \in Nat
      BY <1>1
    <3> QED
      BY <3>1, CarriedStep
  <2> QED
    BY <1>1, <2>1
<1> HIDE DEF C, new
<1>5. ASSUME NEW k \in 1..n, MarksFit(k - 1) PROVE MarksFit(k)
  <2> SUFFICES ASSUME NEW l \in Nat, Wait(G[k].lanes, l) # NoSha
               PROVE  LaneAt(G[k].lanes, l).ahead <=> C(k, l) \subseteq new
    OBVIOUS
  <2>1. PICK was, h, c : was = G[k - 1] /\ h = G[k] /\ c = commits[k]
    OBVIOUS
  <2>2. RowMade(was, c, h) /\ was \in GraphState /\ Proper(c) /\ (h.ahead <=> k \in new)
    BY <1>1, <1>2, <2>1
  <2>3. \A s \in h.segments : s.from \in Nat /\ (s.from # Node => Wait(was.lanes, s.from) # NoSha)
    BY <2>2, RowLanes
  <2>4. LaneAt(h.lanes, l).ahead <=>
           /\ \A s \in h.segments : s.to = l /\ s.from # Node => LaneAt(was.lanes, s.from).ahead
           /\ \A s \in h.segments : s.to = l /\ s.from = Node => h.ahead
    BY <2>1, <2>2 DEF RowMade, RowMarked
  <2>5. \A s \in h.segments : s.from # Node => (LaneAt(was.lanes, s.from).ahead <=> C(k - 1, s.from) \subseteq new)
    BY <1>5, <2>1, <2>3
  <2>6. \A j : j \in C(k, l) <=> \E s \in h.segments : s.to = l /\ IF s.from = Node THEN j = k ELSE j \in C(k - 1, s.from)
    BY <1>4, <2>1
  <2>7. C(k, l) \subseteq new <=>
           /\ \A s \in h.segments : s.to = l /\ s.from # Node => C(k - 1, s.from) \subseteq new
           /\ \A s \in h.segments : s.to = l /\ s.from = Node => k \in new
    BY <2>6
  <2> QED
    BY <2>1, <2>2, <2>4, <2>5, <2>7
<1>6. MarksFit(0)
  BY StartIsSound DEF Drawing
<1> HIDE DEF MarksFit
<1>7. \A k \in 0..n : k \in M
  <2>1. 0 \in M
    BY <1>1, <1>6
  <2>2. ASSUME NEW m \in 0..n, m < n, m \in M PROVE m + 1 \in M
    <3>1. m + 1 \in 1..n /\ (m + 1) - 1 = m /\ m + 1 \in 0..n
      BY <1>1, <2>2
    <3> QED
      BY <1>5, <2>2, <3>1
  <2> HIDE DEF M
  <2> QED
    BY <1>1, <2>1, <2>2, InductUpTo
<1>8. ASSUME NEW k \in 1..n
      PROVE  /\ drawn[k].ahead <=> k \in new
             /\ \A s \in {x \in drawn[k].segments : x.from # Node} :
                   LET entering == C(k - 1, s.from)
                       leaving == IF s.to = Node THEN entering ELSE C(k, s.to)
                   IN  /\ s.ahead => entering \subseteq new
                       /\ leaving \subseteq new => s.ahead
  <2>1. PICK was, h, c : was = G[k - 1] /\ h = G[k] /\ c = commits[k]
    OBVIOUS
  <2>2. RowMade(was, c, h) /\ was \in GraphState /\ Proper(c)
    BY <1>1, <2>1
  <2>3. ASSUME NEW s \in h.segments, s.from # Node
        PROVE  /\ s.ahead => C(k - 1, s.from) \subseteq new
               /\ s.to = Node => (C(k - 1, s.from) \subseteq new => s.ahead)
               /\ s.to # Node => (C(k, s.to) \subseteq new => s.ahead)
    <3>1. Wait(was.lanes, s.from) # NoSha /\ s.from \in Nat /\ s.to \in Nat /\ (s.to # Node => Wait(h.lanes, s.to) # NoSha)
      BY <2>2, <2>3, RowLanes
    <3>2. k - 1 \in 0..n /\ k \in 0..n
      BY <1>1
    <3>3. MarksFit(k - 1) /\ MarksFit(k)
      BY <1>7, <3>2
    <3>4. LaneAt(was.lanes, s.from).ahead <=> C(k - 1, s.from) \subseteq new
      BY <2>1, <3>1, <3>3 DEF MarksFit
    <3>5. s.to # Node => (LaneAt(h.lanes, s.to).ahead <=> C(k, s.to) \subseteq new)
      BY <2>1, <3>1, <3>3 DEF MarksFit
    <3>6. InEdge(was, c, h, s) \/ MovedEdge(was, c, h, s)
      BY <2>2, <2>3 DEF RowMade, RowDrawn, OwnEdge
    <3> QED
      BY <3>4, <3>5, <3>6 DEF InEdge, MovedEdge
  <2> QED
    BY <1>1, <1>2, <2>1, <2>3
<1> QED
  BY <1>1, <1>3, <1>8 DEF AheadIsNew, C, new

-------------------------------------------------------------------------------
(* A diagram a search has filtered.                                          *)

\* RowsLeft's recursion.
AscendsTo(f, n) == f = [k \in 0..n |-> IF k = 0 THEN {<<>>} ELSE f[k - 1] \cup {Append(v, k) : v \in f[k - 1]}]
AscendingIn(v, k) ==
    /\ v \in Seq(Nat) /\ Len(v) \in Nat /\ DOMAIN v = 1..Len(v)
    /\ \A r \in 1..Len(v) : v[r] \in 1..k
    /\ \A r \in 1..Len(v) - 1 : v[r] < v[r + 1]

LEMMA AscendingRows ==
    ASSUME NEW n \in Nat, NEW v \in RowsLeft(n)
    PROVE  AscendingIn(v, n)
<1> DEFINE S == SUBSET Seq(Nat)
           Add(k, x) == x \cup {Append(w, k) : w \in x}
           F == [k \in 1..n |-> [x \in S |-> Add(k, x)]]
           f == CHOOSE x : AscendsTo(x, n)
<1>1. RowsLeft(n) = f[n]
  BY Zenon DEF RowsLeft, AscendsTo
<1>2. AscendsTo(f, n)
  <2>1. \A k \in 1..n : \A x \in S : Add(k, x) \in S
    BY AppendProperties
  <2>2. {<<>>} \in S
    BY EmptySeq
  <2> HIDE DEF S, Add
  <2>3. F \in [1..n -> [S -> S]]
    BY <2>1
  <2> HIDE DEF F
  <2>4. PICK x : Walks(x, F, n, S, {<<>>})
    BY <2>2, <2>3, StepsExist DEF Steps
  <2>5. x \in [0..n -> S] /\ x[0] = {<<>>} /\ \A k \in 1..n : x[k] = F[k][x[k - 1]]
    BY <2>4 DEF Walks
  <2>6. \A k \in 0..n : x[k] = IF k = 0 THEN {<<>>} ELSE Add(k, x[k - 1])
    <3> SUFFICES ASSUME NEW k \in 0..n, k # 0 PROVE x[k] = Add(k, x[k - 1])
      BY <2>5
    <3>1. k \in 1..n /\ x[k - 1] \in S
      BY <2>5
    <3> QED
      BY <2>5, <3>1 DEF F
  <2>7. x = [k \in 0..n |-> x[k]]
    BY <2>5
  <2>8. x = [k \in 0..n |-> IF k = 0 THEN {<<>>} ELSE Add(k, x[k - 1])]
    BY <2>6, <2>7
  <2>9. AscendsTo(x, n)
    BY <2>8 DEF AscendsTo, Add
  <2> QED
    BY <2>9
<1> HIDE DEF f, S, F
<1>3. \A k \in 0..n : f[k] = IF k = 0 THEN {<<>>} ELSE Add(k, f[k - 1])
  BY <1>2 DEF AscendsTo
<1> DEFINE M == {k \in 0..n : \A w \in f[k] : AscendingIn(w, k)}
<1>4. \A k \in 0..n : k \in M
  <2>1. 0 \in M
    <3>1. f[0] = {<<>>}
      <4> HIDE DEF Add
      <4>1. 0 \in 0..n
        OBVIOUS
      <4> QED
        BY <1>3, <4>1
    <3>2. AscendingIn(<<>>, 0)
      BY EmptySeq DEF AscendingIn
    <3> QED
      BY <3>1, <3>2
  <2>2. ASSUME NEW m \in 0..n, m < n, m \in M PROVE m + 1 \in M
    <3>1. m + 1 \in 0..n /\ m + 1 # 0 /\ (m + 1) - 1 = m
      BY <2>2
    <3>2. f[m + 1] = Add(m + 1, f[m])
      <4> HIDE DEF Add
      <4> QED
        BY <1>3, <3>1
    <3>3. ASSUME NEW w \in f[m] PROVE AscendingIn(w, m + 1)
      <4>1. AscendingIn(w, m)
        BY <2>2
      <4> QED
        BY <4>1 DEF AscendingIn
    <3>4. ASSUME NEW w \in f[m] PROVE AscendingIn(Append(w, m + 1), m + 1)
      <4>1. PICK a, l : a = Append(w, m + 1) /\ l = Len(w)
        OBVIOUS
      <4>2. /\ w \in Seq(Nat) /\ l \in Nat
            /\ \A r \in 1..l : w[r] \in 1..m
            /\ \A r \in 1..l - 1 : w[r] < w[r + 1]
        BY <2>2, <4>1 DEF AscendingIn
      <4>3. a \in Seq(Nat) /\ Len(a) = l + 1 /\ (\A r \in 1..l : a[r] = w[r]) /\ a[l + 1] = m + 1
        BY <4>1, <4>2, AppendProperties
      <4>4. DOMAIN a = 1..l + 1
        BY <4>3, LenProperties
      <4>5. \A r \in 1..l + 1 : a[r] \in 1..m + 1
        <5> SUFFICES ASSUME NEW r \in 1..l + 1 PROVE a[r] \in 1..m + 1
          OBVIOUS
        <5>1. CASE r \in 1..l
          <6>1. a[r] = w[r] /\ w[r] \in 1..m
            BY <4>2, <4>3, <5>1
          <6> QED
            BY <6>1
        <5>2. CASE r = l + 1
          BY <4>3, <5>2
        <5> QED
          BY <4>2, <5>1, <5>2
      <4>6. \A r \in 1..l : a[r] < a[r + 1]
        <5> SUFFICES ASSUME NEW r \in 1..l PROVE a[r] < a[r + 1]
          OBVIOUS
        <5>1. a[r] = w[r] /\ w[r] \in 1..m
          BY <4>2, <4>3
        <5>2. CASE r \in 1..l - 1
          <6>1. r + 1 \in 1..l
            BY <4>2, <5>2
          <6>2. a[r + 1] = w[r + 1] /\ w[r] < w[r + 1]
            BY <4>2, <4>3, <5>2, <6>1
          <6> QED
            BY <5>1, <6>2
        <5>3. CASE r = l
          BY <4>3, <5>1, <5>3
        <5> QED
          BY <4>2, <5>2, <5>3
      <4>7. Len(a) - 1 = l /\ Len(a) \in Nat
        BY <4>2, <4>3
      <4> QED
        BY <4>1, <4>3, <4>4, <4>5, <4>6, <4>7 DEF AscendingIn
    <3> QED
      BY <3>1, <3>2, <3>3, <3>4
  <2> HIDE DEF M
  <2> QED
    BY <2>1, <2>2, InductUpTo
<1>5. n \in M
  BY <1>4
<1> QED
  BY <1>1, <1>5

\* A filtered diagram joins the commits of a chain.
LEMMA JoinsMeet ==
    ASSUME Listing, NEW at \in 1..Len(commits), NEW sha, sha = commits[at].sha,
           NEW ahead, ahead = commitsAboveCurrent(commits, sha), NEW G, Drawing(G, ahead),
           NEW drawn, drawn = RowsOf(G, ahead, sha), ChainsAreLines(commits, drawn), AheadIsNew(commits, sha, drawn),
           NEW visible, AscendingIn(visible, Len(commits))
    PROVE  FilteredJoins(commits, drawn, visible, filteredCommitGraph(drawn, visible))
<1> DEFINE n == Len(commits)
           joined(r, s) == drawn[visible[r]].chain = drawn[visible[s]].chain
           row(r) == drawn[visible[r]]
           Up(r) == {[from |-> row(r).lane, to |-> Node, elided |-> visible[r - 1] # visible[r] - 1,
                      ahead |-> row(r).ahead \/ row(r).current] : k \in {j \in {r} : j > 1 /\ joined(r, j - 1)}}
           Down(r) == {[from |-> Node, to |-> row(r).lane, elided |-> visible[r + 1] # visible[r] + 1,
                        ahead |-> row(r).ahead] : k \in {j \in {r} : j < Len(visible) /\ joined(r, j + 1)}}
<1>1. PICK shown : shown = filteredCommitGraph(drawn, visible)
  OBVIOUS
<1>2. /\ n \in Nat /\ Len(visible) \in Nat /\ DOMAIN visible = 1..Len(visible)
      /\ \A r \in 1..Len(visible) : visible[r] \in 1..n
      /\ \A r \in 1..Len(visible) - 1 : visible[r] < visible[r + 1]
  BY RowOfName DEF AscendingIn
<1>3. \A k \in 1..n : G[k].lane \in Nat /\ G[k].lane # Node
  <2> SUFFICES ASSUME NEW k \in 1..n PROVE G[k].lane \in Nat /\ G[k].lane # Node
    OBVIOUS
  <2>1. RowMade(G[k - 1], commits[k], G[k])
    BY DEF Drawing
  <2>2. PICK h : h = G[k]
    OBVIOUS
  <2>3. h.lane \in 1..Len(h.lanes) /\ Len(h.lanes) \in Nat
    BY <2>1, <2>2, LenProperties DEF RowMade, Shaped, GraphState
  <2> QED
    BY <2>2, <2>3 DEF Node
<1>4. \A k \in 1..n : drawn[k] = [lane |-> G[k].lane, chain |-> G[k].chain, segments |-> G[k].segments,
                                 ahead |-> ahead[k], current |-> sha # NoSha /\ commits[k].sha = sha]
  BY DEF RowsOf
<1>5. \A k \in 1..n : drawn[k].lane \in Nat /\ drawn[k].lane # Node /\ (drawn[k].current => k = at)
  <2>1. \A k \in 1..n : commits[k].sha = sha <=> rowOf(commits, sha) = k
    BY RowOfName
  <2> SUFFICES ASSUME NEW k \in 1..n PROVE drawn[k].lane \in Nat /\ drawn[k].lane # Node /\ (drawn[k].current => k = at)
    OBVIOUS
  <2>2. drawn[k].lane = G[k].lane /\ drawn[k].current = (sha # NoSha /\ commits[k].sha = sha)
    <3>1. PICK b : b = (sha # NoSha /\ commits[k].sha = sha)
      OBVIOUS
    <3>2. drawn[k] = [lane |-> G[k].lane, chain |-> G[k].chain, segments |-> G[k].segments,
                     ahead |-> ahead[k], current |-> b]
      BY <1>4, <3>1
    <3> QED
      BY <3>1, <3>2
  <2>3. rowOf(commits, sha) = at
    BY RowOfName
  <2> QED
    BY <1>3, <2>1, <2>2, <2>3
<1>6. DOMAIN shown = 1..Len(visible) /\ \A r \in 1..Len(visible) : shown[r] = [row(r) EXCEPT !.segments = Up(r) \cup Down(r)]
  BY <1>1, <1>2 DEF filteredCommitGraph
<1> HIDE DEF Up, Down
<1>7. ASSUME NEW r \in 1..Len(visible) PROVE shown[r].segments = Up(r) \cup Down(r) /\ shown[r].current = row(r).current
  <2>1. visible[r] \in 1..n
    BY <1>2
  <2>2. PICK x : x = Up(r) \cup Down(r)
    OBVIOUS
  <2>3. shown[r] = [row(r) EXCEPT !.segments = x]
    BY <1>6, <1>7, <2>2
  <2>4. shown[r].segments = x /\ shown[r].current = row(r).current
    BY <1>4, <2>1, <2>3
  <2> QED
    BY <2>2, <2>4
<1>8. ASSUME NEW r \in 1..Len(visible)
      PROVE  /\ \A s \in Up(r) : s.from # Node /\ s.to = Node /\ s.from = row(r).lane /\ s.elided = (visible[r - 1] # visible[r] - 1)
             /\ \A s \in Down(r) : /\ s.from = Node /\ s.to # Node /\ s.to = row(r).lane /\ s.elided = (visible[r + 1] # visible[r] + 1)
                                   /\ s.ahead = row(r).ahead
             /\ Up(r) # {} <=> r > 1 /\ joined(r, r - 1)
             /\ Down(r) # {} <=> r < Len(visible) /\ joined(r, r + 1)
  <2>1. row(r).lane # Node
    BY <1>2, <1>5, <1>8
  <2>2. PICK lane, up, down, here, above, below :
           /\ lane = row(r).lane /\ up = (row(r).ahead \/ row(r).current) /\ down = row(r).ahead /\ here = visible[r]
           /\ above = visible[r - 1] /\ below = visible[r + 1]
    OBVIOUS
  <2>3. Up(r) = {[from |-> lane, to |-> Node, elided |-> above # here - 1, ahead |-> up] :
                    k \in {j \in {r} : j > 1 /\ joined(r, j - 1)}}
    BY <2>2 DEF Up
  <2>4. Down(r) = {[from |-> Node, to |-> lane, elided |-> below # here + 1, ahead |-> down] :
                      k \in {j \in {r} : j < Len(visible) /\ joined(r, j + 1)}}
    BY <2>2 DEF Down
  <2> HIDE DEF joined
  <2>5. Up(r) # {} <=> r > 1 /\ joined(r, r - 1)
    BY <2>3
  <2>6. Down(r) # {} <=> r < Len(visible) /\ joined(r, r + 1)
    BY <2>4
  <2>7. \A s \in Up(r) : s.from = lane /\ s.to = Node /\ s.elided = (above # here - 1)
    BY <2>3
  <2>8. \A s \in Down(r) : s.from = Node /\ s.to = lane /\ s.elided = (below # here + 1) /\ s.ahead = down
    BY <2>4
  <2> QED
    BY <2>1, <2>2, <2>5, <2>6, <2>7, <2>8
<1>9. ASSUME NEW r \in 1..Len(visible) - 1
      PROVE  LET leaving == {s \in shown[r].segments : s.from = Node}
                 entering == {s \in shown[r + 1].segments : s.to = Node}
             IN  /\ {s.to : s \in leaving} = {s.from : s \in entering}
                 /\ {s.elided : s \in leaving} = {s.elided : s \in entering}
                 /\ leaving # {} => /\ visible[r] \in Descendants(commits, visible[r + 1])
                                    /\ shown[r + 1].current => \A s \in leaving : s.ahead
  <2>1. r \in 1..Len(visible) /\ r + 1 \in 1..Len(visible) /\ (r + 1) - 1 = r /\ r + 1 > 1 /\ r < Len(visible)
    BY <1>2, <1>9
  <2>2. PICK i, j : i = visible[r] /\ j = visible[r + 1]
    OBVIOUS
  <2>3. i \in 1..n /\ j \in 1..n /\ i < j
    BY <1>2, <1>9, <2>1, <2>2
  <2>4. {s \in shown[r].segments : s.from = Node} = Down(r)
    BY <1>7, <1>8, <2>1
  <2>5. {s \in shown[r + 1].segments : s.to = Node} = Up(r + 1)
    BY <1>7, <1>8, <2>1
  <2>6. /\ Down(r) # {} <=> drawn[i].chain = drawn[j].chain
        /\ Up(r + 1) # {} <=> drawn[i].chain = drawn[j].chain
    BY <1>8, <2>1, <2>2
  <2>7. /\ \A s \in Down(r) : s.to = drawn[i].lane /\ s.elided = (j # i + 1) /\ s.ahead = drawn[i].ahead
        /\ \A s \in Up(r + 1) : s.from = drawn[j].lane /\ s.elided = (i # j - 1)
    BY <1>8, <2>1, <2>2
  <2>8. drawn[i].chain = drawn[j].chain => i \in Descendants(commits, j) /\ drawn[i].lane = drawn[j].lane
    BY <2>3 DEF ChainsAreLines
  <2>9. (j # i + 1) = (i # j - 1)
    BY <1>2, <2>3
  <2>10. shown[r + 1].current => j = at
    BY <1>5, <1>7, <2>1, <2>2, <2>3
  <2>11. j = at /\ i \in Descendants(commits, j) => drawn[i].ahead
    <3>1. rowOf(commits, sha) = at /\ at # 0
      BY RowOfName
    <3>2. Len(drawn) = n
      BY RowsAre
    <3>3. drawn[i].ahead <=> i \in Descendants(commits, at) \ {at}
      BY <2>3, <3>1, <3>2 DEF AheadIsNew
    <3> QED
      BY <1>2, <2>3, <3>3
  <2>12. CASE drawn[i].chain = drawn[j].chain
    <3>1. {s.to : s \in Down(r)} = {drawn[i].lane} /\ {s.from : s \in Up(r + 1)} = {drawn[i].lane}
      BY <2>6, <2>7, <2>8, <2>12
    <3>2. {s.elided : s \in Down(r)} = {j # i + 1} /\ {s.elided : s \in Up(r + 1)} = {j # i + 1}
      BY <2>6, <2>7, <2>9, <2>12
    <3> QED
      BY <2>2, <2>4, <2>5, <2>7, <2>8, <2>10, <2>11, <2>12, <3>1, <3>2
  <2>13. CASE drawn[i].chain # drawn[j].chain
    BY <2>4, <2>5, <2>6, <2>13
  <2> QED
    BY <2>12, <2>13
<1> QED
  BY <1>1, <1>9 DEF FilteredJoins

LEMMA GraphIsTrue ==
    ASSUME Listing
    PROVE  GraphTellsTheTruth
<1>1. ASSUME NEW sha \in ListedShas, NEW drawn, drawn = buildCommitGraph(commits, sha)
      PROVE  /\ AheadIsNew(commits, sha, drawn)
             /\ \A visible \in RowsLeft(Len(commits)) :
                   FilteredJoins(commits, drawn, visible, filteredCommitGraph(drawn, visible))
  <2>1. DOMAIN commits = 1..Len(commits) /\ Len(commits) \in Nat
    BY LenProperties DEF Listing
  <2>2. PICK at \in 1..Len(commits) : sha = commits[at].sha
    BY <2>1 DEF ListedShas
  <2>3. PICK ahead : ahead = commitsAboveCurrent(commits, sha)
    OBVIOUS
  <2>4. ahead \in [1..Len(commits) -> BOOLEAN]
    BY <2>3, AheadIsAbove
  <2>5. PICK G : Drawing(G, ahead) /\ drawn = RowsOf(G, ahead, sha)
    BY <1>1, <2>3, <2>4, GraphIsDrawn
  <2>6. AheadIsNew(commits, sha, drawn)
    BY <2>2, <2>3, <2>5, MarksAreNew
  <2>7. ChainsAreLines(commits, drawn)
    BY <2>5, ChainsStand
  <2>8. ASSUME NEW visible \in RowsLeft(Len(commits))
        PROVE  FilteredJoins(commits, drawn, visible, filteredCommitGraph(drawn, visible))
    <3>1. AscendingIn(visible, Len(commits))
      BY <2>1, AscendingRows
    <3> QED
      BY <2>2, <2>3, <2>5, <2>6, <2>7, <3>1, JoinsMeet
  <2> QED
    BY <2>6, <2>8
<1>2. MarksWhatIsAhead
  BY <1>1 DEF MarksWhatIsAhead
<1> QED
  BY <1>2, LanesReach DEF GraphTellsTheTruth

(***************************************************************************)
(* GraphTellsTheTruth, of any listing: the lines of the diagram            *)
(* ('buildCommitGraph') run unbroken from each commit to each of its       *)
(* parents and end nowhere else, a chain keeps to its lane and descends,   *)
(* the marks are those of what the checkout lacks, and a search joins only *)
(* commits of which one descends from the other.                           *)
(***************************************************************************)
THEOREM DiagramIsTrue == InputsSpec => []GraphTellsTheTruth
<1>1. Listing => GraphTellsTheTruth
  BY GraphIsTrue
<1> QED
  BY <1>1, ListingStands, PTL
===============================================================================
