------------------------------ MODULE WindowProofs ------------------------------
(***************************************************************************)
(* Theorems of what the windows do: of WriteFlows, for any flows, starts   *)
(* and changes from outside, and of HistoryListing, for any history and    *)
(* any number of changes, commits, failures and steps of the reader.       *)
(***************************************************************************)
EXTENDS WriteFlows, HistoryListing, ArrivalsProofs, SequenceTheorems, TLAPS

\* The stages a flow holds its lock through: a notice that ends it included.
MutationStages == {"reattaching", "writing", "toldThenEnd", "toldThenRefreshAndEnd"}
AskingStages == {"choosing", "asking"}
PushStages == {"planning", "asking", "writing", "offering", "retrying", "toldThenEnd"}

Locking(f, s) ==
    \/ f \in Mutations /\ s \in MutationStages
    \/ f \in Commits /\ s \in AskingStages
    \/ f = "undo" /\ s \in {"planning", "asking"}

\* The loops that end in a flow locking: the menu, and a question asked before the lock.
AskFirst == {"abort", "reattach", "delete", "discard"}

Unlocked(x, where) == x = Menu \/ (x \in AskFirst /\ where[x] = "asking")

Typed ==
    /\ stage \in [Mutations \cup Pushes -> Stages]
    /\ mutation \in Mutations \cup {Nobody}
    /\ push \in Pushes \cup {Superproject, Nobody}
    /\ waiting \in {"no", "later", "this"}
    /\ {shown, reading, external, clicked} \subseteq Nat
    /\ \A f \in Mutations : stage[f] = "asking" => f \in Commits \cup AskFirst \cup {"undo"}
    /\ \A f \in Mutations : stage[f] \notin {"offering", "retrying"}
    /\ \A f \in Pushes : stage[f] \notin {"reattaching", "toldThenRefreshAndEnd"}

\* The lock of a flow at work is its own.
Locked ==
    /\ \A f \in Mutations : Locking(f, stage[f]) => mutation = f
    /\ \A f \in Pushes : stage[f] \in PushStages => push = f

\* No push begins beside these two.
NoPushBeside == mutation \in {"undo", "commitAndPush"} => push = Nobody

\* The refresh undo waits for begins after it was asked for.
UndoReads ==
    /\ shown <= reading /\ reading <= external /\ clicked <= external
    /\ waiting # "no" => stage["undo"] = "planning"
    /\ waiting = "this" => refreshing /\ clicked <= reading
    /\ waiting = "later" => refreshing /\ refreshPending
    /\ stage["undo"] \in {"asking", "writing"} => clicked <= shown

LocksRight == Typed /\ Locked /\ NoPushBeside /\ UndoReads /\ stage["discardSubmodule"] = "idle"

\* What was free when a menu or a question opened is free when it is answered:
\* it is the outermost loop, and no flow begins a mutation over it.
LoopsRight ==
    /\ loops \in Seq(Mutations \cup Pushes \cup {Menu})
    /\ \A i \in 1..Len(loops) : Unlocked(loops[i], stage) => i = 1 /\ mutation = Nobody

\* The inductive invariant.
LockInv == LocksRight /\ LoopsRight

-------------------------------------------------------------------------------
(* The stack of loops. *)

LEMMA OneLeft ==
    ASSUME NEW m \in Nat, m # 0, ~(1 <= m - 1)
    PROVE  m = 1
OBVIOUS

\* A loop that is left leaves those under it.
LEMMA LeftLoops ==
    ASSUME LoopsRight, NEW f, Innermost(f)
    PROVE  LET rest == SubSeq(loops, 1, Len(loops) - 1)
           IN  /\ rest \in Seq(Mutations \cup Pushes \cup {Menu})
               /\ Len(loops) \in Nat \ {0} /\ Len(rest) = Len(loops) - 1
               /\ \A i \in 1..Len(rest) : rest[i] = loops[i]
               /\ f \in Mutations \cup Pushes \cup {Menu}
<1>1. loops \in Seq(Mutations \cup Pushes \cup {Menu}) /\ loops # <<>>
  BY DEF LoopsRight, Innermost
<1>2. Len(loops) \in Nat \ {0} /\ \A i \in 1..Len(loops) : loops[i] \in Mutations \cup Pushes \cup {Menu}
  BY <1>1
<1>3. \A i \in 1..(Len(loops) - 1) : loops[i] \in Mutations \cup Pushes \cup {Menu}
  BY <1>2
<1>4. f = loops[Len(loops)]
  BY DEF Innermost
<1> DEFINE S == Mutations \cup Pushes \cup {Menu}
           n == Len(loops) - 1
<1>5. n \in Int /\ \A i \in 1..n : loops[i] \in S
  BY <1>2, <1>3
<1>6. /\ SubSeq(loops, 1, n) \in Seq(S)
      /\ Len(SubSeq(loops, 1, n)) = IF 1 <= n THEN n - 1 + 1 ELSE 0
      /\ \A i \in 1..(n - 1 + 1) : SubSeq(loops, 1, n)[i] = loops[1 + i - 1]
  <2> HIDE DEF S, n
  <2> QED
    BY <1>5, SubSeqProperties
<1>7. PICK rest : rest = SubSeq(loops, 1, n)
  OBVIOUS
<1>8. /\ rest \in Seq(S)
      /\ Len(rest) = IF 1 <= n THEN n - 1 + 1 ELSE 0
      /\ \A i \in 1..(n - 1 + 1) : rest[i] = loops[1 + i - 1]
  BY <1>6, <1>7
<1>9. Len(rest) = Len(loops) - 1
  <2>1. Len(loops) \in Nat /\ Len(loops) # 0
    BY <1>2
  <2>2. CASE 1 <= n
    BY <1>8, <2>1, <2>2
  <2>3. CASE ~(1 <= n)
    <3>1. Len(rest) = 0
      BY <1>8, <2>3
    <3>2. ~(1 <= Len(loops) - 1)
      BY <2>3
    <3>3. Len(loops) = 1
      BY <2>1, <3>2, OneLeft
    <3> QED
      BY <3>1, <3>3
  <2> QED
    BY <2>2, <2>3
<1>10. \A i \in 1..Len(rest) : rest[i] = loops[i]
  BY <1>2, <1>8, <1>9
<1>11. f \in S
  BY <1>2, <1>4
<1> QED
  BY <1>2, <1>7, <1>8, <1>9, <1>10, <1>11

\* The menu, or a question asked before the lock, is the only loop.
LEMMA OnlyLoop ==
    ASSUME LoopsRight, NEW f, Innermost(f), Unlocked(f, stage)
    PROVE  mutation = Nobody /\ SubSeq(loops, 1, Len(loops) - 1) = <<>>
<1>1. loops # <<>> /\ f = loops[Len(loops)] /\ loops \in Seq(Mutations \cup Pushes \cup {Menu})
  BY DEF LoopsRight, Innermost
<1>2. Len(loops) \in Nat /\ Len(loops) # 0
  BY <1>1
<1>3. Len(loops) = 1 /\ mutation = Nobody
  <2>1. Len(loops) \in 1..Len(loops) /\ Unlocked(loops[Len(loops)], stage)
    BY <1>1, <1>2
  <2> QED
    BY <2>1 DEF LoopsRight
<1>4. Len(loops) - 1 < 1
  BY <1>3
<1> QED
  BY <1>2, <1>3, <1>4, SubSeqEmpty

\* The step opens no menu and asks no question before a lock.
NoNewAsk == \A x \in AskFirst : stage'[x] = "asking" => stage[x] = "asking"
LocksNone == mutation' \in {mutation, Nobody}

LEMMA StayAsked ==
    ASSUME LoopsRight, NoNewAsk, LocksNone, UNCHANGED loops
    PROVE  LoopsRight'
BY DEF LoopsRight, NoNewAsk, LocksNone, Unlocked

LEMMA LeaveAsked ==
    ASSUME LoopsRight, NoNewAsk, LocksNone, NEW f, Leave(f)
    PROVE  LoopsRight'
<1>1. Innermost(f) /\ loops' = SubSeq(loops, 1, Len(loops) - 1)
  BY DEF Leave
<1>2. /\ loops' \in Seq(Mutations \cup Pushes \cup {Menu})
      /\ Len(loops) \in Nat \ {0} /\ Len(loops') = Len(loops) - 1
      /\ \A i \in 1..Len(loops') : loops'[i] = loops[i]
  BY <1>1, LeftLoops
<1> QED
  BY <1>2 DEF LoopsRight, NoNewAsk, LocksNone, Unlocked

LEMMA OpenAsked ==
    ASSUME LoopsRight, NoNewAsk, LocksNone,
           NEW f \in Mutations \cup Pushes, NEW s, Open(f, s), ~Unlocked(f, stage')
    PROVE  LoopsRight'
<1>1. loops \in Seq(Mutations \cup Pushes \cup {Menu}) /\ loops' = Append(loops, f)
  BY DEF Open, LoopsRight
<1>2. /\ loops' \in Seq(Mutations \cup Pushes \cup {Menu})
      /\ Len(loops) \in Nat /\ Len(loops') = Len(loops) + 1
      /\ \A i \in 1..Len(loops) : loops'[i] = loops[i]
      /\ loops'[Len(loops) + 1] = f
  BY <1>1
<1> QED
  BY <1>2 DEF LoopsRight, NoNewAsk, LocksNone, Unlocked

\* One loop at most, and nobody locks under it where it asks first.
LEMMA FirstAsked ==
    ASSUME NEW x \in Mutations \cup Pushes \cup {Menu}, loops' \in {<<>>, <<x>>},
           loops' = <<x>> => (Unlocked(x, stage') => mutation' = Nobody)
    PROVE  LoopsRight'
<1>1. CASE loops' = <<>>
  BY <1>1 DEF LoopsRight
<1>2. CASE loops' = <<x>>
  BY <1>2 DEF LoopsRight
<1> QED
  BY <1>1, <1>2

-------------------------------------------------------------------------------
(* Each handler keeps the invariant.  What it does to the loops comes first,  *)
(* what it does to the locks and to undo's refresh after.                     *)

\* The definitions of the flows and stages are expanded throughout.
USE FlowsAssumption DEF LockInv, LocksRight, Typed, Locked, NoPushBeside, UndoReads, Locking, Unlocked,
    Mutations, Commits, ListFlows, Pushes, Stamped, AskFirst, MutationStages, AskingStages, PushStages, Stages,
    NoNewAsk, LocksNone, mutationInFlight, pushInFlight, writeInFlight, canActOnList,
    beginMutation, endMutation, beginPush, endPush, To, Unrefreshed, refreshVars, lockVars

LEMMA StartCommitKeeps ==
    ASSUME LockInv, NEW f \in Mutations \cup Pushes, StartCommit(f)
    PROVE  LockInv'
<1>1. loops = <<>> /\ f \in Commits /\ mutation = Nobody
  BY DEF StartCommit, Input
<1>2. loops' \in {<<>>, <<f>>}
  BY <1>1 DEF StartCommit, Open
<1>3. LoopsRight'
  BY <1>1, <1>2, FirstAsked
<1>4. LocksRight'
  BY <1>1 DEF StartCommit, Input, Open
<1> QED
  BY <1>3, <1>4

LEMMA StartUndoKeeps == LockInv /\ StartUndo => LockInv'
<1> SUFFICES ASSUME LockInv, StartUndo PROVE LockInv'
  OBVIOUS
<1>1. LoopsRight'
  BY FirstAsked DEF StartUndo, Input
<1>2. LocksRight'
  BY DEF StartUndo, Input, Refresh, StartRefresh
<1> QED
  BY <1>1, <1>2

LEMMA StartAskingKeeps ==
    ASSUME LockInv, NEW f \in Mutations \cup Pushes, StartAsking(f)
    PROVE  LockInv'
<1>1. loops = <<>> /\ f \in AskFirst /\ mutation = Nobody
  BY DEF StartAsking, Input
<1>2. loops' \in {<<>>, <<f>>} /\ (loops' = <<f>> => mutation' = Nobody)
  <2>1. CASE Open(f, "asking") /\ UNCHANGED lockVars
    BY <1>1, <2>1 DEF Open
  <2>2. CASE UNCHANGED loops
    BY <1>1, <2>2
  <2> QED
    BY <2>1, <2>2 DEF StartAsking
<1>3. LoopsRight'
  BY <1>1, <1>2, FirstAsked
<1>4. LocksRight'
  BY <1>1 DEF StartAsking, Input, Open
<1> QED
  BY <1>3, <1>4

LEMMA StartRunningKeeps ==
    ASSUME LockInv, NEW f \in Mutations \cup Pushes, StartWriting(f) \/ StartPush(f)
    PROVE  LockInv'
<1>1. loops' = <<>>
  BY DEF StartWriting, StartPush, Input
<1>2. LoopsRight'
  BY <1>1, FirstAsked
<1>3. LocksRight'
  BY DEF StartWriting, StartPush, startPush, Input
<1> QED
  BY <1>2, <1>3

LEMMA OpenMenuKeeps == LockInv /\ OpenMenu => LockInv'
<1> SUFFICES ASSUME LockInv, OpenMenu PROVE LockInv'
  OBVIOUS
<1>1. LoopsRight'
  BY FirstAsked DEF OpenMenu
<1>2. LocksRight'
  BY DEF OpenMenu
<1> QED
  BY <1>1, <1>2

\* The slot of a menu's entry, or of the Delete key, the menu being closed: no
\* other loop is left.
LEMMA ListSlotKeeps ==
    ASSUME LockInv, "discardSubmodule" \notin Flows, mutation = Nobody,
           NEW f \in Flows \cap ListFlows, stage[f] = "idle", ListSlot(f, <<>>),
           Unrefreshed, UNCHANGED external
    PROVE  LockInv'
<1>1. f \in Mutations \cup Pushes /\ f # "discardSubmodule"
  OBVIOUS
<1>2. loops' \in {<<>>, <<f>>} /\ (loops' = <<f>> => mutation' = Nobody)
  BY <1>1 DEF ListSlot
<1>3. LoopsRight'
  BY <1>1, <1>2, FirstAsked
<1>4. LocksRight'
  BY <1>1 DEF ListSlot
<1> QED
  BY <1>3, <1>4

\* The menu is the only loop, and no mutation began over it.
LEMMA CloseMenuKeeps ==
    ASSUME LockInv, "discardSubmodule" \notin Flows, CloseMenu
    PROVE  LockInv'
<1>1. Innermost(Menu)
  BY DEF CloseMenu
<1>2. PICK rest : rest = SubSeq(loops, 1, Len(loops) - 1)
  OBVIOUS
<1>3. mutation = Nobody /\ rest = <<>>
  BY <1>1, <1>2, OnlyLoop
<1>5. ASSUME NEW f \in Flows \cap ListFlows, stage[f] = "idle", ListSlot(f, rest) PROVE LockInv'
  BY <1>3, <1>5, ListSlotKeeps DEF CloseMenu
<1>6. CASE Leave(Menu) /\ UNCHANGED <<stage, lockVars, stale, starts>>
  <2>1. LoopsRight'
    BY <1>6, LeaveAsked
  <2>2. LocksRight'
    BY <1>6 DEF CloseMenu
  <2> QED
    BY <2>1, <2>2
<1> QED
  BY <1>2, <1>5, <1>6 DEF CloseMenu

LEMMA PressDeleteKeeps ==
    ASSUME LockInv, "discardSubmodule" \notin Flows, PressDelete
    PROVE  LockInv'
BY ListSlotKeeps DEF PressDelete, Input

\* A question asked before the lock is the only loop when it is answered.
LEMMA AnswerQuestionKeeps ==
    ASSUME LockInv, NEW f \in Mutations \cup Pushes, AnswerQuestion(f)
    PROVE  LockInv'
<1>1. Innermost(f) /\ stage[f] = "asking" /\ Unrefreshed /\ UNCHANGED external
  BY DEF AnswerQuestion
<1>2. PICK rest : rest = SubSeq(loops, 1, Len(loops) - 1)
  OBVIOUS
<1>3. f \in AskFirst => mutation = Nobody /\ rest = <<>>
  BY <1>1, <1>2, OnlyLoop
<1>4. CASE Moved(f)
  <2>1. LoopsRight'
    BY <1>4, StayAsked DEF Moved, Replace
  <2>2. LocksRight'
    BY <1>1, <1>4 DEF Moved, Replace
  <2> QED
    BY <2>1, <2>2
<1>5. CASE Unmoved(f, "writing")
  <2>1. CASE f \in Commits \cup {"undo"} \cup Pushes
    <3>1. LoopsRight'
      BY <1>5, <2>1, LeaveAsked DEF Unmoved
    <3>2. LocksRight'
      BY <1>1, <1>5, <2>1 DEF Unmoved
    <3> QED
      BY <3>1, <3>2
  <2>2. CASE f \in AskFirst
    <3>1. loops' = <<>>
      BY <1>2, <1>3, <1>5, <2>2 DEF Unmoved, Leave
    <3>2. LoopsRight'
      BY <3>1, FirstAsked
    <3>3. LocksRight'
      BY <1>1, <1>3, <1>5, <2>2 DEF Unmoved
    <3> QED
      BY <3>2, <3>3
  <2>3. f \in Commits \cup {"undo"} \cup Pushes \cup AskFirst
    BY <1>1
  <2> QED
    BY <2>1, <2>2, <2>3
<1>6. CASE Declined(f)
  <2>1. LoopsRight'
    BY <1>6, LeaveAsked DEF Declined
  <2>2. LocksRight'
    BY <1>1, <1>6 DEF Declined
  <2> QED
    BY <2>1, <2>2
<1> QED
  BY <1>4, <1>5, <1>6 DEF AnswerQuestion

LEMMA AnswerDeleteKeeps == LockInv /\ AnswerDelete => LockInv'
<1> SUFFICES ASSUME LockInv, AnswerDelete PROVE LockInv'
  OBVIOUS
<1>1. LoopsRight'
  BY LeaveAsked DEF AnswerDelete
<1>2. LocksRight'
  BY DEF AnswerDelete, Refresh, StartRefresh
<1> QED
  BY <1>1, <1>2

LEMMA AnswerChoiceKeeps ==
    ASSUME LockInv, NEW f \in Mutations \cup Pushes, AnswerChoice(f)
    PROVE  LockInv'
<1>1. f \in Commits /\ stage[f] = "choosing" /\ Unrefreshed /\ UNCHANGED external
  BY DEF AnswerChoice
<1>2. CASE Moved(f)
  <2>1. LoopsRight'
    BY <1>1, <1>2, StayAsked DEF Moved, Replace
  <2>2. LocksRight'
    BY <1>1, <1>2 DEF Moved, Replace
  <2> QED
    BY <2>1, <2>2
<1>3. CASE Unmoved(f, "reattaching")
  <2>1. LoopsRight'
    BY <1>1, <1>3, LeaveAsked DEF Unmoved
  <2>2. LocksRight'
    BY <1>1, <1>3 DEF Unmoved
  <2> QED
    BY <2>1, <2>2
<1>4. CASE Declined(f)
  <2>1. LoopsRight'
    BY <1>1, <1>4, LeaveAsked DEF Declined
  <2>2. LocksRight'
    BY <1>1, <1>4 DEF Declined
  <2> QED
    BY <2>1, <2>2
<1> QED
  BY <1>2, <1>3, <1>4 DEF AnswerChoice

\* A refresh for nobody: what undo's is to show, it will show.
LEMMA RefreshReads ==
    ASSUME LockInv, Refresh(FALSE), UNCHANGED <<external, clicked>>,
           stage'["undo"] = stage["undo"]
    PROVE  UndoReads' /\ waiting' = waiting /\ {shown', reading', external', clicked'} \subseteq Nat
BY DEF Refresh, StartRefresh

LEMMA AnswerOfferKeeps ==
    ASSUME LockInv, NEW f \in Mutations \cup Pushes, AnswerOffer(f)
    PROVE  LockInv'
<1>1. f \in Pushes /\ stage[f] = "offering" /\ UNCHANGED <<external, clicked>>
  BY DEF AnswerOffer
<1>2. CASE Leave(f) /\ To(f, "retrying") /\ UNCHANGED <<lockVars, refreshVars>>
  <2>1. LoopsRight'
    BY <1>1, <1>2, LeaveAsked
  <2>2. LocksRight'
    BY <1>1, <1>2
  <2> QED
    BY <2>1, <2>2
<1>3. CASE Declined(f)
  <2>1. LoopsRight'
    BY <1>1, <1>3, LeaveAsked DEF Declined
  <2>2. push' = Nobody /\ UNCHANGED mutation /\ stage' = [stage EXCEPT ![f] = "idle"]
    BY <1>1, <1>3 DEF Declined
  <2>3. CASE UNCHANGED refreshVars
    BY <1>1, <2>1, <2>2, <2>3
  <2>4. CASE Refresh(FALSE)
    <3>1. UndoReads' /\ waiting' = waiting /\ {shown', reading', external', clicked'} \subseteq Nat
      BY <1>1, <2>2, <2>4, RefreshReads
    <3> QED
      BY <1>1, <2>1, <2>2, <3>1
  <2> QED
    BY <1>1, <1>3, <2>3, <2>4 DEF AnswerOffer
<1> QED
  BY <1>2, <1>3 DEF AnswerOffer

LEMMA DismissNoticeKeeps ==
    ASSUME LockInv, NEW f \in Mutations \cup Pushes, DismissNotice(f)
    PROVE  LockInv'
<1>1. LoopsRight'
  BY LeaveAsked DEF DismissNotice
<1>2. /\ stage' = [stage EXCEPT ![f] = "idle"]
      /\ stage[f] \in {"told", "toldThenRefresh", "toldThenEnd", "toldThenRefreshAndEnd"}
  BY DEF DismissNotice
<1>3. UndoReads' /\ waiting' \in {"no", "later", "this"} /\ {shown', reading', external', clicked'} \subseteq Nat
  <2>1. CASE Refresh(FALSE)
    BY <1>2, <2>1 DEF DismissNotice, Refresh, StartRefresh
  <2>2. CASE UNCHANGED refreshVars
    BY <1>2, <2>2 DEF DismissNotice
  <2> QED
    BY <2>1, <2>2 DEF DismissNotice
<1>4. \/ mutation' = mutation /\ push' = push
      \/ f \in Mutations /\ mutation = f /\ mutation' = Nobody /\ push' = push
      \/ f \in Pushes /\ push = f /\ push' = Nobody /\ mutation' = mutation
  BY DEF DismissNotice
<1>5. \A g \in Mutations \cup Pushes : stage'[g] = IF g = f THEN "idle" ELSE stage[g]
  BY <1>2
<1>6. LocksRight'
  BY <1>2, <1>3, <1>4, <1>5
<1> QED
  BY <1>1, <1>6

LEMMA ReattachedKeeps ==
    ASSUME LockInv, NEW f \in Mutations \cup Pushes, Reattached(f)
    PROVE  LockInv'
<1>1. f \in Commits /\ mutation = f
  BY DEF Reattached
<1>2. LoopsRight'
  <2>1. ASSUME NEW s \in Stages, Open(f, s) PROVE LoopsRight'
    BY <1>1, <2>1, OpenAsked DEF Reattached, Open
  <2>2. CASE UNCHANGED loops /\ To(f, "writing")
    BY <1>1, <2>2, StayAsked DEF Reattached
  <2> QED
    BY <2>1, <2>2 DEF Reattached
<1>3. LocksRight'
  BY <1>1 DEF Reattached, Open
<1> QED
  BY <1>2, <1>3

LEMMA PlanAnsweredKeeps ==
    ASSUME LockInv, NEW f \in Mutations \cup Pushes, PlanAnswered(f)
    PROVE  LockInv'
<1>1. f \in Pushes /\ push = f /\ UNCHANGED mutation
  BY DEF PlanAnswered
<1>2. LoopsRight'
  <2>1. ASSUME NEW s \in Stages, Open(f, s) PROVE LoopsRight'
    BY <1>1, <2>1, OpenAsked DEF PlanAnswered, Open
  <2>2. CASE UNCHANGED loops /\ To(f, "writing")
    BY <1>1, <2>2, StayAsked DEF PlanAnswered
  <2> QED
    BY <1>1, <2>1, <2>2 DEF PlanAnswered
<1>3. LocksRight'
  BY <1>1 DEF PlanAnswered, Open
<1> QED
  BY <1>2, <1>3

LEMMA WriteFailedKeeps ==
    ASSUME LockInv, NEW f \in Mutations \cup Pushes, WriteFailed(f)
    PROVE  LockInv'
<1>1. f \in Mutations /\ mutation = f /\ mutation' = Nobody /\ UNCHANGED push
  BY DEF WriteFailed
<1>2. PICK s \in {"told", "toldThenRefresh"} : Open(f, s)
  BY DEF WriteFailed
<1>3. LoopsRight'
  BY <1>1, <1>2, OpenAsked DEF Open
<1>4. LocksRight'
  BY <1>1, <1>2 DEF WriteFailed, Open
<1> QED
  BY <1>3, <1>4

LEMMA WriteSucceededKeeps ==
    ASSUME LockInv, NEW f \in Mutations \cup Pushes, WriteSucceeded(f)
    PROVE  LockInv'
<1>1. f \in Mutations /\ mutation = f /\ mutation' = Nobody /\ UNCHANGED loops
  BY DEF WriteSucceeded
<1>2. stage' = IF f = "commitAndPush" THEN [stage EXCEPT ![f] = "idle", !["push"] = "planning"]
               ELSE [stage EXCEPT ![f] = "idle"]
  BY DEF WriteSucceeded
<1>3. push' = IF f = "commitAndPush" THEN "push" ELSE push
  BY DEF WriteSucceeded
<1>4. LoopsRight'
  BY <1>1, <1>2, StayAsked
<1>5. UndoReads' /\ waiting' \in {"no", "later", "this"} /\ {shown', reading', external', clicked'} \subseteq Nat
  BY <1>1, <1>2 DEF WriteSucceeded, Refresh, StartRefresh
<1>6. LocksRight'
  BY <1>1, <1>2, <1>3, <1>5
<1> QED
  BY <1>4, <1>6

LEMMA PushStepDoneKeeps ==
    ASSUME LockInv, NEW f \in Mutations \cup Pushes, PushStepDone(f)
    PROVE  LockInv'
<1>1. f \in Pushes /\ push = f /\ UNCHANGED <<mutation, external, clicked>>
  BY DEF PushStepDone
<1>2. PICK s \in {"idle", "told", "offering"} :
         /\ To(f, s) /\ (Open(f, s) \/ UNCHANGED loops)
         /\ push' = IF s = "offering" THEN push ELSE Nobody
  BY <1>1 DEF PushStepDone, Open
<1>3. LoopsRight'
  BY <1>1, <1>2, OpenAsked, StayAsked
<1>4. UndoReads' /\ waiting' = waiting /\ {shown', reading', external', clicked'} \subseteq Nat
  <2>1. stage'["undo"] = stage["undo"]
    BY <1>1, <1>2
  <2>2. CASE Refresh(FALSE)
    BY <1>1, <2>1, <2>2, RefreshReads
  <2>3. CASE UNCHANGED refreshVars
    BY <1>1, <2>1, <2>3
  <2> QED
    BY <2>2, <2>3 DEF PushStepDone
<1>5. LocksRight'
  BY <1>1, <1>2, <1>4
<1> QED
  BY <1>3, <1>5

\* The step that ends undo's wait decides it on what that refresh read.
LEMMA RefreshEndsKeeps ==
    ASSUME LockInv, NEW read \in BOOLEAN, RefreshCompletes(read)
    PROVE  LockInv'
<1>1. /\ UNCHANGED <<external, clicked>> /\ refreshing /\ shown' = IF read THEN reading ELSE shown
      /\ waiting' = IF waiting = "later" THEN "this" ELSE "no"
      /\ \/ refreshPending /\ refreshPending' = FALSE /\ refreshing' = TRUE /\ reading' = external
         \/ ~refreshPending /\ refreshing' = FALSE /\ UNCHANGED <<refreshPending, reading>>
  BY DEF RefreshCompletes, StartRefresh
<1>2. CASE waiting = "this" /\ ConfirmUndo(read)
  <2>1. stage["undo"] = "planning" /\ mutation = "undo" /\ push = Nobody
    BY <1>2
  <2>2. PICK s \in {"idle", "told", "asking"} :
           /\ To("undo", s) /\ (s = "asking" => read)
           /\ Open("undo", s) \/ UNCHANGED loops
           /\ mutation' = IF s = "asking" THEN mutation ELSE Nobody
           /\ UNCHANGED push
    BY <1>2 DEF ConfirmUndo, Open
  <2>3. LoopsRight'
    BY <2>1, <2>2, OpenAsked, StayAsked
  <2>4. UndoReads'
    BY <1>1, <1>2, <2>1, <2>2
  <2>5. LocksRight'
    BY <1>1, <2>1, <2>2, <2>4
  <2> QED
    BY <2>3, <2>5
<1>3. CASE waiting # "this" /\ UNCHANGED <<stage, loops, lockVars>>
  <2>1. LoopsRight'
    BY <1>3, StayAsked
  <2>2. LocksRight'
    BY <1>1, <1>3 DEF RefreshCompletes
  <2> QED
    BY <2>1, <2>2
<1> QED
  BY <1>2, <1>3 DEF RefreshCompletes

\* The rest of the world: refreshes, changes outside, the superproject's push.
LEMMA OutsideKeeps ==
    ASSUME LockInv, RefreshAsked \/ ExternalChange \/ SuperprojectLocks \/ SuperprojectUnlocks
    PROVE  LockInv'
<1>1. UNCHANGED <<stage, loops, mutation>>
  BY DEF RefreshAsked, ExternalChange, SuperprojectLocks, SuperprojectUnlocks
<1>2. LoopsRight'
  BY <1>1, StayAsked
<1>3. LocksRight'
  <2>1. CASE RefreshAsked
    BY <2>1, RefreshReads DEF RefreshAsked
  <2>2. CASE ExternalChange
    BY <2>2 DEF ExternalChange
  <2>3. CASE SuperprojectLocks \/ SuperprojectUnlocks
    BY <2>3 DEF SuperprojectLocks, SuperprojectUnlocks
  <2> QED
    BY <2>1, <2>2, <2>3
<1> QED
  BY <1>2, <1>3

-------------------------------------------------------------------------------

LEMMA LockInvInit == Init => LockInv
<1> SUFFICES ASSUME Init PROVE LockInv
  OBVIOUS
<1>1. loops = <<>> /\ stage = [f \in Mutations \cup Pushes |-> "idle"]
  BY DEF Init
<1>2. LoopsRight
  BY <1>1 DEF LoopsRight
<1>3. LocksRight
  BY <1>1 DEF Init
<1> QED
  BY <1>2, <1>3

LEMMA LockInvInductive ==
    ASSUME "discardSubmodule" \notin Flows
    PROVE  LockInv /\ [Next]_vars => LockInv'
<1> SUFFICES ASSUME LockInv, [Next]_vars PROVE LockInv'
  OBVIOUS
<1>1. ASSUME NEW f \in Mutations \cup Pushes, Start(f) PROVE LockInv'
  BY <1>1, StartCommitKeeps, StartAskingKeeps, StartRunningKeeps DEF Start
<1>2. ASSUME NEW f \in Mutations \cup Pushes, Answer(f) PROVE LockInv'
  BY <1>2, AnswerQuestionKeeps, AnswerChoiceKeeps, AnswerOfferKeeps, DismissNoticeKeeps DEF Answer
<1>3. ASSUME NEW f \in Mutations \cup Pushes, Done(f) PROVE LockInv'
  BY <1>3, ReattachedKeeps, PlanAnsweredKeeps, WriteFailedKeeps, WriteSucceededKeeps, PushStepDoneKeeps DEF Done
<1>4. CASE StartUndo \/ OpenMenu \/ CloseMenu \/ PressDelete \/ AnswerDelete
  BY <1>4, StartUndoKeeps, OpenMenuKeeps, CloseMenuKeeps, PressDeleteKeeps, AnswerDeleteKeeps
<1>5. CASE RefreshAsked \/ RefreshEnds \/ ExternalChange \/ SuperprojectLocks \/ SuperprojectUnlocks
  BY <1>5, RefreshEndsKeeps, OutsideKeeps DEF RefreshEnds
<1>6. CASE UNCHANGED vars
  <2>1. LoopsRight'
    BY <1>6, StayAsked DEF vars
  <2>2. LocksRight'
    BY <1>6 DEF vars
  <2> QED
    BY <2>1, <2>2
<1> QED
  BY <1>1, <1>2, <1>3, <1>4, <1>5, <1>6 DEF Next

(***************************************************************************)
(* Two writes never meet: whatever runs commands on the repository holds   *)
(* its lock (Repository::beginMutation(), beginPush() and what calls       *)
(* them).  Not where a submodule's content is discarded, whose plan is     *)
(* asked for without one (discardSubmoduleContent()).                      *)
(***************************************************************************)
THEOREM WritesNeverMeet ==
    ASSUME "discardSubmodule" \notin Flows
    PROVE  Spec => []WriteHoldsLock
<1>1. LockInv => WriteHoldsLock
  BY DEF WriteHoldsLock, Running
<1> QED
  BY <1>1, LockInvInit, LockInvInductive, PTL DEF Spec

(***************************************************************************)
(* undoLastCommit(): no commit being published is undone, and none on a    *)
(* state older than the request, whatever refreshes are under way or fail. *)
(***************************************************************************)
THEOREM UndoDecidedRight ==
    ASSUME "discardSubmodule" \notin Flows
    PROVE  Spec => []UndoIsDecidedRight
<1>1. LockInv => UndoIsDecidedRight
  BY DEF UndoIsDecidedRight, UndoWaitsForPush, UndoDecidesOnFreshState
<1> QED
  BY <1>1, LockInvInit, LockInvInductive, PTL DEF Spec

-------------------------------------------------------------------------------

StageTyped == stage \in [Mutations \cup Pushes -> Stages]

\* Where a handler moves a flow from before its write into it, the flow's stamp
\* was compared then, if it takes one.
Compares == \A f \in Stamped :
    stage[f] \in {"asking", "choosing", "planning", "reattaching"} /\ stage'[f] = "writing" => f \notin stale

\* How a handler of one flow moves it.
LEMMA FlowStep ==
    ASSUME StageTyped, NEW f \in Mutations \cup Pushes, Start(f) \/ Answer(f) \/ Done(f)
    PROVE  StageTyped' /\ Compares
<1> USE DEF StageTyped, Compares
<1>1. CASE Start(f)
  <2>1. stage[f] = "idle" /\ \E s \in Stages : To(f, s)
    BY <1>1 DEF Start, StartCommit, StartAsking, StartWriting, StartPush, startPush, Input, Open
  <2> QED
    BY <2>1
<1>2. CASE AnswerQuestion(f)
  <2>1. CASE Moved(f) \/ Declined(f)
    BY <2>1 DEF Moved, Replace, Declined
  <2>2. CASE Unmoved(f, "writing")
    BY <2>2 DEF Unmoved
  <2> QED
    BY <1>2, <2>1, <2>2 DEF AnswerQuestion
<1>3. CASE AnswerChoice(f)
  BY <1>3 DEF AnswerChoice, Moved, Unmoved, Replace, Declined
<1>4. CASE AnswerOffer(f) \/ DismissNotice(f)
  BY <1>4, ZenonT(40) DEF AnswerOffer, DismissNotice, Declined
<1>5. CASE Reattached(f)
  BY <1>5 DEF Reattached, Open
<1>6. CASE PlanAnswered(f)
  BY <1>6 DEF PlanAnswered, Open
<1>7. CASE WriteFailed(f) \/ WriteSucceeded(f)
  <2>1. \E s \in {"told", "toldThenRefresh", "idle"} :
           stage' = IF f = "commitAndPush" /\ s = "idle" THEN [stage EXCEPT ![f] = "idle", !["push"] = "planning"]
                    ELSE [stage EXCEPT ![f] = s]
    BY <1>7 DEF WriteFailed, WriteSucceeded, Open
  <2> QED
    BY <2>1
<1>8. CASE PushStepDone(f)
  BY <1>8, ZenonT(40) DEF PushStepDone, Open
<1> QED
  BY <1>1, <1>2, <1>3, <1>4, <1>5, <1>6, <1>7, <1>8 DEF Answer, Done

LEMMA ListStep ==
    ASSUME StageTyped, CloseMenu \/ PressDelete
    PROVE  StageTyped' /\ Compares
<1> USE DEF StageTyped, Compares
<1>1. ASSUME NEW f \in Flows \cap ListFlows, stage[f] = "idle", NEW rest, ListSlot(f, rest)
      PROVE  StageTyped' /\ Compares
  BY <1>1 DEF ListSlot
<1>2. CASE UNCHANGED stage
  BY <1>2
<1> QED
  BY <1>1, <1>2 DEF CloseMenu, PressDelete, Input

LEMMA NextStep == StageTyped /\ [Next]_vars => StageTyped' /\ [Compares]_vars
<1> SUFFICES ASSUME StageTyped, [Next]_vars PROVE StageTyped' /\ [Compares]_vars
  OBVIOUS
<1>1. CASE StartUndo \/ OpenMenu \/ AnswerDelete
  BY <1>1, ZenonT(40) DEF StageTyped, Compares, StartUndo, OpenMenu, AnswerDelete, Input
<1>2. CASE RefreshEnds
  BY <1>2 DEF StageTyped, Compares, RefreshEnds, RefreshCompletes, ConfirmUndo, Open
<1>3. CASE RefreshAsked \/ ExternalChange \/ SuperprojectLocks \/ SuperprojectUnlocks
  BY <1>3 DEF StageTyped, Compares, RefreshAsked, ExternalChange, SuperprojectLocks, SuperprojectUnlocks
<1>4. CASE UNCHANGED vars
  BY <1>4 DEF StageTyped, vars
<1> QED
  BY <1>1, <1>2, <1>3, <1>4, FlowStep, ListStep DEF Next

(***************************************************************************)
(* No flow that takes a stamp begins to write what was confirmed on a      *)
(* state since replaced: stateMovedSince() is asked on every way there.    *)
(***************************************************************************)
THEOREM ConfirmedStands == Spec => ConfirmedStateStands
<1>1. Init => StageTyped
  BY DEF Init, StageTyped
<1> QED
  BY <1>1, NextStep, PTL DEF Spec, ConfirmedStateStands, Compares
-------------------------------------------------------------------------------
(* HistoryListing.  What a window is made of.                                *)

\* A window is a record of these fields.
Shape(x) ==
    x = [scope |-> x.scope, maxCommits |-> x.maxCommits, rows |-> x.rows, search |-> x.search,
         selected |-> x.selected, loaded |-> x.loaded, fullLoadPending |-> x.fullLoadPending,
         capped |-> x.capped, loadMoreEnabled |-> x.loadMoreEnabled, reveal |-> x.reveal,
         reselect |-> x.reselect, onMiss |-> x.onMiss, missed |-> x.missed, reset |-> x.reset,
         logQuery |-> x.logQuery, listedQuery |-> x.listedQuery, checkQuery |-> x.checkQuery,
         branchTips |-> x.branchTips, listedFingerprint |-> x.listedFingerprint, fallBack |-> x.fallBack]

LogQueries == [kind : {"listing", "deeper"}, since : Nat, scope : Scopes, limit : Nat]
Reads == {NoQuery} \cup [kind : {"asked"}, since : Nat]

Fields(x) ==
    /\ Shape(x)
    /\ x.scope \in Scopes /\ x.maxCommits \in Nat /\ x.onMiss \in {"Report", "ReloadOnce"}
    /\ x.loaded \in BOOLEAN /\ x.capped \in BOOLEAN /\ x.fullLoadPending \in BOOLEAN
    /\ x.listedQuery \in Reads /\ x.checkQuery \in Reads /\ x.branchTips \in Reads
    /\ x.listedFingerprint \in Int

\* The walk is one of the scope, and the deepening that is pending is under way.
WalkTyped(x) ==
    /\ x.logQuery # NoQuery => x.logQuery \in LogQueries /\ x.logQuery.scope = x.scope
    /\ x.fullLoadPending => x.logQuery.kind = "deeper"

WindowTyped(x) == Fields(x) /\ WalkTyped(x)

HistoryTypes ==
    /\ version \in 0..MaxVersion /\ WindowTyped(w)
    /\ reported \in BOOLEAN /\ gap \in BOOLEAN /\ raced \in BOOLEAN /\ failed \in BOOLEAN
    /\ walks \in {0, 1}
-------------------------------------------------------------------------------
(* The listing.                                                              *)

\* The rows of x are what the walk of its scope lists at version v.
RowsAt(x, v) ==
    /\ walkAt(v, x.scope) # NoWalk
    /\ IsPrefix(shasOf(x.rows), walkAt(v, x.scope))
    /\ \A k \in DOMAIN x.rows : x.rows[k].read = v

\* What is being read, or was read last, is of version v.
UpToDate(x, v, lost) ==
    IF x.logQuery # NoQuery THEN x.logQuery.since = v ELSE lost \/ RowsAt(x, v)

\* The change since the fingerprint will be noticed.
Noticed(x, v, told) ==
    \/ ~told /\ x.listedFingerprint < v
    \/ x.checkQuery # NoQuery /\ x.checkQuery.since > x.listedFingerprint

(***************************************************************************)
(* The inductive invariant of catching up, where no change fell between    *)
(* the two reads of one listing: while the fingerprint is being read both  *)
(* reads are of the present version, and after it either the listing still *)
(* is, or a check that must find another fingerprint is on its way.        *)
(***************************************************************************)
Follows(x, v, told, lost) ==
    IF x.listedQuery # NoQuery THEN x.listedQuery.since = v /\ UpToDate(x, v, lost)
                               ELSE UpToDate(x, v, lost) \/ Noticed(x, v, told)

CatchUpInv ==
    /\ w.listedFingerprint <= version
    /\ w.checkQuery # NoQuery => w.checkQuery.since <= version
    /\ ~gap => Follows(w, version, reported, failed)

(***************************************************************************)
(* The inductive invariant of a reveal: a walk that is made for it leaves  *)
(* no other to make, a window that is not loaded has a listing on its way  *)
(* or its first check, and one that is loaded and reads nothing has        *)
(* decided.                                                                *)
(***************************************************************************)
Decides(x, lost) ==
    /\ x.logQuery.kind = "deeper" => x.loaded
    /\ x.capped => x.loaded \/ x.logQuery.kind = "listing"
    /\ ~lost /\ x.logQuery = NoQuery =>
          IF x.loaded THEN x.reveal = None
          ELSE x.listedFingerprint = NoAnswer /\ x.listedQuery = NoQuery /\ x.checkQuery # NoQuery

Spent(x, n) == n = 1 /\ x.reveal # None => x.scope = "EveryRef" /\ x.onMiss = "Report"

RevealInv == Spent(w, walks) /\ (~raced => Decides(w, failed))

HistoryInv == HistoryTypes /\ CatchUpInv /\ RevealInv
-------------------------------------------------------------------------------
(* What the window's functions do to it.                                     *)

\* Both reads of y began at version v.
Reloaded(y, v) ==
    /\ y.logQuery.kind = "listing" /\ y.logQuery.since = v /\ y.listedQuery = asked(v)
    /\ y.logQuery # NoQuery /\ y.listedQuery # NoQuery /\ y.listedQuery.since = v
    /\ ~y.loaded

\* The queries of the fingerprint are as they were.
SameChecks(x, y) == y.checkQuery = x.checkQuery /\ y.listedFingerprint = x.listedFingerprint

\* The listing too: only where the view is may differ.
SameListing(x, y) ==
    /\ SameChecks(x, y)
    /\ y.scope = x.scope /\ y.rows = x.rows /\ y.loaded = x.loaded /\ y.capped = x.capped
    /\ y.fullLoadPending = x.fullLoadPending
    /\ y.logQuery = x.logQuery /\ y.listedQuery = x.listedQuery

LEMMA QueriesDiffer == \A v \in Nat :
    asked(v) \in Reads /\ asked(v) # NoQuery /\ asked(v).since = v /\ asked(v).kind = "asked"
BY DEF asked, Reads, NoQuery, None

LEMMA LogQueriesDiffer == \A q \in LogQueries : q # NoQuery /\ q.kind \in {"listing", "deeper"}
BY DEF LogQueries, NoQuery, None

LEMMA NoQueryKind == NoQuery.kind = "none" /\ NoQuery \in Reads
BY DEF NoQuery, None, Reads

LEMMA ReloadReloads ==
    ASSUME NEW x, Fields(x), NEW v \in Nat
    PROVE  /\ WindowTyped(reload(x, v)) /\ Reloaded(reload(x, v), v) /\ SameChecks(x, reload(x, v))
           /\ reload(x, v).scope = x.scope /\ reload(x, v).capped = x.capped
           /\ reload(x, v).reveal = x.reveal /\ reload(x, v).onMiss = x.onMiss
<1> DEFINE limit == IF x.rows = <<>> /\ InitialCommitBatch < x.maxCommits
                    THEN InitialCommitBatch ELSE x.maxCommits
           query == [kind |-> "listing", since |-> v, scope |-> x.scope, limit |-> limit]
<1>1. limit \in Nat
  BY HistoryAssumption DEF Fields
<1>2. query \in LogQueries /\ query.kind = "listing" /\ query.since = v /\ query.scope = x.scope
  BY <1>1 DEF LogQueries, Fields
<1>3. query # NoQuery
  BY <1>2, LogQueriesDiffer
<1> HIDE DEF limit
<1>4. PICK q : q = query
  OBVIOUS
<1>5. PICK a : a = asked(v)
  OBVIOUS
<1>6. reload(x, v) = [x EXCEPT !.reselect = x.selected, !.branchTips = a, !.listedQuery = a, !.loaded = FALSE,
                               !.fullLoadPending = FALSE, !.missed = None, !.logQuery = q]
  BY <1>4, <1>5 DEF reload, limit
<1> HIDE DEF query
<1>7. q \in LogQueries /\ q.kind = "listing" /\ q.since = v /\ q.scope = x.scope /\ q # NoQuery
  BY <1>2, <1>3, <1>4
<1>8. a \in Reads /\ a # NoQuery /\ a.since = v
  BY <1>5, QueriesDiffer
<1>9. PICK y : y = reload(x, v)
  OBVIOUS
<1>10. /\ Shape(y) /\ y.logQuery = q /\ y.listedQuery = a /\ y.branchTips = a /\ ~y.loaded /\ ~y.fullLoadPending
       /\ y.loaded \in BOOLEAN /\ y.fullLoadPending \in BOOLEAN
       /\ y.scope = x.scope /\ y.maxCommits = x.maxCommits /\ y.capped = x.capped /\ y.reveal = x.reveal
       /\ y.onMiss = x.onMiss /\ y.checkQuery = x.checkQuery /\ y.listedFingerprint = x.listedFingerprint
  BY <1>6, <1>9 DEF Fields, Shape
<1>11. WindowTyped(y)
  BY <1>7, <1>8, <1>10 DEF WindowTyped, Fields, WalkTyped
<1>12. Reloaded(y, v) /\ SameChecks(x, y)
  BY <1>5, <1>7, <1>8, <1>10 DEF Reloaded, SameChecks
<1> QED
  BY <1>9, <1>10, <1>11, <1>12

LEMMA SetScopeReloads ==
    ASSUME NEW x, Fields(x), NEW s \in Scopes, NEW v \in Nat
    PROVE  /\ WindowTyped(setScope(x, s, v)) /\ Reloaded(setScope(x, s, v), v) /\ SameChecks(x, setScope(x, s, v))
           /\ setScope(x, s, v).scope = s /\ setScope(x, s, v).capped = x.capped
           /\ setScope(x, s, v).reveal = x.reveal /\ setScope(x, s, v).onMiss = x.onMiss
<1>1. PICK y : y = [x EXCEPT !.scope = s]
  OBVIOUS
<1>2. Fields(y) /\ y.scope = s /\ y.capped = x.capped /\ y.reveal = x.reveal /\ y.onMiss = x.onMiss
      /\ SameChecks(x, y)
  BY <1>1 DEF Fields, Shape, SameChecks
<1> QED
  BY <1>1, <1>2, ReloadReloads DEF setScope, SameChecks

LEMMA DeepeningTyped ==
    ASSUME NEW x, Fields(x), NEW v \in Nat
    PROVE  LET y == loadRemainingCommits(x, v)
           IN  /\ WindowTyped(y) /\ SameChecks(x, y)
               /\ y.logQuery.kind = "deeper" /\ y.logQuery.since = v /\ y.logQuery # NoQuery
               /\ y.scope = x.scope /\ y.rows = x.rows /\ y.loaded = x.loaded /\ y.capped = x.capped
               /\ y.listedQuery = x.listedQuery /\ y.reveal = x.reveal /\ y.onMiss = x.onMiss
<1>1. PICK q : q = [kind |-> "deeper", since |-> v, scope |-> x.scope, limit |-> x.maxCommits]
  OBVIOUS
<1>2. q \in LogQueries /\ q.kind = "deeper" /\ q.since = v /\ q.scope = x.scope
  BY <1>1 DEF LogQueries, Fields
<1>3. q # NoQuery
  BY <1>2, LogQueriesDiffer
<1>4. loadRemainingCommits(x, v) = [x EXCEPT !.logQuery = q]
  BY <1>1 DEF loadRemainingCommits
<1> QED
  BY <1>2, <1>3, <1>4 DEF WindowTyped, Fields, WalkTyped, Shape, SameChecks

\* The view's place.
LEMMA PlaceKeeps ==
    ASSUME NEW x, Fields(x)
    PROVE  LET y == selectPlace(x)
           IN  Fields(y) /\ SameListing(x, y) /\ y.reveal = x.reveal /\ y.onMiss = x.onMiss
<1>1. ASSUME NEW sha, NEW y, y = selectRow(x, sha) \/ y = [x EXCEPT !.reselect = None]
      PROVE  Fields(y) /\ SameListing(x, y) /\ y.reveal = x.reveal /\ y.onMiss = x.onMiss
  <2>1. CASE y = selectRow(x, sha)
    BY <2>1 DEF selectRow, Fields, Shape, SameListing, SameChecks
  <2>2. CASE y = [x EXCEPT !.reselect = None]
    BY <2>2 DEF Fields, Shape, SameListing, SameChecks
  <2> QED
    BY <1>1, <2>1, <2>2
<1>2. \E sha : selectPlace(x) = selectRow(x, sha) \/ selectPlace(x) = [x EXCEPT !.reselect = None]
  BY DEF selectPlace
<1> QED
  BY <1>1, <1>2

\* A listing is shown: the reveal is decided, waits for the full depth, or begins its one more walk.
LEMMA SelectLoadedDecides ==
    ASSUME NEW x, Fields(x), NEW v \in Nat
    PROVE  LET y == selectLoadedCommit(x, v)
           IN  \/ /\ Fields(y) /\ SameListing(x, y)
                  /\ y.reveal = None \/ (y.reveal = x.reveal /\ y.onMiss = x.onMiss /\ x.fullLoadPending)
               \/ /\ WindowTyped(y) /\ Reloaded(y, v) /\ SameChecks(x, y) /\ y.capped = x.capped
                  /\ x.reveal # None /\ y.reveal = x.reveal
                  /\ x.scope # "EveryRef" \/ x.onMiss = "ReloadOnce"
                  /\ y.scope = "EveryRef" /\ y.onMiss = "Report"
<1>1. PICK spent : spent = [x EXCEPT !.onMiss = "Report"]
  OBVIOUS
<1>2. /\ Fields(spent) /\ spent.onMiss = "Report" /\ spent.scope = x.scope /\ spent.capped = x.capped
      /\ spent.reveal = x.reveal /\ SameChecks(x, spent)
  BY <1>1 DEF Fields, Shape, SameChecks
<1>3. PICK y : y = selectLoadedCommit(x, v)
  OBVIOUS
<1>4. CASE x.reveal = None
  <2>1. y = selectPlace(x)
    BY <1>3, <1>4 DEF selectLoadedCommit
  <2> QED
    BY <1>3, <1>4, <2>1, PlaceKeeps
<1>5. CASE x.reveal # None /\ x.reveal \in shownShas(x)
  <2>1. y = [selectRow(x, x.reveal) EXCEPT !.reveal = None]
    BY <1>3, <1>5 DEF selectLoadedCommit
  <2>2. Fields(y) /\ SameListing(x, y) /\ y.reveal = None
    BY <2>1 DEF selectRow, Fields, Shape, SameListing, SameChecks
  <2> QED
    BY <1>3, <2>2
<1>6. CASE x.reveal # None /\ x.reveal \notin shownShas(x) /\ x.fullLoadPending
  <2>1. y = x
    BY <1>3, <1>6 DEF selectLoadedCommit
  <2> QED
    BY <1>3, <1>6, <2>1 DEF SameListing, SameChecks
<1>7. CASE x.reveal # None /\ x.reveal \notin shownShas(x) /\ ~x.fullLoadPending
  <2>1. CASE x.scope # "EveryRef"
    <3>1. y = setScope(spent, "EveryRef", v)
      BY <1>1, <1>3, <1>7, <2>1 DEF selectLoadedCommit
    <3>2. "EveryRef" \in Scopes
      BY HistoryAssumption
    <3>3. /\ WindowTyped(y) /\ Reloaded(y, v) /\ SameChecks(spent, y) /\ y.capped = spent.capped
          /\ y.scope = "EveryRef" /\ y.reveal = spent.reveal /\ y.onMiss = "Report"
      BY <1>2, <3>1, <3>2, SetScopeReloads
    <3> QED
      BY <1>2, <1>3, <1>7, <2>1, <3>3 DEF SameChecks
  <2>2. CASE x.scope = "EveryRef" /\ x.onMiss = "ReloadOnce"
    <3>1. y = reload(spent, v)
      BY <1>1, <1>3, <1>7, <2>2 DEF selectLoadedCommit
    <3> QED
      BY <1>2, <1>3, <1>7, <2>2, <3>1, ReloadReloads DEF SameChecks
  <2>3. CASE x.scope = "EveryRef" /\ x.onMiss # "ReloadOnce"
    <3>1. PICK m : m = [x EXCEPT !.missed = x.reveal, !.reveal = None]
      OBVIOUS
    <3>2. Fields(m) /\ SameListing(x, m) /\ m.reveal = None
      BY <3>1 DEF Fields, Shape, SameListing, SameChecks
    <3>3. y = selectPlace(m)
      BY <1>3, <1>7, <2>3, <3>1 DEF selectLoadedCommit
    <3> QED
      BY <1>3, <3>2, <3>3, PlaceKeeps DEF SameListing, SameChecks
  <2> QED
    BY <2>1, <2>2, <2>3
<1> QED
  BY <1>4, <1>5, <1>6, <1>7

LEMMA SizeFits ==
    ASSUME NEW n \in Nat, NEW limit \in Nat, NEW size, size = IF n < limit THEN n ELSE limit
    PROVE  size \in Nat /\ size <= n
OBVIOUS

\* The rows of an answer are the walk's, as far as it was asked for, read when it was read.
LEMMA RowsAreTheWalk ==
    ASSUME NEW q \in LogQueries, NEW v \in 0..MaxVersion, walkAt(v, q.scope) # NoWalk
    PROVE  LET rows == rowsRead(q, v)
           IN  IsPrefix(shasOf(rows), walkAt(v, q.scope)) /\ \A k \in DOMAIN rows : rows[k].read = v
<1>1. PICK walk : walk = walkAt(v, q.scope)
  OBVIOUS
<1>2. q.scope \in Scopes /\ q.limit \in Nat
  BY DEF LogQueries
<1>3. walk \in Seq(Shas)
  BY <1>1, <1>2, HistoryAssumption DEF walkAt
<1>4. PICK size : size = IF Len(walk) < q.limit THEN Len(walk) ELSE q.limit
  OBVIOUS
<1>5. size \in Nat /\ size <= Len(walk)
  <2>1. Len(walk) \in Nat
    BY <1>3
  <2> QED
    BY <1>2, <1>4, <2>1, SizeFits
<1>6. PICK rows : rows = rowsRead(q, v)
  OBVIOUS
<1>7. rows = [k \in 1..size |-> [sha |-> walk[k], read |-> v]]
  BY <1>1, <1>4, <1>6 DEF rowsRead
<1>8. PICK shas : shas = shasOf(rows)
  OBVIOUS
<1>9. shas = [k \in 1..size |-> walk[k]]
  BY <1>7, <1>8 DEF shasOf
<1>10. shas \in Seq(Shas) /\ Len(shas) = size
  BY <1>3, <1>5, <1>9
<1>11. IsPrefix(shas, walk)
  BY <1>3, <1>5, <1>9, <1>10 DEF IsPrefix
<1> QED
  BY <1>1, <1>6, <1>7, <1>8, <1>11

\* The one more walk of a reveal.
WalksOn(x, y, v) ==
    /\ Reloaded(y, v)
    /\ x.reveal # None /\ y.reveal = x.reveal
    /\ x.scope # "EveryRef" \/ x.onMiss = "ReloadOnce"
    /\ y.scope = "EveryRef" /\ y.onMiss = "Report"

\* What an answer with rows leaves: they are shown and nothing but their deepening is
\* read, for which a reveal may wait, or a reveal walks on.
Shows(x, y, rows, v) ==
    /\ WindowTyped(y) /\ SameChecks(x, y)
    /\ \/ /\ y.scope = x.scope /\ y.listedQuery = x.listedQuery /\ y.rows = rows
          /\ y.loaded \/ (x.logQuery.kind = "deeper" /\ ~x.loaded)
          /\ \/ y.logQuery = NoQuery /\ y.reveal = None
             \/ /\ y.logQuery # NoQuery /\ y.logQuery.kind = "deeper" /\ y.logQuery.since = v /\ y.loaded
                /\ y.reveal = None \/ (y.reveal = x.reveal /\ y.onMiss = x.onMiss)
       \/ WalksOn(x, y, v)

\* What is selected of rows shown with no query under way.
LEMMA SelectShows ==
    ASSUME NEW x, Fields(x), NEW v \in Nat, NEW rows, NEW z, Fields(z), SameChecks(x, z),
           z.scope = x.scope, z.listedQuery = x.listedQuery, z.rows = rows, z.logQuery = NoQuery,
           z.reveal = x.reveal, z.onMiss = x.onMiss, ~z.fullLoadPending,
           z.loaded \/ (x.logQuery.kind = "deeper" /\ ~x.loaded)
    PROVE  Shows(x, selectLoadedCommit(z, v), rows, v)
<1>1. PICK y : y = selectLoadedCommit(z, v)
  OBVIOUS
<1>2. CASE Fields(y) /\ SameListing(z, y) /\ y.reveal = None
  BY <1>1, <1>2, NoQueryKind DEF Shows, SameListing, SameChecks, WindowTyped, WalkTyped
<1>3. CASE /\ WindowTyped(y) /\ Reloaded(y, v) /\ SameChecks(z, y) /\ y.capped = z.capped
           /\ z.reveal # None /\ y.reveal = z.reveal
           /\ z.scope # "EveryRef" \/ z.onMiss = "ReloadOnce"
           /\ y.scope = "EveryRef" /\ y.onMiss = "Report"
  BY <1>1, <1>3 DEF Shows, WalksOn, SameChecks
<1> QED
  BY <1>1, <1>2, <1>3, SelectLoadedDecides

LEMMA SetCommitsKeeps ==
    ASSUME NEW x, Fields(x), NEW rows
    PROVE  LET y == setCommits(x, rows)
           IN  /\ Fields(y) /\ SameChecks(x, y) /\ y.rows = rows /\ y.scope = x.scope
               /\ y.listedQuery = x.listedQuery /\ y.logQuery = x.logQuery /\ y.loaded = x.loaded
               /\ y.capped = x.capped /\ y.fullLoadPending = x.fullLoadPending
               /\ y.reveal = x.reveal /\ y.onMiss = x.onMiss
<1>1. PICK b : b = ~x.reset
  OBVIOUS
<1>2. setCommits(x, rows) = [x EXCEPT !.rows = rows, !.selected = None, !.reset = b]
  BY <1>1 DEF setCommits, Fields, Shape
<1> QED
  BY <1>2 DEF Fields, Shape, SameChecks

LEMMA ListingShows ==
    ASSUME NEW x, WindowTyped(x), x.logQuery.kind = "listing", NEW v \in Nat, NEW rows
    PROVE  Shows(x, listingRead(x, rows, v), rows, v)
<1>1. PICK cut : cut = (Len(rows) >= x.logQuery.limit)
  OBVIOUS
<1>2. PICK pending : pending = (cut /\ x.logQuery.limit < x.maxCommits)
  OBVIOUS
<1>3. PICK capped : capped = (cut /\ ~pending)
  OBVIOUS
<1>4. PICK r : r = setCommits(x, rows)
  OBVIOUS
<1>5. PICK z : z = [r EXCEPT !.logQuery = NoQuery, !.loadMoreEnabled = TRUE, !.loaded = TRUE,
                             !.fullLoadPending = pending, !.capped = capped]
  OBVIOUS
<1>6. PICK placed : placed = selectLoadedCommit(z, v)
  OBVIOUS
<1> cut \in BOOLEAN /\ pending \in BOOLEAN /\ capped \in BOOLEAN
  BY <1>1, <1>2, <1>3
<1>7. listingRead(x, rows, v) = IF placed.fullLoadPending THEN loadRemainingCommits(placed, v) ELSE placed
  BY <1>1, <1>2, <1>3, <1>4, <1>5, <1>6 DEF listingRead
<1>8. /\ Fields(z) /\ SameChecks(x, z) /\ z.rows = rows /\ z.scope = x.scope
      /\ z.listedQuery = x.listedQuery /\ z.logQuery = NoQuery /\ z.loaded /\ z.fullLoadPending = pending
      /\ z.reveal = x.reveal /\ z.onMiss = x.onMiss
  <2>1. /\ Fields(r) /\ SameChecks(x, r) /\ r.rows = rows /\ r.scope = x.scope
        /\ r.listedQuery = x.listedQuery /\ r.reveal = x.reveal /\ r.onMiss = x.onMiss
    BY <1>4, SetCommitsKeeps DEF WindowTyped
  <2>2. /\ Shape(z) /\ SameChecks(r, z) /\ z.rows = r.rows /\ z.scope = r.scope
        /\ z.listedQuery = r.listedQuery /\ z.logQuery = NoQuery /\ z.branchTips = r.branchTips
        /\ z.loaded /\ z.loaded \in BOOLEAN /\ z.fullLoadPending = pending /\ z.capped = capped
        /\ z.maxCommits = r.maxCommits /\ z.reveal = r.reveal /\ z.onMiss = r.onMiss
    BY <1>5, <2>1 DEF Fields, Shape, SameChecks
  <2>3. Fields(z)
    BY <2>1, <2>2 DEF Fields, SameChecks
  <2> QED
    BY <2>1, <2>2, <2>3 DEF SameChecks
<1>9. CASE ~pending
  <2>1. Shows(x, placed, rows, v)
    BY <1>6, <1>8, <1>9, SelectShows DEF WindowTyped
  <2>2. ~placed.fullLoadPending
    <3>1. ~z.fullLoadPending
      BY <1>8, <1>9
    <3> QED
      BY <1>6, <1>8, <3>1, SelectLoadedDecides DEF SameListing, WindowTyped, WalkTyped, Reloaded
  <2> QED
    BY <1>7, <2>1, <2>2
<1>10. CASE pending
  <2>1. CASE /\ Fields(placed) /\ SameListing(z, placed)
             /\ placed.reveal = None \/ (placed.reveal = z.reveal /\ placed.onMiss = z.onMiss)
    <3>1. placed.fullLoadPending
      BY <1>8, <1>10, <2>1 DEF SameListing
    <3>2. PICK y : y = loadRemainingCommits(placed, v)
      OBVIOUS
    <3>3. /\ WindowTyped(y) /\ SameChecks(placed, y)
          /\ y.logQuery.kind = "deeper" /\ y.logQuery.since = v /\ y.logQuery # NoQuery
          /\ y.scope = placed.scope /\ y.rows = placed.rows /\ y.loaded = placed.loaded
          /\ y.listedQuery = placed.listedQuery /\ y.reveal = placed.reveal /\ y.onMiss = placed.onMiss
      BY <2>1, <3>2, DeepeningTyped
    <3>4. Shows(x, y, rows, v)
      BY <1>8, <2>1, <3>3 DEF Shows, SameListing, SameChecks
    <3> QED
      BY <1>7, <3>1, <3>2, <3>4
  <2>2. CASE /\ WindowTyped(placed) /\ Reloaded(placed, v) /\ SameChecks(z, placed)
             /\ z.reveal # None /\ placed.reveal = z.reveal
             /\ z.scope # "EveryRef" \/ z.onMiss = "ReloadOnce"
             /\ placed.scope = "EveryRef" /\ placed.onMiss = "Report"
    <3>1. ~placed.fullLoadPending
      BY <2>2 DEF WindowTyped, WalkTyped, Reloaded
    <3>2. Shows(x, placed, rows, v)
      BY <1>8, <2>2 DEF Shows, WalksOn, SameChecks
    <3> QED
      BY <1>7, <3>1, <3>2
  <2> QED
    BY <1>6, <1>8, <2>1, <2>2, SelectLoadedDecides
<1> QED
  BY <1>9, <1>10

LEMMA DeeperShows ==
    ASSUME NEW x, WindowTyped(x), x.logQuery.kind = "deeper", NEW v \in Nat, NEW rows
    PROVE  Shows(x, deeperRead(x, rows, v), rows, v)
<1>1. PICK capped : capped = (Len(rows) >= x.logQuery.limit)
  OBVIOUS
<1>2. PICK y : y = [x EXCEPT !.logQuery = NoQuery, !.loadMoreEnabled = TRUE, !.fullLoadPending = FALSE,
                             !.capped = capped]
  OBVIOUS
<1> capped \in BOOLEAN
  BY <1>1
<1>3. /\ Fields(y) /\ SameChecks(x, y) /\ y.scope = x.scope
      /\ y.listedQuery = x.listedQuery /\ y.logQuery = NoQuery /\ y.loaded = x.loaded /\ ~y.fullLoadPending
      /\ y.reveal = x.reveal /\ y.onMiss = x.onMiss
  BY <1>2 DEF WindowTyped, Fields, Shape, SameChecks
<1>4. PICK r : r = setCommits(y, rows)
  OBVIOUS
<1>5. PICK replaced : replaced = [r EXCEPT !.reselect = x.selected]
  OBVIOUS
<1>6. PICK extended : extended = [y EXCEPT !.rows = rows]
  OBVIOUS
<1>7. \A z \in {replaced, extended} :
         /\ Fields(z) /\ SameChecks(x, z) /\ z.scope = x.scope /\ z.rows = rows
         /\ z.listedQuery = x.listedQuery /\ z.logQuery = NoQuery /\ z.loaded = x.loaded /\ ~z.fullLoadPending
         /\ z.reveal = x.reveal /\ z.onMiss = x.onMiss
  <2>1. /\ Fields(r) /\ SameChecks(x, r) /\ r.scope = x.scope /\ r.rows = rows
        /\ r.listedQuery = x.listedQuery /\ r.logQuery = NoQuery /\ r.loaded = x.loaded /\ ~r.fullLoadPending
        /\ r.reveal = x.reveal /\ r.onMiss = x.onMiss
    BY <1>3, <1>4, SetCommitsKeeps DEF SameChecks
  <2>2. /\ Fields(replaced) /\ SameChecks(r, replaced) /\ replaced.scope = r.scope /\ replaced.rows = rows
        /\ replaced.listedQuery = r.listedQuery /\ replaced.logQuery = NoQuery /\ replaced.loaded = r.loaded
        /\ ~replaced.fullLoadPending /\ replaced.reveal = r.reveal /\ replaced.onMiss = r.onMiss
    BY <1>5, <2>1 DEF Fields, Shape, SameChecks
  <2>3. /\ Fields(extended) /\ SameChecks(y, extended) /\ extended.scope = y.scope /\ extended.rows = rows
        /\ extended.listedQuery = y.listedQuery /\ extended.logQuery = NoQuery /\ extended.loaded = y.loaded
        /\ ~extended.fullLoadPending /\ extended.reveal = y.reveal /\ extended.onMiss = y.onMiss
    BY <1>3, <1>6 DEF Fields, Shape, SameChecks
  <2> QED
    BY <1>3, <2>1, <2>2, <2>3 DEF SameChecks
<1>8. \A z \in {replaced, extended} : z.loaded \/ (x.logQuery.kind = "deeper" /\ ~x.loaded)
  BY <1>7 DEF WindowTyped, Fields
<1>9. \A z \in {replaced, extended} : Shows(x, selectLoadedCommit(z, v), rows, v)
  BY <1>7, <1>8, SelectShows DEF WindowTyped
<1>10. x.reveal = None => Shows(x, extended, rows, v)
  BY <1>7, <1>8, NoQueryKind DEF Shows, WindowTyped, WalkTyped
<1>11. deeperRead(x, rows, v) \in {selectLoadedCommit(replaced, v), selectLoadedCommit(extended, v)}
       \/ (x.reveal = None /\ deeperRead(x, rows, v) = extended)
  BY <1>1, <1>2, <1>4, <1>5, <1>6 DEF deeperRead
<1> QED
  BY <1>9, <1>10, <1>11
-------------------------------------------------------------------------------
(* What the steps do.                                                        *)

LEMMA VersionIsNat == version \in 0..MaxVersion => version \in Nat /\ version <= MaxVersion
BY HistoryAssumption

\* A step that reloads both reads, or leaves what is read and what of it is known as they are.
LEMMA CatchUpMoves ==
    ASSUME HistoryInv, NEW x, WindowTyped(x), Moves(x), x.listedFingerprint = w.listedFingerprint,
           x.checkQuery \in {w.checkQuery, NoQuery},
           \/ Reloaded(x, version)
           \/ /\ x.listedQuery = w.listedQuery
              /\ UpToDate(w, version, failed) => UpToDate(x, version, failed')
              /\ Noticed(w, version, reported) => Noticed(x, version, reported)
    PROVE  CatchUpInv'
<1>1. w' = x /\ gap' = (gap /\ ~fresh(x)) /\ version' = version /\ reported' = reported
  BY DEF Moves
<1>2. version \in Nat
  BY VersionIsNat DEF HistoryInv, HistoryTypes
<1>3. x.listedFingerprint <= version /\ (x.checkQuery # NoQuery => x.checkQuery.since <= version)
  BY DEF HistoryInv, CatchUpInv
<1>4. CASE Reloaded(x, version) \/ fresh(x)
  <2>1. /\ x.listedQuery # NoQuery /\ x.listedQuery.since = version
        /\ x.logQuery # NoQuery /\ x.logQuery.since = version
    <3>1. "listing" # "none"
      OBVIOUS
    <3> QED
      BY <1>2, <1>4, <3>1, QueriesDiffer, NoQueryKind DEF Reloaded, fresh
  <2>2. Follows(x, version, reported, failed')
    BY <2>1 DEF Follows, UpToDate
  <2> QED
    BY <1>1, <1>3, <2>2 DEF CatchUpInv
<1>5. CASE ~Reloaded(x, version) /\ ~fresh(x)
  <2>1. SUFFICES ASSUME ~gap PROVE Follows(x, version, reported, failed')
    BY <1>1, <1>3, <1>5 DEF CatchUpInv
  <2>2. Follows(w, version, reported, failed)
    BY <2>1 DEF HistoryInv, CatchUpInv
  <2> QED
    BY <1>5, <2>2 DEF Follows
<1> QED
  BY <1>4, <1>5

LEMMA ReloadKeepsInv ==
    ASSUME HistoryInv, NEW x, WindowTyped(x), Reloaded(x, version), x.listedFingerprint = w.listedFingerprint,
           x.checkQuery \in {w.checkQuery, NoQuery}, Moves(x),
           failed' \in BOOLEAN, walks' \in {0, 1}, Spent(x, walks')
    PROVE  HistoryInv'
<1>1. CatchUpInv'
  BY CatchUpMoves
<1>2. w' = x /\ version' = version /\ reported' = reported /\ raced' = raced
  BY DEF Moves
<1>3. gap' \in BOOLEAN
  BY DEF Moves, HistoryInv, HistoryTypes, fresh
<1>4. HistoryTypes'
  BY <1>2, <1>3 DEF HistoryInv, HistoryTypes
<1>5. Decides(x, failed')
  BY DEF Decides, Reloaded
<1> QED
  BY <1>1, <1>2, <1>4, <1>5 DEF HistoryInv, RevealInv

LEMMA ListingKeepsInv ==
    ASSUME HistoryInv, NEW x, Fields(x), SameListing(w, x), Moves(x), failed' = failed,
           walks' \in {0, 1}, Spent(x, walks'), ~raced => Decides(x, failed)
    PROVE  HistoryInv'
<1>1. WindowTyped(x)
  BY DEF HistoryInv, HistoryTypes, WindowTyped, WalkTyped, SameListing
<1>2. /\ UpToDate(w, version, failed) => UpToDate(x, version, failed')
      /\ Noticed(w, version, reported) => Noticed(x, version, reported)
  BY DEF UpToDate, RowsAt, Noticed, SameListing, SameChecks
<1>3. CatchUpInv'
  BY <1>1, <1>2, CatchUpMoves DEF SameListing, SameChecks
<1>4. w' = x /\ version' = version /\ reported' = reported /\ raced' = raced
  BY DEF Moves
<1>5. gap' \in BOOLEAN
  BY DEF Moves, HistoryInv, HistoryTypes, fresh
<1>6. HistoryTypes'
  BY <1>1, <1>4, <1>5 DEF HistoryInv, HistoryTypes
<1> QED
  BY <1>3, <1>4, <1>6 DEF HistoryInv, RevealInv

\* Where only the place of the view moves.
LEMMA PlaceKeepsInv ==
    ASSUME HistoryInv, NEW x, Fields(x), SameListing(w, x), x.reveal = w.reveal, x.onMiss = w.onMiss, Moves(x),
           UNCHANGED <<failed, walks>>
    PROVE  HistoryInv'
<1>1. Spent(x, walks) /\ (~raced => Decides(x, failed))
  BY DEF HistoryInv, RevealInv, Spent, Decides, SameListing, SameChecks
<1> QED
  BY <1>1, ListingKeepsInv DEF HistoryInv, HistoryTypes

LEMMA ReloadsKeep ==
    ASSUME HistoryInv, Reload \/ FallBack \/ \E scope \in Scopes : ChooseScope(scope)
    PROVE  HistoryInv'
<1>1. Fields(w) /\ version \in Nat /\ walks \in {0, 1} /\ failed \in BOOLEAN /\ Spent(w, walks)
  BY VersionIsNat DEF HistoryInv, HistoryTypes, RevealInv, WindowTyped
<1>2. CASE Reload
  <2>1. PICK x : x = reload(w, version)
    OBVIOUS
  <2>2. WindowTyped(x) /\ Reloaded(x, version) /\ SameChecks(w, x) /\ Spent(x, walks)
    BY <1>1, <2>1, ReloadReloads DEF Spent
  <2>3. Moves(x) /\ failed' = failed /\ walks' = walks
    BY <1>2, <2>1 DEF Reload
  <2> QED
    BY <1>1, <2>2, <2>3, ReloadKeepsInv DEF SameChecks
<1>3. CASE \E scope \in Scopes : ChooseScope(scope)
  <2>1. PICK scope \in Scopes : ChooseScope(scope)
    BY <1>3
  <2>2. PICK x : x = setScope(w, scope, version)
    OBVIOUS
  <2>3. WindowTyped(x) /\ Reloaded(x, version) /\ SameChecks(w, x)
    BY <1>1, <2>2, SetScopeReloads
  <2>4. Moves(x) /\ failed' = failed /\ walks' = 0
    BY <2>1, <2>2 DEF ChooseScope
  <2>5. Spent(x, walks')
    BY <2>4 DEF Spent
  <2> QED
    BY <1>1, <2>3, <2>4, <2>5, ReloadKeepsInv DEF SameChecks
<1>4. CASE FallBack
  <2>1. PICK z : z = [w EXCEPT !.fallBack = FALSE]
    OBVIOUS
  <2>2. Fields(z) /\ SameChecks(w, z)
    BY <1>1, <2>1 DEF Fields, Shape, SameChecks
  <2>3. PICK x : x = setScope(z, "CheckedOut", version)
    OBVIOUS
  <2>4. "CheckedOut" \in Scopes
    BY HistoryAssumption
  <2>5. WindowTyped(x) /\ Reloaded(x, version) /\ SameChecks(z, x)
    BY <1>1, <2>2, <2>3, <2>4, SetScopeReloads
  <2>6. Moves(x) /\ failed' = failed /\ walks' = 0
    BY <1>4, <2>1, <2>3 DEF FallBack, fallBackToCheckout
  <2>7. Spent(x, walks')
    BY <2>6 DEF Spent
  <2> QED
    BY <1>1, <2>2, <2>5, <2>6, <2>7, ReloadKeepsInv DEF SameChecks
<1> QED
  BY <1>2, <1>3, <1>4

LEMMA LoadMoreKeeps == ASSUME HistoryInv, LoadMore PROVE HistoryInv'
<1>1. Fields(w) /\ version \in Nat
  BY VersionIsNat DEF HistoryInv, HistoryTypes, WindowTyped
<1>2. PICK n : n = 2 * w.maxCommits
  OBVIOUS
<1>3. n \in Nat
  BY <1>1, <1>2 DEF Fields
<1>4. PICK z : z = [w EXCEPT !.loadMoreEnabled = FALSE, !.missed = None, !.maxCommits = n]
  OBVIOUS
<1>5. /\ Fields(z) /\ SameChecks(w, z) /\ z.scope = w.scope /\ z.loaded = w.loaded /\ z.capped = w.capped
      /\ z.listedQuery = w.listedQuery /\ z.reveal = w.reveal /\ z.onMiss = w.onMiss
  BY <1>1, <1>3, <1>4 DEF Fields, Shape, SameChecks
<1>6. w' = loadRemainingCommits(z, version)
  BY <1>2, <1>4 DEF LoadMore
<1>7. /\ WindowTyped(w') /\ SameChecks(w, w') /\ w'.scope = w.scope /\ w'.loaded = w.loaded
      /\ w'.logQuery.kind = "deeper" /\ w'.logQuery.since = version /\ w'.logQuery # NoQuery
      /\ w'.listedQuery = w.listedQuery /\ w'.reveal = w.reveal /\ w'.onMiss = w.onMiss
  BY <1>1, <1>5, <1>6, DeepeningTyped DEF SameChecks
<1>8. /\ UNCHANGED <<version, reported, walks, gap, failed>> /\ w.capped
      /\ raced' = (raced \/ w.logQuery.kind = "listing")
  BY DEF LoadMore
<1>9. HistoryTypes'
  BY <1>7, <1>8 DEF HistoryInv, HistoryTypes
<1>10. CatchUpInv'
  BY <1>7, <1>8 DEF HistoryInv, CatchUpInv, Follows, UpToDate, SameChecks
<1>11. Spent(w', walks') /\ (~raced' => Decides(w', failed'))
  BY <1>7, <1>8 DEF HistoryInv, RevealInv, Spent, Decides
<1> QED
  BY <1>9, <1>10, <1>11 DEF HistoryInv, RevealInv

LEMMA ReaderMoves ==
    ASSUME HistoryInv, ApplySearch \/ \E sha \in Shas : SelectCommit(sha)
    PROVE  HistoryInv'
<1>1. Fields(w)
  BY DEF HistoryInv, HistoryTypes, WindowTyped
<1>2. CASE ApplySearch
  <2>1. PICK b : b = ~w.search
    OBVIOUS
  <2>2. PICK c : c = ~w.reset
    OBVIOUS
  <2>3. PICK z : z = [w EXCEPT !.search = b, !.selected = None, !.reset = c]
    OBVIOUS
  <2>4. Fields(z) /\ SameListing(w, z) /\ z.reveal = w.reveal /\ z.onMiss = w.onMiss
    BY <1>1, <2>3 DEF Fields, Shape, SameListing, SameChecks
  <2>5. PICK x : x = IF visible(z) # <<>> THEN [z EXCEPT !.selected = visible(z)[1].sha] ELSE z
    OBVIOUS
  <2>6. Fields(x) /\ SameListing(z, x) /\ x.reveal = z.reveal /\ x.onMiss = z.onMiss
    <3>1. ASSUME NEW sha, NEW y, y = [z EXCEPT !.selected = sha]
          PROVE  Fields(y) /\ SameListing(z, y) /\ y.reveal = z.reveal /\ y.onMiss = z.onMiss
      BY <2>4, <3>1 DEF Fields, Shape, SameListing, SameChecks
    <3>2. CASE x = z
      BY <2>4, <3>2 DEF SameListing, SameChecks
    <3>3. CASE x = [z EXCEPT !.selected = visible(z)[1].sha]
      BY <3>1, <3>3
    <3> QED
      BY <2>5, <3>2, <3>3
  <2>7. z = [w EXCEPT !.search = ~@, !.selected = None, !.reset = ~@]
    BY <1>1, <2>1, <2>2, <2>3 DEF Fields, Shape
  <2>8. Moves(x) /\ UNCHANGED <<failed, walks>>
    BY <1>2, <2>5, <2>7 DEF ApplySearch
  <2>9. SameListing(w, x)
    BY <2>4, <2>6 DEF SameListing, SameChecks
  <2> QED
    BY <2>4, <2>6, <2>8, <2>9, PlaceKeepsInv
<1>3. CASE \E sha \in Shas : SelectCommit(sha)
  <2>1. PICK sha \in Shas : SelectCommit(sha)
    BY <1>3
  <2>2. PICK x : x = [w EXCEPT !.selected = sha]
    OBVIOUS
  <2>3. Fields(x) /\ SameListing(w, x) /\ x.reveal = w.reveal /\ x.onMiss = w.onMiss
    BY <1>1, <2>2 DEF Fields, Shape, SameListing, SameChecks
  <2>4. Moves(x) /\ UNCHANGED <<failed, walks>>
    BY <2>1, <2>2 DEF SelectCommit
  <2> QED
    BY <2>3, <2>4, PlaceKeepsInv
<1> QED
  BY <1>2, <1>3

LEMMA RevealKeeps ==
    ASSUME HistoryInv, NEW sha, NEW onMiss \in {"Report", "ReloadOnce"}, revealCommit(sha, onMiss)
    PROVE  HistoryInv'
<1>1. Fields(w) /\ WalkTyped(w) /\ version \in Nat
  BY VersionIsNat DEF HistoryInv, HistoryTypes, WindowTyped
<1>2. PICK m : m = IF w.loaded THEN onMiss ELSE "Report"
  OBVIOUS
<1>3. PICK x : x = [w EXCEPT !.reveal = sha, !.missed = None, !.onMiss = m]
  OBVIOUS
<1>4. Fields(x) /\ SameListing(w, x) /\ x.reveal = sha /\ x.onMiss = m
  <2>1. m \in {"Report", "ReloadOnce"}
    BY <1>2
  <2> QED
    BY <1>1, <1>3, <2>1 DEF Fields, Shape, SameListing, SameChecks
<1>5. PICK y : y = IF w.loaded THEN selectLoadedCommit(x, version) ELSE x
  OBVIOUS
<1>6. /\ Moves(y) /\ failed' = failed
      /\ walks' = IF w.loaded /\ ~y.loaded THEN 1 ELSE 0
  BY <1>2, <1>3, <1>5 DEF revealCommit
<1>7. CASE ~w.loaded
  <2>1. y = x /\ walks' = 0
    BY <1>5, <1>6, <1>7
  <2>2. ~raced => Decides(y, failed)
    BY <1>4, <1>7, <2>1 DEF HistoryInv, RevealInv, Decides, SameListing, SameChecks
  <2>3. Spent(y, walks')
    BY <2>1 DEF Spent
  <2> QED
    BY <1>4, <1>6, <2>1, <2>2, <2>3, ListingKeepsInv
<1>8. CASE w.loaded
  <2>1. y = selectLoadedCommit(x, version)
    BY <1>5, <1>8
  <2>2. CASE /\ Fields(y) /\ SameListing(x, y)
             /\ y.reveal = None \/ (y.reveal = x.reveal /\ y.onMiss = x.onMiss /\ x.fullLoadPending)
    <3>1. SameListing(w, y) /\ y.loaded
      BY <1>4, <1>8, <2>2 DEF SameListing, SameChecks
    <3>2. y.logQuery = NoQuery => y.reveal = None
      <4>1. x.fullLoadPending => w.logQuery.kind = "deeper"
        BY <1>1, <1>4 DEF WalkTyped, SameListing
      <4>2. x.fullLoadPending => y.logQuery # NoQuery
        BY <3>1, <4>1, NoQueryKind DEF SameListing
      <4> QED
        BY <2>2, <4>2
    <3>3. ~raced => Decides(y, failed)
      BY <3>1, <3>2 DEF Decides
    <3>4. walks' = 0
      BY <1>6, <3>1
    <3>5. Spent(y, walks')
      BY <3>4 DEF Spent
    <3> QED
      BY <1>6, <2>2, <3>1, <3>3, <3>4, <3>5, ListingKeepsInv
  <2>3. CASE /\ WindowTyped(y) /\ Reloaded(y, version) /\ SameChecks(x, y)
             /\ y.scope = "EveryRef" /\ y.onMiss = "Report"
    <3>1. walks' = 1 /\ Spent(y, walks')
      BY <1>6, <1>8, <2>3 DEF Reloaded, Spent
    <3>2. SameChecks(w, y)
      BY <1>4, <2>3 DEF SameListing, SameChecks
    <3>3. failed' \in BOOLEAN
      BY <1>6 DEF HistoryInv, HistoryTypes
    <3> QED
      BY <1>6, <2>3, <3>1, <3>2, <3>3, ReloadKeepsInv DEF SameChecks
  <2> QED
    BY <1>1, <1>4, <2>1, <2>2, <2>3, SelectLoadedDecides
<1> QED
  BY <1>7, <1>8

LEMMA ChangesKeep == ASSUME HistoryInv, HistoryChanges \/ reloadIfHistoryChanged PROVE HistoryInv'
<1>1. Fields(w) /\ WalkTyped(w) /\ version \in Nat
  BY VersionIsNat DEF HistoryInv, HistoryTypes, WindowTyped
<1>2. CASE HistoryChanges
  <2>1. /\ version < MaxVersion /\ version' = version + 1 /\ ~reported' /\ reported' \in BOOLEAN
        /\ gap' = (gap \/ w.listedQuery # NoQuery) /\ UNCHANGED <<w, walks, raced, failed>>
    BY <1>2 DEF HistoryChanges
  <2>2. version' \in 0..MaxVersion
    BY <2>1, HistoryAssumption DEF HistoryInv, HistoryTypes
  <2>3. HistoryTypes'
    BY <2>1, <2>2 DEF HistoryInv, HistoryTypes
  <2>4. w.listedFingerprint < version'
    BY <1>1, <2>1 DEF HistoryInv, CatchUpInv, Fields
  <2>5. w.checkQuery # NoQuery => w.checkQuery.since <= version'
    <3>1. w.checkQuery # NoQuery => w.checkQuery.since \in Nat
      BY <1>1 DEF Fields, Reads
    <3> QED
      BY <1>1, <2>1, <3>1 DEF HistoryInv, CatchUpInv
  <2>6. CatchUpInv'
    <3>1. Noticed(w, version', reported')
      BY <2>1, <2>4 DEF Noticed
    <3>2. ~gap' => Follows(w, version', reported', failed')
      BY <2>1, <3>1 DEF Follows
    <3> QED
      BY <1>1, <2>1, <2>4, <2>5, <3>2 DEF CatchUpInv, Fields
  <2> QED
    BY <2>1, <2>3, <2>6 DEF HistoryInv, RevealInv
<1>3. CASE reloadIfHistoryChanged
  <2>1. PICK q : q = asked(version)
    OBVIOUS
  <2>2. q \in Reads /\ q # NoQuery /\ q.since = version
    BY <1>1, <2>1, QueriesDiffer
  <2>3. PICK x : x = [w EXCEPT !.checkQuery = q]
    OBVIOUS
  <2>4. /\ Fields(x) /\ x.checkQuery = q /\ x.listedFingerprint = w.listedFingerprint
        /\ x.scope = w.scope /\ x.rows = w.rows /\ x.loaded = w.loaded /\ x.capped = w.capped
        /\ x.fullLoadPending = w.fullLoadPending /\ x.logQuery = w.logQuery /\ x.listedQuery = w.listedQuery
        /\ x.reveal = w.reveal /\ x.onMiss = w.onMiss
    BY <1>1, <2>2, <2>3 DEF Fields, Shape
  <2>5. /\ w' = x /\ ~reported /\ reported' \in BOOLEAN /\ reported'
        /\ UNCHANGED <<version, walks, gap, raced, failed>>
    BY <1>3, <2>1, <2>3 DEF reloadIfHistoryChanged
  <2>6. HistoryTypes'
    BY <1>1, <2>4, <2>5 DEF HistoryInv, HistoryTypes, WindowTyped, WalkTyped
  <2>7. Noticed(w, version, reported) => Noticed(x, version, reported')
    <3>1. Noticed(w, version, reported) => w.listedFingerprint < version
      <4>1. w.checkQuery # NoQuery => w.checkQuery.since \in Nat
        BY <1>1 DEF Fields, Reads
      <4> QED
        BY <1>1, <4>1 DEF Noticed, HistoryInv, CatchUpInv, Fields
    <3> QED
      BY <1>1, <2>2, <2>4, <3>1 DEF Noticed, Fields
  <2>8. UpToDate(w, version, failed) => UpToDate(x, version, failed)
    BY <2>4 DEF UpToDate, RowsAt
  <2>9. CatchUpInv'
    <3>1. ~gap' => Follows(x, version, reported', failed)
      BY <2>4, <2>5, <2>7, <2>8 DEF HistoryInv, CatchUpInv, Follows
    <3>2. x.listedFingerprint <= version /\ x.checkQuery.since <= version
      BY <1>1, <2>2, <2>4 DEF HistoryInv, CatchUpInv
    <3> QED
      BY <2>5, <3>1, <3>2 DEF CatchUpInv
  <2>10. Spent(w', walks') /\ (~raced' => Decides(w', failed'))
    BY <2>2, <2>4, <2>5 DEF HistoryInv, RevealInv, Spent, Decides
  <2> QED
    BY <2>6, <2>9, <2>10 DEF HistoryInv, RevealInv
<1> QED
  BY <1>2, <1>3

LEMMA LogFails ==
    ASSUME HistoryInv, w.logQuery # NoQuery, NEW x, Moves(x), failed', failed' \in BOOLEAN, walks' = walks,
           x = IF w.logQuery.kind = "listing" THEN listingFailed(w) ELSE deeperFailed(w)
    PROVE  HistoryInv'
<1>1. Fields(w) /\ WalkTyped(w)
  BY DEF HistoryInv, HistoryTypes, WindowTyped
<1>2. /\ WindowTyped(x) /\ SameChecks(w, x) /\ x.scope = w.scope /\ x.listedQuery = w.listedQuery
      /\ x.logQuery = NoQuery /\ x.loaded = w.loaded /\ x.onMiss = w.onMiss /\ x.reveal \in {None, w.reveal}
      /\ ~x.capped \/ w.logQuery.kind = "deeper"
  <2>1. CASE w.logQuery.kind = "listing"
    <3>1. PICK z : z = setCommits(w, <<>>)
      OBVIOUS
    <3>2. /\ Fields(z) /\ SameChecks(w, z) /\ z.scope = w.scope /\ z.listedQuery = w.listedQuery
          /\ z.loaded = w.loaded /\ z.onMiss = w.onMiss /\ z.reveal = w.reveal
          /\ z.fullLoadPending = w.fullLoadPending
      BY <1>1, <3>1, SetCommitsKeeps
    <3>3. x = [z EXCEPT !.logQuery = NoQuery, !.loadMoreEnabled = TRUE, !.capped = FALSE, !.reveal = None]
      BY <2>1, <3>1 DEF listingFailed
    <3>4. ~w.fullLoadPending
      BY <1>1, <2>1 DEF WalkTyped
    <3>5. /\ Fields(x) /\ SameChecks(z, x) /\ x.scope = z.scope /\ x.listedQuery = z.listedQuery
          /\ x.logQuery = NoQuery /\ x.loaded = z.loaded /\ x.onMiss = z.onMiss /\ x.reveal = None
          /\ ~x.capped /\ x.fullLoadPending = z.fullLoadPending
      <4>1. Shape(z)
        BY <3>2 DEF Fields
      <4>2. /\ Shape(x) /\ SameChecks(z, x) /\ x.scope = z.scope /\ x.listedQuery = z.listedQuery
            /\ x.branchTips = z.branchTips /\ x.maxCommits = z.maxCommits /\ x.logQuery = NoQuery
            /\ x.loaded = z.loaded /\ x.onMiss = z.onMiss /\ x.reveal = None
            /\ x.capped = FALSE /\ x.fullLoadPending = z.fullLoadPending
        BY <3>3, <4>1 DEF Shape, SameChecks
      <4> QED
        BY <3>2, <4>2 DEF Fields, SameChecks
    <3> QED
      BY <3>2, <3>4, <3>5 DEF WindowTyped, WalkTyped, SameChecks
  <2>2. CASE w.logQuery.kind # "listing"
    <3>1. w.logQuery.kind = "deeper"
      BY <1>1, <2>2 DEF WalkTyped, LogQueries
    <3>2. x = [w EXCEPT !.logQuery = NoQuery, !.loadMoreEnabled = TRUE, !.fullLoadPending = FALSE, !.capped = TRUE]
      BY <2>2 DEF deeperFailed
    <3>3. /\ Fields(x) /\ SameChecks(w, x) /\ x.scope = w.scope /\ x.listedQuery = w.listedQuery
          /\ x.logQuery = NoQuery /\ x.loaded = w.loaded /\ x.onMiss = w.onMiss /\ x.reveal = w.reveal
          /\ ~x.fullLoadPending
      BY <1>1, <3>2 DEF Fields, Shape, SameChecks
    <3> QED
      BY <3>1, <3>3 DEF WindowTyped, WalkTyped
  <2> QED
    BY <2>1, <2>2
<1>3. UpToDate(x, version, failed') /\ (Noticed(w, version, reported) => Noticed(x, version, reported))
  BY <1>2 DEF UpToDate, Noticed, SameChecks
<1>4. CatchUpInv'
  BY <1>2, <1>3, CatchUpMoves DEF SameChecks
<1>5. w' = x /\ version' = version /\ reported' = reported /\ raced' = raced
  BY DEF Moves
<1>6. gap' \in BOOLEAN
  BY DEF Moves, HistoryInv, HistoryTypes, fresh
<1>7. HistoryTypes'
  BY <1>2, <1>5, <1>6 DEF HistoryInv, HistoryTypes
<1>8. Spent(x, walks') /\ (~raced' => Decides(x, failed'))
  BY <1>2, <1>5, NoQueryKind DEF HistoryInv, RevealInv, Spent, Decides
<1> QED
  BY <1>4, <1>5, <1>7, <1>8 DEF HistoryInv, RevealInv

LEMMA LogShows ==
    ASSUME HistoryInv, w.logQuery # NoQuery, NEW read \in w.logQuery.since..version,
           walkAt(read, w.logQuery.scope) # NoWalk, NEW x, Moves(x),
           x = IF w.logQuery.kind = "listing" THEN listingRead(w, rowsRead(w.logQuery, read), version)
                                              ELSE deeperRead(w, rowsRead(w.logQuery, read), version),
           ~failed', failed' \in BOOLEAN,
           walks' = IF w.reveal # None /\ x.logQuery.kind = "listing" THEN walks + 1 ELSE walks
    PROVE  HistoryInv'
<1>1. WindowTyped(w) /\ Fields(w) /\ WalkTyped(w) /\ version \in Nat /\ version <= MaxVersion
  BY VersionIsNat DEF HistoryInv, HistoryTypes, WindowTyped
<1>2. w.logQuery \in LogQueries /\ w.logQuery.scope = w.scope /\ w.logQuery.since \in Nat
  BY <1>1 DEF WalkTyped, LogQueries
<1>3. read \in 0..MaxVersion
  BY <1>1, <1>2, HistoryAssumption
<1>4. PICK rows : rows = rowsRead(w.logQuery, read)
  OBVIOUS
<1>5. IsPrefix(shasOf(rows), walkAt(read, w.scope)) /\ \A k \in DOMAIN rows : rows[k].read = read
  BY <1>2, <1>3, <1>4, RowsAreTheWalk
<1>6. Shows(w, x, rows, version)
  BY <1>1, <1>2, <1>4, LogQueriesDiffer, ListingShows, DeeperShows
<1>7. Spent(w, walks) /\ walks \in {0, 1}
  BY DEF HistoryInv, HistoryTypes, RevealInv
<1>8. CASE WalksOn(w, x, version)
  <2>1. walks' = 1
    BY <1>7, <1>8 DEF WalksOn, Reloaded, Spent
  <2>2. Spent(x, walks')
    BY <1>8 DEF WalksOn, Spent
  <2> QED
    BY <1>6, <1>8, <2>1, <2>2, ReloadKeepsInv DEF Shows, SameChecks, WalksOn
<1>9. CASE /\ x.scope = w.scope /\ x.listedQuery = w.listedQuery /\ x.rows = rows
           /\ x.loaded \/ (w.logQuery.kind = "deeper" /\ ~w.loaded)
           /\ \/ x.logQuery = NoQuery /\ x.reveal = None
              \/ /\ x.logQuery # NoQuery /\ x.logQuery.kind = "deeper" /\ x.logQuery.since = version /\ x.loaded
                 /\ x.reveal = None \/ (x.reveal = w.reveal /\ x.onMiss = w.onMiss)
  <2>1. WindowTyped(x) /\ SameChecks(w, x)
    BY <1>6 DEF Shows
  <2>2. UpToDate(w, version, failed) => UpToDate(x, version, failed')
    <3>1. ASSUME w.logQuery.since = version PROVE UpToDate(x, version, failed')
      <4>1. read = version
        BY <1>1, <3>1
      <4> QED
        BY <1>2, <1>5, <1>9, <4>1 DEF UpToDate, RowsAt
    <3> QED
      BY <3>1 DEF UpToDate
  <2>3. CatchUpInv'
    BY <1>9, <2>1, <2>2, CatchUpMoves DEF SameChecks, Noticed
  <2>4. w' = x /\ version' = version /\ reported' = reported /\ raced' = raced
    BY DEF Moves
  <2>5. gap' \in BOOLEAN
    BY DEF Moves, HistoryInv, HistoryTypes, fresh
  <2>6. x.logQuery.kind # "listing" /\ walks' = walks
    BY <1>9, NoQueryKind
  <2>7. HistoryTypes'
    BY <1>7, <2>1, <2>4, <2>5, <2>6 DEF HistoryInv, HistoryTypes
  <2>8. Spent(x, walks')
    BY <1>7, <1>9, <2>6 DEF Spent
  <2>9. ~raced => Decides(x, failed')
    <3>1. ~raced /\ w.logQuery.kind = "deeper" => w.loaded
      BY DEF HistoryInv, RevealInv, Decides
    <3> QED
      BY <1>9, <3>1, NoQueryKind DEF Decides
  <2> QED
    BY <2>3, <2>4, <2>7, <2>8, <2>9 DEF HistoryInv, RevealInv
<1> QED
  BY <1>6, <1>8, <1>9 DEF Shows

LEMMA LogAnswersKeep == ASSUME HistoryInv, LogAnswers PROVE HistoryInv'
<1>1. w.logQuery # NoQuery
  BY DEF LogAnswers
<1>2. walks' = IF w.reveal # None /\ w'.logQuery.kind = "listing" THEN walks + 1 ELSE walks
  BY DEF LogAnswers
<1>3. ASSUME NEW read \in w.logQuery.since..version, walkAt(read, w.logQuery.scope) # NoWalk,
             failed' = FALSE, NEW rows, rows = rowsRead(w.logQuery, read),
             Moves(IF w.logQuery.kind = "listing" THEN listingRead(w, rows, version) ELSE deeperRead(w, rows, version))
      PROVE  HistoryInv'
  <2>1. PICK x : x = IF w.logQuery.kind = "listing" THEN listingRead(w, rows, version)
                                                    ELSE deeperRead(w, rows, version)
    OBVIOUS
  <2>2. Moves(x) /\ w' = x
    BY <1>3, <2>1 DEF Moves
  <2>3. ~failed' /\ failed' \in BOOLEAN
    BY <1>3
  <2> QED
    BY <1>1, <1>2, <1>3, <2>1, <2>2, <2>3, LogShows
<1>4. ASSUME Moves(IF w.logQuery.kind = "listing" THEN listingFailed(w) ELSE deeperFailed(w)), failed' = TRUE
      PROVE  HistoryInv'
  <2>1. PICK x : x = IF w.logQuery.kind = "listing" THEN listingFailed(w) ELSE deeperFailed(w)
    OBVIOUS
  <2>2. Moves(x) /\ w' = x
    BY <1>4, <2>1 DEF Moves
  <2>3. failed' /\ failed' \in BOOLEAN
    BY <1>4
  <2>4. x.logQuery = NoQuery
    <3>1. Fields(w) /\ Fields(setCommits(w, <<>>))
      BY SetCommitsKeeps DEF HistoryInv, HistoryTypes, WindowTyped
    <3> QED
      BY <2>1, <3>1 DEF listingFailed, deeperFailed, Fields, Shape
  <2>5. walks' = walks
    BY <1>2, <2>2, <2>4, NoQueryKind
  <2> QED
    BY <1>1, <2>1, <2>2, <2>3, <2>5, LogFails
<1> QED
  BY <1>3, <1>4 DEF LogAnswers

LEMMA FingerprintKeeps == ASSUME HistoryInv, FingerprintAnswers PROVE HistoryInv'
<1>1. Fields(w) /\ WalkTyped(w) /\ version \in Nat
  BY VersionIsNat DEF HistoryInv, HistoryTypes, WindowTyped
<1>2. w.listedQuery # NoQuery /\ UNCHANGED <<version, reported, walks, gap, raced, failed>>
  BY DEF FingerprintAnswers
<1>3. w.listedQuery.since \in Nat
  BY <1>1, <1>2 DEF Fields, Reads
<1>4. PICK f : f \in Int /\ f <= version /\ w' = [w EXCEPT !.listedQuery = NoQuery, !.listedFingerprint = f]
  <2>1. CASE \E read \in w.listedQuery.since..version :
               w' = [w EXCEPT !.listedQuery = NoQuery, !.listedFingerprint = read]
    <3>1. PICK read \in w.listedQuery.since..version :
             w' = [w EXCEPT !.listedQuery = NoQuery, !.listedFingerprint = read]
      BY <2>1
    <3>2. read \in Int /\ read <= version
      BY <1>1, <1>3
    <3> QED
      BY <3>1, <3>2
  <2>2. CASE w' = [w EXCEPT !.listedQuery = NoQuery, !.listedFingerprint = NoAnswer]
    <3>1. NoAnswer \in Int /\ NoAnswer <= version
      BY <1>1 DEF NoAnswer
    <3> QED
      BY <2>2, <3>1
  <2> QED
    BY <2>1, <2>2 DEF FingerprintAnswers
<1>5. PICK x : x = w'
  OBVIOUS
<1>6. /\ Fields(x) /\ x.listedQuery = NoQuery /\ x.listedFingerprint = f /\ x.checkQuery = w.checkQuery
      /\ x.scope = w.scope /\ x.rows = w.rows /\ x.loaded = w.loaded /\ x.capped = w.capped
      /\ x.fullLoadPending = w.fullLoadPending /\ x.logQuery = w.logQuery
      /\ x.reveal = w.reveal /\ x.onMiss = w.onMiss
  BY <1>1, <1>4, <1>5, NoQueryKind DEF Fields, Shape
<1>7. HistoryTypes'
  BY <1>1, <1>2, <1>5, <1>6 DEF HistoryInv, HistoryTypes, WindowTyped, WalkTyped
<1>8. ~gap => Follows(x, version, reported, failed)
  BY <1>2, <1>6 DEF HistoryInv, CatchUpInv, Follows, UpToDate, RowsAt
<1>9. CatchUpInv'
  BY <1>2, <1>4, <1>5, <1>6, <1>8 DEF HistoryInv, CatchUpInv
<1>10. Spent(x, walks) /\ (~raced => Decides(x, failed))
  BY <1>2, <1>6 DEF HistoryInv, RevealInv, Spent, Decides
<1> QED
  BY <1>2, <1>5, <1>7, <1>9, <1>10 DEF HistoryInv, RevealInv

\* An unread fingerprint is none that a check reads.
LEMMA CheckKeeps == ASSUME HistoryInv, CheckAnswers PROVE HistoryInv'
<1>1. Fields(w) /\ WalkTyped(w) /\ version \in Nat /\ walks \in {0, 1} /\ failed \in BOOLEAN
  BY VersionIsNat DEF HistoryInv, HistoryTypes, WindowTyped
<1>2. w.checkQuery # NoQuery /\ walks' = walks /\ failed' = failed
  BY DEF CheckAnswers
<1>3. w.checkQuery.since \in Nat
  BY <1>1, <1>2 DEF Fields, Reads
<1>4. PICK z : z = [w EXCEPT !.checkQuery = NoQuery]
  OBVIOUS
<1>5. /\ Fields(z) /\ z.checkQuery = NoQuery /\ z.listedFingerprint = w.listedFingerprint
      /\ z.scope = w.scope /\ z.rows = w.rows /\ z.loaded = w.loaded /\ z.capped = w.capped
      /\ z.fullLoadPending = w.fullLoadPending /\ z.logQuery = w.logQuery /\ z.listedQuery = w.listedQuery
      /\ z.reveal = w.reveal /\ z.onMiss = w.onMiss
  BY <1>1, <1>4, NoQueryKind DEF Fields, Shape
<1>6. CASE Moves(reload(z, version))
  <2>1. PICK x : x = reload(z, version)
    OBVIOUS
  <2>2. /\ WindowTyped(x) /\ Reloaded(x, version) /\ SameChecks(z, x)
        /\ x.scope = z.scope /\ x.reveal = z.reveal /\ x.onMiss = z.onMiss
    BY <1>1, <1>5, <2>1, ReloadReloads
  <2>3. Moves(x)
    BY <1>6, <2>1
  <2>4. Spent(x, walks')
    BY <1>2, <1>5, <2>2 DEF HistoryInv, RevealInv, Spent
  <2> QED
    BY <1>1, <1>2, <1>5, <2>2, <2>3, <2>4, ReloadKeepsInv DEF SameChecks
<1>7. CASE Moves(z) /\ w.listedFingerprint \in w.checkQuery.since..version
  <2>1. w.listedFingerprint >= w.checkQuery.since /\ w.listedFingerprint # NoAnswer
    BY <1>1, <1>3, <1>7 DEF NoAnswer
  <2>2. WindowTyped(z)
    BY <1>1, <1>5 DEF WindowTyped, WalkTyped
  <2>3. /\ UpToDate(w, version, failed) => UpToDate(z, version, failed')
        /\ Noticed(w, version, reported) => Noticed(z, version, reported)
    BY <1>1, <1>2, <1>3, <1>5, <2>1 DEF UpToDate, RowsAt, Noticed, Fields
  <2>4. CatchUpInv'
    BY <1>5, <1>7, <2>2, <2>3, CatchUpMoves
  <2>5. w' = z /\ version' = version /\ reported' = reported /\ raced' = raced
    BY <1>7 DEF Moves
  <2>6. gap' \in BOOLEAN
    BY <1>7 DEF Moves, HistoryInv, HistoryTypes, fresh
  <2>7. HistoryTypes'
    BY <1>2, <2>2, <2>5, <2>6 DEF HistoryInv, HistoryTypes
  <2>8. Spent(z, walks) /\ (~raced => Decides(z, failed))
    BY <1>5, <2>1 DEF HistoryInv, RevealInv, Spent, Decides
  <2> QED
    BY <1>2, <2>4, <2>5, <2>7, <2>8 DEF HistoryInv, RevealInv
<1>8. Moves(reload(z, version)) \/ (Moves(z) /\ w.listedFingerprint \in w.checkQuery.since..version)
  <2>1. CASE \E read \in w.checkQuery.since..version :
               Moves(IF read # z.listedFingerprint THEN reload(z, version) ELSE z)
    BY <1>5, <2>1
  <2>2. CASE Moves(reload(z, version))
    BY <2>2
  <2>3. z.listedFingerprint = w.listedFingerprint
    BY <1>5
  <2> QED
    BY <1>4, <2>1, <2>2, <2>3 DEF CheckAnswers
<1> QED
  BY <1>6, <1>7, <1>8

LEMMA BranchTipsKeep == ASSUME HistoryInv, BranchTipsAnswer PROVE HistoryInv'
<1>1. Fields(w) /\ WalkTyped(w) /\ version \in Nat
  BY VersionIsNat DEF HistoryInv, HistoryTypes, WindowTyped
<1>2. UNCHANGED <<version, reported, walks, gap, raced, failed>>
  BY DEF BranchTipsAnswer
<1>3. PICK z : z = [w EXCEPT !.branchTips = NoQuery]
  OBVIOUS
<1>4. w' = z \/ w' = [z EXCEPT !.fallBack = TRUE]
  BY <1>3 DEF BranchTipsAnswer
<1>5. PICK x : x = w'
  OBVIOUS
<1>6. Fields(z) /\ SameListing(w, z) /\ z.reveal = w.reveal /\ z.onMiss = w.onMiss
  BY <1>1, <1>3, NoQueryKind DEF Fields, Shape, SameListing, SameChecks
<1>7. Fields(x) /\ SameListing(z, x) /\ x.reveal = z.reveal /\ x.onMiss = z.onMiss
  BY <1>4, <1>5, <1>6 DEF Fields, Shape, SameListing, SameChecks
<1>8. SameListing(w, x) /\ x.reveal = w.reveal /\ x.onMiss = w.onMiss
  BY <1>6, <1>7 DEF SameListing, SameChecks
<1>9. HistoryTypes'
  BY <1>1, <1>2, <1>5, <1>7, <1>8 DEF HistoryInv, HistoryTypes, WindowTyped, WalkTyped, SameListing
<1>10. /\ Follows(w, version, reported, failed) => Follows(x, version, reported, failed)
       /\ Spent(x, walks) /\ (~raced => Decides(x, failed))
  BY <1>8 DEF HistoryInv, RevealInv, Spent, Decides, Follows, UpToDate, RowsAt, Noticed, SameListing, SameChecks
<1>11. CatchUpInv'
  BY <1>2, <1>5, <1>8, <1>10 DEF HistoryInv, CatchUpInv, SameListing, SameChecks
<1> QED
  BY <1>2, <1>5, <1>9, <1>10, <1>11 DEF HistoryInv, RevealInv
-------------------------------------------------------------------------------
(* The theorems.                                                             *)

LEMMA OpensInInv == ListingInit => HistoryInv
<1>1. SUFFICES ASSUME ListingInit PROVE HistoryInv
  OBVIOUS
<1>2. asked(0) \in Reads /\ asked(0) # NoQuery /\ asked(0).since = 0
  BY QueriesDiffer
<1>3. PICK q : q = asked(0)
  OBVIOUS
<1>4. PICK x : x = w
  OBVIOUS
<1>5. /\ Fields(x) /\ x.logQuery = NoQuery /\ x.listedQuery = NoQuery /\ x.checkQuery = q
      /\ ~x.fullLoadPending /\ ~x.loaded /\ ~x.capped /\ x.listedFingerprint = NoAnswer /\ NoAnswer = -1
      /\ x.reveal = None
  BY <1>1, <1>2, <1>3, <1>4, NoQueryKind, HistoryAssumption DEF ListingInit, Fields, Shape, NoAnswer
<1>6. /\ version = 0 /\ reported /\ reported \in BOOLEAN /\ walks = 0
      /\ ~gap /\ ~raced /\ ~failed /\ gap \in BOOLEAN /\ raced \in BOOLEAN /\ failed \in BOOLEAN
  BY <1>1 DEF ListingInit
<1>7. HistoryTypes
  BY <1>4, <1>5, <1>6, HistoryAssumption DEF HistoryTypes, WindowTyped, WalkTyped
<1>8. Noticed(x, version, reported) /\ Follows(x, version, reported, failed)
  BY <1>2, <1>3, <1>5, <1>6 DEF Noticed, Follows
<1>9. CatchUpInv
  <2>1. w.listedFingerprint <= version
    BY <1>4, <1>5, <1>6
  <2>2. w.checkQuery.since <= version
    BY <1>2, <1>3, <1>4, <1>5, <1>6
  <2> QED
    BY <1>4, <1>8, <2>1, <2>2 DEF CatchUpInv
<1>10. RevealInv
  BY <1>2, <1>3, <1>4, <1>5, <1>6, NoQueryKind DEF RevealInv, Spent, Decides
<1> QED
  BY <1>7, <1>9, <1>10 DEF HistoryInv

LEMMA HistoryInvHolds == HistoryInv /\ [ListingNext]_listingVars => HistoryInv'
<1>1. SUFFICES ASSUME HistoryInv, [ListingNext]_listingVars PROVE HistoryInv'
  OBVIOUS
<1>2. CASE UserActs
  BY <1>1, <1>2, ReloadsKeep, LoadMoreKeeps, ReaderMoves, RevealKeeps DEF UserActs
<1>3. CASE HistoryChanges \/ reloadIfHistoryChanged
  BY <1>1, <1>3, ChangesKeep
<1>4. CASE LogAnswers \/ FingerprintAnswers \/ CheckAnswers \/ BranchTipsAnswer \/ FallBack
  BY <1>1, <1>4, LogAnswersKeep, FingerprintKeeps, CheckKeeps, BranchTipsKeep, ReloadsKeep
<1>5. CASE UNCHANGED listingVars
  <2>1. UNCHANGED <<version, reported, w, walks, gap, raced, failed>>
    BY <1>5 DEF listingVars
  <2>2. HistoryTypes'
    BY <1>1, <2>1 DEF HistoryInv, HistoryTypes
  <2>3. CatchUpInv'
    BY <1>1, <2>1 DEF HistoryInv, CatchUpInv
  <2>4. RevealInv'
    BY <1>1, <2>1 DEF HistoryInv, RevealInv
  <2> QED
    BY <2>2, <2>3, <2>4 DEF HistoryInv
<1> QED
  BY <1>1, <1>2, <1>3, <1>4, <1>5 DEF ListingNext, Answers

\* No step leaves the invariant.
LEMMA HistoryIsConsistent == ListingSpec => []HistoryInv
BY OpensInInv, HistoryInvHolds, PTL DEF ListingSpec

(***************************************************************************)
(* ListingCatchesUp: at rest, where no change fell between the two reads   *)
(* of one listing and no walk has failed, the rows are the walk of the     *)
(* present history, each read with the refs of that history.               *)
(***************************************************************************)
THEOREM ListingFollows == ListingSpec => []ListingCatchesUp
<1>1. HistoryInv => ListingCatchesUp
  <2>1. SUFFICES ASSUME HistoryInv, AtRest, ~gap, ~failed
                 PROVE  RowsAt(w, version)
    BY DEF ListingCatchesUp, RowsAt
  <2>2. Follows(w, version, reported, failed)
    BY <2>1 DEF HistoryInv, CatchUpInv
  <2>3. w.logQuery = NoQuery /\ w.listedQuery = NoQuery /\ w.checkQuery = NoQuery /\ reported
    BY <2>1 DEF AtRest
  <2> QED
    BY <2>1, <2>2, <2>3 DEF Follows, UpToDate, Noticed
<1> QED
  BY <1>1, HistoryIsConsistent, PTL

(***************************************************************************)
(* RevealIsDecidedOnce: a reveal makes at most one more walk, and once     *)
(* nothing is read any more the window has shown the commit or reported it *)
(* missed.                                                                 *)
(***************************************************************************)
THEOREM RevealsAreDecided == ListingSpec => []RevealIsDecidedOnce
<1>1. HistoryInv => RevealIsDecidedOnce
  <2>1. SUFFICES ASSUME HistoryInv PROVE RevealWalksOnce /\ RevealIsDecided
    BY DEF RevealIsDecidedOnce
  <2>2. RevealWalksOnce
    BY <2>1 DEF HistoryInv, HistoryTypes, RevealWalksOnce
  <2>3. ASSUME AtRest, ~raced, ~failed PROVE w.reveal = None
    BY <2>1, <2>3 DEF HistoryInv, RevealInv, Decides, AtRest
  <2> QED
    BY <2>2, <2>3 DEF RevealIsDecided
<1> QED
  BY <1>1, HistoryIsConsistent, PTL
-------------------------------------------------------------------------------
(* What is shown of the rows.                                                *)

\* The rows of a listing.
Row == [sha : Shas, read : 0..MaxVersion]

RowsTyped == w.rows \in Seq(Row) /\ w.reset \in BOOLEAN

LEMMA ShasOfRows ==
    ASSUME NEW rows \in Seq(Row)
    PROVE  /\ shasOf(rows) \in Seq(Shas) /\ Len(rows) \in Nat /\ Len(shasOf(rows)) = Len(rows)
           /\ \A k \in 1..Len(rows) : shasOf(rows)[k] = rows[k].sha
<1>1. Len(rows) \in Nat /\ DOMAIN rows = 1..Len(rows) /\ \A k \in 1..Len(rows) : rows[k] \in Row
  BY LenProperties, ElementOfSeq
<1>2. shasOf(rows) = [k \in 1..Len(rows) |-> rows[k].sha]
  BY <1>1 DEF shasOf
<1>3. \A k \in 1..Len(rows) : rows[k].sha \in Shas
  BY <1>1 DEF Row
<1> QED
  BY <1>1, <1>2, <1>3

LEMMA ShasBegin ==
    ASSUME NEW rows \in Seq(Row), NEW more \in Seq(Row), IsPrefix(rows, more)
    PROVE  IsPrefix(shasOf(rows), shasOf(more))
<1>1. Len(rows) <= Len(more) /\ \A k \in 1..Len(rows) : rows[k] = more[k]
  BY PrefixByEntries
<1>2. PICK a : a = shasOf(rows)
  OBVIOUS
<1>3. PICK b : b = shasOf(more)
  OBVIOUS
<1>4. /\ a \in Seq(Shas) /\ Len(rows) \in Nat /\ Len(a) = Len(rows) /\ \A k \in 1..Len(rows) : a[k] = rows[k].sha
      /\ b \in Seq(Shas) /\ Len(more) \in Nat /\ Len(b) = Len(more) /\ \A k \in 1..Len(more) : b[k] = more[k].sha
  BY <1>2, <1>3, ShasOfRows
<1>5. Len(a) <= Len(b) /\ \A k \in 1..Len(a) : a[k] = b[k]
  BY <1>1, <1>4
<1>6. IsPrefix(a, b)
  BY <1>4, <1>5, PrefixByEntries
<1> QED
  BY <1>2, <1>3, <1>6

\* A search of the first rows finds what the search of all begins with.
LEMMA MatchingBegins ==
    ASSUME NEW rows \in Seq(Row), NEW n \in 0..Len(rows)
    PROVE  /\ matching(rows) \in Seq(Row) /\ matching(SubSeq(rows, 1, n)) \in Seq(Row)
           /\ IsPrefix(matching(SubSeq(rows, 1, n)), matching(rows))
<1> DEFINE found(row) == IF matchesSearch(row) THEN <<row>> ELSE <<>>
<1>1. Len(rows) \in Nat /\ DOMAIN rows = 1..Len(rows) /\ \A k \in 1..Len(rows) : rows[k] \in Row
  BY LenProperties, ElementOfSeq
<1>2. PICK first : first = SubSeq(rows, 1, n)
  OBVIOUS
<1>3. first = [k \in 1..n |-> rows[k]]
  BY <1>1, <1>2
<1>4. PICK ss : ss = [k \in 1..Len(rows) |-> found(rows[k])]
  OBVIOUS
<1>5. PICK tt : tt = [k \in 1..n |-> found(first[k])]
  OBVIOUS
<1>6. \A row \in Row : found(row) \in Seq(Row)
  OBVIOUS
<1>7. matching(rows) = FlattenSeq(ss)
  BY <1>1, <1>4 DEF matching
<1>8. matching(first) = FlattenSeq(tt)
  <2>1. DOMAIN first = 1..n
    BY <1>3
  <2> QED
    BY <1>5, <2>1 DEF matching
<1> HIDE DEF found
<1>9. ss \in [1..Len(rows) -> Seq(Row)]
  BY <1>1, <1>4, <1>6
<1>10. \A k \in 1..n : k \in 1..Len(rows) /\ first[k] = rows[k]
  BY <1>1, <1>3
<1>11. tt \in [1..n -> Seq(Row)] /\ \A k \in 1..n : tt[k] = ss[k]
  BY <1>1, <1>4, <1>5, <1>6, <1>10
<1>12. /\ FlattenSeq(tt) \in Seq(Row) /\ FlattenSeq(ss) \in Seq(Row)
       /\ IsPrefix(FlattenSeq(tt), FlattenSeq(ss))
  BY <1>1, <1>9, <1>11, FlattenBegins
<1> QED
  BY <1>2, <1>7, <1>8, <1>12

\* What is shown of x stands in what is shown of y.
Stands(x, y) == IsPrefix(shasOf(visible(x)), shasOf(visible(y)))

\* Nothing of what is shown changes.
SameRows(x, y) == y.rows = x.rows /\ y.search = x.search /\ y.reset = x.reset

LEMMA ShownTyped ==
    ASSUME NEW x, x.rows \in Seq(Row)
    PROVE  visible(x) \in Seq(Row)
<1>1. Len(x.rows) \in Nat /\ 0 \in 0..Len(x.rows)
  BY LenProperties
<1>2. matching(x.rows) \in Seq(Row)
  BY <1>1, MatchingBegins
<1> QED
  BY <1>2 DEF visible

LEMMA SameRowsStand ==
    ASSUME NEW x, x.rows \in Seq(Row), NEW y, SameRows(x, y)
    PROVE  Stands(x, y)
<1>1. visible(y) = visible(x)
  BY DEF visible, SameRows
<1>2. PICK s : s = shasOf(visible(x))
  OBVIOUS
<1>3. s \in Seq(Shas)
  BY <1>2, ShownTyped, ShasOfRows
<1>4. Len(s) \in Nat
  BY <1>3, LenProperties
<1>5. IsPrefix(s, s)
  BY <1>3, <1>4, PrefixByEntries
<1> QED
  BY <1>1, <1>2, <1>5 DEF Stands

\* Rows that may follow the ones shown in place.
LEMMA ExtendedStands ==
    ASSUME NEW x, x.rows \in Seq(Row), NEW rows \in Seq(Row), canExtend(x, rows),
           NEW y, y.rows = rows, y.search = x.search
    PROVE  Stands(x, y)
<1>1. IsPrefix(shasOf(x.rows), shasOf(rows))
  BY DEF canExtend
<1>2. CASE ~x.search
  BY <1>1, <1>2 DEF Stands, visible
<1>3. CASE x.search
  <2>1. PICK n : n = Len(x.rows)
    OBVIOUS
  <2>2. n \in 0..Len(rows)
    <3>1. /\ shasOf(x.rows) \in Seq(Shas) /\ Len(x.rows) \in Nat /\ Len(shasOf(x.rows)) = Len(x.rows)
          /\ shasOf(rows) \in Seq(Shas) /\ Len(rows) \in Nat /\ Len(shasOf(rows)) = Len(rows)
      BY ShasOfRows
    <3>2. Len(shasOf(x.rows)) <= Len(shasOf(rows))
      BY <1>1 DEF IsPrefix
    <3> QED
      BY <2>1, <3>1, <3>2
  <2>3. PICK first : first = matching(SubSeq(rows, 1, n))
    OBVIOUS
  <2>4. matching(rows) \in Seq(Row) /\ first \in Seq(Row) /\ IsPrefix(first, matching(rows))
    BY <2>2, <2>3, MatchingBegins
  <2>5. IsPrefix(shasOf(first), shasOf(matching(rows)))
    BY <2>4, ShasBegin
  <2>6. shasOf(first) = shasOf(visible(x))
    BY <1>3, <2>1, <2>3 DEF canExtend
  <2>7. visible(y) = matching(rows)
    BY <1>3 DEF visible
  <2> QED
    BY <2>5, <2>6, <2>7 DEF Stands
<1> QED
  BY <1>2, <1>3

-------------------------------------------------------------------------------
(* What the window's functions do to the rows.                               *)

\* The functions that move the view, and those that start a query, change no row.
LEMMA ReloadsSameRows ==
    ASSUME NEW x, Shape(x), NEW v
    PROVE  /\ SameRows(x, reload(x, v)) /\ Shape(reload(x, v))
           /\ \A s : SameRows(x, setScope(x, s, v)) /\ Shape(setScope(x, s, v))
           /\ SameRows(x, loadRemainingCommits(x, v)) /\ Shape(loadRemainingCommits(x, v))
<1>1. ASSUME NEW z, Shape(z) PROVE SameRows(z, reload(z, v)) /\ Shape(reload(z, v))
  <2> DEFINE q == [kind |-> "listing", since |-> v, scope |-> z.scope,
                   limit |-> IF z.rows = <<>> /\ InitialCommitBatch < z.maxCommits
                             THEN InitialCommitBatch ELSE z.maxCommits]
             a == asked(v)
  <2>1. reload(z, v) = [z EXCEPT !.reselect = z.selected, !.branchTips = a, !.listedQuery = a, !.loaded = FALSE,
                                 !.fullLoadPending = FALSE, !.missed = None, !.logQuery = q]
    BY DEF reload
  <2> HIDE DEF q, a
  <2>2. PICK y : y = reload(z, v)
    OBVIOUS
  <2>3. SameRows(z, y) /\ Shape(y)
    BY <1>1, <2>1, <2>2 DEF SameRows, Shape
  <2> QED
    BY <2>2, <2>3
<1>2. ASSUME NEW s PROVE SameRows(x, setScope(x, s, v)) /\ Shape(setScope(x, s, v))
  <2>1. PICK z : z = [x EXCEPT !.scope = s]
    OBVIOUS
  <2>2. Shape(z) /\ SameRows(x, z)
    BY <2>1 DEF Shape, SameRows
  <2>3. PICK y : y = reload(z, v)
    OBVIOUS
  <2>4. SameRows(z, y) /\ Shape(y)
    BY <1>1, <2>2, <2>3
  <2>5. setScope(x, s, v) = y
    BY <2>1, <2>3 DEF setScope
  <2> QED
    BY <2>2, <2>4, <2>5 DEF SameRows
<1>3. SameRows(x, loadRemainingCommits(x, v)) /\ Shape(loadRemainingCommits(x, v))
  <2>1. PICK q : q = [kind |-> "deeper", since |-> v, scope |-> x.scope, limit |-> x.maxCommits]
    OBVIOUS
  <2>2. PICK y : y = loadRemainingCommits(x, v)
    OBVIOUS
  <2>3. y = [x EXCEPT !.logQuery = q]
    BY <2>1, <2>2 DEF loadRemainingCommits
  <2>4. SameRows(x, y) /\ Shape(y)
    BY <2>3 DEF SameRows, Shape
  <2> QED
    BY <2>2, <2>4
<1> QED
  BY <1>1, <1>2, <1>3

LEMMA PlaceSameRows ==
    ASSUME NEW x, Shape(x)
    PROVE  SameRows(x, selectPlace(x)) /\ Shape(selectPlace(x))
<1>1. ASSUME NEW sha, NEW y, y = selectRow(x, sha) \/ y = [x EXCEPT !.reselect = None]
      PROVE  SameRows(x, y) /\ Shape(y)
  BY <1>1 DEF selectRow, SameRows, Shape
<1>2. \E sha : selectPlace(x) = selectRow(x, sha) \/ selectPlace(x) = [x EXCEPT !.reselect = None]
  BY DEF selectPlace
<1> QED
  BY <1>1, <1>2

LEMMA SelectLoadedSameRows ==
    ASSUME NEW x, Shape(x), NEW v
    PROVE  SameRows(x, selectLoadedCommit(x, v)) /\ Shape(selectLoadedCommit(x, v))
<1>1. PICK y : y = selectLoadedCommit(x, v)
  OBVIOUS
<1>2. PICK spent : spent = [x EXCEPT !.onMiss = "Report"]
  OBVIOUS
<1>3. PICK m : m = [x EXCEPT !.missed = x.reveal, !.reveal = None]
  OBVIOUS
<1>4. PICK r : r = [selectRow(x, x.reveal) EXCEPT !.reveal = None]
  OBVIOUS
<1>5. /\ Shape(spent) /\ SameRows(x, spent) /\ Shape(m) /\ SameRows(x, m)
      /\ Shape(r) /\ SameRows(x, r)
  BY <1>2, <1>3, <1>4 DEF Shape, SameRows, selectRow
<1>6. y \in {selectPlace(x), r, x, setScope(spent, "EveryRef", v), reload(spent, v), selectPlace(m)}
  BY <1>1, <1>2, <1>3, <1>4 DEF selectLoadedCommit
<1>7. CASE y = selectPlace(x)
  BY <1>1, <1>7, PlaceSameRows
<1>8. CASE y = r \/ y = x
  BY <1>1, <1>5, <1>8 DEF SameRows
<1>9. CASE y = setScope(spent, "EveryRef", v) \/ y = reload(spent, v)
  <2>1. SameRows(spent, y) /\ Shape(y)
    BY <1>5, <1>9, ReloadsSameRows
  <2> QED
    BY <1>1, <1>5, <2>1 DEF SameRows
<1>10. CASE y = selectPlace(m)
  <2>1. SameRows(m, y) /\ Shape(y)
    BY <1>5, <1>10, PlaceSameRows
  <2> QED
    BY <1>1, <1>5, <2>1 DEF SameRows
<1> QED
  BY <1>6, <1>7, <1>8, <1>9, <1>10

\* New rows come with a reset, or follow those shown.
Renews(x, y, rows) ==
    /\ y.rows = rows /\ y.search = x.search
    /\ \/ y.reset = ~x.reset
       \/ y.reset = x.reset /\ canExtend(x, rows)

LEMMA ListingRenews ==
    ASSUME NEW x, Shape(x), NEW v, NEW rows
    PROVE  Renews(x, listingRead(x, rows, v), rows)
<1>1. PICK cut : cut = (Len(rows) >= x.logQuery.limit)
  OBVIOUS
<1>2. PICK pending : pending = (cut /\ x.logQuery.limit < x.maxCommits)
  OBVIOUS
<1>3. PICK capped : capped = (cut /\ ~pending)
  OBVIOUS
<1>4. PICK b : b = ~x.reset
  OBVIOUS
<1>5. PICK r : r = setCommits(x, rows)
  OBVIOUS
<1>6. PICK z : z = [r EXCEPT !.logQuery = NoQuery, !.loadMoreEnabled = TRUE, !.loaded = TRUE,
                             !.fullLoadPending = pending, !.capped = capped]
  OBVIOUS
<1>7. PICK placed : placed = selectLoadedCommit(z, v)
  OBVIOUS
<1>8. PICK y : y = listingRead(x, rows, v)
  OBVIOUS
<1>9. y = IF placed.fullLoadPending THEN loadRemainingCommits(placed, v) ELSE placed
  BY <1>1, <1>2, <1>3, <1>5, <1>6, <1>7, <1>8 DEF listingRead
<1>10. r = [x EXCEPT !.rows = rows, !.selected = None, !.reset = b]
  BY <1>4, <1>5 DEF setCommits, Shape
<1>11. Shape(r) /\ r.rows = rows /\ r.search = x.search /\ r.reset = b
  BY <1>10 DEF Shape
<1>12. Shape(z) /\ SameRows(r, z)
  BY <1>6, <1>11 DEF Shape, SameRows
<1>13. Shape(placed) /\ SameRows(z, placed)
  BY <1>7, <1>12, SelectLoadedSameRows
<1>14. SameRows(placed, y)
  BY <1>9, <1>13, ReloadsSameRows DEF SameRows
<1>15. y.rows = rows /\ y.search = x.search /\ y.reset = b
  BY <1>11, <1>12, <1>13, <1>14 DEF SameRows
<1> QED
  BY <1>4, <1>8, <1>15 DEF Renews

LEMMA DeeperRenews ==
    ASSUME NEW x, Shape(x), NEW v, NEW rows
    PROVE  Renews(x, deeperRead(x, rows, v), rows)
<1>1. PICK capped : capped = (Len(rows) >= x.logQuery.limit)
  OBVIOUS
<1>2. PICK y : y = [x EXCEPT !.logQuery = NoQuery, !.loadMoreEnabled = TRUE, !.fullLoadPending = FALSE,
                             !.capped = capped]
  OBVIOUS
<1>3. PICK b : b = ~y.reset
  OBVIOUS
<1>4. PICK r : r = setCommits(y, rows)
  OBVIOUS
<1>5. PICK replaced : replaced = [r EXCEPT !.reselect = x.selected]
  OBVIOUS
<1>6. PICK extended : extended = [y EXCEPT !.rows = rows]
  OBVIOUS
<1>7. PICK z : z = deeperRead(x, rows, v)
  OBVIOUS
<1>8. Shape(y) /\ SameRows(x, y)
  BY <1>2 DEF Shape, SameRows
<1>9. r = [y EXCEPT !.rows = rows, !.selected = None, !.reset = b]
  BY <1>3, <1>4, <1>8 DEF setCommits, Shape
<1>10. Shape(r) /\ r.rows = rows /\ r.search = y.search /\ r.reset = b
  BY <1>8, <1>9 DEF Shape
<1>11. Shape(replaced) /\ SameRows(r, replaced)
  BY <1>5, <1>10 DEF Shape, SameRows
<1>12. Shape(extended) /\ extended.rows = rows /\ extended.search = y.search /\ extended.reset = y.reset
  BY <1>6, <1>8 DEF Shape
<1>13. CASE ~canExtend(x, rows)
  <2>1. z = selectLoadedCommit(replaced, v)
    BY <1>1, <1>2, <1>4, <1>5, <1>7, <1>13 DEF deeperRead
  <2>2. SameRows(replaced, z)
    BY <1>11, <2>1, SelectLoadedSameRows
  <2>3. z.rows = rows /\ z.search = x.search /\ z.reset = b /\ y.reset = x.reset
    BY <1>8, <1>10, <1>11, <2>2 DEF SameRows
  <2> QED
    BY <1>3, <1>7, <2>3 DEF Renews
<1>14. CASE canExtend(x, rows)
  <2>1. z = IF x.reveal # None THEN selectLoadedCommit(extended, v) ELSE extended
    BY <1>1, <1>2, <1>6, <1>7, <1>14 DEF deeperRead
  <2>2. SameRows(extended, z)
    BY <1>12, <2>1, SelectLoadedSameRows DEF SameRows
  <2>3. z.rows = rows /\ z.search = x.search /\ z.reset = x.reset
    BY <1>8, <1>12, <2>2 DEF SameRows
  <2> QED
    BY <1>7, <1>14, <2>3 DEF Renews
<1> QED
  BY <1>13, <1>14

-------------------------------------------------------------------------------
(* What the steps do to the rows.                                            *)

LEMMA RowsReadTyped ==
    ASSUME NEW q \in LogQueries, NEW v \in 0..MaxVersion, walkAt(v, q.scope) # NoWalk
    PROVE  rowsRead(q, v) \in Seq(Row)
<1>1. PICK walk : walk = walkAt(v, q.scope)
  OBVIOUS
<1>2. q.scope \in Scopes /\ q.limit \in Nat
  BY DEF LogQueries
<1>3. walk \in Seq(Shas)
  BY <1>1, <1>2, HistoryAssumption DEF walkAt
<1>4. PICK size : size = IF Len(walk) < q.limit THEN Len(walk) ELSE q.limit
  OBVIOUS
<1>5. size \in Nat /\ size <= Len(walk)
  <2>1. Len(walk) \in Nat
    BY <1>3
  <2> QED
    BY <1>2, <1>4, <2>1, SizeFits
<1>6. rowsRead(q, v) = [k \in 1..size |-> [sha |-> walk[k], read |-> v]]
  BY <1>1, <1>4 DEF rowsRead
<1>7. \A k \in 1..size : walk[k] \in Shas
  BY <1>3, <1>5, ElementOfSeq, LenProperties
<1> QED
  BY <1>5, <1>6, <1>7 DEF Row

\* What a step does to the rows.
RowsMove == RowsTyped' /\ (w'.reset = w.reset => Stands(w, w'))

LEMMA SameRowsMove == ASSUME RowsTyped, SameRows(w, w') PROVE RowsMove
<1>1. PICK y : y = w'
  OBVIOUS
<1>2. SameRows(w, y)
  BY <1>1
<1>3. Stands(w, y)
  BY <1>2, SameRowsStand DEF RowsTyped
<1>4. y.rows \in Seq(Row) /\ y.reset \in BOOLEAN
  BY <1>2 DEF RowsTyped, SameRows
<1> QED
  BY <1>1, <1>3, <1>4 DEF RowsMove, RowsTyped

LEMMA RenewsMove ==
    ASSUME RowsTyped, NEW rows \in Seq(Row), NEW y, Renews(w, y, rows), w' = y
    PROVE  RowsMove
<1>1. y.rows \in Seq(Row) /\ y.reset \in BOOLEAN
  BY DEF RowsTyped, Renews
<1>2. y.reset = w.reset => canExtend(w, rows)
  BY DEF RowsTyped, Renews
<1>3. y.reset = w.reset => Stands(w, y)
  BY <1>2, ExtendedStands DEF RowsTyped, Renews
<1> QED
  BY <1>1, <1>3 DEF RowsMove, RowsTyped

LEMMA ResetMove ==
    ASSUME RowsTyped, NEW y, y.rows \in Seq(Row), y.reset = ~w.reset, w' = y
    PROVE  RowsMove
BY DEF RowsMove, RowsTyped

LEMMA ReaderMovesRows ==
    ASSUME HistoryInv, RowsTyped, UserActs PROVE RowsMove
<1>1. Shape(w)
  BY DEF HistoryInv, HistoryTypes, WindowTyped, Fields
<1>2. CASE Reload \/ LoadMore \/ \E scope \in Scopes : ChooseScope(scope)
  <2>1. CASE Reload
    BY <1>1, <2>1, ReloadsSameRows, SameRowsMove DEF Reload, Moves
  <2>2. CASE LoadMore
    <3>1. PICK m : m = 2 * w.maxCommits
      OBVIOUS
    <3>2. PICK x : x = [w EXCEPT !.loadMoreEnabled = FALSE, !.missed = None, !.maxCommits = m]
      OBVIOUS
    <3>3. Shape(x) /\ SameRows(w, x)
      BY <1>1, <3>2 DEF Shape, SameRows
    <3>4. w' = loadRemainingCommits(x, version)
      BY <2>2, <3>1, <3>2 DEF LoadMore
    <3>5. SameRows(x, w')
      BY <3>3, <3>4, ReloadsSameRows
    <3>6. SameRows(w, w')
      BY <3>3, <3>5 DEF SameRows
    <3> QED
      BY <3>6, SameRowsMove
  <2>3. ASSUME NEW scope \in Scopes, ChooseScope(scope) PROVE RowsMove
    BY <1>1, <2>3, ReloadsSameRows, SameRowsMove DEF ChooseScope, Moves
  <2> QED
    BY <1>2, <2>1, <2>2, <2>3
<1>3. CASE ApplySearch
  <2>1. PICK s : s = ~w.search
    OBVIOUS
  <2>2. PICK b : b = ~w.reset
    OBVIOUS
  <2>3. PICK x : x = [w EXCEPT !.search = s, !.selected = None, !.reset = b]
    OBVIOUS
  <2>4. PICK y : y = IF visible(x) # <<>> THEN [x EXCEPT !.selected = visible(x)[1].sha] ELSE x
    OBVIOUS
  <2>5. w' = y
    BY <1>1, <1>3, <2>1, <2>2, <2>3, <2>4 DEF ApplySearch, Moves, Shape
  <2>6. Shape(x) /\ x.rows = w.rows /\ x.reset = b
    BY <1>1, <2>3 DEF Shape
  <2>7. y.rows = w.rows /\ y.reset = b
    BY <2>4, <2>6 DEF Shape
  <2> QED
    BY <2>2, <2>5, <2>7, ResetMove DEF RowsTyped
<1>4. ASSUME NEW sha \in Shas, SelectCommit(sha) PROVE RowsMove
  <2>1. PICK y : y = [w EXCEPT !.selected = sha]
    OBVIOUS
  <2>2. SameRows(w, y) /\ w' = y
    BY <1>1, <1>4, <2>1 DEF SameRows, Shape, SelectCommit, Moves
  <2> QED
    BY <2>2, SameRowsMove
<1>5. ASSUME NEW sha \in RevealTargets, NEW onMiss \in {"Report", "ReloadOnce"}, revealCommit(sha, onMiss)
      PROVE  RowsMove
  <2>1. PICK told : told = IF w.loaded THEN onMiss ELSE "Report"
    OBVIOUS
  <2>2. PICK x : x = [w EXCEPT !.reveal = sha, !.missed = None, !.onMiss = told]
    OBVIOUS
  <2>3. w' = IF w.loaded THEN selectLoadedCommit(x, version) ELSE x
    BY <1>5, <2>1, <2>2 DEF revealCommit, Moves
  <2>4. Shape(x) /\ SameRows(w, x)
    BY <1>1, <2>2 DEF Shape, SameRows
  <2>5. SameRows(x, w')
    BY <2>3, <2>4, SelectLoadedSameRows DEF SameRows
  <2>6. SameRows(w, w')
    BY <2>4, <2>5 DEF SameRows
  <2> QED
    BY <2>6, SameRowsMove
<1> QED
  BY <1>2, <1>3, <1>4, <1>5 DEF UserActs

LEMMA LogMovesRows ==
    ASSUME HistoryInv, RowsTyped, LogAnswers PROVE RowsMove
<1>1. Shape(w) /\ w.logQuery \in LogQueries /\ version \in 0..MaxVersion
  BY DEF HistoryInv, HistoryTypes, WindowTyped, Fields, WalkTyped, LogAnswers
<1>2. ASSUME NEW read \in w.logQuery.since..version, walkAt(read, w.logQuery.scope) # NoWalk,
             NEW rows, rows = rowsRead(w.logQuery, read),
             w' = IF w.logQuery.kind = "listing" THEN listingRead(w, rows, version) ELSE deeperRead(w, rows, version)
      PROVE  RowsMove
  <2>1. w.logQuery.since \in Nat
    BY <1>1 DEF LogQueries
  <2>2. version \in Nat /\ version <= MaxVersion /\ MaxVersion \in Nat
    BY <1>1, HistoryAssumption
  <2>3. read \in 0..MaxVersion
    BY <2>1, <2>2
  <2>4. rows \in Seq(Row)
    BY <1>1, <1>2, <2>3, RowsReadTyped
  <2>5. PICK y : y = w'
    OBVIOUS
  <2>6. Renews(w, y, rows)
    BY <1>1, <1>2, <2>5, ListingRenews, DeeperRenews
  <2> QED
    BY <2>4, <2>5, <2>6, RenewsMove
<1>3. ASSUME w' = IF w.logQuery.kind = "listing" THEN listingFailed(w) ELSE deeperFailed(w)
      PROVE  RowsMove
  <2>1. CASE w' = listingFailed(w)
    <3>1. PICK b : b = ~w.reset
      OBVIOUS
    <3>2. PICK z : z = setCommits(w, <<>>)
      OBVIOUS
    <3>3. z = [w EXCEPT !.rows = <<>>, !.selected = None, !.reset = b]
      BY <1>1, <3>1, <3>2 DEF setCommits, Shape
    <3>4. Shape(z) /\ z.rows = <<>> /\ z.reset = b
      BY <1>1, <3>3 DEF Shape
    <3>5. PICK y : y = [z EXCEPT !.logQuery = NoQuery, !.loadMoreEnabled = TRUE, !.capped = FALSE, !.reveal = None]
      OBVIOUS
    <3>6. w' = y
      BY <2>1, <3>2, <3>5 DEF listingFailed
    <3>7. y.rows = <<>> /\ y.reset = b
      BY <3>4, <3>5 DEF Shape
    <3>8. y.rows \in Seq(Row)
      BY <3>7
    <3> QED
      BY <3>1, <3>6, <3>7, <3>8, ResetMove
  <2>2. CASE w' = deeperFailed(w)
    <3>1. PICK y : y = [w EXCEPT !.logQuery = NoQuery, !.loadMoreEnabled = TRUE, !.fullLoadPending = FALSE, !.capped = TRUE]
      OBVIOUS
    <3>2. w' = y /\ SameRows(w, y)
      BY <1>1, <2>2, <3>1 DEF deeperFailed, SameRows, Shape
    <3> QED
      BY <3>2, SameRowsMove
  <2> QED
    BY <1>3, <2>1, <2>2
<1>4. \/ \E read \in w.logQuery.since..version :
             /\ walkAt(read, w.logQuery.scope) # NoWalk
             /\ \E rows : /\ rows = rowsRead(w.logQuery, read)
                          /\ w' = IF w.logQuery.kind = "listing" THEN listingRead(w, rows, version)
                                  ELSE deeperRead(w, rows, version)
      \/ w' = IF w.logQuery.kind = "listing" THEN listingFailed(w) ELSE deeperFailed(w)
  BY DEF LogAnswers, Moves
<1> QED
  BY <1>2, <1>3, <1>4

LEMMA AnswersMoveRows ==
    ASSUME HistoryInv, RowsTyped, FingerprintAnswers \/ CheckAnswers \/ BranchTipsAnswer \/ FallBack
    PROVE  RowsMove
<1>1. Shape(w)
  BY DEF HistoryInv, HistoryTypes, WindowTyped, Fields
<1>2. CASE FingerprintAnswers
  <2>1. \E read : \E y : /\ y = [w EXCEPT !.listedQuery = NoQuery, !.listedFingerprint = read]
                         /\ w' = y
    BY <1>2 DEF FingerprintAnswers
  <2>2. SameRows(w, w')
    BY <1>1, <2>1 DEF SameRows, Shape
  <2> QED
    BY <2>2, SameRowsMove
<1>3. CASE CheckAnswers
  <2>1. PICK x : x = [w EXCEPT !.checkQuery = NoQuery]
    OBVIOUS
  <2>2. Shape(x) /\ SameRows(w, x)
    BY <1>1, <2>1 DEF Shape, SameRows
  <2>3. w' = x \/ w' = reload(x, version)
    BY <1>3, <2>1 DEF CheckAnswers, Moves
  <2>4. SameRows(x, w')
    BY <2>2, <2>3, ReloadsSameRows DEF SameRows
  <2>5. SameRows(w, w')
    BY <2>2, <2>4 DEF SameRows
  <2> QED
    BY <2>5, SameRowsMove
<1>4. CASE BranchTipsAnswer
  <2>1. PICK x : x = [w EXCEPT !.branchTips = NoQuery]
    OBVIOUS
  <2>2. PICK y : y = [x EXCEPT !.fallBack = TRUE]
    OBVIOUS
  <2>3. w' = x \/ w' = y
    BY <1>4, <2>1, <2>2 DEF BranchTipsAnswer
  <2>4. SameRows(w, x) /\ SameRows(w, y)
    BY <1>1, <2>1, <2>2 DEF Shape, SameRows
  <2> QED
    BY <2>3, <2>4, SameRowsMove
<1>5. CASE FallBack
  <2>1. PICK x : x = [w EXCEPT !.fallBack = FALSE]
    OBVIOUS
  <2>2. Shape(x) /\ SameRows(w, x)
    BY <1>1, <2>1 DEF Shape, SameRows
  <2>3. w' = setScope(x, "CheckedOut", version)
    BY <1>5, <2>1 DEF FallBack, Moves, fallBackToCheckout
  <2>4. SameRows(x, w')
    BY <2>2, <2>3, ReloadsSameRows
  <2>5. SameRows(w, w')
    BY <2>2, <2>4 DEF SameRows
  <2> QED
    BY <2>5, SameRowsMove
<1> QED
  BY <1>2, <1>3, <1>4, <1>5

LEMMA RowsStep ==
    HistoryInv /\ RowsTyped /\ [ListingNext]_listingVars => RowsMove
<1>1. SUFFICES ASSUME HistoryInv, RowsTyped, [ListingNext]_listingVars PROVE RowsMove
  OBVIOUS
<1>2. Shape(w)
  BY <1>1 DEF HistoryInv, HistoryTypes, WindowTyped, Fields
<1>3. CASE UserActs
  BY <1>1, <1>3, ReaderMovesRows
<1>4. CASE HistoryChanges \/ UNCHANGED listingVars
  <2>1. SameRows(w, w')
    BY <1>4 DEF HistoryChanges, listingVars, SameRows
  <2> QED
    BY <1>1, <2>1, SameRowsMove
<1>5. CASE reloadIfHistoryChanged
  <2>1. PICK a : a = asked(version)
    OBVIOUS
  <2>2. PICK y : y = [w EXCEPT !.checkQuery = a]
    OBVIOUS
  <2>3. w' = y /\ SameRows(w, y)
    BY <1>2, <1>5, <2>1, <2>2 DEF reloadIfHistoryChanged, SameRows, Shape
  <2> QED
    BY <1>1, <2>3, SameRowsMove
<1>6. CASE LogAnswers
  BY <1>1, <1>6, LogMovesRows
<1>7. CASE FingerprintAnswers \/ CheckAnswers \/ BranchTipsAnswer \/ FallBack
  BY <1>1, <1>7, AnswersMoveRows
<1> QED
  BY <1>1, <1>3, <1>4, <1>5, <1>6, <1>7 DEF ListingNext, Answers

(***************************************************************************)
(* ShownRowsStand: until the list is reset, what it shows is only added to *)
(* at its end, whatever is searched for and read meanwhile; the rows that  *)
(* are announced as inserted are all that differs.                         *)
(***************************************************************************)
THEOREM ShownStand == ListingSpec => ShownRowsStand
<1>1. ListingInit => RowsTyped
  <2> SUFFICES ASSUME ListingInit PROVE RowsTyped
    OBVIOUS
  <2>1. w.rows = <<>> /\ w.reset = FALSE
    BY DEF ListingInit
  <2>2. <<>> \in Seq(Row) /\ FALSE \in BOOLEAN
    OBVIOUS
  <2> QED
    BY <2>1, <2>2 DEF RowsTyped
<1>2. RowsTyped /\ HistoryInv /\ [ListingNext]_listingVars => RowsTyped'
  BY RowsStep DEF RowsMove
<1>3. ASSUME RowsTyped, HistoryInv, [ListingNext]_listingVars
      PROVE  [w'.reset = w.reset => IsPrefix(shasOf(visible(w)), shasOf(visible(w')))]_listingVars
  BY <1>3, RowsStep DEF RowsMove, Stands
<1> QED
  BY <1>1, <1>2, <1>3, HistoryIsConsistent, PTL DEF ListingSpec, ShownRowsStand
===============================================================================
