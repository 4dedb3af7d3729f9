--------------------------- MODULE QueryRoundProofs ---------------------------
(***************************************************************************)
(* Theorems of JobQueue and of QueryRound, for any number of jobs, queries,*)
(* contexts and slots: the transport's, the round's own, and what the      *)
(* transport below it keeps promising.                                     *)
(***************************************************************************)
EXTENDS QueryRound, ArrivalsProofs

-------------------------------------------------------------------------------
(* The transport.                                                          *)

\* What phases say of the queue and of the slots: the two halves of pump()'s bookkeeping.
Queued(life) == {j \in Jobs : life[j] = "pending"}
Slots(life) == {j \in Jobs : life[j] \in {"running", "refused"}}

\* The queue and the counter agree with the phases.
Books(queue, taken, life) ==
    /\ life \in [Jobs -> Phases]
    /\ queue = Queued(life)
    /\ taken \in Nat
    /\ taken = Cardinality(Slots(life))
    /\ taken <= MaxConcurrentProcesses

\* Only pending jobs move, and to where pump() may move them.
OnlyPendingMove(life, next) ==
    \A j \in Jobs :
        IF life[j] = "pending"
        THEN next[j] \in {"pending", "running", "refused", "doomed"}
        ELSE next[j] = life[j]

\* run() is called once for each job, and numbers it.
ArrivalsDistinct ==
    \A j, k \in Asked :
        /\ arrival[j] \in 1..Cardinality(Asked)
        /\ arrival[j] = arrival[k] => j = k

(***************************************************************************)
(* The inductive invariant.  That the counter matches the slots needs the  *)
(* queue to hold exactly the pending jobs (none is started twice) and the  *)
(* arrival numbers to be distinct (no more are started than there is room  *)
(* for).                                                                   *)
(***************************************************************************)
IndInv ==
    /\ TypeOK
    /\ SlotAccounting
    /\ WorkConserving
    /\ QueueHoldsPending
    /\ ArrivalsDistinct

-------------------------------------------------------------------------------

(***************************************************************************)
(* pump() on a queue and a number of taken slots that agree with the       *)
(* phases leaves them agreeing, fills the slots as far as the cap and      *)
(* leaves a job waiting only if no slot is free.                           *)
(***************************************************************************)
LEMMA PumpKeepsBooks ==
    ASSUME NEW queue, NEW order, NEW taken, NEW life,
           Books(queue, taken, life),
           \A j \in queue : order[j] \in Int, Distinct(queue, order),
           Pump(queue, order, taken, life)
    PROVE  /\ Books(pending', running', phase')
           /\ pending' # {} => running' >= MaxConcurrentProcesses
           /\ OnlyPendingMove(life, phase')
<1> DEFINE room == MaxConcurrentProcesses - taken
           wanted == Listened(queue)
           started == Started(queue, order, room)
           abandoned == Abandoned(queue, order, room)
<1> USE JobQueueAssumption
<1>0. /\ life \in [Jobs -> Phases]
      /\ queue = Queued(life) /\ queue \in SUBSET Jobs
      /\ taken \in Nat /\ taken = Cardinality(Slots(life)) /\ taken <= MaxConcurrentProcesses
  BY DEF Books, Queued
<1>1. PICK refused \in SUBSET started :
         phase' = [j \in Jobs |-> IF j \in refused THEN "refused"
                                  ELSE IF j \in started THEN "running"
                                  ELSE IF j \in abandoned THEN "doomed"
                                  ELSE life[j]]
  BY DEF Pump
<1>2. /\ pending' = queue \ (started \cup abandoned)
      /\ running' = taken + Cardinality(started)
  BY DEF Pump
<1>3. started \subseteq wanted /\ wanted \subseteq queue /\ abandoned \subseteq queue
      /\ abandoned \cap wanted = {}
  BY DEF Started, FirstServed, Listened, Abandoned
<1>4. IsFiniteSet(wanted) /\ Distinct(wanted, order) /\ room \in Nat
      /\ \A k \in wanted : order[k] \in Int
  <2>1. IsFiniteSet(wanted)
    BY <1>0, <1>3, FS_Subset
  <2> QED
    BY <1>0, <1>3, <2>1 DEF Distinct
<1>5. IsFiniteSet(started) /\ Cardinality(started) \in Nat
  BY <1>4, FiniteParts DEF Started
<1>6. Cardinality(started) <= room
  <2> HIDE DEF room
  <2> QED
    BY <1>4, ServedFit DEF Started
<1>7. pending' # {} => Cardinality(started) >= room
  <2>1. ASSUME started = wanted, NEW j \in queue \ wanted, room > Cardinality(started)
        PROVE  j \in abandoned
    <3>1. Before(wanted, order, j) \subseteq wanted
      BY DEF Before
    <3>2. Cardinality(Before(wanted, order, j)) <= Cardinality(wanted)
      BY <1>4, <3>1, FS_Subset
    <3>3. Cardinality(Before(wanted, order, j)) \in Nat
      BY <1>4, <3>1, FS_Subset, FS_CardinalityType
    <3>4. Cardinality(Before(wanted, order, j)) < room
      BY <1>4, <1>5, <2>1, <3>2, <3>3
    <3> QED
      BY <2>1, <3>4 DEF Abandoned
  <2>2. CASE started # wanted
    <3> HIDE DEF room
    <3>1. Cardinality(FirstServed(wanted, order, room)) >= room
      BY <1>4, <2>2, ServedFill DEF Started
    <3> QED
      BY <3>1 DEF Started
  <2>3. CASE started = wanted
    BY <1>2, <1>3, <1>4, <1>5, <2>1, <2>3
  <2> QED
    BY <2>2, <2>3
<1>8. Slots(phase') = Slots(life) \cup started /\ Slots(life) \cap started = {}
  BY <1>0, <1>1, <1>3 DEF Slots, Queued, Phases
<1>9. Cardinality(Slots(phase')) = taken + Cardinality(started)
  <2>1. IsFiniteSet(Slots(life)) /\ Slots(life) \in SUBSET Jobs
    BY FS_Subset DEF Slots
  <2>2. Cardinality(Slots(phase')) =
           Cardinality(Slots(life)) + Cardinality(started) - Cardinality(Slots(life) \cap started)
    BY <1>5, <1>8, <2>1, FS_Union
  <2>3. Cardinality(Slots(life) \cap started) = 0
    BY <1>8, FS_EmptySet
  <2> QED
    BY <1>0, <1>5, <2>2, <2>3
<1>10. pending' = Queued(phase')
  BY <1>0, <1>1, <1>2, <1>3 DEF Queued
<1>11. phase' \in [Jobs -> Phases]
  BY <1>0, <1>1 DEF Phases
<1>12. OnlyPendingMove(life, phase')
  BY <1>0, <1>1, <1>3 DEF Queued, OnlyPendingMove
<1> QED
  BY <1>0, <1>2, <1>4, <1>5, <1>6, <1>7, <1>9, <1>10, <1>11, <1>12 DEF Books

-------------------------------------------------------------------------------

LEMMA InitEstablishes == Init => IndInv
<1> SUFFICES ASSUME Init PROVE IndInv
  OBVIOUS
<1> USE JobQueueAssumption
<1>1. Occupying = {} /\ Asked = {}
  BY DEF Init, Occupying, Asked
<1>2. TypeOK /\ QueueHoldsPending /\ WorkConserving
  BY DEF Init, TypeOK, QueueHoldsPending, WorkConserving, Phases
<1>3. SlotAccounting
  BY <1>1, FS_EmptySet DEF SlotAccounting, Init
<1>4. ArrivalsDistinct
  BY <1>1 DEF ArrivalsDistinct
<1> QED
  BY <1>2, <1>3, <1>4 DEF IndInv

\* A job gives up its slot, and pump() has the rest.
LEMMA PumpPreserves ==
    ASSUME IndInv, NEW j \in Jobs, phase[j] \in {"running", "refused"},
           NEW next \in {"answering", "doomed"},
           Pump(pending, arrival, running - 1, [phase EXCEPT ![j] = next]),
           UNCHANGED <<arrival, cancelled, tooLarge, alive>>,
           answers' \in [Jobs -> Nat], outcome' \in [Jobs -> Outcomes \cup {"none"}]
    PROVE  IndInv'
<1> DEFINE life == [phase EXCEPT ![j] = next]
<1> USE JobQueueAssumption
<1>1. TypeOK /\ SlotAccounting /\ QueueHoldsPending /\ ArrivalsDistinct
  BY DEF IndInv
<1>2. IsFiniteSet(Occupying) /\ j \in Occupying
  <2>1. Occupying \in SUBSET Jobs
    BY DEF Occupying
  <2> QED
    BY <2>1, FS_Subset DEF Occupying
<1>3. Slots(life) = Occupying \ {j} /\ Queued(life) = pending /\ life \in [Jobs -> Phases]
  BY <1>1 DEF TypeOK, Slots, Occupying, Queued, QueueHoldsPending, Phases
<1>4. Books(pending, running - 1, life)
  <2> HIDE DEF life
  <2>1. Cardinality(Occupying \ {j}) = Cardinality(Occupying) - 1
    BY <1>2, FS_RemoveElement
  <2>2. Cardinality(Occupying \ {j}) \in Nat
    <3>1. IsFiniteSet(Occupying \ {j})
      BY <1>2, FS_RemoveElement
    <3> QED
      BY <3>1, FS_CardinalityType
  <2>3. running \in Nat /\ running = Cardinality(Occupying) /\ running <= MaxConcurrentProcesses
    BY <1>1 DEF TypeOK, SlotAccounting
  <2>4. /\ running - 1 = Cardinality(Slots(life))
        /\ running - 1 \in Nat
        /\ running - 1 <= MaxConcurrentProcesses
    BY <1>3, <2>1, <2>2, <2>3
  <2> QED
    BY <1>3, <2>4 DEF Books
<1>5. Distinct(pending, arrival) /\ \A k \in pending : arrival[k] \in Int
  <2>1. pending \subseteq Asked /\ pending \subseteq Jobs
    BY <1>1 DEF QueueHoldsPending, Asked
  <2>2. ASSUME NEW k \in pending, NEW l \in pending, arrival[k] = arrival[l]
        PROVE  k = l
    BY <1>1, <2>1, <2>2 DEF ArrivalsDistinct
  <2> QED
    BY <1>1, <2>1, <2>2 DEF Distinct, TypeOK
<1>6. /\ Books(pending', running', phase')
      /\ pending' # {} => running' >= MaxConcurrentProcesses
      /\ OnlyPendingMove(life, phase')
  <2> HIDE DEF life
  <2>1. Pump(pending, arrival, running - 1, life)
    BY DEF life
  <2> QED
    BY <1>4, <1>5, <2>1, PumpKeepsBooks
<1>7. Asked' = Asked
  BY <1>1, <1>6 DEF Asked, TypeOK, OnlyPendingMove
<1>8. ArrivalsDistinct'
  BY <1>1, <1>7 DEF ArrivalsDistinct
<1>9. TypeOK'
  BY <1>1, <1>6 DEF TypeOK, Books, Queued
<1> QED
  BY <1>6, <1>8, <1>9 DEF Books, IndInv, SlotAccounting, WorkConserving, QueueHoldsPending,
                          Occupying, Slots, Queued

LEMMA FinishPreserves ==
    ASSUME IndInv, NEW j \in Jobs, phase[j] \in {"running", "refused"},
           NEW result \in Outcomes, FinishProcess(j, result)
    PROVE  IndInv'
<1>1. TypeOK
  BY DEF IndInv
<1>2. /\ answers' \in [Jobs -> Nat]
      /\ outcome' \in [Jobs -> Outcomes \cup {"none"}]
  BY <1>1 DEF FinishProcess, TypeOK, Outcomes
<1>3. PICK next \in {"answering", "doomed"} :
        Pump(pending, arrival, running - 1, [phase EXCEPT ![j] = next])
  BY DEF FinishProcess
<1>4. UNCHANGED <<arrival, cancelled, tooLarge, alive>>
  BY DEF FinishProcess
<1> QED
  BY <1>2, <1>3, <1>4, PumpPreserves

LEMMA RunPreserves ==
    ASSUME IndInv, NEW j \in Jobs, Run(j)
    PROVE  IndInv'
<1> DEFINE life == [phase EXCEPT ![j] = "pending"]
           queue == pending \cup {j}
           n == Cardinality(Asked)
           numbered == Asked \cup {j}
<1> USE JobQueueAssumption
<1>1. TypeOK /\ SlotAccounting /\ QueueHoldsPending /\ ArrivalsDistinct
  BY DEF IndInv
<1>2. /\ phase[j] = "fresh"
      /\ arrival' = [arrival EXCEPT ![j] = n + 1]
      /\ Pump(queue, arrival', running, life)
      /\ UNCHANGED <<cancelled, tooLarge, alive, answers, outcome>>
  BY DEF Run
<1>3. IsFiniteSet(Asked) /\ n \in Nat /\ j \notin Asked
  <2>1. Asked \in SUBSET Jobs
    BY DEF Asked
  <2> QED
    BY <1>2, <2>1, FS_Subset, FS_CardinalityType DEF Asked
<1>4. arrival' \in [Jobs -> Nat] /\ arrival'[j] = n + 1
      /\ \A k \in Jobs \ {j} : arrival'[k] = arrival[k]
  BY <1>1, <1>2, <1>3 DEF TypeOK
<1>5. ASSUME NEW k \in numbered, NEW l \in numbered
      PROVE  /\ arrival'[k] \in 1..(n + 1)
             /\ arrival'[k] = arrival'[l] => k = l
  <2>1. \A x \in Asked : arrival'[x] \in 1..n
    BY <1>1, <1>3, <1>4 DEF ArrivalsDistinct, Asked
  <2>2. \A x, y \in Asked : arrival'[x] = arrival'[y] => x = y
    BY <1>1, <1>3, <1>4 DEF ArrivalsDistinct, Asked
  <2> HIDE DEF n
  <2> QED
    BY <1>3, <1>4, <2>1, <2>2
<1>6. queue \subseteq numbered /\ \A k \in queue : arrival'[k] \in Int
  BY <1>1, <1>4 DEF QueueHoldsPending, Asked, TypeOK
<1>7. Distinct(queue, arrival')
  <2> HIDE DEF n, queue, numbered
  <2>1. ASSUME NEW k \in queue, NEW l \in queue, arrival'[k] = arrival'[l]
        PROVE  k = l
    <3>1. k \in numbered /\ l \in numbered
      BY <1>6
    <3> QED
      BY <1>5, <2>1, <3>1
  <2> QED
    BY <2>1 DEF Distinct
<1>8. Books(queue, running, life)
  BY <1>1, <1>2 DEF TypeOK, Slots, Occupying, Queued, QueueHoldsPending, Phases, SlotAccounting, Books
<1>9. /\ Books(pending', running', phase')
      /\ pending' # {} => running' >= MaxConcurrentProcesses
      /\ OnlyPendingMove(life, phase')
  <2> HIDE DEF life, queue, n
  <2>1. PICK order : order = arrival'
    OBVIOUS
  <2>2. Pump(queue, order, running, life) /\ Distinct(queue, order) /\ \A k \in queue : order[k] \in Int
    BY <1>2, <1>6, <1>7, <2>1
  <2> QED
    BY <1>8, <2>2, PumpKeepsBooks
<1>10. Asked' = numbered /\ Cardinality(Asked') = n + 1
  <2>1. Asked' = numbered
    BY <1>1, <1>9 DEF Asked, TypeOK, OnlyPendingMove
  <2> QED
    BY <1>3, <2>1, FS_AddElement
<1>11. ArrivalsDistinct'
  <2> HIDE DEF n, numbered
  <2>1. ASSUME NEW k \in Asked', NEW l \in Asked'
        PROVE  /\ arrival'[k] \in 1..Cardinality(Asked')
               /\ arrival'[k] = arrival'[l] => k = l
    <3>1. k \in numbered /\ l \in numbered
      BY <1>10
    <3>2. arrival'[k] \in 1..(n + 1) /\ (arrival'[k] = arrival'[l] => k = l)
      BY <1>5, <3>1
    <3> QED
      BY <1>10, <3>2
  <2> QED
    BY <2>1 DEF ArrivalsDistinct
<1>12. TypeOK'
  BY <1>1, <1>2, <1>4, <1>9 DEF TypeOK, Books, Queued
<1> QED
  BY <1>9, <1>11, <1>12 DEF Books, IndInv, SlotAccounting, WorkConserving, QueueHoldsPending,
                           Occupying, Slots, Queued

\* The steps that leave the slots and the numbering alone, and at most drop a pending job.
LEMMA QuietPreserves ==
    ASSUME IndInv, NEW j \in Jobs, NEW next \in Phases,
           \/ phase[j] = "pending" /\ next = "doomed" /\ pending' = pending \ {j}
           \/ phase[j] \in {"answering", "doomed"} /\ next \in {"doomed", "deleted"} /\ pending' = pending,
           phase' = [phase EXCEPT ![j] = next],
           UNCHANGED <<running, arrival, tooLarge, alive, answers, outcome>>,
           cancelled' \in SUBSET Jobs
    PROVE  IndInv'
<1>1. TypeOK /\ SlotAccounting /\ WorkConserving /\ QueueHoldsPending /\ ArrivalsDistinct
  BY DEF IndInv
<1>2. Occupying' = Occupying /\ Asked' = Asked
  BY <1>1 DEF TypeOK, Occupying, Asked
<1>3. TypeOK' /\ QueueHoldsPending'
  BY <1>1 DEF TypeOK, QueueHoldsPending
<1>4. SlotAccounting' /\ ArrivalsDistinct'
  BY <1>1, <1>2 DEF SlotAccounting, ArrivalsDistinct
<1>5. WorkConserving'
  BY <1>1 DEF WorkConserving
<1> QED
  BY <1>3, <1>4, <1>5 DEF IndInv

\* The steps that touch neither the queue nor a phase.
LEMMA FlagsPreserve ==
    ASSUME IndInv, UNCHANGED <<pending, running, arrival, phase, answers, outcome>>,
           cancelled' \in SUBSET Jobs, tooLarge' \in SUBSET Jobs, alive' \in SUBSET Contexts
    PROVE  IndInv'
BY DEF IndInv, TypeOK, SlotAccounting, WorkConserving, QueueHoldsPending, ArrivalsDistinct,
       Occupying, Asked

LEMMA NextPreserves == IndInv /\ [Next]_vars => IndInv'
<1> SUFFICES ASSUME IndInv, [Next]_vars PROVE IndInv'
  OBVIOUS
<1>1. TypeOK
  BY DEF IndInv
<1>2. ASSUME NEW j \in Jobs, Run(j) PROVE IndInv'
  BY <1>2, RunPreserves
<1>3. ASSUME NEW j \in Jobs, Cancel(j) PROVE IndInv'
  <2>1. CASE phase[j] = "pending"
    <3>1. /\ pending' = pending \ {j} /\ phase' = [phase EXCEPT ![j] = "doomed"]
          /\ UNCHANGED <<running, arrival, tooLarge, alive, answers, outcome>>
          /\ cancelled' \in SUBSET Jobs
      BY <1>1, <1>3, <2>1 DEF Cancel, TypeOK
    <3>2. "doomed" \in Phases
      BY DEF Phases
    <3> QED
      BY <2>1, <3>1, <3>2, QuietPreserves
  <2>2. CASE phase[j] # "pending"
    BY <1>1, <1>3, <2>2, FlagsPreserve DEF Cancel, TypeOK
  <2> QED
    BY <2>1, <2>2
<1>4. ASSUME NEW j \in Jobs, OutputPastLimit(j) PROVE IndInv'
  BY <1>1, <1>4, FlagsPreserve DEF OutputPastLimit, TypeOK
<1>5. ASSUME NEW j \in Jobs, ProcessFinished(j) PROVE IndInv'
  <2>1. PICK result \in {"Exited", "Crashed"} : FinishProcess(j, result)
    BY <1>5 DEF ProcessFinished
  <2>2. phase[j] \in {"running", "refused"} /\ result \in Outcomes
    BY <1>5, <2>1 DEF ProcessFinished, Outcomes
  <2> QED
    BY <2>1, <2>2, FinishPreserves
<1>6. ASSUME NEW j \in Jobs, LaunchRefused(j) PROVE IndInv'
  <2>1. /\ FinishProcess(j, "LaunchFailed")
        /\ phase[j] \in {"running", "refused"} /\ "LaunchFailed" \in Outcomes
    BY <1>6 DEF LaunchRefused, Outcomes
  <2> QED
    BY <2>1, FinishPreserves
<1>7. ASSUME NEW j \in Jobs, CallbackReturned(j) PROVE IndInv'
  BY <1>1, <1>7, QuietPreserves DEF CallbackReturned, TypeOK, Phases
<1>8. ASSUME NEW j \in Jobs, DeleteDeferred(j) PROVE IndInv'
  BY <1>1, <1>8, QuietPreserves DEF DeleteDeferred, TypeOK, Phases
<1>9. ASSUME NEW c \in Contexts, DestroyContext(c) PROVE IndInv'
  BY <1>1, <1>9, FlagsPreserve DEF DestroyContext, TypeOK
<1>10. CASE UNCHANGED vars
  BY <1>1, <1>10, FlagsPreserve DEF vars, TypeOK
<1> QED
  BY <1>2, <1>3, <1>4, <1>5, <1>6, <1>7, <1>8, <1>9, <1>10 DEF Next

(***************************************************************************)
(* What the queue's variables are, in every state.                         *)
(***************************************************************************)
THEOREM TypeCorrect == Spec => []TypeOK
<1>1. IndInv => TypeOK
  BY DEF IndInv
<1> QED
  BY <1>1, InitEstablishes, NextPreserves, PTL DEF Spec

(***************************************************************************)
(* JobQueue::running counts the processes, and never more than the cap.    *)
(***************************************************************************)
THEOREM SlotsAccounted == Spec => []SlotAccounting
<1>1. IndInv => SlotAccounting
  BY DEF IndInv
<1> QED
  BY <1>1, InitEstablishes, NextPreserves, PTL DEF Spec

(***************************************************************************)
(* A job waits only while every slot is taken.                             *)
(***************************************************************************)
THEOREM WorkConserved == Spec => []WorkConserving
<1>1. IndInv => WorkConserving
  BY DEF IndInv
<1> QED
  BY <1>1, InitEstablishes, NextPreserves, PTL DEF Spec

-------------------------------------------------------------------------------

\* pump() starts no job before one that arrived earlier and has a listener.
LEMMA PumpInOrder ==
    ASSUME NEW queue \in SUBSET Jobs, NEW order, \A k \in queue : order[k] \in Int,
           NEW taken, taken \in Int, NEW life \in [Jobs -> Phases],
           Pump(queue, order, taken, life),
           NEW j \in queue, life[j] = "pending", phase'[j] \in {"running", "refused"},
           NEW k \in queue, HasListener(k), order[k] < order[j]
    PROVE  phase'[k] # "pending"
<1> DEFINE room == MaxConcurrentProcesses - taken
           wanted == Listened(queue)
<1> USE JobQueueAssumption
<1>1. IsFiniteSet(wanted) /\ k \in wanted /\ wanted \subseteq queue /\ room \in Int
  <2>1. wanted \subseteq queue /\ k \in wanted
    BY DEF Listened
  <2> QED
    BY <2>1, FS_Subset
<1>2. j \in Started(queue, order, room)
  BY DEF Pump
<1>3. Cardinality(Before(wanted, order, j)) < room /\ j \in wanted
  BY <1>2 DEF Started, FirstServed
<1>4. Before(wanted, order, k) \subseteq Before(wanted, order, j)
  BY <1>1 DEF Before
<1>5. Cardinality(Before(wanted, order, k)) <= Cardinality(Before(wanted, order, j))
  BY <1>1, <1>3, <1>4, FiniteParts, FS_Subset
<1>6. /\ Cardinality(Before(wanted, order, k)) \in Nat
      /\ Cardinality(Before(wanted, order, j)) \in Nat
  BY <1>1, <1>3, FiniteParts
<1>7. k \in Started(queue, order, room)
  BY <1>1, <1>3, <1>5, <1>6 DEF Started, FirstServed
<1> QED
  BY <1>7 DEF Pump

\* A step of NoOvertaking.
InTurn ==
    \A j, k \in Jobs :
        /\ phase[j] = "pending" /\ phase'[j] \in {"running", "refused"}
        /\ phase[k] = "pending" /\ arrival[k] < arrival[j] /\ HasListener(k)
        => phase'[k] # "pending"

\* Whatever handler pumps the queue.
LEMMA StepInOrder == IndInv /\ [Next]_vars => [InTurn]_vars
<1> DEFINE Overtakes(j, k) ==
             /\ phase[j] = "pending" /\ phase'[j] \in {"running", "refused"}
             /\ phase[k] = "pending" /\ arrival[k] < arrival[j] /\ HasListener(k)
             /\ phase'[k] = "pending"
<1>1. ASSUME IndInv, Next, NEW j \in Jobs, NEW k \in Jobs, Overtakes(j, k)
      PROVE  FALSE
  <2>1. TypeOK /\ QueueHoldsPending
    BY <1>1 DEF IndInv
  <2>2. j \in pending /\ k \in pending /\ pending \subseteq Jobs
    BY <1>1, <2>1 DEF QueueHoldsPending
  <2>3. ASSUME NEW queue \in SUBSET Jobs, pending \subseteq queue,
               NEW order, \A x \in queue : order[x] \in Int, order[k] < order[j],
               NEW taken \in Int, NEW life \in [Jobs -> Phases], life[j] = "pending",
               Pump(queue, order, taken, life)
        PROVE  FALSE
    BY <1>1, <2>2, <2>3, PumpInOrder
  <2>4. ASSUME NEW i \in Jobs, Run(i) PROVE FALSE
    <3>1. /\ arrival' \in [Jobs -> Nat]
          /\ arrival'[j] = arrival[j] /\ arrival'[k] = arrival[k]
      <4>1. Cardinality(Asked) \in Nat
        BY JobQueueAssumption, FS_Subset, FS_CardinalityType DEF Asked
      <4> QED
        BY <1>1, <2>1, <2>4, <4>1 DEF Run, TypeOK
    <3>2. PICK order : order = arrival'
      OBVIOUS
    <3>3. PICK life : life = [phase EXCEPT ![i] = "pending"]
      OBVIOUS
    <3>4. Pump(pending \cup {i}, order, running, life)
      BY <2>4, <3>2, <3>3 DEF Run
    <3>5. life \in [Jobs -> Phases] /\ life[j] = "pending"
      BY <1>1, <2>1, <3>3 DEF TypeOK, Phases
    <3>6. order[k] < order[j] /\ \A x \in Jobs : order[x] \in Int
      BY <1>1, <3>1, <3>2
    <3>7. running \in Int /\ pending \cup {i} \in SUBSET Jobs
      BY <2>1 DEF TypeOK
    <3> QED
      BY <2>3, <3>4, <3>5, <3>6, <3>7
  <2>5. ASSUME NEW i \in Jobs, NEW result, FinishProcess(i, result), phase[i] # "pending"
        PROVE  FALSE
    <3>1. PICK next \in {"answering", "doomed"} :
            Pump(pending, arrival, running - 1, [phase EXCEPT ![i] = next])
      BY <2>5 DEF FinishProcess
    <3>2. PICK life : life = [phase EXCEPT ![i] = next]
      OBVIOUS
    <3>3. life \in [Jobs -> Phases] /\ life[j] = "pending"
      BY <1>1, <2>1, <2>5, <3>2 DEF TypeOK, Phases
    <3>4. PICK taken \in Int : taken = running - 1
      BY <2>1 DEF TypeOK
    <3>5. Pump(pending, arrival, taken, life)
      BY <3>1, <3>2, <3>4
    <3>6. arrival[k] < arrival[j] /\ (\A x \in pending : arrival[x] \in Int)
      BY <1>1, <2>1, <2>2 DEF TypeOK
    <3> QED
      BY <2>2, <2>3, <3>3, <3>5, <3>6
  <2>6. ASSUME NEW i \in Jobs, Cancel(i) \/ CallbackReturned(i) \/ DeleteDeferred(i)
        PROVE  FALSE
    BY <1>1, <2>1, <2>6 DEF Cancel, CallbackReturned, DeleteDeferred, TypeOK
  <2>7. ASSUME NEW i \in Jobs, OutputPastLimit(i) PROVE FALSE
    BY <1>1, <2>7 DEF OutputPastLimit
  <2>8. ASSUME NEW c \in Contexts, DestroyContext(c) PROVE FALSE
    BY <1>1, <2>8 DEF DestroyContext
  <2>9. ASSUME NEW i \in Jobs, ProcessFinished(i) \/ LaunchRefused(i) PROVE FALSE
    BY <2>5, <2>9 DEF ProcessFinished, LaunchRefused
  <2> QED
    BY <1>1, <2>4, <2>6, <2>7, <2>8, <2>9 DEF Next
<1> QED
  BY <1>1 DEF InTurn

(***************************************************************************)
(* No job overtakes another: whatever handler pumps the queue.             *)
(***************************************************************************)
THEOREM FirstInFirstOut == Spec => NoOvertaking
BY InitEstablishes, StepInOrder, NextPreserves, PTL DEF Spec, NoOvertaking, InTurn

-------------------------------------------------------------------------------

(***************************************************************************)
(* The history of answers: none was given to a job whose end is still to   *)
(* be reported, so finish() gives each its first.                          *)
(***************************************************************************)
Unreported == {"fresh", "pending", "running", "refused"}

NotYetAnswered == \A j \in Jobs : phase[j] \in Unreported => answers[j] = 0

\* The inductive invariant of the answers.
AnswerInv == IndInv /\ NotYetAnswered /\ OversizeIsNamed

\* pump() makes no job unreported that was not.
LEMMA PumpReportsNothing ==
    ASSUME NEW life, OnlyPendingMove(life, phase'), NEW j \in Jobs, phase'[j] \in Unreported
    PROVE  life[j] \in Unreported
BY DEF OnlyPendingMove, Unreported

\* What FinishProcess() does to the phases, the slots' books being kept.
LEMMA FinishMoves ==
    ASSUME IndInv, NEW j \in Jobs, phase[j] \in {"running", "refused"},
           NEW result \in Outcomes, FinishProcess(j, result)
    PROVE  \E next \in {"answering", "doomed"} :
             OnlyPendingMove([phase EXCEPT ![j] = next], phase')
<1>1. PICK next \in {"answering", "doomed"} :
        Pump(pending, arrival, running - 1, [phase EXCEPT ![j] = next])
  BY DEF FinishProcess
<1>2. PICK life : life = [phase EXCEPT ![j] = next]
  OBVIOUS
<1>3. PICK taken : taken = running - 1
  OBVIOUS
<1>4. pending = Queued(life)
  BY <1>2 DEF IndInv, TypeOK, QueueHoldsPending, Queued
<1>5. Pump(pending, arrival, taken, life)
  BY <1>1, <1>2, <1>3
<1>6. OnlyPendingMove(life, phase')
  BY <1>4, <1>5 DEF Pump, OnlyPendingMove, Queued, Started, Abandoned, FirstServed, Listened
<1> QED
  BY <1>2, <1>6

LEMMA RunMoves ==
    ASSUME IndInv, NEW j \in Jobs, Run(j)
    PROVE  OnlyPendingMove([phase EXCEPT ![j] = "pending"], phase')
<1>1. PICK life : life = [phase EXCEPT ![j] = "pending"]
  OBVIOUS
<1>2. PICK order : order = arrival'
  OBVIOUS
<1>3. PICK queue : queue = pending \cup {j}
  OBVIOUS
<1>4. queue = Queued(life)
  BY <1>1, <1>3 DEF IndInv, TypeOK, QueueHoldsPending, Queued
<1>5. Pump(queue, order, running, life)
  BY <1>1, <1>2, <1>3 DEF Run
<1>6. OnlyPendingMove(life, phase')
  BY <1>4, <1>5 DEF Pump, OnlyPendingMove, Queued, Started, Abandoned, FirstServed, Listened
<1> QED
  BY <1>1, <1>6

LEMMA AnswerInvInductive == AnswerInv /\ [Next]_vars => AnswerInv'
<1> SUFFICES ASSUME AnswerInv, [Next]_vars PROVE AnswerInv'
  OBVIOUS
<1>1. IndInv /\ NotYetAnswered /\ OversizeIsNamed /\ TypeOK
  BY DEF AnswerInv, IndInv
<1>2. IndInv'
  BY <1>1, NextPreserves
<1>3. ASSUME NEW j \in Jobs, Run(j) PROVE NotYetAnswered' /\ OversizeIsNamed'
  <2>1. PICK life : life = [phase EXCEPT ![j] = "pending"]
    OBVIOUS
  <2>2. \A k \in Jobs : phase'[k] \in Unreported => life[k] \in Unreported
    BY <1>1, <1>3, <2>1, RunMoves, PumpReportsNothing
  <2>3. \A k \in Jobs : life[k] \in Unreported => phase[k] \in Unreported
    BY <1>1, <1>3, <2>1 DEF TypeOK, Run, Unreported
  <2>4. UNCHANGED <<tooLarge, answers, outcome>>
    BY <1>3 DEF Run
  <2> QED
    BY <1>1, <2>2, <2>3, <2>4 DEF NotYetAnswered, OversizeIsNamed
<1>4. ASSUME NEW j \in Jobs, phase[j] \in {"running", "refused"},
             NEW result \in Outcomes, FinishProcess(j, result)
      PROVE  NotYetAnswered' /\ OversizeIsNamed'
  <2>1. PICK next \in {"answering", "doomed"} :
          OnlyPendingMove([phase EXCEPT ![j] = next], phase')
    BY <1>1, <1>4, FinishMoves
  <2>2. PICK life : life = [phase EXCEPT ![j] = next]
    OBVIOUS
  <2>3. \A k \in Jobs : phase'[k] \in Unreported => life[k] \in Unreported
    BY <2>1, <2>2, PumpReportsNothing
  <2>4. \A k \in Jobs : life[k] \in Unreported => k # j /\ phase[k] \in Unreported
    BY <1>1, <2>2 DEF TypeOK, Unreported
  <2>5. /\ \A k \in Jobs \ {j} : answers'[k] = answers[k] /\ outcome'[k] = outcome[k]
        /\ j \in tooLarge /\ answers'[j] # answers[j] => outcome'[j] = "OutputTooLarge"
        /\ answers'[j] = answers[j] => outcome'[j] = outcome[j]
        /\ tooLarge' = tooLarge
    BY <1>1, <1>4 DEF FinishProcess, TypeOK
  <2>6. NotYetAnswered'
    BY <1>1, <2>3, <2>4, <2>5 DEF NotYetAnswered
  <2>7. OversizeIsNamed'
    BY <1>1, <2>5 DEF OversizeIsNamed
  <2> QED
    BY <2>6, <2>7
<1>5. ASSUME NEW j \in Jobs, ProcessFinished(j) \/ LaunchRefused(j)
      PROVE  NotYetAnswered' /\ OversizeIsNamed'
  BY <1>4, <1>5 DEF ProcessFinished, LaunchRefused, Outcomes
<1>6. ASSUME NEW j \in Jobs, Cancel(j) \/ CallbackReturned(j) \/ DeleteDeferred(j)
      PROVE  NotYetAnswered' /\ OversizeIsNamed'
  BY <1>1, <1>6 DEF Cancel, CallbackReturned, DeleteDeferred, TypeOK, NotYetAnswered,
                    OversizeIsNamed, Unreported
<1>7. ASSUME NEW j \in Jobs, OutputPastLimit(j) PROVE NotYetAnswered' /\ OversizeIsNamed'
  BY <1>1, <1>7 DEF OutputPastLimit, TypeOK, NotYetAnswered, OversizeIsNamed, Unreported
<1>8. ASSUME NEW c \in Contexts, DestroyContext(c) PROVE NotYetAnswered' /\ OversizeIsNamed'
  BY <1>1, <1>8 DEF DestroyContext, NotYetAnswered, OversizeIsNamed
<1>9. ASSUME UNCHANGED vars PROVE NotYetAnswered' /\ OversizeIsNamed'
  BY <1>1, <1>9 DEF vars, NotYetAnswered, OversizeIsNamed
<1>10. ASSUME Next PROVE NotYetAnswered' /\ OversizeIsNamed'
  BY <1>3, <1>5, <1>6, <1>7, <1>8, <1>10 DEF Next
<1>11. NotYetAnswered' /\ OversizeIsNamed'
  BY <1>9, <1>10
<1> QED
  BY <1>2, <1>11 DEF AnswerInv

LEMMA AnswerInvInit == Init => AnswerInv
BY InitEstablishes DEF AnswerInv, Init, NotYetAnswered, OversizeIsNamed

(***************************************************************************)
(* An answer that was cut off at the limit says so, whatever the kill that *)
(* cut it off made of the process.                                         *)
(***************************************************************************)
THEOREM OversizeNamed == Spec => []OversizeIsNamed
<1>1. AnswerInv => OversizeIsNamed
  BY DEF AnswerInv
<1> QED
  BY <1>1, AnswerInvInit, AnswerInvInductive, PTL DEF Spec

LEMMA StepKeepsContract ==
    ASSUME AnswerInv, [Next]_vars
    PROVE  [Promise!ContractNext]_Promise!contractVars
<1> DEFINE excused == cancelled \cup {j \in Jobs : ~HasListener(j)}
<1>1. IndInv /\ NotYetAnswered /\ TypeOK
  BY DEF AnswerInv, IndInv
<1>2. ASSUME NEW j \in Jobs, Run(j) PROVE Promise!Ask(j)
  <2>1. Asked' = Asked \cup {j} /\ j \notin Asked
    BY <1>1, <1>2, RunMoves, ZenonT(40) DEF TypeOK, Run, Asked, OnlyPendingMove
  <2>2. UNCHANGED <<excused, answers>>
    BY <1>2 DEF Run, HasListener
  <2> QED
    BY <2>1, <2>2 DEF Promise!Ask
<1>3. ASSUME NEW j \in Jobs, phase[j] \in {"running", "refused"},
             NEW result \in Outcomes, FinishProcess(j, result)
      PROVE  Promise!Answer(j) \/ UNCHANGED Promise!contractVars
  <2>1. Asked' = Asked /\ j \in Asked
    <3>1. PICK next \in {"answering", "doomed"} :
            OnlyPendingMove([phase EXCEPT ![j] = next], phase')
      BY <1>1, <1>3, FinishMoves
    <3> QED
      BY <1>1, <1>3, <3>1 DEF TypeOK, Asked, OnlyPendingMove
  <2>2. UNCHANGED excused
    BY <1>3 DEF FinishProcess, HasListener
  <2>3. CASE j \notin cancelled /\ HasListener(j)
    <3>1. answers[j] = 0
      BY <1>1, <1>3 DEF NotYetAnswered, Unreported
    <3>2. answers' = [answers EXCEPT ![j] = 1]
      BY <1>1, <1>3, <2>3, <3>1 DEF FinishProcess, TypeOK
    <3>3. j \in Asked \ excused
      BY <2>1, <2>3
    <3> QED
      BY <2>1, <2>2, <3>1, <3>2, <3>3 DEF Promise!Answer
  <2>4. CASE ~(j \notin cancelled /\ HasListener(j))
    <3>1. UNCHANGED answers
      BY <1>3, <2>4 DEF FinishProcess
    <3> QED
      BY <2>1, <2>2, <3>1 DEF Promise!contractVars
  <2> QED
    BY <2>3, <2>4
<1>4. ASSUME NEW j \in Jobs, ProcessFinished(j) \/ LaunchRefused(j)
      PROVE  Promise!Answer(j) \/ UNCHANGED Promise!contractVars
  BY <1>3, <1>4 DEF ProcessFinished, LaunchRefused, Outcomes
<1>5. ASSUME NEW j \in Jobs, Cancel(j) PROVE Promise!Excuse({j})
  <2>1. Asked' = Asked
    BY <1>1, <1>5 DEF Cancel, TypeOK, Asked
  <2>2. excused' = excused \cup {j} /\ UNCHANGED answers
    BY <1>5 DEF Cancel, HasListener
  <2> QED
    BY <2>1, <2>2 DEF Promise!Excuse
<1>6. ASSUME NEW c \in Contexts, DestroyContext(c)
      PROVE  \E S \in SUBSET Jobs : Promise!Excuse(S)
  <2>1. {j \in Jobs : ~HasListener(j)}' =
          {j \in Jobs : ~HasListener(j)} \cup {j \in Jobs : ContextOf[j] = c}
    BY <1>1, <1>6, JobQueueAssumption DEF DestroyContext, HasListener, TypeOK
  <2>2. excused' = excused \cup {j \in Jobs : ContextOf[j] = c}
    BY <1>6, <2>1 DEF DestroyContext
  <2>3. Asked' = Asked /\ answers' = answers
    BY <1>6 DEF DestroyContext, Asked
  <2>4. Promise!Excuse({j \in Jobs : ContextOf[j] = c})
    BY <2>2, <2>3 DEF Promise!Excuse
  <2> QED
    BY <2>4
<1>7. ASSUME NEW j \in Jobs, OutputPastLimit(j) \/ CallbackReturned(j) \/ DeleteDeferred(j)
      PROVE  UNCHANGED Promise!contractVars
  <2>1. Asked' = Asked
    BY <1>1, <1>7 DEF OutputPastLimit, CallbackReturned, DeleteDeferred, TypeOK, Asked
  <2>2. excused' = excused /\ answers' = answers
    BY <1>7 DEF OutputPastLimit, CallbackReturned, DeleteDeferred, HasListener
  <2> QED
    BY <2>1, <2>2 DEF Promise!contractVars
<1>8. CASE UNCHANGED vars
  BY <1>8 DEF vars, Promise!contractVars, Asked, HasListener
<1> QED
  BY <1>2, <1>4, <1>5, <1>6, <1>7, <1>8 DEF Next, Promise!ContractNext

LEMMA ContractBegins == Init => Promise!ContractInit
BY JobQueueAssumption DEF Init, Promise!ContractInit, Asked, HasListener

(***************************************************************************)
(* Each handler is a step of the contract of Vcs::Job or none: it never    *)
(* answers twice, nor a cancelled job or one whose context is dead.        *)
(***************************************************************************)
THEOREM KeepsContractSafety == Spec => Promise!ContractSafety
BY ContractBegins, StepKeepsContract, AnswerInvInit, AnswerInvInductive, PTL
   DEF Spec, Promise!ContractSafety

-------------------------------------------------------------------------------
(* The rounds.                                                             *)


\* The queries of a round that `then` need not wait for.
Settled == {"fresh", "doomed", "deleted"}

(***************************************************************************)
(* The inductive invariant of the reference count.  Whoever may launch     *)
(* more holds a reference, and so does each query until it has settled;    *)
(* the count therefore only comes to zero once, and launches end with it.  *)
(***************************************************************************)
HoldersInv ==
    /\ thenRuns \in {0, 1}
    /\ holders \subseteq RoundJobs \cup {Scope}
    /\ thenRuns = 1 <=> holders = {}
    /\ \A j \in RoundJobs \ holders : phase[j] \in Settled
    /\ \A j \in RoundJobs \cap holders : phase[j] \notin {"fresh", "deleted"}

RoundInv == IndInv /\ HoldersInv

-------------------------------------------------------------------------------

\* A step of a round is a step of the transport or none.
LEMMA RoundStepIsAJobStep == [RoundNext]_roundVars => [Next]_vars
BY QueryRoundAssumption
   DEF RoundNext, Next, vars, roundVars, EndOfScope, Launch, RoundCallbackReturned, RoundJobDeleted

\* What a step that moves the phases does to the jobs that have settled, and to the others.
KeepsSettled(life, next, S) ==
    \A j \in S : /\ life[j] \in Settled => next[j] = life[j]
                 /\ next[j] \in {"fresh", "deleted"} => next[j] = life[j]

LEMMA PumpKeepsSettled ==
    ASSUME NEW life, NEW next, OnlyPendingMove(life, next)
    PROVE  KeepsSettled(life, next, Jobs)
BY DEF OnlyPendingMove, KeepsSettled, Settled

\* A step that lets nobody hold or release keeps the count right.
LEMMA HeldKeepsHolders ==
    ASSUME HoldersInv, KeepHolders, KeepsSettled(phase, phase', RoundJobs)
    PROVE  HoldersInv'
BY DEF HoldersInv, KeepHolders, KeepsSettled

\* A holder lets go: the last one runs `then`.
LEMMA ReleaseKeepsHolders ==
    ASSUME HoldersInv, NEW x \in holders, Release(x),
           KeepsSettled(phase, phase', RoundJobs \ {x}),
           x \in RoundJobs => phase'[x] \in Settled
    PROVE  HoldersInv'
<1>1. thenRuns = 0
  BY DEF HoldersInv
<1>2. thenRuns' \in {0, 1} /\ (thenRuns' = 1 <=> holders' = {})
  BY <1>1 DEF Release
<1>3. holders' = holders \ {x}
  BY DEF Release
<1>4. \A j \in RoundJobs \ holders' : phase'[j] \in Settled
  BY <1>3 DEF HoldersInv, KeepsSettled
<1>5. \A j \in RoundJobs \cap holders' : phase'[j] \notin {"fresh", "deleted"}
  BY <1>3 DEF HoldersInv, KeepsSettled
<1> QED
  BY <1>2, <1>3, <1>4, <1>5 DEF HoldersInv

\* Whoever launches holds a reference, so `then` has not run.
LEMMA LaunchKeepsHolders ==
    ASSUME RoundInv, NEW j \in RoundJobs, Launch(j)
    PROVE  HoldersInv'
<1>1. HoldersInv /\ IndInv /\ TypeOK /\ j \in Jobs
  BY QueryRoundAssumption DEF RoundInv, IndInv
<1>2. holders # {} /\ thenRuns = 0
  BY <1>1, QueryRoundAssumption DEF Launch, CanLaunch, HoldersInv, Settled
<1>3. holders' = holders \cup {j} /\ thenRuns' = 0
  BY <1>2 DEF Launch, Hold
<1>4. PICK life : life = [phase EXCEPT ![j] = "pending"]
  OBVIOUS
<1>5. OnlyPendingMove(life, phase')
  BY <1>1, <1>4, RunMoves DEF Launch
<1>6. \A k \in RoundJobs \ {j} : life[k] = phase[k]
  BY <1>1, <1>4, QueryRoundAssumption DEF TypeOK
<1>7. KeepsSettled(phase, phase', RoundJobs \ {j})
  BY <1>5, <1>6, PumpKeepsSettled, QueryRoundAssumption DEF KeepsSettled
<1>8. phase'[j] \notin {"fresh", "deleted"}
  BY <1>1, <1>4, <1>5 DEF OnlyPendingMove, TypeOK
<1>9. \A k \in RoundJobs \ holders' : phase'[k] \in Settled
  BY <1>1, <1>3, <1>7 DEF HoldersInv, KeepsSettled
<1>10. \A k \in RoundJobs \cap holders' : phase'[k] \notin {"fresh", "deleted"}
  BY <1>1, <1>3, <1>7, <1>8 DEF HoldersInv, KeepsSettled
<1> QED
  BY <1>1, <1>3, <1>9, <1>10 DEF HoldersInv

\* A job of somebody else, or the end of a process, settles nothing that had not.
LEMMA OthersKeepSettled ==
    ASSUME IndInv,
           \/ \E j \in Jobs : Cancel(j) \/ OutputPastLimit(j) \/ ProcessFinished(j) \/ LaunchRefused(j)
           \/ \E j \in Jobs \ RoundJobs : Run(j) \/ CallbackReturned(j) \/ DeleteDeferred(j)
           \/ \E c \in Contexts : DestroyContext(c)
    PROVE  KeepsSettled(phase, phase', RoundJobs)
<1> USE QueryRoundAssumption
<1>1. TypeOK
  BY DEF IndInv
<1>2. ASSUME NEW j \in Jobs, Cancel(j) \/ OutputPastLimit(j)
      PROVE  KeepsSettled(phase, phase', RoundJobs)
  BY <1>1, <1>2 DEF Cancel, OutputPastLimit, KeepsSettled, Settled, TypeOK
<1>3. ASSUME NEW j \in Jobs, phase[j] \in {"running", "refused"},
             NEW result \in Outcomes, FinishProcess(j, result)
      PROVE  KeepsSettled(phase, phase', RoundJobs)
  <2>1. PICK next \in {"answering", "doomed"} : OnlyPendingMove([phase EXCEPT ![j] = next], phase')
    BY <1>3, FinishMoves
  <2>2. PICK life : life = [phase EXCEPT ![j] = next]
    OBVIOUS
  <2>3. KeepsSettled(life, phase', Jobs)
    BY <2>1, <2>2, PumpKeepsSettled
  <2>4. \A k \in Jobs : k # j => life[k] = phase[k]
    BY <1>1, <2>2 DEF TypeOK
  <2>5. life[j] \notin {"fresh", "deleted"} /\ phase[j] \notin Settled
    BY <1>1, <1>3, <2>2 DEF TypeOK, Settled
  <2> QED
    BY <2>3, <2>4, <2>5 DEF KeepsSettled
<1>4. ASSUME NEW j \in Jobs, ProcessFinished(j) \/ LaunchRefused(j)
      PROVE  KeepsSettled(phase, phase', RoundJobs)
  BY <1>3, <1>4 DEF ProcessFinished, LaunchRefused, Outcomes
<1>5. ASSUME NEW j \in Jobs \ RoundJobs, Run(j)
      PROVE  KeepsSettled(phase, phase', RoundJobs)
  <2>1. PICK life : life = [phase EXCEPT ![j] = "pending"]
    OBVIOUS
  <2>2. KeepsSettled(life, phase', Jobs)
    BY <1>5, <2>1, RunMoves, PumpKeepsSettled
  <2>3. \A k \in RoundJobs : life[k] = phase[k]
    BY <1>1, <2>1 DEF TypeOK
  <2> QED
    BY <2>2, <2>3 DEF KeepsSettled
<1>6. ASSUME NEW j \in Jobs \ RoundJobs, CallbackReturned(j) \/ DeleteDeferred(j)
      PROVE  KeepsSettled(phase, phase', RoundJobs)
  BY <1>1, <1>6 DEF CallbackReturned, DeleteDeferred, KeepsSettled, TypeOK
<1>7. ASSUME NEW c \in Contexts, DestroyContext(c)
      PROVE  KeepsSettled(phase, phase', RoundJobs)
  BY <1>7 DEF DestroyContext, KeepsSettled
<1> QED
  BY <1>2, <1>4, <1>5, <1>6, <1>7

LEMMA RoundNextPreserves == RoundInv /\ [RoundNext]_roundVars => RoundInv'
<1> SUFFICES ASSUME RoundInv, [RoundNext]_roundVars PROVE RoundInv'
  OBVIOUS
<1> USE QueryRoundAssumption
<1>1. IndInv /\ HoldersInv /\ TypeOK
  BY DEF RoundInv, IndInv
<1>2. IndInv'
  BY <1>1, RoundStepIsAJobStep, NextPreserves
<1>3. ASSUME EndOfScope PROVE HoldersInv'
  <2>1. KeepsSettled(phase, phase', RoundJobs)
    BY <1>3 DEF EndOfScope, vars, KeepsSettled
  <2> QED
    BY <1>1, <1>3, <2>1, ReleaseKeepsHolders DEF EndOfScope, KeepsSettled
<1>4. ASSUME NEW j \in RoundJobs, Launch(j) PROVE HoldersInv'
  BY <1>4, LaunchKeepsHolders
<1>5. ASSUME NEW j \in RoundJobs, RoundCallbackReturned(j) PROVE HoldersInv'
  <2>1. phase[j] = "answering" /\ phase' = [phase EXCEPT ![j] = "doomed"] /\ j \in Jobs
    BY <1>5 DEF RoundCallbackReturned, CallbackReturned
  <2>2. j \in holders
    BY <1>1, <2>1 DEF HoldersInv, Settled
  <2>3. KeepsSettled(phase, phase', RoundJobs) /\ phase'[j] \in Settled
    BY <1>1, <2>1 DEF KeepsSettled, Settled, TypeOK
  <2>4. CASE j \in Capturing
    BY <1>1, <1>5, <2>3, <2>4, HeldKeepsHolders DEF RoundCallbackReturned
  <2>5. CASE j \notin Capturing
    BY <1>1, <1>5, <2>2, <2>3, <2>5, ReleaseKeepsHolders DEF RoundCallbackReturned, KeepsSettled
  <2> QED
    BY <2>4, <2>5
<1>6. ASSUME NEW j \in RoundJobs, RoundJobDeleted(j) PROVE HoldersInv'
  <2>1. phase[j] = "doomed" /\ phase' = [phase EXCEPT ![j] = "deleted"] /\ j \in Jobs
    BY <1>6 DEF RoundJobDeleted, DeleteDeferred
  <2>2. KeepsSettled(phase, phase', RoundJobs \ {j}) /\ phase'[j] \in Settled
    BY <1>1, <2>1 DEF KeepsSettled, Settled, TypeOK
  <2>3. CASE j \in holders
    BY <1>1, <1>6, <2>2, <2>3, ReleaseKeepsHolders DEF RoundJobDeleted
  <2>4. CASE j \notin holders
    BY <1>1, <1>6, <2>2, <2>4 DEF RoundJobDeleted, KeepHolders, HoldersInv, KeepsSettled
  <2> QED
    BY <2>3, <2>4
<1>7. ASSUME KeepHolders,
             \/ \E j \in Jobs : Cancel(j) \/ OutputPastLimit(j) \/ ProcessFinished(j) \/ LaunchRefused(j)
             \/ \E j \in Jobs \ RoundJobs : Run(j) \/ CallbackReturned(j) \/ DeleteDeferred(j)
             \/ \E c \in Contexts : DestroyContext(c)
      PROVE  HoldersInv'
  BY <1>1, <1>7, OthersKeepSettled, HeldKeepsHolders
<1>8. ASSUME UNCHANGED roundVars PROVE HoldersInv'
  BY <1>1, <1>8 DEF roundVars, vars, HoldersInv
<1>9. ASSUME RoundNext PROVE HoldersInv'
  BY <1>3, <1>4, <1>5, <1>6, <1>7, <1>9 DEF RoundNext
<1> QED
  BY <1>2, <1>8, <1>9 DEF RoundInv

LEMMA RoundInitEstablishes == RoundInit => RoundInv
BY InitEstablishes, QueryRoundAssumption DEF RoundInit, RoundInv, HoldersInv, Init, Settled

-------------------------------------------------------------------------------

(***************************************************************************)
(* `then` runs at most once, after every query of the round, those launched *)
(* from another's answer included: ~End() of queryround.h.                 *)
(***************************************************************************)
THEOREM ThenIsLast == RoundSpec => []ThenRunsLast
<1>1. RoundInv => ThenRunsLast
  BY DEF RoundInv, HoldersInv, ThenRunsLast, Settled
<1> QED
  BY <1>1, RoundInitEstablishes, RoundNextPreserves, PTL DEF RoundSpec

(***************************************************************************)
(* The slots stay counted right, and none idles while a job waits, under   *)
(* rounds of queries too.                                                  *)
(***************************************************************************)
THEOREM RoundsUseSlots == RoundSpec => []SlotsAreUsed
<1>1. RoundInv => SlotsAreUsed
  BY DEF RoundInv, IndInv, SlotsAreUsed
<1> QED
  BY <1>1, RoundInitEstablishes, RoundNextPreserves, PTL DEF RoundSpec

(***************************************************************************)
(* No job overtakes another, a query launched from an answer included.     *)
(***************************************************************************)
THEOREM RoundsTakeTurns == RoundSpec => NoOvertaking
<1>1. RoundInv /\ [RoundNext]_roundVars => [InTurn]_vars
  BY RoundStepIsAJobStep, StepInOrder DEF RoundInv
<1> QED
  BY <1>1, RoundInitEstablishes, RoundNextPreserves, PTL DEF RoundSpec, NoOvertaking, InTurn

(***************************************************************************)
(* The contract of Vcs::Job holds under rounds: a query a callback launches *)
(* is answered once at most, and never when cancelled or without listener. *)
(***************************************************************************)
THEOREM RoundsKeepContract == RoundSpec => Promise!ContractSafety
<1>1. RoundInit => AnswerInv /\ Promise!ContractInit
  BY AnswerInvInit, ContractBegins DEF RoundInit
<1>2. AnswerInv /\ [RoundNext]_roundVars => AnswerInv'
  BY RoundStepIsAJobStep, AnswerInvInductive
<1>3. AnswerInv /\ [RoundNext]_roundVars => [Promise!ContractNext]_Promise!contractVars
  BY RoundStepIsAJobStep, StepKeepsContract
<1> QED
  BY <1>1, <1>2, <1>3, PTL DEF RoundSpec, Promise!ContractSafety
===============================================================================
