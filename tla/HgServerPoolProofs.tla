-------------------------- MODULE HgServerPoolProofs --------------------------
(***************************************************************************)
(* Theorems of HgServerPool, for any jobs, servers, repositories, settings *)
(* and dialogs.                                                            *)
(***************************************************************************)
EXTENDS HgServerPool, ArrivalsProofs, SequenceTheorems

(***************************************************************************)
(* The parts of the inductive invariant, over the phases `life`, the       *)
(* servers `srv`, the places `order` and the executable `current` as they  *)
(* stand in the middle of a handler.                                       *)
(***************************************************************************)
Queued(life) == {j \in Jobs : life[j] = "queued"}

SoundServer(s, current) ==
    /\ s \in Server
    /\ s.exe # current => s.retiring
    /\ s.stage \in {"refused", "starting", "dead"} => s.job = NoJob
    /\ s.stage = "refused" => s.exe \in BadExecutables \/ s.root \in GoneRoots

Sound(srv, current) ==
    /\ DOMAIN srv \subseteq ServerIds
    /\ \A i \in DOMAIN srv : SoundServer(srv[i], current)

\* The jobs in flight and the servers that work on them.
Carried(srv, life) ==
    /\ \A i \in DOMAIN srv : srv[i].job # NoJob => life[srv[i].job] = "running"
    /\ \A i, k \in DOMAIN srv : srv[i].job = srv[k].job /\ srv[i].job # NoJob => i = k
    /\ \A j \in Jobs : life[j] = "running" => \E i \in DOMAIN srv : srv[i].job = j

InLine(life, order) ==
    /\ \A j \in Queued(life) : order[j] \in 1..Cardinality(Queued(life))
    /\ Distinct(Queued(life), order)

\* Nobody waits in vain for an event that dispatches.
Attended(life, srv) ==
    (\E j \in Queued(life) : HasListener(j)) =>
        DOMAIN srv # {} /\ \A i \in DOMAIN srv : ~IsIdle(srv[i])

\* What dispatch() makes of the phases.
OnlyQueuedMove(life, next) ==
    \A j \in Jobs : \/ next[j] = life[j]
                    \/ life[j] = "queued" /\ next[j] \in {"running", "done"}

\* What dispatch() may be called on.
Dispatchable(life, srv, order, exes) ==
    /\ life \in [Jobs -> Phases]
    /\ Sound(srv, setting) /\ setting \in Executables
    /\ Carried(srv, life)
    /\ \A j \in Queued(life) : order[j] \in Int /\ exes[j] = setting
    /\ Distinct(Queued(life), order)
    /\ \A j \in Jobs : life[j] = "stranded" => order[j] \in 0..Cardinality(Jobs)

-------------------------------------------------------------------------------

LEMMA QueuedFinite ==
    ASSUME NEW life
    PROVE  /\ IsFiniteSet(Queued(life)) /\ Cardinality(Queued(life)) \in Nat
           /\ Cardinality(Queued(life)) <= Cardinality(Jobs) /\ Cardinality(Jobs) \in Nat
<1>1. Queued(life) \in SUBSET Jobs
  BY DEF Queued
<1> QED
  BY <1>1, PoolAssumption, FS_Subset, FS_CardinalityType

\* Closing the ranks leaves everyone a place of his own.
LEMMA PlacesRank ==
    ASSUME NEW life, NEW order,
           \A j \in Queued(life) : order[j] \in Int,
           Distinct(Queued(life), order),
           \A j \in Jobs : life[j] = "stranded" => order[j] \in 0..Cardinality(Jobs)
    PROVE  Places(life, order) \in [Jobs -> 0..Cardinality(Jobs)] /\ InLine(life, Places(life, order))
<1> DEFINE Q == Queued(life)
           Rank(j) == Cardinality(Before(Q, order, j))
           P == Places(life, order)
<1>0. IsFiniteSet(Q) /\ Cardinality(Q) \in Nat /\ Cardinality(Q) <= Cardinality(Jobs) /\ Cardinality(Jobs) \in Nat
  BY QueuedFinite
<1>1. \A j \in Jobs : P[j] = IF j \in Q THEN Rank(j) + 1 ELSE IF life[j] = "stranded" THEN order[j] ELSE 0
  BY DEF Places, Queued
<1>2. DOMAIN P = Jobs /\ P = [j \in Jobs |-> P[j]]
  BY DEF Places
<1>3. ASSUME NEW j \in Q
      PROVE  /\ Rank(j) \in Nat /\ Rank(j) < Cardinality(Q)
             /\ IsFiniteSet(Before(Q, order, j))
  <2>1. Before(Q, order, j) \subseteq Q \ {j}
    BY DEF Before
  <2>2. IsFiniteSet(Q \ {j}) /\ Cardinality(Q \ {j}) = Cardinality(Q) - 1
    BY <1>0, FS_RemoveElement
  <2>3. IsFiniteSet(Before(Q, order, j)) /\ Rank(j) <= Cardinality(Q \ {j})
    BY <2>1, <2>2, FS_Subset
  <2>4. Rank(j) \in Nat
    BY <2>3, FS_CardinalityType
  <2> QED
    BY <1>0, <2>2, <2>3, <2>4
<1>4. ASSUME NEW j \in Q, NEW k \in Q, order[j] < order[k]
      PROVE  Rank(j) < Rank(k)
  <2>1. Before(Q, order, j) \subseteq Before(Q, order, k)
        /\ j \in Before(Q, order, k) /\ j \notin Before(Q, order, j)
    <3>1. \A m \in Q : order[m] \in Int
      OBVIOUS
    <3> QED
      BY <1>4, <3>1 DEF Before
  <2>2. Rank(j) <= Rank(k) /\ (Rank(k) = Rank(j) => Before(Q, order, k) = Before(Q, order, j))
    BY <1>3, <2>1, FS_Subset
  <2> QED
    BY <1>3, <2>1, <2>2
<1>5. \A j, k \in Q : Rank(j) = Rank(k) => j = k
  <2> SUFFICES ASSUME NEW j \in Q, NEW k \in Q, Rank(j) = Rank(k), j # k PROVE FALSE
    OBVIOUS
  <2>1. order[j] \in Int /\ order[k] \in Int /\ order[j] # order[k]
    BY DEF Distinct
  <2>2. order[j] < order[k] \/ order[k] < order[j]
    BY <2>1
  <2> QED
    BY <1>3, <1>4, <2>2
<1> HIDE DEF Rank, P
<1>6. \A j \in Q : P[j] \in 1..Cardinality(Q)
  <2> SUFFICES ASSUME NEW j \in Q PROVE P[j] \in 1..Cardinality(Q)
    OBVIOUS
  <2>1. P[j] = Rank(j) + 1
    BY <1>1 DEF Queued
  <2> QED
    BY <1>0, <1>3, <2>1
<1>7. Distinct(Q, P)
  <2> SUFFICES ASSUME NEW j \in Q, NEW k \in Q, P[j] = P[k] PROVE j = k
    BY DEF Distinct
  <2>1. P[j] = Rank(j) + 1 /\ P[k] = Rank(k) + 1
    BY <1>1 DEF Queued
  <2>2. Rank(j) \in Nat /\ Rank(k) \in Nat
    BY <1>3
  <2>3. Rank(j) + 1 = Rank(k) + 1
    BY <2>1
  <2>4. Rank(j) = Rank(k)
    BY <2>2, <2>3
  <2> QED
    BY <1>5, <2>4
<1>8. \A j \in Jobs : P[j] \in 0..Cardinality(Jobs)
  <2> SUFFICES ASSUME NEW j \in Jobs PROVE P[j] \in 0..Cardinality(Jobs)
    OBVIOUS
  <2>1. CASE j \in Q
    BY <1>0, <1>6, <2>1
  <2>2. CASE j \notin Q
    BY <1>0, <1>1, <2>2
  <2> QED
    BY <2>1, <2>2
<1>9. P \in [Jobs -> 0..Cardinality(Jobs)]
  BY <1>2, <1>8
<1> QED
  BY <1>6, <1>7, <1>9 DEF InLine, P

\* No idle server is given two jobs.
LEMMA AssignedOnce ==
    ASSUME NEW served, NEW idle, NEW srv, NEW order, NEW a \in Assignments(served, idle, srv, order),
           \A j \in served : order[j] \in Int, Distinct(served, order)
    PROVE  a \in [served -> idle] /\ \A j, k \in served : a[j] = a[k] => j = k
<1>1. a \in [served -> idle]
  BY DEF Assignments
<1>2. \A j \in served : a[j] \notin {a[k] : k \in Before(served, order, j)}
  BY DEF Assignments
<1>3. ASSUME NEW j \in served, NEW k \in served, order[k] < order[j]
      PROVE  a[j] # a[k]
  <2>1. k \in Before(served, order, j)
    BY <1>3 DEF Before
  <2> QED
    BY <1>2, <2>1
<1>4. \A j, k \in served : j # k => order[j] < order[k] \/ order[k] < order[j]
  BY DEF Distinct
<1> QED
  BY <1>1, <1>3, <1>4

\* A server just spawned for the executable in use is in order.
LEMMA SpawnedSound ==
    ASSUME NEW root \in Roots, NEW exe \in Executables
    PROVE  /\ SoundServer(NewServer(root, exe), exe)
           /\ NewServer(root, exe).job = NoJob /\ ~IsIdle(NewServer(root, exe))
BY DEF SoundServer, NewServer, Server, Stages, Deadlines, IsIdle

LEMMA ExecuteSound ==
    ASSUME NEW s, NEW current, SoundServer(s, current), IsIdle(s), NEW j \in Jobs
    PROVE  /\ SoundServer(Execute(s, j), current)
           /\ Execute(s, j).job = j /\ ~IsIdle(Execute(s, j))
<1>1. s \in Server
  BY DEF SoundServer
<1>2. Execute(s, j) \in Server /\ Execute(s, j).job = j
      /\ Execute(s, j).exe = s.exe /\ Execute(s, j).retiring = s.retiring /\ Execute(s, j).stage = s.stage
  BY <1>1 DEF Execute, Server, Stages, Deadlines
<1>3. j # NoJob
  BY PoolAssumption
<1> QED
  BY <1>2, <1>3 DEF SoundServer, IsIdle

(***************************************************************************)
(* dispatch() keeps the books, whatever it starts, discards and spawns,    *)
(* and leaves nobody waiting for an event that does not come.              *)
(***************************************************************************)
LEMMA Dispatches ==
    ASSUME NEW life, NEW srv, NEW order, NEW exes,
           Dispatchable(life, srv, order, exes), Dispatch(life, srv, order, exes)
    PROVE  /\ phase' \in [Jobs -> Phases] /\ OnlyQueuedMove(life, phase')
           /\ Sound(servers', setting) /\ Carried(servers', phase')
           /\ place' \in [Jobs -> 0..Cardinality(Jobs)] /\ InLine(phase', place')
           /\ Attended(phase', servers')
           /\ \A i \in DOMAIN srv : i \in DOMAIN servers' /\ (~IsIdle(srv[i]) => servers'[i] = srv[i])
<1> DEFINE queued    == Queued(life)
           wanted    == {j \in queued : HasListener(j)}
           idle      == {i \in DOMAIN srv : IsIdle(srv[i])}
           served    == FirstServed(wanted, order, Cardinality(idle))
           abandoned == {j \in queued \ wanted : Cardinality(Before(wanted, order, j)) <= Cardinality(idle)}
           left      == queued \ (served \cup abandoned)
           ids       == [i \in ServerIds |-> i]
           new       == FirstServed(ServerIds \ DOMAIN srv, ids, Cardinality(left))
           front     == CHOOSE j \in left : Before(left, order, j) = {}
           Carrier(a, i) == CHOOSE j \in served : a[j] = i
<1>1. PICK a \in Assignments(served, idle, srv, order) :
          /\ servers' = [i \in DOMAIN srv \cup new |->
                           IF i \in new THEN NewServer(RootOf[front], exes[front])
                           ELSE IF \E j \in served : a[j] = i THEN Execute(srv[i], Carrier(a, i))
                           ELSE srv[i]]
          /\ phase' = [j \in Jobs |->
                         IF j \in served THEN "running"
                         ELSE IF j \in abandoned THEN "done"
                         ELSE life[j]]
          /\ place' = Places(phase', order)
  BY DEF Dispatch, Queued
<1>2. /\ life \in [Jobs -> Phases] /\ setting \in Executables
      /\ DOMAIN srv \subseteq ServerIds /\ \A i \in DOMAIN srv : SoundServer(srv[i], setting)
      /\ Carried(srv, life)
      /\ \A j \in queued : order[j] \in Int /\ exes[j] = setting
      /\ Distinct(queued, order)
      /\ \A j \in Jobs : life[j] = "stranded" => order[j] \in 0..Cardinality(Jobs)
  BY DEF Dispatchable, Sound
<1>3. queued \subseteq Jobs /\ wanted \subseteq queued /\ served \subseteq wanted /\ abandoned \subseteq queued
      /\ served \cap abandoned = {} /\ left \subseteq queued
  BY DEF Queued, FirstServed
<1>4. /\ IsFiniteSet(wanted) /\ IsFiniteSet(served) /\ IsFiniteSet(idle) /\ IsFiniteSet(left)
      /\ Cardinality(idle) \in Nat /\ Cardinality(served) \in Nat
  <2>1. IsFiniteSet(Jobs) /\ IsFiniteSet(ServerIds)
    BY PoolAssumption, FS_Interval DEF ServerIds
  <2>2. idle \subseteq ServerIds
    BY <1>2
  <2>3. wanted \in SUBSET Jobs /\ served \in SUBSET Jobs /\ left \in SUBSET Jobs
    BY <1>3
  <2> HIDE DEF idle, wanted, served, left
  <2> QED
    BY <2>1, <2>2, <2>3, FS_Subset, FS_CardinalityType
<1>5. a \in [served -> idle] /\ \A j, k \in served : a[j] = a[k] => j = k
  <2>1. \A j \in served : order[j] \in Int
    BY <1>2, <1>3
  <2>2. Distinct(served, order)
    BY <1>2, <1>3 DEF Distinct
  <2> HIDE DEF served, idle
  <2> QED
    BY <2>1, <2>2, AssignedOnce
<1>6. new \cap DOMAIN srv = {} /\ new \subseteq ServerIds
  BY DEF FirstServed
<1> HIDE DEF queued, wanted, idle, served, abandoned, left, ids, new, front
<1>7. \A j \in served : Carrier(a, a[j]) = j
  BY <1>5
<1>8. \A j \in served : a[j] \in DOMAIN srv /\ IsIdle(srv[a[j]]) /\ servers'[a[j]] = Execute(srv[a[j]], j)
  <2>1. \A j \in served : a[j] \in DOMAIN srv /\ IsIdle(srv[a[j]])
    BY <1>5 DEF idle
  <2> QED
    BY <1>1, <1>6, <1>7, <2>1
<1>9. \A i \in DOMAIN srv : (\A j \in served : a[j] # i) => servers'[i] = srv[i]
  BY <1>1, <1>6
<1>10. \A i \in new : servers'[i] = NewServer(RootOf[front], exes[front])
  BY <1>1
<1>11. DOMAIN servers' = DOMAIN srv \cup new
  BY <1>1
<1>12. ASSUME NEW i \in new
       PROVE  /\ SoundServer(servers'[i], setting)
              /\ servers'[i].job = NoJob /\ ~IsIdle(servers'[i])
  <2>1. left # {}
    <3>1. CASE left = {}
      <4>1. Cardinality(left) = 0
        BY <3>1, FS_EmptySet
      <4>2. IsFiniteSet(ServerIds \ DOMAIN srv)
        <5>1. IsFiniteSet(ServerIds)
          BY FS_Interval, PoolAssumption DEF ServerIds
        <5> QED
          BY <5>1, FS_Difference
      <4>3. i \in ServerIds \ DOMAIN srv /\ Cardinality(Before(ServerIds \ DOMAIN srv, ids, i)) < 0
        BY <4>1 DEF new, FirstServed
      <4>4. Cardinality(Before(ServerIds \ DOMAIN srv, ids, i)) \in Nat
        BY <4>2, <4>3, FiniteParts
      <4> QED
        BY <4>3, <4>4
    <3> QED
      BY <3>1
  <2>2. \A j \in left : order[j] \in Int
    BY <1>2, <1>3
  <2>3. PICK m \in left : \A k \in left : order[m] <= order[k]
    BY <1>4, <2>1, <2>2, FirstOf
  <2>4. Before(left, order, m) = {}
    BY <2>2, <2>3 DEF Before
  <2>5. front \in left
    BY <2>4 DEF front
  <2>6. exes[front] = setting /\ RootOf[front] \in Roots
    BY <1>2, <1>3, <2>5, PoolAssumption
  <2> QED
    BY <1>2, <1>10, <2>6, SpawnedSound
<1>13. ASSUME NEW j \in served
       PROVE  /\ SoundServer(servers'[a[j]], setting)
              /\ servers'[a[j]].job = j /\ ~IsIdle(servers'[a[j]])
  <2>1. j \in Jobs /\ SoundServer(srv[a[j]], setting)
    BY <1>2, <1>3, <1>8
  <2> QED
    BY <1>8, <2>1, ExecuteSound
<1>14. Sound(servers', setting)
  <2>1. ASSUME NEW i \in DOMAIN servers'
        PROVE  SoundServer(servers'[i], setting)
    BY <1>2, <1>9, <1>11, <1>12, <1>13
  <2> QED
    BY <1>2, <1>6, <1>11, <2>1 DEF Sound
<1>15. phase' \in [Jobs -> Phases] /\ OnlyQueuedMove(life, phase')
  BY <1>1, <1>2, <1>3 DEF OnlyQueuedMove, Phases, queued, Queued
<1>16. \A i \in DOMAIN srv : i \in DOMAIN servers' /\ (~IsIdle(srv[i]) => servers'[i] = srv[i])
  BY <1>8, <1>9, <1>11
<1>17. Carried(servers', phase')
  <2>1. ASSUME NEW i \in DOMAIN servers', servers'[i].job # NoJob
        PROVE  \/ \E j \in served : i = a[j] /\ servers'[i].job = j
               \/ i \in DOMAIN srv /\ servers'[i] = srv[i] /\ life[srv[i].job] = "running"
    BY <1>2, <1>9, <1>11, <1>12, <1>13, <2>1 DEF Carried
  <2>2. \A j \in served : life[j] = "queued" /\ phase'[j] = "running"
    BY <1>1, <1>3 DEF queued, Queued
  <2>3. \A i \in DOMAIN srv : srv[i].job \in Jobs \cup {NoJob}
    BY <1>2 DEF SoundServer, Server
  <2>4. \A i \in DOMAIN servers' : servers'[i].job # NoJob => phase'[servers'[i].job] = "running"
    BY <1>15, <2>1, <2>2, <2>3 DEF OnlyQueuedMove
  <2>5. ASSUME NEW i \in DOMAIN servers', NEW k \in DOMAIN servers',
               servers'[i].job = servers'[k].job, servers'[i].job # NoJob
        PROVE  i = k
    BY <1>2, <2>1, <2>2, <2>5 DEF Carried
  <2>6. ASSUME NEW j \in Jobs, phase'[j] = "running"
        PROVE  \E i \in DOMAIN servers' : servers'[i].job = j
    <3>1. CASE j \in served
      BY <1>8, <1>13, <1>11, <3>1
    <3>2. CASE j \notin served
      <4>1. life[j] = "running"
        BY <1>1, <2>6, <3>2
      <4>2. PICK i \in DOMAIN srv : srv[i].job = j
        BY <1>2, <4>1 DEF Carried
      <4>3. ~IsIdle(srv[i])
        BY <4>2, PoolAssumption DEF IsIdle
      <4> QED
        BY <1>16, <4>2, <4>3
    <3> QED
      BY <3>1, <3>2
  <2> QED
    BY <2>4, <2>5, <2>6 DEF Carried
<1>18. Queued(phase') = left
  BY <1>1, <1>2, <1>3 DEF Queued, queued, left
<1>19. place' \in [Jobs -> 0..Cardinality(Jobs)] /\ InLine(phase', place')
  <2>1. \A j \in left : order[j] \in Int
    BY <1>2, <1>3
  <2>2. Distinct(left, order)
    BY <1>2, <1>3 DEF Distinct
  <2>3. \A j \in Jobs : phase'[j] = "stranded" => order[j] \in 0..Cardinality(Jobs)
    BY <1>2, <1>15 DEF OnlyQueuedMove
  <2> QED
    BY <1>1, <1>18, <2>1, <2>2, <2>3, PlacesRank
<1>20. Attended(phase', servers')
  <2> SUFFICES ASSUME NEW j \in left, HasListener(j)
               PROVE  DOMAIN servers' # {} /\ \A i \in DOMAIN servers' : ~IsIdle(servers'[i])
    BY <1>18 DEF Attended
  <2>1. j \in wanted /\ j \notin served
    BY DEF left, wanted
  <2>2. Cardinality(served) >= Cardinality(idle)
    <3>1. \A k \in wanted : order[k] \in Int
      BY <1>2, <1>3
    <3> QED
      BY <1>4, <2>1, <3>1, ServedFill DEF served
  <2>3. a \in Injection(served, idle)
    BY <1>5 DEF Injection, IsInjective
  <2>4. a \in Surjection(served, idle)
    BY <1>4, <2>2, <2>3, FS_Injection
  <2>5. \A i \in idle : \E k \in served : a[k] = i
    BY <2>4 DEF Surjection
  <2>6. \A i \in DOMAIN srv : ~IsIdle(servers'[i])
    <3> SUFFICES ASSUME NEW i \in DOMAIN srv PROVE ~IsIdle(servers'[i])
      OBVIOUS
    <3>1. CASE IsIdle(srv[i])
      BY <1>13, <2>5, <3>1 DEF idle
    <3>2. CASE ~IsIdle(srv[i])
      BY <1>16, <3>2
    <3> QED
      BY <3>1, <3>2
  <2>7. \A i \in DOMAIN servers' : ~IsIdle(servers'[i])
    BY <1>11, <1>12, <2>6
  <2>8. ASSUME DOMAIN srv = {}
        PROVE  1 \in new
    <3>1. 1 \in ServerIds /\ ServerIds \ DOMAIN srv = ServerIds
      BY <2>8, PoolAssumption DEF ServerIds
    <3>2. Before(ServerIds, ids, 1) = {}
      BY PoolAssumption DEF Before, ids, ServerIds
    <3>3. Cardinality(left) \in Nat /\ Cardinality(left) # 0
      BY <1>4, FS_CardinalityType, FS_EmptySet
    <3>4. Cardinality(Before(ServerIds, ids, 1)) < Cardinality(left)
      BY <3>2, <3>3, FS_EmptySet
    <3> QED
      BY <3>1, <3>4 DEF new, FirstServed
  <2> QED
    BY <1>11, <2>7, <2>8
<1> QED
  BY <1>14, <1>15, <1>16, <1>17, <1>19, <1>20

-------------------------------------------------------------------------------
(* Handlers suspended in callbacks. *)

\* The job a handler answers, the server it died on and the jobs it has still
\* to fail are its own until it is resumed.
StackSound(stack, life, srv) ==
    /\ stack \in Seq(Frame)
    /\ \A d \in DOMAIN stack :
         /\ life[stack[d].job] = "answering"
         /\ stack[d].kind = "died" =>
              /\ stack[d].server \in DOMAIN srv /\ srv[stack[d].server].stage = "dead"
              /\ stack[d].outcome = "Crashed"
         /\ \A j \in stack[d].rest : life[j] = "stranded"
    /\ \A d, e \in DOMAIN stack : d # e =>
         /\ stack[d].job # stack[e].job
         /\ stack[d].rest \cap stack[e].rest = {}
         /\ stack[d].kind = "died" /\ stack[e].kind = "died" => stack[d].server # stack[e].server

\* The pool between two steps.
Coherent ==
    /\ phase \in [Jobs -> Phases] /\ setting \in Executables
    /\ Sound(servers, setting) /\ Carried(servers, phase)
    /\ place \in [Jobs -> 0..Cardinality(Jobs)] /\ InLine(phase, place)
    /\ \A j \in Queued(phase) : tool[j] = setting
    /\ StackSound(frames, phase, servers)
    /\ frames = <<>> => Attended(phase, servers)

\* What a handler makes of the phases once it has taken up its own job.
Moves(life, next) ==
    \A j \in Jobs : \/ next[j] = life[j]
                    \/ life[j] = "queued" /\ next[j] \in {"running", "done", "stranded", "answering"}
                    \/ life[j] = "stranded" /\ next[j] \in {"answering", "done"}

\* Whom it tells, above the handlers `stack`: at most one of the jobs `these`.
Tells(these, result, stack) ==
    \/ frames' = stack /\ UNCHANGED <<answers, toldUnlaunched>>
    \/ \E j \in these, f \in Frame :
          /\ Wanted(j) /\ phase'[j] = "answering"
          /\ frames' = Append(stack, f) /\ f.rest \subseteq these /\ f.outcome = result
          /\ answers' = [answers EXCEPT ![j] = @ + 1]
          /\ toldUnlaunched' = IF result = "LaunchFailed" THEN toldUnlaunched \cup {j} ELSE toldUnlaunched

\* Phases that the jobs of the stack keep, and servers the dead keep, keep the stack.
LEMMA StackKept ==
    ASSUME NEW stack, NEW life, NEW srv, StackSound(stack, life, srv), NEW next, NEW others,
           \A d \in DOMAIN stack : next[stack[d].job] = life[stack[d].job]
                                  /\ \A j \in stack[d].rest : next[j] = life[j],
           \A d \in DOMAIN stack : stack[d].kind = "died" =>
               stack[d].server \in DOMAIN others /\ others[stack[d].server].stage = "dead"
    PROVE  StackSound(stack, next, others)
<1>1. stack \in Seq(Frame)
  BY DEF StackSound
<1>2. ASSUME NEW d \in DOMAIN stack
      PROVE  /\ next[stack[d].job] = "answering"
             /\ stack[d].kind = "died" =>
                  /\ stack[d].server \in DOMAIN others /\ others[stack[d].server].stage = "dead"
                  /\ stack[d].outcome = "Crashed"
             /\ \A j \in stack[d].rest : next[j] = "stranded"
  <2>1. /\ life[stack[d].job] = "answering"
        /\ stack[d].kind = "died" => stack[d].outcome = "Crashed"
        /\ \A j \in stack[d].rest : life[j] = "stranded"
    BY DEF StackSound
  <2> QED
    BY <2>1
<1>3. \A d, e \in DOMAIN stack : d # e =>
         /\ stack[d].job # stack[e].job
         /\ stack[d].rest \cap stack[e].rest = {}
         /\ stack[d].kind = "died" /\ stack[e].kind = "died" => stack[d].server # stack[e].server
  BY DEF StackSound
<1> QED
  BY <1>1, <1>2, <1>3 DEF StackSound

\* So do phases that all answering and stranded jobs keep.
LEMMA StackStays ==
    ASSUME NEW stack, NEW life, NEW srv, StackSound(stack, life, srv), NEW next, NEW others,
           \A j \in Jobs : life[j] \in {"answering", "stranded"} => next[j] = life[j],
           \A i \in DOMAIN srv : srv[i].stage = "dead" => i \in DOMAIN others /\ others[i].stage = "dead"
    PROVE  StackSound(stack, next, others)
<1>1. stack \in Seq(Frame) /\ \A d \in DOMAIN stack : stack[d] \in Frame
  BY DEF StackSound
<1>2. \A d \in DOMAIN stack : stack[d].job \in Jobs /\ stack[d].rest \subseteq Jobs
  BY <1>1 DEF Frame
<1>3. \A d \in DOMAIN stack : next[stack[d].job] = life[stack[d].job]
                                /\ \A j \in stack[d].rest : next[j] = life[j]
  BY <1>2 DEF StackSound
<1>4. \A d \in DOMAIN stack : stack[d].kind = "died" =>
          stack[d].server \in DOMAIN others /\ others[stack[d].server].stage = "dead"
  BY DEF StackSound
<1> QED
  BY <1>3, <1>4, StackKept

\* A handler enters a callback ...
LEMMA PushSound ==
    ASSUME NEW stack, NEW life, NEW srv, StackSound(stack, life, srv), NEW f \in Frame,
           life[f.job] = "answering",
           f.kind = "died" => /\ f.server \in DOMAIN srv /\ srv[f.server].stage = "dead"
                              /\ f.outcome = "Crashed",
           \A j \in f.rest : life[j] = "stranded",
           \A d \in DOMAIN stack :
               /\ stack[d].job # f.job /\ stack[d].rest \cap f.rest = {}
               /\ f.kind = "died" /\ stack[d].kind = "died" => stack[d].server # f.server
    PROVE  StackSound(Append(stack, f), life, srv) /\ Append(stack, f) # <<>>
<1> DEFINE S == Append(stack, f)
<1>1. stack \in Seq(Frame)
  BY DEF StackSound
<1>2. /\ S \in Seq(Frame) /\ S # <<>>
      /\ DOMAIN stack = 1..Len(stack) /\ DOMAIN S = 1..(Len(stack) + 1) /\ Len(stack) \in Nat
      /\ S[Len(stack) + 1] = f /\ \A d \in 1..Len(stack) : S[d] = stack[d]
  BY <1>1
<1> HIDE DEF S
<1>3. \A d \in DOMAIN S : (d \in DOMAIN stack /\ S[d] = stack[d]) \/ (d = Len(stack) + 1 /\ S[d] = f)
  BY <1>2
<1>4. ASSUME NEW d \in DOMAIN S
      PROVE  /\ life[S[d].job] = "answering"
             /\ S[d].kind = "died" =>
                  /\ S[d].server \in DOMAIN srv /\ srv[S[d].server].stage = "dead"
                  /\ S[d].outcome = "Crashed"
             /\ \A j \in S[d].rest : life[j] = "stranded"
  BY <1>3 DEF StackSound
<1>5. ASSUME NEW d \in DOMAIN S, NEW e \in DOMAIN S, d # e
      PROVE  /\ S[d].job # S[e].job
             /\ S[d].rest \cap S[e].rest = {}
             /\ S[d].kind = "died" /\ S[e].kind = "died" => S[d].server # S[e].server
  BY <1>3, <1>5 DEF StackSound
<1>6. StackSound(S, life, srv)
  BY <1>2, <1>4, <1>5 DEF StackSound
<1> QED
  BY <1>2, <1>6 DEF S

\* ... and is resumed.
LEMMA PopSound ==
    ASSUME NEW stack, NEW life, NEW srv, StackSound(stack, life, srv), stack # <<>>
    PROVE  LET below == SubSeq(stack, 1, Len(stack) - 1)
               f == stack[Len(stack)]
           IN  /\ StackSound(below, life, srv)
               /\ Len(stack) \in DOMAIN stack /\ f \in Frame
               /\ \A d \in DOMAIN below :
                     /\ d \in DOMAIN stack /\ below[d] = stack[d]
                     /\ below[d].job # f.job /\ below[d].rest \cap f.rest = {}
                     /\ f.kind = "died" /\ below[d].kind = "died" => below[d].server # f.server
<1> DEFINE B == SubSeq(stack, 1, Len(stack) - 1)
<1>1. stack \in Seq(Frame)
  BY DEF StackSound
<1>2. DOMAIN stack = 1..Len(stack) /\ Len(stack) \in Nat /\ Len(stack) # 0
  BY <1>1
<1>3. /\ B \in Seq(Frame) /\ DOMAIN B = 1..(Len(stack) - 1)
      /\ \A d \in 1..(Len(stack) - 1) : B[d] = stack[d]
  BY <1>1, <1>2
<1> HIDE DEF B
<1>4. \A d \in DOMAIN B : d \in DOMAIN stack /\ B[d] = stack[d] /\ d # Len(stack)
  BY <1>2, <1>3
<1>5. Len(stack) \in DOMAIN stack /\ stack[Len(stack)] \in Frame
  BY <1>1, <1>2
<1>6. StackSound(B, life, srv)
  <2>1. ASSUME NEW d \in DOMAIN B
        PROVE  /\ life[B[d].job] = "answering"
               /\ B[d].kind = "died" =>
                  /\ B[d].server \in DOMAIN srv /\ srv[B[d].server].stage = "dead"
                  /\ B[d].outcome = "Crashed"
               /\ \A j \in B[d].rest : life[j] = "stranded"
    BY <1>4 DEF StackSound
  <2>2. ASSUME NEW d \in DOMAIN B, NEW e \in DOMAIN B, d # e
        PROVE  /\ B[d].job # B[e].job
               /\ B[d].rest \cap B[e].rest = {}
               /\ B[d].kind = "died" /\ B[e].kind = "died" => B[d].server # B[e].server
    BY <1>4, <2>2 DEF StackSound
  <2> QED
    BY <1>3, <2>1, <2>2 DEF StackSound
<1>7. ASSUME NEW d \in DOMAIN B
      PROVE  /\ B[d].job # stack[Len(stack)].job /\ B[d].rest \cap stack[Len(stack)].rest = {}
             /\ stack[Len(stack)].kind = "died" /\ B[d].kind = "died" =>
                  B[d].server # stack[Len(stack)].server
  BY <1>4, <1>5 DEF StackSound
<1> QED
  BY <1>4, <1>5, <1>6, <1>7 DEF B

\* A server deleted under handlers other than its own death's.
LEMMA ForgetSound ==
    ASSUME NEW stack, NEW life, NEW srv, StackSound(stack, life, srv), NEW i \in ServerIds,
           \A d \in DOMAIN stack : stack[d].kind = "died" => stack[d].server # i
    PROVE  StackSound(Forget(stack, i), life, [k \in DOMAIN srv \ {i} |-> srv[k]])
<1> DEFINE F == Forget(stack, i)
<1>1. stack \in Seq(Frame) /\ \A d \in DOMAIN stack : stack[d] \in Frame
  BY DEF StackSound
<1>2. \A f \in Frame : [f EXCEPT !.server = NoServer] \in Frame
                       /\ [f EXCEPT !.server = NoServer].kind = f.kind
                       /\ [f EXCEPT !.server = NoServer].job = f.job
                       /\ [f EXCEPT !.server = NoServer].rest = f.rest
                       /\ [f EXCEPT !.server = NoServer].outcome = f.outcome
  BY DEF Frame
<1>3. DOMAIN F = DOMAIN stack /\ \A d \in DOMAIN stack :
         F[d] = IF stack[d].server = i THEN [stack[d] EXCEPT !.server = NoServer] ELSE stack[d]
  BY DEF Forget
<1>4. \A d \in DOMAIN stack : /\ F[d] \in Frame /\ F[d].kind = stack[d].kind /\ F[d].job = stack[d].job
                              /\ F[d].rest = stack[d].rest /\ F[d].outcome = stack[d].outcome
                              /\ (F[d].kind = "died" => F[d].server = stack[d].server)
  <2> SUFFICES ASSUME NEW d \in DOMAIN stack
               PROVE  /\ F[d] \in Frame /\ F[d].kind = stack[d].kind /\ F[d].job = stack[d].job
                      /\ F[d].rest = stack[d].rest /\ F[d].outcome = stack[d].outcome
                      /\ (F[d].kind = "died" => F[d].server = stack[d].server)
    OBVIOUS
  <2> HIDE DEF F
  <2>1. CASE stack[d].server = i
    <3>1. stack[d].kind # "died" /\ F[d] = [stack[d] EXCEPT !.server = NoServer]
      BY <1>3, <2>1
    <3> QED
      BY <1>1, <1>2, <3>1
  <2>2. CASE stack[d].server # i
    BY <1>1, <1>3, <2>2
  <2> QED
    BY <2>1, <2>2
<1>5. F \in Seq(Frame)
  <2>1. DOMAIN stack = 1..Len(stack) /\ Len(stack) \in Nat
    BY <1>1
  <2>2. F = [d \in 1..Len(stack) |-> F[d]]
    BY <2>1 DEF Forget
  <2>3. \A d \in 1..Len(stack) : F[d] \in Frame
    BY <1>4, <2>1
  <2> HIDE DEF F
  <2> QED
    BY <2>1, <2>2, <2>3, IsASeq
<1> HIDE DEF F
<1>6. StackSound(F, life, [k \in DOMAIN srv \ {i} |-> srv[k]])
  BY <1>3, <1>4, <1>5 DEF StackSound
<1> QED
  BY <1>6 DEF F

LEMMA DispatchCoherent ==
    ASSUME NEW life, NEW srv, NEW order, NEW exes,
           Dispatchable(life, srv, order, exes), Dispatch(life, srv, order, exes),
           StackSound(frames', life, srv), UNCHANGED <<setting, alive>>, tool' = exes
    PROVE  Coherent' /\ OnlyQueuedMove(life, phase')
<1>1. /\ phase' \in [Jobs -> Phases] /\ OnlyQueuedMove(life, phase')
      /\ Sound(servers', setting) /\ Carried(servers', phase')
      /\ place' \in [Jobs -> 0..Cardinality(Jobs)] /\ InLine(phase', place')
      /\ Attended(phase', servers')
      /\ \A i \in DOMAIN srv : i \in DOMAIN servers' /\ (~IsIdle(srv[i]) => servers'[i] = srv[i])
  BY Dispatches
<1>2. \A i \in DOMAIN srv : srv[i].stage = "dead" => i \in DOMAIN servers' /\ servers'[i].stage = "dead"
  BY <1>1 DEF IsIdle
<1>3. \A j \in Jobs : life[j] \in {"answering", "stranded"} => phase'[j] = life[j]
  BY <1>1 DEF OnlyQueuedMove
<1>4. StackSound(frames', phase', servers')
  BY <1>2, <1>3, StackStays
<1>5. \A j \in Queued(phase') : tool'[j] = setting
  BY <1>1 DEF OnlyQueuedMove, Queued, Dispatchable
<1>6. setting' \in Executables /\ Sound(servers', setting')
  BY <1>1 DEF Dispatchable
<1>7. \A j : HasListener(j)' <=> HasListener(j)
  BY DEF HasListener
<1>8. Attended(phase, servers)'
  BY <1>1, <1>7 DEF Attended, Queued
<1> QED
  BY <1>1, <1>4, <1>5, <1>6, <1>8 DEF Coherent, Sound, SoundServer, Carried, InLine, StackSound, Queued

\* What a handler has seen to before it goes on to the pool: `life`, `srv`, `stack` are the
\* phases, servers and suspended handlers it leaves.
Underway(life, srv, stack) ==
    /\ life \in [Jobs -> Phases] /\ setting \in Executables
    /\ Sound(srv, setting) /\ Carried(srv, life)
    /\ place \in [Jobs -> 0..Cardinality(Jobs)] /\ Distinct(Queued(life), place)
    /\ \A j \in Queued(life) : tool[j] = setting
    /\ StackSound(stack, life, srv)

LEMMA UnderwayDispatchable ==
    ASSUME NEW life, NEW srv, NEW stack, Underway(life, srv, stack)
    PROVE  Dispatchable(life, srv, place, tool)
<1>1. \A j \in Jobs : place[j] \in 0..Cardinality(Jobs) /\ Cardinality(Jobs) \in Nat
  BY QueuedFinite DEF Underway
<1>2. \A j \in Jobs : place[j] \in Int
  BY <1>1
<1> QED
  BY <1>1, <1>2 DEF Underway, Dispatchable, Queued

\* serverDied() goes on with the jobs it has still to fail.
LEMMA FailStrandedCoherent ==
    ASSUME NEW life, NEW srv, NEW stack, Underway(life, srv, stack),
           NEW rest \in SUBSET Jobs, \A j \in rest : life[j] = "stranded",
           \A d \in DOMAIN stack : stack[d].rest \cap rest = {},
           NEW result \in {"Exited", "Crashed", "LaunchFailed"},
           FailStranded(rest, result, life, srv, stack), UNCHANGED <<tool, setting, alive>>
    PROVE  Coherent' /\ Moves(life, phase') /\ Tells(rest, result, stack)
<1> DEFINE owed == {j \in rest : Wanted(j)}
<1>0. /\ life \in [Jobs -> Phases] /\ setting \in Executables
      /\ Sound(srv, setting) /\ Carried(srv, life)
      /\ place \in [Jobs -> 0..Cardinality(Jobs)] /\ Distinct(Queued(life), place)
      /\ \A j \in Queued(life) : tool[j] = setting
      /\ StackSound(stack, life, srv)
      /\ stack \in Seq(Frame)
      /\ \A d \in DOMAIN stack : stack[d] \in Frame
  BY DEF Underway, StackSound
<1>1. \A d \in DOMAIN stack : stack[d].job \in Jobs /\ stack[d].job \notin rest
                              /\ \A j \in stack[d].rest : j \notin rest
  BY <1>0 DEF StackSound, Frame
<1>2. CASE /\ Dispatch([j \in Jobs |-> IF j \in rest THEN "done" ELSE life[j]], srv, place, tool)
           /\ SkipCallback(stack)
  <2> DEFINE failed == [j \in Jobs |-> IF j \in rest THEN "done" ELSE life[j]]
  <2>1. /\ failed \in [Jobs -> Phases] /\ Queued(failed) = Queued(life)
        /\ \A j \in Jobs : failed[j] = IF j \in rest THEN "done" ELSE life[j]
    BY <1>0 DEF Phases, Queued
  <2> HIDE DEF failed
  <2>2. Carried(srv, failed)
    BY <1>0, <2>1 DEF Carried, Sound, SoundServer, Server
  <2>3. StackSound(stack, failed, srv)
    <3>1. \A d \in DOMAIN stack : failed[stack[d].job] = life[stack[d].job]
                                  /\ \A j \in stack[d].rest : failed[j] = life[j]
      BY <1>0, <1>1, <2>1 DEF Frame
    <3>2. \A d \in DOMAIN stack : stack[d].kind = "died" =>
               stack[d].server \in DOMAIN srv /\ srv[stack[d].server].stage = "dead"
      BY <1>0 DEF StackSound
    <3> QED
      BY <1>0, <3>1, <3>2, StackKept
  <2>4. Underway(failed, srv, stack)
    BY <1>0, <2>1, <2>2, <2>3 DEF Underway
  <2>5. Dispatch(failed, srv, place, tool) /\ frames' = stack /\ UNCHANGED <<answers, toldUnlaunched>>
    BY <1>2 DEF failed, SkipCallback
  <2>6. Coherent' /\ OnlyQueuedMove(failed, phase')
    BY <2>3, <2>4, <2>5, UnderwayDispatchable, DispatchCoherent
  <2>7. Moves(life, phase')
    BY <2>1, <2>6 DEF Moves, OnlyQueuedMove
  <2> QED
    BY <2>5, <2>6, <2>7 DEF Tells
<1>3. CASE \E next \in owed :
              /\ Before(owed, place, next) = {}
              /\ LET skipped == Before(rest, place, next)
                 IN  /\ EnterCallback(next, result,
                          [kind |-> "stranded", server |-> NoServer, job |-> next,
                           rest |-> rest \ (skipped \cup {next}), outcome |-> result], stack)
                     /\ phase' = [j \in Jobs |-> IF j = next THEN "answering"
                                                 ELSE IF j \in skipped THEN "done" ELSE life[j]]
              /\ servers' = srv
              /\ place' = Places(phase', place)
  <2>1. PICK next \in owed :
              /\ Before(owed, place, next) = {}
              /\ LET skipped == Before(rest, place, next)
                 IN  /\ EnterCallback(next, result,
                          [kind |-> "stranded", server |-> NoServer, job |-> next,
                           rest |-> rest \ (skipped \cup {next}), outcome |-> result], stack)
                     /\ phase' = [j \in Jobs |-> IF j = next THEN "answering"
                                                 ELSE IF j \in skipped THEN "done" ELSE life[j]]
              /\ servers' = srv
              /\ place' = Places(phase', place)
    BY <1>3
  <2> DEFINE skipped == Before(rest, place, next)
             f == [kind |-> "stranded", server |-> NoServer, job |-> next,
                   rest |-> rest \ (skipped \cup {next}), outcome |-> result]
  <2>2. /\ next \in rest /\ next \in Jobs /\ Wanted(next) /\ life[next] = "stranded"
        /\ skipped \subseteq rest
    BY DEF Before
  <2>3. /\ frames' = Append(stack, f)
        /\ answers' = [answers EXCEPT ![next] = @ + 1]
        /\ toldUnlaunched' = IF result = "LaunchFailed" THEN toldUnlaunched \cup {next} ELSE toldUnlaunched
        /\ phase' = [j \in Jobs |-> IF j = next THEN "answering"
                                    ELSE IF j \in skipped THEN "done" ELSE life[j]]
        /\ servers' = srv
        /\ place' = Places(phase', place)
    BY <2>1 DEF EnterCallback
  <2>4. /\ f \in Frame /\ f.kind = "stranded" /\ f.job = next /\ f.outcome = result
        /\ f.rest \subseteq rest \ (skipped \cup {next})
    BY <2>2 DEF Frame
  <2> HIDE DEF skipped, f
  <2>5. /\ phase' \in [Jobs -> Phases] /\ Queued(phase') = Queued(life)
        /\ phase'[next] = "answering"
        /\ \A j \in Jobs : j \notin rest => phase'[j] = life[j]
        /\ \A j \in f.rest : phase'[j] = "stranded"
    BY <1>0, <2>2, <2>3, <2>4 DEF Phases, Queued
  <2>6. Carried(srv, phase')
    BY <1>0, <2>2, <2>3 DEF Carried, Sound, SoundServer, Server
  <2>7. StackSound(stack, phase', srv)
    <3>1. \A d \in DOMAIN stack : phase'[stack[d].job] = life[stack[d].job]
                                  /\ \A j \in stack[d].rest : phase'[j] = life[j]
      BY <1>0, <1>1, <2>5 DEF Frame
    <3>2. \A d \in DOMAIN stack : stack[d].kind = "died" =>
               stack[d].server \in DOMAIN srv /\ srv[stack[d].server].stage = "dead"
      BY <1>0 DEF StackSound
    <3> QED
      BY <1>0, <3>1, <3>2, StackKept
  <2>8. StackSound(frames', phase', srv) /\ frames' # <<>>
    <3>1. \A d \in DOMAIN stack : stack[d].job # f.job /\ stack[d].rest \cap f.rest = {}
      BY <1>1, <2>2, <2>4
    <3>2. f.kind # "died" /\ f \in Frame /\ phase'[f.job] = "answering" /\ \A j \in f.rest : phase'[j] = "stranded"
      BY <2>4, <2>5
    <3> QED
      BY <2>3, <2>7, <3>1, <3>2, PushSound, SMTT(20)
  <2>9. place' \in [Jobs -> 0..Cardinality(Jobs)] /\ InLine(phase', place')
    <3>1. \A j \in Jobs : place[j] \in 0..Cardinality(Jobs) /\ Cardinality(Jobs) \in Nat
      BY <1>0, QueuedFinite
    <3>2. \A j \in Queued(phase') : place[j] \in Int
      BY <3>1 DEF Queued
    <3> QED
      BY <1>0, <2>3, <2>5, <3>1, <3>2, PlacesRank
  <2>10. \A j \in Queued(phase') : tool'[j] = setting
    BY <1>0, <2>5
  <2>11. Coherent'
    BY <1>0, <2>3, <2>5, <2>6, <2>8, <2>9, <2>10 DEF Coherent, Queued
  <2>12. Moves(life, phase')
    BY <2>2, <2>3 DEF Moves
  <2>13. Tells(rest, result, stack)
    BY <2>2, <2>3, <2>4, <2>5 DEF Tells
  <2> QED
    BY <2>11, <2>12, <2>13
<1> QED
  BY <1>2, <1>3 DEF FailStranded

\* serverDied(), on a server that has no job any more.
LEMMA ServerDiedCoherent ==
    ASSUME NEW i \in Pool, NEW result \in {"Crashed", "LaunchFailed"}, NEW life, NEW stack,
           Underway(life, [k \in Pool \ {i} |-> servers[k]], Forget(stack, i)),
           ServerDied(i, result, life, stack), UNCHANGED <<tool, setting, alive>>
    PROVE  /\ Coherent' /\ Moves(life, phase')
           /\ Tells(IF servers[i].retiring THEN {} ELSE Queued(life), result, Forget(stack, i))
<1> DEFINE others == [k \in Pool \ {i} |-> servers[k]]
           left == Forget(stack, i)
           condemned == IF servers[i].retiring THEN {} ELSE Queued(life)
<1>1. CASE /\ Dispatch(life, others, place, tool)
           /\ SkipCallback(left)
  <2>1. StackSound(left, life, others) /\ frames' = left /\ UNCHANGED <<answers, toldUnlaunched>>
    BY <1>1 DEF Underway, SkipCallback
  <2> HIDE DEF others, left
  <2>2. Underway(life, others, left)
    BY DEF others, left
  <2>3. Coherent' /\ OnlyQueuedMove(life, phase')
    BY <1>1, <2>1, <2>2, UnderwayDispatchable, DispatchCoherent
  <2>4. Moves(life, phase')
    BY <2>3 DEF Moves, OnlyQueuedMove
  <2>5. Tells(condemned, result, left)
    BY <2>1 DEF Tells
  <2> QED
    BY <2>3, <2>4, <2>5 DEF left
<1>2. ASSUME ~servers[i].retiring,
             LET stranded == {j \in Jobs : life[j] = "queued" /\ (unavailable' \/ RootOf[j] = servers[i].root)}
             IN  FailStranded(stranded, result,
                    [j \in Jobs |-> IF j \in stranded THEN "stranded" ELSE life[j]], others, left)
      PROVE  Coherent' /\ Moves(life, phase') /\ Tells(condemned, result, left)
  <2> DEFINE stranded == {j \in Jobs : life[j] = "queued" /\ (unavailable' \/ RootOf[j] = servers[i].root)}
             erased == [j \in Jobs |-> IF j \in stranded THEN "stranded" ELSE life[j]]
  <2> HIDE DEF others, left
  <2>0. Underway(life, others, left)
    BY DEF others, left
  <2>1. /\ FailStranded(stranded, result, erased, others, left)
        /\ stranded \subseteq Jobs /\ \A j \in stranded : life[j] = "queued"
    BY <1>2
  <2>2. /\ erased \in [Jobs -> Phases]
        /\ \A j \in Jobs : erased[j] = IF j \in stranded THEN "stranded" ELSE life[j]
    BY <2>0 DEF Phases, Underway
  <2> HIDE DEF stranded, erased
  <2>3. Queued(erased) \subseteq Queued(life)
    BY <2>1, <2>2 DEF Queued
  <2>4. Carried(others, erased)
    BY <2>0, <2>1, <2>2 DEF Carried, Underway, Sound, SoundServer, Server
  <2>5. StackSound(left, erased, others)
    <3>1. \A j \in Jobs : life[j] \in {"answering", "stranded"} => erased[j] = life[j]
      BY <2>1, <2>2
    <3> QED
      BY <2>0, <3>1, StackStays DEF Underway
  <2>6. Underway(erased, others, left)
    BY <2>0, <2>2, <2>3, <2>4, <2>5 DEF Underway, Distinct
  <2>7. \A d \in DOMAIN left : left[d].rest \cap stranded = {}
    <3>1. \A d \in DOMAIN left : \A j \in left[d].rest : life[j] = "stranded"
      BY <2>0 DEF Underway, StackSound
    <3> QED
      BY <2>1, <3>1
  <2>8. Coherent' /\ Moves(erased, phase') /\ Tells(stranded, result, left)
    BY <2>1, <2>2, <2>6, <2>7, FailStrandedCoherent
  <2>9. Moves(life, phase')
    BY <2>1, <2>2, <2>8 DEF Moves
  <2>10. Tells(condemned, result, left)
    BY <1>2, <2>1, <2>8 DEF Tells, Queued
  <2> QED
    BY <2>8, <2>9, <2>10
<1> QED
  BY <1>1, <1>2 DEF ServerDied

-------------------------------------------------------------------------------
(* The handlers. *)

\* No job is asked for in a handler, and an answered one stays so.
Advances ==
    \A j \in Jobs :
        /\ phase'[j] = "fresh" <=> phase[j] = "fresh"
        /\ phase[j] \in {"answering", "done"} => phase'[j] \in {"answering", "done"}

\* The reports of these handlers are those of handlers suspended before.
Inherits(stack) ==
    \A d \in DOMAIN stack : \E e \in DOMAIN frames :
        stack[d].rest = frames[e].rest /\ stack[d].outcome = frames[e].outcome

\* These jobs were condemned by a launch that fails now, or by one that failed before.
Condemned(these) ==
    \/ \A j \in these : phase[j] = "queued" /\ setting \in BadExecutables
    \/ \E e \in DOMAIN frames : frames[e].outcome = "LaunchFailed" /\ these \subseteq frames[e].rest

\* At most one callback is called, of a job still to be answered.
Reports ==
    \E these \in SUBSET Jobs, result \in {"Exited", "Crashed", "LaunchFailed"} : \E stack :
        /\ \A j \in these : phase[j] \in {"queued", "running", "stranded"}
        /\ stack \in Seq(Frame) /\ Tells(these, result, stack) /\ Inherits(stack)
        /\ result = "LaunchFailed" /\ GoneRoots = {} => Condemned(these)

\* What every handler does.
Handled ==
    /\ Coherent' /\ Advances /\ Reports
    /\ unavailable' \in BOOLEAN /\ failedRoots' \in SUBSET Roots
    /\ unavailable' /\ GoneRoots = {} => unavailable \/ setting \in BadExecutables

LatchesOK == unavailable \in BOOLEAN /\ failedRoots \in SUBSET Roots

\* Moves of jobs that had no answer yet.
LEMMA MovesAdvance ==
    ASSUME NEW life, life \in [Jobs -> Phases], Moves(life, phase'),
           \A j \in Jobs : \/ life[j] = phase[j]
                           \/ phase[j] \in {"running", "answering"} /\ life[j] = "done"
    PROVE  Advances
BY DEF Moves, Advances

LEMMA OnlyQueuedMoveIsMoves ==
    ASSUME NEW life, NEW next, OnlyQueuedMove(life, next) PROVE Moves(life, next)
BY DEF OnlyQueuedMove, Moves

LEMMA ForgetInherits ==
    ASSUME NEW stack, Inherits(stack), NEW i, \A d \in DOMAIN stack : stack[d] \in Frame
    PROVE  Inherits(Forget(stack, i))
<1> DEFINE F == Forget(stack, i)
<1>1. \A f \in Frame : /\ [f EXCEPT !.server = NoServer].rest = f.rest
                       /\ [f EXCEPT !.server = NoServer].outcome = f.outcome
  BY DEF Frame
<1>2. DOMAIN F = DOMAIN stack /\ \A d \in DOMAIN stack :
         F[d] = IF stack[d].server = i THEN [stack[d] EXCEPT !.server = NoServer] ELSE stack[d]
  BY DEF Forget
<1>3. ASSUME NEW d \in DOMAIN stack PROVE F[d].rest = stack[d].rest /\ F[d].outcome = stack[d].outcome
  <2> HIDE DEF F
  <2>1. CASE stack[d].server = i
    BY <1>1, <1>2, <2>1
  <2>2. CASE stack[d].server # i
    BY <1>2, <2>2
  <2> QED
    BY <2>1, <2>2
<1> HIDE DEF F
<1>4. Inherits(F)
  BY <1>2, <1>3 DEF Inherits
<1> QED
  BY <1>4 DEF F

\* A server dies in serverDied() with its job ended: what it leaves is in order.
LEMMA DeathUnderway ==
    ASSUME Coherent, NEW i \in Pool, NEW life \in [Jobs -> Phases],
           Queued(life) = Queued(phase),
           \A j \in Jobs : life[j] = "running" <=> phase[j] = "running" /\ j # servers[i].job,
           NEW stack, StackSound(stack, life, servers),
           \A d \in DOMAIN stack : stack[d].kind = "died" => stack[d].server # i
    PROVE  Underway(life, [k \in Pool \ {i} |-> servers[k]], Forget(stack, i))
<1> DEFINE others == [k \in Pool \ {i} |-> servers[k]]
<1>1. Sound(servers, setting) /\ Carried(servers, phase)
  BY DEF Coherent
<1>2. DOMAIN others = Pool \ {i} /\ \A k \in Pool \ {i} : others[k] = servers[k]
  OBVIOUS
<1>3. \A k \in Pool : servers[k].job \in Jobs \cup {NoJob}
  BY <1>1 DEF Pool, Sound, SoundServer, Server
<1> HIDE DEF others
<1>4. Sound(others, setting)
  BY <1>1, <1>2 DEF Pool, Sound
<1>5. Carried(others, life)
  <2>1. \A k \in DOMAIN others : others[k].job # NoJob => life[others[k].job] = "running"
    BY <1>1, <1>2, <1>3 DEF Pool, Carried
  <2>2. \A k, m \in DOMAIN others : others[k].job = others[m].job /\ others[k].job # NoJob => k = m
    BY <1>1, <1>2 DEF Pool, Carried
  <2>3. \A j \in Jobs : life[j] = "running" => \E k \in DOMAIN others : others[k].job = j
    BY <1>1, <1>2 DEF Pool, Carried
  <2> QED
    BY <2>1, <2>2, <2>3 DEF Carried
<1>6. StackSound(Forget(stack, i), life, others)
  <2>1. i \in ServerIds
    BY <1>1 DEF Pool, Sound
  <2> QED
    BY <2>1, ForgetSound DEF Pool, others
<1>7. Underway(life, others, Forget(stack, i))
  BY <1>4, <1>5, <1>6 DEF Underway, Coherent, InLine
<1> QED
  BY <1>7 DEF others

\* serverDied(), called by died() or on its return from a callback.
LEMMA ServerDiedHandled ==
    ASSUME Coherent, LatchesOK, NEW i \in Pool, NEW result \in {"Crashed", "LaunchFailed"},
           result = "LaunchFailed" => servers[i].stage = "refused",
           NEW life \in [Jobs -> Phases], NEW stack,
           StackSound(stack, life, servers), Inherits(stack),
           \A d \in DOMAIN stack : stack[d].kind = "died" => stack[d].server # i,
           Queued(life) = Queued(phase),
           \A j \in Jobs : life[j] = "running" <=> phase[j] = "running" /\ j # servers[i].job,
           \A j \in Jobs : \/ life[j] = phase[j]
                           \/ phase[j] \in {"running", "answering"} /\ life[j] = "done",
           ServerDied(i, result, life, stack), UNCHANGED <<tool, setting, alive>>
    PROVE  Handled
<1> DEFINE these == IF servers[i].retiring THEN {} ELSE Queued(life)
<1>1. Coherent' /\ Moves(life, phase') /\ Tells(these, result, Forget(stack, i))
  BY DeathUnderway, ServerDiedCoherent
<1>2. Advances
  BY <1>1, MovesAdvance
<1>3. Inherits(Forget(stack, i))
  BY ForgetInherits DEF StackSound
<1>4. SoundServer(servers[i], setting)
  BY DEF Pool, Coherent, Sound
<1>5. result = "LaunchFailed" /\ GoneRoots = {} /\ ~servers[i].retiring => setting \in BadExecutables
  BY <1>4 DEF SoundServer
<1>6. result = "LaunchFailed" /\ GoneRoots = {} => Condemned(these)
  BY <1>5 DEF Condemned, Queued
<1>7. /\ unavailable' \in BOOLEAN /\ failedRoots' \in SUBSET Roots
      /\ unavailable' /\ GoneRoots = {} => unavailable \/ setting \in BadExecutables
  <2>1. servers[i].root \in Roots
    BY <1>4 DEF SoundServer, Server
  <2>2. \/ unavailable' = unavailable /\ failedRoots' = failedRoots
        \/ /\ ~servers[i].retiring
           /\ unavailable' = (unavailable \/ result = "LaunchFailed")
           /\ failedRoots' = IF result = "LaunchFailed" THEN failedRoots
                             ELSE failedRoots \cup {servers[i].root}
    <3> HIDE DEF these
    <3> QED
      BY Zenon DEF ServerDied
  <2>3. failedRoots' \in SUBSET Roots
    BY <2>1, <2>2 DEF LatchesOK
  <2>4. unavailable' \in BOOLEAN /\ (unavailable' /\ GoneRoots = {} => unavailable \/ setting \in BadExecutables)
    <3> HIDE DEF these
    <3>1. unavailable \in BOOLEAN
      BY DEF LatchesOK
    <3>2. CASE unavailable' = unavailable
      BY <3>1, <3>2
    <3>3. CASE ~servers[i].retiring /\ unavailable' = (unavailable \/ result = "LaunchFailed")
      <4>1. CASE unavailable \/ result = "LaunchFailed"
        BY <1>5, <3>3, <4>1, Zenon
      <4>2. CASE ~(unavailable \/ result = "LaunchFailed")
        BY <3>3, <4>2, Zenon
      <4> QED
        BY <4>1, <4>2
    <3> QED
      BY <2>2, <3>2, <3>3
  <2> QED
    BY <2>3, <2>4
<1>8. these \in SUBSET Jobs /\ \A j \in these : phase[j] \in {"queued", "running", "stranded"}
  BY DEF Queued
<1>9. Forget(stack, i) \in Seq(Frame)
  <2>1. Underway(life, [k \in Pool \ {i} |-> servers[k]], Forget(stack, i))
    BY DeathUnderway
  <2> QED
    BY <2>1 DEF Underway, StackSound
<1> HIDE DEF these
<1> QED
  BY <1>1, <1>2, <1>3, <1>6, <1>7, <1>8, <1>9 DEF Handled, Reports

\* The suspended handlers are at first those of the step before.
LEMMA FramesInherit == Inherits(frames)
BY DEF Inherits

LEMMA RunningJob ==
    ASSUME Coherent, NEW i \in Pool
    PROVE  /\ SoundServer(servers[i], setting) /\ servers[i].job \in Jobs \cup {NoJob}
           /\ (servers[i].job # NoJob => servers[i].job \in Jobs /\ phase[servers[i].job] = "running")
BY DEF Coherent, Pool, Sound, SoundServer, Server, Carried

\* A server lets go of its job.
LEMMA CarriedLetsGo ==
    ASSUME NEW srv, NEW life, Carried(srv, life),
           \A k \in DOMAIN srv : srv[k].job \in Jobs \cup {NoJob},
           NEW i \in DOMAIN srv, srv[i].job # NoJob, NEW others, NEW next,
           DOMAIN others = DOMAIN srv, others[i].job = NoJob,
           \A k \in DOMAIN srv : k # i => others[k] = srv[k],
           next[srv[i].job] # "running", \A j \in Jobs : j # srv[i].job => next[j] = life[j]
    PROVE  Carried(others, next)
<1>1. \A k \in DOMAIN others : others[k].job # NoJob => k # i /\ others[k] = srv[k]
  OBVIOUS
<1>2. \A k \in DOMAIN srv : k # i => srv[k].job # srv[i].job
  BY DEF Carried
<1>3. \A k \in DOMAIN others : others[k].job # NoJob => next[others[k].job] = "running"
  BY <1>1, <1>2 DEF Carried
<1>4. \A k, m \in DOMAIN others : others[k].job = others[m].job /\ others[k].job # NoJob => k = m
  BY <1>1 DEF Carried
<1>5. \A j \in Jobs : next[j] = "running" => \E k \in DOMAIN others : others[k].job = j
  BY DEF Carried
<1> QED
  BY <1>3, <1>4, <1>5 DEF Carried

\* died(), of a server whose death has not been handled yet.
LEMMA DiedHandled ==
    ASSUME Coherent, LatchesOK, NEW i \in Pool, NEW result \in {"Crashed", "LaunchFailed"},
           result = "LaunchFailed" => servers[i].stage = "refused",
           servers[i].stage # "dead",
           Died(i, result), UNCHANGED <<tool, setting, alive>>
    PROVE  Handled
<1> DEFINE j == servers[i].job
           life == [k \in Jobs |-> IF k = j THEN "done" ELSE phase[k]]
<1>1. SoundServer(servers[i], setting) /\ (j # NoJob => j \in Jobs /\ phase[j] = "running")
  BY RunningJob
<1>2. /\ phase \in [Jobs -> Phases] /\ setting \in Executables
      /\ Sound(servers, setting) /\ Carried(servers, phase)
      /\ place \in [Jobs -> 0..Cardinality(Jobs)] /\ InLine(phase, place)
      /\ \A k \in Queued(phase) : tool[k] = setting
      /\ StackSound(frames, phase, servers)
      /\ frames \in Seq(Frame) /\ \A d \in DOMAIN frames : frames[d] \in Frame
  BY DEF Coherent, StackSound
<1>3. \A d \in DOMAIN frames : frames[d].kind = "died" => frames[d].server # i
  BY <1>2 DEF StackSound
<1>4. CASE /\ j # NoJob /\ Wanted(j)
           /\ servers' = [servers EXCEPT ![i].stage = "dead", ![i].job = NoJob]
           /\ UNCHANGED place
           /\ phase' = [phase EXCEPT ![j] = "answering"]
           /\ EnterCallback(j, result,
                [kind |-> "died", server |-> i, job |-> j, rest |-> {}, outcome |-> result], frames)
           /\ UNCHANGED <<unavailable, failedRoots>>
  <2> DEFINE f == [kind |-> "died", server |-> i, job |-> j, rest |-> {}, outcome |-> result]
             s == [servers[i] EXCEPT !.stage = "dead", !.job = NoJob]
  <2>1. j \in Jobs /\ phase[j] = "running" /\ j # NoJob /\ result = "Crashed"
    BY <1>1, <1>4 DEF SoundServer
  <2>2. f \in Frame /\ f.kind = "died" /\ f.server = i /\ f.job = j /\ f.rest = {} /\ f.outcome = result
    BY <1>2, <2>1 DEF Frame, Sound, Pool
  <2>3. s \in Server /\ s.stage = "dead" /\ s.job = NoJob /\ s.exe = servers[i].exe
        /\ s.retiring = servers[i].retiring
    BY <1>1 DEF SoundServer, Server, Stages
  <2>4. DOMAIN servers' = DOMAIN servers /\ servers'[i] = s
        /\ \A k \in DOMAIN servers : k # i => servers'[k] = servers[k]
    BY <1>4 DEF Pool
  <2>5. /\ frames' = Append(frames, f)
        /\ answers' = [answers EXCEPT ![j] = @ + 1]
        /\ toldUnlaunched' = IF result = "LaunchFailed" THEN toldUnlaunched \cup {j} ELSE toldUnlaunched
    BY <1>4 DEF EnterCallback
  <2> HIDE DEF f, s
  <2>6. /\ phase' \in [Jobs -> Phases] /\ Queued(phase') = Queued(phase) /\ phase'[j] = "answering"
        /\ \A k \in Jobs : k # j => phase'[k] = phase[k]
    BY <1>2, <1>4, <2>1 DEF Phases, Queued
  <2>7. SoundServer(s, setting)
    BY <1>1, <2>3 DEF SoundServer
  <2>8. Sound(servers', setting)
    BY <1>2, <2>4, <2>7 DEF Sound
  <2>9. Carried(servers', phase')
    <3>1. \A k \in DOMAIN servers : servers[k].job \in Jobs \cup {NoJob}
      BY <1>2 DEF Sound, SoundServer, Server
    <3>2. i \in DOMAIN servers /\ servers'[i].job = NoJob /\ phase'[servers[i].job] # "running"
      BY <2>3, <2>4, <2>6 DEF Pool
    <3>3. DOMAIN servers' = DOMAIN servers /\ (\A k \in DOMAIN servers : k # i => servers'[k] = servers[k])
      BY <2>4
    <3>4. servers[i].job # NoJob /\ Carried(servers, phase)
      BY <1>2, <2>1
    <3>5. \A k \in Jobs : k # servers[i].job => phase'[k] = phase[k]
      BY <2>6
    <3> HIDE DEF j
    <3> QED
      BY <3>1, <3>2, <3>3, <3>4, <3>5, CarriedLetsGo, SMTT(20)
  <2>10. StackSound(frames, phase', servers')
    <3>1. \A d \in DOMAIN frames : phase'[frames[d].job] = phase[frames[d].job]
                                   /\ \A k \in frames[d].rest : phase'[k] = phase[k]
      BY <1>2, <2>1, <2>6 DEF Frame, StackSound
    <3>2. \A d \in DOMAIN frames : frames[d].kind = "died" =>
               frames[d].server \in DOMAIN servers' /\ servers'[frames[d].server].stage = "dead"
      BY <1>2, <1>3, <2>4 DEF StackSound
    <3> QED
      BY <1>2, <3>1, <3>2, StackKept
  <2>11. StackSound(frames', phase', servers') /\ frames' # <<>>
    <3>1. \A d \in DOMAIN frames : frames[d].job # f.job /\ frames[d].rest \cap f.rest = {}
      BY <1>2, <2>1, <2>2 DEF StackSound
    <3> QED
      BY <1>3, <2>1, <2>2, <2>3, <2>4, <2>5, <2>6, <2>10, <3>1, PushSound DEF Pool
  <2>12. InLine(phase', place') /\ place' = place /\ \A k \in Queued(phase') : tool'[k] = setting
    BY <1>2, <1>4, <2>6 DEF InLine
  <2>13. Coherent'
    BY <1>2, <2>6, <2>8, <2>9, <2>11, <2>12 DEF Coherent, Queued
  <2>14. Advances
    BY <2>1, <2>6 DEF Advances
  <2>15. Tells({j}, result, frames)
    BY <1>4, <2>1, <2>2, <2>5, <2>6 DEF Tells
  <2>16. LatchesOK' /\ unavailable' = unavailable
    BY <1>4 DEF LatchesOK
  <2>17. Reports
    <3>1. {j} \in SUBSET Jobs /\ \A k \in {j} : phase[k] = "running"
      BY <2>1
    <3> HIDE DEF j
    <3> QED
      BY <1>2, <2>1, <2>15, <3>1, FramesInherit DEF Reports
  <2> QED
    BY <2>13, <2>14, <2>16, <2>17 DEF Handled, LatchesOK
<1>5. CASE ServerDied(i, result, life, frames)
  <2>1. /\ life \in [Jobs -> Phases]
        /\ \A k \in Jobs : life[k] = IF k = j THEN "done" ELSE phase[k]
    BY <1>2 DEF Phases
  <2> HIDE DEF life
  <2>2. Queued(life) = Queued(phase)
    BY <1>1, <2>1, PoolAssumption DEF Queued
  <2>3. \A k \in Jobs : life[k] = "running" <=> phase[k] = "running" /\ k # j
    BY <2>1
  <2>4. \A k \in Jobs : life[k] = phase[k] \/ (phase[k] \in {"running", "answering"} /\ life[k] = "done")
    BY <1>1, <2>1, PoolAssumption
  <2>5. StackSound(frames, life, servers)
    <3>1. \A k \in Jobs : phase[k] \in {"answering", "stranded"} => life[k] = phase[k]
      BY <1>1, <2>1, PoolAssumption
    <3> QED
      BY <1>2, <3>1, StackStays
  <2> QED
    BY <1>3, <1>5, <2>1, <2>2, <2>3, <2>4, <2>5, FramesInherit, ServerDiedHandled
<1> QED
  BY <1>4, <1>5 DEF Died

LEMMA ProcessExitsHandled ==
    ASSUME Coherent, LatchesOK, NEW i \in ServerIds, ProcessExits(i) PROVE Handled
<1>1. /\ i \in Pool /\ servers[i].stage # "dead" /\ Died(i, "Crashed")
      /\ UNCHANGED <<tool, setting, alive>>
  BY DEF ProcessExits, Signalled, DiedLeavesAlone
<1> QED
  BY <1>1, DiedHandled

LEMMA LaunchRefusedHandled ==
    ASSUME Coherent, LatchesOK, NEW i \in ServerIds, LaunchRefused(i) PROVE Handled
<1>1. /\ i \in Pool /\ servers[i].stage = "refused" /\ Died(i, "LaunchFailed")
      /\ UNCHANGED <<tool, setting, alive>>
  BY DEF LaunchRefused, Signalled, DiedLeavesAlone
<1> QED
  BY <1>1, DiedHandled

\* A handler that only dispatches, and tells nobody.
LEMMA DispatchHandled ==
    ASSUME LatchesOK, NEW life, NEW srv, NEW stack, Underway(life, srv, stack), Inherits(stack),
           \A j \in Jobs : \/ life[j] = phase[j]
                           \/ phase[j] \in {"running", "answering"} /\ life[j] = "done",
           Dispatch(life, srv, place, tool), SkipCallback(stack),
           UNCHANGED <<tool, setting, alive, unavailable, failedRoots>>
    PROVE  Handled
<1>1. StackSound(frames', life, srv) /\ frames' = stack
  BY DEF Underway, SkipCallback
<1>2. Coherent' /\ OnlyQueuedMove(life, phase')
  BY <1>1, UnderwayDispatchable, DispatchCoherent
<1>3. Advances
  BY <1>2, OnlyQueuedMoveIsMoves, MovesAdvance DEF Underway
<1>4. Tells({}, "Exited", stack)
  BY DEF Tells, SkipCallback
<1>5. stack \in Seq(Frame)
  BY DEF Underway, StackSound
<1> QED
  BY <1>2, <1>3, <1>4, <1>5 DEF Handled, Reports, LatchesOK

LEMMA CoherentUnderway ==
    ASSUME Coherent PROVE Underway(phase, servers, frames)
BY DEF Coherent, Underway, InLine

LEMMA HelloHandled ==
    ASSUME Coherent, LatchesOK, NEW i \in ServerIds, Hello(i) PROVE Handled
<1> DEFINE up == [servers[i] EXCEPT !.stage = "up", !.helloSeen = TRUE,
                    !.timer = IF InsideOpen(servers[i].root) THEN "idle" ELSE "closed"]
           srv == [servers EXCEPT ![i] = up]
<1>1. /\ i \in Pool /\ servers[i].stage = "starting" /\ Dispatch(phase, srv, place, tool)
      /\ SkipCallback(frames) /\ UNCHANGED <<tool, setting, alive, unavailable, failedRoots>>
  BY DEF Hello, Signalled, SkipCallback, poolVars
<1>2. SoundServer(servers[i], setting)
  BY <1>1, RunningJob
<1>3. up \in Server /\ up.stage = "up" /\ up.job = servers[i].job /\ up.exe = servers[i].exe
      /\ up.retiring = servers[i].retiring
  BY <1>2 DEF SoundServer, Server, Stages, Deadlines
<1>4. /\ DOMAIN srv = DOMAIN servers /\ srv[i] = up
      /\ \A k \in DOMAIN servers : k # i => srv[k] = servers[k]
  BY <1>1 DEF Pool
<1> HIDE DEF up, srv
<1>5. SoundServer(up, setting)
  BY <1>2, <1>3 DEF SoundServer
<1>6. Sound(srv, setting)
  BY <1>4, <1>5 DEF Coherent, Sound
<1>7. \A k \in DOMAIN servers : srv[k].job = servers[k].job
  BY <1>3, <1>4
<1>8. Carried(srv, phase)
  BY <1>4, <1>7 DEF Coherent, Carried
<1>9. StackSound(frames, phase, srv)
  <2>1. \A k \in DOMAIN servers : servers[k].stage = "dead" => k \in DOMAIN srv /\ srv[k].stage = "dead"
    BY <1>1, <1>4
  <2> QED
    BY <2>1, StackStays DEF Coherent
<1>10. Underway(phase, srv, frames)
  BY <1>6, <1>8, <1>9, CoherentUnderway DEF Underway
<1> QED
  BY <1>1, <1>10, FramesInherit, DispatchHandled

LEMMA CommandCompletesHandled ==
    ASSUME Coherent, LatchesOK, NEW i \in ServerIds, CommandCompletes(i) PROVE Handled
<1> DEFINE j == servers[i].job
           s == [servers[i] EXCEPT !.job = NoJob,
                                   !.timer = IF InsideOpen(servers[i].root) THEN "idle" ELSE @]
           freed == [servers EXCEPT ![i].job = NoJob,
                                    ![i].timer = IF InsideOpen(servers[i].root) THEN "idle" ELSE @]
           f == [kind |-> "completed", server |-> i, job |-> j, rest |-> {}, outcome |-> "Exited"]
<1>1. /\ i \in Pool /\ j # NoJob /\ servers[i].stage \in {"up", "dying"}
      /\ UNCHANGED <<tool, setting, alive, unavailable, failedRoots>>
  BY DEF CommandCompletes, Signalled, poolVars
<1>2. SoundServer(servers[i], setting) /\ j \in Jobs /\ phase[j] = "running"
  BY <1>1, RunningJob
<1>3. /\ phase \in [Jobs -> Phases] /\ setting \in Executables
      /\ Sound(servers, setting) /\ Carried(servers, phase)
      /\ place \in [Jobs -> 0..Cardinality(Jobs)] /\ InLine(phase, place)
      /\ \A k \in Queued(phase) : tool[k] = setting
      /\ StackSound(frames, phase, servers)
      /\ frames \in Seq(Frame) /\ \A d \in DOMAIN frames : frames[d] \in Frame
  BY DEF Coherent, StackSound
<1>4. s \in Server /\ s.stage = servers[i].stage /\ s.job = NoJob /\ s.exe = servers[i].exe
      /\ s.retiring = servers[i].retiring
  BY <1>2 DEF SoundServer, Server, Stages, Deadlines
<1>5. /\ DOMAIN freed = DOMAIN servers /\ freed[i] = s
      /\ \A k \in DOMAIN servers : k # i => freed[k] = servers[k]
  BY <1>1 DEF Pool
<1>6. f \in Frame /\ f.kind = "completed" /\ f.job = j /\ f.rest = {} /\ f.outcome = "Exited"
  BY <1>2 DEF Frame
<1>7. \/ /\ Wanted(j)
         /\ servers' = freed
         /\ UNCHANGED place
         /\ phase' = [phase EXCEPT ![j] = "answering"]
         /\ EnterCallback(j, "Exited", f, frames)
      \/ Dispatch([phase EXCEPT ![j] = "done"], freed, place, tool) /\ SkipCallback(frames)
  BY DEF CommandCompletes
<1> HIDE DEF s, freed, f, j
<1>8. SoundServer(s, setting)
  BY <1>1, <1>2, <1>4 DEF SoundServer
<1>9. Sound(freed, setting)
  BY <1>3, <1>5, <1>8 DEF Sound
<1>10. ASSUME NEW what \in {"answering", "done"}
       PROVE  LET next == [phase EXCEPT ![j] = what]
              IN  /\ next \in [Jobs -> Phases] /\ next[j] = what /\ \A k \in Jobs : k # j => next[k] = phase[k]
                  /\ Queued(next) = Queued(phase)
                  /\ Carried(freed, next) /\ StackSound(frames, next, freed)
  <2> DEFINE next == [phase EXCEPT ![j] = what]
  <2>1. /\ next \in [Jobs -> Phases] /\ next[j] = what /\ \A k \in Jobs : k # j => next[k] = phase[k]
        /\ Queued(next) = Queued(phase)
    BY <1>2, <1>3 DEF Phases, Queued
  <2> HIDE DEF next
  <2>2. Carried(freed, next)
    <3>1. \A k \in DOMAIN servers : servers[k].job \in Jobs \cup {NoJob}
      BY <1>3 DEF Sound, SoundServer, Server
    <3>2. /\ i \in DOMAIN servers /\ freed[i].job = NoJob /\ servers[i].job # NoJob
          /\ next[servers[i].job] # "running" /\ \A k \in Jobs : k # servers[i].job => next[k] = phase[k]
      BY <1>1, <1>4, <1>5, <2>1 DEF Pool, j
    <3> QED
      BY <1>3, <1>5, <3>1, <3>2, CarriedLetsGo
  <2>3. StackSound(frames, next, freed)
    <3>1. \A k \in Jobs : phase[k] \in {"answering", "stranded"} => next[k] = phase[k]
      BY <1>2, <2>1
    <3>2. \A k \in DOMAIN servers : servers[k].stage = "dead" => k \in DOMAIN freed /\ freed[k].stage = "dead"
      BY <1>1, <1>5
    <3> QED
      BY <1>3, <3>1, <3>2, StackStays
  <2>4. QED
    BY <2>1, <2>2, <2>3 DEF next
<1>11. CASE /\ Wanted(j)
            /\ servers' = freed
            /\ UNCHANGED place
            /\ phase' = [phase EXCEPT ![j] = "answering"]
            /\ EnterCallback(j, "Exited", f, frames)
  <2>1. /\ phase' \in [Jobs -> Phases] /\ phase'[j] = "answering"
        /\ \A k \in Jobs : k # j => phase'[k] = phase[k]
        /\ Queued(phase') = Queued(phase)
        /\ Carried(servers', phase') /\ StackSound(frames, phase', servers')
    BY <1>10, <1>11
  <2>2. /\ frames' = Append(frames, f)
        /\ answers' = [answers EXCEPT ![j] = @ + 1] /\ toldUnlaunched' = toldUnlaunched
    BY <1>11 DEF EnterCallback
  <2>3. StackSound(frames', phase', servers') /\ frames' # <<>>
    <3>1. \A d \in DOMAIN frames : frames[d].job # f.job /\ frames[d].rest \cap f.rest = {}
      BY <1>2, <1>3, <1>6 DEF StackSound
    <3> QED
      BY <1>6, <2>1, <2>2, <3>1, PushSound
  <2>4. InLine(phase', place') /\ place' = place /\ \A k \in Queued(phase') : tool'[k] = setting
    BY <1>1, <1>3, <1>11, <2>1 DEF InLine
  <2>5. Coherent'
    BY <1>1, <1>3, <1>9, <1>11, <2>1, <2>3, <2>4 DEF Coherent, Queued
  <2>6. Advances
    BY <1>2, <2>1 DEF Advances
  <2>7. Tells({j}, "Exited", frames)
    BY <1>6, <1>11, <2>1, <2>2 DEF Tells
  <2>8. Reports
    <3>1. {j} \in SUBSET Jobs /\ \A k \in {j} : phase[k] = "running"
      BY <1>2
    <3> QED
      BY <1>3, <2>7, <3>1, FramesInherit DEF Reports
  <2> QED
    BY <1>1, <2>5, <2>6, <2>8 DEF Handled, LatchesOK
<1>12. CASE Dispatch([phase EXCEPT ![j] = "done"], freed, place, tool) /\ SkipCallback(frames)
  <2> DEFINE life == [phase EXCEPT ![j] = "done"]
  <2>1. /\ life \in [Jobs -> Phases] /\ life[j] = "done"
        /\ \A k \in Jobs : k # j => life[k] = phase[k]
        /\ Queued(life) = Queued(phase)
        /\ Carried(freed, life) /\ StackSound(frames, life, freed)
    BY <1>10
  <2> HIDE DEF life
  <2>2. Underway(life, freed, frames)
    BY <1>3, <1>9, <2>1 DEF Underway, InLine
  <2>3. \A k \in Jobs : \/ life[k] = phase[k]
                        \/ phase[k] \in {"running", "answering"} /\ life[k] = "done"
    BY <1>2, <2>1
  <2>4. Dispatch(life, freed, place, tool) /\ SkipCallback(frames)
    BY <1>12 DEF life
  <2> QED
    BY <1>1, <2>2, <2>3, <2>4, FramesInherit, DispatchHandled
<1> QED
  BY <1>7, <1>11, <1>12

\* A callback returns, and the handler that called it goes on.
LEMMA CallbackReturnedHandled ==
    ASSUME Coherent, LatchesOK, CallbackReturned PROVE Handled
<1> DEFINE f == frames[Len(frames)]
           below == SubSeq(frames, 1, Len(frames) - 1)
           life == [phase EXCEPT ![f.job] = "done"]
<1>1. /\ frames # <<>> /\ UNCHANGED <<tool, setting, alive>>
      /\ \/ /\ f.kind = "completed"
            /\ Dispatch(life, servers, place, tool) /\ SkipCallback(below)
            /\ UNCHANGED <<unavailable, failedRoots>>
         \/ /\ f.kind = "died"
            /\ ServerDied(f.server, f.outcome, life, below)
         \/ /\ f.kind = "stranded"
            /\ FailStranded(f.rest, f.outcome, life, servers, below)
            /\ UNCHANGED <<unavailable, failedRoots>>
  BY DEF CallbackReturned, DiedLeavesAlone
<1>2. /\ phase \in [Jobs -> Phases] /\ StackSound(frames, phase, servers)
      /\ \A d \in DOMAIN frames : frames[d] \in Frame
  BY DEF Coherent, StackSound
<1>3. /\ StackSound(below, phase, servers) /\ Len(frames) \in DOMAIN frames /\ f \in Frame
      /\ \A d \in DOMAIN below :
            /\ d \in DOMAIN frames /\ below[d] = frames[d]
            /\ below[d].job # f.job /\ below[d].rest \cap f.rest = {}
            /\ f.kind = "died" /\ below[d].kind = "died" => below[d].server # f.server
  BY <1>1, <1>2, PopSound
<1>4. /\ f.job \in Jobs /\ phase[f.job] = "answering" /\ f.rest \in SUBSET Jobs
      /\ f.outcome \in {"Exited", "Crashed", "LaunchFailed"}
      /\ \A k \in f.rest : phase[k] = "stranded"
      /\ f.kind = "died" => f.server \in Pool /\ servers[f.server].stage = "dead" /\ f.outcome = "Crashed"
  <2>1. /\ phase[f.job] = "answering" /\ \A k \in f.rest : phase[k] = "stranded"
        /\ f.kind = "died" => f.server \in Pool /\ servers[f.server].stage = "dead" /\ f.outcome = "Crashed"
    BY <1>2, <1>3 DEF StackSound, Pool
  <2>2. f.job \in Jobs /\ f.rest \in SUBSET Jobs /\ f.outcome \in {"Exited", "Crashed", "LaunchFailed"}
    BY <1>3 DEF Frame
  <2> QED
    BY <2>1, <2>2
<1>5. Inherits(below)
  BY <1>3 DEF Inherits
<1> HIDE DEF f, below
<1>6. /\ life \in [Jobs -> Phases] /\ life[f.job] = "done"
      /\ \A k \in Jobs : k # f.job => life[k] = phase[k]
  BY <1>2, <1>4 DEF Phases
<1> HIDE DEF life
<1>7. /\ Queued(life) = Queued(phase)
      /\ \A k \in Jobs : life[k] = "running" <=> phase[k] = "running"
      /\ \A k \in Jobs : life[k] = phase[k] \/ (phase[k] \in {"running", "answering"} /\ life[k] = "done")
      /\ \A k \in f.rest : life[k] = "stranded"
  BY <1>4, <1>6 DEF Queued
<1>8. Carried(servers, life)
  <2>1. \A k \in DOMAIN servers : servers[k].job \in Jobs \cup {NoJob}
    BY RunningJob DEF Pool
  <2> QED
    BY <1>7, <2>1 DEF Carried, Coherent
<1>9. StackSound(below, life, servers)
  <2>1. \A d \in DOMAIN below : below[d].job \in Jobs /\ below[d].rest \subseteq Jobs
    BY <1>2, <1>3 DEF Frame
  <2>2. \A d \in DOMAIN below : life[below[d].job] = phase[below[d].job]
                                /\ \A k \in below[d].rest : life[k] = phase[k]
    BY <1>3, <1>4, <1>6, <2>1 DEF StackSound
  <2>3. \A d \in DOMAIN below : below[d].kind = "died" =>
             below[d].server \in DOMAIN servers /\ servers[below[d].server].stage = "dead"
    BY <1>3 DEF StackSound
  <2> QED
    BY <1>3, <2>2, <2>3, StackKept
<1>10. Underway(life, servers, below)
  BY <1>6, <1>7, <1>8, <1>9 DEF Coherent, Underway, InLine
<1>11. CASE /\ Dispatch(life, servers, place, tool) /\ SkipCallback(below)
            /\ UNCHANGED <<unavailable, failedRoots>>
  BY <1>1, <1>5, <1>7, <1>10, <1>11, DispatchHandled
<1>12. CASE f.kind = "died" /\ ServerDied(f.server, f.outcome, life, below)
  <2>1. f.server \in Pool /\ f.outcome = "Crashed" /\ servers[f.server].job = NoJob
    BY <1>4, <1>12, RunningJob DEF SoundServer
  <2>2. \A k \in Jobs : life[k] = "running" <=> phase[k] = "running" /\ k # servers[f.server].job
    BY <1>7, <2>1, PoolAssumption
  <2>3. \A d \in DOMAIN below : below[d].kind = "died" => below[d].server # f.server
    BY <1>3, <1>12
  <2> QED
    BY <1>1, <1>5, <1>6, <1>7, <1>9, <1>12, <2>1, <2>2, <2>3, ServerDiedHandled
<1>13. CASE /\ f.kind = "stranded"
            /\ FailStranded(f.rest, f.outcome, life, servers, below)
            /\ UNCHANGED <<unavailable, failedRoots>>
  <2>1. Coherent' /\ Moves(life, phase') /\ Tells(f.rest, f.outcome, below)
    BY <1>1, <1>3, <1>4, <1>7, <1>10, <1>13, FailStrandedCoherent
  <2>2. Advances
    BY <1>6, <1>7, <2>1, MovesAdvance
  <2>3. f.outcome = "LaunchFailed" => Condemned(f.rest)
    BY <1>3 DEF Condemned, f
  <2>4. below \in Seq(Frame)
    BY <1>9 DEF StackSound
  <2> QED
    BY <1>4, <1>5, <1>13, <2>1, <2>2, <2>3, <2>4 DEF Handled, Reports, LatchesOK
<1> QED
  BY <1>1, <1>11, <1>12, <1>13

-------------------------------------------------------------------------------
(* The other actions. *)

\* Servers that only change their deadlines, or stop to be of use.
LEMMA TouchedCoherent ==
    ASSUME Coherent, DOMAIN servers' = DOMAIN servers,
           \A i \in DOMAIN servers :
               /\ SoundServer(servers'[i], setting') /\ servers'[i].job = servers[i].job
               /\ servers[i].stage = "dead" => servers'[i].stage = "dead"
               /\ IsIdle(servers'[i]) => IsIdle(servers[i]),
           setting' \in Executables, \A j \in Queued(phase) : tool'[j] = setting',
           UNCHANGED <<phase, frames, place, alive>>
    PROVE  Coherent'
<1>1. Sound(servers', setting')
  BY DEF Coherent, Sound
<1>2. Carried(servers', phase')
  BY DEF Coherent, Carried
<1>3. StackSound(frames', phase', servers')
  <2>1. StackSound(frames, phase, servers')
    BY StackStays DEF Coherent
  <2> QED
    BY <2>1
<1>4. frames' = <<>> => Attended(phase, servers)'
  <2>1. \A j : HasListener(j)' <=> HasListener(j)
    BY DEF HasListener
  <2> QED
    BY <2>1 DEF Coherent, Attended, Queued
<1>5. InLine(phase', place')
  BY DEF Coherent
<1> QED
  BY <1>1, <1>2, <1>3, <1>4, <1>5 DEF Coherent, Queued

\* Jobs that are in no server and no queue.
LEMMA AsideCoherent ==
    ASSUME Coherent, phase' \in [Jobs -> Phases],
           \A j \in Jobs : \/ phase'[j] = phase[j]
                           \/ phase[j] \in {"fresh", "handedOver"} /\ phase'[j] \in {"handedOver", "done"},
           UNCHANGED <<servers, frames, place, tool, setting, alive>>
    PROVE  Coherent'
<1>1. Queued(phase') = Queued(phase)
  BY DEF Queued
<1>2. Carried(servers', phase')
  <2>1. \A k \in DOMAIN servers : servers[k].job \in Jobs \cup {NoJob}
    BY RunningJob DEF Pool
  <2> QED
    BY <2>1 DEF Coherent, Carried
<1>3. StackSound(frames', phase', servers')
  <2>1. StackSound(frames, phase', servers)
    BY StackStays DEF Coherent
  <2> QED
    BY <2>1
<1>4. frames' = <<>> => Attended(phase, servers)'
  <2>1. \A j : HasListener(j)' <=> HasListener(j)
    BY DEF HasListener
  <2> QED
    BY <1>1, <2>1 DEF Coherent, Attended, Queued
<1>5. InLine(phase', place')
  BY <1>1 DEF Coherent, InLine
<1> QED
  BY <1>1, <1>2, <1>3, <1>4, <1>5 DEF Coherent, Queued

LEMMA StreamFailsCoherent ==
    ASSUME Coherent, NEW i \in ServerIds, StreamFails(i) \/ GraceExpires(i) PROVE Coherent'
<1> DEFINE s == [servers[i] EXCEPT !.stage = "dying"]
<1>1. /\ i \in Pool /\ servers[i].stage \in {"starting", "up"} /\ servers' = [servers EXCEPT ![i].stage = "dying"]
      /\ UNCHANGED <<phase, frames, place, alive, tool, setting>>
  BY DEF StreamFails, GraceExpires, Signalled, jobVars, poolVars
<1>2. SoundServer(servers[i], setting)
  BY <1>1, RunningJob
<1>3. /\ s \in Server /\ s.stage = "dying" /\ s.job = servers[i].job /\ s.exe = servers[i].exe
      /\ s.retiring = servers[i].retiring
  BY <1>2 DEF SoundServer, Server, Stages
<1>4. DOMAIN servers' = DOMAIN servers /\ servers'[i] = s
      /\ \A k \in DOMAIN servers : k # i => servers'[k] = servers[k]
  BY <1>1 DEF Pool
<1> HIDE DEF s
<1>5. SoundServer(s, setting) /\ ~IsIdle(s)
  BY <1>2, <1>3 DEF SoundServer, IsIdle
<1>6. \A k \in DOMAIN servers :
               /\ SoundServer(servers'[k], setting') /\ servers'[k].job = servers[k].job
               /\ servers[k].stage = "dead" => servers'[k].stage = "dead"
               /\ IsIdle(servers'[k]) => IsIdle(servers[k])
  BY <1>1, <1>3, <1>4, <1>5 DEF Coherent, Sound
<1>7. setting' \in Executables /\ \A j \in Queued(phase) : tool'[j] = setting'
  BY <1>1 DEF Coherent
<1> QED
  BY <1>1, <1>4, <1>6, <1>7, TouchedCoherent

LEMMA RetireTimerFiresCoherent ==
    ASSUME Coherent, NEW i \in ServerIds, RetireTimerFires(i) PROVE Coherent'
<1> DEFINE s == [servers[i] EXCEPT !.timer = "off", !.retiring = TRUE]
<1>1. /\ i \in Pool /\ servers' = [servers EXCEPT ![i].timer = "off", ![i].retiring = TRUE]
      /\ UNCHANGED <<phase, frames, place, alive, tool, setting>>
  BY DEF RetireTimerFires, Signalled, jobVars, poolVars
<1>2. SoundServer(servers[i], setting)
  BY <1>1, RunningJob
<1>3. /\ s \in Server /\ s.stage = servers[i].stage /\ s.job = servers[i].job /\ s.exe = servers[i].exe
      /\ s.root = servers[i].root /\ s.retiring
  BY <1>2 DEF SoundServer, Server, Deadlines
<1>4. DOMAIN servers' = DOMAIN servers /\ servers'[i] = s
      /\ \A k \in DOMAIN servers : k # i => servers'[k] = servers[k]
  BY <1>1 DEF Pool
<1> HIDE DEF s
<1>5. SoundServer(s, setting) /\ ~IsIdle(s)
  BY <1>2, <1>3 DEF SoundServer, IsIdle
<1>6. \A k \in DOMAIN servers :
               /\ SoundServer(servers'[k], setting') /\ servers'[k].job = servers[k].job
               /\ servers[k].stage = "dead" => servers'[k].stage = "dead"
               /\ IsIdle(servers'[k]) => IsIdle(servers[k])
  BY <1>1, <1>3, <1>4, <1>5 DEF Coherent, Sound
<1>7. setting' \in Executables /\ \A j \in Queued(phase) : tool'[j] = setting'
  BY <1>1 DEF Coherent
<1> QED
  BY <1>1, <1>4, <1>6, <1>7, TouchedCoherent

LEMMA SettingsChangedCoherent ==
    ASSUME Coherent, NEW e \in Executables, SettingsChanged(e) PROVE Coherent'
<1>1. /\ servers' = [i \in Pool |-> IF servers[i].exe = e THEN servers[i]
                                    ELSE [servers[i] EXCEPT !.retiring = TRUE]]
      /\ setting' = e /\ tool' = [j \in Jobs |-> IF j \in Queue THEN e ELSE tool[j]]
      /\ UNCHANGED <<phase, frames, place, alive>>
  BY DEF SettingsChanged
<1>2. DOMAIN servers' = DOMAIN servers
  BY <1>1 DEF Pool
<1>3. ASSUME NEW k \in DOMAIN servers
      PROVE  /\ SoundServer(servers'[k], e) /\ servers'[k].job = servers[k].job
             /\ servers[k].stage = "dead" => servers'[k].stage = "dead"
             /\ IsIdle(servers'[k]) => IsIdle(servers[k])
  <2>1. SoundServer(servers[k], setting)
    BY RunningJob DEF Pool
  <2>2. CASE servers[k].exe = e
    BY <1>1, <2>1, <2>2 DEF SoundServer, Pool
  <2>3. CASE servers[k].exe # e
    <3> DEFINE s == [servers[k] EXCEPT !.retiring = TRUE]
    <3>1. servers'[k] = s
      BY <1>1, <2>3 DEF Pool
    <3>2. /\ s \in Server /\ s.stage = servers[k].stage /\ s.job = servers[k].job /\ s.exe = servers[k].exe
          /\ s.root = servers[k].root /\ s.retiring
      BY <2>1 DEF SoundServer, Server
    <3> HIDE DEF s
    <3> QED
      BY <2>1, <3>1, <3>2 DEF SoundServer, IsIdle
  <2> QED
    BY <2>2, <2>3
<1>4. \A j \in Queued(phase) : tool'[j] = setting'
  BY <1>1 DEF Queued, Queue
<1> QED
  BY <1>1, <1>2, <1>3, <1>4, TouchedCoherent

\* Opening and closing repositories only sets deadlines.
LEMMA DeadlinesCoherent ==
    ASSUME Coherent, DOMAIN servers' = DOMAIN servers,
           \A i \in Pool : \/ servers'[i] = servers[i]
                           \/ \E t \in Deadlines : servers'[i] = [servers[i] EXCEPT !.timer = t],
           UNCHANGED <<phase, frames, place, alive, tool, setting>>
    PROVE  Coherent'
<1>1. ASSUME NEW k \in DOMAIN servers
      PROVE  /\ SoundServer(servers'[k], setting) /\ servers'[k].job = servers[k].job
             /\ servers[k].stage = "dead" => servers'[k].stage = "dead"
             /\ IsIdle(servers'[k]) => IsIdle(servers[k])
  <2>1. SoundServer(servers[k], setting)
    BY RunningJob DEF Pool
  <2>2. CASE servers'[k] = servers[k]
    BY <2>1, <2>2
  <2>3. ASSUME NEW t \in Deadlines, servers'[k] = [servers[k] EXCEPT !.timer = t]
        PROVE  /\ SoundServer(servers'[k], setting) /\ servers'[k].job = servers[k].job
               /\ servers[k].stage = "dead" => servers'[k].stage = "dead"
               /\ IsIdle(servers'[k]) => IsIdle(servers[k])
    <3> DEFINE s == [servers[k] EXCEPT !.timer = t]
    <3>1. /\ s \in Server /\ s.stage = servers[k].stage /\ s.job = servers[k].job /\ s.exe = servers[k].exe
          /\ s.root = servers[k].root /\ s.retiring = servers[k].retiring
      BY <2>1 DEF SoundServer, Server
    <3>2. servers'[k] = s
      BY <2>3
    <3> HIDE DEF s
    <3> QED
      BY <2>1, <3>1, <3>2 DEF SoundServer, IsIdle
  <2> QED
    BY <2>2, <2>3 DEF Pool
<1>2. setting' \in Executables /\ \A j \in Queued(phase) : tool'[j] = setting'
  BY DEF Coherent
<1> QED
  BY <1>1, <1>2, TouchedCoherent

LEMMA RepositoriesCoherent ==
    ASSUME Coherent, NEW r \in Roots, RepositoryOpened(r) \/ RepositoryClosed(r) PROVE Coherent'
<1>1. UNCHANGED <<phase, frames, place, alive, tool, setting>>
  BY DEF RepositoryOpened, RepositoryClosed, jobVars
<1>2. /\ DOMAIN servers' = DOMAIN servers
      /\ \A i \in Pool : \/ servers'[i] = servers[i]
                         \/ \E t \in Deadlines : servers'[i] = [servers[i] EXCEPT !.timer = t]
  <2>1. CASE RepositoryOpened(r)
    BY <2>1 DEF RepositoryOpened, Pool, Deadlines
  <2>2. CASE RepositoryClosed(r)
    BY <2>2 DEF RepositoryClosed, Pool, Deadlines
  <2> QED
    BY <2>1, <2>2
<1> QED
  BY <1>1, <1>2, DeadlinesCoherent

LEMMA CancelCoherent ==
    ASSUME Coherent, NEW j \in Jobs, Cancel(j) PROVE Coherent'
<1>1. /\ phase' = [phase EXCEPT ![j] = IF @ = "queued" THEN "done" ELSE @]
      /\ place' = Places(phase', place)
      /\ UNCHANGED <<servers, frames, tool, alive, setting>>
  BY DEF Cancel, poolVars
<1>2. /\ phase \in [Jobs -> Phases] /\ setting \in Executables
      /\ Sound(servers, setting) /\ Carried(servers, phase)
      /\ place \in [Jobs -> 0..Cardinality(Jobs)] /\ InLine(phase, place)
      /\ \A k \in Queued(phase) : tool[k] = setting
      /\ StackSound(frames, phase, servers)
      /\ frames = <<>> => Attended(phase, servers)
  BY DEF Coherent
<1>3. /\ phase' \in [Jobs -> Phases] /\ Queued(phase') \subseteq Queued(phase)
      /\ \A k \in Jobs : phase'[k] = phase[k] \/ (phase[k] = "queued" /\ phase'[k] = "done")
  BY <1>1, <1>2 DEF Phases, Queued
<1>4. Carried(servers, phase')
  <2>1. \A k \in DOMAIN servers : servers[k].job \in Jobs \cup {NoJob}
    BY RunningJob DEF Pool
  <2> QED
    BY <1>2, <1>3, <2>1 DEF Carried
<1>5. StackSound(frames, phase', servers)
  BY <1>2, <1>3, StackStays
<1>6. place' \in [Jobs -> 0..Cardinality(Jobs)] /\ InLine(phase', place')
  <2>1. \A k \in Jobs : place[k] \in 0..Cardinality(Jobs) /\ Cardinality(Jobs) \in Nat
    BY <1>2, QueuedFinite
  <2>2. \A k \in Queued(phase') : place[k] \in Int
    BY <2>1 DEF Queued
  <2>3. Distinct(Queued(phase'), place)
    BY <1>2, <1>3 DEF InLine, Distinct
  <2> QED
    BY <1>1, <2>1, <2>2, <2>3, PlacesRank
<1>7. frames' = <<>> => Attended(phase, servers)'
  <2>1. \A k : HasListener(k)' <=> HasListener(k)
    BY <1>1 DEF HasListener
  <2> QED
    BY <1>1, <1>2, <1>3, <2>1 DEF Attended, Queued
<1> QED
  BY <1>1, <1>2, <1>3, <1>4, <1>5, <1>6, <1>7 DEF Coherent, Queued

LEMMA DestroyContextCoherent ==
    ASSUME Coherent, NEW c \in Contexts, DestroyContext(c) PROVE Coherent'
<1>1. alive' = alive \ {c} /\ UNCHANGED <<servers, phase, frames, place, tool, setting>>
  BY DEF DestroyContext, poolVars
<1>2. \A k : HasListener(k)' => HasListener(k)
  BY <1>1 DEF HasListener
<1>3. frames' = <<>> => Attended(phase, servers)'
  BY <1>1, <1>2 DEF Coherent, Attended, Queued
<1> QED
  BY <1>1, <1>3 DEF Coherent, Queued

LEMMA FallbackEndsCoherent ==
    ASSUME Coherent, NEW j \in Jobs, FallbackEnds(j) PROVE Coherent'
<1>1. /\ phase[j] = "handedOver" /\ phase' = [phase EXCEPT ![j] = "done"]
      /\ UNCHANGED <<servers, frames, place, tool, setting, alive>>
  BY DEF FallbackEnds, poolVars
<1>2. phase' \in [Jobs -> Phases]
  BY <1>1 DEF Coherent, Phases
<1>3. \A k \in Jobs : \/ phase'[k] = phase[k]
                      \/ phase[k] \in {"fresh", "handedOver"} /\ phase'[k] \in {"handedOver", "done"}
  BY <1>1 DEF Coherent
<1> QED
  BY <1>1, <1>2, <1>3, AsideCoherent

LEMMA ShutdownCoherent ==
    ASSUME Coherent, Shutdown PROVE Coherent'
<1>1. /\ frames = <<>> /\ frames' = frames /\ servers' = <<>> /\ setting' = setting
      /\ phase' = [j \in Jobs |-> IF j \in Asked THEN "done" ELSE phase[j]]
      /\ place' = [j \in Jobs |-> 0]
  BY DEF Shutdown
<1>2. phase \in [Jobs -> Phases] /\ setting \in Executables
  BY DEF Coherent
<1>3. phase' \in [Jobs -> Phases] /\ \A j \in Jobs : phase'[j] \in {"fresh", "done"}
  BY <1>1, <1>2 DEF Phases, Asked
<1>4. Queued(phase') = {} /\ DOMAIN servers' = {}
  BY <1>1, <1>3 DEF Queued
<1>5. Sound(servers', setting) /\ Carried(servers', phase')
  BY <1>3, <1>4 DEF Sound, Carried
<1>6. StackSound(frames', phase', servers')
  BY <1>1 DEF StackSound
<1>7. place' \in [Jobs -> 0..Cardinality(Jobs)] /\ InLine(phase', place')
  BY <1>1, <1>4, QueuedFinite DEF InLine, Distinct
<1>8. Attended(phase, servers)'
  BY <1>4 DEF Attended, Queued
<1> QED
  BY <1>1, <1>2, <1>3, <1>4, <1>5, <1>6, <1>7, <1>8 DEF Coherent, Queued

\* run(): the last in line, or handed to a plain process.
LEMMA RunCoherent ==
    ASSUME Coherent, tool \in [Jobs -> Executables], NEW j \in Jobs, Run(j)
    PROVE  /\ Coherent' /\ phase'[j] # "fresh"
           /\ \A k \in Jobs : k # j => /\ phase'[k] = "fresh" <=> phase[k] = "fresh"
                                       /\ phase[k] \in {"answering", "done"} => phase'[k] = phase[k]
<1>1. phase[j] = "fresh" /\ UNCHANGED <<frames, alive, setting>>
  BY DEF Run, poolVars
<1>2. /\ phase \in [Jobs -> Phases] /\ setting \in Executables
      /\ Sound(servers, setting) /\ Carried(servers, phase)
      /\ place \in [Jobs -> 0..Cardinality(Jobs)] /\ InLine(phase, place)
      /\ \A k \in Queued(phase) : tool[k] = setting
      /\ StackSound(frames, phase, servers)
  BY DEF Coherent
<1>3. CASE /\ phase' = [phase EXCEPT ![j] = "handedOver"]
           /\ UNCHANGED <<servers, place, tool>>
  <2>1. phase' \in [Jobs -> Phases] /\ phase'[j] = "handedOver" /\ \A k \in Jobs : k # j => phase'[k] = phase[k]
    BY <1>2, <1>3 DEF Phases
  <2>2. \A k \in Jobs : \/ phase'[k] = phase[k]
                        \/ phase[k] \in {"fresh", "handedOver"} /\ phase'[k] \in {"handedOver", "done"}
    BY <1>1, <2>1
  <2> QED
    BY <1>1, <1>3, <2>1, <2>2, AsideCoherent
<1>4. CASE /\ tool' = [tool EXCEPT ![j] = setting]
           /\ Dispatch([phase EXCEPT ![j] = "queued"], servers,
                       [place EXCEPT ![j] = Cardinality(Queue) + 1], tool')
           /\ tool \in [Jobs -> Executables]
  <2> DEFINE life == [phase EXCEPT ![j] = "queued"]
             last == Cardinality(Queued(phase)) + 1
             order == [place EXCEPT ![j] = last]
  <2>1. /\ life \in [Jobs -> Phases] /\ life[j] = "queued" /\ \A k \in Jobs : k # j => life[k] = phase[k]
        /\ Queued(life) = Queued(phase) \cup {j} /\ j \notin Queued(phase)
    BY <1>1, <1>2 DEF Phases, Queued
  <2>2. order[j] = last /\ \A k \in Jobs : k # j => order[k] = place[k]
    BY <1>2
  <2>3. last \in Nat /\ Cardinality(Jobs) \in Nat /\ \A k \in Queued(phase) : place[k] \in Int /\ place[k] < last
    BY <1>2, QueuedFinite DEF InLine
  <2>4. Dispatch(life, servers, order, tool')
    BY <1>4 DEF Queue, Queued
  <2> HIDE DEF life, last, order
  <2>5. \A k \in Queued(life) : k \in Jobs /\ order[k] \in Int /\ tool'[k] = setting
    BY <1>2, <1>4, <2>1, <2>2, <2>3 DEF Queued
  <2>6. Distinct(Queued(life), order)
    <3> SUFFICES ASSUME NEW k \in Queued(life), NEW m \in Queued(life), order[k] = order[m] PROVE k = m
      BY DEF Distinct
    <3>1. \A n \in Queued(phase) : n \in Jobs /\ n # j /\ order[n] = place[n] /\ order[n] < last
      BY <2>1, <2>2, <2>3 DEF Queued
    <3>2. CASE k = j \/ m = j
      BY <2>1, <2>2, <2>3, <3>1, <3>2
    <3>3. CASE k # j /\ m # j
      BY <1>2, <2>1, <3>1, <3>3 DEF InLine, Distinct
    <3> QED
      BY <3>2, <3>3
  <2>7. Carried(servers, life)
    <3>1. \A k \in DOMAIN servers : servers[k].job \in Jobs \cup {NoJob}
      BY RunningJob DEF Pool
    <3> QED
      BY <1>1, <1>2, <2>1, <3>1 DEF Carried
  <2>8. \A k \in Jobs : life[k] = "stranded" => order[k] \in 0..Cardinality(Jobs)
    BY <1>2, <2>1, <2>2
  <2>9. Dispatchable(life, servers, order, tool')
    BY <1>2, <2>1, <2>5, <2>6, <2>7, <2>8 DEF Dispatchable
  <2>10. StackSound(frames', life, servers)
    <3>1. \A k \in Jobs : phase[k] \in {"answering", "stranded"} => life[k] = phase[k]
      BY <1>1, <2>1
    <3>2. StackSound(frames, life, servers)
      BY <1>2, <3>1, StackStays
    <3> QED
      BY <1>1, <3>2
  <2>11. Coherent' /\ OnlyQueuedMove(life, phase')
    BY <1>1, <2>4, <2>9, <2>10, DispatchCoherent
  <2> QED
    BY <2>1, <2>11 DEF OnlyQueuedMove
<1> QED
  BY <1>3, <1>4 DEF Run

-------------------------------------------------------------------------------
(* What is latched, told and counted. *)

\* What the pool remembers besides its servers and its queue.
Books ==
    /\ tool \in [Jobs -> Executables] /\ alive \subseteq Contexts
    /\ LatchesOK /\ down \in BOOLEAN /\ changes \in 0..MaxChanges
    /\ openCounts \in [Roots -> Nat] /\ answers \in [Jobs -> Nat]
    /\ cancelled \subseteq Asked /\ toldUnlaunched \subseteq Jobs
    /\ \A j \in Jobs : answers[j] # 0 \/ j \in toldUnlaunched => phase[j] \in {"answering", "done"}
    /\ down => frames = <<>>

\* What is latched, told and still to be told is deserved.
Deserved ==
    /\ unavailable => setting \in BadExecutables
    /\ \A j \in toldUnlaunched : tool[j] \in BadExecutables
    /\ \A d \in DOMAIN frames : frames[d].outcome = "LaunchFailed" =>
          \A j \in frames[d].rest : tool[j] \in BadExecutables

PoolInv == Coherent /\ Books /\ (GoneRoots = {} => Deserved)

\* The actions of the servers' processes, and of callbacks.
Handling(i) == ProcessExits(i) \/ LaunchRefused(i) \/ Hello(i) \/ CommandCompletes(i)

LEMMA HandlingHandled ==
    ASSUME PoolInv, (\E i \in ServerIds : Handling(i)) \/ CallbackReturned
    PROVE  /\ Handled /\ ~down
           /\ UNCHANGED <<tool, cancelled, alive, openCounts, setting, down, changes>>
<1>1. Coherent /\ LatchesOK /\ (down => frames = <<>>)
  BY DEF PoolInv, Books
<1>2. CASE CallbackReturned
  <2>1. frames # <<>> /\ UNCHANGED <<tool, cancelled, alive, openCounts, setting, down, changes>>
    BY <1>2 DEF CallbackReturned, DiedLeavesAlone
  <2> QED
    BY <1>1, <1>2, <2>1, CallbackReturnedHandled
<1>3. ASSUME NEW i \in ServerIds, Handling(i)
      PROVE  /\ Handled /\ ~down
             /\ UNCHANGED <<tool, cancelled, alive, openCounts, setting, down, changes>>
  <2>1. CASE ProcessExits(i)
    <3>1. ~down /\ UNCHANGED <<tool, cancelled, alive, openCounts, setting, down, changes>>
      BY <2>1 DEF ProcessExits, Signalled, InEventLoop, DiedLeavesAlone
    <3> QED
      BY <1>1, <2>1, <3>1, ProcessExitsHandled
  <2>2. CASE LaunchRefused(i)
    <3>1. ~down /\ UNCHANGED <<tool, cancelled, alive, openCounts, setting, down, changes>>
      BY <2>2 DEF LaunchRefused, Signalled, InEventLoop, DiedLeavesAlone
    <3> QED
      BY <1>1, <2>2, <3>1, LaunchRefusedHandled
  <2>3. CASE Hello(i)
    <3>1. ~down /\ UNCHANGED <<tool, cancelled, alive, openCounts, setting, down, changes>>
      BY <2>3 DEF Hello, Signalled, InEventLoop, poolVars
    <3> QED
      BY <1>1, <2>3, <3>1, HelloHandled
  <2>4. CASE CommandCompletes(i)
    <3>1. ~down /\ UNCHANGED <<tool, cancelled, alive, openCounts, setting, down, changes>>
      BY <2>4 DEF CommandCompletes, Signalled, InEventLoop, poolVars
    <3> QED
      BY <1>1, <2>4, <3>1, CommandCompletesHandled
  <2> QED
    BY <1>3, <2>1, <2>2, <2>3, <2>4 DEF Handling
<1> QED
  BY <1>2, <1>3

\* Whoever is told, only once, and rightly.
LEMMA HandledBooks ==
    ASSUME PoolInv, Handled, ~down,
           UNCHANGED <<tool, cancelled, alive, openCounts, setting, down, changes>>
    PROVE  PoolInv'
<1>1. Coherent' /\ Advances /\ LatchesOK'
      /\ (unavailable' /\ GoneRoots = {} => unavailable \/ setting \in BadExecutables)
  BY DEF Handled, LatchesOK
<1>2. PICK these \in SUBSET Jobs, result \in {"Exited", "Crashed", "LaunchFailed"} : \E stack :
          /\ \A j \in these : phase[j] \in {"queued", "running", "stranded"}
          /\ stack \in Seq(Frame) /\ Tells(these, result, stack) /\ Inherits(stack)
          /\ result = "LaunchFailed" /\ GoneRoots = {} => Condemned(these)
  BY DEF Handled, Reports
<1>3. PICK stack :
          /\ \A j \in these : phase[j] \in {"queued", "running", "stranded"}
          /\ stack \in Seq(Frame) /\ Tells(these, result, stack) /\ Inherits(stack)
          /\ result = "LaunchFailed" /\ GoneRoots = {} => Condemned(these)
  BY <1>2
<1>4. /\ tool \in [Jobs -> Executables] /\ alive \subseteq Contexts /\ down \in BOOLEAN /\ changes \in 0..MaxChanges
      /\ openCounts \in [Roots -> Nat] /\ answers \in [Jobs -> Nat]
      /\ cancelled \subseteq Asked /\ toldUnlaunched \subseteq Jobs
      /\ \A j \in Jobs : answers[j] # 0 \/ j \in toldUnlaunched => phase[j] \in {"answering", "done"}
  BY DEF PoolInv, Books
<1>5. Asked' = Asked
  BY <1>1 DEF Advances, Asked
<1>6. CASE frames' = stack /\ UNCHANGED <<answers, toldUnlaunched>>
  <2>1. Books'
    BY <1>1, <1>4, <1>5, <1>6 DEF Books, Advances, LatchesOK
  <2>2. ASSUME GoneRoots = {} PROVE Deserved'
    BY <1>1, <1>3, <1>6, <2>2 DEF PoolInv, Deserved, Inherits
  <2> QED
    BY <1>1, <2>1, <2>2 DEF PoolInv
<1>7. ASSUME NEW j \in these, NEW f \in Frame,
             Wanted(j), phase'[j] = "answering",
             frames' = Append(stack, f), f.rest \subseteq these, f.outcome = result,
             answers' = [answers EXCEPT ![j] = @ + 1],
             toldUnlaunched' = IF result = "LaunchFailed" THEN toldUnlaunched \cup {j} ELSE toldUnlaunched
      PROVE  PoolInv'
  <2>1. /\ answers' \in [Jobs -> Nat] /\ \A k \in Jobs : k # j => answers'[k] = answers[k]
        /\ toldUnlaunched' \subseteq toldUnlaunched \cup {j}
    BY <1>4, <1>7
  <2>2. Books'
    BY <1>1, <1>4, <1>5, <1>7, <2>1 DEF Books, Advances, LatchesOK
  <2>3. ASSUME GoneRoots = {} PROVE Deserved'
    <3>1. Deserved
      BY <2>3 DEF PoolInv
    <3>2. result = "LaunchFailed" => \A k \in these : tool[k] \in BadExecutables
      <4>1. \A k \in Queued(phase) : tool[k] = setting
        BY DEF PoolInv, Coherent
      <4> QED
        BY <1>3, <2>3, <3>1, <4>1 DEF Condemned, Deserved, Queued
    <3>3. \A k \in toldUnlaunched' : tool[k] \in BadExecutables
      BY <1>7, <3>1, <3>2 DEF Deserved
    <3>4. \A d \in DOMAIN frames' :
             (d \in DOMAIN stack /\ frames'[d] = stack[d]) \/ frames'[d] = f
      BY <1>3, <1>7
    <3>5. ASSUME NEW d \in DOMAIN frames', frames'[d].outcome = "LaunchFailed", NEW k \in frames'[d].rest
          PROVE  tool[k] \in BadExecutables
      <4>1. CASE d \in DOMAIN stack /\ frames'[d] = stack[d]
        BY <1>3, <3>1, <3>5, <4>1 DEF Inherits, Deserved
      <4>2. CASE frames'[d] = f
        BY <1>7, <3>2, <3>5, <4>2
      <4> QED
        BY <3>4, <4>1, <4>2
    <3>6. unavailable' => setting \in BadExecutables
      BY <1>1, <2>3, <3>1 DEF Deserved
    <3> QED
      BY <3>3, <3>5, <3>6 DEF Deserved
  <2> QED
    BY <1>1, <2>2, <2>3 DEF PoolInv
<1> QED
  BY <1>3, <1>6, <1>7 DEF Tells

LEMMA PoolInvInit == Init => PoolInv
<1> SUFFICES ASSUME Init PROVE PoolInv
  OBVIOUS
<1> USE DEF Init
<1>1. Queued(phase) = {} /\ DOMAIN servers = {} /\ frames = <<>> /\ phase \in [Jobs -> Phases]
  BY DEF Queued, Phases
<1>2. Sound(servers, setting) /\ Carried(servers, phase) /\ InLine(phase, place) /\ Attended(phase, servers)
  BY <1>1 DEF Sound, Carried, InLine, Distinct, Attended
<1>3. StackSound(frames, phase, servers)
  BY <1>1 DEF StackSound
<1>4. Coherent
  BY <1>1, <1>2, <1>3, PoolAssumption, QueuedFinite DEF Coherent
<1>5. Books
  <2>1. changes \in 0..MaxChanges /\ openCounts \in [Roots -> Nat] /\ answers \in [Jobs -> Nat]
    BY PoolAssumption
  <2>2. tool \in [Jobs -> Executables]
    BY PoolAssumption
  <2> QED
    BY <2>1, <2>2 DEF Books, LatchesOK
<1>6. Deserved
  BY <1>1 DEF Deserved
<1> QED
  BY <1>4, <1>5, <1>6 DEF PoolInv

\* Actions that only touch servers, deadlines and the counts of repositories.
LEMMA ServersPreserve ==
    ASSUME PoolInv,
           \/ \E i \in ServerIds : StreamFails(i) \/ GraceExpires(i) \/ RetireTimerFires(i)
           \/ \E r \in Roots : RepositoryOpened(r) \/ RepositoryClosed(r)
    PROVE  /\ PoolInv'
           /\ UNCHANGED <<phase, answers, cancelled, alive, down, frames, tool, toldUnlaunched>>
<1>1. Coherent
  BY DEF PoolInv
<1>2. ASSUME NEW i \in ServerIds, StreamFails(i) \/ GraceExpires(i) \/ RetireTimerFires(i)
      PROVE  Coherent' /\ UNCHANGED <<phase, frames, jobVars, poolVars>>
  BY <1>1, <1>2, StreamFailsCoherent, RetireTimerFiresCoherent
     DEF StreamFails, GraceExpires, RetireTimerFires
<1>3. ASSUME NEW r \in Roots, RepositoryOpened(r) \/ RepositoryClosed(r)
      PROVE  /\ Coherent' /\ UNCHANGED <<phase, frames, jobVars, unavailable, failedRoots, setting, down>>
             /\ openCounts' \in [Roots -> Nat] /\ changes' \in 0..MaxChanges
  <2>1. openCounts \in [Roots -> Nat] /\ changes \in 0..MaxChanges
    BY DEF PoolInv, Books
  <2>2. Coherent'
    BY <1>1, <1>3, RepositoriesCoherent
  <2>3. CASE RepositoryOpened(r)
    BY <2>1, <2>2, <2>3, PoolAssumption DEF RepositoryOpened
  <2>4. CASE RepositoryClosed(r)
    BY <2>1, <2>2, <2>4 DEF RepositoryClosed
  <2> QED
    BY <1>3, <2>3, <2>4
<1>4. /\ Coherent'
      /\ UNCHANGED <<phase, frames, jobVars, unavailable, failedRoots, setting, down>>
      /\ openCounts' \in [Roots -> Nat] /\ changes' \in 0..MaxChanges
  BY <1>2, <1>3 DEF poolVars, PoolInv, Books
<1>5. Books'
  BY <1>4 DEF PoolInv, Books, LatchesOK, jobVars, Asked
<1>6. (GoneRoots = {} => Deserved)'
  BY <1>4 DEF PoolInv, Deserved, jobVars
<1> QED
  BY <1>4, <1>5, <1>6 DEF PoolInv, jobVars

LEMMA SettingsPreserve ==
    ASSUME PoolInv, NEW e \in Executables, SettingsChanged(e)
    PROVE  PoolInv' /\ UNCHANGED <<phase, answers, cancelled, alive, down>>
<1>1. /\ changes < MaxChanges /\ changes' = changes + 1 /\ setting' = e
      /\ unavailable' = FALSE /\ failedRoots' = {}
      /\ tool' = [j \in Jobs |-> IF j \in Queue THEN e ELSE tool[j]]
      /\ UNCHANGED <<phase, frames, place, cancelled, alive, answers, toldUnlaunched, openCounts, down>>
  BY DEF SettingsChanged
<1>2. Coherent /\ Books /\ (GoneRoots = {} => Deserved)
  BY DEF PoolInv
<1>3. Coherent'
  BY <1>2, SettingsChangedCoherent
<1>4. changes' \in 0..MaxChanges
  BY <1>1, <1>2, PoolAssumption DEF Books
<1>5. tool' \in [Jobs -> Executables]
  BY <1>1, <1>2 DEF Books
<1>6. Books'
  BY <1>1, <1>2, <1>4, <1>5 DEF Books, LatchesOK, Asked
<1>7. ASSUME Deserved PROVE Deserved'
  <2>1. \A j \in toldUnlaunched : j \in Jobs /\ tool'[j] = tool[j]
    BY <1>1, <1>2 DEF Books, Queue
  <2>2. \A d \in DOMAIN frames : \A j \in frames[d].rest : j \in Jobs /\ phase[j] = "stranded"
    <3>1. \A d \in DOMAIN frames : frames[d] \in Frame /\ \A j \in frames[d].rest : phase[j] = "stranded"
      BY <1>2 DEF Coherent, StackSound
    <3> QED
      BY <3>1 DEF Frame
  <2>3. \A d \in DOMAIN frames : \A j \in frames[d].rest : tool'[j] = tool[j]
    BY <1>1, <2>2 DEF Queue
  <2> QED
    BY <1>1, <1>7, <2>1, <2>3 DEF Deserved
<1> QED
  BY <1>1, <1>2, <1>3, <1>6, <1>7 DEF PoolInv

LEMMA CallersPreserve ==
    ASSUME PoolInv, NEW j \in Jobs, Cancel(j)
    PROVE  PoolInv'
<1>1. /\ phase[j] # "fresh" /\ cancelled' = cancelled \cup {j}
      /\ phase' = [phase EXCEPT ![j] = IF @ = "queued" THEN "done" ELSE @]
      /\ UNCHANGED <<servers, frames, tool, alive, answers, toldUnlaunched, unavailable, failedRoots,
                     openCounts, setting, down, changes>>
  BY DEF Cancel, poolVars
<1>2. Coherent /\ Books /\ (GoneRoots = {} => Deserved)
  BY DEF PoolInv
<1>3. Coherent'
  BY <1>2, CancelCoherent
<1>4. \A k \in Jobs : phase'[k] = phase[k] \/ (phase[k] = "queued" /\ phase'[k] = "done")
  BY <1>1, <1>2 DEF Coherent
<1>5. Asked' = Asked /\ j \in Asked
  BY <1>1, <1>4 DEF Asked
<1>6. Books'
  BY <1>1, <1>2, <1>4, <1>5 DEF Books, LatchesOK
<1> QED
  BY <1>1, <1>2, <1>3, <1>6 DEF PoolInv, Deserved

LEMMA DestroyPreserves ==
    ASSUME PoolInv, NEW c \in Contexts, DestroyContext(c)
    PROVE  PoolInv'
<1>1. /\ alive' = alive \ {c}
      /\ UNCHANGED <<servers, phase, frames, place, tool, cancelled, answers, toldUnlaunched, unavailable,
                     failedRoots, openCounts, setting, down, changes>>
  BY DEF DestroyContext, poolVars
<1>2. Coherent /\ Books /\ (GoneRoots = {} => Deserved)
  BY DEF PoolInv
<1>3. Coherent'
  BY <1>2, DestroyContextCoherent
<1>4. Books'
  BY <1>1, <1>2 DEF Books, LatchesOK, Asked
<1> QED
  BY <1>1, <1>2, <1>3, <1>4 DEF PoolInv, Deserved

LEMMA FallbackPreserves ==
    ASSUME PoolInv, NEW j \in Jobs, FallbackEnds(j)
    PROVE  PoolInv'
<1>1. /\ phase[j] = "handedOver" /\ phase' = [phase EXCEPT ![j] = "done"]
      /\ answers' = [answers EXCEPT ![j] = IF Wanted(j) THEN @ + 1 ELSE @]
      /\ UNCHANGED <<frames, tool, cancelled, alive, toldUnlaunched, unavailable,
                     failedRoots, openCounts, setting, down, changes>>
  BY DEF FallbackEnds, poolVars
<1>2. Coherent /\ Books /\ (GoneRoots = {} => Deserved)
  BY DEF PoolInv
<1>3. Coherent'
  BY <1>2, FallbackEndsCoherent
<1>4. phase'[j] = "done" /\ \A k \in Jobs : k # j => phase'[k] = phase[k]
  BY <1>1, <1>2 DEF Coherent
<1>5. Asked' = Asked
  BY <1>1, <1>4 DEF Asked
<1>6. answers' \in [Jobs -> Nat] /\ \A k \in Jobs : k # j => answers'[k] = answers[k]
  BY <1>1, <1>2 DEF Books
<1>7. Books'
  BY <1>1, <1>2, <1>4, <1>5, <1>6 DEF Books, LatchesOK
<1> QED
  BY <1>1, <1>2, <1>3, <1>7 DEF PoolInv, Deserved

LEMMA ShutdownPreserves ==
    ASSUME PoolInv, Shutdown
    PROVE  PoolInv'
<1>1. /\ frames = <<>> /\ down' = TRUE
      /\ phase' = [j \in Jobs |-> IF j \in Asked THEN "done" ELSE phase[j]]
      /\ UNCHANGED <<frames, tool, cancelled, alive, answers, toldUnlaunched, unavailable,
                     failedRoots, openCounts, setting, changes>>
  BY DEF Shutdown
<1>2. Coherent /\ Books /\ (GoneRoots = {} => Deserved)
  BY DEF PoolInv
<1>3. Coherent'
  BY <1>2, ShutdownCoherent
<1>4. \A k \in Jobs : IF k \in Asked THEN phase'[k] = "done" ELSE phase'[k] = "fresh"
  BY <1>1 DEF Asked
<1>5. Asked' = Asked
  BY <1>4 DEF Asked
<1>6. Books'
  BY <1>1, <1>2, <1>4, <1>5 DEF Books, LatchesOK, Asked
<1> QED
  BY <1>1, <1>2, <1>3, <1>6 DEF PoolInv, Deserved

LEMMA RunPoolPreserves ==
    ASSUME PoolInv, NEW j \in Jobs, Run(j)
    PROVE  PoolInv' /\ Asked' = Asked \cup {j} /\ j \notin Asked
<1>1. /\ phase[j] = "fresh" /\ (tool' = tool \/ tool' = [tool EXCEPT ![j] = setting])
      /\ UNCHANGED <<frames, cancelled, alive, answers, toldUnlaunched, unavailable,
                     failedRoots, openCounts, setting, down, changes>>
  BY DEF Run, poolVars
<1>2. Coherent /\ Books /\ (GoneRoots = {} => Deserved)
  BY DEF PoolInv
<1>3. /\ Coherent' /\ phase'[j] # "fresh"
      /\ \A k \in Jobs : k # j => /\ phase'[k] = "fresh" <=> phase[k] = "fresh"
                                  /\ phase[k] \in {"answering", "done"} => phase'[k] = phase[k]
  BY <1>2, RunCoherent DEF Books
<1>4. Asked' = Asked \cup {j} /\ j \notin Asked
  BY <1>1, <1>3 DEF Asked
<1>5. tool' \in [Jobs -> Executables] /\ \A k \in Jobs : k # j => tool'[k] = tool[k]
  BY <1>1, <1>2 DEF Books, Coherent
<1>6. Books'
  BY <1>1, <1>2, <1>3, <1>4, <1>5 DEF Books, LatchesOK
<1>7. ASSUME Deserved PROVE Deserved'
  <2>1. \A k \in toldUnlaunched : k \in Jobs /\ k # j
    BY <1>1, <1>2 DEF Books
  <2>2. \A d \in DOMAIN frames : \A k \in frames[d].rest : k \in Jobs /\ k # j
    <3>1. \A d \in DOMAIN frames : frames[d] \in Frame /\ \A k \in frames[d].rest : phase[k] = "stranded"
      BY <1>2 DEF Coherent, StackSound
    <3> QED
      BY <1>1, <3>1 DEF Frame
  <2> QED
    BY <1>1, <1>5, <1>7, <2>1, <2>2 DEF Deserved
<1> QED
  BY <1>2, <1>3, <1>4, <1>6, <1>7 DEF PoolInv

LEMMA NextPreservesPool == PoolInv /\ [Next]_vars => PoolInv'
<1> SUFFICES ASSUME PoolInv, [Next]_vars PROVE PoolInv'
  OBVIOUS
<1>1. CASE UNCHANGED vars
  BY <1>1 DEF vars, jobVars, poolVars, PoolInv, Coherent, Books, Deserved, LatchesOK, Asked, Queued,
              Attended, HasListener
<1>2. CASE (\E i \in ServerIds : Handling(i)) \/ CallbackReturned
  BY <1>2, HandlingHandled, HandledBooks
<1>3. CASE \/ \E i \in ServerIds : StreamFails(i) \/ GraceExpires(i) \/ RetireTimerFires(i)
           \/ \E r \in Roots : RepositoryOpened(r) \/ RepositoryClosed(r)
  BY <1>3, ServersPreserve
<1>4. CASE \E e \in Executables : SettingsChanged(e)
  BY <1>4, SettingsPreserve
<1>5. CASE \E j \in Jobs : Run(j) \/ Cancel(j) \/ FallbackEnds(j)
  BY <1>5, RunPoolPreserves, CallersPreserve, FallbackPreserves
<1>6. CASE \E c \in Contexts : DestroyContext(c)
  BY <1>6, DestroyPreserves
<1>7. CASE Shutdown
  BY <1>7, ShutdownPreserves
<1> QED
  BY <1>1, <1>2, <1>3, <1>4, <1>5, <1>6, <1>7 DEF Next, Handling

LEMMA PoolInvariant == Spec => []PoolInv
<1> QED
  BY PoolInvInit, NextPreservesPool, PTL DEF Spec

(***************************************************************************)
(* The pool's state stays within its types: the servers never exceed the   *)
(* cap, and no place in the deque lies beyond the jobs there are.          *)
(***************************************************************************)
THEOREM PoolTypeCorrect == Spec => []TypeOK
<1>1. PoolInv => TypeOK
  <2> SUFFICES ASSUME PoolInv PROVE TypeOK
    OBVIOUS
  <2>1. Coherent /\ Books
    BY DEF PoolInv
  <2>2. Pool \subseteq ServerIds /\ \A i \in Pool : servers[i] \in Server
    BY <2>1 DEF Coherent, Sound, SoundServer, Pool
  <2>3. \A d \in DOMAIN frames : frames[d] \in Frame
    BY <2>1 DEF Coherent, StackSound
  <2>4. toldUnlaunched \subseteq Asked
    BY <2>1 DEF Books, Asked
  <2> QED
    BY <2>1, <2>2, <2>3, <2>4 DEF TypeOK, Coherent, Books, LatchesOK
<1> QED
  BY <1>1, PoolInvariant, PTL

(***************************************************************************)
(* Every command in flight is on exactly one server, and in the event loop *)
(* a queue somebody waits in has servers on their way to it and none idle, *)
(* whatever the callbacks ask for, cancel or wait for while handlers are   *)
(* suspended.                                                              *)
(***************************************************************************)
THEOREM CommandsFindServers == Spec => []JobsFindServers
<1>1. PoolInv => JobsFindServers
  <2> SUFFICES ASSUME PoolInv PROVE JobsFindServers
    OBVIOUS
  <2>1. Coherent
    BY DEF PoolInv
  <2>2. Carried(servers, phase) /\ (frames = <<>> => Attended(phase, servers))
    BY <2>1 DEF Coherent
  <2>3. ASSUME NEW j \in Jobs
        PROVE  Cardinality({i \in Pool : servers[i].job = j}) = IF phase[j] = "running" THEN 1 ELSE 0
    <3> DEFINE S == {i \in Pool : servers[i].job = j}
    <3>0. j # NoJob
      BY PoolAssumption
    <3>1. CASE phase[j] = "running"
      <4>1. PICK i \in Pool : servers[i].job = j
        BY <2>2, <3>1 DEF Carried, Pool
      <4>2. S = {i}
        BY <2>2, <3>0, <4>1 DEF Carried, Pool
      <4> QED
        BY <3>1, <4>2, FS_Singleton
    <3>2. CASE phase[j] # "running"
      <4>1. S = {}
        BY <2>2, <3>0, <3>2 DEF Carried, Pool
      <4> QED
        BY <3>2, <4>1, FS_EmptySet
    <3> QED
      BY <3>1, <3>2
  <2>4. NoIdleWhileQueued
    BY <2>2 DEF NoIdleWhileQueued, Attended, Queue, Queued, Pool
  <2> QED
    BY <2>3, <2>4 DEF JobsFindServers, OneServerPerJob
<1> QED
  BY <1>1, PoolInvariant, PTL

(***************************************************************************)
(* The pool is latched out of use, and a caller told that its command      *)
(* could not be launched, only for an executable that cannot be launched,  *)
(* as long as no working directory is missing: a launch refused for that   *)
(* is not told from one refused for the executable.                        *)
(***************************************************************************)
THEOREM FailuresDeserved ==
    ASSUME GoneRoots = {}
    PROVE  Spec => []FailuresAreDeserved
<1>1. PoolInv => FailuresAreDeserved
  BY DEF PoolInv, Deserved, FailuresAreDeserved, UnavailableHasCause, OnlyDiagnosedJobsFail
<1> QED
  BY <1>1, PoolInvariant, PTL

\* No server of an executable that was configured before takes another job.
THEOREM OldServersRetire == Spec => []ServersRunConfiguredExecutable
<1>1. PoolInv => ServersRunConfiguredExecutable
  BY DEF PoolInv, Coherent, Sound, SoundServer, Pool, ServersRunConfiguredExecutable
<1> QED
  BY <1>1, PoolInvariant, PTL

-------------------------------------------------------------------------------
(* The contract of Vcs::Job. *)

Unowed == cancelled \cup {j \in Jobs : ~HasListener(j)}

\* A handler answers one job that is owed an answer and had none, or nobody.
LEMMA HandledKeepsContract ==
    ASSUME PoolInv, Handled, ~down,
           UNCHANGED <<tool, cancelled, alive, openCounts, setting, down, changes>>
    PROVE  (\E j \in Jobs : Promise!Answer(j)) \/ UNCHANGED Promise!contractVars
<1>1. Advances /\ Reports /\ Books
  BY DEF Handled, PoolInv
<1>2. Asked' = Asked
  BY <1>1 DEF Advances, Asked
<1>3. Unowed' = Unowed /\ down' = down
  BY DEF Unowed, HasListener
<1>4. PICK these \in SUBSET Jobs, result \in {"Exited", "Crashed", "LaunchFailed"} : \E stack :
          (\A j \in these : phase[j] \in {"queued", "running", "stranded"}) /\ Tells(these, result, stack)
  BY <1>1 DEF Reports
<1>5. \/ answers' = answers
      \/ \E j \in these : Wanted(j) /\ answers' = [answers EXCEPT ![j] = @ + 1]
  BY <1>4 DEF Tells
<1>6. CASE answers' = answers
  BY <1>2, <1>3, <1>6 DEF Promise!contractVars, Unowed
<1>7. ASSUME NEW j \in these, Wanted(j), answers' = [answers EXCEPT ![j] = @ + 1]
      PROVE  Promise!Answer(j)
  <2>1. j \in Jobs /\ j \in Asked /\ j \notin Unowed
    BY <1>4, <1>7 DEF Asked, Unowed, Wanted
  <2>2. answers[j] = 0
    BY <1>1, <1>4, <1>7 DEF Books
  <2>3. answers' = [answers EXCEPT ![j] = 1]
    BY <1>7, <2>2
  <2> QED
    BY <1>2, <1>3, <2>1, <2>2, <2>3 DEF Promise!Answer, Unowed
<1> QED
  BY <1>5, <1>6, <1>7

LEMMA StepKeepsPoolContract ==
    ASSUME PoolInv, [Next]_vars
    PROVE  [Promise!ContractNext]_Promise!contractVars
<1>0. Coherent /\ Books
  BY DEF PoolInv
<1>1. CASE UNCHANGED vars
  BY <1>1 DEF vars, jobVars, poolVars, Promise!contractVars, Asked, HasListener
<1>2. CASE (\E i \in ServerIds : Handling(i)) \/ CallbackReturned
  <2>1. Handled /\ ~down /\ UNCHANGED <<tool, cancelled, alive, openCounts, setting, down, changes>>
    BY <1>2, HandlingHandled
  <2>2. (\E j \in Jobs : Promise!Answer(j)) \/ UNCHANGED Promise!contractVars
    BY <2>1, HandledKeepsContract
  <2> QED
    BY <2>2 DEF Promise!ContractNext
<1>3. CASE \/ \E i \in ServerIds : StreamFails(i) \/ GraceExpires(i) \/ RetireTimerFires(i)
           \/ \E r \in Roots : RepositoryOpened(r) \/ RepositoryClosed(r)
           \/ \E e \in Executables : SettingsChanged(e)
  <2>1. UNCHANGED <<phase, answers, cancelled, alive, down>>
    BY <1>3, ServersPreserve, SettingsPreserve
  <2> QED
    BY <2>1 DEF Promise!contractVars, Asked, HasListener
<1>4. ASSUME NEW j \in Jobs, Run(j) PROVE Promise!Ask(j)
  <2>1. Asked' = Asked \cup {j} /\ j \notin Asked
    BY <1>4, RunPoolPreserves
  <2>2. UNCHANGED <<answers, cancelled, alive, down>>
    BY <1>4 DEF Run, poolVars
  <2> QED
    BY <2>1, <2>2 DEF Promise!Ask, HasListener
<1>5. ASSUME NEW j \in Jobs, Cancel(j) PROVE Promise!Excuse({j})
  <2>1. /\ ~down /\ down' = down /\ cancelled' = cancelled \cup {j} /\ UNCHANGED <<answers, alive>>
        /\ phase[j] # "fresh" /\ phase' = [phase EXCEPT ![j] = IF @ = "queued" THEN "done" ELSE @]
    BY <1>5 DEF Cancel, poolVars
  <2>2. Asked' = Asked
    BY <1>0, <2>1 DEF Asked, Coherent
  <2> QED
    BY <2>1, <2>2 DEF Promise!Excuse, HasListener
<1>6. ASSUME NEW j \in Jobs, FallbackEnds(j)
      PROVE  Promise!Answer(j) \/ UNCHANGED Promise!contractVars
  <2>1. /\ ~down /\ UNCHANGED <<cancelled, alive, down>>
        /\ phase[j] = "handedOver" /\ phase' = [phase EXCEPT ![j] = "done"]
        /\ answers' = [answers EXCEPT ![j] = IF Wanted(j) THEN @ + 1 ELSE @]
    BY <1>6 DEF FallbackEnds, InEventLoop, poolVars
  <2>2. Asked' = Asked /\ j \in Asked
    BY <1>0, <2>1 DEF Asked, Coherent
  <2>3. answers[j] = 0 /\ answers \in [Jobs -> Nat]
    BY <1>0, <2>1 DEF Books
  <2>4. CASE Wanted(j)
    <3>1. answers' = [answers EXCEPT ![j] = 1]
      BY <2>1, <2>3, <2>4
    <3> QED
      BY <2>1, <2>2, <2>3, <2>4, <3>1 DEF Promise!Answer, Wanted, HasListener
  <2>5. CASE ~Wanted(j)
    <3>1. answers' = answers
      BY <2>1, <2>3, <2>5
    <3> QED
      BY <2>1, <2>2, <3>1 DEF Promise!contractVars, HasListener
  <2> QED
    BY <2>4, <2>5
<1>7. ASSUME NEW c \in Contexts, DestroyContext(c)
      PROVE  \E S \in SUBSET Jobs : Promise!Excuse(S)
  <2>1. /\ ~down /\ alive' = alive \ {c} /\ alive \subseteq Contexts
        /\ UNCHANGED <<phase, cancelled, answers, down>>
    BY <1>0, <1>7 DEF DestroyContext, Books, poolVars
  <2> DEFINE lost == {j \in Jobs : ContextOf[j] = c}
  <2>2. {j \in Jobs : ~HasListener(j)}' = {j \in Jobs : ~HasListener(j)} \cup lost
    BY <2>1, PoolAssumption DEF HasListener
  <2>3. Promise!Excuse(lost)
    BY <2>1, <2>2 DEF Promise!Excuse, Asked
  <2> QED
    BY <2>3
<1>8. CASE Shutdown
  <2>1. /\ ~down /\ down' = TRUE /\ UNCHANGED answers
        /\ phase' = [j \in Jobs |-> IF j \in Asked THEN "done" ELSE phase[j]]
    BY <1>8 DEF Shutdown
  <2>2. Asked' = Asked
    BY <2>1 DEF Asked
  <2>3. cancelled \subseteq Jobs
    BY <1>0 DEF Books, Asked
  <2>4. Promise!Excuse(Jobs)
    BY <2>1, <2>2, <2>3 DEF Promise!Excuse
  <2> QED
    BY <2>4 DEF Promise!ContractNext
<1> QED
  BY <1>1, <1>2, <1>3, <1>4, <1>5, <1>6, <1>7, <1>8 DEF Next, Handling, Promise!ContractNext

LEMMA PoolContractBegins == Init => Promise!ContractInit
BY PoolAssumption DEF Init, Promise!ContractInit, Asked, HasListener

(***************************************************************************)
(* The pool implements the contract of Vcs::Job as the process transport   *)
(* does: whatever servers die, are replaced or are given up for plain      *)
(* processes, no job is answered twice, nor once it is cancelled or its    *)
(* context is dead.                                                        *)
(***************************************************************************)
THEOREM PoolKeepsContractSafety == Spec => Promise!ContractSafety
BY PoolContractBegins, StepKeepsPoolContract, PoolInvInit, NextPreservesPool, PTL
   DEF Spec, Promise!ContractSafety

-------------------------------------------------------------------------------
(* The deadlines of the servers. *)

\* A server's deadline, by the repositories that are open.
TimerOK(s) ==
    s.stage = "up" /\ ~s.retiring =>
        s.timer = IF ~InsideOpen(s.root) THEN "closed" ELSE IF s.job = NoJob THEN "idle" ELSE "off"

Timed(srv) == \A i \in DOMAIN srv : TimerOK(srv[i])

\* What dispatch() makes of each server.
LEMMA DispatchDeals ==
    ASSUME NEW life, NEW srv, NEW order, NEW exes, Dispatch(life, srv, order, exes)
    PROVE  \A i \in DOMAIN servers' :
              \/ i \in DOMAIN srv /\ servers'[i] = srv[i]
              \/ i \in DOMAIN srv /\ IsIdle(srv[i]) /\ \E j \in Jobs : servers'[i] = Execute(srv[i], j)
              \/ \E root, exe : servers'[i] = NewServer(root, exe)
<1> DEFINE queued    == {j \in Jobs : life[j] = "queued"}
           wanted    == {j \in queued : HasListener(j)}
           idle      == {i \in DOMAIN srv : IsIdle(srv[i])}
           served    == FirstServed(wanted, order, Cardinality(idle))
           abandoned == {j \in queued \ wanted : Cardinality(Before(wanted, order, j)) <= Cardinality(idle)}
           left      == queued \ (served \cup abandoned)
           new       == FirstServed(ServerIds \ DOMAIN srv, [i \in ServerIds |-> i], Cardinality(left))
           front     == CHOOSE j \in left : Before(left, order, j) = {}
           Carrier(a, i) == CHOOSE j \in served : a[j] = i
<1>1. PICK a \in Assignments(served, idle, srv, order) :
          servers' = [i \in DOMAIN srv \cup new |->
                        IF i \in new THEN NewServer(RootOf[front], exes[front])
                        ELSE IF \E j \in served : a[j] = i THEN Execute(srv[i], Carrier(a, i))
                        ELSE srv[i]]
  BY DEF Dispatch
<1>2. served \subseteq Jobs /\ a \in [served -> idle]
  BY DEF FirstServed, Assignments
<1>3. idle \subseteq DOMAIN srv /\ \A i \in idle : IsIdle(srv[i])
  OBVIOUS
<1> HIDE DEF served, idle, new, front
<1>4. ASSUME NEW i \in DOMAIN servers', i \notin new, \E j \in served : a[j] = i
      PROVE  i \in idle /\ Carrier(a, i) \in Jobs /\ servers'[i] = Execute(srv[i], Carrier(a, i))
  BY <1>1, <1>2, <1>4
<1> HIDE DEF Carrier
<1> QED
  BY <1>1, <1>3, <1>4

LEMMA DispatchTimed ==
    ASSUME NEW life, NEW srv, NEW order, NEW exes, Dispatch(life, srv, order, exes),
           Timed(srv), \A i \in DOMAIN srv : srv[i] \in Server
    PROVE  Timed(servers')
<1>1. ASSUME NEW s \in Server, TimerOK(s), IsIdle(s), NEW j \in Jobs PROVE TimerOK(Execute(s, j))
  <2>1. /\ Execute(s, j).job = j /\ Execute(s, j).root = s.root
        /\ Execute(s, j).timer = IF InsideOpen(s.root) THEN "off" ELSE s.timer
    BY DEF Execute, Server
  <2>2. j # NoJob
    BY PoolAssumption
  <2> QED
    BY <1>1, <2>1, <2>2 DEF TimerOK, IsIdle
<1>2. \A root, exe : TimerOK(NewServer(root, exe))
  BY DEF TimerOK, NewServer
<1>3. \A i \in DOMAIN servers' :
          \/ i \in DOMAIN srv /\ servers'[i] = srv[i]
          \/ i \in DOMAIN srv /\ IsIdle(srv[i]) /\ \E j \in Jobs : servers'[i] = Execute(srv[i], j)
          \/ \E root, exe : servers'[i] = NewServer(root, exe)
  BY DispatchDeals
<1> QED
  BY <1>1, <1>2, <1>3 DEF Timed

LEMMA ServerDiedTimed ==
    ASSUME NEW i, NEW result, NEW life, NEW stack, ServerDied(i, result, life, stack),
           Timed(servers), \A k \in Pool : servers[k] \in Server
    PROVE  Timed(servers')
<1> DEFINE others == [k \in Pool \ {i} |-> servers[k]]
<1>1. Timed(others) /\ \A k \in DOMAIN others : others[k] \in Server
  BY DEF Timed, Pool
<1>2. \/ \E l : Dispatch(l, others, place, tool)
      \/ servers' = others
  BY DEF ServerDied, FailStranded
<1> HIDE DEF others
<1> QED
  BY <1>1, <1>2, DispatchTimed

\* Nothing is opened or closed: the deadlines are judged as before.
LEMMA TimedStays ==
    ASSUME openCounts' = openCounts, Timed(servers')
    PROVE  Timed(servers)'
BY DEF Timed, TimerOK, InsideOpen

\* One server changes.
LEMMA TimedExcept ==
    ASSUME Timed(servers), NEW srv, NEW i \in Pool, DOMAIN srv = Pool,
           \A k \in Pool : k # i => srv[k] = servers[k], TimerOK(srv[i])
    PROVE  Timed(srv)
BY DEF Timed, Pool

LEMMA HandlingTimed ==
    ASSUME PoolInv, Timed(servers), NEW i \in ServerIds, Handling(i)
    PROVE  Timed(servers')
<1>0. i \in Pool /\ \A k \in Pool : servers[k] \in Server /\ SoundServer(servers[k], setting)
  BY DEF PoolInv, Coherent, Sound, SoundServer, Pool, Handling, ProcessExits, LaunchRefused, Hello,
         CommandCompletes, Signalled
<1>1. CASE ProcessExits(i) \/ LaunchRefused(i)
  <2>1. PICK result \in {"Crashed", "LaunchFailed"} : Died(i, result)
    BY <1>1 DEF ProcessExits, LaunchRefused
  <2>2. CASE servers' = [servers EXCEPT ![i].stage = "dead", ![i].job = NoJob]
    <3>1. /\ DOMAIN servers' = Pool /\ servers'[i].stage = "dead"
          /\ \A k \in Pool : k # i => servers'[k] = servers[k]
      BY <1>0, <2>2 DEF Pool, Server
    <3> QED
      BY <1>0, <3>1, TimedExcept DEF TimerOK
  <2>3. CASE \E life : ServerDied(i, result, life, frames)
    BY <1>0, <2>3, ServerDiedTimed
  <2> QED
    BY <2>1, <2>2, <2>3 DEF Died
<1>2. CASE Hello(i)
  <2> DEFINE up == [servers[i] EXCEPT !.stage = "up", !.helloSeen = TRUE,
                      !.timer = IF InsideOpen(servers[i].root) THEN "idle" ELSE "closed"]
             srv == [servers EXCEPT ![i] = up]
  <2>1. servers[i].stage = "starting" /\ Dispatch(phase, srv, place, tool)
    BY <1>2 DEF Hello
  <2>2. /\ up \in Server /\ up.root = servers[i].root /\ up.job = NoJob
        /\ up.timer = IF InsideOpen(servers[i].root) THEN "idle" ELSE "closed"
    BY <1>0, <2>1 DEF SoundServer, Server, Stages, Deadlines
  <2>3. DOMAIN srv = Pool /\ srv[i] = up /\ \A k \in Pool : k # i => srv[k] = servers[k]
    BY <1>0 DEF Pool
  <2> HIDE DEF up, srv
  <2>4. TimerOK(up)
    BY <2>2 DEF TimerOK
  <2>5. Timed(srv) /\ \A k \in DOMAIN srv : srv[k] \in Server
    BY <1>0, <2>2, <2>3, <2>4, TimedExcept
  <2> QED
    BY <2>1, <2>5, DispatchTimed
<1>3. CASE CommandCompletes(i)
  <2> DEFINE s == [servers[i] EXCEPT !.job = NoJob,
                      !.timer = IF InsideOpen(servers[i].root) THEN "idle" ELSE @]
             freed == [servers EXCEPT ![i].job = NoJob,
                                      ![i].timer = IF InsideOpen(servers[i].root) THEN "idle" ELSE @]
  <2>1. \/ servers' = freed
        \/ \E life : Dispatch(life, freed, place, tool)
    BY <1>3 DEF CommandCompletes
  <2>2. /\ s \in Server /\ s.root = servers[i].root /\ s.job = NoJob
        /\ s.stage = servers[i].stage /\ s.retiring = servers[i].retiring
        /\ s.timer = IF InsideOpen(servers[i].root) THEN "idle" ELSE servers[i].timer
    BY <1>0 DEF Server, Deadlines
  <2>3. DOMAIN freed = Pool /\ freed[i] = s /\ \A k \in Pool : k # i => freed[k] = servers[k]
    BY <1>0 DEF Pool
  <2> HIDE DEF s, freed
  <2>4. TimerOK(s)
    BY <1>0, <2>2 DEF TimerOK, Timed, Pool
  <2>5. Timed(freed) /\ \A k \in DOMAIN freed : freed[k] \in Server
    BY <1>0, <2>2, <2>3, <2>4, TimedExcept
  <2> QED
    BY <2>1, <2>5, DispatchTimed
<1> QED
  BY <1>1, <1>2, <1>3 DEF Handling

\* Timers that fire, streams that fail and settings that change: who has no deadline is of no use.
LEMMA TimedTouched ==
    ASSUME PoolInv, Timed(servers),
           \/ \E i \in ServerIds : StreamFails(i) \/ GraceExpires(i) \/ RetireTimerFires(i)
           \/ \E e \in Executables : SettingsChanged(e)
    PROVE  Timed(servers')
<1>0. DOMAIN servers = Pool /\ \A k \in Pool : servers[k] \in Server
  BY DEF PoolInv, Coherent, Sound, SoundServer, Pool
<1>1. ASSUME NEW i \in ServerIds, StreamFails(i) \/ GraceExpires(i) PROVE Timed(servers')
  <2>1. i \in Pool /\ servers' = [servers EXCEPT ![i].stage = "dying"]
    BY <1>1 DEF StreamFails, GraceExpires, Signalled
  <2>2. /\ DOMAIN servers' = Pool /\ servers'[i].stage = "dying"
        /\ \A k \in Pool : k # i => servers'[k] = servers[k]
    BY <1>0, <2>1 DEF Server
  <2> QED
    BY <2>1, <2>2, TimedExcept DEF TimerOK
<1>2. ASSUME NEW i \in ServerIds, RetireTimerFires(i) PROVE Timed(servers')
  <2>1. i \in Pool /\ servers' = [servers EXCEPT ![i].timer = "off", ![i].retiring = TRUE]
    BY <1>2 DEF RetireTimerFires, Signalled
  <2>2. /\ DOMAIN servers' = Pool /\ servers'[i].retiring
        /\ \A k \in Pool : k # i => servers'[k] = servers[k]
    BY <1>0, <2>1 DEF Server
  <2> QED
    BY <2>1, <2>2, TimedExcept DEF TimerOK
<1>3. ASSUME NEW e \in Executables, SettingsChanged(e) PROVE Timed(servers')
  <2>1. servers' = [i \in Pool |-> IF servers[i].exe = e THEN servers[i]
                                   ELSE [servers[i] EXCEPT !.retiring = TRUE]]
    BY <1>3 DEF SettingsChanged
  <2>2. \A k \in Pool : servers'[k] = servers[k] \/ servers'[k].retiring
    BY <1>0, <2>1 DEF Server
  <2> QED
    BY <1>0, <2>1, <2>2 DEF Timed, TimerOK
<1> QED
  BY <1>1, <1>2, <1>3

\* A repository's first object appears, or its last one goes.
LEMMA RepositoriesTimed ==
    ASSUME PoolInv, Timed(servers), NEW r \in Roots, RepositoryOpened(r) \/ RepositoryClosed(r)
    PROVE  Timed(servers)'
<1>0. DOMAIN servers = Pool /\ (\A k \in Pool : servers[k] \in Server) /\ openCounts \in [Roots -> Nat]
  BY DEF PoolInv, Books, Coherent, Sound, SoundServer, Pool
<1>1. CASE RepositoryOpened(r)
  <2>1. /\ openCounts' = [openCounts EXCEPT ![r] = @ + 1] /\ DOMAIN servers' = Pool
        /\ \A i \in Pool : servers'[i] =
              IF openCounts[r] > 0 \/ <<servers[i].root, r>> \notin Inside THEN servers[i]
              ELSE [servers[i] EXCEPT !.timer = IF servers[i].job = NoJob THEN "idle" ELSE "off"]
    BY <1>1 DEF RepositoryOpened, Pool
  <2>2. openCounts'[r] > 0 /\ \A o \in Roots : o # r => openCounts'[o] = openCounts[o]
    BY <1>0, <2>1
  <2>3. ASSUME NEW i \in Pool, openCounts[r] > 0 \/ <<servers[i].root, r>> \notin Inside
        PROVE  TimerOK(servers[i])'
    <3>1. servers'[i] = servers[i] /\ TimerOK(servers[i])
      BY <1>0, <2>1, <2>3 DEF Timed
    <3>2. InsideOpen(servers[i].root)' <=> InsideOpen(servers[i].root)
      BY <2>2, <2>3, <3>1 DEF InsideOpen
    <3> QED
      BY <3>1, <3>2 DEF TimerOK
  <2>4. ASSUME NEW i \in Pool, ~(openCounts[r] > 0 \/ <<servers[i].root, r>> \notin Inside)
        PROVE  TimerOK(servers[i])'
    <3>1. /\ servers'[i].root = servers[i].root /\ servers'[i].job = servers[i].job
          /\ servers'[i].timer = IF servers[i].job = NoJob THEN "idle" ELSE "off"
      BY <1>0, <2>1, <2>4 DEF Server
    <3>2. InsideOpen(servers[i].root)'
      BY <2>2, <2>4, <3>1 DEF InsideOpen
    <3> QED
      BY <3>1, <3>2 DEF TimerOK
  <2> QED
    BY <2>1, <2>3, <2>4 DEF Timed
<1>2. CASE RepositoryClosed(r)
  <2>1. /\ openCounts[r] > 0 /\ openCounts' = [openCounts EXCEPT ![r] = @ - 1] /\ DOMAIN servers' = Pool
        /\ \A i \in Pool : servers'[i] =
              IF openCounts'[r] > 0 \/ <<servers[i].root, r>> \notin Inside
                 \/ \E o \in Roots : openCounts'[o] > 0 /\ <<servers[i].root, o>> \in Inside
              THEN servers[i]
              ELSE [servers[i] EXCEPT !.timer = "closed"]
    BY <1>2 DEF RepositoryClosed, Pool
  <2>2. \A o \in Roots : o # r => openCounts'[o] = openCounts[o]
    BY <1>0, <2>1
  <2> DEFINE StillIn(i) == \E o \in Roots : openCounts'[o] > 0 /\ <<servers[i].root, o>> \in Inside
  <2>3. ASSUME NEW i \in Pool, <<servers[i].root, r>> \notin Inside \/ StillIn(i)
        PROVE  TimerOK(servers[i])'
    <3>1. servers'[i] = servers[i] /\ TimerOK(servers[i])
      BY <1>0, <2>1, <2>3 DEF Timed
    <3>2. InsideOpen(servers[i].root)' <=> StillIn(i)
      BY <3>1 DEF InsideOpen
    <3>3. InsideOpen(servers[i].root) <=> StillIn(i)
      BY <2>1, <2>2, <2>3 DEF InsideOpen
    <3> QED
      BY <3>1, <3>2, <3>3 DEF TimerOK
  <2>4. ASSUME NEW i \in Pool, ~(<<servers[i].root, r>> \notin Inside \/ StillIn(i))
        PROVE  TimerOK(servers[i])'
    <3>1. servers'[i].root = servers[i].root /\ servers'[i].timer = "closed"
      BY <1>0, <2>1, <2>4 DEF Server
    <3>2. ~InsideOpen(servers[i].root)'
      BY <2>4, <3>1 DEF InsideOpen
    <3> QED
      BY <3>1, <3>2 DEF TimerOK
  <2> QED
    BY <2>1, <2>3, <2>4 DEF Timed
<1> QED
  BY <1>1, <1>2

LEMMA TimedInvariant ==
    ASSUME PoolInv, Timed(servers), [Next]_vars
    PROVE  Timed(servers)'
<1>0. \A k \in Pool : servers[k] \in Server
  BY DEF PoolInv, Coherent, Sound, SoundServer, Pool
<1>1. CASE UNCHANGED vars
  BY <1>1, TimedStays DEF vars, poolVars
<1>2. ASSUME NEW i \in ServerIds, Handling(i) PROVE Timed(servers)'
  BY <1>2, HandlingHandled, HandlingTimed, TimedStays
<1>3. CASE CallbackReturned
  <2>1. \/ \E life : Dispatch(life, servers, place, tool)
        \/ \E k, result, life, stack : ServerDied(k, result, life, stack)
        \/ servers' = servers
    BY <1>3 DEF CallbackReturned, FailStranded
  <2>2. \A k \in DOMAIN servers : servers[k] \in Server
    BY <1>0 DEF Pool
  <2>3. Timed(servers')
    BY <1>0, <2>1, <2>2, DispatchTimed, ServerDiedTimed
  <2> QED
    BY <1>3, <2>3, TimedStays DEF CallbackReturned, DiedLeavesAlone
<1>4. CASE \/ \E i \in ServerIds : StreamFails(i) \/ GraceExpires(i) \/ RetireTimerFires(i)
           \/ \E e \in Executables : SettingsChanged(e)
  <2>1. openCounts' = openCounts
    BY <1>4 DEF StreamFails, GraceExpires, RetireTimerFires, SettingsChanged, poolVars
  <2> QED
    BY <1>4, <2>1, TimedTouched, TimedStays
<1>5. ASSUME NEW j \in Jobs, Run(j) PROVE Timed(servers)'
  <2>1. openCounts' = openCounts
    BY <1>5 DEF Run, poolVars
  <2>2. \/ servers' = servers
        \/ \E life, order, exes : Dispatch(life, servers, order, exes)
    BY <1>5 DEF Run
  <2>3. \A k \in DOMAIN servers : servers[k] \in Server
    BY <1>0 DEF Pool
  <2>4. Timed(servers')
    BY <2>2, <2>3, DispatchTimed
  <2> QED
    BY <2>1, <2>4, TimedStays
<1>6. CASE \/ \E j \in Jobs : Cancel(j) \/ FallbackEnds(j)
           \/ \E c \in Contexts : DestroyContext(c)
  BY <1>6, TimedStays DEF Cancel, FallbackEnds, DestroyContext, poolVars
<1>7. ASSUME NEW r \in Roots, RepositoryOpened(r) \/ RepositoryClosed(r) PROVE Timed(servers)'
  BY <1>7, RepositoriesTimed
<1>8. CASE Shutdown
  <2>1. DOMAIN servers' = {}
    BY <1>8 DEF Shutdown
  <2> QED
    BY <2>1 DEF Timed
<1> QED
  BY <1>1, <1>2, <1>3, <1>4, <1>5, <1>6, <1>7, <1>8 DEF Next, Handling

(***************************************************************************)
(* The deadlines of the class comment: a server that is up is to retire    *)
(* soon outside every open repository, once idle for long inside one,      *)
(* whatever the order of commands, openings, closings and callbacks.       *)
(***************************************************************************)
THEOREM ServersRetireOnTime == Spec => []RetireTimerDiscipline
<1>1. Init => Timed(servers)
  BY DEF Init, Timed
<1>2. Timed(servers) => RetireTimerDiscipline
  BY DEF Timed, TimerOK, RetireTimerDiscipline, Pool
<1>3. PoolInv /\ Timed(servers) /\ [Next]_vars => Timed(servers)'
  BY TimedInvariant
<1> QED
  BY <1>1, <1>2, <1>3, PoolInvariant, PTL DEF Spec

================================================================================
