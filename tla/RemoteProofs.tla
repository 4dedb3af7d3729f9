----------------------------- MODULE RemoteProofs -----------------------------
(***************************************************************************)
(* Theorems of GitPush and of IncomingCheck, of what is sent to a remote   *)
(* and of what is asked of it: for any repositories, histories and answers,*)
(* and for any number of commits, submodules and events. Theorems of       *)
(* RepositoryWindows, of which repository a window is on, what is unfolded *)
(* and which repositories are listed: for any roots, directories, lists,   *)
(* filters and, but for the list, instances of the program.                *)
(***************************************************************************)
EXTENDS GitPush, IncomingCheck, RepositoryWindows, ArrivalsProofs, SequenceTheorems, TLAPS

-------------------------------------------------------------------------------
(* The order of a plan's steps: appendPushSteps().                           *)

\* SetToSeq lists a finite set, each member of it.
LEMMA SetListed ==
    ASSUME NEW S, IsFiniteSet(S)
    PROVE  /\ Cardinality(S) \in Nat
           /\ SetToSeq(S) \in [1..Cardinality(S) -> S]
           /\ Len(SetToSeq(S)) = Cardinality(S)
           /\ \A x \in S : \E i \in 1..Cardinality(S) : SetToSeq(S)[i] = x
<1> DEFINE n == Cardinality(S)
<1>1. n \in Nat /\ ExistsBijection(1..n, S)
  BY FS_CardinalityType
<1>2. \E f \in [1..n -> S] : IsInjective(f)
  BY <1>1 DEF ExistsBijection, Bijection, Injection
<1>3. SetToSeq(S) \in [1..n -> S] /\ IsInjective(SetToSeq(S))
  BY <1>2 DEF SetToSeq
<1>4. SetToSeq(S) \in Surjection(1..n, S)
  <2>1. SetToSeq(S) \in Injection(1..n, S)
    BY <1>3 DEF Injection
  <2>2. IsFiniteSet(1..n) /\ Cardinality(1..n) = n
    BY <1>1, FS_Interval
  <2> QED
    BY <1>1, <2>1, <2>2, FS_Injection
<1>5. Len(SetToSeq(S)) = n
  BY <1>1, <1>3
<1> QED
  BY <1>1, <1>3, <1>4, <1>5 DEF Surjection

\* The steps of a repository's submodules and its own, of those of its submodules.
StepsOf(f, r, nodes) ==
    FlattenSeq([i \in 1..Len(ChildSeq(r)) |-> f[ChildSeq(r)[i]]]) \o (IF r \in nodes THEN <<BranchStep(r)>> ELSE <<>>)

NodeSteps(nodes) == {BranchStep(s) : s \in nodes}

\* A submodule comes after every submodule of its own that is pushed.
ChildrenFirst(nodes) ==
    {sq \in Seq(NodeSteps(nodes)) :
        \A i \in 1..Len(sq) : \A k \in Children(sq[i].repo) \cap nodes : \E j \in 1..(i-1) : sq[j].repo = k}

LEMMA ChildrenListed ==
    ASSUME NEW r
    PROVE  /\ Len(ChildSeq(r)) \in Nat
           /\ ChildSeq(r) \in [1..Len(ChildSeq(r)) -> Children(r)]
           /\ \A k \in Children(r) : \E i \in 1..Len(ChildSeq(r)) : ChildSeq(r)[i] = k
<1>1. IsFiniteSet(Children(r))
  BY GitPushAssumption, FS_Subset DEF Children
<1> QED
  BY <1>1, SetListed DEF ChildSeq

LEMMA ConcatChildrenFirst ==
    ASSUME NEW nodes
    PROVE  /\ \A a, b \in ChildrenFirst(nodes) : a \o b \in ChildrenFirst(nodes)
           /\ <<>> \in ChildrenFirst(nodes)
           /\ ChildrenFirst(nodes) \in SUBSET Seq(NodeSteps(nodes))
<1>1. ASSUME NEW a \in ChildrenFirst(nodes), NEW b \in ChildrenFirst(nodes) PROVE a \o b \in ChildrenFirst(nodes)
  <2> DEFINE c == a \o b
  <2>1. a \in Seq(NodeSteps(nodes)) /\ b \in Seq(NodeSteps(nodes))
    BY DEF ChildrenFirst
  <2>2. /\ Len(a) \in Nat /\ Len(b) \in Nat /\ Len(c) = Len(a) + Len(b) /\ c \in Seq(NodeSteps(nodes))
        /\ \A i \in 1..(Len(a) + Len(b)) : c[i] = IF i <= Len(a) THEN a[i] ELSE b[i - Len(a)]
    BY <2>1, ConcatProperties, LenProperties
  <2> HIDE DEF c
  <2>3. ASSUME NEW i \in 1..Len(c), NEW k \in Children(c[i].repo) \cap nodes PROVE \E j \in 1..(i-1) : c[j].repo = k
    <3>1. CASE i <= Len(a)
      <4>1. i \in 1..Len(a) /\ c[i] = a[i]
        BY <2>2, <3>1
      <4>2. PICK j \in 1..(i-1) : a[j].repo = k
        BY <2>3, <4>1 DEF ChildrenFirst
      <4>3. c[j] = a[j]
        BY <2>2, <4>1
      <4> QED
        BY <4>2, <4>3
    <3>2. CASE i > Len(a)
      <4>1. i - Len(a) \in 1..Len(b) /\ c[i] = b[i - Len(a)]
        BY <2>2, <3>2
      <4>2. PICK j \in 1..((i - Len(a)) - 1) : b[j].repo = k
        BY <2>3, <4>1 DEF ChildrenFirst
      <4>3. j + Len(a) \in 1..(i-1) /\ c[j + Len(a)] = b[j]
        <5>1. i \in Int /\ j \in Int /\ j >= 1 /\ j <= (i - Len(a)) - 1 /\ i <= Len(a) + Len(b)
          BY <2>2, <4>1
        <5>2. j + Len(a) \in 1..(i-1) /\ j + Len(a) \in 1..(Len(a) + Len(b)) /\ ~(j + Len(a) <= Len(a))
          BY <2>2, <5>1
        <5>3. (j + Len(a)) - Len(a) = j
          BY <2>2, <5>1
        <5> QED
          BY <2>2, <5>2, <5>3
      <4> QED
        BY <4>2, <4>3
    <3> QED
      BY <2>2, <3>1, <3>2
  <2>4. c \in ChildrenFirst(nodes)
    BY <2>2, <2>3 DEF ChildrenFirst
  <2> QED
    BY <2>4 DEF c
<1>2. <<>> \in ChildrenFirst(nodes)
  BY DEF ChildrenFirst
<1> QED
  BY <1>1, <1>2 DEF ChildrenFirst

\* How deep a submodule is nested.
Depths == {depth \in [Repos -> 0..Cardinality(Submodules)] : \A s \in Submodules : depth[Parent[s]] < depth[s]}
Deeper(depth, m) == {r \in Repos : depth[r] > Cardinality(Submodules) - m}

LEMMA DeeperChildren ==
    ASSUME NEW depth \in Depths, NEW m \in Nat
    PROVE  /\ Cardinality(Submodules) \in Nat
           /\ Deeper(depth, 0) = {} /\ Deeper(depth, Cardinality(Submodules) + 1) = Repos
           /\ Deeper(depth, m) \subseteq Deeper(depth, m + 1)
           /\ \A r \in Deeper(depth, m + 1) : Children(r) \subseteq Deeper(depth, m)
<1>1. Cardinality(Submodules) \in Nat /\ Submodules \subseteq Repos
  BY GitPushAssumption, FS_CardinalityType DEF Repos
<1>2. \A r \in Repos : depth[r] \in 0..Cardinality(Submodules)
  BY DEF Depths
<1>3. \A r \in Repos : \A k \in Children(r) : k \in Repos /\ depth[r] < depth[k]
  BY <1>1 DEF Children, Depths
<1>4. Deeper(depth, 0) = {} /\ Deeper(depth, Cardinality(Submodules) + 1) = Repos
  BY <1>1, <1>2 DEF Deeper
<1>5. Deeper(depth, m) \subseteq Deeper(depth, m + 1)
  BY <1>1, <1>2 DEF Deeper
<1>6. \A r \in Deeper(depth, m + 1) : Children(r) \subseteq Deeper(depth, m)
  BY <1>1, <1>2, <1>3 DEF Deeper
<1> QED
  BY <1>1, <1>4, <1>5, <1>6

LEMMA StepsOfTyped ==
    ASSUME NEW nodes, NEW E, NodeSteps(nodes) \subseteq E, NEW r, NEW f, \A k \in Children(r) : f[k] \in Seq(E)
    PROVE  StepsOf(f, r, nodes) \in Seq(E)
<1> DEFINE n == Len(ChildSeq(r))
           ss == [i \in 1..n |-> f[ChildSeq(r)[i]]]
<1>1. n \in Nat /\ ss \in [1..n -> Seq(E)]
  BY ChildrenListed
<1>2. FlattenSeq(ss) \in Seq(E)
  <2>1. \A a, b \in Seq(E) : a \o b \in Seq(E)
    OBVIOUS
  <2>2. <<>> \in Seq(E)
    OBVIOUS
  <2> HIDE DEF ss, n
  <2> QED
    BY <1>1, <2>1, <2>2, FlattenWithin
<1>3. (IF r \in nodes THEN <<BranchStep(r)>> ELSE <<>>) \in Seq(E)
  BY DEF NodeSteps
<1> QED
  BY <1>2, <1>3 DEF StepsOf

\* The recursion over the submodules has a solution, since no submodule is inside itself.
LEMMA StepsExist ==
    ASSUME NEW nodes, NEW depth \in Depths
    PROVE  \E f : f = [r \in Repos |-> StepsOf(f, r, nodes)]
<1> DEFINE N == Cardinality(Submodules) + 1
           E == NodeSteps(nodes)
           D(m) == Deeper(depth, m)
           P(m) == \E f \in [D(m) -> Seq(E)] : \A r \in D(m) : f[r] = StepsOf(f, r, nodes)
<1>1. N \in Nat
  BY DeeperChildren
<1>2. P(0)
  <2> DEFINE f == [r \in D(0) |-> <<>>]
  <2>1. D(0) = {}
    BY DeeperChildren
  <2>2. f \in [D(0) -> Seq(E)] /\ \A r \in D(0) : f[r] = StepsOf(f, r, nodes)
    BY <2>1
  <2> QED
    BY <2>2
<1>3. ASSUME NEW m \in 0..N, m < N, P(m) PROVE P(m + 1)
  <2>1. PICK f \in [D(m) -> Seq(E)] : \A r \in D(m) : f[r] = StepsOf(f, r, nodes)
    BY <1>3
  <2> DEFINE g == [r \in D(m+1) |-> IF r \in D(m) THEN f[r] ELSE StepsOf(f, r, nodes)]
  <2>2. m \in Nat /\ D(m) \subseteq D(m+1) /\ \A r \in D(m+1) : Children(r) \subseteq D(m)
    BY <1>1, <1>3, DeeperChildren
  <2>3. \A r \in D(m) : g[r] = f[r]
    BY <2>2
  <2>4. ASSUME NEW r \in D(m+1) PROVE g[r] \in Seq(E) /\ g[r] = StepsOf(g, r, nodes)
    <3>1. \A k \in Children(r) : g[k] = f[k] /\ f[k] \in Seq(E)
      BY <2>2, <2>3, <2>4
    <3>2. StepsOf(g, r, nodes) = StepsOf(f, r, nodes)
      <4>1. [i \in 1..Len(ChildSeq(r)) |-> g[ChildSeq(r)[i]]] = [i \in 1..Len(ChildSeq(r)) |-> f[ChildSeq(r)[i]]]
        <5> HIDE DEF g
        <5> QED
          BY <3>1, ChildrenListed
      <4> HIDE DEF g
      <4> QED
        BY <4>1 DEF StepsOf
    <3>3. g[r] = StepsOf(f, r, nodes)
      BY <2>1, <2>4
    <3>4. StepsOf(f, r, nodes) \in Seq(E)
      BY <3>1, StepsOfTyped
    <3> HIDE DEF g
    <3> QED
      BY <3>2, <3>3, <3>4
  <2>5. g \in [D(m+1) -> Seq(E)]
    BY <2>4
  <2> HIDE DEF g
  <2> QED
    BY <2>4, <2>5
<1>4. P(N)
  <2> DEFINE S == {m \in 0..N : P(m)}
  <2> HIDE DEF P
  <2>1. 0 \in S /\ \A m \in 0..N : m < N /\ m \in S => m + 1 \in S
    BY <1>1, <1>2, <1>3
  <2>2. \A m \in 0..N : m \in S
    <3> HIDE DEF S, N
    <3> QED
      BY <1>1, <2>1, InductUpTo
  <2>3. N \in 0..N
    BY <1>1
  <2> QED
    BY <2>2, <2>3
<1>5. D(N) = Repos
  BY DeeperChildren
<1>6. PICK f \in [Repos -> Seq(E)] : \A r \in Repos : f[r] = StepsOf(f, r, nodes)
  BY <1>4, <1>5
<1>7. f = [r \in Repos |-> StepsOf(f, r, nodes)]
  BY <1>6
<1> QED
  BY <1>7

\* A solution of the recursion lists every pushed submodule it reaches, below it what is nested in it.
LEMMA StepsListed ==
    ASSUME NEW nodes, NEW depth \in Depths, NEW f, f = [r \in Repos |-> StepsOf(f, r, nodes)]
    PROVE  \A r \in Repos : /\ f[r] \in ChildrenFirst(nodes)
                            /\ r \in nodes => Contains(f[r], BranchStep(r))
                            /\ \A k \in Children(r) \cap nodes : Contains(f[r], BranchStep(k))
<1> DEFINE N == Cardinality(Submodules) + 1
           D(m) == Deeper(depth, m)
           Q == ChildrenFirst(nodes)
           E == NodeSteps(nodes)
           Laid(r) == f[r] \in Q /\ (r \in nodes => Contains(f[r], BranchStep(r)))
           Above(r) == \A k \in Children(r) \cap nodes : Contains(f[r], BranchStep(k))
           P(m) == \A r \in D(m) : Laid(r) /\ Above(r)
<1>1. N \in Nat
  BY DeeperChildren
<1>2. P(0)
  BY DeeperChildren
<1>3. /\ \A a, b \in Q : a \o b \in Q
      /\ <<>> \in Q
      /\ Q \in SUBSET Seq(E)
  BY ConcatChildrenFirst
<1>4. ASSUME NEW r \in Repos, \A k \in Children(r) : Laid(k)
      PROVE  Laid(r) /\ Above(r)
  <2> DEFINE n == Len(ChildSeq(r))
             ss == [i \in 1..n |-> f[ChildSeq(r)[i]]]
             below == FlattenSeq(ss)
             own == IF r \in nodes THEN <<BranchStep(r)>> ELSE <<>>
  <2>1. /\ n \in Nat
        /\ ChildSeq(r) \in [1..n -> Children(r)]
        /\ \A k \in Children(r) : \E i \in 1..n : ChildSeq(r)[i] = k
    BY ChildrenListed
  <2>2. ss \in [1..n -> Q] /\ \A i \in 1..n : ss[i] = f[ChildSeq(r)[i]]
    <3> HIDE DEF Q, n
    <3> QED
      BY <1>4, <2>1
  <2>3. below \in Q
    <3> HIDE DEF Q, n, ss, E
    <3> QED
      BY <1>3, <2>1, <2>2, FlattenWithin
  <2>4. f[r] = below \o own
    BY DEF StepsOf
  <2>5. below \in Seq(E) /\ own \in Seq(E)
    <3>1. own \in Seq(E)
      BY DEF NodeSteps
    <3> HIDE DEF below, own, Q, E
    <3> QED
      BY <1>3, <2>3, <3>1
  <2>6. \A k \in Children(r) \cap nodes : Contains(below, BranchStep(k))
    <3> SUFFICES ASSUME NEW k \in Children(r) \cap nodes PROVE Contains(below, BranchStep(k))
      OBVIOUS
    <3>1. PICK i \in 1..n : ChildSeq(r)[i] = k
      BY <2>1
    <3>2. Contains(ss[i], BranchStep(k))
      BY <1>4, <2>2, <3>1
    <3>3. ss \in [1..n -> Seq(E)]
      <4> HIDE DEF ss, Q, n, E
      <4> QED
        BY <1>3, <2>2
    <3> HIDE DEF ss, n, E
    <3> QED
      BY <2>1, <3>2, <3>3, FlattenHas
  <2>7. \A x : Contains(f[r], x) <=> Contains(below, x) \/ Contains(own, x)
    <3> HIDE DEF below, own, E
    <3>1. \A x : Contains(below \o own, x) <=> Contains(below, x) \/ Contains(own, x)
      BY <2>5, HasConcat
    <3> QED
      BY <2>4, <3>1
  <2>8. Above(r)
    <3> HIDE DEF below, own
    <3> QED
      BY <2>6, <2>7
  <2>9. r \in nodes => Contains(f[r], BranchStep(r))
    <3>1. r \in nodes => Contains(own, BranchStep(r))
      BY DEF Contains
    <3> HIDE DEF below, own
    <3> QED
      BY <2>7, <3>1
  <2>10. f[r] \in Q
    <3>1. CASE r \notin nodes
      <4>1. own = <<>>
        BY <3>1
      <4> HIDE DEF below, own, Q, E
      <4>2. below \o <<>> \in Q
        BY <1>3, <2>3
      <4> QED
        BY <2>4, <4>1, <4>2
    <3>2. CASE r \in nodes
      <4> DEFINE c == below \o own
      <4>1. own = <<BranchStep(r)>> /\ Len(own) = 1 /\ own[1] = BranchStep(r)
        BY <3>2
      <4>2. /\ Len(below) \in Nat /\ Len(c) = Len(below) + Len(own) /\ c \in Seq(E)
            /\ \A i \in 1..(Len(below) + Len(own)) : c[i] = IF i <= Len(below) THEN below[i] ELSE own[i - Len(below)]
        <5> HIDE DEF below, own, E
        <5> QED
          BY <2>5, ConcatProperties, LenProperties
      <4> HIDE DEF c
      <4>3. ASSUME NEW i \in 1..Len(c), NEW k \in Children(c[i].repo) \cap nodes PROVE \E j \in 1..(i-1) : c[j].repo = k
        <5> HIDE DEF below, own
        <5>1. CASE i <= Len(below)
          <6>1. i \in 1..Len(below) /\ c[i] = below[i]
            BY <4>2, <5>1
          <6>2. PICK j \in 1..(i-1) : below[j].repo = k
            BY <2>3, <4>3, <6>1 DEF ChildrenFirst
          <6>3. c[j] = below[j]
            BY <4>1, <4>2, <6>1
          <6> QED
            BY <6>2, <6>3
        <5>2. CASE i > Len(below)
          <6>1. i = Len(below) + 1 /\ c[i] = BranchStep(r)
            BY <4>1, <4>2, <5>2
          <6>2. k \in Children(r) \cap nodes
            BY <4>3, <6>1 DEF BranchStep
          <6>3. Contains(below, BranchStep(k))
            BY <2>6, <6>2
          <6>4. PICK j \in 1..Len(below) : below[j] = BranchStep(k)
            BY <6>3 DEF Contains
          <6>5. c[j] = below[j] /\ j \in 1..(i-1)
            BY <4>1, <4>2, <6>1
          <6> QED
            BY <6>4, <6>5 DEF BranchStep
        <5> QED
          BY <4>1, <4>2, <5>1, <5>2
      <4>4. c \in Q
        BY <4>2, <4>3 DEF ChildrenFirst
      <4> HIDE DEF below, own, Q
      <4> QED
        BY <2>4, <4>4 DEF c
    <3> QED
      BY <3>1, <3>2
  <2> HIDE DEF below, own, Q, Above
  <2> QED
    BY <2>8, <2>9, <2>10
<1>5. ASSUME NEW m \in 0..N, m < N, P(m) PROVE P(m + 1)
  <2>1. m \in Nat /\ D(m+1) \subseteq Repos /\ \A r \in D(m+1) : Children(r) \subseteq D(m)
    BY <1>1, <1>5, DeeperChildren DEF Deeper
  <2> HIDE DEF Laid, Above, D
  <2> QED
    BY <1>4, <1>5, <2>1
<1>6. P(N)
  <2> DEFINE S == {m \in 0..N : P(m)}
  <2> HIDE DEF P
  <2>1. 0 \in S /\ \A m \in 0..N : m < N /\ m \in S => m + 1 \in S
    BY <1>1, <1>2, <1>5
  <2>2. \A m \in 0..N : m \in S
    <3> HIDE DEF S, N
    <3> QED
      BY <1>1, <2>1, InductUpTo
  <2>3. N \in 0..N
    BY <1>1
  <2> QED
    BY <2>2, <2>3
<1>7. D(N) = Repos
  BY DeeperChildren
<1> QED
  BY <1>6, <1>7

\* The plan's steps of the submodules: each after those nested in it, the root's own children among them.
LEMMA PushStepsOrdered ==
    ASSUME NEW nodes \in SUBSET Submodules
    PROVE  /\ appendPushSteps(nodes) \in ChildrenFirst(nodes)
           /\ \A k \in Children(Root) \cap nodes : Contains(appendPushSteps(nodes), BranchStep(k))
<1> DEFINE f == CHOOSE g : g = [r \in Repos |-> StepsOf(g, r, nodes)]
<1>1. PICK depth \in Depths : TRUE
  BY GitPushAssumption DEF Depths
<1>2. f = [r \in Repos |-> StepsOf(f, r, nodes)]
  <2>1. \E g : g = [r \in Repos |-> StepsOf(g, r, nodes)]
    BY StepsExist
  <2> QED
    BY <2>1
<1>3. appendPushSteps(nodes) = f[Root]
  BY Zenon DEF appendPushSteps, StepsOf
<1>4. Root \in Repos
  BY DEF Repos
<1> HIDE DEF f
<1> QED
  BY <1>2, <1>3, <1>4, StepsListed

-------------------------------------------------------------------------------
(* A push.                                                                   *)

\* A push is a record of these fields.
Shape(p) ==
    p = [stage |-> p.stage, mode |-> p.mode, upTo |-> p.upTo, asked |-> p.asked, nodes |-> p.nodes,
         refused |-> p.refused, own |-> p.own, steps |-> p.steps, index |-> p.index, retry |-> p.retry,
         moved |-> p.moved, blind |-> p.blind, before |-> p.before, ok |-> p.ok, refreshed |-> p.refreshed]

Kinds == {"gitlinks", "unpublished", "onBranch", "contains", "branch", "line"}
Asking(p) == \A x \in p.asked : x.q \in Kinds

Working == {"confirm", "run", "offer"}
Resting == {"none", "plan", "ended"}

(***************************************************************************)
(* The inductive invariant: while a push works, it holds the lock of every *)
(* submodule its plan names, and no lock at any other time; a submodule    *)
(* that is locked does not begin to write.                                 *)
(***************************************************************************)
ExclusionInv ==
    /\ Shape(push) /\ Asking(push)
    /\ push.stage \in Working \cup Resting
    /\ push.stage \in Working => locked = PushedSubmodules(push.steps) /\ locked \cap writing = {}
    /\ push.stage \in Resting => locked = {}

\* An answer adds queries and findings to the plan and leaves the rest of the push as it is.
Plans(p, q) == Shape(q) /\ Asking(q) /\ q.stage = p.stage /\ q.steps = p.steps

LEMMA AsksPlans ==
    ASSUME NEW p, Shape(p), Asking(p), NEW more, \A x \in more : x.q \in Kinds
    PROVE  Plans(p, Asks(p, more))
BY DEF Plans, Shape, Asking, Asks

LEMMA RefusePlans ==
    ASSUME NEW p, Shape(p), Asking(p)
    PROVE  Plans(p, Refuse(p))
<1>1. ASSUME NEW yes PROVE Plans(p, [p EXCEPT !.refused = yes])
  BY DEF Plans, Shape, Asking
<1> QED
  BY <1>1 DEF Refuse

LEMMA ScanPlans ==
    ASSUME NEW p, Shape(p), Asking(p), NEW s, NEW c
    PROVE  Plans(p, scanSubmodulesForPush(p, s, c))
<1>1. PICK more : more = {Query("onBranch", s, HEAD), Query("contains", s, c), Query("gitlinks", s, HEAD)}
  OBVIOUS
<1>2. \A x \in more : x.q \in Kinds
  BY <1>1 DEF Query, Kinds
<1>3. PICK q : q = Asks(p, more)
  OBVIOUS
<1>4. Plans(p, q)
  BY <1>2, <1>3, AsksPlans
<1>5. scanSubmodulesForPush(p, s, c) = [q EXCEPT !.nodes = @ \cup {s}]
  BY <1>1, <1>3 DEF scanSubmodulesForPush
<1> QED
  BY <1>4, <1>5 DEF Plans, Shape, Asking

LEMMA CommitPlans ==
    ASSUME NEW p, Shape(p), Asking(p)
    PROVE  Plans(p, planCommitPushes(p))
<1>1. ASSUME NEW own PROVE Plans(p, [p EXCEPT !.own = own])
  BY DEF Plans, Shape, Asking
<1> QED
  BY <1>1, RefusePlans DEF planCommitPushes

LEMMA AnswerPlans ==
    ASSUME NEW p, Shape(p), Asking(p), NEW x, x.q \in Kinds
    PROVE  Plans(p, Answered(p, x)) /\ Plans(p, AnsweredBlind(p, x))
<1>1. Plans(p, p)
  BY DEF Plans
<1>2. ASSUME x.q = "gitlinks" PROVE Plans(p, Answered(p, x))
  <2>1. PICK tree : tree = made[x.repo][Resolve(x.repo, x.commit)]
    OBVIOUS
  <2>2. PICK more : more = {Query("unpublished", s, tree[s]) : s \in {k \in Children(x.repo) : tree[k] # 0}}
    OBVIOUS
  <2>3. \A y \in more : y.q \in Kinds
    BY <2>2 DEF Query, Kinds
  <2>4. Answered(p, x) = Asks(p, more)
    BY <1>2, <2>1, <2>2 DEF Answered
  <2> QED
    BY <2>3, <2>4, AsksPlans
<1>3. ASSUME x.q = "branch" PROVE Plans(p, Answered(p, x))
  <2>1. PICK more : more = {Query("line", Root, HEAD)}
    OBVIOUS
  <2>2. \A y \in more : y.q \in Kinds
    BY <2>1 DEF Query, Kinds
  <2>3. Answered(p, x) \in {p, Asks(p, more), Refuse(p)}
    BY <1>3, <2>1 DEF Answered
  <2> QED
    BY <1>1, <2>2, <2>3, AsksPlans, RefusePlans
<1>4. ASSUME x.q \in {"unpublished", "onBranch", "contains", "line"} PROVE Plans(p, Answered(p, x))
  <2>1. Answered(p, x) \in {p, scanSubmodulesForPush(p, x.repo, x.commit), Refuse(p), planCommitPushes(p)}
    BY <1>4 DEF Answered
  <2> QED
    BY <1>1, <2>1, ScanPlans, RefusePlans, CommitPlans
<1>5. Plans(p, Answered(p, x))
  BY <1>2, <1>3, <1>4 DEF Kinds
<1>6. Plans(p, AnsweredBlind(p, x))
  <2>1. ASSUME NEW b PROVE Plans(p, [p EXCEPT !.blind = b])
    BY DEF Plans, Shape, Asking
  <2> QED
    BY <2>1, RefusePlans DEF AnsweredBlind
<1> QED
  BY <1>5, <1>6

-------------------------------------------------------------------------------

LEMMA AnswerKeeps ==
    ASSUME ExclusionInv, NEW x \in push.asked, NEW ok \in BOOLEAN, AnswerQuery(x, ok)
    PROVE  ExclusionInv'
<1>1. PICK p : p = [push EXCEPT !.asked = @ \ {x}]
  OBVIOUS
<1>2. Plans(push, p)
  BY <1>1 DEF ExclusionInv, Plans, Shape, Asking
<1>3. x.q \in Kinds
  BY DEF ExclusionInv, Asking
<1>4. push' \in {Answered(p, x), AnsweredBlind(p, x)}
  BY <1>1 DEF AnswerQuery
<1>5. Plans(p, push')
  BY <1>2, <1>3, <1>4, AnswerPlans DEF Plans
<1>6. push.stage = "plan" /\ push'.stage = "plan" /\ UNCHANGED locked
  BY <1>2, <1>5 DEF AnswerQuery, Plans
<1> QED
  BY <1>5, <1>6 DEF ExclusionInv, Plans, Working, Resting

LEMMA EndKeeps ==
    ASSUME ExclusionInv, NEW ok, NEW refresh, EndPush(ok, refresh)
    PROVE  ExclusionInv'
BY DEF ExclusionInv, EndPush, Shape, Asking, Working, Resting

\* The push goes on: the stage, the step or a retry.
LEMMA WorkKeeps ==
    ASSUME ExclusionInv, push.stage \in Working, UNCHANGED <<writing, locked>>,
           NEW stage \in Working, NEW index, NEW retry,
           push' = [push EXCEPT !.stage = stage, !.index = index, !.retry = retry]
    PROVE  ExclusionInv'
BY DEF ExclusionInv, Shape, Asking, Working, Resting

LEMMA PlannedKeeps == ExclusionInv /\ Planned => ExclusionInv'
<1> SUFFICES ASSUME ExclusionInv, Planned PROVE ExclusionInv'
  OBVIOUS
<1>1. PICK steps : steps = plannedSteps
  OBVIOUS
<1>2. CASE EndPush(FALSE, FALSE)
  BY <1>2, EndKeeps
<1>3. CASE /\ PushedSubmodules(steps) \cap writing = {}
           /\ locked' = PushedSubmodules(steps)
           /\ push' = [push EXCEPT !.steps = steps, !.index = 1,
                                   !.stage = IF push.mode = "Branch" THEN "run" ELSE "confirm"]
  <2>1. Shape(push') /\ Asking(push') /\ push'.steps = steps /\ push'.stage \in {"run", "confirm"}
    BY <1>3 DEF ExclusionInv, Shape, Asking
  <2>2. UNCHANGED writing
    BY DEF Planned
  <2> QED
    BY <1>3, <2>1, <2>2 DEF ExclusionInv, Working, Resting
<1> QED
  BY <1>1, <1>2, <1>3 DEF Planned

LEMMA StepKeeps == ExclusionInv /\ RunPushStep => ExclusionInv'
<1> SUFFICES ASSUME ExclusionInv, RunPushStep PROVE ExclusionInv'
  OBVIOUS
<1>1. push.stage = "run" /\ UNCHANGED writing
  BY DEF RunPushStep
<1>2. ASSUME NEW refresh, EndPush(FALSE, refresh) \/ EndPush(TRUE, refresh) PROVE ExclusionInv'
  BY <1>2, EndKeeps
<1>3. CASE push' = [push EXCEPT !.index = @ + 1, !.retry = FALSE] /\ UNCHANGED locked
  BY <1>1, <1>3 DEF ExclusionInv, Shape, Asking, Working, Resting
<1>4. CASE push' = [push EXCEPT !.stage = "offer"] /\ UNCHANGED locked
  BY <1>1, <1>4 DEF ExclusionInv, Shape, Asking, Working, Resting
<1> QED
  BY <1>2, <1>3, <1>4 DEF RunPushStep, StepSucceeds, StepFails

LEMMA AnswerUserKeeps ==
    ASSUME ExclusionInv, NEW yes \in BOOLEAN, Confirm(yes) \/ offerUpstreamThenRetry(yes)
    PROVE  ExclusionInv'
<1>1. push.stage \in Working /\ UNCHANGED writing
  BY DEF Confirm, offerUpstreamThenRetry, Working
<1>2. ASSUME NEW refresh, EndPush(FALSE, refresh) PROVE ExclusionInv'
  BY <1>2, EndKeeps
<1>3. CASE push' = [push EXCEPT !.stage = "run"] /\ UNCHANGED locked
  BY <1>1, <1>3 DEF ExclusionInv, Shape, Asking, Working, Resting
<1>4. CASE push' = [push EXCEPT !.stage = "run", !.retry = TRUE] /\ UNCHANGED locked
  BY <1>1, <1>4 DEF ExclusionInv, Shape, Asking, Working, Resting
<1> QED
  BY <1>2, <1>3, <1>4 DEF Confirm, offerUpstreamThenRetry

LEMMA StartKeeps ==
    ASSUME ExclusionInv, NEW mode, NEW upTo, StartPush(mode, upTo)
    PROVE  ExclusionInv'
<1>1. PICK asked : asked = {Query("gitlinks", Root, upTo), Query("branch", Root, HEAD)}
  OBVIOUS
<1>2. \A x \in asked : x.q \in Kinds
  BY <1>1 DEF Query, Kinds
<1>3. push' = [NoPush EXCEPT !.stage = "plan", !.mode = mode, !.upTo = upTo, !.before = published[Root],
                             !.asked = asked]
  BY <1>1 DEF StartPush
<1>4. Shape(push') /\ push'.stage = "plan" /\ push'.asked = asked
  BY <1>3 DEF Shape, NoPush
<1>5. push.stage \in Resting /\ UNCHANGED locked
  BY DEF StartPush, Resting
<1> QED
  BY <1>2, <1>4, <1>5 DEF ExclusionInv, Asking, Working, Resting

\* A submodule's window begins a write only where the push holds no lock of it.
LEMMA CloneKeeps == ExclusionInv /\ CloneActions => ExclusionInv'
<1> SUFFICES ASSUME ExclusionInv, CloneActions PROVE ExclusionInv'
  OBVIOUS
<1>1. ASSUME push' = push \/ \E r : Moves(r),
             UNCHANGED locked, \A s \in writing' : s \in writing \/ s \notin locked
      PROVE  ExclusionInv'
  <2>1. /\ Shape(push') /\ Asking(push') /\ push'.stage = push.stage /\ push'.steps = push.steps
    BY <1>1 DEF ExclusionInv, Moves, Shape, Asking
  <2> QED
    BY <1>1, <2>1 DEF ExclusionInv
<1>2. ASSUME NEW r \in Repos, CommitOutside(r) PROVE ExclusionInv'
  BY <1>1, <1>2 DEF CommitOutside, Commits
<1>3. ASSUME NEW r \in Repos, NEW i, NEW branch, CheckOutOutside(r, i, branch) PROVE ExclusionInv'
  BY <1>1, <1>3 DEF CheckOutOutside
<1>4. ASSUME NEW s \in Submodules, StartWrite(s) PROVE ExclusionInv'
  BY <1>1, <1>4 DEF StartWrite
<1>5. ASSUME NEW s \in Submodules, EndWrite(s) PROVE ExclusionInv'
  BY <1>1, <1>5 DEF EndWrite, Commits
<1> QED
  BY <1>2, <1>3, <1>4, <1>5 DEF CloneActions

LEMMA ExclusionInductive == ExclusionInv /\ [Next]_vars => ExclusionInv'
<1> SUFFICES ASSUME ExclusionInv, [Next]_vars PROVE ExclusionInv'
  OBVIOUS
<1>1. CASE PushActions
  BY <1>1, StartKeeps, PlannedKeeps, AnswerUserKeeps, StepKeeps DEF PushActions
<1>2. CASE QueryAnswers
  BY <1>2, AnswerKeeps DEF QueryAnswers
<1>3. CASE CloneActions
  BY <1>3, CloneKeeps
<1>4. CASE UNCHANGED vars
  BY <1>4 DEF vars, ExclusionInv
<1> QED
  BY <1>1, <1>2, <1>3, <1>4 DEF Next

LEMMA ExclusionInit == Init => ExclusionInv
<1> SUFFICES ASSUME Init PROVE ExclusionInv
  OBVIOUS
<1>1. push = NoPush /\ locked = {}
  BY DEF Init
<1>2. Shape(push) /\ push.asked = {} /\ push.stage = "none"
  BY <1>1 DEF NoPush, Shape
<1> QED
  BY <1>1, <1>2 DEF ExclusionInv, Asking, Working, Resting

(***************************************************************************)
(* A push and the write of a submodule's window exclude each other: from   *)
(* lockPushedSubmodules() to endPush(), on every way out of either.        *)
(***************************************************************************)
THEOREM WritesExcluded == Spec => []PushExcludesWrites
<1>1. ExclusionInv => PushExcludesWrites
  BY DEF ExclusionInv, PushExcludesWrites, Working, Resting
<1> QED
  BY <1>1, ExclusionInit, ExclusionInductive, PTL DEF Spec

-------------------------------------------------------------------------------
(* What a push publishes.                                                    *)

\* The clones: histories of their own, and where HEAD and the remote are in them.
ClonesTyped ==
    /\ DOMAIN made = Repos /\ made = [r \in Repos |-> made[r]]
    /\ at \in [Repos -> Nat] /\ published \in [Repos -> Nat]
    /\ onBranch \in [Repos -> BOOLEAN] /\ upstream \in [Repos -> BOOLEAN]
    /\ \A r \in Repos : /\ made[r] \in Seq(TreeOf(r)) /\ Tip(r) <= MaxCommits
                        /\ at[r] \in 1..Tip(r) /\ published[r] \in 1..Tip(r)

\* The queries an answer may bring, and those of the plan of p.
Queries ==
    {x \in [q : Kinds, repo : Repos, commit : 0..MaxCommits] :
        /\ x.q \in {"branch", "line"} => x.repo = Root
        /\ x.q \in {"unpublished", "contains", "onBranch"} => x.repo \in Submodules
        /\ x.q = "gitlinks" => x.commit = HEAD}
MayAsk(p) == Queries \cup {Query("gitlinks", Root, p.upTo)}

\* The push: its queries, and commits the root has.
PushTyped ==
    /\ push.mode \in {"Branch", "OneByOne", "UpTo"}
    /\ push.upTo \in 0..Tip(Root)
    /\ push.asked \subseteq MayAsk(push)
    /\ push.nodes \subseteq Submodules
    /\ push.own \in Seq(1..Tip(Root))
    /\ push.index \in Nat /\ push.before \in Nat

\* The commits to push one by one come in the order they were made, the published ones left out.
OwnInOrder ==
    /\ push.mode = "UpTo" <=> push.upTo # HEAD
    /\ \A i, j \in 1..Len(push.own) : push.before < push.own[i] /\ (i < j => push.own[i] < push.own[j])
    /\ push.mode = "UpTo" => push.own \in {<<>>, <<push.upTo>>}
    /\ push.stage = "plan" =>
          /\ published[Root] = push.before
          /\ push.mode # "Branch" /\ push.own = <<>> => push.refused \/ \E x \in push.asked : x.q \in {"branch", "line"}

\* The steps are the plan's, and the root's come last: what is published of it was by the step before.
StepsAsPlanned ==
    push.stage \in Working =>
        /\ push.asked = {} /\ ~push.refused
        /\ push.mode # "Branch" => push.own # <<>>
        /\ push.steps = plannedSteps
        /\ push.index \in 1..Len(push.steps)
        /\ push.stage = "confirm" => push.index = 1
        /\ published[Root] # push.before => push.index > 1 /\ push.steps[push.index - 1].repo = Root
        /\ \A i \in push.index..Len(push.steps) :
              push.steps[i].repo = Root /\ push.steps[i].commit # HEAD => published[Root] < push.steps[i].commit

\* Commit t of submodule k is published, or the plan finds out, or k is pushed from a branch with t.
Covered(k, t) ==
    \/ t <= published[k]
    \/ Query("unpublished", k, t) \in push.asked
    \/ k \in push.nodes /\ (t <= at[k] \/ push.refused \/ Query("contains", k, t) \in push.asked)

\* The submodules commit c of r references are covered, or the plan finds them yet.
Scanned(r, c) ==
    \/ Query("gitlinks", r, c) \in push.asked
    \/ \A k \in Children(r) : Covered(k, made[r][Resolve(r, c)][k])

\* Nothing moved since the plan was begun, and no query of it failed unseen.
Reliable == push.moved = {} /\ ~push.blind

\* All that is pushed is scanned, and what the push comes upon.
PlanCovers ==
    push.stage \in {"plan"} \cup Working /\ Reliable =>
        Scanned(Root, push.upTo) /\ \A s \in push.nodes : Scanned(s, HEAD)

\* The steps done left their submodule at HEAD, and tips that can be fetched.
StepsFetchable ==
    Reliable => \A r \in Pushed : /\ r # Root => published[r] = at[r]
                                  /\ \A s \in Children(r) : made[r][published[r]][s] <= published[s]

\* What an answer leaves of the plan p as it was, and what it may only add to.
AnswerAdds(p, q) ==
    /\ Shape(q)
    /\ q.stage = p.stage /\ q.mode = p.mode /\ q.upTo = p.upTo /\ q.steps = p.steps /\ q.index = p.index
    /\ q.moved = p.moved /\ q.before = p.before /\ q.ok = p.ok /\ q.refreshed = p.refreshed
    /\ p.asked \subseteq q.asked /\ q.asked \subseteq p.asked \cup Queries
    /\ p.nodes \subseteq q.nodes /\ q.nodes \subseteq p.nodes \cup Submodules
    /\ \A s \in q.nodes : s \in p.nodes \/ Query("gitlinks", s, HEAD) \in q.asked
    /\ (p.refused => q.refused) /\ (p.blind => q.blind)

\* The root's commits to push one by one.
Line == [i \in 1..(at[Root] - published[Root]) |-> published[Root] + i]

\* The root's own commits to push: found by one answer.
OwnFound(p, q) ==
    \/ q.own = p.own
    \/ p.mode = "OneByOne" /\ at[Root] > published[Root] /\ q.own = Line
    \/ p.mode # "OneByOne" /\ p.upTo > published[Root] /\ p.upTo <= at[Root] /\ q.own = <<p.upTo>>

\* What the answer to x settles.
Settled(x, q) ==
    /\ x.q = "gitlinks" => q.blind \/ \A k \in Children(x.repo) : \E t : 
          t = made[x.repo][Resolve(x.repo, x.commit)][k] /\ (t = 0 \/ Query("unpublished", k, t) \in q.asked)
    /\ x.q = "unpublished" => \/ q.blind \/ x.commit <= published[x.repo]
                              \/ x.repo \in q.nodes /\ Query("contains", x.repo, x.commit) \in q.asked
    /\ x.q = "contains" => q.refused \/ x.commit <= at[x.repo]
    /\ x.q \in {"branch", "line"} => q.mode = "Branch" \/ q.refused \/ q.own # <<>> \/ Query("line", Root, HEAD) \in q.asked

Outcome(p, x, q) == AnswerAdds(p, q) /\ OwnFound(p, q) /\ Settled(x, q)

LEMMA QueryTyped ==
    ASSUME NEW q \in Kinds, NEW r \in Repos, NEW c \in 0..MaxCommits,
           q \in {"branch", "line"} => r = Root,
           q \in {"unpublished", "contains", "onBranch"} => r \in Submodules,
           q = "gitlinks" => c = HEAD
    PROVE  /\ Query(q, r, c) \in Queries
           /\ Query(q, r, c).q = q /\ Query(q, r, c).repo = r /\ Query(q, r, c).commit = c
BY DEF Query, Queries

LEMMA AsksAdds ==
    ASSUME NEW p, Shape(p), NEW more \in SUBSET Queries
    PROVE  AnswerAdds(p, Asks(p, more)) /\ Asks(p, more).own = p.own /\ Asks(p, more).asked = p.asked \cup more
BY DEF AnswerAdds, Shape, Asks

LEMMA RefuseAdds ==
    ASSUME NEW p, Shape(p)
    PROVE  AnswerAdds(p, Refuse(p)) /\ Refuse(p).own = p.own /\ Refuse(p).refused
<1>1. ASSUME NEW q, q = [p EXCEPT !.refused = TRUE] PROVE AnswerAdds(p, q) /\ q.own = p.own /\ q.refused
  BY <1>1 DEF AnswerAdds, Shape
<1> QED
  BY <1>1 DEF Refuse

LEMMA ScanAdds ==
    ASSUME NEW p, Shape(p), NEW s \in Submodules, NEW c \in 0..MaxCommits
    PROVE  LET q == scanSubmodulesForPush(p, s, c)
           IN  AnswerAdds(p, q) /\ q.own = p.own /\ s \in q.nodes /\ Query("contains", s, c) \in q.asked
<1>1. PICK more : more = {Query("onBranch", s, HEAD), Query("contains", s, c), Query("gitlinks", s, HEAD)}
  OBVIOUS
<1>2. more \in SUBSET Queries
  BY <1>1, QueryTyped, GitPushAssumption DEF Kinds, Repos, HEAD
<1>3. PICK q : q = Asks(p, more)
  OBVIOUS
<1>4. AnswerAdds(p, q) /\ q.own = p.own /\ q.asked = p.asked \cup more /\ q.nodes = p.nodes
  BY <1>2, <1>3, AsksAdds DEF Asks, Shape
<1>5. PICK s2 : s2 = [q EXCEPT !.nodes = @ \cup {s}]
  OBVIOUS
<1>6. AnswerAdds(p, s2) /\ s2.own = p.own /\ s \in s2.nodes /\ s2.asked = q.asked
  BY <1>1, <1>4, <1>5 DEF AnswerAdds, Shape
<1> QED
  BY <1>1, <1>3, <1>4, <1>5, <1>6 DEF scanSubmodulesForPush

LEMMA CommitAdds ==
    ASSUME ClonesTyped, NEW p, Shape(p), p.upTo \in Nat
    PROVE  LET q == planCommitPushes(p)
           IN  AnswerAdds(p, q) /\ OwnFound(p, q) /\ (q.refused \/ q.own # <<>>)
<1>1. ASSUME NEW own, NEW q, q = [p EXCEPT !.own = own] PROVE AnswerAdds(p, q) /\ q.own = own
  BY <1>1 DEF AnswerAdds, Shape
<1>2. at[Root] \in Nat /\ published[Root] \in Nat
  BY DEF ClonesTyped, Repos
<1>3. at[Root] > published[Root] => Line # <<>>
  <2>1. at[Root] > published[Root] => 1 \in DOMAIN Line
    BY <1>2 DEF Line
  <2>2. DOMAIN <<>> = {}
    OBVIOUS
  <2> QED
    BY <2>1, <2>2
<1>4. CASE upstream[Root] /\ p.mode = "OneByOne" /\ at[Root] > published[Root]
  <2>1. PICK q : q = [p EXCEPT !.own = Line]
    OBVIOUS
  <2>2. planCommitPushes(p) = q
    BY <1>4, <2>1 DEF planCommitPushes, Line
  <2> QED
    BY <1>1, <1>3, <1>4, <2>1, <2>2 DEF OwnFound
<1>5. CASE upstream[Root] /\ p.mode # "OneByOne" /\ p.upTo > published[Root] /\ p.upTo <= at[Root]
  <2>1. PICK q : q = [p EXCEPT !.own = <<p.upTo>>]
    OBVIOUS
  <2>2. planCommitPushes(p) = q
    BY <1>5, <2>1 DEF planCommitPushes
  <2>3. <<p.upTo>> # <<>>
    OBVIOUS
  <2> QED
    BY <1>1, <1>5, <2>1, <2>2, <2>3 DEF OwnFound
<1>6. CASE planCommitPushes(p) = Refuse(p)
  BY <1>6, RefuseAdds DEF OwnFound
<1> QED
  BY <1>4, <1>5, <1>6 DEF planCommitPushes

LEMMA GitlinkTyped ==
    ASSUME ClonesTyped, NEW r \in Repos, NEW c \in Nat, c <= Tip(r), NEW k \in Children(r)
    PROVE  made[r][Resolve(r, c)][k] \in 0..MaxCommits /\ k \in Submodules /\ k \in Repos
<1>1. Resolve(r, c) \in 1..Tip(r)
  BY DEF ClonesTyped, Resolve, HEAD, Tip
<1>2. made[r][Resolve(r, c)] \in TreeOf(r)
  BY <1>1, ElementOfSeq DEF ClonesTyped, Tip
<1> QED
  BY <1>2 DEF TreeOf, Children, Repos

LEMMA AskedTyped ==
    ASSUME ClonesTyped, NEW p, p.upTo \in 0..Tip(Root), NEW x \in MayAsk(p)
    PROVE  /\ x.q \in Kinds /\ x.repo \in Repos /\ x.commit \in 0..MaxCommits
           /\ x.q \in {"branch", "line"} => x.repo = Root
           /\ x.q \in {"unpublished", "contains", "onBranch"} => x.repo \in Submodules
           /\ x.q = "gitlinks" => x.commit <= Tip(x.repo)
           /\ x = Query(x.q, x.repo, x.commit)
           /\ x.q = "gitlinks" => x.commit = HEAD \/ (x.repo = Root /\ x.commit = p.upTo)
<1>1. Root \in Repos /\ MaxCommits \in Nat /\ \A r \in Repos : Tip(r) \in Nat /\ Tip(r) <= MaxCommits
  <2>1. \A r \in Repos : Tip(r) \in Nat /\ Tip(r) <= MaxCommits
    BY LenProperties DEF ClonesTyped, Tip
  <2> QED
    BY <2>1, GitPushAssumption DEF Repos
<1>2. CASE x \in Queries
  <2>1. x \in [q : Kinds, repo : Repos, commit : 0..MaxCommits]
    BY <1>2 DEF Queries
  <2>2. x = Query(x.q, x.repo, x.commit)
    BY <2>1 DEF Query
  <2> QED
    BY <1>1, <1>2, <2>1, <2>2 DEF Queries, HEAD
<1>3. CASE x = Query("gitlinks", Root, p.upTo)
  BY <1>1, <1>3 DEF Query, Kinds
<1> QED
  BY <1>2, <1>3 DEF MayAsk

LEMMA AnswerOutcome ==
    ASSUME ClonesTyped, NEW p, Shape(p), p.upTo \in 0..Tip(Root), NEW x \in MayAsk(p)
    PROVE  Outcome(p, x, Answered(p, x)) /\ Outcome(p, x, AnsweredBlind(p, x))
<1>1. /\ x.q \in Kinds /\ x.repo \in Repos /\ x.commit \in 0..MaxCommits
      /\ x.q = "unpublished" => x.repo \in Submodules
      /\ x.q = "gitlinks" => x.commit \in Nat /\ x.commit <= Tip(x.repo)
      /\ p.upTo \in Nat
  BY GitPushAssumption, AskedTyped
<1>2. AnswerAdds(p, p)
  BY DEF AnswerAdds
<1>4. CASE x.q = "gitlinks"
  <2>1. PICK tree : tree = made[x.repo][Resolve(x.repo, x.commit)]
    OBVIOUS
  <2>2. PICK more : more = {Query("unpublished", s, tree[s]) : s \in {k \in Children(x.repo) : tree[k] # 0}}
    OBVIOUS
  <2>3. more \in SUBSET Queries
    <3>1. ASSUME NEW s \in Children(x.repo) PROVE Query("unpublished", s, tree[s]) \in Queries
      <4>1. tree[s] \in 0..MaxCommits /\ s \in Submodules /\ s \in Repos
        BY <1>1, <1>4, <2>1, GitlinkTyped
      <4> QED
        BY <4>1, QueryTyped DEF Kinds
    <3> QED
      BY <2>2, <3>1
  <2>4. PICK q : q = Asks(p, more)
    OBVIOUS
  <2>5. AnswerAdds(p, q) /\ q.own = p.own /\ q.asked = p.asked \cup more
    BY <2>3, <2>4, AsksAdds
  <2>6. Answered(p, x) = q
    BY <1>4, <2>1, <2>2, <2>4 DEF Answered
  <2>7. Outcome(p, x, q)
    BY <1>4, <2>1, <2>2, <2>5 DEF Outcome, OwnFound, Settled
  <2>8. PICK b : b = [p EXCEPT !.blind = @ \/ x.q # "branch"]
    OBVIOUS
  <2>9. AnswerAdds(p, b) /\ b.own = p.own /\ b.blind
    BY <1>4, <2>8 DEF AnswerAdds, Shape
  <2>10. AnsweredBlind(p, x) = b
    BY <1>4, <2>8 DEF AnsweredBlind
  <2>11. Outcome(p, x, b)
    BY <1>4, <2>9 DEF Outcome, OwnFound, Settled
  <2> QED
    BY <2>6, <2>7, <2>10, <2>11
<1>5. CASE x.q = "unpublished"
  <2>1. x.repo \in Submodules
    BY <1>1, <1>5
  <2>2. PICK q : q = Answered(p, x)
    OBVIOUS
  <2>3. q = IF x.commit > published[x.repo] THEN scanSubmodulesForPush(p, x.repo, x.commit) ELSE p
    BY <1>5, <2>2 DEF Answered
  <2>4. published[x.repo] \in Nat /\ x.commit \in Nat
    BY <1>1 DEF ClonesTyped
  <2>5. Outcome(p, x, q)
    <3>1. CASE x.commit > published[x.repo]
      BY <1>1, <1>5, <2>1, <2>3, <3>1, ScanAdds DEF Outcome, OwnFound, Settled
    <3>2. CASE x.commit <= published[x.repo]
      BY <1>2, <1>5, <2>3, <2>4, <3>2 DEF Outcome, OwnFound, Settled
    <3> QED
      BY <2>4, <3>1, <3>2
  <2>8. PICK b : b = [p EXCEPT !.blind = @ \/ x.q # "branch"]
    OBVIOUS
  <2>9. AnswerAdds(p, b) /\ b.own = p.own /\ b.blind
    BY <1>5, <2>8 DEF AnswerAdds, Shape
  <2>10. AnsweredBlind(p, x) = b
    BY <1>5, <2>8 DEF AnsweredBlind
  <2>11. Outcome(p, x, b)
    BY <1>5, <2>9 DEF Outcome, OwnFound, Settled
  <2> QED
    BY <2>2, <2>5, <2>10, <2>11
<1>6. ASSUME x.q \in {"onBranch", "contains", "branch", "line"} PROVE Outcome(p, x, Refuse(p))
  BY <1>6, RefuseAdds DEF Outcome, OwnFound, Settled
<1>7. CASE x.q \in {"onBranch", "contains"}
  <2>1. Answered(p, x) \in {p, Refuse(p)} /\ AnsweredBlind(p, x) = Refuse(p)
    BY <1>7 DEF Answered, AnsweredBlind
  <2>2. Answered(p, x) = p => Outcome(p, x, p)
    <3>1. x.q = "contains" /\ ~(x.commit <= at[x.repo]) => Answered(p, x) = Refuse(p)
      BY DEF Answered
    <3>2. Refuse(p).refused
      BY RefuseAdds
    <3> QED
      BY <1>2, <1>7, <3>1, <3>2 DEF Outcome, OwnFound, Settled
  <2> QED
    BY <1>6, <1>7, <2>1, <2>2
<1>8. CASE x.q = "branch"
  <2>1. PICK more : more = {Query("line", Root, HEAD)}
    OBVIOUS
  <2>2. more \in SUBSET Queries
    BY <2>1, QueryTyped, GitPushAssumption DEF Kinds, Repos, HEAD
  <2>3. PICK q : q = Asks(p, more)
    OBVIOUS
  <2>4. Outcome(p, x, q)
    BY <1>8, <2>1, <2>2, <2>3, AsksAdds DEF Outcome, OwnFound, Settled
  <2>5. p.mode = "Branch" => Outcome(p, x, p)
    BY <1>2, <1>8 DEF Outcome, OwnFound, Settled
  <2>6. Answered(p, x) = IF p.mode = "Branch" THEN p ELSE IF onBranch[x.repo] THEN q ELSE Refuse(p)
    BY <1>8, <2>1, <2>3 DEF Answered
  <2>7. CASE p.mode = "Branch"
    <3>1. PICK b : b = [p EXCEPT !.blind = @ \/ x.q # "branch"]
      OBVIOUS
    <3>2. AnswerAdds(p, b) /\ b.own = p.own /\ b.mode = "Branch"
      BY <2>7, <3>1 DEF AnswerAdds, Shape
    <3>3. AnsweredBlind(p, x) = b
      BY <1>8, <2>7, <3>1 DEF AnsweredBlind
    <3>4. Outcome(p, x, b)
      BY <1>8, <3>2 DEF Outcome, OwnFound, Settled
    <3> QED
      BY <2>5, <2>6, <2>7, <3>3, <3>4
  <2>8. CASE p.mode # "Branch"
    <3>1. AnsweredBlind(p, x) = Refuse(p)
      BY <1>8, <2>8 DEF AnsweredBlind
    <3> QED
      BY <1>6, <1>8, <2>4, <2>6, <2>8, <3>1
  <2> QED
    BY <2>7, <2>8
<1>9. CASE x.q = "line"
  <2>1. Answered(p, x) = planCommitPushes(p) /\ AnsweredBlind(p, x) = Refuse(p)
    BY <1>9 DEF Answered, AnsweredBlind
  <2>2. PICK q : q = planCommitPushes(p)
    OBVIOUS
  <2>3. AnswerAdds(p, q) /\ OwnFound(p, q) /\ (q.refused \/ q.own # <<>>)
    BY <1>1, <2>2, CommitAdds
  <2>4. Outcome(p, x, q)
    BY <1>9, <2>3 DEF Outcome, Settled
  <2> QED
    BY <1>6, <1>9, <2>1, <2>2, <2>4
<1> QED
  BY <1>1, <1>4, <1>5, <1>7, <1>8, <1>9 DEF Kinds

(***************************************************************************)
(* The inductive invariant.  The plan of a push covers every submodule     *)
(* commit that what it pushes references; the steps are the plan's, what   *)
(* is nested first and the root last; and the steps that are done left     *)
(* tips that can be fetched.  The plan and the tips count only while no    *)
(* clone moved and no query failed unseen.                                 *)
(***************************************************************************)
PushInv ==
    /\ ExclusionInv /\ ClonesTyped /\ PushTyped
    /\ OwnInOrder /\ StepsAsPlanned /\ PlanCovers /\ StepsFetchable /\ EndsAsAsked

LEMMA AnswerEffect ==
    ASSUME ExclusionInv, ClonesTyped, PushTyped, NEW x \in push.asked, NEW ok \in BOOLEAN, AnswerQuery(x, ok)
    PROVE  \E p : /\ p.asked = push.asked \ {x} /\ p.nodes = push.nodes /\ p.own = push.own
                  /\ p.refused = push.refused /\ p.blind = push.blind /\ p.moved = push.moved
                  /\ p.stage = push.stage /\ p.mode = push.mode /\ p.upTo = push.upTo /\ p.before = push.before
                  /\ p.steps = push.steps /\ p.index = push.index /\ p.ok = push.ok
                  /\ Outcome(p, x, push')
<1>1. PICK p : p = [push EXCEPT !.asked = @ \ {x}]
  OBVIOUS
<1>2. /\ Shape(p) /\ p.asked = push.asked \ {x} /\ p.nodes = push.nodes /\ p.own = push.own
      /\ p.refused = push.refused /\ p.blind = push.blind /\ p.moved = push.moved
      /\ p.stage = push.stage /\ p.mode = push.mode /\ p.upTo = push.upTo /\ p.before = push.before
      /\ p.steps = push.steps /\ p.index = push.index /\ p.ok = push.ok
  BY <1>1 DEF ExclusionInv, Shape
<1>3. p.upTo \in 0..Tip(Root) /\ x \in MayAsk(p)
  BY <1>2 DEF PushTyped, MayAsk
<1>4. push' \in {Answered(p, x), AnsweredBlind(p, x)}
  BY <1>1 DEF AnswerQuery
<1>5. Outcome(p, x, push')
  BY <1>2, <1>3, <1>4, AnswerOutcome
<1> QED
  BY <1>2, <1>5

LEMMA ClonesStay ==
    ASSUME UNCHANGED clones
    PROVE  /\ ClonesTyped => ClonesTyped'
           /\ \A r : Tip(r)' = Tip(r)
BY DEF clones, ClonesTyped, Tip, TreeOf

LEMMA LineInOrder ==
    ASSUME ClonesTyped, at[Root] > published[Root]
    PROVE  /\ Line \in Seq(1..Tip(Root)) /\ Line # <<>> /\ Len(Line) \in Nat
           /\ \A i, j \in 1..Len(Line) : published[Root] < Line[i] /\ (i < j => Line[i] < Line[j])
<1>1. at[Root] \in 1..Tip(Root) /\ published[Root] \in 1..Tip(Root) /\ Tip(Root) \in Nat
  BY LenProperties DEF ClonesTyped, Repos, Tip
<1> DEFINE n == at[Root] - published[Root]
<1>2. n \in Nat /\ n > 0
  BY <1>1
<1>3. \A i \in 1..n : published[Root] + i \in 1..Tip(Root)
  BY <1>1
<1>4. Line \in [1..n -> 1..Tip(Root)] /\ \A i \in 1..n : Line[i] = published[Root] + i
  BY <1>3 DEF Line
<1> HIDE DEF n
<1>5. Len(Line) = n /\ Line \in Seq(1..Tip(Root))
  <2>1. ASSUME NEW S, NEW f \in [1..n -> S] PROVE Len(f) = n /\ f \in Seq(S)
    BY <1>2
  <2> QED
    BY <1>4, <2>1
<1> QED
  BY <1>1, <1>2, <1>4, <1>5

\* An answer settles its query, and the queries it brings keep the plan covering.
LEMMA AnswerPushInv ==
    ASSUME PushInv, NEW x \in push.asked, NEW ok \in BOOLEAN, AnswerQuery(x, ok)
    PROVE  PushInv'
<1>1. PICK p : /\ p.asked = push.asked \ {x} /\ p.nodes = push.nodes /\ p.own = push.own
               /\ p.refused = push.refused /\ p.blind = push.blind /\ p.moved = push.moved
               /\ p.stage = push.stage /\ p.mode = push.mode /\ p.upTo = push.upTo /\ p.before = push.before
               /\ p.steps = push.steps /\ p.index = push.index /\ p.ok = push.ok
               /\ Outcome(p, x, push')
  BY AnswerEffect DEF PushInv
<1>2. UNCHANGED clones /\ push.stage = "plan"
  BY DEF AnswerQuery
<1>3. /\ made' = made /\ at' = at /\ published' = published
      /\ \A r : Tip(r)' = Tip(r)
      /\ ClonesTyped /\ ClonesTyped'
  BY <1>2, ClonesStay DEF clones, PushInv
<1>4. x \in MayAsk(push) /\ push.upTo \in 0..Tip(Root)
  BY DEF PushInv, PushTyped
<1>5. /\ push'.stage = "plan" /\ push'.mode = push.mode /\ push'.upTo = push.upTo /\ push'.before = push.before
      /\ push'.steps = push.steps /\ push'.index = push.index /\ push'.ok = push.ok /\ push'.moved = push.moved
      /\ push.asked \ {x} \subseteq push'.asked /\ push'.asked \subseteq push.asked \cup Queries
      /\ push.nodes \subseteq push'.nodes /\ push'.nodes \subseteq push.nodes \cup Submodules
      /\ \A s \in push'.nodes : s \in push.nodes \/ Query("gitlinks", s, HEAD) \in push'.asked
      /\ (push.refused => push'.refused) /\ (push.blind => push'.blind)
      /\ OwnFound(push, push')
      /\ Settled(x, push')
  BY <1>1, <1>2 DEF Outcome, AnswerAdds, OwnFound
<1>6. Root \in Repos /\ published[Root] \in Nat /\ at[Root] \in Nat /\ at[Root] <= Tip(Root) /\ Tip(Root) \in Nat
  <2>1. Root \in Repos
    BY DEF Repos
  <2>2. /\ published[Root] \in Nat /\ at[Root] \in Nat /\ made[Root] \in Seq(TreeOf(Root))
        /\ at[Root] \in 1..Tip(Root)
    BY <1>3, <2>1 DEF ClonesTyped
  <2>3. Tip(Root) \in Nat
    BY <2>2, LenProperties DEF Tip
  <2> QED
    BY <2>1, <2>2, <2>3
<1>7. ExclusionInv'
  BY AnswerKeeps DEF PushInv
<1>8. PushTyped'
  <2>1. push'.own \in Seq(1..Tip(Root))
    <3>1. CASE push'.own = push.own
      BY <3>1 DEF PushInv, PushTyped
    <3>2. CASE at[Root] > published[Root] /\ push'.own = Line
      BY <1>3, <3>2, LineInOrder
    <3>3. CASE push.upTo > published[Root] /\ push'.own = <<push.upTo>>
      <4>1. push.upTo \in 1..Tip(Root)
        BY <1>4, <1>6, <3>3
      <4> QED
        BY <3>3, <4>1
    <3> QED
      BY <1>5, <3>1, <3>2, <3>3 DEF OwnFound
  <2>2. push'.asked \subseteq MayAsk(push)'
    BY <1>5 DEF PushInv, PushTyped, MayAsk, Queries
  <2> QED
    BY <1>3, <1>5, <2>1, <2>2 DEF PushInv, PushTyped
<1>9. OwnInOrder'
  <2>1. published[Root] = push.before
    BY <1>2 DEF PushInv, OwnInOrder
  <2>2. \A i, j \in 1..Len(push'.own) : push.before < push'.own[i] /\ (i < j => push'.own[i] < push'.own[j])
    <3>1. CASE push'.own = push.own
      BY <3>1 DEF PushInv, OwnInOrder
    <3>2. CASE at[Root] > published[Root] /\ push'.own = Line
      BY <1>3, <2>1, <3>2, LineInOrder
    <3>3. CASE push.upTo > published[Root] /\ push'.own = <<push.upTo>>
      <4>1. Len(<<push.upTo>>) = 1 /\ <<push.upTo>>[1] = push.upTo
        OBVIOUS
      <4> QED
        BY <1>4, <1>6, <2>1, <3>3, <4>1
    <3> QED
      BY <1>5, <3>1, <3>2, <3>3 DEF OwnFound
  <2>3. push.mode = "UpTo" => push'.own \in {<<>>, <<push.upTo>>}
    BY <1>5 DEF PushInv, OwnInOrder, OwnFound
  <2>4. push.mode # "Branch" /\ push'.own = <<>> => push'.refused \/ \E y \in push'.asked : y.q \in {"branch", "line"}
    <3> SUFFICES ASSUME push.mode # "Branch", push'.own = <<>>
                 PROVE  push'.refused \/ \E y \in push'.asked : y.q \in {"branch", "line"}
      OBVIOUS
    <3>1. push.own = <<>>
      <4>1. <<push.upTo>> # <<>>
        OBVIOUS
      <4> QED
        BY <1>3, <1>5, <4>1, LineInOrder DEF OwnFound
    <3>2. push.refused \/ \E y \in push.asked : y.q \in {"branch", "line"}
      BY <1>2, <3>1 DEF PushInv, OwnInOrder
    <3>3. CASE push.refused
      BY <1>5, <3>3
    <3>4. ASSUME NEW y \in push.asked, y.q \in {"branch", "line"}
          PROVE  push'.refused \/ \E z \in push'.asked : z.q \in {"branch", "line"}
      <4>1. CASE y # x
        BY <1>5, <3>4, <4>1
      <4>2. CASE y = x
        <5>1. push'.refused \/ Query("line", Root, HEAD) \in push'.asked
          BY <1>5, <3>4, <4>2 DEF Settled
        <5>2. Query("line", Root, HEAD).q = "line"
          BY DEF Query
        <5> QED
          BY <5>1, <5>2
      <4> QED
        BY <4>1, <4>2
    <3> QED
      BY <3>2, <3>3, <3>4
  <2> QED
    BY <1>3, <1>5, <2>1, <2>2, <2>3, <2>4 DEF PushInv, OwnInOrder
<1>10. StepsAsPlanned'
  BY <1>5 DEF StepsAsPlanned, Working
<1>11. PlanCovers'
  <2> SUFFICES ASSUME push'.moved = {}, ~push'.blind
               PROVE  Scanned(Root, push.upTo)' /\ \A s \in push'.nodes : Scanned(s, HEAD)'
    BY <1>5 DEF PlanCovers, Reliable
  <2>1. Scanned(Root, push.upTo) /\ \A s \in push.nodes : Scanned(s, HEAD)
    BY <1>2, <1>5 DEF PushInv, PlanCovers, Reliable
  <2>2. /\ x.q \in Kinds /\ x.repo \in Repos
        /\ x = Query(x.q, x.repo, x.commit)
    BY <1>3, <1>4, AskedTyped
  <2>3. ASSUME NEW k, NEW t, Covered(k, t) PROVE Covered(k, t)'
    <3>1. CASE t <= published[k]
      BY <1>3, <3>1 DEF Covered
    <3>2. CASE Query("unpublished", k, t) \in push.asked
      <4>1. CASE Query("unpublished", k, t) = x
        <5>1. x.q = "unpublished" /\ x.repo = k /\ x.commit = t
          BY <4>1 DEF Query
        <5> QED
          BY <1>3, <1>5, <5>1 DEF Covered, Settled
      <4>2. CASE Query("unpublished", k, t) # x
        BY <1>5, <3>2, <4>2 DEF Covered
      <4> QED
        BY <4>1, <4>2
    <3>3. CASE k \in push.nodes /\ (t <= at[k] \/ push.refused)
      BY <1>3, <1>5, <3>3 DEF Covered
    <3>4. CASE k \in push.nodes /\ Query("contains", k, t) \in push.asked
      <4>1. CASE Query("contains", k, t) = x
        <5>1. x.q = "contains" /\ x.repo = k /\ x.commit = t
          BY <4>1 DEF Query
        <5> QED
          BY <1>3, <1>5, <3>4, <5>1 DEF Covered, Settled
      <4>2. CASE Query("contains", k, t) # x
        BY <1>5, <3>4, <4>2 DEF Covered
      <4> QED
        BY <4>1, <4>2
    <3> QED
      BY <2>3, <3>1, <3>2, <3>3, <3>4 DEF Covered
  <2>4. ASSUME NEW r, NEW c, Scanned(r, c) PROVE Scanned(r, c)'
    <3>1. Resolve(r, c)' = Resolve(r, c) /\ Children(r)' = Children(r)
      BY <1>3 DEF Resolve, Children
    <3>2. CASE \A k \in Children(r) : Covered(k, made[r][Resolve(r, c)][k])
      <4>1. ASSUME NEW k \in Children(r) PROVE Covered(k, made[r][Resolve(r, c)][k])'
        <5>1. PICK t : t = made[r][Resolve(r, c)][k] /\ Covered(k, t)
          BY <3>2, <4>1
        <5>2. Covered(k, t)'
          BY <2>3, <5>1
        <5> QED
          BY <1>3, <3>1, <5>1, <5>2 DEF Covered
      <4> QED
        BY <3>1, <4>1 DEF Scanned
    <3>3. CASE Query("gitlinks", r, c) \in push.asked
      <4>1. CASE Query("gitlinks", r, c) = x
        <5>1. x.q = "gitlinks" /\ x.repo = r /\ x.commit = c
          BY <4>1 DEF Query
        <5>2. ASSUME NEW k \in Children(r) PROVE Covered(k, made[r][Resolve(r, c)][k])'
          <6>1. PICK t : t = made[r][Resolve(r, c)][k] /\ (t = 0 \/ Query("unpublished", k, t) \in push'.asked)
            BY <1>5, <5>1 DEF Settled
          <6>2. published[k] \in Nat
            BY <1>3 DEF ClonesTyped, Children, Repos
          <6>3. Covered(k, t)'
            BY <1>3, <6>1, <6>2 DEF Covered
          <6> QED
            BY <1>3, <3>1, <6>1, <6>3 DEF Covered
        <5> QED
          BY <3>1, <5>2 DEF Scanned
      <4>2. CASE Query("gitlinks", r, c) # x
        BY <1>5, <3>3, <4>2 DEF Scanned
      <4> QED
        BY <4>1, <4>2
    <3> QED
      BY <2>4, <3>2, <3>3 DEF Scanned
  <2>5. ASSUME NEW s \in push'.nodes PROVE Scanned(s, HEAD)'
    <3>1. CASE s \in push.nodes
      BY <2>1, <2>4, <3>1
    <3>2. CASE Query("gitlinks", s, HEAD) \in push'.asked
      BY <3>2 DEF Scanned
    <3> QED
      BY <1>5, <3>1, <3>2
  <2>6. Scanned(Root, push.upTo)'
    <3>1. PICK c : c = push.upTo
      OBVIOUS
    <3>2. Scanned(Root, c)'
      BY <2>1, <2>4, <3>1
    <3> QED
      BY <1>5, <3>1, <3>2 DEF Scanned, Resolve
  <2> QED
    BY <2>5, <2>6
<1>12. StepsFetchable'
  <2>1. Pushed' = Pushed
    BY <1>2, <1>5 DEF Pushed
  <2>2. Reliable' => Reliable
    BY <1>5 DEF Reliable
  <2> QED
    BY <1>3, <2>1, <2>2 DEF PushInv, StepsFetchable, Children
<1>13. EndsAsAsked'
  BY <1>5 DEF EndsAsAsked
<1> QED
  BY <1>3, <1>7, <1>8, <1>9, <1>10, <1>11, <1>12, <1>13 DEF PushInv

\* The first n steps are the submodules', each after those nested in it, and the rest the root's.
PlanOrder(steps, n) ==
    /\ steps \in Seq([repo : Repos, commit : Nat]) /\ Len(steps) \in Nat
    /\ Len(steps) = n + IF push.mode = "Branch" THEN 1 ELSE Len(push.own)
    /\ \A i \in 1..Len(steps) :
          /\ i <= n => steps[i].repo \in push.nodes /\ steps[i].commit = HEAD
          /\ i > n => /\ steps[i].repo = Root
                      /\ steps[i].commit = IF push.mode = "Branch" THEN HEAD ELSE push.own[i - n]
          /\ \A k \in Children(steps[i].repo) \cap push.nodes : \E j \in 1..(i-1) : steps[j].repo = k

LEMMA PlanInOrder ==
    ASSUME push.nodes \subseteq Submodules, NEW T \in Nat, push.own \in Seq(1..T)
    PROVE  \E n \in Nat : PlanOrder(plannedSteps, n)
<1> DEFINE a == appendPushSteps(push.nodes)
           b == IF push.mode = "Branch" THEN <<BranchStep(Root)>>
                ELSE [i \in 1..Len(push.own) |-> [repo |-> Root, commit |-> push.own[i]]]
           L == IF push.mode = "Branch" THEN 1 ELSE Len(push.own)
           Step1 == [repo : Repos, commit : Nat]
           ps == a \o b
<1>1. a \in ChildrenFirst(push.nodes) /\ \A k \in Children(Root) \cap push.nodes : Contains(a, BranchStep(k))
  BY PushStepsOrdered
<1>2. push.nodes \subseteq Repos /\ Root \in Repos /\ Root \notin push.nodes
  BY GitPushAssumption DEF Repos
<1>3. NodeSteps(push.nodes) \subseteq Step1
  BY <1>2 DEF NodeSteps, BranchStep, HEAD
<1>4. a \in Seq(NodeSteps(push.nodes))
  BY <1>1 DEF ChildrenFirst
<1>5. a \in Seq(Step1) /\ Len(a) \in Nat
  <2> HIDE DEF a, Step1
  <2> QED
    BY <1>3, <1>4, LenProperties
<1>6. \A i \in 1..Len(a) : a[i].repo \in push.nodes /\ a[i].commit = HEAD
  <2>1. \A i \in 1..Len(a) : a[i] \in NodeSteps(push.nodes)
    <3> HIDE DEF a
    <3> QED
      BY <1>4, ElementOfSeq
  <2> HIDE DEF a
  <2> QED
    BY <2>1 DEF NodeSteps, BranchStep
<1>7. /\ b \in Seq(Step1) /\ Len(b) = L /\ L \in Nat
      /\ \A i \in 1..L : b[i].repo = Root /\ b[i].commit = IF push.mode = "Branch" THEN HEAD ELSE push.own[i]
  <2>1. CASE push.mode = "Branch"
    <3>1. b = <<BranchStep(Root)>> /\ L = 1
      BY <2>1
    <3>2. BranchStep(Root) \in Step1 /\ BranchStep(Root).repo = Root /\ BranchStep(Root).commit = HEAD
      BY <1>2 DEF BranchStep, HEAD
    <3> HIDE DEF b, L, Step1
    <3> QED
      BY <2>1, <3>1, <3>2
  <2>2. CASE push.mode # "Branch"
    <3>1. b = [i \in 1..Len(push.own) |-> [repo |-> Root, commit |-> push.own[i]]] /\ L = Len(push.own)
      BY <2>2
    <3>2. Len(push.own) \in Nat /\ \A i \in 1..Len(push.own) : push.own[i] \in Nat
      BY LenProperties, ElementOfSeq
    <3>3. b \in [1..L -> Step1]
      BY <1>2, <3>1, <3>2
    <3>4. \A i \in 1..L : b[i] = [repo |-> Root, commit |-> push.own[i]]
      BY <3>1
    <3>5. L \in Nat
      BY <3>1, <3>2
    <3> HIDE DEF Step1, b, L
    <3>6. b \in Seq(Step1) /\ Len(b) = L
      BY <3>3, <3>5
    <3> QED
      BY <2>2, <3>4, <3>5, <3>6
  <2> QED
    BY <2>1, <2>2
<1>8. /\ ps \in Seq(Step1) /\ Len(ps) = Len(a) + L
      /\ \A i \in 1..(Len(a) + L) : ps[i] = IF i <= Len(a) THEN a[i] ELSE b[i - Len(a)]
  <2> HIDE DEF a, b, L, Step1
  <2> QED
    BY <1>5, <1>7, ConcatProperties
<1>9. plannedSteps = ps
  BY DEF plannedSteps
<1>10. ASSUME NEW i \in 1..Len(ps)
       PROVE  /\ i <= Len(a) => ps[i].repo \in push.nodes /\ ps[i].commit = HEAD
              /\ i > Len(a) => ps[i].repo = Root /\ ps[i].commit = IF push.mode = "Branch" THEN HEAD ELSE push.own[i - Len(a)]
              /\ \A k \in Children(ps[i].repo) \cap push.nodes : \E j \in 1..(i-1) : ps[j].repo = k
  <2> HIDE DEF a, b, L, Step1, ps
  <2>1. i \in 1..(Len(a) + L)
    BY <1>8, <1>10
  <2>2. CASE i <= Len(a)
    <3>1. i \in 1..Len(a) /\ ps[i] = a[i]
      BY <1>5, <1>8, <2>1, <2>2
    <3>2. ASSUME NEW k \in Children(ps[i].repo) \cap push.nodes PROVE \E j \in 1..(i-1) : ps[j].repo = k
      <4>1. PICK j \in 1..(i-1) : a[j].repo = k
        BY <1>1, <3>1, <3>2 DEF ChildrenFirst
      <4>2. ps[j] = a[j]
        BY <1>5, <1>7, <1>8, <3>1
      <4> QED
        BY <4>1, <4>2
    <3> QED
      BY <1>5, <1>6, <2>2, <3>1, <3>2
  <2>3. CASE i > Len(a)
    <3>1. i - Len(a) \in 1..L /\ ps[i] = b[i - Len(a)]
      BY <1>5, <1>7, <1>8, <2>1, <2>3
    <3>2. ps[i].repo = Root /\ ps[i].commit = IF push.mode = "Branch" THEN HEAD ELSE push.own[i - Len(a)]
      BY <1>7, <3>1
    <3>3. ASSUME NEW k \in Children(ps[i].repo) \cap push.nodes PROVE \E j \in 1..(i-1) : ps[j].repo = k
      <4>1. Contains(a, BranchStep(k))
        BY <1>1, <3>2, <3>3
      <4>2. PICK j \in 1..Len(a) : a[j] = BranchStep(k)
        BY <4>1 DEF Contains
      <4>3. ps[j] = a[j] /\ j \in 1..(i-1)
        BY <1>5, <1>7, <1>8, <2>1, <2>3
      <4> QED
        BY <4>2, <4>3 DEF BranchStep
    <3> QED
      BY <1>5, <2>1, <2>3, <3>2, <3>3
  <2> QED
    BY <1>5, <2>1, <2>2, <2>3
<1>11. Len(ps) \in Nat
  <2> HIDE DEF ps, Step1
  <2> QED
    BY <1>8, LenProperties
<1> HIDE DEF a, b, L, ps, Step1
<1>12. PlanOrder(ps, Len(a))
  BY <1>8, <1>10, <1>11 DEF PlanOrder, L, Step1
<1> QED
  BY <1>5, <1>9, <1>12

\* What the invariant reads of a push that goes on, or ends.
SamePlan(p, q) ==
    /\ q.mode = p.mode /\ q.upTo = p.upTo /\ q.nodes = p.nodes /\ q.own = p.own /\ q.steps = p.steps
    /\ q.before = p.before /\ q.moved = p.moved /\ q.blind = p.blind

LEMMA SameClones ==
    ASSUME PushInv, UNCHANGED clones, push'.nodes = push.nodes, push'.asked = push.asked, push'.refused = push.refused
    PROVE  \A r, c : Scanned(r, c) => Scanned(r, c)'
<1>1. made' = made /\ at' = at /\ published' = published
  BY DEF clones
<1>2. \A k, t : Covered(k, t) => Covered(k, t)'
  BY <1>1 DEF Covered
<1> SUFFICES ASSUME NEW r, NEW c, Scanned(r, c) PROVE Scanned(r, c)'
  OBVIOUS
<1>3. CASE \A k \in Children(r) : Covered(k, made[r][Resolve(r, c)][k])
  <2>1. ASSUME NEW k \in Children(r) PROVE Covered(k, made[r][Resolve(r, c)][k])'
    BY <1>1, <1>3 DEF Covered, Resolve
  <2> QED
    BY <2>1 DEF Scanned, Children
<1> QED
  BY <1>3 DEF Scanned

LEMMA CoverStays ==
    ASSUME PushInv, UNCHANGED clones, push.stage \in {"plan"} \cup Working,
           push'.nodes = push.nodes, push'.asked = push.asked, push'.refused = push.refused,
           push'.upTo = push.upTo, push'.moved = push.moved, push'.blind = push.blind
    PROVE  PlanCovers'
<1>1. Reliable' => Reliable
  BY DEF Reliable
<1>2. Reliable => Scanned(Root, push.upTo) /\ \A s \in push.nodes : Scanned(s, HEAD)
  BY DEF PushInv, PlanCovers
<1>3. PICK u : u = push.upTo
  OBVIOUS
<1>4. Reliable => Scanned(Root, u)' /\ \A s \in push.nodes : Scanned(s, HEAD)'
  BY <1>2, <1>3, SameClones
<1>5. Scanned(Root, u)' => Scanned(Root, push.upTo)'
  BY <1>3 DEF Scanned, Resolve
<1> QED
  BY <1>1, <1>4, <1>5 DEF PlanCovers

\* The push goes on with its plan: the confirmation, the offer of an upstream.
LEMMA GoesOnKeeps ==
    ASSUME PushInv, ExclusionInv', UNCHANGED clones, push.stage \in Working, push'.stage \in {"run", "offer"},
           SamePlan(push, push'), push'.index = push.index, push'.asked = push.asked, push'.refused = push.refused
    PROVE  PushInv'
<1>1. /\ published' = published /\ at' = at /\ made' = made
      /\ ClonesTyped' /\ Tip(Root)' = Tip(Root)
  BY ClonesStay DEF PushInv, clones
<1>2. PushTyped'
  BY <1>1 DEF PushInv, PushTyped, SamePlan, MayAsk
<1>3. OwnInOrder'
  BY <1>1 DEF PushInv, OwnInOrder, SamePlan
<1>4. plannedSteps' = plannedSteps
  BY DEF plannedSteps, SamePlan
<1>5. StepsAsPlanned'
  BY <1>1, <1>4 DEF PushInv, StepsAsPlanned, SamePlan, Working
<1>6. PlanCovers'
  BY CoverStays DEF SamePlan
<1>7. StepsFetchable'
  <2>1. Pushed' = Pushed
    BY DEF Pushed, SamePlan, Working
  <2> QED
    BY <1>1, <2>1 DEF PushInv, StepsFetchable, Reliable, SamePlan, Children
<1>8. EndsAsAsked'
  BY DEF EndsAsAsked
<1> QED
  BY <1>1, <1>2, <1>3, <1>5, <1>6, <1>7, <1>8 DEF PushInv

\* The push ends without success, and the window refreshes if it published any commit of the root.
LEMMA EndsKeeps ==
    ASSUME PushInv, ExclusionInv', UNCHANGED clones, push.stage \in Working \cup {"plan"},
           NEW refresh, published[Root] # push.before => refresh, EndPush(FALSE, refresh)
    PROVE  PushInv'
<1>1. /\ published' = published /\ at' = at /\ made' = made
      /\ ClonesTyped' /\ Tip(Root)' = Tip(Root)
  BY ClonesStay DEF PushInv, clones
<1>2. /\ SamePlan(push, push') /\ push'.index = push.index /\ push'.stage = "ended" /\ push'.asked = {}
      /\ push'.ok = FALSE /\ push'.refreshed = refresh
  BY DEF EndPush, SamePlan, PushInv, ExclusionInv, Shape
<1>3. PushTyped'
  BY <1>1, <1>2 DEF PushInv, PushTyped, SamePlan, MayAsk
<1>4. OwnInOrder'
  BY <1>1, <1>2 DEF PushInv, OwnInOrder, SamePlan
<1>5. StepsAsPlanned' /\ PlanCovers'
  BY <1>2 DEF StepsAsPlanned, PlanCovers, Working
<1>6. StepsFetchable'
  <2>1. Pushed' = Pushed
    BY <1>2 DEF Pushed, SamePlan, Working
  <2> QED
    BY <1>1, <1>2, <2>1 DEF PushInv, StepsFetchable, Reliable, SamePlan, Children
<1>7. EndsAsAsked'
  BY <1>1, <1>2 DEF EndsAsAsked, SamePlan
<1> QED
  BY <1>1, <1>3, <1>4, <1>5, <1>6, <1>7 DEF PushInv

\* The plan becomes the steps.
LEMMA PlannedPushInv == PushInv /\ Planned => PushInv'
<1> SUFFICES ASSUME PushInv, Planned PROVE PushInv'
  OBVIOUS
<1>1. ExclusionInv'
  BY PlannedKeeps DEF PushInv
<1>2. UNCHANGED clones /\ push.stage = "plan" /\ push.asked = {}
  BY DEF Planned
<1>3. published[Root] = push.before
  BY <1>2 DEF PushInv, OwnInOrder
<1>4. CASE EndPush(FALSE, FALSE)
  BY <1>1, <1>2, <1>3, <1>4, EndsKeeps
<1>5. CASE /\ ~push.refused
           /\ push' = [push EXCEPT !.steps = plannedSteps, !.index = 1,
                                   !.stage = IF push.mode = "Branch" THEN "run" ELSE "confirm"]
  <2>1. PICK steps : steps = plannedSteps
    OBVIOUS
  <2>2. push' = [push EXCEPT !.steps = steps, !.index = 1,
                             !.stage = IF push.mode = "Branch" THEN "run" ELSE "confirm"]
    BY <1>5, <2>1
  <2>3. /\ push'.steps = steps /\ push'.index = 1 /\ push'.stage \in {"run", "confirm"}
        /\ push'.mode = push.mode /\ push'.upTo = push.upTo /\ push'.nodes = push.nodes /\ push'.own = push.own
        /\ push'.before = push.before /\ push'.moved = push.moved /\ push'.blind = push.blind
        /\ push'.asked = push.asked /\ push'.refused = push.refused
    BY <2>2 DEF PushInv, ExclusionInv, Shape
  <2>4. /\ published' = published /\ at' = at /\ made' = made
        /\ ClonesTyped' /\ Tip(Root)' = Tip(Root)
    BY <1>2, ClonesStay DEF PushInv, clones
  <2>5. plannedSteps' = plannedSteps
    BY <2>3 DEF plannedSteps
  <2>6. PushTyped'
    BY <2>3, <2>4 DEF PushInv, PushTyped, MayAsk
  <2>7. OwnInOrder'
    BY <2>3, <2>4 DEF PushInv, OwnInOrder
  <2>8. push.mode # "Branch" => push.own # <<>>
    BY <1>2, <1>5 DEF PushInv, OwnInOrder
  <2>9. /\ Tip(Root) \in Nat /\ push.own \in Seq(1..Tip(Root)) /\ push.nodes \subseteq Submodules
        /\ published[Root] \in Nat
    <3>1. Root \in Repos /\ made[Root] \in Seq(TreeOf(Root)) /\ published[Root] \in Nat
      BY DEF PushInv, ClonesTyped, Repos
    <3> QED
      BY <3>1, LenProperties DEF PushInv, PushTyped, Tip
  <2>10. PICK n \in Nat : PlanOrder(steps, n)
    BY <2>1, <2>9, PlanInOrder
  <2>11. 1 \in 1..Len(steps)
    <3>1. Len(push.own) \in Nat /\ (push.own # <<>> => Len(push.own) >= 1)
      BY <2>9, LenProperties, EmptySeq
    <3> QED
      BY <2>8, <2>10, <3>1 DEF PlanOrder
  <2>12. ASSUME NEW i \in 1..Len(steps), steps[i].repo = Root, steps[i].commit # HEAD
         PROVE  published[Root] < steps[i].commit
    <3>1. Root \notin push.nodes
      BY <2>9, GitPushAssumption
    <3>2. i > n /\ push.mode # "Branch" /\ steps[i].commit = push.own[i - n] /\ i - n \in 1..Len(push.own)
      BY <2>10, <2>12, <3>1 DEF PlanOrder
    <3> QED
      BY <1>3, <3>2 DEF PushInv, OwnInOrder
  <2>13. StepsAsPlanned'
    <3>1. push'.index \in 1..Len(push'.steps) /\ push'.steps = plannedSteps'
      BY <2>1, <2>3, <2>5, <2>11
    <3>2. \A i \in push'.index..Len(push'.steps) :
             push'.steps[i].repo = Root /\ push'.steps[i].commit # HEAD => published'[Root] < push'.steps[i].commit
      BY <2>3, <2>4, <2>12
    <3> QED
      BY <1>2, <1>3, <1>5, <2>3, <2>4, <2>8, <3>1, <3>2 DEF StepsAsPlanned
  <2>14. PlanCovers'
    BY <1>2, <2>3, CoverStays
  <2>15. StepsFetchable'
    <3>1. Pushed' = {}
      <4>1. \A j \in DOMAIN steps : ~(j < 1)
        <5>1. DOMAIN steps = 1..Len(steps)
          BY <2>10, LenProperties DEF PlanOrder
        <5> QED
          BY <2>10, <5>1 DEF PlanOrder
      <4> QED
        BY <2>3, <4>1 DEF Pushed
    <3> QED
      BY <3>1 DEF StepsFetchable
  <2>16. EndsAsAsked'
    BY <2>3 DEF EndsAsAsked
  <2> QED
    BY <1>1, <2>4, <2>6, <2>7, <2>13, <2>14, <2>15, <2>16 DEF PushInv
<1> QED
  BY <1>4, <1>5 DEF Planned

\* What a step that succeeds publishes: its commit, and what git's on-demand push takes along.
LEMMA StepPublishes ==
    ASSUME PushInv, push.stage = "run", StepSucceeds,
           NEW r, NEW c, r = Step.repo, c = Resolve(r, Step.commit), r \in Repos, Step.commit \in Nat, Step.commit <= Tip(r)
    PROVE  /\ published'[r] = c /\ c \in 1..Tip(r) /\ published[r] <= c
           /\ ClonesTyped' /\ Tip(Root)' = Tip(Root) /\ made' = made /\ at' = at
           /\ \A s \in Repos : published[s] <= published'[s] /\ (published[s] = at[s] /\ s # r => published'[s] = published[s])
           /\ r # Root => published'[Root] = published[Root]
<1> DEFINE others == IF r = Root /\ Step.commit = HEAD THEN OnDemand ELSE published
<1>1. /\ published' = [others EXCEPT ![r] = c] /\ upstream' = [upstream EXCEPT ![r] = TRUE]
      /\ UNCHANGED <<made, at, onBranch>> /\ c >= published[r]
  BY DEF StepSucceeds, CanPush
<1>2. /\ \A s \in Repos : /\ at[s] \in 1..Tip(s) /\ published[s] \in 1..Tip(s) /\ made[s] \in Seq(TreeOf(s))
                          /\ Tip(s) \in Nat /\ Tip(s) <= MaxCommits /\ at[s] \in Nat /\ published[s] \in Nat
      /\ published \in [Repos -> Nat] /\ Root \in Repos
  BY LenProperties DEF PushInv, ClonesTyped, Tip, Repos
<1>3. c \in 1..Tip(r)
  BY <1>1, <1>2 DEF Resolve, HEAD
<1>4. /\ others \in [Repos -> Nat]
      /\ \A s \in Repos : /\ others[s] \in 1..Tip(s) /\ published[s] <= others[s]
                          /\ published[s] = at[s] => others[s] = published[s]
      /\ r # Root => others = published
  <2>1. CASE r = Root /\ Step.commit = HEAD
    <3>1. others = OnDemand
      BY <2>1
    <3>2. \A s \in Repos : OnDemand[s] = published[s] \/ (OnDemand[s] = at[s] /\ at[s] > published[s])
      BY DEF OnDemand
    <3>3. OnDemand \in [Repos -> Nat]
      BY <1>2 DEF OnDemand
    <3> HIDE DEF others
    <3> QED
      BY <1>2, <2>1, <3>1, <3>2, <3>3
  <2>2. CASE ~(r = Root /\ Step.commit = HEAD)
    <3>1. others = published
      BY <2>2
    <3> HIDE DEF others
    <3> QED
      BY <1>2, <3>1
  <2> QED
    BY <2>1, <2>2
<1> HIDE DEF others
<1>5. /\ published' \in [Repos -> Nat] /\ published'[r] = c
      /\ \A s \in Repos : s # r => published'[s] = others[s]
  BY <1>1, <1>2, <1>3, <1>4
<1>6. \A s \in Repos : published'[s] \in 1..Tip(s) /\ published[s] <= published'[s]
  BY <1>1, <1>2, <1>3, <1>4, <1>5
<1>7. upstream' \in [Repos -> BOOLEAN]
  BY <1>1 DEF PushInv, ClonesTyped
<1>8. \A s : Tip(s)' = Tip(s)
  BY <1>1 DEF Tip
<1>9. ClonesTyped'
  <2>1. /\ DOMAIN made = Repos /\ made = [s \in Repos |-> made[s]]
        /\ at \in [Repos -> Nat] /\ onBranch \in [Repos -> BOOLEAN]
        /\ \A s \in Repos : /\ made[s] \in Seq(TreeOf(s)) /\ Len(made[s]) <= MaxCommits
                            /\ at[s] \in 1..Len(made[s]) /\ published'[s] \in 1..Len(made[s])
    BY <1>6 DEF PushInv, ClonesTyped, Tip
  <2>2. \A s : TreeOf(s)' = TreeOf(s)
    BY DEF TreeOf, Children
  <2> QED
    BY <1>1, <1>5, <1>7, <2>1, <2>2 DEF ClonesTyped, Tip
<1> QED
  BY <1>1, <1>2, <1>3, <1>4, <1>5, <1>6, <1>8, <1>9

\* What is published since the plan was made still covers it.
LEMMA CoverGrows ==
    ASSUME PushInv, ClonesTyped', made' = made, at' = at, \A s \in Repos : published[s] <= published'[s],
           push'.nodes = push.nodes, push'.asked = push.asked, push'.refused = push.refused,
           push'.upTo = push.upTo, push'.moved = push.moved, push'.blind = push.blind,
           push.stage \in {"plan"} \cup Working
    PROVE  PlanCovers'
<1>1. /\ Root \in Repos /\ push.upTo \in Nat /\ push.upTo <= Tip(Root)
      /\ \A s \in push.nodes : s \in Repos /\ HEAD \in Nat /\ HEAD <= Tip(s)
      /\ \A s \in Repos : Tip(s) \in Nat /\ published[s] \in Nat /\ published'[s] \in Nat
  BY LenProperties, GitPushAssumption DEF PushInv, ClonesTyped, PushTyped, Repos, HEAD, Tip
<1>2. ASSUME NEW r \in Repos, NEW c \in Nat, c <= Tip(r), Scanned(r, c)
      PROVE  Scanned(r, c)'
  <2>1. CASE Query("gitlinks", r, c) \in push.asked
    BY <2>1 DEF Scanned
  <2>2. CASE \A k \in Children(r) : Covered(k, made[r][Resolve(r, c)][k])
    <3>1. ASSUME NEW k \in Children(r) PROVE Covered(k, made[r][Resolve(r, c)][k])'
      <4>1. PICK t : t = made[r][Resolve(r, c)][k] /\ Covered(k, t)
        BY <2>2, <3>1
      <4>2. t \in Nat /\ k \in Repos
        BY <1>2, <4>1, GitlinkTyped, GitPushAssumption DEF PushInv
      <4>3. t <= published[k] => t <= published'[k]
        BY <1>1, <4>2
      <4>4. Covered(k, t)'
        BY <4>1, <4>3 DEF Covered
      <4>5. t = (made[r][Resolve(r, c)][k])'
        BY <4>1 DEF Resolve
      <4> QED
        BY <4>4, <4>5 DEF Covered
    <3> QED
      BY <3>1 DEF Scanned, Children
  <2> QED
    BY <1>2, <2>1, <2>2 DEF Scanned
<1>3. Reliable' => Reliable
  BY DEF Reliable
<1>4. Reliable => Scanned(Root, push.upTo) /\ \A s \in push.nodes : Scanned(s, HEAD)
  BY DEF PushInv, PlanCovers
<1>5. PICK u : u = push.upTo
  OBVIOUS
<1>6. Reliable => Scanned(Root, u)' /\ \A s \in push.nodes : Scanned(s, HEAD)'
  BY <1>1, <1>2, <1>4, <1>5
<1>7. Scanned(Root, u)' => Scanned(Root, push.upTo)'
  BY <1>5 DEF Scanned, Resolve
<1> QED
  BY <1>3, <1>6, <1>7 DEF PlanCovers

LEMMA StepTyped ==
    ASSUME PushInv, push.stage \in Working, NEW n \in Nat, PlanOrder(push.steps, n)
    PROVE  /\ push.index \in 1..Len(push.steps) /\ push.index \in DOMAIN push.steps /\ Len(push.steps) \in Nat
           /\ push.index <= n => Step.repo \in push.nodes /\ Step.commit = HEAD
           /\ push.index > n => /\ Step.repo = Root
                                /\ push.mode = "Branch" => Step.commit = HEAD /\ push.index = Len(push.steps)
                                /\ push.mode # "Branch" => Step.commit = push.own[push.index - n] /\ push.index - n \in 1..Len(push.own)
           /\ \A k \in Children(Step.repo) \cap push.nodes : \E j \in 1..(push.index - 1) : push.steps[j].repo = k
           /\ Step.repo \in Repos /\ Step.commit \in Nat /\ Step.commit <= Tip(Step.repo)
           /\ Root \notin push.nodes /\ push.nodes \subseteq Submodules
<1>1. PICK i \in 1..Len(push.steps) : i = push.index
  BY DEF PushInv, StepsAsPlanned
<1>2. PICK s : s = push.steps[i]
  OBVIOUS
<1>3. Step = s
  BY <1>1, <1>2 DEF Step
<1>4. /\ i <= n => s.repo \in push.nodes /\ s.commit = HEAD
      /\ i > n => /\ s.repo = Root
                  /\ s.commit = IF push.mode = "Branch" THEN HEAD ELSE push.own[i - n]
      /\ \A k \in Children(s.repo) \cap push.nodes : \E j \in 1..(i-1) : push.steps[j].repo = k
      /\ Len(push.steps) = n + IF push.mode = "Branch" THEN 1 ELSE Len(push.own)
      /\ push.steps \in Seq([repo : Repos, commit : Nat]) /\ Len(push.steps) \in Nat
  BY <1>1, <1>2 DEF PlanOrder
<1>5. DOMAIN push.steps = 1..Len(push.steps)
  BY <1>4, LenProperties
<1>6. push.own \in Seq(1..Tip(Root)) /\ push.nodes \subseteq Submodules /\ Root \notin push.nodes
  BY GitPushAssumption DEF PushInv, PushTyped
<1>7. Len(push.own) \in Nat
  BY <1>6, LenProperties
<1>8. i > n => /\ push.mode = "Branch" => i = Len(push.steps)
               /\ push.mode # "Branch" => i - n \in 1..Len(push.own)
  BY <1>1, <1>4, <1>7
<1>9. i > n /\ push.mode # "Branch" => push.own[i - n] \in 1..Tip(Root)
  BY <1>6, <1>8, ElementOfSeq
<1>10. \A r \in Repos : Tip(r) \in Nat
  BY LenProperties DEF PushInv, ClonesTyped, Tip
<1>11. s.repo \in Repos /\ s.commit \in Nat /\ s.commit <= Tip(s.repo)
  <2>1. i <= n \/ i > n
    BY <1>1
  <2>2. s.repo \in Repos
    BY <1>4, <1>6, <2>1 DEF Repos
  <2> QED
    BY <1>4, <1>9, <1>10, <2>1, <2>2 DEF HEAD
<1> QED
  BY <1>1, <1>3, <1>4, <1>5, <1>6, <1>8, <1>11

\* What the commit the step publishes references is published: by the plan, by an earlier step or by git's check.
LEMMA StepIsReady ==
    ASSUME PushInv, Reliable, push.stage = "run", CanPush, NEW n \in Nat, PlanOrder(push.steps, n), NEW k \in Children(Step.repo)
    PROVE  made[Step.repo][Resolve(Step.repo, Step.commit)][k] <= published[k]
<1>1. /\ push.asked = {} /\ ~push.refused /\ push.index \in 1..Len(push.steps) /\ push.nodes \subseteq Submodules
      /\ PlanCovers /\ push.stage \in Working
      /\ Step.repo = Root /\ Step.commit # HEAD => published[Root] < Step.commit
  BY DEF PushInv, StepsAsPlanned, PushTyped, Working, Step
<1>2. /\ (Step.repo \in push.nodes /\ Step.commit = HEAD) \/ (Step.repo = Root /\ push.index > n)
      /\ Root \notin push.nodes
      /\ \A s \in Children(Step.repo) \cap push.nodes : \E j \in 1..(push.index - 1) : push.steps[j].repo = s
      /\ Step.repo \in Repos /\ Step.commit \in Nat /\ Step.commit <= Tip(Step.repo)
  <2>1. push.index <= n \/ push.index > n
    BY <1>1, StepTyped
  <2> QED
    BY <1>1, <2>1, StepTyped
<1>3. Step.repo \in Repos /\ k \in Submodules /\ k \in Repos
  BY <1>1, <1>2 DEF Children, Repos
<1>4. \A s \in Repos : at[s] \in Nat /\ published[s] \in Nat /\ at[s] <= Tip(s) /\ Tip(s) \in Nat
  BY LenProperties DEF PushInv, ClonesTyped, Tip
<1>5. ASSUME Scanned(Step.repo, HEAD)
      PROVE  made[Step.repo][at[Step.repo]][k] <= published[k]
  <2>1. PICK t : t = made[Step.repo][at[Step.repo]][k]
    OBVIOUS
  <2>2. Covered(k, t)
    BY <1>1, <1>5, <2>1 DEF Scanned, Resolve
  <2>3. t <= published[k] \/ (k \in push.nodes /\ t <= at[k])
    BY <1>1, <2>2 DEF Covered
  <2>4. k \in push.nodes => published[k] = at[k]
    <3>1. ASSUME k \in push.nodes PROVE k \in Pushed
      <4>1. PICK j \in 1..(push.index - 1) : push.steps[j].repo = k
        BY <1>2, <3>1
      <4>2. j \in DOMAIN push.steps /\ j < push.index
        BY <1>1, LenProperties DEF PlanOrder
      <4> QED
        BY <4>1, <4>2 DEF Pushed
    <3> QED
      BY <1>3, <3>1, GitPushAssumption DEF PushInv, StepsFetchable
  <2> QED
    BY <2>1, <2>3, <2>4
<1>6. CASE Step.commit = HEAD
  <2>1. Scanned(Step.repo, HEAD)
    <3>1. CASE Step.repo \in push.nodes
      BY <1>1, <3>1 DEF PlanCovers
    <3>2. CASE Step.repo = Root
      <4>1. push.mode = "Branch"
        <5>1. push.mode # "Branch" => Step.commit = push.own[push.index - n] /\ push.index - n \in 1..Len(push.own)
          BY <1>1, <1>2, <3>2, StepTyped
        <5>2. push.mode # "Branch" => push.before < Step.commit /\ push.before \in Nat
          BY <5>1 DEF PushInv, OwnInOrder, PushTyped
        <5> QED
          BY <1>6, <5>2 DEF HEAD
      <4>2. push.upTo = HEAD
        BY <4>1 DEF PushInv, OwnInOrder
      <4> QED
        BY <1>1, <3>2, <4>2 DEF PlanCovers
    <3> QED
      BY <1>2, <3>1, <3>2
  <2> QED
    BY <1>5, <1>6, <2>1 DEF Resolve
<1>7. CASE Step.commit # HEAD
  <2>1. Step.repo = Root
    BY <1>2, <1>7
  <2>2. Step.commit \in Nat /\ Resolve(Root, Step.commit) = Step.commit
    BY <1>2, <1>7, <2>1 DEF Resolve
  <2>3. Dangling(Root, Step.commit, published) = {}
    BY <1>7, <2>1, <2>2 DEF CanPush
  <2>4. Step.commit \in Publishes(Root, Step.commit)
    BY <1>1, <1>7, <2>1, <2>2, <1>4, <1>3 DEF Publishes
  <2>5. ~(made[Root][Step.commit][k] > published[k])
    BY <2>1, <2>3, <2>4 DEF Dangling
  <2>6. made[Root][Step.commit][k] \in Nat
    BY <1>2, <1>3, <2>1, <2>2, GitlinkTyped, GitPushAssumption DEF PushInv
  <2> QED
    BY <1>3, <1>4, <2>1, <2>2, <2>5, <2>6
<1> QED
  BY <1>6, <1>7

LEMMA StepsInOrder ==
    ASSUME PushInv, push.stage \in Working
    PROVE  \E n \in Nat : PlanOrder(push.steps, n)
<1>1. Tip(Root) \in Nat /\ push.own \in Seq(1..Tip(Root)) /\ push.nodes \subseteq Submodules
  <2>1. Root \in Repos /\ made[Root] \in Seq(TreeOf(Root))
    BY DEF PushInv, ClonesTyped, Repos
  <2> QED
    BY <2>1, LenProperties DEF PushInv, PushTyped, Tip
<1>2. push.steps = plannedSteps
  BY DEF PushInv, StepsAsPlanned
<1> QED
  BY <1>1, <1>2, PlanInOrder

\* A step that succeeds leaves a tip that can be fetched, and the tips before it as they were.
LEMMA SucceedsPushInv ==
    ASSUME PushInv, ExclusionInv', push.stage = "run", StepSucceeds
    PROVE  PushInv'
<1>1. PICK n \in Nat : PlanOrder(push.steps, n)
  BY StepsInOrder DEF Working
<1>2. PICK r : r = Step.repo
  OBVIOUS
<1>3. PICK c : c = Resolve(r, Step.commit)
  OBVIOUS
<1>4. /\ push.index \in 1..Len(push.steps) /\ push.index \in DOMAIN push.steps /\ Len(push.steps) \in Nat
      /\ push.index <= n => r \in push.nodes /\ Step.commit = HEAD
      /\ push.index > n => /\ r = Root
                           /\ push.mode = "Branch" => push.index = Len(push.steps)
                           /\ push.mode # "Branch" => Step.commit = push.own[push.index - n] /\ push.index - n \in 1..Len(push.own)
      /\ r \in Repos /\ Step.commit \in Nat /\ Step.commit <= Tip(r)
      /\ Root \notin push.nodes /\ push.nodes \subseteq Submodules
  BY <1>1, <1>2, StepTyped DEF Working
<1>5. /\ published'[r] = c /\ c \in 1..Tip(r)
      /\ ClonesTyped' /\ Tip(Root)' = Tip(Root) /\ made' = made /\ at' = at
      /\ \A s \in Repos : published[s] <= published'[s] /\ (published[s] = at[s] /\ s # r => published'[s] = published[s])
      /\ r # Root => published'[Root] = published[Root]
  BY <1>2, <1>3, <1>4, StepPublishes
<1>6. /\ SamePlan(push, push')
      /\ \/ /\ push.index < Len(push.steps)
            /\ push'.stage = "run" /\ push'.index = push.index + 1 /\ push'.ok = push.ok
            /\ push'.asked = push.asked /\ push'.refused = push.refused
         \/ /\ push.index = Len(push.steps)
            /\ push'.stage = "ended" /\ push'.index = push.index /\ push'.ok = TRUE /\ push'.refreshed = TRUE
            /\ push'.asked = {}
  <2>1. CASE push' = [push EXCEPT !.index = @ + 1, !.retry = FALSE] /\ push.index < Len(push.steps)
    BY <2>1 DEF PushInv, ExclusionInv, Shape, SamePlan
  <2>2. CASE push' = [push EXCEPT !.stage = "ended", !.asked = {}, !.ok = TRUE, !.refreshed = TRUE] /\ ~(push.index < Len(push.steps))
    BY <1>4, <2>2 DEF PushInv, ExclusionInv, Shape, SamePlan
  <2> QED
    BY <2>1, <2>2 DEF StepSucceeds, EndPush
<1>7. PushTyped'
  BY <1>4, <1>5, <1>6 DEF PushInv, PushTyped, SamePlan, MayAsk
<1>8. OwnInOrder'
  BY <1>6 DEF PushInv, OwnInOrder, SamePlan
<1>9. published[Root] \in Nat /\ \A s \in Repos : published[s] \in Nat /\ at[s] \in Nat
  BY DEF PushInv, ClonesTyped, Repos
<1>10. /\ push.refused = FALSE /\ push.asked = {} /\ (push.mode # "Branch" => push.own # <<>>)
       /\ push.steps = plannedSteps
       /\ published[Root] # push.before => push.index > 1 /\ push.steps[push.index - 1].repo = Root
       /\ \A i \in push.index..Len(push.steps) :
             push.steps[i].repo = Root /\ push.steps[i].commit # HEAD => published[Root] < push.steps[i].commit
  BY DEF PushInv, StepsAsPlanned, Working
<1>11. r = Root => push.index > n
  BY <1>4
<1>12. r = Root /\ push.mode # "Branch" => Step.commit # HEAD /\ c = push.own[push.index - n]
  <2>1. r = Root /\ push.mode # "Branch" => push.before < Step.commit
    BY <1>4, <1>11 DEF PushInv, OwnInOrder
  <2> QED
    BY <1>3, <1>4, <1>11, <2>1 DEF Resolve, HEAD, PushInv, PushTyped
<1>13. StepsAsPlanned'
  <2>1. CASE push.index < Len(push.steps)
    <3>1. push'.stage = "run" /\ push'.index = push.index + 1 /\ push'.asked = {} /\ push'.refused = FALSE
      BY <1>6, <1>10, <2>1
    <3>2. plannedSteps' = plannedSteps
      BY <1>6 DEF plannedSteps, SamePlan
    <3>3. push'.index \in 1..Len(push.steps)
      BY <1>4, <2>1, <3>1
    <3>4. published'[Root] # push.before => push'.index > 1 /\ push.steps[push'.index - 1].repo = Root
      <4>1. push'.index > 1 /\ push'.index - 1 = push.index /\ push.steps[push.index].repo = r
        BY <1>2, <1>4, <3>1 DEF Step
      <4>2. CASE r # Root
        <5>1. published[Root] = push.before
          <6> SUFFICES ASSUME published[Root] # push.before PROVE FALSE
            OBVIOUS
          <6>1. push.index - 1 \in 1..Len(push.steps) /\ push.steps[push.index - 1].repo = Root
            BY <1>4, <1>10
          <6>2. push.index - 1 <= n
            BY <1>4, <4>2
          <6> QED
            BY <1>1, <1>4, <6>1, <6>2 DEF PlanOrder
        <5> QED
          BY <1>5, <4>2, <5>1
      <4> QED
        BY <4>1, <4>2
    <3>5. ASSUME NEW i \in push'.index..Len(push.steps), push.steps[i].repo = Root, push.steps[i].commit # HEAD
          PROVE  published'[Root] < push.steps[i].commit
      <4>1. i \in push.index..Len(push.steps) /\ i \in 1..Len(push.steps) /\ push.index < i
        BY <1>4, <3>1
      <4>2. published[Root] < push.steps[i].commit
        BY <1>10, <3>5, <4>1
      <4>3. CASE r # Root
        BY <1>5, <4>2, <4>3
      <4>4. CASE r = Root
        <5>1. push.mode # "Branch"
          BY <1>4, <1>11, <2>1, <4>4
        <5>2. push.steps[i].commit = push.own[i - n] /\ i - n \in 1..Len(push.own)
          <6>1. i > n /\ Len(push.steps) = n + Len(push.own) /\ Len(push.own) \in Nat
            <7>1. Len(push.own) \in Nat
              BY LenProperties DEF PushInv, PushTyped
            <7> QED
              BY <1>1, <1>4, <1>11, <4>1, <4>4, <5>1, <7>1 DEF PlanOrder
          <6> QED
            BY <1>1, <4>1, <5>1, <6>1 DEF PlanOrder
        <5>3. push.own[push.index - n] < push.own[i - n]
          <6>1. push.index - n \in 1..Len(push.own) /\ push.index - n < i - n
            BY <1>4, <1>11, <4>1, <4>4, <5>1
          <6> QED
            BY <5>2, <6>1 DEF PushInv, OwnInOrder
        <5> QED
          BY <1>5, <1>12, <4>4, <5>1, <5>2, <5>3
      <4> QED
        BY <4>3, <4>4
    <3>6. /\ push'.steps = push.steps /\ push'.own = push.own /\ push'.mode = push.mode /\ push'.before = push.before
      BY <1>6 DEF SamePlan
    <3> QED
      BY <1>10, <3>1, <3>2, <3>3, <3>4, <3>5, <3>6 DEF StepsAsPlanned
  <2>2. CASE push.index = Len(push.steps)
    BY <1>4, <1>6, <2>2 DEF StepsAsPlanned, Working
  <2> QED
    BY <1>6, <2>1, <2>2
<1>14. PlanCovers'
  <2>1. CASE push.index < Len(push.steps)
    BY <1>5, <1>6, <2>1, CoverGrows DEF SamePlan, Working
  <2>2. CASE push.index = Len(push.steps)
    BY <1>4, <1>6, <2>2 DEF PlanCovers, Working
  <2> QED
    BY <1>6, <2>1, <2>2
<1>15. StepsFetchable'
  <2> SUFFICES ASSUME Reliable', NEW q \in Pushed'
               PROVE  /\ q # Root => published'[q] = at[q]
                      /\ \A s \in Children(q) : made[q][published'[q]][s] <= published'[s]
    BY <1>5 DEF StepsFetchable, Children
  <2>1. Reliable
    BY <1>6 DEF Reliable, SamePlan
  <2>2. q \in Pushed \/ q = r
    <3>1. PICK j \in DOMAIN push.steps : q = push.steps[j].repo /\ (j < push'.index \/ push'.stage = "ended")
      BY <1>6 DEF Pushed, SamePlan
    <3>2. j \in 1..Len(push.steps)
      BY <1>1, LenProperties DEF PlanOrder
    <3>3. j < push.index \/ j = push.index
      BY <1>4, <1>6, <3>1, <3>2
    <3> QED
      BY <1>2, <3>1, <3>3 DEF Pushed, Step
  <2>3. CASE q = r
    <3>1. r # Root => c = at[r]
      BY <1>3, <1>4 DEF Resolve
    <3>2. ASSUME NEW s \in Children(r) PROVE made[r][c][s] <= published'[s]
      <4>1. made[r][c][s] <= published[s]
        BY <1>1, <1>2, <1>3, <2>1, <3>2, StepIsReady DEF StepSucceeds
      <4>2. made[r][c][s] \in Nat /\ s \in Repos
        BY <1>3, <1>4, <3>2, GitlinkTyped, GitPushAssumption DEF PushInv
      <4>3. published[s] \in Nat /\ published'[s] \in Nat /\ published[s] <= published'[s]
        BY <1>5, <4>2 DEF PushInv, ClonesTyped
      <4> QED
        BY <4>1, <4>2, <4>3
    <3> QED
      BY <1>5, <2>3, <3>1, <3>2
  <2>4. CASE q \in Pushed /\ q # r
    <3>1. /\ q # Root => published[q] = at[q]
          /\ \A s \in Children(q) : made[q][published[q]][s] <= published[s]
      BY <2>1, <2>4 DEF PushInv, StepsFetchable
    <3>2. q \in Repos
      <4>1. PICK j \in 1..Len(push.steps) : q = push.steps[j].repo
        <5>1. DOMAIN push.steps = 1..Len(push.steps)
          BY <1>1, LenProperties DEF PlanOrder
        <5> QED
          BY <2>4, <5>1 DEF Pushed
      <4>2. push.steps[j] \in [repo : Repos, commit : Nat]
        BY <1>1, <4>1, ElementOfSeq DEF PlanOrder
      <4> QED
        BY <4>1, <4>2
    <3>3. published'[q] = published[q]
      BY <1>5, <2>4, <3>1, <3>2
    <3>4. ASSUME NEW s \in Children(q) PROVE made[q][published[q]][s] <= published'[s]
      <4>1. PICK d : d = published[q]
        OBVIOUS
      <4>2. d \in Nat /\ d <= Tip(q) /\ Resolve(q, d) = d
        <5>1. d \in 1..Tip(q)
          BY <3>2, <4>1 DEF PushInv, ClonesTyped
        <5>2. Tip(q) \in Nat
          BY <3>2, LenProperties DEF PushInv, ClonesTyped, Tip
        <5> QED
          BY <5>1, <5>2 DEF Resolve, HEAD
      <4>3. made[q][d][s] \in Nat /\ s \in Repos
        BY <3>2, <3>4, <4>2, GitlinkTyped, GitPushAssumption DEF PushInv
      <4>4. published[s] \in Nat /\ published'[s] \in Nat /\ published[s] <= published'[s]
        BY <1>5, <4>3 DEF PushInv, ClonesTyped
      <4> QED
        BY <3>1, <3>4, <4>1, <4>3, <4>4
    <3> QED
      BY <3>1, <3>3, <3>4, <1>5
  <2> QED
    BY <2>2, <2>3, <2>4
<1>16. EndsAsAsked'
  <2>1. CASE push.index < Len(push.steps)
    BY <1>6, <2>1 DEF EndsAsAsked
  <2>2. CASE push.index = Len(push.steps)
    <3>1. push'.refreshed = TRUE /\ push'.mode = push.mode /\ push'.upTo = push.upTo /\ push'.before = push.before
      BY <1>4, <1>6, <2>2 DEF SamePlan
    <3>2. ASSUME push.mode = "UpTo" PROVE published'[Root] = push.upTo
      <4>1. push.own = <<push.upTo>>
        BY <1>10, <3>2 DEF PushInv, OwnInOrder
      <4>2. Len(push.own) = 1 /\ push.own[1] = push.upTo
        BY <4>1
      <4>3. push.index = n + 1
        BY <1>1, <2>2, <3>2, <4>2 DEF PlanOrder
      <4>4. r = Root /\ c = push.own[1]
        <5>1. push.index > n /\ push.index - n = 1
          BY <4>3
        <5> QED
          BY <1>4, <1>12, <3>2, <5>1
      <4> QED
        BY <1>5, <4>2, <4>4
    <3> QED
      BY <3>1, <3>2 DEF EndsAsAsked
  <2> QED
    BY <1>6, <2>1, <2>2
<1> QED
  BY <1>5, <1>7, <1>8, <1>13, <1>14, <1>15, <1>16 DEF PushInv

LEMMA FailsPushInv ==
    ASSUME PushInv, ExclusionInv', push.stage = "run", StepFails
    PROVE  PushInv'
<1>1. CASE push' = [push EXCEPT !.stage = "offer"]
  <2>1. /\ SamePlan(push, push') /\ push'.index = push.index /\ push'.asked = push.asked
        /\ push'.refused = push.refused /\ push'.stage = "offer"
    BY <1>1 DEF PushInv, ExclusionInv, Shape, SamePlan
  <2> QED
    BY <2>1, GoesOnKeeps DEF StepFails, Working
<1>2. CASE EndPush(FALSE, RefreshesAfterFailure)
  <2>1. published[Root] # push.before => RefreshesAfterFailure
    BY DEF PushInv, StepsAsPlanned, RefreshesAfterFailure, Working
  <2> QED
    BY <1>2, <2>1, EndsKeeps DEF StepFails, Working
<1> QED
  BY <1>1, <1>2 DEF StepFails

LEMMA AnswerUserPushInv ==
    ASSUME PushInv, NEW yes \in BOOLEAN, Confirm(yes) \/ offerUpstreamThenRetry(yes)
    PROVE  PushInv'
<1>1. ExclusionInv'
  BY AnswerUserKeeps DEF PushInv
<1>2. UNCHANGED clones /\ push.stage \in {"confirm", "offer"} /\ push.stage \in Working
  BY DEF Confirm, offerUpstreamThenRetry, Working
<1>3. CASE push' = [push EXCEPT !.stage = "run"] \/ push' = [push EXCEPT !.stage = "run", !.retry = TRUE]
  <2>1. /\ SamePlan(push, push') /\ push'.index = push.index /\ push'.asked = push.asked
        /\ push'.refused = push.refused /\ push'.stage = "run"
    BY <1>3 DEF PushInv, ExclusionInv, Shape, SamePlan
  <2> QED
    BY <1>1, <1>2, <2>1, GoesOnKeeps
<1>4. CASE push.stage = "confirm" /\ EndPush(FALSE, FALSE)
  <2>1. published[Root] = push.before
    BY <1>4 DEF PushInv, StepsAsPlanned, Working
  <2> QED
    BY <1>1, <1>2, <1>4, <2>1, EndsKeeps
<1>5. CASE EndPush(FALSE, RefreshesAfterFailure)
  <2>1. published[Root] # push.before => RefreshesAfterFailure
    BY <1>2 DEF PushInv, StepsAsPlanned, RefreshesAfterFailure
  <2> QED
    BY <1>1, <1>2, <1>5, <2>1, EndsKeeps
<1> QED
  BY <1>3, <1>4, <1>5 DEF Confirm, offerUpstreamThenRetry

\* A push begins, or none has yet: nothing is planned, and nothing pushed.
Fresh ==
    /\ ClonesTyped /\ ExclusionInv
    /\ push.stage \in {"none", "plan"} /\ push.steps = <<>> /\ push.own = <<>> /\ push.nodes = {} /\ push.index = 0
    /\ push.mode \in {"Branch", "OneByOne", "UpTo"} /\ push.upTo \in 0..Tip(Root)
    /\ push.mode = "UpTo" <=> push.upTo # HEAD
    /\ push.before \in Nat /\ push.asked \subseteq MayAsk(push)
    /\ push.stage = "plan" =>
          /\ published[Root] = push.before
          /\ {Query("branch", Root, HEAD), Query("gitlinks", Root, push.upTo)} \subseteq push.asked

LEMMA FreshPushInv == Fresh => PushInv
<1> SUFFICES ASSUME Fresh PROVE PushInv
  OBVIOUS
<1>1. Len(<<>>) = 0 /\ DOMAIN <<>> = {} /\ <<>> \in Seq(1..Tip(Root))
  OBVIOUS
<1>2. PushTyped
  BY <1>1 DEF Fresh, PushTyped
<1>3. OwnInOrder
  <2>1. Query("branch", Root, HEAD).q = "branch"
    BY DEF Query
  <2> QED
    BY <1>1, <2>1 DEF Fresh, OwnInOrder
<1>4. StepsAsPlanned /\ EndsAsAsked
  BY DEF Fresh, StepsAsPlanned, EndsAsAsked, Working
<1>5. PlanCovers
  BY DEF Fresh, PlanCovers, Scanned, Working
<1>6. StepsFetchable
  <2>1. Pushed = {}
    BY <1>1 DEF Fresh, Pushed
  <2> QED
    BY <2>1 DEF StepsFetchable
<1> QED
  BY <1>2, <1>3, <1>4, <1>5, <1>6 DEF Fresh, PushInv

LEMMA InitPushInv == Init => PushInv
<1> SUFFICES ASSUME Init PROVE PushInv
  OBVIOUS
<1>1. PICK len \in [Repos -> 1..MaxCommits], records \in [Submodules -> [1..MaxCommits -> 1..MaxCommits]] :
          made = [r \in Repos |-> [i \in 1..len[r] |-> [s \in Children(r) |-> records[s][i]]]]
  BY DEF Init
<1>2. ASSUME NEW r \in Repos
      PROVE  /\ made[r] \in Seq(TreeOf(r)) /\ Len(made[r]) = len[r] /\ len[r] \in 1..MaxCommits /\ len[r] \in Nat
  <2>1. made[r] = [i \in 1..len[r] |-> [s \in Children(r) |-> records[s][i]]] /\ len[r] \in 1..MaxCommits
    BY <1>1
  <2>2. ASSUME NEW i \in 1..len[r] PROVE [s \in Children(r) |-> records[s][i]] \in TreeOf(r)
    <3>1. i \in 1..MaxCommits
      BY <2>1, GitPushAssumption
    <3>2. \A s \in Children(r) : records[s][i] \in 0..MaxCommits
      BY <3>1, GitPushAssumption DEF Children
    <3> QED
      BY <3>2 DEF TreeOf
  <2>3. made[r] \in [1..len[r] -> TreeOf(r)] /\ len[r] \in Nat
    <3>1. len[r] \in Nat
      BY <2>1, GitPushAssumption
    <3>2. [i \in 1..len[r] |-> [s \in Children(r) |-> records[s][i]]] \in [1..len[r] -> TreeOf(r)]
      BY <2>2
    <3> QED
      BY <2>1, <3>1, <3>2
  <2>4. ASSUME NEW n \in Nat, NEW S, NEW f \in [1..n -> S] PROVE f \in Seq(S) /\ Len(f) = n
    OBVIOUS
  <2> QED
    BY <2>1, <2>3, <2>4
<1>3. ClonesTyped
  <2>1. \A r \in Repos : Tip(r) = len[r]
    BY <1>2 DEF Tip
  <2>2. at = [r \in Repos |-> Tip(r)] /\ published = [r \in Repos |-> 1] /\ onBranch = [r \in Repos |-> TRUE]
        /\ upstream \in [Repos -> BOOLEAN]
    BY DEF Init
  <2>3. \A r \in Repos : Tip(r) \in Nat /\ 1 \in 1..Tip(r) /\ Tip(r) \in 1..Tip(r) /\ Tip(r) <= MaxCommits
    BY <1>2, <2>1, GitPushAssumption
  <2>4. at \in [Repos -> Nat] /\ published \in [Repos -> Nat] /\ onBranch \in [Repos -> BOOLEAN]
    BY <2>2, <2>3
  <2>5. DOMAIN made = Repos /\ made = [r \in Repos |-> made[r]]
    BY <1>1
  <2>6. \A r \in Repos : at[r] \in 1..Tip(r) /\ published[r] \in 1..Tip(r)
    BY <2>2, <2>3
  <2> QED
    BY <1>2, <2>2, <2>3, <2>4, <2>5, <2>6 DEF ClonesTyped
<1>4. push = NoPush /\ ExclusionInv
  BY ExclusionInit DEF Init
<1>5. 0 \in 0..Tip(Root)
  BY LenProperties, <1>3 DEF ClonesTyped, Tip, Repos
<1>6. Fresh
  BY <1>3, <1>4, <1>5 DEF Fresh, NoPush, HEAD
<1> QED
  BY <1>6, FreshPushInv

LEMMA StartPushInv ==
    ASSUME PushInv, NEW mode \in {"Branch", "OneByOne", "UpTo"}, NEW upTo \in 0..Tip(Root), mode = "UpTo" <=> upTo # HEAD,
           StartPush(mode, upTo)
    PROVE  PushInv'
<1>1. PICK asked : asked = {Query("gitlinks", Root, upTo), Query("branch", Root, HEAD)}
  OBVIOUS
<1>2. PICK before : before = published[Root]
  OBVIOUS
<1>3. push' = [NoPush EXCEPT !.stage = "plan", !.mode = mode, !.upTo = upTo, !.before = before, !.asked = asked]
  BY <1>1, <1>2 DEF StartPush
<1>4. /\ push'.stage = "plan" /\ push'.steps = <<>> /\ push'.own = <<>> /\ push'.nodes = {} /\ push'.index = 0
      /\ push'.before = before /\ push'.asked = asked /\ push'.mode = mode /\ push'.upTo = upTo
  BY <1>3 DEF NoPush
<1>5. ExclusionInv' /\ UNCHANGED clones
  BY StartKeeps DEF PushInv, StartPush
<1>6. ClonesTyped' /\ Tip(Root)' = Tip(Root) /\ published' = published
  BY <1>5, ClonesStay DEF PushInv, clones
<1>7. asked \subseteq MayAsk(push')
  <2>1. Query("branch", Root, HEAD) \in Queries
    BY QueryTyped, GitPushAssumption DEF Kinds, Repos, HEAD
  <2> QED
    BY <1>1, <1>4, <2>1 DEF MayAsk
<1>8. before \in Nat
  BY <1>2 DEF PushInv, ClonesTyped, Repos
<1>9. Fresh'
  BY <1>1, <1>2, <1>4, <1>5, <1>6, <1>7, <1>8 DEF Fresh, MayAsk
<1> QED
  BY <1>9, FreshPushInv, PTL

\* A clone moves: the plan and the steps stay, and what they promised of the clones no longer counts.
LEMMA MovesKeep ==
    ASSUME PushInv, ExclusionInv', ClonesTyped', published' = published, NEW r \in Repos, Moves(r), Tip(Root) <= Tip(Root)'
    PROVE  PushInv'
<1>1. /\ SamePlan(push, [push EXCEPT !.moved = push.moved]) /\ push'.stage = push.stage /\ push'.mode = push.mode
      /\ push'.upTo = push.upTo /\ push'.nodes = push.nodes /\ push'.own = push.own /\ push'.steps = push.steps
      /\ push'.before = push.before /\ push'.index = push.index /\ push'.asked = push.asked /\ push'.refused = push.refused
      /\ push'.ok = push.ok /\ push'.refreshed = push.refreshed /\ push'.moved # {}
  BY DEF Moves, PushInv, ExclusionInv, Shape, SamePlan
<1>2. Tip(Root) \in Nat /\ Tip(Root)' \in Nat
  <2>1. \A s \in Repos : Tip(s) \in Nat
    BY LenProperties DEF PushInv, ClonesTyped, Tip
  <2>2. \A s \in Repos : Tip(s)' \in Nat
    BY LenProperties DEF ClonesTyped, Tip
  <2> QED
    BY <2>1, <2>2 DEF Repos
<1>3. PushTyped'
  <2>1. push.own \in Seq(1..Tip(Root)')
    <3>1. 1..Tip(Root) \subseteq 1..Tip(Root)'
      BY <1>2
    <3>2. push.own \in Seq(1..Tip(Root))
      BY DEF PushInv, PushTyped
    <3>3. ASSUME NEW S, NEW T, S \subseteq T, NEW sq \in Seq(S) PROVE sq \in Seq(T)
      BY <3>3, LenProperties
    <3> QED
      BY <3>1, <3>2, <3>3
  <2> QED
    BY <1>1, <1>2, <2>1 DEF PushInv, PushTyped, MayAsk
<1>4. OwnInOrder'
  BY <1>1 DEF PushInv, OwnInOrder
<1>5. StepsAsPlanned'
  <2>1. plannedSteps' = plannedSteps
    BY <1>1 DEF plannedSteps
  <2> QED
    BY <1>1, <2>1 DEF PushInv, StepsAsPlanned
<1>6. PlanCovers' /\ StepsFetchable'
  BY <1>1 DEF PlanCovers, StepsFetchable, Reliable
<1>7. EndsAsAsked'
  BY <1>1 DEF PushInv, EndsAsAsked
<1> QED
  BY <1>3, <1>4, <1>5, <1>6, <1>7 DEF PushInv

\* A commit grows the clone's history, and it moves.
LEMMA CommitsPushInv ==
    ASSUME PushInv, ExclusionInv', NEW r \in Repos, Commits(r)
    PROVE  PushInv'
<1>1. PICK tree : tree = [s \in Children(r) |-> at[s]]
  OBVIOUS
<1>2. /\ made' = [made EXCEPT ![r] = Append(@, tree)] /\ at' = [at EXCEPT ![r] = @ + 1]
      /\ at[r] = Tip(r) /\ Tip(r) < MaxCommits
      /\ UNCHANGED <<onBranch, upstream, published>> /\ Moves(r)
  BY <1>1 DEF Commits
<1>3. \A s \in Repos : /\ at[s] \in 1..Tip(s) /\ published[s] \in 1..Tip(s) /\ made[s] \in Seq(TreeOf(s))
                       /\ Tip(s) \in Nat /\ Tip(s) <= MaxCommits
  BY LenProperties DEF PushInv, ClonesTyped, Tip
<1>4. tree \in TreeOf(r)
  <2>1. \A s \in Children(r) : at[s] \in 0..MaxCommits
    BY <1>3, GitPushAssumption DEF Children, Repos
  <2> QED
    BY <1>1, <2>1 DEF TreeOf
<1>5. /\ DOMAIN made' = Repos /\ made' = [s \in Repos |-> made'[s]]
      /\ made'[r] = Append(made[r], tree) /\ \A s \in Repos : s # r => made'[s] = made[s]
  BY <1>2 DEF PushInv, ClonesTyped
<1>6. Append(made[r], tree) \in Seq(TreeOf(r)) /\ Len(Append(made[r], tree)) = Tip(r) + 1
  BY <1>3, <1>4, AppendProperties DEF Tip
<1>7. \A s \in Repos : made'[s] \in Seq(TreeOf(s)) /\ Len(made'[s]) = IF s = r THEN Tip(s) + 1 ELSE Tip(s)
  BY <1>3, <1>5, <1>6 DEF Tip
<1>8. at' \in [Repos -> Nat] /\ \A s \in Repos : at'[s] = IF s = r THEN at[s] + 1 ELSE at[s]
  BY <1>2 DEF PushInv, ClonesTyped
<1>9. ClonesTyped'
  <2>1. \A s : TreeOf(s)' = TreeOf(s)
    BY DEF TreeOf, Children
  <2>2. \A s \in Repos : Len(made'[s]) <= MaxCommits /\ at'[s] \in 1..Len(made'[s]) /\ published[s] \in 1..Len(made'[s])
    BY <1>2, <1>3, <1>7, <1>8, GitPushAssumption
  <2>3. /\ published \in [Repos -> Nat] /\ onBranch \in [Repos -> BOOLEAN] /\ upstream \in [Repos -> BOOLEAN]
    BY DEF PushInv, ClonesTyped
  <2> QED
    BY <1>2, <1>5, <1>7, <1>8, <2>1, <2>2, <2>3 DEF ClonesTyped, Tip
<1>10. Tip(Root) <= Tip(Root)'
  <2>1. Root \in Repos
    BY DEF Repos
  <2>2. Tip(Root)' = Len(made'[Root])
    BY DEF Tip
  <2> QED
    BY <1>3, <1>7, <2>1, <2>2
<1> QED
  BY <1>2, <1>9, <1>10, MovesKeep

LEMMA StillPushInv ==
    ASSUME PushInv, UNCHANGED <<clones, push>>, ExclusionInv'
    PROVE  PushInv'
<1>1. made' = made /\ at' = at /\ published' = published /\ push' = push /\ ClonesTyped' /\ Tip(Root)' = Tip(Root)
  BY ClonesStay DEF PushInv, clones
<1>2. PushTyped' /\ OwnInOrder' /\ EndsAsAsked'
  BY <1>1 DEF PushInv, PushTyped, OwnInOrder, EndsAsAsked, MayAsk
<1>3. StepsAsPlanned'
  BY <1>1 DEF PushInv, StepsAsPlanned, plannedSteps
<1>4. PlanCovers'
  <2>1. CASE push.stage \in {"plan"} \cup Working
    BY <1>1, <2>1, CoverStays
  <2>2. CASE push.stage \notin {"plan"} \cup Working
    BY <1>1, <2>2 DEF PlanCovers
  <2> QED
    BY <2>1, <2>2
<1>5. StepsFetchable'
  <2>1. Pushed' = Pushed
    BY <1>1 DEF Pushed
  <2> QED
    BY <1>1, <2>1 DEF PushInv, StepsFetchable, Reliable, Children
<1> QED
  BY <1>1, <1>2, <1>3, <1>4, <1>5 DEF PushInv

LEMMA ClonesPushInv == PushInv /\ CloneActions => PushInv'
<1> SUFFICES ASSUME PushInv, CloneActions PROVE PushInv'
  OBVIOUS
<1>1. ExclusionInv'
  BY CloneKeeps DEF PushInv
<1>2. ASSUME NEW r \in Repos, CommitOutside(r) PROVE PushInv'
  BY <1>1, <1>2, CommitsPushInv DEF CommitOutside
<1>3. ASSUME NEW r \in Repos, NEW i \in 1..MaxCommits, NEW branch \in BOOLEAN, CheckOutOutside(r, i, branch) PROVE PushInv'
  <2>1. /\ at' = [at EXCEPT ![r] = i] /\ onBranch' = [onBranch EXCEPT ![r] = branch]
        /\ i \in 1..Tip(r) /\ Moves(r) /\ UNCHANGED <<made, upstream, published>>
    BY <1>3 DEF CheckOutOutside
  <2>2. \A s \in Repos : Tip(s) \in Nat
    BY LenProperties DEF PushInv, ClonesTyped, Tip
  <2>3. /\ at' \in [Repos -> Nat] /\ onBranch' \in [Repos -> BOOLEAN]
        /\ \A s \in Repos : at'[s] \in 1..Tip(s)
    BY <1>3, <2>1, <2>2 DEF PushInv, ClonesTyped
  <2>4. ClonesTyped'
    BY <2>1, <2>3 DEF PushInv, ClonesTyped, Tip, TreeOf
  <2>5. Tip(Root) <= Tip(Root)'
    <3>1. Tip(Root)' = Tip(Root)
      BY <2>1 DEF Tip
    <3> QED
      BY <2>2, <3>1 DEF Repos
  <2> QED
    BY <1>1, <2>1, <2>4, <2>5, MovesKeep
<1>4. ASSUME NEW s \in Submodules, StartWrite(s) PROVE PushInv'
  BY <1>1, <1>4, StillPushInv DEF StartWrite
<1>5. ASSUME NEW s \in Submodules, EndWrite(s) PROVE PushInv'
  <2>1. s \in Repos
    BY DEF Repos
  <2> QED
    BY <1>1, <1>5, <2>1, StillPushInv, CommitsPushInv DEF EndWrite
<1> QED
  BY <1>2, <1>3, <1>4, <1>5 DEF CloneActions

LEMMA PushInvInductive == PushInv /\ [Next]_vars => PushInv'
<1> SUFFICES ASSUME PushInv, [Next]_vars PROVE PushInv'
  OBVIOUS
<1>1. CASE PushActions
  <2>1. ASSUME NEW mode \in Modes \ {"UpTo"}, StartPush(mode, HEAD) PROVE PushInv'
    <3>1. mode \in {"Branch", "OneByOne", "UpTo"} /\ mode # "UpTo"
      BY GitPushAssumption
    <3>2. HEAD \in 0..Tip(Root)
      BY LenProperties DEF HEAD, PushInv, ClonesTyped, Tip, Repos
    <3> QED
      BY <2>1, <3>1, <3>2, StartPushInv
  <2>2. ASSUME NEW c \in 1..Tip(Root), StartPush("UpTo", c) PROVE PushInv'
    <3>1. c \in 0..Tip(Root) /\ c # HEAD
      BY DEF HEAD
    <3> QED
      BY <2>2, <3>1, StartPushInv
  <2>3. CASE RunPushStep
    <3>1. ExclusionInv'
      BY <2>3, StepKeeps DEF PushInv
    <3> QED
      BY <2>3, <3>1, SucceedsPushInv, FailsPushInv DEF RunPushStep
  <2> QED
    BY <1>1, <2>1, <2>2, <2>3, PlannedPushInv, AnswerUserPushInv DEF PushActions
<1>2. CASE QueryAnswers
  BY <1>2, AnswerPushInv DEF QueryAnswers
<1>3. CASE CloneActions
  BY <1>3, ClonesPushInv
<1>4. CASE UNCHANGED vars
  <2>1. ExclusionInv'
    BY <1>4, ExclusionInductive DEF PushInv
  <2> QED
    BY <1>4, <2>1, StillPushInv DEF vars
<1> QED
  BY <1>1, <1>2, <1>3, <1>4 DEF Next

(***************************************************************************)
(* What a push publishes can be fetched: each commit a step leaves the     *)
(* remote's branch on references submodule commits a remote has by then,   *)
(* and the steps that failed or never ran take nothing back.               *)
(***************************************************************************)
THEOREM TipsFetchable == Spec => []TipsAreFetchable
<1>1. PushInv => TipsAreFetchable
  BY DEF PushInv, StepsFetchable, TipsAreFetchable, Reliable
<1> QED
  BY <1>1, InitPushInv, PushInvInductive, PTL DEF Spec

(***************************************************************************)
(* A push up to a commit ends on that commit, and none that published any  *)
(* commit of the repository, whole or in part, ends unseen by its window.  *)
(***************************************************************************)
THEOREM EndsHoldAsked == Spec => []EndsAsAsked
<1>1. PushInv => EndsAsAsked
  BY DEF PushInv
<1> QED
  BY <1>1, InitPushInv, PushInvInductive, PTL DEF Spec

-------------------------------------------------------------------------------
(* A check of what the upstream has.                                         *)

Counts == [tracking : Nat, local : Nat]
States == [upstream : BOOLEAN, behind : Counts]
Runs == [step : {"none", "asked", "read"}, ok : BOOLEAN, upstream : BOOLEAN, behind : Counts]
Steps == {"headRef", "fetch", "wait", "count", "counted", "list"}
Checks == [step : Steps \cup {"none"}, behind : Counts]
Windows == [due : BOOLEAN, inFlight : BOOLEAN, recent : BOOLEAN, stateWasRead : BOOLEAN,
            outcome : {"None", "Succeeded", "Failed"}]

\* What a check and a refresh work on, typed; the dialog only listens.
CheckTypes ==
    /\ remote \in Nat /\ tracking \in Nat /\ local \in Nat /\ fetched \in Nat
    /\ hasUpstream \in BOOLEAN
    /\ state \in States /\ run \in Runs /\ check \in Checks /\ window \in Windows

\* The refs only move forward, and the fetch is behind none of them.
RefsInOrder == local <= tracking /\ tracking <= remote /\ fetched <= tracking

\* A window has its check, and a check that waits has a refresh to wait for.
OneCheck ==
    /\ window.inFlight <=> check.step # "none"
    /\ check.step = "wait" => run.step # "none"

(***************************************************************************)
(* Who may still write the count.  A refresh that read the refs before the *)
(* fetch ends while the check waits for it; what the check counted, and    *)
(* then what it wrote, is of the fetched refs.                             *)
(***************************************************************************)
FreshCounts ==
    /\ run.step = "read" /\ check.step # "wait" => run.behind.tracking >= fetched
    /\ check.step = "counted" => check.behind.tracking >= fetched
    /\ check.step = "list" => state.behind.tracking >= fetched

CheckInv == CheckTypes /\ RefsInOrder /\ OneCheck /\ FreshCounts /\ FetchedCountStands
-------------------------------------------------------------------------------

\* What a refresh and a check are before and when they begin.
LEMMA Beginnings ==
    /\ Unread \in Counts
    /\ NoRun \in Runs /\ NoRun.step = "none" /\ NewRun \in Runs /\ NewRun.step = "asked"
    /\ NoCheck \in Checks /\ NoCheck.step = "none"
<1>1. Unread \in Counts
  BY DEF Unread, Counts
<1>2. NoRun \in Runs /\ NoRun.step = "none"
  BY <1>1 DEF NoRun, Runs
<1>3. NewRun \in Runs /\ NewRun.step = "asked"
  BY <1>2 DEF NewRun, Runs
<1>4. NoCheck \in Checks /\ NoCheck.step = "none"
  BY <1>1 DEF NoCheck, Checks
<1> QED
  BY <1>1, <1>2, <1>3, <1>4

LEMMA InitCheckInv == CheckInit => CheckInv
<1> SUFFICES ASSUME CheckInit PROVE CheckInv
  OBVIOUS
<1>1. state \in States /\ window \in Windows
  BY Beginnings DEF CheckInit, States, Windows
<1>2. CheckTypes
  BY <1>1, Beginnings, IncomingCheckAssumption DEF CheckInit, CheckTypes
<1>3. RefsInOrder
  BY IncomingCheckAssumption DEF CheckInit, RefsInOrder
<1>4. OneCheck /\ FreshCounts /\ FetchedCountStands
  BY Beginnings DEF CheckInit, OneCheck, FreshCounts, FetchedCountStands
<1> QED
  BY <1>2, <1>3, <1>4 DEF CheckInv

\* A refresh asked for reads the refs anew, or queues behind the one under way.
LEMMA RefreshKeeps ==
    ASSUME CheckTypes, OneCheck, Refresh
    PROVE  /\ run' \in Runs
           /\ run'.step = "read" => run' = run
           /\ run.step # "none" => run'.step # "none"
BY Beginnings DEF CheckTypes, Refresh

\* A check begins only where none is, with the window's flag set.
CheckBegins(w) ==
    /\ w'.inFlight /\ w' \in Windows
    /\ check' \in Checks /\ check'.step = "headRef"

LEMMA DueCheckBegins ==
    ASSUME NEW w \in Windows, NEW s, startDueIncomingCheck(w, s)
    PROVE  (window' = w /\ check' = check) \/ (~w.inFlight /\ CheckBegins(window))
<1>1. ASSUME NEW v \in Windows PROVE startIncomingCheck(v) \in Windows /\ startIncomingCheck(v).inFlight
  BY DEF startIncomingCheck, Windows
<1>2. [w EXCEPT !.due = FALSE] \in Windows
  BY DEF Windows
<1>3. [NoCheck EXCEPT !.step = "headRef"] \in Checks /\ [NoCheck EXCEPT !.step = "headRef"].step = "headRef"
  BY Beginnings DEF Checks, Steps
<1> QED
  BY <1>1, <1>2, <1>3 DEF startDueIncomingCheck, CheckBegins

\* What is left to show of a step that moves no ref and neither counts nor reads.
LEMMA BeginningKeeps ==
    ASSUME CheckInv, ~window.inFlight, CheckBegins(window), UNCHANGED <<refs, fetched, state>>,
           run' \in Runs, run'.step = "read" => run' = run
    PROVE  CheckInv'
BY DEF CheckInv, CheckTypes, RefsInOrder, OneCheck, FreshCounts, FetchedCountStands, CheckBegins, refs

LEMMA RestingKeeps ==
    ASSUME CheckInv, window' \in Windows, window'.inFlight = window.inFlight,
           window'.outcome = window.outcome, UNCHANGED <<refs, fetched, state, check>>,
           run' \in Runs, run'.step = "read" => run' = run,
           run.step # "none" => run'.step # "none"
    PROVE  CheckInv'
BY DEF CheckInv, CheckTypes, RefsInOrder, OneCheck, FreshCounts, FetchedCountStands, refs

LEMMA UserActionsKeep ==
    ASSUME CheckInv, UserActions \/ PushEnds \/ RefreshIsDue \/ DialogSteps
    PROVE  CheckInv'
<1> USE DEF CheckInv
<1>1. window \in Windows /\ run \in Runs
  BY DEF CheckTypes
<1>2. CASE AskRefresh
  BY <1>1, <1>2, RefreshKeeps, RestingKeeps DEF AskRefresh, Windows
<1>3. CASE Activate
  <2> DEFINE w == [window EXCEPT !.due = TRUE]
  <2>1. w \in Windows /\ w.inFlight = window.inFlight /\ w.outcome = window.outcome
    BY <1>1 DEF Windows
  <2>2. UNCHANGED <<refs, fetched, state, run>>
    BY <1>3 DEF Activate, refreshVars
  <2>3. (window' = w /\ check' = check) \/ (~w.inFlight /\ CheckBegins(window))
    <3> HIDE DEF w
    <3>1. startDueIncomingCheck(w, state) \/ (window' = w /\ check' = check)
      BY <1>3 DEF Activate, w
    <3> QED
      BY <2>1, <3>1, DueCheckBegins
  <2>4. CASE window' = w /\ check' = check
    BY <1>1, <2>1, <2>2, <2>4, RestingKeeps
  <2>5. CASE ~w.inFlight /\ CheckBegins(window)
    BY <1>1, <2>1, <2>2, <2>5, BeginningKeeps
  <2> QED
    BY <2>3, <2>4, <2>5
<1>4. CASE MinutePasses
  BY <1>1, <1>4, RestingKeeps DEF MinutePasses, Windows, refreshVars
<1>5. CASE checkForIncomingChanges
  <2>1. UNCHANGED <<refs, fetched, state, run>>
    BY <1>5 DEF checkForIncomingChanges, refreshVars
  <2>2. CASE window.inFlight
    BY <1>1, <1>5, <2>1, <2>2, RestingKeeps DEF checkForIncomingChanges
  <2>3. CASE ~window.inFlight
    <3>1. CheckBegins(window)
      <4>1. check' = [NoCheck EXCEPT !.step = "headRef"] /\ window' = startIncomingCheck(window)
        BY <1>5, <2>3 DEF checkForIncomingChanges
      <4>2. check' \in Checks /\ check'.step = "headRef"
        BY <4>1, Beginnings DEF Checks, Steps
      <4>3. window' \in Windows /\ window'.inFlight
        BY <1>1, <4>1 DEF startIncomingCheck, Windows
      <4> QED
        BY <4>2, <4>3 DEF CheckBegins
    <3> QED
      BY <1>1, <2>1, <2>3, <3>1, BeginningKeeps
  <2> QED
    BY <2>2, <2>3
<1>6. CASE PushStarts \/ CloseDialog \/ DialogSteps
  BY <1>1, <1>6, RestingKeeps
     DEF PushStarts, CloseDialog, DialogSteps, BranchesAnswer, SubmoduleAnswers, refreshVars
<1>7. CASE PushEnds
  BY <1>1, <1>7, RefreshKeeps, RestingKeeps DEF PushEnds, Windows
<1>8. CASE RefreshIsDue
  BY <1>1, <1>8, RefreshKeeps, RestingKeeps DEF RefreshIsDue
<1> QED
  BY <1>2, <1>3, <1>4, <1>5, <1>6, <1>7, <1>8 DEF UserActions

LEMMA RefreshReadsKeeps == ASSUME CheckInv, RefreshReads PROVE CheckInv'
<1>1. CheckTypes'
  BY DEF CheckInv, CheckTypes, RefreshReads, refs, Runs, Counts
<1>2. RefsInOrder' /\ OneCheck'
  BY DEF CheckInv, CheckTypes, RefsInOrder, OneCheck, RefreshReads, refs
<1>3. run'.behind.tracking >= fetched
  BY DEF CheckInv, CheckTypes, RefsInOrder, RefreshReads
<1>4. FreshCounts' /\ FetchedCountStands'
  BY <1>3 DEF CheckInv, FreshCounts, FetchedCountStands, RefreshReads
<1> QED
  BY <1>1, <1>2, <1>4 DEF CheckInv

LEMMA EndRefreshKeeps == ASSUME CheckInv, EndRefresh PROVE CheckInv'
<1> DEFINE w == [window EXCEPT !.stateWasRead = @ \/ run.ok]
<1>1. /\ w \in Windows /\ w.inFlight = window.inFlight /\ w.outcome = window.outcome
  BY DEF CheckInv, CheckTypes, Windows, Runs
<1>2. run' \in Runs /\ run'.step # "read"
  BY Beginnings DEF EndRefresh
<1>3. state' \in States /\ state'.behind \in {state.behind, run.behind}
  BY DEF CheckInv, CheckTypes, EndRefresh, States, Runs
<1>4. UNCHANGED <<refs, fetched>> /\ run.step = "read"
  BY DEF EndRefresh
<1>5. CASE check.step = "wait"
  <2>1. window' = w /\ check' = [check EXCEPT !.step = "count"]
    BY <1>5 DEF EndRefresh
  <2>2. check' \in Checks /\ check'.step = "count"
    BY <2>1 DEF CheckInv, CheckTypes, Checks, Steps
  <2>3. window'.inFlight /\ window' \in Windows
    BY <1>1, <1>5, <2>1 DEF CheckInv, OneCheck
  <2> QED
    BY <1>2, <1>3, <1>4, <2>2, <2>3
       DEF CheckInv, CheckTypes, RefsInOrder, OneCheck, FreshCounts, FetchedCountStands, refs
<1>6. CASE check.step # "wait"
  <2> HIDE DEF w
  <2>1. run.behind.tracking >= fetched
    BY <1>4, <1>6 DEF CheckInv, FreshCounts
  <2>2. (window' = w /\ check' = check) \/ (~w.inFlight /\ CheckBegins(window))
    <3>1. startDueIncomingCheck(w, state')
      BY <1>6 DEF EndRefresh, w
    <3> QED
      BY <1>1, <3>1, DueCheckBegins
  <2>3. state.behind.tracking >= fetched => state'.behind.tracking >= fetched'
    BY <1>3, <1>4, <2>1
  <2>4. CheckTypes' /\ RefsInOrder'
    BY <1>1, <1>2, <1>3, <1>4, <2>2 DEF CheckInv, CheckTypes, RefsInOrder, refs, CheckBegins
  <2>5. CASE window' = w /\ check' = check
    <3>1. OneCheck' /\ FreshCounts' /\ FetchedCountStands'
      BY <1>1, <1>2, <1>4, <1>6, <2>3, <2>5 DEF CheckInv, OneCheck, FreshCounts, FetchedCountStands
    <3> QED
      BY <2>4, <3>1 DEF CheckInv
  <2>6. CASE ~w.inFlight /\ CheckBegins(window)
    <3>1. OneCheck' /\ FreshCounts' /\ FetchedCountStands'
      BY <1>2, <2>6 DEF CheckBegins, OneCheck, FreshCounts, FetchedCountStands
    <3> QED
      BY <2>4, <3>1 DEF CheckInv
  <2> QED
    BY <2>2, <2>5, <2>6
<1> QED
  BY <1>5, <1>6

\* The callback ends the check, and where it succeeds the count is of the fetched refs.
LEMMA CheckAnswerKeeps ==
    ASSUME CheckInv, NEW outcome \in {"Succeeded", "Failed"}, AnswerCheck(outcome), check.step # "none",
           outcome = "Succeeded" => check.step = "list",
           check.step # "wait", UNCHANGED <<refs, fetched, state, run>>
    PROVE  CheckInv'
<1>1. check' \in Checks /\ check'.step = "none"
  BY Beginnings DEF AnswerCheck
<1>2. window' \in Windows /\ ~window'.inFlight /\ window'.outcome = outcome
  BY DEF CheckInv, CheckTypes, AnswerCheck, Windows
<1> QED
  BY <1>1, <1>2 DEF CheckInv, CheckTypes, RefsInOrder, OneCheck, FreshCounts, FetchedCountStands, refs

LEMMA CheckStepsKeep == ASSUME CheckInv, CheckSteps PROVE CheckInv'
<1>1. check \in Checks /\ window \in Windows
  BY DEF CheckInv, CheckTypes
<1>2. ASSUME NEW step \in Steps, CheckGoesOn(step)
      PROVE  check' \in Checks /\ check'.step = step /\ check'.behind = check.behind /\ window' = window
  BY <1>1, <1>2 DEF CheckGoesOn, Checks
<1>3. CASE HeadRefAnswers
  <2>1. UNCHANGED <<refs, fetched, state, run>> /\ check.step = "headRef"
    BY <1>3 DEF HeadRefAnswers, refreshVars
  <2>2. CASE CheckGoesOn("fetch")
    BY <1>2, <2>1, <2>2
       DEF CheckInv, CheckTypes, RefsInOrder, OneCheck, FreshCounts, FetchedCountStands, refs, Steps
  <2>3. CASE AnswerCheck("Failed")
    BY <2>1, <2>3, CheckAnswerKeeps
  <2> QED
    BY <1>3, <2>2, <2>3 DEF HeadRefAnswers
<1>4. CASE FetchAnswers
  <2>1. UNCHANGED <<remote, local, hasUpstream, state, run>> /\ check.step = "fetch"
    BY <1>4 DEF FetchAnswers, refreshVars
  <2>2. CASE tracking' = remote /\ fetched' = remote /\ CheckGoesOn(afterCurrentRefresh)
    <3>1. /\ afterCurrentRefresh \in {"count", "wait"}
          /\ afterCurrentRefresh = "wait" <=> run.step # "none"
      BY DEF afterCurrentRefresh
    <3>2. check' \in Checks /\ check'.step = afterCurrentRefresh /\ window' = window
      BY <1>2, <2>2, <3>1 DEF Steps
    <3>3. CheckTypes' /\ RefsInOrder'
      BY <2>1, <2>2, <3>2 DEF CheckInv, CheckTypes, RefsInOrder
    <3>4. OneCheck' /\ FreshCounts' /\ FetchedCountStands'
      BY <2>1, <3>1, <3>2 DEF CheckInv, OneCheck, FreshCounts, FetchedCountStands
    <3> QED
      BY <3>3, <3>4 DEF CheckInv
  <2>3. CASE AnswerCheck("Failed") /\ UNCHANGED <<tracking, fetched>>
    BY <2>1, <2>3, CheckAnswerKeeps DEF refs
  <2> QED
    BY <1>4, <2>2, <2>3 DEF FetchAnswers
<1>5. CASE CountReads
  <2>1. UNCHANGED <<refs, fetched, state, run, window>> /\ check.step = "count"
    BY <1>5 DEF CountReads, refreshVars
  <2>2. check' \in Checks /\ check'.step = "counted" /\ check'.behind.tracking = tracking
    BY <1>5 DEF CheckInv, CheckTypes, CountReads, Checks, Counts, Steps
  <2> QED
    BY <2>1, <2>2 DEF CheckInv, CheckTypes, RefsInOrder, OneCheck, FreshCounts, FetchedCountStands, refs
<1>6. CASE CountAnswers
  <2>1. UNCHANGED <<refs, fetched, run>> /\ check.step = "counted"
    BY <1>6 DEF CountAnswers
  <2>2. CASE state' = [state EXCEPT !.behind = check.behind] /\ CheckGoesOn("list")
    <3>1. state' \in States /\ state'.behind = check.behind
      BY <1>1, <2>2 DEF CheckInv, CheckTypes, States, Checks
    <3>2. check' \in Checks /\ check'.step = "list" /\ window' = window
      BY <1>2, <2>2 DEF Steps
    <3> QED
      BY <2>1, <3>1, <3>2
         DEF CheckInv, CheckTypes, RefsInOrder, OneCheck, FreshCounts, FetchedCountStands, refs
  <2>3. CASE AnswerCheck("Failed") /\ UNCHANGED state
    BY <2>1, <2>3, CheckAnswerKeeps
  <2> QED
    BY <1>6, <2>2, <2>3 DEF CountAnswers
<1>7. CASE ListAnswers
  BY <1>7, CheckAnswerKeeps DEF ListAnswers, refreshVars
<1> QED
  BY <1>3, <1>4, <1>5, <1>6, <1>7 DEF CheckSteps

LEMMA OthersKeep == ASSUME CheckInv, Others PROVE CheckInv'
<1>1. UNCHANGED <<state, run, check, window, fetched>>
  BY DEF Others, refreshVars
<1>2. hasUpstream' \in BOOLEAN
  <2>1. hasUpstream' = hasUpstream \/ hasUpstream' = ~hasUpstream
    BY DEF Others
  <2> QED
    BY <2>1 DEF CheckInv, CheckTypes
<1>3. remote' \in Nat /\ tracking' \in Nat /\ local' \in Nat /\ RefsInOrder'
  BY <1>1 DEF Others, CheckInv, CheckTypes, RefsInOrder
<1> QED
  BY <1>1, <1>2, <1>3 DEF CheckInv, CheckTypes, OneCheck, FreshCounts, FetchedCountStands

LEMMA NextCheckInv == CheckInv /\ [CheckNext]_checkVars => CheckInv'
<1> SUFFICES ASSUME CheckInv, [CheckNext]_checkVars PROVE CheckInv'
  OBVIOUS
<1>1. CASE UserActions \/ PushEnds \/ RefreshIsDue \/ DialogSteps
  BY <1>1, UserActionsKeep
<1>2. CASE RefreshSteps
  BY <1>2, RefreshReadsKeeps, EndRefreshKeeps DEF RefreshSteps
<1>3. CASE CheckSteps
  BY <1>3, CheckStepsKeep
<1>4. CASE Others
  BY <1>4, OthersKeep
<1>5. CASE UNCHANGED checkVars
  BY <1>5 DEF checkVars, refs, refreshVars, CheckInv, CheckTypes, RefsInOrder, OneCheck, FreshCounts, FetchedCountStands
<1> QED
  BY <1>1, <1>2, <1>3, <1>4, <1>5 DEF CheckNext

(***************************************************************************)
(* Where the last check succeeded, the count shown is of the refs as its   *)
(* fetch left them or newer, whatever refreshes ran beside it and whoever  *)
(* else moved the refs: runAfterCurrentRefresh() lets the refresh that may *)
(* have read them before the fetch end first.                              *)
(***************************************************************************)
THEOREM CountOutlivesRefresh == CheckSpec => []FetchedCountStands
<1>1. CheckInv => FetchedCountStands
  BY DEF CheckInv
<1> QED
  BY <1>1, InitCheckInv, NextCheckInv, PTL DEF CheckSpec
-------------------------------------------------------------------------------
(* The windows and the registry of the repositories.                        *)

\* An object whose root never led nowhere still leads to its directory, and has it alone.
RegistrySound(reg, cut, disk) ==
    /\ IsFiniteSet(DOMAIN reg) /\ DOMAIN reg \subseteq Nat
    /\ \A o \in DOMAIN reg \ cut : resolves(reg[o], disk)
    /\ \A o, p \in DOMAIN reg \ cut : Directory[reg[o]] = Directory[reg[p]] => o = p

\* The registry knows what the windows, pushes and dialogs hold.
RegistryInv ==
    /\ DOMAIN registry = Instances /\ DOMAIN windows = Instances
    /\ DOMAIN histories = Instances /\ DOMAIN borrowed = Instances
    /\ \A i \in Instances : RegistrySound(registry[i], cutOff[i], onDisk) /\ held(i) \subseteq DOMAIN registry[i]

\* CutsOff, of one registry.
CutAfter(reg, cut, disk) == {o \in DOMAIN reg : o \in cut \/ ~resolves(reg[o], disk)}

\* Some of its objects are gone.
Fewer(g, reg) == DOMAIN g \subseteq DOMAIN reg /\ \A o \in DOMAIN g : g[o] = reg[o]
-------------------------------------------------------------------------------
LEMMA FoundOrNew ==
    ASSUME NEW reg, IsFiniteSet(DOMAIN reg), DOMAIN reg \subseteq Nat, NEW F \in SUBSET DOMAIN reg
    PROVE  LET o == firstOrNew(reg, F)
           IN  o \in Nat /\ (IF F # {} THEN o \in F ELSE o \notin DOMAIN reg)
<1> DEFINE f == [k \in DOMAIN reg |-> k]
<1>1. IsFiniteSet(F)
  BY FS_Subset
<1>2. CASE F # {}
  <2>1. \A k \in F : f[k] \in Int
    OBVIOUS
  <2>2. PICK m \in F : \A k \in F : f[m] <= f[k]
    <3> HIDE DEF f
    <3> QED
      BY <1>1, <1>2, <2>1, FirstOf
  <2>3. \E m1 \in F : \A k \in F : m1 =< k
    BY <2>2
  <2>4. Min(F) \in F
    BY <2>3 DEF Min
  <2> QED
    BY <1>2, <2>4 DEF firstOrNew
<1>3. CASE F = {} /\ DOMAIN reg = {}
  BY <1>3 DEF firstOrNew
<1>4. CASE F = {} /\ DOMAIN reg # {}
  <2>1. \A k \in DOMAIN reg : f[k] \in Int
    OBVIOUS
  <2>2. PICK m \in DOMAIN reg : \A k \in DOMAIN reg : f[k] <= f[m]
    <3> HIDE DEF f
    <3> QED
      BY <1>4, <2>1, LastOf
  <2>3. \E m1 \in DOMAIN reg : \A k \in DOMAIN reg : m1 >= k
    BY <2>2
  <2>4. Max(DOMAIN reg) \in DOMAIN reg /\ \A k \in DOMAIN reg : Max(DOMAIN reg) >= k
    BY <2>3 DEF Max
  <2>5. firstOrNew(reg, F) = Max(DOMAIN reg) + 1
    BY <1>4 DEF firstOrNew
  <2> QED
    BY <1>4, <2>4, <2>5
<1> QED
  BY <1>2, <1>3, <1>4

\* A root that leads to the directory of an object not cut off finds an object:
\* a new one is made only for a directory without, or is cut off at once.
LEMMA SharingKeeps ==
    ASSUME NEW reg, NEW cut, RegistrySound(reg, cut, onDisk), NEW root,
           NEW g, g = adding(reg, sharedRepository(reg, root), root)
    PROVE  /\ RegistrySound(g, CutAfter(g, cut, onDisk), onDisk)
           /\ DOMAIN g = DOMAIN reg \cup {sharedRepository(reg, root)}
<1> DEFINE F == {o \in DOMAIN reg : sameDirectoryOnDisk(reg[o], root, onDisk)}
<1>1. PICK new : new = sharedRepository(reg, root)
  OBVIOUS
<1>2. new = firstOrNew(reg, F) /\ F \in SUBSET DOMAIN reg
  BY <1>1 DEF sharedRepository
<1>3. new \in Nat /\ (IF F # {} THEN new \in F ELSE new \notin DOMAIN reg)
  <2> HIDE DEF F
  <2> QED
    BY <1>2, FoundOrNew DEF RegistrySound
<1>4. /\ DOMAIN g = DOMAIN reg \cup {new} /\ \A o \in DOMAIN reg : g[o] = reg[o]
      /\ new \notin DOMAIN reg => g[new] = root
  BY <1>1 DEF adding
<1>5. ASSUME new \notin DOMAIN reg, resolves(root, onDisk), NEW o \in DOMAIN reg \ cut
      PROVE  Directory[reg[o]] # Directory[root]
  <2>1. resolves(reg[o], onDisk) /\ o \notin F
    BY <1>3, <1>5 DEF RegistrySound
  <2> QED
    BY <1>5, <2>1 DEF sameDirectoryOnDisk
<1>6. PICK after : after = CutAfter(g, cut, onDisk)
  OBVIOUS
<1>7. \A o \in DOMAIN g \ after : o \notin cut /\ resolves(g[o], onDisk)
  BY <1>6 DEF CutAfter
<1>8. IsFiniteSet(DOMAIN g) /\ DOMAIN g \subseteq Nat
  BY <1>3, <1>4, FS_AddElement DEF RegistrySound
<1>9. ASSUME NEW o \in DOMAIN g \ after, NEW p \in DOMAIN g \ after, Directory[g[o]] = Directory[g[p]]
      PROVE  o = p
  <2>1. CASE o \in DOMAIN reg /\ p \in DOMAIN reg
    BY <1>4, <1>7, <1>9, <2>1 DEF RegistrySound
  <2>2. CASE o \notin DOMAIN reg
    BY <1>4, <1>5, <1>7, <1>9, <2>2
  <2>3. CASE p \notin DOMAIN reg
    BY <1>4, <1>5, <1>7, <1>9, <2>3
  <2> QED
    BY <2>1, <2>2, <2>3
<1> QED
  BY <1>1, <1>4, <1>6, <1>7, <1>8, <1>9 DEF RegistrySound

LEMMA FewerKeep ==
    ASSUME NEW reg, NEW cut, NEW disk, RegistrySound(reg, cut, disk), NEW g, Fewer(g, reg), NEW later
    PROVE  RegistrySound(g, CutAfter(g, cut, later), later)
<1>1. IsFiniteSet(DOMAIN g)
  BY FS_Subset DEF Fewer, RegistrySound
<1> QED
  BY <1>1 DEF Fewer, RegistrySound, CutAfter

\* In each instance the step loses objects, or shares one while the disk stays.
LEMMA RegistryMoves ==
    ASSUME RegistryInv, CutsOff,
           DOMAIN registry' = Instances, DOMAIN windows' = Instances,
           DOMAIN histories' = Instances, DOMAIN borrowed' = Instances,
           \A i \in Instances :
              /\ held(i)' \subseteq DOMAIN registry'[i]
              /\ \/ Fewer(registry'[i], registry[i])
                 \/ /\ UNCHANGED onDisk
                    /\ \E root : registry'[i] = adding(registry[i], sharedRepository(registry[i], root), root)
    PROVE  RegistryInv'
<1>1. SUFFICES ASSUME NEW i \in Instances PROVE RegistrySound(registry'[i], cutOff'[i], onDisk')
  BY DEF RegistryInv
<1>2. cutOff'[i] = CutAfter(registry'[i], cutOff[i], onDisk')
  BY DEF CutsOff, CutAfter
<1>3. RegistrySound(registry[i], cutOff[i], onDisk)
  BY DEF RegistryInv
<1>4. CASE Fewer(registry'[i], registry[i])
  BY <1>2, <1>3, <1>4, FewerKeep
<1>5. ASSUME UNCHANGED onDisk,
             NEW root, registry'[i] = adding(registry[i], sharedRepository(registry[i], root), root)
      PROVE  RegistrySound(registry'[i], cutOff'[i], onDisk')
  <2>1. PICK reg, cut : reg = registry[i] /\ cut = cutOff[i]
    OBVIOUS
  <2>2. PICK g : g = adding(reg, sharedRepository(reg, root), root)
    OBVIOUS
  <2>3. RegistrySound(g, CutAfter(g, cut, onDisk), onDisk)
    <3>1. RegistrySound(reg, cut, onDisk)
      BY <1>3, <2>1
    <3> QED
      BY <2>2, <3>1, SharingKeeps
  <2>4. registry'[i] = g /\ cutOff'[i] = CutAfter(g, cut, onDisk)
    BY <1>2, <1>5, <2>1, <2>2
  <2> QED
    BY <1>5, <2>3, <2>4
<1> QED
  BY <1>4, <1>5

\* What an opening, a window or a borrower shares, and who holds it.
LEMMA OneShared ==
    ASSUME RegistryInv, CutsOff, UNCHANGED onDisk, NEW i \in Instances, NEW root,
           registry' = [registry EXCEPT ![i] = adding(@, sharedRepository(@, root), root)],
           DOMAIN windows' = Instances, DOMAIN histories' = Instances, DOMAIN borrowed' = Instances,
           held(i)' \subseteq held(i) \cup {sharedRepository(registry[i], root)},
           \A j \in Instances : j # i => held(j)' = held(j)
    PROVE  RegistryInv'
<1>1. PICK g : g = adding(registry[i], sharedRepository(registry[i], root), root)
  OBVIOUS
<1>2. DOMAIN g = DOMAIN registry[i] \cup {sharedRepository(registry[i], root)}
  BY <1>1, SharingKeeps DEF RegistryInv
<1>3. /\ DOMAIN registry' = Instances /\ registry'[i] = g
      /\ \A j \in Instances : j # i => registry'[j] = registry[j]
  BY <1>1 DEF RegistryInv
<1>4. \A j \in Instances : held(j)' \subseteq DOMAIN registry'[j]
  BY <1>2, <1>3 DEF RegistryInv
<1>5. \A j \in Instances : j # i => Fewer(registry'[j], registry[j])
  BY <1>3 DEF Fewer
<1> QED
  BY <1>1, <1>3, <1>4, <1>5, RegistryMoves

LEMMA SaveKeeps ==
    ASSUME RegistryInv, NEW i \in Instances, save(i)
    PROVE  RegistryInv'
<1>1. CutsOff /\ UNCHANGED <<onDisk, histories, borrowed>>
  BY DEF save
<1>2. CASE UNCHANGED <<windows, registry>>
  BY <1>1, <1>2, RegistryMoves DEF RegistryInv, held, Fewer
<1>3. CASE doing[i].op = "open" /\ ~UNCHANGED <<windows, registry>>
  <2>1. PICK root : root = doing[i].root
    OBVIOUS
  <2>2. PICK o : o = sharedRepository(registry[i], root)
    OBVIOUS
  <2>3. /\ windows' = [windows EXCEPT ![i] = @ \cup {o}]
        /\ registry' = [registry EXCEPT ![i] = adding(@, sharedRepository(@, root), root)]
    BY <1>3, <2>1, <2>2 DEF save, openRepositoryWindow
  <2>4. DOMAIN windows' = Instances /\ windows'[i] = windows[i] \cup {o}
        /\ \A j \in Instances : j # i => windows'[j] = windows[j]
    BY <2>3 DEF RegistryInv
  <2>5. held(i)' \subseteq held(i) \cup {o} /\ \A j \in Instances : j # i => held(j)' = held(j)
    BY <1>1, <2>4 DEF held
  <2> QED
    BY <1>1, <2>2, <2>3, <2>4, <2>5, OneShared DEF RegistryInv
<1> QED
  BY <1>2, <1>3 DEF save

LEMMA HistoryOpens ==
    ASSUME RegistryInv, NEW i \in Instances, NEW root, showRepositoryHistory(i, root)
    PROVE  RegistryInv'
<1>1. CutsOff /\ UNCHANGED <<onDisk, windows, borrowed>>
  BY DEF showRepositoryHistory, listVars
<1>2. PICK o : o = sharedRepository(registry[i], root)
  OBVIOUS
<1>3. /\ histories' = [histories EXCEPT ![i] = @ \cup {o}]
      /\ registry' = [registry EXCEPT ![i] = adding(@, sharedRepository(@, root), root)]
  BY <1>2 DEF showRepositoryHistory
<1>4. DOMAIN histories' = Instances /\ histories'[i] = histories[i] \cup {o}
      /\ \A j \in Instances : j # i => histories'[j] = histories[j]
  BY <1>3 DEF RegistryInv
<1>5. held(i)' \subseteq held(i) \cup {o} /\ \A j \in Instances : j # i => held(j)' = held(j)
  BY <1>1, <1>4 DEF held
<1> QED
  BY <1>1, <1>2, <1>3, <1>4, <1>5, OneShared DEF RegistryInv

LEMMA SubmoduleBorrowed ==
    ASSUME RegistryInv, NEW i \in Instances, NEW root, BorrowSubmodule(i, root)
    PROVE  RegistryInv'
<1>1. CutsOff /\ UNCHANGED <<onDisk, windows, histories>>
  BY DEF BorrowSubmodule, listVars
<1>2. PICK o : o = sharedRepository(registry[i], root)
  OBVIOUS
<1>3. PICK by : borrowed' = [borrowed EXCEPT ![i] = @ \cup {<<by, o>>}]
  BY <1>2 DEF BorrowSubmodule
<1>4. registry' = [registry EXCEPT ![i] = adding(@, sharedRepository(@, root), root)]
  BY DEF BorrowSubmodule
<1>5. DOMAIN borrowed' = Instances /\ borrowed'[i] = borrowed[i] \cup {<<by, o>>}
      /\ \A j \in Instances : j # i => borrowed'[j] = borrowed[j]
  BY <1>3 DEF RegistryInv
<1>6. held(i)' \subseteq held(i) \cup {o} /\ \A j \in Instances : j # i => held(j)' = held(j)
  BY <1>1, <1>5 DEF held
<1> QED
  BY <1>1, <1>2, <1>4, <1>5, <1>6, OneShared DEF RegistryInv

\* A window closes, or a borrower returns what it held.
LEMMA HoldersLeave ==
    ASSUME RegistryInv, NEW i \in Instances,
           ReturnSubmodule(i) \/ CloseCommitWindow(i) \/ CloseHistoryWindow(i)
    PROVE  RegistryInv'
<1>1. Expires(i) /\ UNCHANGED onDisk
  BY DEF ReturnSubmodule, CloseCommitWindow, CloseHistoryWindow, listVars
<1>2. /\ DOMAIN windows' = Instances /\ DOMAIN histories' = Instances /\ DOMAIN borrowed' = Instances
      /\ windows'[i] \subseteq windows[i] /\ histories'[i] \subseteq histories[i] /\ borrowed'[i] \subseteq borrowed[i]
      /\ \A j \in Instances : j # i => /\ windows'[j] = windows[j] /\ histories'[j] = histories[j]
                                       /\ borrowed'[j] = borrowed[j]
  <2>1. CASE ReturnSubmodule(i)
    BY <2>1 DEF ReturnSubmodule, RegistryInv
  <2>2. CASE CloseCommitWindow(i)
    BY <2>2 DEF CloseCommitWindow, RegistryInv
  <2>3. CASE CloseHistoryWindow(i)
    BY <2>3 DEF CloseHistoryWindow, RegistryInv
  <2> QED
    BY <2>1, <2>2, <2>3
<1>3. held(i)' \subseteq held(i) /\ \A j \in Instances : j # i => held(j)' = held(j)
  BY <1>2 DEF held
<1>4. PICK live : live = held(i)'
  OBVIOUS
<1>5. PICK g : g = expired(registry[i], live)
  OBVIOUS
<1>6. DOMAIN g = DOMAIN registry[i] \cap live /\ Fewer(g, registry[i])
  BY <1>5 DEF expired, Restrict, Fewer
<1>7. registry' = [registry EXCEPT ![i] = g] /\ CutsOff
  BY <1>1, <1>4, <1>5 DEF Expires
<1>8. DOMAIN registry' = Instances /\ registry'[i] = g /\ \A j \in Instances : j # i => registry'[j] = registry[j]
  BY <1>7 DEF RegistryInv
<1>9. \A j \in Instances : Fewer(registry'[j], registry[j])
  BY <1>6, <1>8 DEF Fewer
<1>10. \A j \in Instances : held(j)' \subseteq DOMAIN registry'[j]
  BY <1>3, <1>4, <1>6, <1>8 DEF RegistryInv
<1> QED
  BY <1>2, <1>7, <1>8, <1>9, <1>10, RegistryMoves

LEMMA DiskMoves ==
    ASSUME RegistryInv, NEW d, DiskChanges(d)
    PROVE  RegistryInv'
<1>1. CutsOff /\ UNCHANGED <<windows, histories, borrowed, registry>>
  BY DEF DiskChanges
<1> QED
  BY <1>1, RegistryMoves DEF RegistryInv, held, Fewer

LEMMA RegistryInvHolds == RegistryInv /\ [AppNext]_appVars => RegistryInv'
<1>1. SUFFICES ASSUME RegistryInv, [AppNext]_appVars PROVE RegistryInv'
  OBVIOUS
<1>2. CASE UNCHANGED <<onDisk, windows, histories, borrowed, registry, cutOff>>
  BY <1>1, <1>2 DEF RegistryInv, held
<1>3. CASE UNCHANGED appVars
  BY <1>2, <1>3 DEF appVars, listVars, windowVars
<1>4. ASSUME NEW i \in Instances, NEW r,
             openRepositoryWindowAt(i, r) \/ openNestedRepositoryWindow(i, r) \/ Refreshed(i, r)
      PROVE  RegistryInv'
  BY <1>2, <1>4 DEF openRepositoryWindowAt, openNestedRepositoryWindow, Refreshed, windowVars
<1>5. ASSUME NEW i \in Instances, NEW r, NEW f,
             openRecentRepository(i, r) \/ showContextMenu(i, r) \/ ToggleRow(i, r) \/ setFilter(i, f)
      PROVE  RegistryInv'
  BY <1>2, <1>5 DEF openRecentRepository, showContextMenu, ToggleRow, setFilter, listVars, windowVars
<1>6. ASSUME NEW i \in Instances,
             AskClear(i) \/ Dismiss(i) \/ setRepositoryExpanded(i) \/ scanFolderForRepositories(i) \/ showWelcomeWindow(i)
      PROVE  RegistryInv'
  BY <1>2, <1>6 DEF AskClear, Dismiss, setRepositoryExpanded, scanFolderForRepositories, showWelcomeWindow,
     listVars, windowVars
<1>7. ASSUME NEW i \in Instances, RemoveFromList(i) \/ clearRecentRepositories(i) \/ ScanAnswers(i)
      PROVE  RegistryInv'
  BY <1>2, <1>7 DEF RemoveFromList, clearRecentRepositories, ScanAnswers, windowVars
<1> QED
  BY <1>1, <1>3, <1>4, <1>5, <1>6, <1>7, SaveKeeps, HistoryOpens, SubmoduleBorrowed, HoldersLeave, DiskMoves DEF AppNext

(***************************************************************************)
(* OneRepositoryWhileReached: whichever windows, pushes and dialogs come   *)
(* and go, by whichever roots, over whichever links, and whatever comes    *)
(* and goes on the disk, a directory has one object among those whose      *)
(* roots have led to it since they were made (sharedRepository()).         *)
(***************************************************************************)
THEOREM OneObjectPerDirectory == AppSpec => []OneRepositoryWhileReached
<1>1. AppInit => RegistryInv
  <2>1. SUFFICES ASSUME AppInit PROVE RegistryInv
    OBVIOUS
  <2>2. /\ DOMAIN registry = Instances /\ DOMAIN windows = Instances
        /\ DOMAIN histories = Instances /\ DOMAIN borrowed = Instances
        /\ \A i \in Instances : registry[i] = <<>> /\ windows[i] = {} /\ histories[i] = {} /\ borrowed[i] = {}
    BY <2>1 DEF AppInit
  <2>3. DOMAIN <<>> = {}
    OBVIOUS
  <2>4. \A i \in Instances : held(i) = {}
    BY <2>2 DEF held
  <2> QED
    BY <2>2, <2>3, <2>4, FS_EmptySet DEF RegistryInv, RegistrySound
<1>2. RegistryInv => OneRepositoryWhileReached
  BY DEF RegistryInv, RegistrySound, OneRepositoryWhileReached
<1> QED
  BY <1>1, <1>2, RegistryInvHolds, PTL DEF AppSpec
-------------------------------------------------------------------------------
(* The panel.                                                                *)

PanelShape(p) == p = [rows |-> p.rows, expanded |-> p.expanded, remembered |-> p.remembered, filter |-> p.filter]

\* The user's choices are what is unfolded, or what is remembered of it under a filter.
Remembers(p, choice) ==
    /\ DOMAIN choice \subseteq rootsOf(p.rows)
    /\ \A r \in DOMAIN choice : choice[r] <=> r \in IF p.filter = NoFilter THEN p.expanded ELSE p.remembered

ExpansionInv ==
    /\ DOMAIN panel = Instances /\ DOMAIN chosen = Instances /\ DOMAIN menuUsed = Instances
    /\ \A i \in Instances : PanelShape(panel[i]) /\ (menuUsed[i] \/ Remembers(panel[i], chosen[i]))

LEMMA FilterApplied ==
    ASSUME NEW p, PanelShape(p)
    PROVE  LET q == applyFilter(p)
           IN  /\ PanelShape(q) /\ q.rows = p.rows /\ q.remembered = p.remembered /\ q.filter = p.filter
               /\ p.filter = NoFilter => \A r \in rootsOf(p.rows) : r \in q.expanded <=> r \in p.remembered
<1>1. PICK S : S = {p.rows[k].root : k \in {n \in DOMAIN p.rows :
                       matchIsInside(p.filter, p.rows[n]) \/ p.rows[n].root \in p.remembered}}
  OBVIOUS
<1>2. PICK q : q = [p EXCEPT !.expanded = S]
  OBVIOUS
<1>3. q = applyFilter(p)
  BY <1>1, <1>2 DEF applyFilter
<1>4. PanelShape(q) /\ q.rows = p.rows /\ q.remembered = p.remembered /\ q.filter = p.filter /\ q.expanded = S
  BY <1>2 DEF PanelShape
<1>5. p.filter = NoFilter => \A r \in rootsOf(p.rows) : r \in S <=> r \in p.remembered
  BY <1>1 DEF rootsOf, matchIsInside, matches
<1> QED
  BY <1>3, <1>4, <1>5

LEMMA ExpansionRemembered ==
    ASSUME NEW p, PanelShape(p)
    PROVE  LET q == rememberExpansion(p)
           IN  /\ PanelShape(q) /\ q.rows = p.rows /\ q.filter = p.filter
               /\ q.remembered = IF p.filter = NoFilter THEN p.expanded ELSE p.remembered
BY DEF rememberExpansion, PanelShape

\* New rows, or a new filter, over the same choices.
LEMMA RefilteringKeeps ==
    ASSUME NEW p, PanelShape(p), NEW choice, Remembers(p, choice), NEW list, NEW f,
           NEW q, PanelShape(q), q.rows = list, q.filter = f, q.remembered = rememberExpansion(p).remembered,
           NEW kept, DOMAIN kept \subseteq DOMAIN choice, DOMAIN kept \subseteq rootsOf(list),
           \A r \in DOMAIN kept : kept[r] = choice[r]
    PROVE  PanelShape(applyFilter(q)) /\ Remembers(applyFilter(q), kept)
<1>1. PICK a : a = applyFilter(q)
  OBVIOUS
<1>2. /\ PanelShape(a) /\ a.rows = list /\ a.filter = f /\ a.remembered = q.remembered
      /\ f = NoFilter => \A r \in rootsOf(list) : r \in a.expanded <=> r \in q.remembered
  BY <1>1, FilterApplied
<1>3. q.remembered = IF p.filter = NoFilter THEN p.expanded ELSE p.remembered
  BY ExpansionRemembered
<1>4. \A r \in DOMAIN kept : kept[r] <=> r \in q.remembered
  BY <1>3 DEF Remembers
<1>5. \A r \in DOMAIN kept : kept[r] <=> r \in IF a.filter = NoFilter THEN a.expanded ELSE a.remembered
  BY <1>2, <1>4
<1> QED
  BY <1>1, <1>2, <1>5 DEF Remembers

LEMMA PanelRebuilt ==
    ASSUME ExpansionInv, NEW i \in Instances, save(i)
    PROVE  ExpansionInv'
<1>1. PICK p : p = panel[i]
  OBVIOUS
<1>2. PanelShape(p) /\ (menuUsed[i] \/ Remembers(p, chosen[i])) /\ UNCHANGED menuUsed
  BY <1>1 DEF ExpansionInv, save
<1>3. CASE UNCHANGED <<panel, chosen>>
  BY <1>2, <1>3 DEF ExpansionInv
<1>4. CASE /\ panel' = [panel EXCEPT ![i] = rebuild(@, stored')]
           /\ chosen' = [chosen EXCEPT ![i] = StillListed(@, stored')]
  <2>1. PICK e : e = rememberExpansion(p)
    OBVIOUS
  <2>2. PICK q : q = [e EXCEPT !.rows = stored']
    OBVIOUS
  <2>3. /\ PanelShape(q) /\ q.rows = stored' /\ q.filter = p.filter /\ q.remembered = e.remembered
    BY <1>2, <2>1, <2>2, ExpansionRemembered DEF PanelShape
  <2>4. PICK kept : kept = StillListed(chosen[i], stored')
    OBVIOUS
  <2>5. /\ DOMAIN kept \subseteq DOMAIN chosen[i] /\ DOMAIN kept \subseteq rootsOf(stored')
        /\ \A r \in DOMAIN kept : kept[r] = chosen[i][r]
    BY <2>4 DEF StillListed, Restrict
  <2>6. PICK a : a = applyFilter(q)
    OBVIOUS
  <2>7. PanelShape(a)
    BY <2>3, <2>6, FilterApplied
  <2>8. menuUsed[i] \/ Remembers(a, kept)
    <3>1. CASE Remembers(p, chosen[i])
      BY <1>2, <2>1, <2>3, <2>5, <2>6, <3>1, RefilteringKeeps
    <3> QED
      BY <1>2, <3>1
  <2>9. panel' = [panel EXCEPT ![i] = a] /\ chosen' = [chosen EXCEPT ![i] = kept]
    BY <1>1, <1>4, <2>1, <2>2, <2>4, <2>6 DEF rebuild
  <2> QED
    BY <1>2, <2>7, <2>8, <2>9 DEF ExpansionInv
<1> QED
  BY <1>3, <1>4 DEF save

LEMMA FilterSet ==
    ASSUME ExpansionInv, NEW i \in Instances, NEW f, setFilter(i, f)
    PROVE  ExpansionInv'
<1>1. PICK p : p = panel[i]
  OBVIOUS
<1>2. PanelShape(p) /\ (menuUsed[i] \/ Remembers(p, chosen[i])) /\ UNCHANGED <<menuUsed, chosen>>
  BY <1>1 DEF ExpansionInv, setFilter
<1>3. PICK e : e = rememberExpansion(p)
  OBVIOUS
<1>4. PICK q : q = [e EXCEPT !.filter = f]
  OBVIOUS
<1>5. /\ PanelShape(q) /\ q.rows = p.rows /\ q.filter = f /\ q.remembered = e.remembered
  BY <1>2, <1>3, <1>4, ExpansionRemembered DEF PanelShape
<1>6. PICK a : a = applyFilter(q)
  OBVIOUS
<1>7. PanelShape(a)
  BY <1>5, <1>6, FilterApplied
<1>8. menuUsed[i] \/ Remembers(a, chosen[i])
  <2>1. CASE Remembers(p, chosen[i])
    <3>1. DOMAIN chosen[i] \subseteq rootsOf(p.rows)
      BY <2>1 DEF Remembers
    <3> QED
      BY <1>2, <1>3, <1>5, <1>6, <2>1, <3>1, RefilteringKeeps
  <2> QED
    BY <1>2, <2>1
<1>9. panel' = [panel EXCEPT ![i] = a]
  BY <1>1, <1>3, <1>4, <1>6 DEF setFilter
<1> QED
  BY <1>2, <1>7, <1>8, <1>9 DEF ExpansionInv

LEMMA RowToggled ==
    ASSUME ExpansionInv, NEW i \in Instances, NEW r, ToggleRow(i, r)
    PROVE  ExpansionInv'
<1>1. PICK p : p = panel[i]
  OBVIOUS
<1>2. PanelShape(p) /\ (menuUsed[i] \/ Remembers(p, chosen[i])) /\ UNCHANGED menuUsed
  BY <1>1 DEF ExpansionInv, ToggleRow
<1>3. r \in rootsOf(p.rows)
  BY <1>1 DEF ToggleRow, rootsOf
<1>4. PICK S : S = IF r \in p.expanded THEN p.expanded \ {r} ELSE p.expanded \cup {r}
  OBVIOUS
<1>5. PICK q : q = [p EXCEPT !.expanded = S]
  OBVIOUS
<1>6. PanelShape(q) /\ q.rows = p.rows /\ q.filter = p.filter /\ q.remembered = p.remembered /\ q.expanded = S
  BY <1>2, <1>5 DEF PanelShape
<1>7. panel' = [panel EXCEPT ![i] = q]
  BY <1>1, <1>4, <1>5 DEF ToggleRow
<1>8. CASE p.filter # NoFilter
  <2>1. UNCHANGED chosen
    BY <1>1, <1>8 DEF ToggleRow
  <2>2. Remembers(p, chosen[i]) => Remembers(q, chosen[i])
    BY <1>6, <1>8 DEF Remembers
  <2> QED
    BY <1>2, <1>6, <1>7, <2>1, <2>2 DEF ExpansionInv
<1>9. CASE p.filter = NoFilter
  <2>1. PICK b : b = (r \notin p.expanded)
    OBVIOUS
  <2>2. PICK c : c = choosing(chosen[i], r, b)
    OBVIOUS
  <2>3. chosen' = [chosen EXCEPT ![i] = c]
    BY <1>1, <1>9, <2>1, <2>2 DEF ToggleRow
  <2>4. /\ DOMAIN c = DOMAIN chosen[i] \cup {r} /\ c[r] = b
        /\ \A s \in DOMAIN chosen[i] : s # r => c[s] = chosen[i][s]
    BY <2>2 DEF choosing
  <2>5. r \in S <=> r \notin p.expanded
    BY <1>4
  <2>6. \A s : s # r => (s \in S <=> s \in p.expanded)
    BY <1>4
  <2>7. Remembers(p, chosen[i]) => Remembers(q, c)
    <3>1. SUFFICES ASSUME Remembers(p, chosen[i]) PROVE Remembers(q, c)
      OBVIOUS
    <3>2. DOMAIN c \subseteq rootsOf(q.rows)
      BY <1>3, <1>6, <2>4, <3>1 DEF Remembers
    <3>3. c[r] <=> r \in q.expanded
      BY <1>6, <2>1, <2>4, <2>5
    <3>4. \A s \in DOMAIN c : s # r => (c[s] <=> s \in q.expanded)
      BY <1>6, <1>9, <2>4, <2>6, <3>1 DEF Remembers
    <3>5. \A s \in DOMAIN c : c[s] <=> s \in q.expanded
      BY <3>3, <3>4
    <3> QED
      BY <1>6, <1>9, <3>2, <3>5 DEF Remembers
  <2> QED
    BY <1>2, <1>6, <1>7, <2>3, <2>7 DEF ExpansionInv
<1> QED
  BY <1>8, <1>9

LEMMA MenuExpands ==
    ASSUME ExpansionInv, NEW i \in Instances, setRepositoryExpanded(i)
    PROVE  ExpansionInv'
<1>1. PICK p : p = panel[i]
  OBVIOUS
<1>2. PanelShape(p)
  BY <1>1 DEF ExpansionInv
<1>3. PICK S : S = IF modal[i].expanded THEN p.remembered \ {modal[i].root} ELSE p.remembered \cup {modal[i].root}
  OBVIOUS
<1>4. PICK q : q = [p EXCEPT !.remembered = S]
  OBVIOUS
<1>5. PanelShape(q)
  BY <1>2, <1>4 DEF PanelShape
<1>6. PICK a : a = applyFilter(q)
  OBVIOUS
<1>7. PanelShape(a)
  BY <1>5, <1>6, FilterApplied
<1>8. panel' = [panel EXCEPT ![i] = a] /\ menuUsed' = [menuUsed EXCEPT ![i] = TRUE]
  BY <1>1, <1>3, <1>4, <1>6 DEF setRepositoryExpanded
<1>9. /\ DOMAIN chosen' = Instances
      /\ \A j \in Instances : j # i => chosen'[j] = chosen[j]
  BY DEF ExpansionInv, setRepositoryExpanded
<1> QED
  BY <1>7, <1>8, <1>9 DEF ExpansionInv

LEMMA ExpansionInvHolds == ExpansionInv /\ [AppNext]_appVars => ExpansionInv'
<1>1. SUFFICES ASSUME ExpansionInv, [AppNext]_appVars PROVE ExpansionInv'
  OBVIOUS
<1>2. CASE UNCHANGED panelVars
  BY <1>1, <1>2 DEF ExpansionInv, panelVars
<1>3. CASE UNCHANGED appVars
  BY <1>2, <1>3 DEF appVars
<1>4. ASSUME NEW d, DiskChanges(d) PROVE ExpansionInv'
  BY <1>2, <1>4 DEF DiskChanges
<1>5. ASSUME NEW i \in Instances, NEW r,
             \/ openRepositoryWindowAt(i, r) \/ openNestedRepositoryWindow(i, r)
             \/ openRecentRepository(i, r) \/ showContextMenu(i, r) \/ ToggleRow(i, r)
             \/ Refreshed(i, r) \/ showRepositoryHistory(i, r) \/ BorrowSubmodule(i, r)
      PROVE  ExpansionInv'
  BY <1>1, <1>2, <1>5, RowToggled
     DEF openRepositoryWindowAt, openNestedRepositoryWindow, openRecentRepository, showContextMenu, Refreshed,
         showRepositoryHistory, BorrowSubmodule
<1>6. ASSUME NEW i \in Instances, NEW f,
             \/ setFilter(i, f)
             \/ AskClear(i) \/ Dismiss(i) \/ RemoveFromList(i) \/ clearRecentRepositories(i)
             \/ setRepositoryExpanded(i) \/ scanFolderForRepositories(i) \/ ScanAnswers(i)
             \/ save(i) \/ showWelcomeWindow(i)
             \/ ReturnSubmodule(i) \/ CloseCommitWindow(i) \/ CloseHistoryWindow(i)
      PROVE  ExpansionInv'
  BY <1>1, <1>2, <1>6, FilterSet, MenuExpands, PanelRebuilt
     DEF AskClear, Dismiss, RemoveFromList, clearRecentRepositories, scanFolderForRepositories, ScanAnswers,
         showWelcomeWindow, ReturnSubmodule, CloseCommitWindow, CloseHistoryWindow
<1> QED
  BY <1>1, <1>3, <1>4, <1>5, <1>6 DEF AppNext

(***************************************************************************)
(* ExpansionSurvives: through filters, rebuilds and the arrows in any      *)
(* order, what is unfolded once the filter is cleared is what the user     *)
(* left, until the menu has been used (the divergence of                   *)
(* ExpansionIsTheUsers).                                                   *)
(***************************************************************************)
THEOREM ChoicesSurvive == AppSpec => []ExpansionSurvives
<1>1. AppInit => ExpansionInv
  <2>1. SUFFICES ASSUME AppInit PROVE ExpansionInv
    OBVIOUS
  <2>2. PICK S : S = {stored[k].root : k \in {n \in DOMAIN stored : CurrentRoot \in submoduleRoots(stored[n])}}
    OBVIOUS
  <2>3. PICK p : p = initialPanel(stored)
    OBVIOUS
  <2>4. PanelShape(p) /\ p.rows = stored /\ p.expanded = S /\ p.filter = NoFilter
    BY <2>2, <2>3 DEF initialPanel, PanelShape
  <2>5. \A i \in Instances : panel[i] = p
    BY <2>1, <2>3 DEF AppInit
  <2>6. PICK c : c = [r \in rootsOf(stored) |-> r \in p.expanded]
    OBVIOUS
  <2>7. \A i \in Instances : chosen[i] = c
    BY <2>1, <2>3, <2>6 DEF AppInit
  <2>8. Remembers(p, c)
    <3>1. DOMAIN c = rootsOf(stored) /\ \A r \in DOMAIN c : c[r] = (r \in p.expanded)
      BY <2>6
    <3> QED
      BY <2>4, <3>1 DEF Remembers
  <2>9. DOMAIN panel = Instances /\ DOMAIN chosen = Instances /\ DOMAIN menuUsed = Instances
    BY <2>1 DEF AppInit
  <2> QED
    BY <2>4, <2>5, <2>7, <2>8, <2>9 DEF ExpansionInv
<1>2. ExpansionInv => ExpansionSurvives
  BY DEF ExpansionInv, ExpansionSurvives, ShowsTheChoice, Remembers
<1> QED
  BY <1>1, <1>2, ExpansionInvHolds, PTL DEF AppSpec
-------------------------------------------------------------------------------
(* The stored list: recentrepositories.cpp.                                   *)

Lists == Seq(Entry)

\* The entry of an operation that looks for one.
LEMMA FirstSelected ==
    ASSUME NEW n \in Nat, NEW I \in SUBSET (1..n)
    PROVE  IF I # {} THEN Min(I) \in I ELSE TRUE
<1> SUFFICES ASSUME I # {} PROVE Min(I) \in I
  OBVIOUS
<1>1. I \in SUBSET (0..n)
  OBVIOUS
<1>2. \E m \in I : \A k \in I : m <= k
  BY <1>1, LeastUpTo
<1> QED
  BY <1>2 DEF Min

LEMMA ListShape ==
    ASSUME NEW list \in Lists
    PROVE  /\ Len(list) \in Nat /\ DOMAIN list = 1..Len(list)
           /\ \A k \in 1..Len(list) : list[k] \in Entry
BY LenProperties, ElementOfSeq DEF Lists

\* The cap.
LEMMA CappedKeeps ==
    ASSUME NEW list \in Lists
    PROVE  /\ capped(list) \in Lists
           /\ \A e : Contains(capped(list), e) => Contains(list, e)
           /\ Len(capped(list)) = MaxRecent \/ capped(list) = list
<1>1. PICK n : n = IF Len(list) < MaxRecent THEN Len(list) ELSE MaxRecent
  OBVIOUS
<1>2. Len(list) \in Nat /\ MaxRecent \in Nat /\ \A k \in 1..Len(list) : list[k] \in Entry
  BY ListShape, RootsAssumption
<1>3. n \in Nat /\ n <= Len(list)
  BY <1>1, <1>2
<1>4. PICK c : c = capped(list)
  OBVIOUS
<1>5. c = SubSeq(list, 1, n)
  BY <1>1, <1>4 DEF capped
<1>6. c = [k \in 1..n |-> list[k]]
  BY <1>2, <1>3, <1>5
<1>7. c \in Lists /\ Len(c) = n
  BY <1>2, <1>3, <1>6 DEF Lists
<1>8. \A k \in 1..n : k \in 1..Len(list) /\ c[k] = list[k]
  BY <1>2, <1>3, <1>6
<1>9. \A e : Contains(c, e) => Contains(list, e)
  BY <1>7, <1>8 DEF Contains
<1>10. n = MaxRecent \/ c = list
  <2>1. CASE n = Len(list)
    <3>1. list = [k \in 1..Len(list) |-> list[k]]
      BY DEF Lists
    <3> QED
      BY <1>6, <2>1, <3>1
  <2> QED
    BY <1>1, <2>1
<1> QED
  BY <1>4, <1>7, <1>9, <1>10

\* An entry taken out.
LEMMA RemovedKeeps ==
    ASSUME NEW list \in Lists, NEW i \in 1..Len(list)
    PROVE  /\ RemoveAt(list, i) \in Lists
           /\ \A k \in 1..Len(list) : k # i => Contains(RemoveAt(list, i), list[k])
           /\ \A e : Contains(RemoveAt(list, i), e) => Contains(list, e)
<1>1. Len(list) \in Nat /\ \A k \in 1..Len(list) : list[k] \in Entry
  BY ListShape
<1>2. PICK a : a = SubSeq(list, 1, i - 1)
  OBVIOUS
<1>3. PICK b : b = SubSeq(list, i + 1, Len(list))
  OBVIOUS
<1>4. a \in Lists /\ Len(a) = i - 1 /\ \A k \in 1..(i-1) : a[k] = list[k]
  BY <1>1, <1>2 DEF Lists
<1>5. b \in Lists /\ Len(b) = Len(list) - i /\ \A k \in 1..(Len(list) - i) : b[k] = list[k + i]
  <2>1. i + 1 \in 1..(Len(list) + 1) /\ Len(list) \in i..Len(list) /\ i \in Nat
    BY <1>1
  <2>2. b = [k \in 1..(Len(list) - i) |-> list[(i + 1) + k - 1]]
    BY <1>1, <1>3, <2>1
  <2>3. \A k \in 1..(Len(list) - i) : (i + 1) + k - 1 = k + i /\ k + i \in 1..Len(list)
    BY <1>1, <2>1
  <2>4. b \in [1..(Len(list) - i) -> Entry] /\ Len(list) - i \in Nat
    BY <1>1, <2>1, <2>2, <2>3
  <2>5. Len(b) = Len(list) - i /\ b \in Seq(Entry)
    BY <2>4
  <2> QED
    BY <2>2, <2>3, <2>5 DEF Lists
<1>6. PICK r : r = RemoveAt(list, i)
  OBVIOUS
<1>7. r = a \o b
  BY <1>2, <1>3, <1>6 DEF RemoveAt
<1>8. r \in Lists /\ \A e : Contains(r, e) <=> Contains(a, e) \/ Contains(b, e)
  BY <1>4, <1>5, <1>7, HasConcat, ConcatProperties DEF Lists
<1>9. ASSUME NEW k \in 1..Len(list), k # i PROVE Contains(r, list[k])
  <2>1. CASE k < i
    <3>1. k \in 1..(i - 1)
      BY <1>1, <2>1
    <3>2. Contains(a, list[k])
      BY <1>4, <3>1 DEF Contains
    <3> QED
      BY <1>8, <3>2
  <2>2. CASE k > i
    <3>1. k - i \in 1..(Len(list) - i) /\ (k - i) + i = k
      BY <1>1, <2>2
    <3>2. b[k - i] = list[k]
      BY <1>5, <3>1
    <3>3. Contains(b, list[k])
      BY <1>5, <3>1, <3>2 DEF Contains
    <3> QED
      BY <1>8, <3>3
  <2> QED
    BY <1>1, <1>9, <2>1, <2>2
<1>10. \A e : Contains(r, e) => Contains(list, e)
  <2>1. \A e : Contains(a, e) => Contains(list, e)
    <3>1. \A k \in 1..(i-1) : k \in 1..Len(list)
      BY <1>1
    <3> QED
      BY <1>4, <3>1 DEF Contains
  <2>2. \A e : Contains(b, e) => Contains(list, e)
    <3>1. \A k \in 1..(Len(list) - i) : k + i \in 1..Len(list)
      BY <1>1
    <3> QED
      BY <1>5, <3>1 DEF Contains
  <2> QED
    BY <1>8, <2>1, <2>2
<1> QED
  BY <1>6, <1>8, <1>9, <1>10

\* An entry moved to the front, changed or not.
LEMMA BumpedKeeps ==
    ASSUME NEW list \in Lists, NEW i \in 1..Len(list), NEW entry \in Entry
    PROVE  /\ bumped(list, i, entry) \in Lists
           /\ Contains(bumped(list, i, entry), entry)
           /\ \A k \in 1..Len(list) : k # i => Contains(bumped(list, i, entry), list[k])
           /\ \A e : Contains(bumped(list, i, entry), e) => e = entry \/ Contains(list, e)
<1>1. PICK r : r = RemoveAt(list, i)
  OBVIOUS
<1>2. /\ r \in Lists
      /\ \A k \in 1..Len(list) : k # i => Contains(r, list[k])
      /\ \A e : Contains(r, e) => Contains(list, e)
  BY <1>1, RemovedKeeps
<1>3. PICK c : c = bumped(list, i, entry)
  OBVIOUS
<1>4. c = <<entry>> \o r
  BY <1>1, <1>3 DEF bumped
<1>5. c \in Lists /\ \A e : Contains(c, e) <=> e = entry \/ Contains(r, e)
  <2>1. <<entry>> \in Seq(Entry) /\ \A e : Contains(<<entry>>, e) <=> e = entry
    BY DEF Contains
  <2> QED
    BY <1>2, <1>4, <2>1, HasConcat, ConcatProperties DEF Lists
<1> QED
  BY <1>2, <1>3, <1>5

-------------------------------------------------------------------------------
(* What an operation may do to the list.                                     *)

HasDirectory(list, d) == \E e : Contains(list, e) /\ Directory[e.root] = d

\* No directory is lost but into a full list, or to a parent that declares it.
LosesNone(list, next) ==
    \A d \in Range(Directory) :
        HasDirectory(list, d) => \/ HasDirectory(next, d)
                                 \/ Len(next) = MaxRecent
                                 \/ \E e, r : r \in Roots /\ Contains(next, e) /\ Directory[r] = d /\ r \in submoduleRoots(e)

\* An entry joins if no entry declares it.
JoinsAlone(list, next, disk) ==
    \A e : Contains(next, e) =>
        \/ \E f : Contains(list, f) /\ f.root = e.root
        \/ \A f : Contains(list, f) => ~claimsSubmoduleAt(f, e.root, disk)

LEMMA OpenKeeps ==
    ASSUME NEW list \in Lists, NEW root \in Roots, NEW t \in Nat, NEW disk
    PROVE  /\ recordOpen(list, root, t, disk) \in Lists
           /\ LosesNone(list, recordOpen(list, root, t, disk))
           /\ JoinsAlone(list, recordOpen(list, root, t, disk), disk)
<1> DEFINE Claims == {i \in 1..Len(list) : claimsSubmoduleAt(list[i], root, disk)}
           Same == {i \in 1..Len(list) : sameDirectoryOnDisk(list[i].root, root, disk)}
<1>1. Len(list) \in Nat /\ \A k \in 1..Len(list) : list[k] \in Entry
  BY ListShape
<1>2. PICK parent : parent = SelectInSeq(list, LAMBDA e : claimsSubmoduleAt(e, root, disk))
  OBVIOUS
<1>3. PICK existing : existing = SelectInSeq(list, LAMBDA e : sameDirectoryOnDisk(e.root, root, disk))
  OBVIOUS
<1>4. IF Claims # {} THEN parent \in Claims ELSE parent = 0
  <2>1. parent = IF Claims # {} THEN Min(Claims) ELSE 0
    BY <1>2 DEF SelectInSeq
  <2>2. Claims \in SUBSET (1..Len(list))
    OBVIOUS
  <2> HIDE DEF Claims
  <2> QED
    BY <1>1, <2>1, <2>2, FirstSelected
<1>5. IF Same # {} THEN existing \in Same ELSE existing = 0
  <2>1. existing = IF Same # {} THEN Min(Same) ELSE 0
    BY <1>3 DEF SelectInSeq
  <2>2. Same \in SUBSET (1..Len(list))
    OBVIOUS
  <2> HIDE DEF Same
  <2> QED
    BY <1>1, <2>1, <2>2, FirstSelected
<1>6. PICK next : next = recordOpen(list, root, t, disk)
  OBVIOUS
<1>7. ASSUME NEW i \in 1..Len(list), NEW entry \in Entry, next = bumped(list, i, entry),
             Directory[entry.root] = Directory[list[i].root],
             entry.root = list[i].root \/ \A f : Contains(list, f) => ~claimsSubmoduleAt(f, entry.root, disk)
      PROVE  next \in Lists /\ LosesNone(list, next) /\ JoinsAlone(list, next, disk)
  <2>1. /\ next \in Lists /\ Contains(next, entry)
        /\ \A k \in 1..Len(list) : k # i => Contains(next, list[k])
        /\ \A e : Contains(next, e) => e = entry \/ Contains(list, e)
    BY <1>7, BumpedKeeps
  <2>2. ASSUME NEW d, HasDirectory(list, d) PROVE HasDirectory(next, d)
    <3>1. PICK k \in 1..Len(list) : Directory[list[k].root] = d
      BY <2>2 DEF HasDirectory, Contains
    <3> QED
      BY <1>7, <2>1, <3>1 DEF HasDirectory
  <2>3. Contains(list, list[i])
    BY DEF Contains
  <2>4. JoinsAlone(list, next, disk)
    BY <1>7, <2>1, <2>3 DEF JoinsAlone
  <2> QED
    BY <2>1, <2>2, <2>4 DEF LosesNone
<1>8. parent = 0 => \A f : Contains(list, f) => ~claimsSubmoduleAt(f, root, disk)
  BY <1>4 DEF Contains
<1>9. CASE parent # 0
  <2>1. parent \in 1..Len(list)
    BY <1>4, <1>9
  <2>2. PICK e : e = list[parent]
    OBVIOUS
  <2>3. PICK entry : entry = [e EXCEPT !.lastUsed = t]
    OBVIOUS
  <2>4. entry \in Entry /\ entry.root = e.root
    BY <1>1, <2>1, <2>2, <2>3 DEF Entry
  <2>5. next = bumped(list, parent, entry)
    BY <1>2, <1>3, <1>6, <1>9, <2>2, <2>3 DEF recordOpen
  <2> QED
    BY <1>6, <1>7, <2>1, <2>2, <2>4, <2>5
<1>10. CASE parent = 0 /\ existing # 0
  <2>1. existing \in 1..Len(list) /\ sameDirectoryOnDisk(list[existing].root, root, disk)
    BY <1>5, <1>10
  <2>2. PICK e : e = list[existing]
    OBVIOUS
  <2>3. PICK entry : entry = [e EXCEPT !.root = root, !.lastUsed = t]
    OBVIOUS
  <2>4. entry \in Entry /\ entry.root = root
    BY <1>1, <2>1, <2>2, <2>3 DEF Entry
  <2>5. next = bumped(list, existing, entry)
    BY <1>2, <1>3, <1>6, <1>10, <2>2, <2>3 DEF recordOpen
  <2>6. Directory[entry.root] = Directory[list[existing].root]
    BY <2>1, <2>4 DEF sameDirectoryOnDisk
  <2> QED
    BY <1>6, <1>7, <1>8, <1>10, <2>1, <2>4, <2>5, <2>6
<1>11. CASE parent = 0 /\ existing = 0
  <2>1. PICK entry : entry = [root |-> root, submodules |-> {}, lastUsed |-> t]
    OBVIOUS
  <2>2. entry \in Entry /\ entry.root = root
    BY <2>1 DEF Entry
  <2>3. PICK all : all = <<entry>> \o list
    OBVIOUS
  <2>4. all \in Lists /\ \A e : Contains(all, e) <=> e = entry \/ Contains(list, e)
    <3>1. <<entry>> \in Seq(Entry) /\ \A e : Contains(<<entry>>, e) <=> e = entry
      BY <2>2 DEF Contains
    <3> QED
      BY <2>3, <3>1, HasConcat, ConcatProperties DEF Lists
  <2>5. next = capped(all)
    BY <1>2, <1>3, <1>6, <1>11, <2>1, <2>3 DEF recordOpen
  <2>6. /\ next \in Lists /\ \A e : Contains(next, e) => Contains(all, e)
        /\ Len(next) = MaxRecent \/ next = all
    BY <2>4, <2>5, CappedKeeps
  <2>7. LosesNone(list, next)
    BY <2>4, <2>6 DEF LosesNone, HasDirectory
  <2>8. JoinsAlone(list, next, disk)
    BY <1>8, <1>11, <2>2, <2>4, <2>6 DEF JoinsAlone
  <2> QED
    BY <1>6, <2>6, <2>7, <2>8
<1> QED
  BY <1>9, <1>10, <1>11

\* The sort's order, and how many entries come before one.
SortsBefore(list, i, j) ==
    \/ list[i].lastUsed > list[j].lastUsed
    \/ list[i].lastUsed = list[j].lastUsed /\ i < j

Sooner(list, i) == {j \in DOMAIN list : SortsBefore(list, j, i)}
Place(list) == [i \in DOMAIN list |-> Cardinality(Sooner(list, i)) + 1]

\* Every entry has a place of its own.
LEMMA PlacesDiffer ==
    ASSUME NEW list \in Lists, NEW n, n = Len(list)
    PROVE  /\ n \in Nat /\ DOMAIN list = 1..n
           /\ \A i \in 1..n : Cardinality(Sooner(list, i)) \in Nat
           /\ Place(list) \in Bijection(1..n, 1..n)
<1>1. n \in Nat /\ DOMAIN list = 1..n /\ \A i \in 1..n : list[i].lastUsed \in Nat
  BY ListShape DEF Entry
<1>2. IsFiniteSet(1..n) /\ Cardinality(1..n) = n
  <2>1. n \in Int /\ 1 \in Int /\ n >= 0
    BY <1>1
  <2>2. IsFiniteSet(1..n) /\ Cardinality(1..n) = IF 1 > n THEN 0 ELSE n - 1 + 1
    BY <2>1, FS_Interval
  <2> QED
    BY <2>1, <2>2
<1>3. PICK N : N = 1..n
  OBVIOUS
<1>4. PICK P : P = [i \in N |-> Sooner(list, i)]
  OBVIOUS
<1>5. \A i \in N : P[i] = {j \in N : SortsBefore(list, j, i)}
  BY <1>1, <1>3, <1>4 DEF Sooner
<1>6. ASSUME NEW i \in N PROVE IsFiniteSet(P[i]) /\ Cardinality(P[i]) \in Nat /\ Cardinality(P[i]) < n
  <2>1. P[i] \in SUBSET N /\ i \notin P[i]
    <3>1. ~SortsBefore(list, i, i)
      BY <1>1, <1>3 DEF SortsBefore
    <3> QED
      BY <1>5, <3>1
  <2>2. P[i] # N
    BY <2>1
  <2>3. IsFiniteSet(P[i]) /\ Cardinality(P[i]) <= Cardinality(N) /\ Cardinality(P[i]) # Cardinality(N)
    BY <1>2, <1>3, <2>1, <2>2, FS_Subset
  <2>4. Cardinality(P[i]) \in Nat
    BY <2>3, FS_CardinalityType
  <2> QED
    BY <1>1, <1>2, <1>3, <2>3, <2>4
<1>7. ASSUME NEW i \in N, NEW j \in N, SortsBefore(list, i, j) PROVE Cardinality(P[i]) < Cardinality(P[j])
  <2>1. \A k \in N : SortsBefore(list, k, i) => SortsBefore(list, k, j)
    BY <1>1, <1>3, <1>7 DEF SortsBefore
  <2>2. ~SortsBefore(list, i, i)
    BY <1>1, <1>3 DEF SortsBefore
  <2>3. P[i] \in SUBSET P[j] /\ P[i] # P[j]
    BY <1>5, <1>7, <2>1, <2>2
  <2>4. Cardinality(P[i]) <= Cardinality(P[j]) /\ Cardinality(P[i]) # Cardinality(P[j])
    BY <1>6, <2>3, FS_Subset
  <2> QED
    BY <1>6, <2>4
<1>8. PICK place : place = Place(list)
  OBVIOUS
<1>9. DOMAIN place = N /\ place = [i \in N |-> Cardinality(P[i]) + 1]
  BY <1>1, <1>3, <1>4, <1>8 DEF Place
<1>10. ASSUME NEW i \in N, NEW j \in N, i # j PROVE place[i] # place[j]
  <2>1. SortsBefore(list, i, j) \/ SortsBefore(list, j, i)
    BY <1>1, <1>3, <1>10 DEF SortsBefore
  <2> QED
    BY <1>6, <1>7, <1>9, <2>1
<1>11. place \in [N -> N]
  BY <1>1, <1>3, <1>6, <1>9
<1>12. place \in Injection(N, N)
  BY <1>10, <1>11 DEF Injection, IsInjective
<1>13. place \in Surjection(N, N)
  BY <1>2, <1>3, <1>12, FS_Injection
<1>14. place \in Bijection(N, N)
  BY <1>12, <1>13 DEF Bijection
<1>15. \A i \in N : Cardinality(Sooner(list, i)) \in Nat
  BY <1>4, <1>6
<1> QED
  BY <1>1, <1>3, <1>8, <1>14, <1>15

LEMMA SortedKeeps ==
    ASSUME NEW list \in Lists
    PROVE  /\ sortByLastUsed(list) \in Lists
           /\ \A e : Contains(sortByLastUsed(list), e) <=> Contains(list, e)
<1>1. PICK n : n = Len(list)
  OBVIOUS
<1>2. PICK place : place = Place(list)
  OBVIOUS
<1>3. /\ n \in Nat /\ DOMAIN list = 1..n
      /\ \A i \in 1..n : Cardinality(Sooner(list, i)) \in Nat
      /\ place \in Bijection(1..n, 1..n)
  BY <1>1, <1>2, PlacesDiffer
<1>4. \A i \in 1..n : list[i] \in Entry
  BY <1>1, ListShape
<1>5. \A i \in 1..n : place[i] = Cardinality(Sooner(list, i)) + 1
  BY <1>2, <1>3 DEF Place
<1>6. /\ \A k \in 1..n : \E i \in 1..n : place[i] = k
      /\ \A i, j \in 1..n : place[i] = place[j] => i = j
      /\ \A i \in 1..n : place[i] \in 1..n
  BY <1>3 DEF Bijection, Injection, Surjection, IsInjective
<1>7. PICK where : where = [k \in 1..n |-> CHOOSE i \in 1..n : Cardinality(Sooner(list, i)) = k - 1]
  OBVIOUS
<1>8. \A k \in 1..n : where[k] \in 1..n /\ place[where[k]] = k
  <2> SUFFICES ASSUME NEW k \in 1..n PROVE where[k] \in 1..n /\ place[where[k]] = k
    OBVIOUS
  <2>1. \E i \in 1..n : Cardinality(Sooner(list, i)) = k - 1
    <3>1. PICK i \in 1..n : place[i] = k
      BY <1>6
    <3>2. Cardinality(Sooner(list, i)) \in Nat /\ place[i] = Cardinality(Sooner(list, i)) + 1
      BY <1>3, <1>5
    <3> QED
      BY <3>1, <3>2
  <2>2. where[k] \in 1..n /\ Cardinality(Sooner(list, where[k])) = k - 1
    BY <1>7, <2>1
  <2> QED
    BY <1>5, <2>2
<1>9. \A i \in 1..n : \E k \in 1..n : where[k] = i
  <2> SUFFICES ASSUME NEW i \in 1..n PROVE where[place[i]] = i /\ place[i] \in 1..n
    OBVIOUS
  <2> QED
    BY <1>6, <1>8
<1>10. sortByLastUsed(list) = [k \in 1..n |-> list[where[k]]]
  <2>1. sortByLastUsed(list) =
           [k \in DOMAIN list |-> list[CHOOSE i \in DOMAIN list : Cardinality(Sooner(list, i)) = k - 1]]
    BY Zenon DEF sortByLastUsed, Sooner, SortsBefore
  <2> QED
    BY <1>3, <1>7, <2>1
<1>11. PICK s : s = sortByLastUsed(list)
  OBVIOUS
<1>12. s \in [1..n -> Entry] /\ \A k \in 1..n : s[k] = list[where[k]]
  BY <1>4, <1>8, <1>10, <1>11
<1>13. s \in Lists /\ Len(s) = n
  BY <1>3, <1>12 DEF Lists
<1>14. \A e : Contains(s, e) <=> Contains(list, e)
  <2>1. ASSUME NEW e, NEW k \in 1..n, s[k] = e PROVE \E i \in 1..n : list[i] = e
    BY <1>8, <1>12, <2>1
  <2>2. ASSUME NEW e, NEW i \in 1..n, list[i] = e PROVE \E k \in 1..n : s[k] = e
    <3>1. PICK k \in 1..n : where[k] = i
      BY <1>9
    <3> QED
      BY <1>12, <2>2, <3>1
  <2> QED
    BY <1>1, <1>13, <2>1, <2>2 DEF Contains
<1> QED
  BY <1>11, <1>13, <1>14

\* A scan adds what it found, one candidate after the other.
IsListed(l, root, disk) ==
    \E i \in DOMAIN l : l[i].root = root \/ claimsSubmoduleAt(l[i], root, disk)
Adding(l, candidate, disk) == IF IsListed(l, candidate.root, disk) THEN l ELSE Append(l, candidate)

\* recordFound's recursion: f[k] is the list with the first k candidates.
Merges(f, list, found, disk, n) ==
    f = [k \in 0..n |-> IF k = 0 THEN list ELSE Adding(f[k-1], found[k], disk)]

LEMMA AddingKeeps ==
    ASSUME NEW l \in Lists, NEW candidate \in Entry, NEW disk
    PROVE  /\ Adding(l, candidate, disk) \in Lists
           /\ \A e : Contains(l, e) => Contains(Adding(l, candidate, disk), e)
           /\ \A e : Contains(Adding(l, candidate, disk), e) =>
                        \/ Contains(l, e)
                        \/ e = candidate /\ \A f : Contains(l, f) => ~claimsSubmoduleAt(f, e.root, disk)
<1>1. Len(l) \in Nat /\ DOMAIN l = 1..Len(l) /\ l \in Seq(Entry)
  BY ListShape DEF Lists
<1>2. CASE IsListed(l, candidate.root, disk)
  BY <1>2 DEF Adding
<1>3. CASE ~IsListed(l, candidate.root, disk)
  <2>1. PICK a : a = Append(l, candidate)
    OBVIOUS
  <2>2. /\ a \in Seq(Entry) /\ Len(a) = Len(l) + 1 /\ a[Len(l) + 1] = candidate
        /\ \A i \in 1..Len(l) : a[i] = l[i]
    BY <1>1, <2>1, AppendProperties
  <2>3. \A e : Contains(l, e) => Contains(a, e)
    <3>1. \A i \in 1..Len(l) : i \in 1..Len(a)
      BY <1>1, <2>2
    <3> QED
      BY <2>2, <3>1 DEF Contains
  <2>4. \A e : Contains(a, e) => Contains(l, e) \/ e = candidate
    <3>1. \A i \in 1..Len(a) : i \in 1..Len(l) \/ i = Len(l) + 1
      BY <1>1, <2>2
    <3> QED
      BY <2>2, <3>1 DEF Contains
  <2>5. \A f : Contains(l, f) => ~claimsSubmoduleAt(f, candidate.root, disk)
    BY <1>1, <1>3 DEF IsListed, Contains
  <2>6. Adding(l, candidate, disk) = a
    BY <1>3, <2>1 DEF Adding
  <2> QED
    BY <2>2, <2>3, <2>4, <2>5, <2>6 DEF Lists
<1> QED
  BY <1>2, <1>3

LEMMA MergesExist ==
    ASSUME NEW list \in Lists, NEW found \in Lists, NEW disk, NEW n, n = Len(found)
    PROVE  \E f \in [0..n -> Lists] : Merges(f, list, found, disk, n)
<1> DEFINE Has(m) == \E f \in [0..m -> Lists] : Merges(f, list, found, disk, m)
           S == {m \in 0..n : Has(m)}
<1>1. n \in Nat /\ \A k \in 1..n : found[k] \in Entry
  BY ListShape
<1>2. Has(0)
  <2>1. PICK f : f = [k \in 0..0 |-> list]
    OBVIOUS
  <2>2. f \in [0..0 -> Lists] /\ \A k \in 0..0 : f[k] = list /\ k = 0
    BY <2>1
  <2>3. f = [k \in 0..0 |-> IF k = 0 THEN list ELSE Adding(f[k-1], found[k], disk)]
    BY <2>1
  <2> QED
    BY <2>2, <2>3 DEF Merges
<1>3. ASSUME NEW m \in 0..n, m < n, Has(m) PROVE Has(m + 1)
  <2>1. PICK f \in [0..m -> Lists] : Merges(f, list, found, disk, m)
    BY <1>3
  <2>2. PICK last : last = Adding(f[m], found[m+1], disk)
    OBVIOUS
  <2>3. PICK g : g = [k \in 0..(m+1) |-> IF k <= m THEN f[k] ELSE last]
    OBVIOUS
  <2>4. m + 1 \in 1..n /\ f[m] \in Lists
    BY <1>1, <1>3
  <2>5. last \in Lists
    BY <1>1, <2>2, <2>4, AddingKeeps
  <2>6. g \in [0..(m+1) -> Lists] /\ g[m+1] = last /\ \A k \in 0..m : g[k] = f[k]
    BY <2>3, <2>5
  <2>7. \A k \in 0..m : f[k] = IF k = 0 THEN list ELSE Adding(f[k-1], found[k], disk)
    BY <2>1 DEF Merges
  <2>8. \A k \in 0..(m+1) : g[k] = IF k = 0 THEN list ELSE Adding(g[k-1], found[k], disk)
    <3> SUFFICES ASSUME NEW k \in 0..(m+1) PROVE g[k] = IF k = 0 THEN list ELSE Adding(g[k-1], found[k], disk)
      OBVIOUS
    <3>1. CASE k = m + 1
      <4>1. k # 0 /\ k - 1 = m /\ m \in 0..m
        BY <3>1
      <4>2. g[k-1] = f[m] /\ g[k] = last
        BY <2>6, <3>1, <4>1
      <4> QED
        BY <2>2, <3>1, <4>1, <4>2
    <3>2. CASE k # m + 1
      <4>1. k \in 0..m /\ (k # 0 => k - 1 \in 0..m)
        BY <3>2
      <4>2. g[k] = f[k] /\ (k # 0 => g[k-1] = f[k-1])
        BY <2>6, <4>1
      <4> QED
        BY <2>7, <4>1, <4>2
    <3> QED
      BY <3>1, <3>2
  <2>9. g = [k \in 0..(m+1) |-> g[k]]
    BY <2>6
  <2>10. g = [k \in 0..(m+1) |-> IF k = 0 THEN list ELSE Adding(g[k-1], found[k], disk)]
    BY <2>8, <2>9
  <2> QED
    BY <2>6, <2>10 DEF Merges
<1> HIDE DEF Has
<1>4. 0 \in S /\ \A m \in 0..n : m < n /\ m \in S => m + 1 \in S
  BY <1>1, <1>2, <1>3
<1>5. n \in S
  <2> HIDE DEF S
  <2>1. \A m \in 0..n : m \in S
    BY <1>1, <1>4, InductUpTo
  <2> QED
    BY <1>1, <2>1
<1> QED
  BY <1>5 DEF Has

LEMMA MergesKeep ==
    ASSUME NEW list \in Lists, NEW found \in Lists, NEW disk, NEW n, n = Len(found),
           NEW f, Merges(f, list, found, disk, n)
    PROVE  /\ f[n] \in Lists
           /\ \A e : Contains(list, e) => Contains(f[n], e)
           /\ JoinsAlone(list, f[n], disk)
<1> DEFINE Good(l) == l \in Lists /\ (\A e : Contains(list, e) => Contains(l, e)) /\ JoinsAlone(list, l, disk)
           S == {m \in 0..n : Good(f[m])}
<1>1. n \in Nat /\ \A k \in 1..n : found[k] \in Entry
  BY ListShape
<1>2. \A k \in 0..n : f[k] = IF k = 0 THEN list ELSE Adding(f[k-1], found[k], disk)
  BY DEF Merges
<1>3. Good(f[0])
  <2>1. f[0] = list
    BY <1>1, <1>2
  <2> QED
    BY <2>1 DEF JoinsAlone
<1>4. ASSUME NEW m \in 0..n, m < n, Good(f[m]) PROVE Good(f[m+1])
  <2>1. PICK l : l = f[m]
    OBVIOUS
  <2>2. PICK next : next = f[m+1]
    OBVIOUS
  <2>3. m + 1 \in 0..n /\ m + 1 \in 1..n /\ m + 1 # 0 /\ (m + 1) - 1 = m
    BY <1>1, <1>4
  <2>4. next = Adding(l, found[m+1], disk) /\ found[m+1] \in Entry
    BY <1>1, <1>2, <2>1, <2>2, <2>3
  <2>5. l \in Lists /\ (\A e : Contains(list, e) => Contains(l, e)) /\ JoinsAlone(list, l, disk)
    BY <1>4, <2>1
  <2>6. /\ next \in Lists
        /\ \A e : Contains(l, e) => Contains(next, e)
        /\ \A e : Contains(next, e) =>
                    \/ Contains(l, e)
                    \/ \A g : Contains(l, g) => ~claimsSubmoduleAt(g, e.root, disk)
    BY <2>4, <2>5, AddingKeeps
  <2>7. JoinsAlone(list, next, disk)
    BY <2>5, <2>6 DEF JoinsAlone
  <2> QED
    BY <2>2, <2>5, <2>6, <2>7
<1> HIDE DEF Good
<1>5. 0 \in S /\ \A m \in 0..n : m < n /\ m \in S => m + 1 \in S
  BY <1>1, <1>3, <1>4
<1>6. n \in S
  <2> HIDE DEF S
  <2>1. \A m \in 0..n : m \in S
    BY <1>1, <1>5, InductUpTo
  <2> QED
    BY <1>1, <2>1
<1> QED
  BY <1>6 DEF Good

LEMMA FoundKeeps ==
    ASSUME NEW list \in Lists, NEW found \in Lists, NEW disk
    PROVE  /\ recordFound(list, found, disk) \in Lists
           /\ LosesNone(list, recordFound(list, found, disk))
           /\ JoinsAlone(list, recordFound(list, found, disk), disk)
<1> DEFINE f == CHOOSE g : Merges(g, list, found, disk, Len(found))
<1>2. recordFound(list, found, disk) = IF f[Len(found)] = list THEN list ELSE capped(sortByLastUsed(f[Len(found)]))
  BY Zenon DEF recordFound, Merges, Adding, IsListed
<1>1. PICK n : n = Len(found)
  OBVIOUS
<1>3. Merges(f, list, found, disk, n)
  BY <1>1, MergesExist
<1> HIDE DEF f
<1>4. PICK all : all = f[n]
  OBVIOUS
<1>5. /\ all \in Lists /\ JoinsAlone(list, all, disk)
      /\ \A e : Contains(list, e) => Contains(all, e)
  BY <1>1, <1>3, <1>4, MergesKeep
<1>6. PICK next : next = recordFound(list, found, disk)
  OBVIOUS
<1>7. next = IF all = list THEN list ELSE capped(sortByLastUsed(all))
  BY <1>1, <1>2, <1>4, <1>6
<1>8. CASE all = list
  <2>1. next = list
    BY <1>7, <1>8
  <2> QED
    BY <1>6, <2>1 DEF LosesNone, JoinsAlone
<1>9. CASE all # list
  <2>1. PICK sorted : sorted = sortByLastUsed(all)
    OBVIOUS
  <2>2. sorted \in Lists /\ \A e : Contains(sorted, e) <=> Contains(all, e)
    BY <1>5, <2>1, SortedKeeps
  <2>3. /\ next \in Lists /\ \A e : Contains(next, e) => Contains(sorted, e)
        /\ Len(next) = MaxRecent \/ next = sorted
    BY <1>7, <1>9, <2>1, <2>2, CappedKeeps
  <2>4. LosesNone(list, next)
    BY <1>5, <2>2, <2>3 DEF LosesNone, HasDirectory
  <2>5. JoinsAlone(list, next, disk)
    BY <1>5, <2>2, <2>3 DEF JoinsAlone
  <2> QED
    BY <1>6, <2>3, <2>4, <2>5
<1> QED
  BY <1>8, <1>9

LEMMA WithoutKeeps ==
    ASSUME NEW list \in Lists, NEW roots
    PROVE  /\ without(list, roots) \in Lists
           /\ \A e : Contains(without(list, roots), e) <=> Contains(list, e) /\ e.root \notin roots
<1> DEFINE Kept(e) == Contains(list, e) /\ e.root \notin roots
           Q == {sq \in Lists : \A e : Contains(sq, e) => Kept(e)}
<1>1. PICK n : n = Len(list)
  OBVIOUS
<1>2. n \in Nat /\ DOMAIN list = 1..n /\ \A k \in 1..n : list[k] \in Entry
  BY <1>1, ListShape
<1>3. PICK ss : ss = [k \in 1..n |-> IF list[k].root \in roots THEN <<>> ELSE <<list[k]>>]
  OBVIOUS
<1>4. without(list, roots) = FlattenSeq(ss)
  BY <1>2, <1>3 DEF without
<1>5. \A k \in 1..n : Contains(list, list[k])
  BY <1>1 DEF Contains
<1>6. <<>> \in Lists /\ \A e : ~Contains(<<>>, e)
  BY DEF Lists, Contains
<1>7. \A x \in Entry : <<x>> \in Lists /\ \A e : Contains(<<x>>, e) <=> e = x
  BY DEF Lists, Contains
<1> HIDE DEF Kept
<1>8. Q \in SUBSET Seq(Entry) /\ <<>> \in Q
  BY <1>6 DEF Lists
<1>9. \A a, b \in Q : a \o b \in Q
  <2> SUFFICES ASSUME NEW a \in Q, NEW b \in Q PROVE a \o b \in Q
    OBVIOUS
  <2>1. a \in Seq(Entry) /\ b \in Seq(Entry)
    BY DEF Lists
  <2>2. \A e : Contains(a \o b, e) <=> Contains(a, e) \/ Contains(b, e)
    BY <2>1, HasConcat
  <2>3. a \o b \in Seq(Entry)
    BY <2>1, ConcatProperties
  <2> QED
    BY <2>2, <2>3 DEF Lists
<1>10. \A k \in 1..n : ss[k] \in Q
  <2> SUFFICES ASSUME NEW k \in 1..n PROVE ss[k] \in Q
    OBVIOUS
  <2>1. CASE list[k].root \in roots
    BY <1>3, <1>8, <2>1
  <2>2. CASE list[k].root \notin roots
    <3>1. ss[k] = <<list[k]>>
      BY <1>3, <2>2
    <3>2. Kept(list[k])
      BY <1>5, <2>2 DEF Kept
    <3> QED
      BY <1>2, <1>7, <3>1, <3>2
  <2> QED
    BY <2>1, <2>2
<1>11. ss \in [1..n -> Q]
  BY <1>3, <1>10
<1>12. FlattenSeq(ss) \in Q
  <2> HIDE DEF Q
  <2> QED
    BY <1>2, <1>8, <1>9, <1>11, FlattenWithin
<1>13. ASSUME NEW e, Kept(e) PROVE Contains(FlattenSeq(ss), e)
  <2>1. PICK k \in 1..n : list[k] = e
    BY <1>1, <1>13 DEF Kept, Contains
  <2>2. e.root \notin roots
    BY <1>13 DEF Kept
  <2>3. ss[k] = <<e>> /\ e \in Entry
    BY <1>2, <1>3, <2>1, <2>2
  <2>4. Contains(ss[k], e)
    BY <1>7, <2>3
  <2>5. ss \in [1..n -> Seq(Entry)]
    BY <1>8, <1>11
  <2> QED
    BY <1>2, <2>4, <2>5, FlattenHas
<1> QED
  BY <1>4, <1>12, <1>13 DEF Kept

LEMMA SubmodulesKeep ==
    ASSUME NEW list \in Lists, NEW root, NEW submodules \in SUBSET Paths, NEW disk
    PROVE  /\ setSubmodules(list, root, submodules) \in Lists
           /\ LosesNone(list, setSubmodules(list, root, submodules))
           /\ JoinsAlone(list, setSubmodules(list, root, submodules), disk)
<1> DEFINE Rooted == {i \in 1..Len(list) : list[i].root = root}
<1>1. Len(list) \in Nat /\ \A k \in 1..Len(list) : list[k] \in Entry
  BY ListShape
<1>2. PICK where : where = SelectInSeq(list, LAMBDA e : e.root = root)
  OBVIOUS
<1>3. IF Rooted # {} THEN where \in Rooted ELSE where = 0
  <2>1. where = IF Rooted # {} THEN Min(Rooted) ELSE 0
    BY <1>2 DEF SelectInSeq
  <2>2. Rooted \in SUBSET (1..Len(list))
    OBVIOUS
  <2> HIDE DEF Rooted
  <2> QED
    BY <1>1, <2>1, <2>2, FirstSelected
<1>4. PICK next : next = setSubmodules(list, root, submodules)
  OBVIOUS
<1>5. CASE where = 0
  <2>1. next = list
    BY <1>2, <1>4, <1>5 DEF setSubmodules
  <2> QED
    BY <1>4, <2>1 DEF LosesNone, JoinsAlone
<1>6. CASE where # 0
  <2>1. where \in 1..Len(list) /\ list[where].root = root
    BY <1>3, <1>6
  <2>2. PICK e0 : e0 = list[where]
    OBVIOUS
  <2>3. PICK parent : parent = [e0 EXCEPT !.submodules = submodules]
    OBVIOUS
  <2>4. parent \in Entry /\ parent.root = root /\ root \in Roots
    BY <1>1, <2>1, <2>2, <2>3 DEF Entry
  <2>5. PICK changed : changed = [list EXCEPT ![where] = parent]
    OBVIOUS
  <2>6. /\ changed \in Lists /\ Len(changed) = Len(list) /\ changed[where] = parent
        /\ \A k \in 1..Len(list) : k # where => changed[k] = list[k]
    <3>1. list \in [1..Len(list) -> Entry]
      BY <1>1 DEF Lists
    <3>2. changed \in [1..Len(list) -> Entry] /\ changed[where] = parent
          /\ \A k \in 1..Len(list) : k # where => changed[k] = list[k]
      BY <2>1, <2>4, <2>5, <3>1
    <3> QED
      BY <1>1, <3>2 DEF Lists
  <2>7. PICK dropped : dropped = submoduleRoots(parent) \ {root}
    OBVIOUS
  <2>8. next = without(changed, dropped)
    BY <1>2, <1>4, <1>6, <2>2, <2>3, <2>5, <2>7 DEF setSubmodules
  <2>9. next \in Lists /\ \A e : Contains(next, e) <=> Contains(changed, e) /\ e.root \notin dropped
    BY <2>6, <2>8, WithoutKeeps
  <2>10. Contains(next, parent)
    <3>1. Contains(changed, parent)
      BY <2>1, <2>6 DEF Contains
    <3> QED
      BY <2>4, <2>7, <2>9, <3>1
  <2>11. ASSUME NEW d, HasDirectory(list, d)
         PROVE  \/ HasDirectory(next, d)
                \/ \E e, r : r \in Roots /\ Contains(next, e) /\ Directory[r] = d /\ r \in submoduleRoots(e)
    <3>1. PICK k \in 1..Len(list) : Directory[list[k].root] = d
      BY <2>11 DEF HasDirectory, Contains
    <3>2. CASE list[k].root \in dropped
      <4>1. list[k].root \in submoduleRoots(parent) /\ list[k].root \in Roots
        BY <1>1, <2>7, <3>2 DEF Entry
      <4> QED
        BY <2>10, <3>1, <4>1
    <3>3. CASE list[k].root \notin dropped /\ k # where
      <4>1. Contains(changed, list[k])
        BY <2>6, <3>3 DEF Contains
      <4>2. Contains(next, list[k])
        BY <2>9, <3>3, <4>1
      <4> QED
        BY <3>1, <4>2 DEF HasDirectory
    <3>4. CASE k = where
      BY <2>1, <2>4, <2>10, <3>1, <3>4 DEF HasDirectory
    <3> QED
      BY <3>2, <3>3, <3>4
  <2>12. ASSUME NEW e, Contains(next, e) PROVE \E f : Contains(list, f) /\ f.root = e.root
    <3>1. PICK k \in 1..Len(list) : changed[k] = e
      BY <2>6, <2>9, <2>12 DEF Contains
    <3>2. Contains(list, list[k])
      BY DEF Contains
    <3>3. list[k].root = e.root
      BY <2>1, <2>4, <2>6, <3>1
    <3> QED
      BY <3>2, <3>3
  <2> QED
    BY <1>4, <2>9, <2>11, <2>12 DEF LosesNone, JoinsAlone
<1> QED
  BY <1>5, <1>6

\* Only the entry asked for is forgotten.
LEMMA ForgetKeeps ==
    ASSUME NEW list \in Lists, NEW root, NEW disk
    PROVE  /\ forget(list, root) \in Lists
           /\ \A e : Contains(forget(list, root), e) => Contains(list, e)
           /\ \A e : Contains(list, e) /\ e.root # root => Contains(forget(list, root), e)
<1> DEFINE Rooted == {i \in 1..Len(list) : list[i].root = root}
<1>1. Len(list) \in Nat /\ \A k \in 1..Len(list) : list[k] \in Entry
  BY ListShape
<1>2. PICK where : where = SelectInSeq(list, LAMBDA e : e.root = root)
  OBVIOUS
<1>3. IF Rooted # {} THEN where \in Rooted ELSE where = 0
  <2>1. where = IF Rooted # {} THEN Min(Rooted) ELSE 0
    BY <1>2 DEF SelectInSeq
  <2>2. Rooted \in SUBSET (1..Len(list))
    OBVIOUS
  <2> HIDE DEF Rooted
  <2> QED
    BY <1>1, <2>1, <2>2, FirstSelected
<1>4. PICK next : next = forget(list, root)
  OBVIOUS
<1>5. CASE where = 0
  <2>1. next = list
    BY <1>2, <1>4, <1>5 DEF forget
  <2> QED
    BY <1>4, <2>1
<1>6. CASE where # 0
  <2>1. where \in 1..Len(list) /\ list[where].root = root
    BY <1>3, <1>6
  <2>2. next = RemoveAt(list, where)
    BY <1>2, <1>4, <1>6 DEF forget
  <2>3. /\ next \in Lists
        /\ \A k \in 1..Len(list) : k # where => Contains(next, list[k])
        /\ \A e : Contains(next, e) => Contains(list, e)
    BY <2>1, <2>2, RemovedKeeps
  <2>4. \A e : Contains(list, e) /\ e.root # root => Contains(next, e)
    BY <2>1, <2>3 DEF Contains
  <2> QED
    BY <1>4, <2>3, <2>4
<1> QED
  BY <1>5, <1>6

-------------------------------------------------------------------------------
(* One instance of the program: what an operation read is what is stored     *)
(* when it writes.                                                           *)

\* An operation under way, of what it read.
Under(c, list) ==
    /\ c.seen = list
    /\ \/ c.op = "open" /\ c.root \in Roots
       \/ c.op = "found" /\ c.found \in Lists
       \/ c.op = "submodules" /\ c.submodules \in SUBSET Paths
       \/ c.op = "forget"
       \/ c.op = "forgetAll"

ListInv ==
    /\ stored \in Lists /\ now \in Nat
    /\ DOMAIN doing = Instances /\ DOMAIN scanning = Instances
    /\ \A i \in Instances : /\ doing[i] = NoChange \/ Under(doing[i], stored)
                            /\ scanning[i].found \in Lists

\* What the two action properties say of a step.
RemovalAsked ==
    \A d \in Range(Directory) :
       Listed(stored, d) /\ ~Listed(stored', d) =>
          \/ \E i \in Instances : doing[i].op = "forgetAll" /\ stored' = <<>>
          \/ \E i \in Instances : doing[i].op = "forget" /\ Directory[doing[i].root] = d
          \/ Len(stored') = MaxRecent
          \/ \E k \in DOMAIN stored', r \in Roots :
                Directory[r] = d /\ r \in submoduleRoots(stored'[k])

JoinsInTheOpen ==
    \A r \in rootsOf(stored') \ rootsOf(stored) :
       \A k \in DOMAIN stored : ~claimsSubmoduleAt(stored[k], r, onDisk)

\* The list an operation makes of the one it read.
LEMMA NextListKeeps ==
    ASSUME NEW list \in Lists, NEW c, Under(c, list), now \in Nat
    PROVE  /\ NextList(c) \in Lists
           /\ JoinsAlone(list, NextList(c), onDisk)
           /\ \/ LosesNone(list, NextList(c))
              \/ c.op = "forgetAll" /\ NextList(c) = <<>>
              \/ c.op = "forget" /\ \A e : Contains(list, e) /\ e.root # c.root => Contains(NextList(c), e)
<1>1. PICK next : next = NextList(c)
  OBVIOUS
<1>2. c.seen = list
  BY DEF Under
<1>3. CASE c.op = "open"
  <2>1. next = recordOpen(list, c.root, now + 1, onDisk) /\ c.root \in Roots /\ now + 1 \in Nat
    BY <1>1, <1>2, <1>3 DEF NextList, Under
  <2> QED
    BY <1>1, <2>1, OpenKeeps
<1>4. CASE c.op = "found"
  <2>1. next = recordFound(list, c.found, onDisk) /\ c.found \in Lists
    BY <1>1, <1>2, <1>4 DEF NextList, Under
  <2> QED
    BY <1>1, <2>1, FoundKeeps
<1>5. CASE c.op = "submodules"
  <2>1. next = setSubmodules(list, c.root, c.submodules) /\ c.submodules \in SUBSET Paths
    BY <1>1, <1>2, <1>5 DEF NextList, Under
  <2> QED
    BY <1>1, <2>1, SubmodulesKeep
<1>6. CASE c.op = "forget"
  <2>1. next = forget(list, c.root)
    BY <1>1, <1>2, <1>6 DEF NextList
  <2>2. /\ next \in Lists /\ \A e : Contains(next, e) => Contains(list, e)
        /\ \A e : Contains(list, e) /\ e.root # c.root => Contains(next, e)
    BY <2>1, ForgetKeeps
  <2> QED
    BY <1>1, <1>6, <2>2 DEF JoinsAlone
<1>7. CASE c.op = "forgetAll"
  <2>1. next = <<>>
    BY <1>1, <1>7 DEF NextList
  <2>2. next \in Lists /\ \A e : ~Contains(next, e)
    BY <2>1 DEF Lists, Contains
  <2> QED
    BY <1>1, <1>7, <2>1, <2>2 DEF JoinsAlone
<1> QED
  BY <1>3, <1>4, <1>5, <1>6, <1>7 DEF Under

LEMMA ListedIsHeld ==
    ASSUME NEW list \in Lists, NEW d
    PROVE  Listed(list, d) <=> HasDirectory(list, d)
<1>1. DOMAIN list = 1..Len(list)
  BY ListShape
<1> QED
  BY <1>1 DEF Listed, HasDirectory, Contains

\* A step of one of the operations on the list.
LEMMA ListSteps ==
    ASSUME NEW i \in Instances, ListInv, stored' \in Lists,
           JoinsAlone(stored, stored', onDisk),
           \/ LosesNone(stored, stored')
           \/ doing[i].op = "forgetAll" /\ stored' = <<>>
           \/ doing[i].op = "forget" /\ \A e : Contains(stored, e) /\ e.root # doing[i].root => Contains(stored', e)
    PROVE  RemovalAsked /\ JoinsInTheOpen
<1>1. PICK list : list = stored
  OBVIOUS
<1>2. PICK next : next = stored'
  OBVIOUS
<1>3. list \in Lists /\ next \in Lists /\ DOMAIN list = 1..Len(list) /\ DOMAIN next = 1..Len(next)
  BY <1>1, <1>2, ListShape DEF ListInv
<1>4. ASSUME NEW d \in Range(Directory), Listed(list, d), ~Listed(next, d)
      PROVE  \/ \E j \in Instances : doing[j].op = "forgetAll" /\ next = <<>>
             \/ \E j \in Instances : doing[j].op = "forget" /\ Directory[doing[j].root] = d
             \/ Len(next) = MaxRecent
             \/ \E k \in DOMAIN next, r \in Roots : Directory[r] = d /\ r \in submoduleRoots(next[k])
  <2>1. HasDirectory(list, d) /\ ~HasDirectory(next, d)
    BY <1>3, <1>4, ListedIsHeld
  <2>2. CASE LosesNone(list, next)
    <3>1. Len(next) = MaxRecent \/ \E e, r : r \in Roots /\ Contains(next, e) /\ Directory[r] = d /\ r \in submoduleRoots(e)
      BY <2>1, <2>2 DEF LosesNone
    <3> QED
      BY <1>3, <3>1 DEF Contains
  <2>3. CASE doing[i].op = "forgetAll" /\ next = <<>>
    BY <2>3
  <2>4. CASE doing[i].op = "forget" /\ \A e : Contains(list, e) /\ e.root # doing[i].root => Contains(next, e)
    BY <2>1, <2>4 DEF HasDirectory
  <2> QED
    BY <1>1, <1>2, <2>2, <2>3, <2>4
<1>5. ASSUME NEW r \in rootsOf(next), r \notin rootsOf(list), NEW k \in DOMAIN list
      PROVE  ~claimsSubmoduleAt(list[k], r, onDisk)
  <2>1. PICK m \in 1..Len(next) : next[m].root = r
    BY <1>3, <1>5 DEF rootsOf
  <2>2. Contains(next, next[m]) /\ Contains(list, list[k])
    BY <1>3, <1>5 DEF Contains
  <2>3. \A f : Contains(list, f) => f.root # r
    BY <1>3, <1>5 DEF rootsOf, Contains
  <2> QED
    BY <1>1, <1>2, <2>1, <2>2, <2>3 DEF JoinsAlone
<1> QED
  BY <1>1, <1>2, <1>4, <1>5 DEF RemovalAsked, JoinsInTheOpen

LEMMA SaveWrites ==
    ASSUME NEW one, Instances = {one}, ListInv, save(one)
    PROVE  ListInv' /\ RemovalAsked /\ JoinsInTheOpen
<1>1. PICK c : c = doing[one]
  OBVIOUS
<1>2. Under(c, stored) /\ stored \in Lists /\ now \in Nat
  BY <1>1 DEF ListInv, save, Idle
<1>3. PICK next : next = NextList(c)
  OBVIOUS
<1>4. /\ next \in Lists /\ JoinsAlone(stored, next, onDisk)
      /\ \/ LosesNone(stored, next)
         \/ c.op = "forgetAll" /\ next = <<>>
         \/ c.op = "forget" /\ \A e : Contains(stored, e) /\ e.root # c.root => Contains(next, e)
  BY <1>2, <1>3, NextListKeeps
<1>5. stored' = next \/ stored' = stored
  BY <1>1, <1>3 DEF save
<1>6. stored' \in Lists /\ RemovalAsked /\ JoinsInTheOpen
  <2>1. CASE stored' = next
    <3>1. one \in Instances
      OBVIOUS
    <3> QED
      BY <1>1, <1>4, <2>1, <3>1, ListSteps
  <2>2. CASE stored' = stored
    BY <1>2, <2>2 DEF RemovalAsked, JoinsInTheOpen
  <2> QED
    BY <1>5, <2>1, <2>2
<1>7. now' \in Nat
  <2>1. now' = now + 1 \/ now' = now
    BY DEF save
  <2> QED
    BY <1>2, <2>1
<1>8. /\ DOMAIN doing' = Instances /\ doing'[one] = NoChange
      /\ DOMAIN scanning' = Instances /\ scanning'[one].found \in Lists
  <2>1. scanning' = scanning \/ scanning' = [scanning EXCEPT ![one] = NoScan]
    BY DEF save, ScanLoses
  <2>2. NoScan.found \in Lists
    BY DEF NoScan, Lists
  <2> QED
    BY <2>1, <2>2 DEF save, ListInv
<1>9. \A i \in Instances : i = one
  OBVIOUS
<1> QED
  BY <1>6, <1>7, <1>8, <1>9 DEF ListInv

\* An operation reads the list; a scan begins and ends.
LEMMA ReadingKeeps ==
    ASSUME ListInv, UNCHANGED <<stored, now>>, NEW i \in Instances,
           \/ UNCHANGED doing
           \/ \E c : Under(c, stored) /\ doing' = [doing EXCEPT ![i] = c],
           \/ UNCHANGED scanning
           \/ \E s : s.found \in Lists /\ scanning' = [scanning EXCEPT ![i] = s]
    PROVE  ListInv'
<1>1. DOMAIN doing' = Instances /\ \A j \in Instances : doing'[j] = NoChange \/ Under(doing'[j], stored)
  BY DEF ListInv
<1>2. DOMAIN scanning' = Instances /\ \A j \in Instances : scanning'[j].found \in Lists
  BY DEF ListInv
<1> QED
  BY <1>1, <1>2 DEF ListInv, Under

LEMMA ListBeginnings ==
    ASSUME ListInv, NEW i \in Instances, NEW r,
           \/ r \in Roots /\ (openRepositoryWindowAt(i, r) \/ openNestedRepositoryWindow(i, r))
           \/ RemoveFromList(i) \/ clearRecentRepositories(i)
           \/ ScanAnswers(i) \/ Refreshed(i, r) \/ scanFolderForRepositories(i) \/ CloseCommitWindow(i)
    PROVE  ListInv' /\ stored' = stored
<1>1. UNCHANGED <<stored, now>>
  BY DEF openRepositoryWindowAt, openNestedRepositoryWindow, RemoveFromList, clearRecentRepositories, ScanAnswers,
         Refreshed, scanFolderForRepositories, CloseCommitWindow, listVars
<1>2. ASSUME NEW c, Under(c, stored), doing' = [doing EXCEPT ![i] = c], UNCHANGED scanning
      PROVE  ListInv'
  BY <1>1, <1>2, ReadingKeeps
<1>3. CASE r \in Roots /\ openRepositoryWindowAt(i, r)
  <2>1. PICK c : c = [op |-> "open", seen |-> stored, root |-> Canonical[r]]
    OBVIOUS
  <2>2. Under(c, stored)
    BY <1>3, <2>1, AppAssumption DEF Under
  <2>3. doing' = [doing EXCEPT ![i] = c] /\ UNCHANGED scanning
    BY <1>3, <2>1 DEF openRepositoryWindowAt, Begins
  <2> QED
    BY <1>1, <1>2, <2>2, <2>3
<1>4. CASE RemoveFromList(i)
  <2>1. PICK c : c = [op |-> "forget", seen |-> stored, root |-> modal[i].root]
    OBVIOUS
  <2>2. Under(c, stored)
    BY <2>1 DEF Under
  <2>3. doing' = [doing EXCEPT ![i] = c] /\ UNCHANGED scanning
    BY <1>4, <2>1 DEF RemoveFromList, Begins
  <2> QED
    BY <1>1, <1>2, <2>2, <2>3
<1>5. CASE clearRecentRepositories(i)
  <2>1. PICK c : c = [op |-> "forgetAll", seen |-> stored]
    OBVIOUS
  <2>2. Under(c, stored)
    BY <2>1 DEF Under
  <2>3. doing' = [doing EXCEPT ![i] = c] /\ UNCHANGED scanning
    BY <1>5, <2>1 DEF clearRecentRepositories, Begins
  <2> QED
    BY <1>1, <1>2, <2>2, <2>3
<1>6. CASE ScanAnswers(i)
  <2>1. PICK c : c = [op |-> "found", seen |-> stored, found |-> scanning[i].found]
    OBVIOUS
  <2>2. Under(c, stored)
    BY <2>1 DEF Under, ListInv
  <2>3. UNCHANGED doing \/ doing' = [doing EXCEPT ![i] = c]
    BY <1>6, <2>1 DEF ScanAnswers, Begins
  <2>4. NoScan.found \in Lists
    BY DEF NoScan, Lists
  <2>5. scanning' = [scanning EXCEPT ![i] = NoScan]
    BY <1>6 DEF ScanAnswers
  <2> QED
    BY <1>1, <2>2, <2>3, <2>4, <2>5, ReadingKeeps
<1>7. CASE Refreshed(i, r)
  <2>1. PICK submodules \in SUBSET Nested(r) :
           Begins(i, [op |-> "submodules", seen |-> stored, root |-> r, submodules |-> submodules])
    BY <1>7 DEF Refreshed
  <2>2. PICK c : c = [op |-> "submodules", seen |-> stored, root |-> r, submodules |-> submodules]
    OBVIOUS
  <2>3. Under(c, stored)
    BY <2>2 DEF Under, Nested
  <2>4. doing' = [doing EXCEPT ![i] = c] /\ UNCHANGED scanning
    BY <1>7, <2>1, <2>2 DEF Begins, Refreshed
  <2> QED
    BY <1>1, <1>2, <2>3, <2>4
<1>8. CASE scanFolderForRepositories(i)
  <2>1. PICK s : s.found \in Founds /\ scanning' = [scanning EXCEPT ![i] = s]
    <3>1. \E found \in Founds, by \in windows[i] \cup {Welcome} :
             scanning' = [scanning EXCEPT ![i] = [found |-> found, by |-> by]]
      BY <1>8 DEF scanFolderForRepositories
    <3> QED
      BY <3>1
  <2>2. s.found \in Lists
    BY <2>1, AppAssumption DEF Lists
  <2>4. UNCHANGED doing
    BY <1>8 DEF scanFolderForRepositories, listVars
  <2> QED
    BY <1>1, <2>1, <2>2, <2>4, ReadingKeeps
<1>9. CASE r \in Roots /\ openNestedRepositoryWindow(i, r)
  <2>1. PICK c : c = [op |-> "open", seen |-> stored, root |-> r]
    OBVIOUS
  <2>2. Under(c, stored)
    BY <1>9, <2>1 DEF Under
  <2>3. doing' = [doing EXCEPT ![i] = c] /\ UNCHANGED scanning
    BY <1>9, <2>1 DEF openNestedRepositoryWindow, Begins
  <2> QED
    BY <1>1, <1>2, <2>2, <2>3
<1>10. CASE CloseCommitWindow(i)
  <2>1. NoScan.found \in Lists
    BY DEF NoScan, Lists
  <2>2. UNCHANGED doing /\ (UNCHANGED scanning \/ scanning' = [scanning EXCEPT ![i] = NoScan])
    BY <1>10 DEF CloseCommitWindow, ScanLoses, listVars
  <2> QED
    BY <1>1, <2>1, <2>2, ReadingKeeps
<1> QED
  BY <1>1, <1>3, <1>4, <1>5, <1>6, <1>7, <1>8, <1>9, <1>10

LEMMA ListStep ==
    ASSUME NEW one, Instances = {one}, ListInv, [AppNext]_appVars
    PROVE  ListInv' /\ ((RemovalAsked /\ JoinsInTheOpen) \/ UNCHANGED appVars)
<1>1. CASE save(one)
  BY <1>1, SaveWrites
<1>2. CASE UNCHANGED <<stored, now, doing, scanning>>
  BY <1>2 DEF ListInv, Under, RemovalAsked, JoinsInTheOpen
<1>3. ASSUME NEW i \in Instances, NEW r,
             \/ r \in Roots /\ (openRepositoryWindowAt(i, r) \/ openNestedRepositoryWindow(i, r))
             \/ RemoveFromList(i) \/ clearRecentRepositories(i)
             \/ ScanAnswers(i) \/ Refreshed(i, r) \/ scanFolderForRepositories(i) \/ CloseCommitWindow(i)
      PROVE  ListInv' /\ RemovalAsked /\ JoinsInTheOpen
  <2>1. ListInv' /\ stored' = stored
    BY <1>3, ListBeginnings
  <2> QED
    BY <2>1 DEF RemovalAsked, JoinsInTheOpen
<1>4. ASSUME NEW i \in Instances, NEW r \in Roots,
             openRecentRepository(i, r) \/ showContextMenu(i, r) \/ ToggleRow(i, r)
             \/ showRepositoryHistory(i, r) \/ BorrowSubmodule(i, r)
      PROVE  UNCHANGED <<stored, now, doing, scanning>>
  BY <1>4 DEF openRecentRepository, showContextMenu, ToggleRow, showRepositoryHistory, BorrowSubmodule, listVars
<1>5. ASSUME NEW i \in Instances, NEW f, setFilter(i, f)
      PROVE  UNCHANGED <<stored, now, doing, scanning>>
  BY <1>5 DEF setFilter, listVars
<1>6. ASSUME NEW i \in Instances,
             AskClear(i) \/ Dismiss(i) \/ setRepositoryExpanded(i) \/ showWelcomeWindow(i)
             \/ ReturnSubmodule(i) \/ CloseHistoryWindow(i)
      PROVE  UNCHANGED <<stored, now, doing, scanning>>
  BY <1>6 DEF AskClear, Dismiss, setRepositoryExpanded, showWelcomeWindow, ReturnSubmodule, CloseHistoryWindow, listVars
<1>7. ASSUME NEW d \in Removable, DiskChanges(d)
      PROVE  UNCHANGED <<stored, now, doing, scanning>>
  BY <1>7 DEF DiskChanges
<1>8. CASE UNCHANGED appVars
  BY <1>2, <1>8 DEF appVars, listVars
<1>9. \A i \in Instances : i = one
  OBVIOUS
<1> QED
  BY <1>1, <1>2, <1>3, <1>4, <1>5, <1>6, <1>7, <1>8, <1>9 DEF AppNext

(***************************************************************************)
(* ListKeepsItsEntries, of one instance of the program: whatever is opened,*)
(* scanned, refreshed, forgotten or cleared in whatever order, a directory *)
(* leaves the stored list only because it was asked to, because the list   *)
(* is full, or into a parent that declares it; and the submodule of a live *)
(* listed parent does not join.  With a second instance one writes over    *)
(* what the other wrote since it read.                                     *)
(***************************************************************************)
THEOREM ListStands ==
    ASSUME NEW one, Instances = {one}
    PROVE  AppSpec => ListKeepsItsEntries
<1>1. AppInit => ListInv
  <2> SUFFICES ASSUME AppInit PROVE ListInv
    OBVIOUS
  <2>1. stored \in Lists /\ now = Len(stored)
    BY AppAssumption DEF AppInit, Lists
  <2>2. now \in Nat
    BY <2>1, ListShape
  <2>3. NoScan.found \in Lists
    BY DEF NoScan, Lists
  <2>4. /\ DOMAIN doing = Instances /\ DOMAIN scanning = Instances
        /\ \A i \in Instances : doing[i] = NoChange /\ scanning[i] = NoScan
    BY DEF AppInit
  <2> QED
    BY <2>1, <2>2, <2>3, <2>4 DEF ListInv
<1>2. ListInv /\ [AppNext]_appVars => ListInv' /\ [RemovalAsked]_appVars /\ [JoinsInTheOpen]_appVars
  BY ListStep
<1>3. AppSpec => [][RemovalAsked]_appVars /\ [][JoinsInTheOpen]_appVars
  BY <1>1, <1>2, PTL DEF AppSpec
<1> QED
  BY <1>3 DEF ListKeepsItsEntries, OnlyAskedRemovals, SubmodulesStayInside, RemovalAsked, JoinsInTheOpen
===============================================================================
