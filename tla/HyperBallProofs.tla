-------------------------- MODULE HyperBallProofs ---------------------------
(***************************************************************************)
(* Theorems of HyperBall.  Whatever the mode of an iteration, estimators   *)
(* and sums are exact; as long as local iterations are systolic, so is the *)
(* neighborhood function.                                                  *)
(*                                                                         *)
(* The invariant follows the pending nodes of an iteration, those no       *)
(* thread has dealt with.  Threads hold disjoint chunks, which are not     *)
(* empty because the granularity stays positive, so that every node is     *)
(* dealt with once.  A node with a successor modified by the last          *)
(* iteration is on the list or has its bit set; every other node keeps its *)
(* estimator, and the other array holds it already, unless the node itself *)
(* was modified by the last iteration and is copied.                       *)
(***************************************************************************)
EXTENDS HyperBall, BaseLemmas

(* The positions of the nodes that no thread has dealt with yet: those not *)
(* handed out, and the rest of what each thread holds.                     *)
At(p) == IF ic.local THEN ic.checklist[p + 1] ELSE p
Held(w) == task[w].at .. task[w].end - 1
Waiting == (ic.cursor .. Limit - 1) \cup UNION {Held(w) : w \in Workers}
Pending == {At(p) : p \in Waiting}

(* What a node has seen after t iterations, and the increments up to t.    *)
Ball(t) == [u \in Nodes |-> Seen(u, t)]
Still(u, t) == Seen(u, t + 1) = Seen(u, t)
Increment(u, t) ==
  [distance |-> t, size |-> Cardinality(Seen(u, t) \ Seen(u, t - 1))]
SumsOf(s, u, t) ==
  /\ ToSet(s) =
       {Increment(u, d) : d \in {e \in 1 .. t : Seen(u, e) # Seen(u, e - 1)}}
  /\ IsInjective(s)
SumsUpTo(u, t) == SumsOf(spheres[u], u, t)

Tasks == [at : Nat, end : Nat, nf : Nat, modified : Nat, step : {"work", "out"}]
Contexts ==
  [iteration : Nat, current_nf : Nat, granularity : Nat, cursor : Nat,
   arc : Nat, modified : Nat, systolic : BOOLEAN, local : BOOLEAN,
   pre_local : BOOLEAN, checklist : Seq(Nodes), next_checklist : SUBSET Nodes,
   must_be_checked : SUBSET Nodes, next_must_be_checked : SUBSET Nodes,
   curr_modified : SUBSET Nodes, next_modified : SUBSET Nodes]

InputInv ==
  /\ \E i \in Inputs : graph = i.graph /\ items = i.items
  /\ has_transpose \in BOOLEAN
  /\ granularity \in Granularities

TypeInv ==
  /\ ic \in Contexts
  /\ task \in [Workers -> Tasks]
  /\ pc \in {"idle", "loop", "iterate"}
  /\ left \in Nat /\ runs \in Nat
  /\ last \in Nat
  /\ next_state = [u \in Nodes |-> next_state[u]]
  /\ spheres \in [Nodes -> Seq([distance : Nat, size : Nat])]
  /\ pc # "idle" => runs > 0 /\ ic.granularity > 0

(* What a thread takes.  A chunk begins where the last one ended, and it   *)
(* is not empty.                                                           *)
Aligned ==
  ~ic.local => ic.cursor = num_nodes \/ ic.arc = ArcsBefore(ic.cursor)

ClaimInv ==
  pc = "iterate" =>
    /\ ic.cursor <= Limit
    /\ \A w \in Workers : task[w].at <= task[w].end /\ task[w].end <= ic.cursor
    /\ \A w, v \in Workers : w # v => Held(w) \cap Held(v) = {}
    /\ \A w \in Workers :
         task[w].step = "out" => task[w] = NoTask /\ ic.cursor >= Limit
    /\ ic.local => IsInjective(ic.checklist)
    /\ Aligned

(* Modified nodes are counted once.                                        *)
CountInv ==
  /\ pc = "iterate" =>
       ic.modified + SumFunctionOnSet([w \in Workers |-> task[w].modified], Workers)
         = Cardinality(ic.next_modified)
  /\ pc = "loop" =>
       ic.modified <= num_nodes /\ (ic.iteration > 0 => ic.modified > 0)

(* What the bits and the list hold between iterations.                     *)
BitsInv ==
  pc # "idle" =>
    /\ \A u \in Nodes \ ic.curr_modified :
         ic.iteration > 0 /\ Still(u, ic.iteration - 1)
    /\ pc = "loop" =>
         /\ ic.iteration > 0 => next_state = Ball(ic.iteration - 1)
         /\ ic.systolic /\ ~ic.pre_local =>
              \A u \in ic.curr_modified : Preds(u) \subseteq ic.must_be_checked
         /\ ic.pre_local =>
              /\ ic.iteration > 0
              /\ \A u \in ic.curr_modified :
                   {u} \cup Preds(u) \subseteq ic.next_checklist
         /\ ic.local => ic.next_modified \subseteq ToSet(ic.checklist)
    /\ pc = "iterate" =>
         /\ ic.systolic => ic.iteration > 0
         /\ ic.systolic /\ ~ic.local =>
              \A u \in ic.curr_modified : Preds(u) \subseteq ic.must_be_checked
         /\ ic.local =>
              /\ ic.iteration > 0
              /\ \A u \in ic.curr_modified :
                   {u} \cup Preds(u) \subseteq ToSet(ic.checklist)

(* What an iteration has done so far.                                      *)
WorkInv ==
  pc = "iterate" =>
    /\ ic.next_modified \subseteq Nodes \ Pending
    /\ ic.iteration > 0 =>
         \A u \in Pending : next_state[u] = Seen(u, ic.iteration - 1)
    /\ \A u \in Nodes \ Pending :
         /\ next_state[u] = Seen(u, ic.iteration + 1)
         /\ u \notin ic.next_modified => Still(u, ic.iteration)
    /\ ic.systolic /\ ~ic.pre_local =>
         \A u \in ic.next_modified : Preds(u) \subseteq ic.next_must_be_checked
    /\ ic.pre_local =>
         \A u \in ic.next_modified : {u} \cup Preds(u) \subseteq ic.next_checklist

(* The estimators and the sums are exact.                                  *)
ExactInv ==
  /\ runs > 0 => curr_state = Ball(ic.iteration)
  /\ runs > 0 /\ pc # "iterate" => \A u \in Nodes : SumsUpTo(u, ic.iteration)
  /\ pc = "iterate" =>
       /\ \A u \in Pending : SumsUpTo(u, ic.iteration)
       /\ \A u \in Nodes \ Pending : SumsUpTo(u, ic.iteration + 1)

BallInv ==
  /\ InputInv /\ TypeInv /\ ClaimInv /\ CountInv /\ BitsInv /\ WorkInv /\ ExactInv
-----------------------------------------------------------------------------
(* Balls.  What a node meets within t + 1 steps is what it meets within t, *)
(* and what its successors do: the balls were defined by the last step,    *)
(* the code proceeds by the first.                                         *)

LEMMA ImageOfUnion ==
  ASSUME NEW g, NEW A, NEW K
  PROVE  Image(g, A \cup UNION K) = Image(g, A) \cup UNION {Image(g, C) : C \in K}
BY DEF Image

FirstStep(g, u, t) ==
  Balls(g, {u})[t + 1] =
    Balls(g, {u})[t] \cup UNION {Balls(g, {s})[t] : s \in g[u]}

LEMMA BallByFirstStep ==
  ASSUME NEW V, NEW g \in [V -> SUBSET V], NEW u \in V, NEW t \in Nat
  PROVE  FirstStep(g, u, t)
<1> DEFINE B(v) == Balls(g, {v})
           Later(d) == UNION {B(s)[d] : s \in g[u]}
           T == {d \in Nat : B(u)[d + 1] # B(u)[d] \cup Later(d)}
<1>1. ASSUME NEW v \in V
      PROVE  /\ B(v)[0] = {v}
             /\ \A d \in Nat : B(v)[d + 1] = B(v)[d] \cup Image(g, B(v)[d])
  BY BallsWiden
<1>2. g[u] \subseteq V
  OBVIOUS
<1> HIDE DEF B
<1> SUFFICES ASSUME T # {} PROVE FALSE
  BY DEF B, FirstStep
<1>3. Min(T) \in T /\ \A e \in T : Min(T) <= e
  BY MinOfNat
<1> DEFINE c == Min(T)
<1>4. c \in Nat /\ B(u)[c + 1] # B(u)[c] \cup Later(c)
  BY <1>3
<1>5. c # 0
  <2>1. B(u)[0 + 1] = {u} \cup g[u]
    BY <1>1 DEF Image
  <2>2. Later(0) = UNION {{s} : s \in g[u]}
    BY <1>1, <1>2
  <2>3. UNION {{s} : s \in g[u]} = g[u]
    OBVIOUS
  <2>4. B(u)[0 + 1] = B(u)[0] \cup Later(0)
    BY <1>1, <2>1, <2>2, <2>3
  <2> QED
    BY <1>4, <2>4
<1>6. c - 1 \in Nat /\ c - 1 \notin T
  <2> HIDE DEF T
  <2>1. c \in Nat \ {0} /\ \A e \in T : c <= e
    BY <1>3, <1>4, <1>5
  <2> HIDE DEF c
  <2> QED
    BY <2>1
<1> HIDE DEF c
<1>7. B(u)[c] = B(u)[c - 1] \cup Later(c - 1)
  BY <1>4, <1>6
<1>8. Image(g, B(u)[c]) =
        Image(g, B(u)[c - 1]) \cup UNION {Image(g, B(s)[c - 1]) : s \in g[u]}
  <2> DEFINE K == {B(s)[c - 1] : s \in g[u]}
  <2>0. Later(c - 1) = UNION K
    OBVIOUS
  <2>1. Image(g, B(u)[c]) = Image(g, B(u)[c - 1]) \cup UNION {Image(g, C) : C \in K}
    <3> HIDE DEF K, Later, T
    <3> QED
      BY <1>7, <2>0, ImageOfUnion
  <2>2. {Image(g, C) : C \in K} = {Image(g, B(s)[c - 1]) : s \in g[u]}
    OBVIOUS
  <2> QED
    BY <2>1, <2>2
<1>9. ASSUME NEW v \in V PROVE B(v)[c] = B(v)[c - 1] \cup Image(g, B(v)[c - 1])
  <2>1. (c - 1) + 1 = c
    BY <1>4
  <2> QED
    BY <1>1, <1>6, <2>1
<1>10. B(u)[c + 1] = B(u)[c] \cup Image(g, B(u)[c])
  BY <1>1, <1>4
<1>11. \A s \in g[u] : B(s)[c] = B(s)[c - 1] \cup Image(g, B(s)[c - 1])
  BY <1>2, <1>9
<1>12. Later(c) = Later(c - 1) \cup UNION {Image(g, B(s)[c - 1]) : s \in g[u]}
  BY <1>11
<1>13. B(u)[c] = B(u)[c - 1] \cup Image(g, B(u)[c - 1])
  BY <1>9
<1> HIDE DEF T
<1>14. B(u)[c + 1] = B(u)[c] \cup Later(c)
  <2> DEFINE J == UNION {Image(g, B(s)[c - 1]) : s \in g[u]}
  <2> HIDE DEF Later
  <2> HIDE DEF J
  <2>1. /\ B(u)[c + 1] = B(u)[c] \cup (Image(g, B(u)[c - 1]) \cup J)
        /\ Later(c) = Later(c - 1) \cup J
    BY <1>8, <1>10, <1>12 DEF J
  <2> QED
    BY <1>7, <1>13, <2>1
<1> QED
  BY <1>4, <1>14

(* A finite union of finite sets of items is finite.                       *)
LEMMA FewItems ==
  ASSUME NEW V, IsFiniteSet(V), NEW f, \A v \in V : IsFiniteSet(f[v])
  PROVE  IsFiniteSet(UNION {f[v] : v \in V})
<1> DEFINE K == {f[v] : v \in V}
           h == [v \in V |-> f[v]]
<1>1. h \in Surjection(V, K)
  BY DEF Surjection
<1>2. IsFiniteSet(K)
  BY <1>1, FS_Surjection
<1>3. \A T \in K : IsFiniteSet(T)
  OBVIOUS
<1> QED
  BY <1>2, <1>3, FS_UNION

LEMMA GraphFacts ==
  ASSUME InputInv
  PROVE  /\ IsDigraph(graph) /\ graph \in [Nodes -> SUBSET Nodes]
         /\ num_nodes \in Nat /\ Nodes = 0 .. num_nodes - 1 /\ IsFiniteSet(Nodes)
         /\ items = [u \in Nodes |-> items[u]]
         /\ \A u \in Nodes : IsFiniteSet(items[u])
         /\ granularity \in Nat \ {0}
<1>1. PICK i \in Inputs : graph = i.graph /\ items = i.items
  BY DEF InputInv
<1>2. /\ IsDigraph(graph) /\ graph \in [Nodes -> SUBSET Nodes]
      /\ items = [u \in Nodes |-> items[u]]
      /\ \A u \in Nodes : IsFiniteSet(items[u])
  BY <1>1, HyperBallAssumption DEF Nodes
<1>3. num_nodes \in Nat /\ Nodes = 0 .. num_nodes - 1 /\ IsFiniteSet(Nodes)
  BY <1>2, FS_CardinalityType DEF IsDigraph, Nodes, num_nodes
<1> QED
  BY <1>2, <1>3, HyperBallAssumption DEF InputInv

LEMMA SeenFacts ==
  ASSUME InputInv, NEW u \in Nodes
  PROVE  /\ Seen(u, 0) = items[u]
         /\ \A t \in Nat :
              /\ Seen(u, t + 1) = Seen(u, t) \cup UNION {Seen(s, t) : s \in graph[u]}
              /\ IsFiniteSet(Seen(u, t))
<1>1. /\ graph \in [Nodes -> SUBSET Nodes] /\ IsFiniteSet(Nodes)
      /\ \A v \in Nodes : IsFiniteSet(items[v])
  BY GraphFacts
<1>2. Balls(graph, {u})[0] = {u} /\ Balls(graph, {u}) \in [Nat -> SUBSET Nodes]
  BY <1>1, BallsWiden
<1>3. Seen(u, 0) = items[u]
  BY <1>2 DEF Seen
<1>4. ASSUME NEW t \in Nat
      PROVE  Seen(u, t + 1) = Seen(u, t) \cup UNION {Seen(s, t) : s \in graph[u]}
  <2> DEFINE A(s, d) == Balls(graph, {s})[d]
  <2>1. A(u, t + 1) = A(u, t) \cup UNION {A(s, t) : s \in graph[u]}
    <3>1. FirstStep(graph, u, t)
      BY <1>1, BallByFirstStep
    <3> QED
      BY <3>1 DEF FirstStep
  <2>2. \A s, d : Seen(s, d) = UNION {items[v] : v \in A(s, d)}
    BY DEF Seen
  <2> HIDE DEF A
  <2>3. \A x : x \in Seen(u, t + 1) <=>
                 x \in Seen(u, t) \/ \E s \in graph[u] : x \in Seen(s, t)
    BY <2>1, <2>2
  <2> QED
    BY <2>3
<1>5. ASSUME NEW t \in Nat PROVE IsFiniteSet(Seen(u, t))
  <2> DEFINE A == Balls(graph, {u})[t]
  <2>1. A \subseteq Nodes
    BY <1>2
  <2>2. IsFiniteSet(A) /\ \A v \in A : IsFiniteSet(items[v])
    BY <1>1, <2>1, FS_Subset
  <2> HIDE DEF A
  <2>3. IsFiniteSet(UNION {items[v] : v \in A})
    BY <2>2, FewItems
  <2> QED
    BY <2>3 DEF Seen, A
<1> QED
  BY <1>3, <1>4, <1>5

-----------------------------------------------------------------------------
(* Chunks.  The granularity never drops to zero, a chunk begins where the  *)
(* last one ended, and it has nodes.                                       *)

LEMMA ArcsCounted ==
  ASSUME InputInv
  PROVE  /\ num_arcs \in Nat
         /\ ArcsBefore(num_nodes) = num_arcs /\ ArcsBefore(0) = 0
         /\ \A k \in Nat : ArcsBefore(k) \in Nat
         /\ \A j, k \in Nat : j <= k => ArcsBefore(j) <= ArcsBefore(k)
<1>1. /\ graph \in [Nodes -> SUBSET Nodes] /\ IsFiniteSet(Nodes)
      /\ num_nodes \in Nat /\ Nodes = 0 .. num_nodes - 1
  BY GraphFacts
<1> DEFINE A == Arcs(graph)
           Part(k) == {a \in A : a[1] < k}
<1>2. A \subseteq Nodes \X Nodes
  BY <1>1 DEF Arcs, Nodes
<1>3. IsFiniteSet(A)
  BY <1>1, <1>2, FS_Product, FS_Subset
<1>4. \A a \in A : a[1] \in 0 .. num_nodes - 1
  BY <1>1, <1>2
<1> HIDE DEF A
<1>5. Part(num_nodes) = A
  BY <1>1, <1>4
<1>6. ASSUME NEW k \in Nat PROVE IsFiniteSet(Part(k)) /\ Cardinality(Part(k)) \in Nat
  BY <1>3, FS_Subset, FS_CardinalityType
<1>7. ASSUME NEW j \in Nat, NEW k \in Nat, j <= k
      PROVE  Cardinality(Part(j)) <= Cardinality(Part(k))
  <2>1. Part(j) \subseteq Part(k)
    BY <1>1, <1>4, <1>7
  <2> HIDE DEF Part
  <2> QED
    BY <1>6, <2>1, FS_Subset
<1>8. num_arcs = Cardinality(A) /\ \A k : ArcsBefore(k) = Cardinality(Part(k))
  BY DEF num_arcs, NumArcs, ArcsBefore, A
<1>10. Cardinality(Part(0)) = 0
  <2>1. Part(0) = {}
    BY <1>1, <1>4
  <2> QED
    BY <2>1, FS_EmptySet
<1>9. Cardinality(A) \in Nat
  BY <1>3, FS_CardinalityType
<1> HIDE DEF Part
<1> QED
  BY <1>5, <1>6, <1>7, <1>8, <1>9, <1>10

LEMMA RoundsUp ==
  ASSUME NEW a \in Nat, NEW b \in Nat \ {0}
  PROVE  CeilDiv(a, b) \in Nat /\ (a > 0 => CeilDiv(a, b) > 0)
<1> DEFINE q == (a + b - 1) \div b  r == (a + b - 1) % b
<1>1. a + b - 1 \in Nat
  OBVIOUS
<1>2. q \in Nat /\ r \in 0 .. b - 1 /\ a + b - 1 = b * q + r
  BY <1>1, ModDef
<1>3. a > 0 /\ q = 0 => FALSE
  <2> HIDE DEF q, r
  <2> SUFFICES ASSUME a > 0, q = 0 PROVE FALSE
    OBVIOUS
  <2>1. b * q = 0
    OBVIOUS
  <2> QED
    BY <1>2, <2>1
<1> QED
  BY <1>2, <1>3 DEF CeilDiv

LEMMA TimesPositive ==
  ASSUME NEW a \in Nat, NEW b \in Nat
  PROVE  a * b \in Nat /\ (a > 0 /\ b > 0 => a * b > 0)
OBVIOUS

LEMMA ChunkPositive ==
  ASSUME InputInv, TypeInv, num_nodes > 0
  PROVE  /\ arc_granularity \in Nat
         /\ pc # "idle" /\ num_arcs > 0 => arc_granularity > 0
<1>1. num_arcs \in Nat /\ num_nodes \in Nat \ {0}
  BY ArcsCounted, GraphFacts
<1>2. ic.granularity \in Nat /\ (pc # "idle" => ic.granularity > 0)
  BY DEF TypeInv, Contexts
<1> QED
  BY <1>1, <1>2, TimesPositive, RoundsUp DEF arc_granularity

LEMMA ChunkFound ==
  ASSUME InputInv, NEW t \in Nat, t <= num_arcs, NEW c \in Nat, ArcsBefore(c) < t
  PROVE  ChunkEnd(t) \in Nat /\ c < ChunkEnd(t) /\ ChunkEnd(t) <= num_nodes
<1>1. /\ num_nodes \in Nat /\ num_arcs \in Nat
      /\ ArcsBefore(num_nodes) = num_arcs
      /\ \A k \in Nat : ArcsBefore(k) \in Nat
      /\ \A j, k \in Nat : j <= k => ArcsBefore(j) <= ArcsBefore(k)
  BY ArcsCounted, GraphFacts
<1> DEFINE K == {k \in 0 .. num_nodes : ArcsBefore(k) >= t}
           P(k) == ArcsBefore(k) >= t /\ \A j \in 0 .. k - 1 : ArcsBefore(j) < t
<1>2. K \subseteq Nat /\ num_nodes \in K
  BY <1>1
<1>3. Min(K) \in K /\ \A k \in K : Min(K) <= k
  <2> HIDE DEF K
  <2> QED
    BY <1>2, MinOfNat
<1>4. P(Min(K))
  <2> DEFINE m == Min(K)
  <2>1. m \in 0 .. num_nodes /\ ArcsBefore(m) >= t
    BY <1>3
  <2>2. ASSUME NEW j \in 0 .. m - 1 PROVE ArcsBefore(j) < t
    <3>1. j \in 0 .. num_nodes /\ ~(m <= j) /\ ArcsBefore(j) \in Nat
      <4> HIDE DEF m
      <4> QED
        BY <1>1, <2>1, <2>2
    <3>2. j \notin K
      <4> HIDE DEF K
      <4> QED
        BY <1>3, <3>1
    <3> QED
      BY <3>1, <3>2
  <2> QED
    BY <2>1, <2>2
<1> DEFINE e == CHOOSE k \in 0 .. num_nodes : P(k)
<1>5. e \in 0 .. num_nodes /\ P(e)
  <2> HIDE DEF P
  <2> QED
    BY <1>3, <1>4
<1>6. e = ChunkEnd(t)
  BY DEF ChunkEnd
<1> HIDE DEF e
<1>7. c < e
  <2> SUFFICES ASSUME e <= c PROVE FALSE
    BY <1>1, <1>5
  <2>1. ArcsBefore(e) <= ArcsBefore(c) /\ ArcsBefore(e) \in Nat /\ ArcsBefore(c) \in Nat
    BY <1>1, <1>5
  <2> QED
    BY <1>5, <2>1
<1> QED
  BY <1>1, <1>5, <1>6, <1>7

LEMMA ChunkHasNodes ==
  ASSUME InputInv, TypeInv, ClaimInv, pc = "iterate", ~ic.local,
         ic.cursor < Limit, NEW target, target = ic.arc + arc_granularity
  PROVE  /\ NextNode(target) \in Nat
         /\ ic.cursor < NextNode(target) /\ NextNode(target) <= num_nodes
         /\ target >= num_arcs => NextNode(target) = num_nodes
<1>1. /\ num_nodes \in Nat /\ num_arcs \in Nat /\ ic.cursor \in Nat /\ ic.arc \in Nat
      /\ Limit = num_nodes
  BY ArcsCounted, GraphFacts DEF TypeInv, Contexts, Limit
<1>2. ic.arc = ArcsBefore(ic.cursor) /\ num_nodes > 0
  BY <1>1 DEF ClaimInv, Aligned
<1>3. arc_granularity \in Nat /\ (num_arcs > 0 => arc_granularity > 0)
  BY <1>2, ChunkPositive
<1>4. CASE target >= num_arcs
  BY <1>1, <1>4 DEF NextNode
<1>5. CASE ~(target >= num_arcs)
  <2>1. target \in Nat /\ target <= num_arcs /\ ArcsBefore(ic.cursor) < target
    BY <1>1, <1>2, <1>3, <1>5
  <2>2. ChunkEnd(target) \in Nat /\ ic.cursor < ChunkEnd(target)
        /\ ChunkEnd(target) <= num_nodes
    BY <1>1, <2>1, ChunkFound
  <2> QED
    BY <1>5, <2>2 DEF NextNode
<1> QED
  BY <1>4, <1>5

LEMMA AtLeastOnce ==
  ASSUME NEW a \in Nat, NEW m \in Nat \ {0}
  PROVE  a \div m \in Nat /\ (m <= a => a \div m > 0)
<1> DEFINE q == a \div m  r == a % m
<1>1. q \in Nat /\ r \in 0 .. m - 1 /\ a = m * q + r
  BY ModDef
<1> HIDE DEF q, r
<1>2. q = 0 => a = r
  <2>1. m * 0 = 0
    OBVIOUS
  <2> QED
    BY <1>1, <2>1
<1> QED
  BY <1>1, <1>2 DEF q

(* The granularity adapted to the nodes modified by the last iteration.    *)
LEMMA AdaptedPositive ==
  ASSUME InputInv, TypeInv, CountInv, pc = "loop", NEW local
  PROVE  Adapted(local) \in Nat /\ Adapted(local) > 0
<1>1. /\ num_nodes \in Nat /\ ic.granularity \in Nat /\ ic.granularity > 0
      /\ ic.modified \in Nat /\ ic.modified <= num_nodes
      /\ ic.iteration \in Nat /\ (ic.iteration > 0 => ic.modified > 0)
  BY GraphFacts DEF TypeInv, Contexts, CountInv
<1>2. CASE Cardinality(Workers) > 1 /\ ~local /\ ic.iteration > 0
  <2> DEFINE c == Cardinality(Workers)
             m == ic.modified
             x == num_nodes \div c
             y == (ic.granularity * num_nodes) \div m
  <2>1. c \in Nat \ {0}
    BY <1>2, HyperBallAssumption, FS_CardinalityType
  <2>2. x \in Nat
    BY <1>1, <2>1, AtLeastOnce
  <2>3. m \in Nat \ {0} /\ m <= num_nodes
    BY <1>1, <1>2
  <2>4. ic.granularity * num_nodes \in Nat /\ num_nodes <= ic.granularity * num_nodes
    <3>1. ic.granularity * num_nodes = num_nodes + (ic.granularity - 1) * num_nodes
      BY <1>1
    <3>2. (ic.granularity - 1) * num_nodes \in Nat
      BY <1>1
    <3> QED
      BY <1>1, <3>1, <3>2
  <2>5. y \in Nat /\ y > 0
    <3>1. m <= ic.granularity * num_nodes
      BY <1>1, <2>3, <2>4
    <3> HIDE DEF m
    <3> QED
      BY <2>3, <2>4, <3>1, AtLeastOnce
  <2>6. Adapted(local) = AtMost(AtLeast(1, x), y)
    BY <1>2, <2>3 DEF Adapted, AtLeast
  <2> HIDE DEF x, y
  <2> QED
    BY <2>2, <2>5, <2>6 DEF AtMost, AtLeast
<1>3. CASE ~(Cardinality(Workers) > 1 /\ ~local /\ ic.iteration > 0)
  BY <1>1, <1>3 DEF Adapted
<1> QED
  BY <1>2, <1>3

-----------------------------------------------------------------------------
(* What one node gets.                                                     *)

LEMMA InputsStay ==
  ASSUME [Next]_vars
  PROVE  UNCHANGED inputs
BY DEF Next, Main, Worker, StartRun, BeginIteration, CloseIteration, StopRun,
       TakeListed, TakeChunk, CheckNode, SkipNode, EndTask, vars, shared

(* An estimator grows by the items that are new.                           *)
LEMMA Grows ==
  ASSUME InputInv, NEW u \in Nodes, NEW t \in Nat
  PROVE  LET d == Cardinality(Seen(u, t + 1)) - Cardinality(Seen(u, t))
         IN  /\ Seen(u, t) \subseteq Seen(u, t + 1)
             /\ Cardinality(Seen(u, t)) \in Nat
             /\ Cardinality(Seen(u, t + 1)) \in Nat
             /\ d \in Nat /\ (d > 0 <=> ~Still(u, t))
             /\ d = Cardinality(Seen(u, t + 1) \ Seen(u, t))
<1> DEFINE A == Seen(u, t)  B == Seen(u, t + 1)
<1>1. A \subseteq B /\ IsFiniteSet(A) /\ IsFiniteSet(B)
  BY SeenFacts
<1>2. Still(u, t) <=> A = B
  BY DEF Still
<1> HIDE DEF A, B
<1>3. Cardinality(A) \in Nat /\ Cardinality(B) \in Nat /\ IsFiniteSet(B \ A)
      /\ Cardinality(B \ A) \in Nat
  BY <1>1, FS_CardinalityType, FS_Difference
<1>4. Cardinality(B \ A) = Cardinality(B) - Cardinality(A)
  <2>1. Cardinality(B \ A) = Cardinality(B) - Cardinality(B \cap A)
    BY <1>1, FS_Difference
  <2>2. B \cap A = A
    BY <1>1
  <2> QED
    BY <2>1, <2>2
<1>5. Cardinality(B \ A) = 0 <=> A = B
  <2>1. Cardinality(B \ A) = 0 <=> B \ A = {}
    BY <1>3, FS_EmptySet
  <2> QED
    BY <1>1, <2>1
<1>6. Cardinality(B) - Cardinality(A) > 0 <=> ~Still(u, t)
  BY <1>2, <1>3, <1>4, <1>5
<1> QED
  BY <1>1, <1>3, <1>4, <1>6 DEF A, B

(* A node gets news only from nodes that have changed.                     *)
LEMMA NewsFromModified ==
  ASSUME InputInv, NEW t \in Nat, NEW M,
         \A s \in Nodes \ M : t > 0 /\ Still(s, t - 1), NEW u \in Nodes
  PROVE  /\ Seen(u, t + 1) = Seen(u, t) \cup UNION {Seen(s, t) : s \in graph[u] \cap M}
         /\ graph[u] \cap M = {} => Still(u, t)
<1>1. graph[u] \subseteq Nodes
  BY GraphFacts
<1>2. Seen(u, t + 1) = Seen(u, t) \cup UNION {Seen(s, t) : s \in graph[u]}
  BY SeenFacts
<1>3. ASSUME NEW s \in graph[u] \ M PROVE Seen(s, t) \subseteq Seen(u, t)
  <2> DEFINE d == t - 1
  <2>1. t > 0 /\ Still(s, d)
    BY <1>1, <1>3
  <2>2. d \in Nat /\ d + 1 = t
    BY <2>1
  <2> HIDE DEF d
  <2>3. Seen(s, t) = Seen(s, d)
    BY <2>1, <2>2 DEF Still
  <2>4. Seen(u, d + 1) = Seen(u, d) \cup UNION {Seen(x, d) : x \in graph[u]}
    BY <2>2, SeenFacts
  <2> QED
    BY <1>3, <2>2, <2>3, <2>4
<1>4. Seen(u, t + 1) = Seen(u, t) \cup UNION {Seen(s, t) : s \in graph[u] \cap M}
  BY <1>2, <1>3
<1> QED
  BY <1>4 DEF Still

(* Merging the successors modified by the last iteration is enough.        *)
Merged(u) ==
  curr_state[u] \cup UNION {curr_state[s] : s \in graph[u] \cap ic.curr_modified}

LEMMA MergedIsSeen ==
  ASSUME BallInv, pc = "iterate", NEW u \in Nodes
  PROVE  /\ ic.iteration \in Nat
         /\ curr_state[u] = Seen(u, ic.iteration)
         /\ Merged(u) = Seen(u, ic.iteration + 1)
         /\ graph[u] \cap ic.curr_modified = {} => Still(u, ic.iteration)
<1> DEFINE T == ic.iteration  M == ic.curr_modified
<1>1. InputInv /\ TypeInv /\ BitsInv /\ ExactInv
  BY DEF BallInv
<1>2. T \in Nat /\ runs > 0
  BY <1>1 DEF TypeInv, Contexts
<1>3. \A v \in Nodes : curr_state[v] = Seen(v, T)
  BY <1>1, <1>2 DEF ExactInv, Ball
<1>4. graph[u] \subseteq Nodes
  BY <1>1, GraphFacts
<1>5. \A s \in Nodes \ M : T > 0 /\ Still(s, T - 1)
  BY <1>1 DEF BitsInv
<1> HIDE DEF T, M
<1>6. /\ Seen(u, T + 1) = Seen(u, T) \cup UNION {Seen(s, T) : s \in graph[u] \cap M}
      /\ graph[u] \cap M = {} => Still(u, T)
  BY <1>1, <1>2, <1>5, NewsFromModified
<1>7. Merged(u) = Seen(u, T + 1)
  BY <1>3, <1>4, <1>6 DEF Merged, M
<1> QED
  BY <1>2, <1>3, <1>6, <1>7 DEF T, M

-----------------------------------------------------------------------------
(* Who deals with which node.                                              *)

LEMMA Places ==
  ASSUME InputInv, TypeInv, ClaimInv, pc = "iterate"
  PROVE  /\ Limit \in Nat /\ Waiting \subseteq 0 .. Limit - 1
         /\ \A p \in 0 .. Limit - 1 : At(p) \in Nodes
         /\ \A p, q \in 0 .. Limit - 1 : At(p) = At(q) => p = q
         /\ {At(p) : p \in 0 .. Limit - 1} =
              IF ic.local THEN ToSet(ic.checklist) ELSE Nodes
         /\ \A w \in Workers : task[w].at \in Nat /\ task[w].end \in Nat
         /\ ic.cursor \in Nat
<1>1. /\ num_nodes \in Nat /\ Nodes = 0 .. num_nodes - 1
      /\ ic.checklist \in Seq(Nodes) /\ ic.cursor \in Nat
      /\ \A w \in Workers : task[w].at \in Nat /\ task[w].end \in Nat
  <2>1. \A w \in Workers : task[w] \in Tasks
    BY DEF TypeInv
  <2> QED
    BY <2>1, GraphFacts DEF TypeInv, Contexts, Tasks
<1>2. Limit \in Nat
  BY <1>1, LenProperties DEF Limit
<1>3. Waiting \subseteq 0 .. Limit - 1
  BY <1>1, <1>2 DEF ClaimInv, Waiting, Held
<1>4. CASE ic.local
  <2>1. Limit = Len(ic.checklist) /\ IsInjective(ic.checklist)
    BY <1>4 DEF Limit, ClaimInv
  <2>2. DOMAIN ic.checklist = 1 .. Limit
    BY <1>1, <2>1, LenProperties
  <2>3. \A p \in 0 .. Limit - 1 : p + 1 \in 1 .. Limit
    BY <1>2
  <2>4. \A p, q \in 0 .. Limit - 1 : p + 1 = q + 1 => p = q
    BY <1>2
  <2>5. \A p \in 0 .. Limit - 1 : At(p) = ic.checklist[p + 1]
    BY <1>4 DEF At
  <2>6. \A p \in 0 .. Limit - 1 : At(p) \in Nodes
    BY <1>1, <2>1, <2>3, <2>5
  <2>7. \A p, q \in 0 .. Limit - 1 : At(p) = At(q) => p = q
    <3> SUFFICES ASSUME NEW p \in 0 .. Limit - 1, NEW q \in 0 .. Limit - 1,
                        At(p) = At(q)
                 PROVE  p = q
      OBVIOUS
    <3>1. ic.checklist[p + 1] = ic.checklist[q + 1]
      BY <2>5
    <3>2. p + 1 \in DOMAIN ic.checklist /\ q + 1 \in DOMAIN ic.checklist
      BY <2>2, <2>3
    <3>3. p + 1 = q + 1
      BY <2>1, <3>1, <3>2 DEF IsInjective
    <3> QED
      BY <2>4, <3>3
  <2>8. {At(p) : p \in 0 .. Limit - 1} = ToSet(ic.checklist)
    <3>1. ASSUME NEW j \in 1 .. Limit PROVE ic.checklist[j] \in {At(p) : p \in 0 .. Limit - 1}
      <4>1. j - 1 \in 0 .. Limit - 1 /\ (j - 1) + 1 = j
        BY <1>2
      <4>2. At(j - 1) = ic.checklist[j]
        BY <2>5, <4>1
      <4> QED
        BY <4>1, <4>2
    <3>2. ASSUME NEW p \in 0 .. Limit - 1 PROVE At(p) \in ToSet(ic.checklist)
      BY <2>2, <2>3, <2>5 DEF ToSet
    <3> QED
      BY <2>2, <3>1, <3>2 DEF ToSet
  <2> QED
    BY <1>1, <1>2, <1>3, <1>4, <2>6, <2>7, <2>8
<1>5. CASE ~ic.local
  <2>1. Limit = num_nodes /\ \A p : At(p) = p
    BY <1>5 DEF Limit, At
  <2> QED
    BY <1>1, <1>2, <1>3, <1>5, <2>1
<1> QED
  BY <1>4, <1>5

LEMMA PendingIsNodes ==
  ASSUME InputInv, TypeInv, ClaimInv, pc = "iterate"
  PROVE  Pending \subseteq Nodes
BY Places DEF Pending

(* A step of a thread that deals with its next node.                       *)
Advances(w) ==
  /\ WorksOn(w) /\ task[w].at < task[w].end
  /\ pc' = pc /\ UNCHANGED inputs
  /\ task'[w].at = task[w].at + 1 /\ task'[w].end = task[w].end
  /\ task'[w].step = task[w].step
  /\ \A v \in Workers \ {w} : task'[v] = task[v]
  /\ ic'.cursor = ic.cursor /\ ic'.local = ic.local /\ ic'.arc = ic.arc
  /\ ic'.checklist = ic.checklist

LEMMA NextNodePending ==
  ASSUME InputInv, TypeInv, ClaimInv, NEW w \in Workers,
         WorksOn(w), task[w].at < task[w].end
  PROVE  node(w) \in Pending /\ node(w) \in Nodes
<1>1. pc = "iterate"
  BY DEF WorksOn
<1>2. task[w].at \in Held(w) /\ node(w) = At(task[w].at)
  BY <1>1, Places DEF Held, node, At
<1>3. task[w].at \in Waiting
  BY <1>2 DEF Waiting
<1> QED
  BY <1>1, <1>2, <1>3, PendingIsNodes DEF Pending

LEMMA PendingAfter ==
  ASSUME InputInv, TypeInv, ClaimInv, NEW w \in Workers, Advances(w)
  PROVE  /\ Pending' = Pending \ {node(w)}
         /\ ClaimInv'
<1>1. pc = "iterate" /\ pc' = "iterate" /\ task[w].step = "work"
  BY DEF Advances, WorksOn
<1>2. /\ Limit \in Nat /\ Waiting \subseteq 0 .. Limit - 1
      /\ \A p, q \in 0 .. Limit - 1 : At(p) = At(q) => p = q
      /\ \A v \in Workers : task[v].at \in Nat /\ task[v].end \in Nat
      /\ ic.cursor \in Nat
  BY <1>1, Places
<1> DEFINE p == task[w].at
<1>3. p \in Held(w) /\ node(w) = At(p) /\ p \in Waiting
  BY <1>2 DEF Held, node, At, Waiting, Advances
<1>4. Held(w)' = Held(w) \ {p} /\ \A v \in Workers \ {w} : Held(v)' = Held(v)
  <2>1. Held(w)' = p + 1 .. task[w].end - 1
    BY DEF Advances, Held
  <2>2. p + 1 .. task[w].end - 1 = (p .. task[w].end - 1) \ {p}
    BY <1>2
  <2>3. \A v \in Workers \ {w} : Held(v)' = Held(v)
    BY DEF Advances, Held
  <2> QED
    BY <2>1, <2>2, <2>3 DEF Held
<1>5. /\ \A v \in Workers : task[v].at <= task[v].end /\ task[v].end <= ic.cursor
      /\ \A v, x \in Workers : v # x => Held(v) \cap Held(x) = {}
      /\ ic.cursor <= Limit
  BY <1>1 DEF ClaimInv
<1>6. p < ic.cursor /\ \A v \in Workers \ {w} : p \notin Held(v)
  BY <1>2, <1>3, <1>5 DEF Advances
<1>7. ic'.cursor = ic.cursor /\ Limit' = Limit
  BY DEF Advances, Limit, num_nodes, Nodes, inputs
<1>8. Waiting' = Waiting \ {p}
  <2>1. Waiting = (ic.cursor .. Limit - 1) \cup UNION {Held(v) : v \in Workers}
    BY DEF Waiting
  <2>2. Waiting' = (ic.cursor .. Limit - 1) \cup UNION {Held(v)' : v \in Workers}
    BY <1>7 DEF Waiting
  <2>3. p \notin ic.cursor .. Limit - 1
    BY <1>2, <1>6
  <2> QED
    BY <1>4, <1>6, <2>1, <2>2, <2>3
<1>9. \A q : At(q)' = At(q)
  BY DEF At, Advances
<1>10. Pending' = Pending \ {node(w)}
  <2>1. Pending' = {At(q) : q \in Waiting \ {p}}
    BY <1>8, <1>9 DEF Pending
  <2> QED
    BY <1>2, <1>3, <2>1 DEF Pending
<1>11. ClaimInv'
  <2>1. /\ \A v \in Workers : task'[v].at <= task'[v].end /\ task'[v].end <= ic'.cursor
        /\ \A v \in Workers : task'[v].step = "out" =>
             task'[v] = NoTask /\ ic'.cursor >= Limit'
    <3> SUFFICES ASSUME NEW v \in Workers
                 PROVE  /\ task'[v].at <= task'[v].end /\ task'[v].end <= ic'.cursor
                        /\ task'[v].step = "out" =>
                             task'[v] = NoTask /\ ic'.cursor >= Limit'
      OBVIOUS
    <3>1. CASE v = w
      BY <1>1, <1>2, <1>5, <1>7, <3>1 DEF Advances
    <3>2. CASE v # w
      BY <1>1, <1>5, <1>7, <3>2 DEF Advances, ClaimInv
    <3> QED
      BY <3>1, <3>2
  <2>2. \A v, x \in Workers : v # x => Held(v)' \cap Held(x)' = {}
    BY <1>4, <1>5
  <2>3. (ic'.local => IsInjective(ic'.checklist)) /\ Aligned'
    <3>1. (ic.local => IsInjective(ic.checklist)) /\ Aligned
      BY <1>1 DEF ClaimInv
    <3>2. Aligned'
      BY <3>1 DEF Aligned, Advances, ArcsBefore, num_nodes, Nodes, inputs
    <3> QED
      BY <3>1, <3>2 DEF Advances
  <2> QED
    BY <1>5, <1>7, <2>1, <2>2, <2>3 DEF ClaimInv
<1> QED
  BY <1>10, <1>11

(* A step of a thread that takes the positions up to e.                    *)
Takes(w, e) ==
  /\ Ready(w)
  /\ pc' = pc /\ UNCHANGED inputs
  /\ e \in Nat /\ ic.cursor < e /\ e <= Limit
  /\ ic'.cursor = e /\ ic'.local = ic.local /\ ic'.checklist = ic.checklist
  /\ Aligned'
  /\ task'[w].at = ic.cursor /\ task'[w].end = e
  /\ task'[w].step = task[w].step
  /\ \A v \in Workers \ {w} : task'[v] = task[v]

LEMMA PendingTaken ==
  ASSUME InputInv, TypeInv, ClaimInv, NEW w \in Workers, NEW e, Takes(w, e)
  PROVE  Pending' = Pending /\ ClaimInv'
<1>1. pc = "iterate" /\ pc' = "iterate" /\ task[w].step = "work"
      /\ task[w].at = task[w].end
  BY DEF Takes, Ready, WorksOn
<1>2. /\ Limit \in Nat /\ ic.cursor \in Nat /\ e \in Nat
      /\ ic.cursor < e /\ e <= Limit
      /\ \A v \in Workers : task[v].at \in Nat /\ task[v].end \in Nat
  BY <1>1, Places DEF Takes
<1>3. /\ \A v \in Workers : task[v].at <= task[v].end /\ task[v].end <= ic.cursor
      /\ \A v, x \in Workers : v # x => Held(v) \cap Held(x) = {}
  BY <1>1 DEF ClaimInv
<1>4. /\ Held(w) = {} /\ Held(w)' = ic.cursor .. e - 1
      /\ \A v \in Workers \ {w} : Held(v)' = Held(v)
  BY <1>1, <1>2 DEF Held, Takes
<1>5. ic'.cursor = e /\ Limit' = Limit
  BY DEF Takes, Limit, num_nodes, Nodes, inputs
<1>6. Waiting' = Waiting
  <2>1. Waiting = (ic.cursor .. Limit - 1) \cup UNION {Held(v) : v \in Workers}
    BY DEF Waiting
  <2>2. Waiting' = (e .. Limit - 1) \cup UNION {Held(v)' : v \in Workers}
    BY <1>5 DEF Waiting
  <2>3. ic.cursor .. Limit - 1 = (ic.cursor .. e - 1) \cup (e .. Limit - 1)
    BY <1>2
  <2> QED
    BY <1>4, <2>1, <2>2, <2>3
<1>7. \A q : At(q)' = At(q)
  BY DEF At, Takes
<1>8. Pending' = Pending
  BY <1>6, <1>7 DEF Pending
<1>9. \A v \in Workers :
        /\ task'[v].at <= task'[v].end /\ task'[v].end <= ic'.cursor
        /\ task'[v].step = "out" => task'[v] = NoTask /\ ic'.cursor >= Limit'
  <2> SUFFICES ASSUME NEW v \in Workers
               PROVE  /\ task'[v].at <= task'[v].end /\ task'[v].end <= ic'.cursor
                      /\ task'[v].step = "out" =>
                           task'[v] = NoTask /\ ic'.cursor >= Limit'
    OBVIOUS
  <2>1. CASE v = w
    BY <1>1, <1>2, <1>5, <2>1 DEF Takes
  <2>2. CASE v # w
    <3>1. task'[v] = task[v]
      BY <2>2 DEF Takes
    <3>2. task[v].step = "out" => task[v] = NoTask /\ ic.cursor >= Limit
      BY <1>1 DEF ClaimInv
    <3> QED
      BY <1>2, <1>3, <1>5, <3>1, <3>2
  <2> QED
    BY <2>1, <2>2
<1>10. \A v, x \in Workers : v # x => Held(v)' \cap Held(x)' = {}
  <2>1. \A v \in Workers \ {w} : Held(v)' \cap (ic.cursor .. e - 1) = {}
    <3> SUFFICES ASSUME NEW v \in Workers \ {w}
                 PROVE  Held(v)' \cap (ic.cursor .. e - 1) = {}
      OBVIOUS
    <3>1. Held(v)' = task[v].at .. task[v].end - 1
      BY <1>4 DEF Held
    <3> QED
      BY <1>2, <1>3, <3>1
  <2> QED
    BY <1>3, <1>4, <2>1
<1>11. (ic'.local => IsInjective(ic'.checklist)) /\ Aligned'
  BY <1>1 DEF ClaimInv, Takes
<1> QED
  BY <1>1, <1>2, <1>5, <1>8, <1>9, <1>10, <1>11 DEF ClaimInv

(* A step of a thread that finds nothing left.                             *)
Leaves(w) ==
  /\ Ready(w) /\ ic.cursor >= Limit
  /\ pc' = pc /\ UNCHANGED inputs
  /\ ic'.cursor = ic.cursor /\ ic'.local = ic.local /\ ic'.arc = ic.arc
  /\ ic'.checklist = ic.checklist
  /\ task'[w] = NoTask
  /\ \A v \in Workers \ {w} : task'[v] = task[v]

LEMMA PendingLeft ==
  ASSUME InputInv, TypeInv, ClaimInv, NEW w \in Workers, Leaves(w)
  PROVE  Pending' = Pending /\ ClaimInv'
<1>1. pc = "iterate" /\ pc' = "iterate" /\ task[w].at = task[w].end
  BY DEF Leaves, Ready, WorksOn
<1>2. /\ Limit \in Nat /\ ic.cursor \in Nat
      /\ \A v \in Workers : task[v].at \in Nat /\ task[v].end \in Nat
  BY <1>1, Places
<1>3. /\ \A v \in Workers : task[v].at <= task[v].end /\ task[v].end <= ic.cursor
      /\ \A v, x \in Workers : v # x => Held(v) \cap Held(x) = {}
      /\ ic.cursor <= Limit
  BY <1>1 DEF ClaimInv
<1>4. \A v \in Workers : Held(v)' = Held(v)
  <2>1. Held(w) = {}
    BY <1>1, <1>2 DEF Held
  <2>2. Held(w)' = 0 .. 0 - 1
    BY DEF Held, Leaves, NoTask
  <2>3. \A v \in Workers \ {w} : Held(v)' = Held(v)
    BY DEF Held, Leaves
  <2> QED
    BY <2>1, <2>2, <2>3
<1>5. ic'.cursor = ic.cursor /\ Limit' = Limit
  BY DEF Leaves, Limit, num_nodes, Nodes, inputs
<1>6. Waiting' = Waiting
  BY <1>4, <1>5 DEF Waiting
<1>7. \A q : At(q)' = At(q)
  BY DEF At, Leaves
<1>8. Pending' = Pending
  BY <1>6, <1>7 DEF Pending
<1>9. \A v \in Workers :
        /\ task'[v].at <= task'[v].end /\ task'[v].end <= ic'.cursor
        /\ task'[v].step = "out" => task'[v] = NoTask /\ ic'.cursor >= Limit'
  <2> SUFFICES ASSUME NEW v \in Workers
               PROVE  /\ task'[v].at <= task'[v].end /\ task'[v].end <= ic'.cursor
                      /\ task'[v].step = "out" =>
                           task'[v] = NoTask /\ ic'.cursor >= Limit'
    OBVIOUS
  <2>1. CASE v = w
    BY <1>2, <1>5, <2>1 DEF Leaves, NoTask
  <2>2. CASE v # w
    <3>1. task'[v] = task[v]
      BY <2>2 DEF Leaves
    <3>2. task[v].step = "out" => task[v] = NoTask /\ ic.cursor >= Limit
      BY <1>1 DEF ClaimInv
    <3> QED
      BY <1>2, <1>3, <1>5, <3>1, <3>2
  <2> QED
    BY <2>1, <2>2
<1>10. (ic'.local => IsInjective(ic'.checklist)) /\ Aligned'
  <2>1. (ic.local => IsInjective(ic.checklist)) /\ Aligned
    BY <1>1 DEF ClaimInv
  <2>2. Aligned'
    BY <2>1 DEF Aligned, Leaves, ArcsBefore, num_nodes, Nodes, inputs
  <2> QED
    BY <2>1, <2>2 DEF Leaves
<1> QED
  BY <1>1, <1>3, <1>4, <1>5, <1>8, <1>9, <1>10 DEF ClaimInv

(* When all threads have left, nothing is pending.                         *)
LEMMA PendingNone ==
  ASSUME InputInv, TypeInv, ClaimInv, pc = "iterate",
         \A w \in Workers : task[w].step = "out"
  PROVE  Pending = {}
<1>1. /\ Limit \in Nat /\ ic.cursor \in Nat
      /\ \A v \in Workers : task[v].at \in Nat /\ task[v].end \in Nat
  BY Places
<1>2. ic.cursor >= Limit /\ \A w \in Workers : task[w].at = task[w].end
  BY HyperBallAssumption DEF ClaimInv, NoTask
<1>3. \A w \in Workers : Held(w) = {}
  BY <1>1, <1>2 DEF Held
<1>4. ic.cursor .. Limit - 1 = {}
  BY <1>1, <1>2
<1> QED
  BY <1>3, <1>4 DEF Pending, Waiting

-----------------------------------------------------------------------------
(* The steps that change neither estimators nor bits.                      *)

LEMMA SeenStays ==
  ASSUME UNCHANGED inputs
  PROVE  /\ Nodes' = Nodes /\ num_nodes' = num_nodes
         /\ Contexts' = Contexts
         /\ \A u : Preds(u)' = Preds(u)
         /\ \A u, t : Seen(u, t)' = Seen(u, t) /\ Still(u, t)' = Still(u, t)
         /\ \A t : Ball(t)' = Ball(t)
<1>1. graph' = graph /\ items' = items
  BY DEF inputs
<1>2. Nodes' = Nodes
  BY <1>1 DEF Nodes
<1>3. \A u, t : Seen(u, t)' = Seen(u, t)
  BY <1>1 DEF Seen
<1>4. \A u, t : Still(u, t)' = Still(u, t)
  BY <1>3 DEF Still
<1>5. \A t : Ball(t)' = Ball(t)
  BY <1>2, <1>3 DEF Ball
<1> QED
  BY <1>1, <1>2, <1>3, <1>4, <1>5 DEF num_nodes, Preds, Contexts

LEMMA SumsStay ==
  ASSUME UNCHANGED inputs, NEW u, spheres'[u] = spheres[u], NEW t
  PROVE  SumsUpTo(u, t)' = SumsUpTo(u, t)
<1>1. \A d : Increment(u, d)' = Increment(u, d)
  BY SeenStays DEF Increment
<1>2. \A d : Seen(u, d)' = Seen(u, d)
  BY SeenStays
<1> QED
  BY <1>1, <1>2 DEF SumsUpTo, SumsOf

bits == <<ic.iteration, ic.systolic, ic.local, ic.pre_local, ic.checklist,
          ic.next_checklist, ic.must_be_checked, ic.next_must_be_checked,
          ic.curr_modified, ic.next_modified>>

LEMMA WorkStays ==
  ASSUME BallInv, UNCHANGED inputs, pc = "iterate", pc' = pc, Pending' = Pending,
         UNCHANGED <<curr_state, next_state, spheres, runs, bits>>
  PROVE  BitsInv' /\ WorkInv' /\ ExactInv'
<1>1. BitsInv /\ WorkInv /\ ExactInv
  BY DEF BallInv
<1>2. Nodes' = Nodes /\ \A u : Preds(u)' = Preds(u)
  BY SeenStays
<1>3. \A u, t : Seen(u, t)' = Seen(u, t) /\ Still(u, t)' = Still(u, t)
  BY SeenStays
<1>4. ic'.iteration = ic.iteration /\ curr_state' = curr_state
      /\ next_state' = next_state /\ spheres' = spheres /\ runs' = runs
  BY DEF bits
<1>5. BitsInv'
  BY <1>1, <1>2, <1>3 DEF BitsInv, bits
<1>6. WorkInv'
  BY <1>1, <1>2, <1>3 DEF WorkInv, bits
<1>7. ExactInv'
  <2>1. \A u, t : SumsUpTo(u, t)' = SumsUpTo(u, t)
    BY <1>4, SumsStay
  <2>2. \A t : Ball(t)' = Ball(t)
    BY SeenStays
  <2> QED
    BY <1>1, <1>2, <1>4, <2>1, <2>2 DEF ExactInv
<1> QED
  BY <1>5, <1>6, <1>7

LEMMA CountStays ==
  ASSUME TypeInv, CountInv, pc = "iterate", pc' = pc,
         task' \in [Workers -> Tasks],
         \A w \in Workers : task'[w].modified = task[w].modified,
         ic'.modified = ic.modified, ic'.next_modified = ic.next_modified
  PROVE  CountInv'
<1>1. [w \in Workers |-> task'[w].modified] = [w \in Workers |-> task[w].modified]
  OBVIOUS
<1> QED
  BY <1>1 DEF CountInv

LEMMA TaskTypes ==
  ASSUME TypeInv
  PROVE  /\ \A w \in Workers :
              /\ task[w].at \in Nat /\ task[w].end \in Nat /\ task[w].nf \in Nat
              /\ task[w].modified \in Nat /\ task[w].step \in {"work", "out"}
         /\ DOMAIN task = Workers
BY DEF TypeInv, Tasks

LEMMA TaskGiven ==
  ASSUME TypeInv, NEW w \in Workers, NEW a \in Nat, NEW e \in Nat,
         Given(w, a, e)
  PROVE  /\ task' \in [Workers -> Tasks]
         /\ task'[w].at = a /\ task'[w].end = e /\ task'[w].step = task[w].step
         /\ \A v \in Workers \ {w} : task'[v] = task[v]
         /\ \A v \in Workers : task'[v].modified = task[v].modified
         /\ \A v \in Workers : task'[v].nf = task[v].nf
<1>1. task \in [Workers -> Tasks] /\ task[w] \in Tasks
  BY DEF TypeInv
<1> DEFINE r == [[task[w] EXCEPT !.at = a] EXCEPT !.end = e]
<1>2. /\ r \in Tasks /\ r.at = a /\ r.end = e /\ r.step = task[w].step
      /\ r.modified = task[w].modified /\ r.nf = task[w].nf
  BY <1>1 DEF Tasks
<1>3. task' = [task EXCEPT ![w] = r]
  BY <1>1 DEF Given
<1> HIDE DEF r
<1> QED
  BY <1>1, <1>2, <1>3

LEMMA StopRunStep ==
  ASSUME BallInv, StopRun
  PROVE  BallInv'
<1>1. /\ InputInv /\ TypeInv /\ ExactInv
      /\ UNCHANGED <<inputs, curr_state, next_state, results, spheres, ic, task,
                     left, runs>>
      /\ pc = "loop" /\ pc' = "idle"
  BY DEF BallInv, StopRun
<1>2. InputInv' /\ Nodes' = Nodes /\ Contexts' = Contexts
  BY <1>1, SeenStays DEF InputInv, inputs
<1>3. TypeInv'
  BY <1>1, <1>2 DEF TypeInv, results
<1>4. ExactInv'
  <2>1. \A u, t : SumsUpTo(u, t)' = SumsUpTo(u, t)
    BY <1>1, SumsStay
  <2>2. \A t : Ball(t)' = Ball(t)
    BY <1>1, SeenStays
  <2> QED
    BY <1>1, <1>2, <2>1, <2>2 DEF ExactInv
<1>5. ClaimInv' /\ CountInv' /\ BitsInv' /\ WorkInv'
  BY <1>1 DEF ClaimInv, CountInv, BitsInv, WorkInv
<1> QED
  BY <1>2, <1>3, <1>4, <1>5 DEF BallInv

(* What the steps that only hand out positions leave as it is.             *)
Kept ==
  /\ Pending' = Pending
  /\ \A v \in Workers : task'[v].nf = task[v].nf
  /\ ic'.current_nf = ic.current_nf /\ ic'.systolic = ic.systolic
  /\ ic'.iteration = ic.iteration

LEMMA TakeListedStep ==
  ASSUME BallInv, NEW w \in Workers, TakeListed(w)
  PROVE  BallInv' /\ Kept
<1>1. InputInv /\ TypeInv /\ ClaimInv /\ CountInv
  BY DEF BallInv
<1>2. pc = "iterate" /\ pc' = pc /\ UNCHANGED inputs
      /\ UNCHANGED <<curr_state, next_state, results, spheres, left, runs>>
  BY DEF TakeListed, Ready, WorksOn, shared
<1> DEFINE e == ic.cursor + 1
<1>3. /\ ic \in Contexts /\ ic' = [ic EXCEPT !.cursor = e]
      /\ ic.local /\ ic.cursor < Limit
      /\ Given(w, ic.cursor, e)
  BY <1>1 DEF TakeListed, TypeInv
<1>0. ic.cursor \in Nat /\ e \in Nat /\ ic.cursor < e /\ e <= Limit
  BY <1>1, <1>2, <1>3, Places
<1> HIDE DEF e
<1>4. /\ ic' \in Contexts /\ ic'.cursor = e /\ UNCHANGED bits
      /\ ic'.modified = ic.modified /\ ic'.granularity = ic.granularity
      /\ ic'.current_nf = ic.current_nf
  BY <1>0, <1>3 DEF Contexts, bits
<1>5. /\ task' \in [Workers -> Tasks]
      /\ task'[w].at = ic.cursor /\ task'[w].end = e
      /\ task'[w].step = task[w].step
      /\ \A v \in Workers \ {w} : task'[v] = task[v]
      /\ \A v \in Workers : task'[v].modified = task[v].modified
      /\ \A v \in Workers : task'[v].nf = task[v].nf
  <2>1. Given(w, ic.cursor, e)
    BY <1>3
  <2>2. ic.cursor \in Nat /\ e \in Nat
    BY <1>0
  <2> QED
    BY <1>1, <2>1, <2>2, TaskGiven
<1>6. Takes(w, e)
  <2>2. Aligned'
    BY <1>3, <1>4 DEF Aligned, bits
  <2>3. Ready(w) /\ ic'.local = ic.local /\ ic'.checklist = ic.checklist
    BY <1>4 DEF TakeListed, bits
  <2> QED
    BY <1>0, <1>2, <1>4, <1>5, <2>2, <2>3 DEF Takes
<1>7. InputInv' /\ TypeInv'
  BY <1>1, <1>2, <1>4, <1>5, SeenStays DEF InputInv, TypeInv, inputs, results
<1>8. Pending' = Pending /\ ClaimInv'
  BY <1>1, <1>6, PendingTaken
<1>9. CountInv'
  BY <1>1, <1>2, <1>4, <1>5, CountStays DEF bits
<1>10. Kept
  BY <1>4, <1>5, <1>8 DEF Kept, bits
<1> QED
  BY <1>2, <1>4, <1>7, <1>8, <1>9, <1>10, WorkStays DEF BallInv

LEMMA TakeChunkStep ==
  ASSUME BallInv, NEW w \in Workers, TakeChunk(w)
  PROVE  BallInv' /\ Kept
<1>1. InputInv /\ TypeInv /\ ClaimInv /\ CountInv
  BY DEF BallInv
<1>2. pc = "iterate" /\ pc' = pc /\ UNCHANGED inputs
      /\ UNCHANGED <<curr_state, next_state, results, spheres, left, runs>>
  BY DEF TakeChunk, Ready, WorksOn, shared
<1> DEFINE target == ic.arc + arc_granularity
           e == NextNode(target)
           arc == IF target >= num_arcs THEN ic.arc ELSE ArcsBefore(e)
<1>3. /\ ic \in Contexts /\ ic' = [ic EXCEPT !.cursor = e, !.arc = arc]
      /\ ~ic.local /\ ic.cursor < Limit
      /\ Given(w, ic.cursor, e)
  BY <1>1 DEF TakeChunk, TypeInv
<1>4. /\ e \in Nat /\ ic.cursor < e /\ e <= num_nodes
      /\ target >= num_arcs => e = num_nodes
  BY <1>1, <1>2, <1>3, ChunkHasNodes
<1>5. arc \in Nat /\ (e = num_nodes \/ arc = ArcsBefore(e))
  BY <1>1, <1>3, <1>4, ArcsCounted DEF Contexts
<1>0. ic.cursor \in Nat
  BY <1>3 DEF Contexts
<1> HIDE DEF target, e, arc
<1>6. /\ ic' \in Contexts /\ ic'.cursor = e /\ ic'.arc = arc /\ UNCHANGED bits
      /\ ic'.modified = ic.modified /\ ic'.granularity = ic.granularity
      /\ ic'.current_nf = ic.current_nf
  BY <1>3, <1>4, <1>5 DEF Contexts, bits
<1>7. /\ task' \in [Workers -> Tasks]
      /\ task'[w].at = ic.cursor /\ task'[w].end = e
      /\ task'[w].step = task[w].step
      /\ \A v \in Workers \ {w} : task'[v] = task[v]
      /\ \A v \in Workers : task'[v].modified = task[v].modified
      /\ \A v \in Workers : task'[v].nf = task[v].nf
  <2>1. Given(w, ic.cursor, e)
    BY <1>3
  <2>2. ic.cursor \in Nat /\ e \in Nat
    BY <1>0, <1>4
  <2> QED
    BY <1>1, <2>1, <2>2, TaskGiven
<1>8. Takes(w, e)
  <2>1. Limit = num_nodes
    BY <1>3 DEF Limit
  <2>2. Aligned'
    <3>1. \A k : ArcsBefore(k)' = ArcsBefore(k)
      BY <1>2 DEF ArcsBefore, inputs
    <3>2. num_nodes' = num_nodes
      BY <1>2, SeenStays
    <3> QED
      BY <1>5, <1>6, <3>1, <3>2 DEF Aligned
  <2>3. Ready(w) /\ ic'.local = ic.local /\ ic'.checklist = ic.checklist
    BY <1>6 DEF TakeChunk, bits
  <2> QED
    BY <1>2, <1>4, <1>6, <1>7, <2>1, <2>2, <2>3 DEF Takes
<1>9. InputInv' /\ TypeInv'
  BY <1>1, <1>2, <1>6, <1>7, SeenStays DEF InputInv, TypeInv, inputs, results
<1>10. Pending' = Pending /\ ClaimInv'
  BY <1>1, <1>8, PendingTaken
<1>11. CountInv'
  BY <1>1, <1>2, <1>6, <1>7, CountStays DEF bits
<1>12. Kept
  BY <1>6, <1>7, <1>10 DEF Kept, bits
<1> QED
  BY <1>2, <1>6, <1>9, <1>10, <1>11, <1>12, WorkStays DEF BallInv

LEMMA EndTaskStep ==
  ASSUME BallInv, NEW w \in Workers, EndTask(w)
  PROVE  /\ BallInv' /\ Pending' = Pending
         /\ ic'.current_nf = ic.current_nf + task[w].nf
         /\ ic'.systolic = ic.systolic /\ ic'.iteration = ic.iteration
         /\ task' \in [Workers -> Tasks] /\ task'[w].nf = 0
         /\ \A v \in Workers \ {w} : task'[v].nf = task[v].nf
<1>1. InputInv /\ TypeInv /\ ClaimInv /\ CountInv
  BY DEF BallInv
<1>2. pc = "iterate" /\ pc' = pc /\ UNCHANGED inputs /\ Ready(w)
      /\ UNCHANGED <<curr_state, next_state, results, spheres, left, runs>>
  BY DEF EndTask, Ready, WorksOn, shared
<1> DEFINE c == ic.current_nf + task[w].nf
           m == ic.modified + task[w].modified
<1>3. /\ ic \in Contexts /\ ic' = [ic EXCEPT !.current_nf = c, !.modified = m]
      /\ ic.cursor >= Limit
      /\ task' = [task EXCEPT ![w] = NoTask]
  BY <1>1 DEF EndTask, TypeInv
<1>4. c \in Nat /\ m \in Nat /\ ic.modified \in Nat
  BY <1>1, <1>3, TaskTypes DEF Contexts
<1> HIDE DEF c
<1>5. /\ ic' \in Contexts /\ ic'.cursor = ic.cursor /\ ic'.arc = ic.arc
      /\ UNCHANGED bits /\ ic'.current_nf = c
      /\ ic'.modified = m /\ ic'.granularity = ic.granularity
  <2> HIDE DEF m
  <2> QED
    BY <1>3, <1>4 DEF Contexts, bits
<1>6. /\ task' \in [Workers -> Tasks]
      /\ task'[w] = NoTask /\ \A v \in Workers \ {w} : task'[v] = task[v]
  <2>1. NoTask \in Tasks
    BY DEF NoTask, Tasks
  <2> QED
    BY <1>1, <1>3, <2>1 DEF TypeInv
<1>7. Leaves(w)
  BY <1>2, <1>3, <1>5, <1>6 DEF Leaves, bits
<1>8. InputInv' /\ TypeInv'
  BY <1>1, <1>2, <1>5, <1>6, SeenStays DEF InputInv, TypeInv, inputs, results
<1>9. Pending' = Pending /\ ClaimInv'
  BY <1>1, <1>7, PendingLeft
<1>10. CountInv'
  <2> DEFINE f == [v \in Workers |-> task[v].modified]
             g == [v \in Workers |-> task'[v].modified]
  <2>1. \A v \in Workers : f[v] \in Nat /\ g[v] \in Nat
    BY <1>1, <1>6 DEF TypeInv, Tasks
  <2>2. f[w] = task[w].modified /\ g[w] = 0 /\ \A v \in Workers \ {w} : f[v] = g[v]
    BY <1>6 DEF NoTask
  <2>3. ic.modified + SumFunctionOnSet(f, Workers) = Cardinality(ic.next_modified)
    BY <1>1, <1>2 DEF CountInv
  <2> HIDE DEF f, g
  <2>4. /\ SumFunctionOnSet(f, Workers) \in Nat /\ SumFunctionOnSet(g, Workers) \in Nat
        /\ SumFunctionOnSet(g, Workers) + f[w] = SumFunctionOnSet(f, Workers) + g[w]
    BY <2>1, <2>2, HyperBallAssumption, SumMoves
  <2>5. f[w] \in Nat /\ m = ic.modified + f[w]
    BY <2>1, <2>2
  <2>6. m + SumFunctionOnSet(g, Workers) = Cardinality(ic.next_modified)
    <3> HIDE DEF m
    <3> QED
      BY <1>4, <2>2, <2>3, <2>4, <2>5
  <2>7. ic'.modified + SumFunctionOnSet(g, Workers) = Cardinality(ic'.next_modified)
    BY <1>5, <2>6 DEF bits
  <2> QED
    BY <1>2, <2>7 DEF CountInv, g
<1>11. /\ ic'.current_nf = ic.current_nf + task[w].nf
       /\ ic'.systolic = ic.systolic /\ ic'.iteration = ic.iteration
       /\ task'[w].nf = 0 /\ \A v \in Workers \ {w} : task'[v].nf = task[v].nf
  BY <1>5, <1>6 DEF c, bits, NoTask
<1> QED
  BY <1>2, <1>5, <1>6, <1>8, <1>9, <1>10, <1>11, WorkStays DEF BallInv

(* One more increment in the sums of a node.                               *)
LEMMA SumsGrow ==
  ASSUME InputInv, NEW u \in Nodes, NEW t \in Nat,
         NEW s \in Seq([distance : Nat, size : Nat]), SumsOf(s, u, t)
  PROVE  IF Still(u, t) THEN SumsOf(s, u, t + 1)
         ELSE SumsOf(Append(s, Increment(u, t + 1)), u, t + 1)
<1> DEFINE Changes(k) == {e \in 1 .. k : Seen(u, e) # Seen(u, e - 1)}
           r == Increment(u, t + 1)
           R == [distance : Nat, size : Nat]
<1>1. /\ ToSet(s) = {Increment(u, d) : d \in Changes(t)} /\ IsInjective(s)
  BY DEF SumsOf
<1>2. 1 .. t + 1 = (1 .. t) \cup {t + 1} /\ (t + 1) - 1 = t /\ t + 1 \notin 1 .. t
  OBVIOUS
<1>3. CASE Still(u, t)
  <2>1. Changes(t + 1) = Changes(t)
    BY <1>2, <1>3 DEF Still
  <2> QED
    BY <1>1, <1>3, <2>1 DEF SumsOf
<1>4. CASE ~Still(u, t)
  <2>1. Changes(t + 1) = Changes(t) \cup {t + 1}
    BY <1>2, <1>4 DEF Still
  <2>2. r \in R /\ r.distance = t + 1
    BY <1>2, Grows DEF Increment
  <2> DEFINE n == Len(s)  q == Append(s, r)
  <2>3. n \in Nat /\ DOMAIN s = 1 .. n
    BY LenProperties
  <2>4. /\ DOMAIN q = 1 .. n + 1 /\ q[n + 1] = r
        /\ \A i \in 1 .. n : q[i] = s[i]
    <3>1. /\ q \in Seq(R) /\ Len(q) = n + 1 /\ q[n + 1] = r
          /\ \A i \in 1 .. n : q[i] = s[i]
      <4> HIDE DEF r
      <4> QED
        BY <2>2, AppendProperties
    <3> QED
      BY <3>1, LenProperties
  <2>5. \A i \in 1 .. n : s[i] \in {Increment(u, d) : d \in Changes(t)}
    BY <1>1, <2>3 DEF ToSet
  <2>6. \A i \in 1 .. n : s[i].distance \in 1 .. t
    <3> SUFFICES ASSUME NEW i \in 1 .. n PROVE s[i].distance \in 1 .. t
      OBVIOUS
    <3>1. PICK d \in Changes(t) : s[i] = Increment(u, d)
      BY <2>5
    <3> QED
      BY <3>1 DEF Increment
  <2> HIDE DEF n, q, r, R
  <2>7. IsInjective(q)
    <3> SUFFICES ASSUME NEW i \in 1 .. n + 1, NEW j \in 1 .. n + 1, q[i] = q[j]
                 PROVE  i = j
      BY <2>4 DEF IsInjective
    <3>1. \A k \in 1 .. n + 1 : k = n + 1 \/ k \in 1 .. n
      BY <2>3
    <3>2. \A k \in 1 .. n : q[k] # r
      BY <1>2, <2>2, <2>4, <2>6
    <3>3. CASE i \in 1 .. n /\ j \in 1 .. n
      BY <1>1, <2>3, <2>4, <3>3 DEF IsInjective
    <3> QED
      BY <2>4, <3>1, <3>2, <3>3
  <2>8. ToSet(q) = ToSet(s) \cup {r}
    <3>1. 1 .. n + 1 = (1 .. n) \cup {n + 1}
      BY <2>3
    <3> QED
      BY <2>3, <2>4, <3>1 DEF ToSet
  <2>9. ToSet(q) = {Increment(u, d) : d \in Changes(t + 1)}
    BY <1>1, <2>1, <2>8 DEF r
  <2> QED
    BY <1>4, <2>7, <2>9 DEF SumsOf, q, r
<1> QED
  BY <1>3, <1>4

-----------------------------------------------------------------------------
(* The steps that deal with a node.                                        *)

LEMMA ModifiedCounted ==
  ASSUME InputInv, TypeInv, CountInv, pc = "iterate", pc' = pc,
         task' \in [Workers -> Tasks], NEW w \in Workers,
         \A v \in Workers \ {w} : task'[v].modified = task[v].modified,
         ic'.modified = ic.modified, NEW u \in Nodes, u \notin ic.next_modified,
         NEW changed \in BOOLEAN,
         task'[w].modified = IF changed THEN task[w].modified + 1 ELSE task[w].modified,
         ic'.next_modified = IF changed THEN ic.next_modified \cup {u}
                             ELSE ic.next_modified
  PROVE  CountInv'
<1> DEFINE f == [v \in Workers |-> task[v].modified]
           g == [v \in Workers |-> task'[v].modified]
<1>1. \A v \in Workers : f[v] \in Nat /\ g[v] \in Nat
  BY DEF TypeInv, Tasks
<1>2. f[w] = task[w].modified /\ g[w] = task'[w].modified
      /\ \A v \in Workers \ {w} : f[v] = g[v]
  OBVIOUS
<1>3. ic.modified + SumFunctionOnSet(f, Workers) = Cardinality(ic.next_modified)
  BY DEF CountInv
<1>4. ic.modified \in Nat /\ IsFiniteSet(ic.next_modified)
  <2>1. ic.modified \in Nat /\ ic.next_modified \subseteq Nodes
    BY DEF TypeInv, Contexts
  <2> QED
    BY <2>1, GraphFacts, FS_Subset
<1>5. Cardinality(ic.next_modified \cup {u}) = Cardinality(ic.next_modified) + 1
      /\ Cardinality(ic.next_modified) \in Nat
  BY <1>4, FS_AddElement, FS_CardinalityType
<1> HIDE DEF f, g
<1>6. /\ SumFunctionOnSet(f, Workers) \in Nat /\ SumFunctionOnSet(g, Workers) \in Nat
      /\ SumFunctionOnSet(g, Workers) + f[w] = SumFunctionOnSet(f, Workers) + g[w]
  <2>1. IsFiniteSet(Workers)
    BY HyperBallAssumption
  <2>2. \A v \in Workers \ {w} : f[v] = g[v]
    BY <1>2
  <2> QED
    BY ONLY <1>1, <2>1, <2>2, w \in Workers, SumMoves
<1>7. ic'.modified + SumFunctionOnSet(g, Workers) = Cardinality(ic'.next_modified)
  <2>1. f[w] \in Nat
    BY <1>1
  <2>2. CASE changed
    <3>1. g[w] = f[w] + 1 /\ ic'.next_modified = ic.next_modified \cup {u}
      BY <1>2, <2>2
    <3> QED
      BY <1>3, <1>4, <1>5, <1>6, <2>1, <3>1
  <2>3. CASE ~changed
    <3>1. g[w] = f[w] /\ ic'.next_modified = ic.next_modified
      BY <1>2, <2>3
    <3> QED
      BY <1>3, <1>4, <1>6, <2>1, <3>1
  <2> QED
    BY <2>2, <2>3
<1> QED
  BY <1>7 DEF CountInv, g

(* The context after a node was dealt with: it may have been modified.     *)
HeardOf(u) ==
  /\ ic' \in Contexts
  /\ ic'.cursor = ic.cursor /\ ic'.arc = ic.arc /\ ic'.modified = ic.modified
  /\ ic'.granularity = ic.granularity /\ ic'.iteration = ic.iteration
  /\ ic'.current_nf = ic.current_nf
  /\ ic'.systolic = ic.systolic /\ ic'.local = ic.local
  /\ ic'.pre_local = ic.pre_local /\ ic'.checklist = ic.checklist
  /\ ic'.must_be_checked = ic.must_be_checked
  /\ ic'.curr_modified = ic.curr_modified
  /\ IF Still(u, ic.iteration)
     THEN /\ ic'.next_modified = ic.next_modified
          /\ ic'.next_checklist = ic.next_checklist
          /\ ic'.next_must_be_checked = ic.next_must_be_checked
     ELSE /\ ic'.next_modified = ic.next_modified \cup {u}
          /\ ic'.next_checklist =
               IF ic.pre_local THEN ic.next_checklist \cup {u} \cup Preds(u)
               ELSE ic.next_checklist
          /\ ic'.next_must_be_checked =
               IF ic.systolic /\ ~ic.pre_local
               THEN ic.next_must_be_checked \cup Preds(u)
               ELSE ic.next_must_be_checked

(* One pending node gets what it has to get.                               *)
LEMMA NodeDone ==
  ASSUME BallInv, pc = "iterate", pc' = pc, UNCHANGED <<inputs, curr_state, runs>>,
         NEW u \in Pending, Pending' = Pending \ {u}, HeardOf(u),
         next_state' = [v \in Nodes |->
                          IF v = u THEN Seen(u, ic.iteration + 1) ELSE next_state[v]],
         \A v \in Nodes \ {u} : spheres'[v] = spheres[v],
         SumsOf(spheres'[u], u, ic.iteration + 1)
  PROVE  BitsInv' /\ WorkInv' /\ ExactInv'
<1>1. InputInv /\ TypeInv /\ ClaimInv /\ BitsInv /\ WorkInv /\ ExactInv
  BY DEF BallInv
<1>2. Nodes' = Nodes /\ \A v : Preds(v)' = Preds(v)
  BY SeenStays
<1>3. \A v, t : Seen(v, t)' = Seen(v, t) /\ Still(v, t)' = Still(v, t)
  BY SeenStays
<1>4. u \in Nodes /\ Pending \subseteq Nodes
  BY <1>1, PendingIsNodes
<1>5. Nodes \ Pending' = (Nodes \ Pending) \cup {u}
  BY <1>4
<1>6. ic'.iteration = ic.iteration
  BY DEF HeardOf
<1>7. BitsInv'
  <2>1. /\ ic'.curr_modified = ic.curr_modified
        /\ ic'.systolic = ic.systolic /\ ic'.local = ic.local
        /\ ic'.must_be_checked = ic.must_be_checked
        /\ ic'.checklist = ic.checklist
    BY DEF HeardOf
  <2> QED
    BY <1>1, <1>2, <1>3, <1>6, <2>1 DEF BitsInv
<1>8. WorkInv'
  <2>1. ic'.next_modified \subseteq Nodes' \ Pending'
    BY <1>1, <1>2, <1>4, <1>5 DEF WorkInv, HeardOf
  <2>2. ic'.iteration > 0 =>
          \A v \in Pending' : next_state'[v] = Seen(v, ic.iteration - 1)'
    BY <1>1, <1>3, <1>4, <1>6 DEF WorkInv
  <2>3. \A v \in Nodes \ Pending' :
          /\ next_state'[v] = Seen(v, ic.iteration + 1)
          /\ v \notin ic'.next_modified => Still(v, ic.iteration)
    <3> SUFFICES ASSUME NEW v \in Nodes \ Pending'
                 PROVE  /\ next_state'[v] = Seen(v, ic.iteration + 1)
                        /\ v \notin ic'.next_modified => Still(v, ic.iteration)
      OBVIOUS
    <3>1. CASE v = u
      BY <1>4, <3>1 DEF HeardOf
    <3>2. CASE v # u
      <4>1. v \in Nodes \ Pending /\ next_state'[v] = next_state[v]
        BY <1>5, <3>2
      <4> QED
        BY <1>1, <3>2, <4>1 DEF WorkInv, HeardOf
    <3> QED
      BY <3>1, <3>2
  <2>4. ic'.systolic /\ ~ic'.pre_local =>
          \A v \in ic'.next_modified : Preds(v) \subseteq ic'.next_must_be_checked
    BY <1>1 DEF WorkInv, HeardOf
  <2>5. ic'.pre_local =>
          \A v \in ic'.next_modified : {v} \cup Preds(v) \subseteq ic'.next_checklist
    BY <1>1 DEF WorkInv, HeardOf
  <2> QED
    BY <1>2, <1>3, <1>6, <2>1, <2>2, <2>3, <2>4, <2>5 DEF WorkInv
<1>9. ExactInv'
  <2>1. \A v, t : v # u /\ v \in Nodes => SumsUpTo(v, t)' = SumsUpTo(v, t)
    BY SumsStay
  <2>2. \A t : Ball(t)' = Ball(t)
    BY SeenStays
  <2>3. SumsUpTo(u, ic.iteration + 1)'
    <3>1. \A d : Increment(u, d)' = Increment(u, d)
      BY <1>3 DEF Increment
    <3> QED
      BY <1>3, <1>6, <3>1 DEF SumsUpTo, SumsOf
  <2> QED
    BY <1>1, <1>2, <1>4, <1>5, <1>6, <2>1, <2>2, <2>3 DEF ExactInv
<1> QED
  BY <1>7, <1>8, <1>9

TaskDone(w, n, m) ==
  task' = [task EXCEPT ![w].at = @ + 1, ![w].nf = @ + n, ![w].modified = @ + m]

LEMMA TaskAdvanced ==
  ASSUME TypeInv, NEW w \in Workers, NEW n \in Nat, NEW m \in Nat, TaskDone(w, n, m)
  PROVE  /\ task' \in [Workers -> Tasks]
         /\ task'[w].at = task[w].at + 1 /\ task'[w].end = task[w].end
         /\ task'[w].step = task[w].step /\ task'[w].nf = task[w].nf + n
         /\ task'[w].modified = task[w].modified + m
         /\ \A v \in Workers \ {w} : task'[v] = task[v]
<1>1. task \in [Workers -> Tasks] /\ task[w] \in Tasks
  BY DEF TypeInv
<1> DEFINE a == task[w].at + 1  b == task[w].nf + n  c == task[w].modified + m
           r == [task[w] EXCEPT !.at = a, !.nf = b, !.modified = c]
<1>0. a \in Nat /\ b \in Nat /\ c \in Nat
  BY TaskTypes
<1>4. task' = [task EXCEPT ![w].at = a, ![w].nf = b, ![w].modified = c]
  BY <1>1 DEF TaskDone, Tasks
<1> HIDE DEF a, b, c
<1>2. /\ r \in Tasks /\ r.at = a /\ r.end = task[w].end
      /\ r.step = task[w].step /\ r.nf = b /\ r.modified = c
  BY <1>0, <1>1 DEF Tasks
<1>3. task' = [task EXCEPT ![w] = r]
  BY <1>1, <1>4
<1> HIDE DEF r
<1> QED
  BY <1>1, <1>2, <1>3 DEF a, b, c

(* What a checked node adds to the estimates, to what its thread has added  *)
(* up, and to the count of modified nodes.                                 *)
Delta(u) ==
  Cardinality(Seen(u, ic.iteration + 1)) - Cardinality(Seen(u, ic.iteration))
Counts(u) == IF ic.systolic THEN Delta(u)
             ELSE Cardinality(Seen(u, ic.iteration + 1))
Changes(u) == IF Still(u, ic.iteration) THEN 0 ELSE 1

Merges(u) ==
  /\ next_state' = [next_state EXCEPT ![u] = Merged(u)]
  /\ spheres' = IF Delta(u) > 0
       THEN [spheres EXCEPT ![u] =
               Append(@, [distance |-> ic.iteration + 1, size |-> Delta(u)])]
       ELSE spheres

Sound(u) ==
  /\ u \in Pending /\ u \in Nodes /\ ic.iteration \in Nat
  /\ Delta(u) \in Nat /\ (Delta(u) > 0 <=> ~Still(u, ic.iteration))
  /\ Delta(u) = Cardinality(Seen(u, ic.iteration + 1) \ Seen(u, ic.iteration))
  /\ Counts(u) \in Nat /\ Changes(u) \in Nat
  /\ curr_state[u] = Seen(u, ic.iteration)
  /\ Merged(u) = Seen(u, ic.iteration + 1)
  /\ (Merged(u) # curr_state[u] <=> ~Still(u, ic.iteration))

(* The step of a thread that deals with a node.                            *)
Deals(w, u, n, m) ==
  /\ pc = "iterate" /\ pc' = pc /\ UNCHANGED inputs
  /\ UNCHANGED <<curr_state, results, left, runs>>
  /\ task' \in [Workers -> Tasks]
  /\ task'[w].nf = task[w].nf + n
  /\ task'[w].modified = task[w].modified + m
  /\ \A v \in Workers \ {w} : task'[v] = task[v]
  /\ HeardOf(u) /\ Pending' = Pending \ {u} /\ ClaimInv'

LEMMA CheckNodeDeals ==
  ASSUME BallInv, NEW w \in Workers, CheckNode(w), NEW u, u = node(w)
  PROVE  Sound(u) /\ Merges(u) /\ Deals(w, u, Counts(u), Changes(u))
<1>1. InputInv /\ TypeInv /\ ClaimInv /\ CountInv /\ WorkInv /\ ExactInv
  BY DEF BallInv
<1>2. pc = "iterate" /\ pc' = pc /\ UNCHANGED inputs
      /\ WorksOn(w) /\ task[w].at < task[w].end
      /\ UNCHANGED <<curr_state, results, left, runs>>
  BY DEF CheckNode, WorksOn, shared
<1> DEFINE T == ic.iteration
           delta == Delta(u)
           n == Counts(u)
           m == Changes(u)
<1>3. u \in Pending /\ u \in Nodes
  BY <1>1, <1>2, NextNodePending
<1>4. T \in Nat /\ curr_state[u] = Seen(u, T) /\ Merged(u) = Seen(u, T + 1)
  BY <1>2, <1>3, MergedIsSeen
<1>5. /\ delta \in Nat /\ (delta > 0 <=> ~Still(u, T))
      /\ delta = Cardinality(Seen(u, T + 1) \ Seen(u, T))
      /\ n \in Nat /\ m \in Nat
      /\ (Merged(u) # curr_state[u] <=> ~Still(u, T))
  BY <1>1, <1>3, <1>4, Grows DEF Still, Delta, Counts, Changes
<1>6. /\ next_state' = [next_state EXCEPT ![u] = Merged(u)]
      /\ spheres' = IF delta > 0
           THEN [spheres EXCEPT ![u] =
                   Append(@, [distance |-> T + 1, size |-> delta])]
           ELSE spheres
      /\ ic' = IF Merged(u) # curr_state[u] THEN Heard(u) ELSE ic
      /\ TaskDone(w, n, m)
  <2> DEFINE prev == curr_state[u]
             next == prev \cup UNION {curr_state[s] :
                                        s \in graph[u] \cap ic.curr_modified}
  <2>1. next = Merged(u) /\ prev = Seen(u, T) /\ Merged(u) = Seen(u, T + 1)
    BY <1>4 DEF Merged
  <2>2. /\ next_state' = [next_state EXCEPT ![u] = next]
        /\ spheres' = IF Estimate(next) - Estimate(prev) > 0
             THEN [spheres EXCEPT ![u] =
                     Append(@, [distance |-> T + 1, size |-> Estimate(next) - Estimate(prev)])]
             ELSE spheres
        /\ ic' = IF next # prev THEN Heard(u) ELSE ic
        /\ task' = [task EXCEPT
             ![w].at = @ + 1,
             ![w].nf = @ + IF ic.systolic THEN Estimate(next) - Estimate(prev) ELSE Estimate(next),
             ![w].modified = IF next # prev THEN @ + 1 ELSE @]
    BY DEF CheckNode
  <2>3. Estimate(next) - Estimate(prev) = delta /\ Estimate(next) = Cardinality(Seen(u, T + 1))
    BY <2>1 DEF Estimate, Delta
  <2>4. (next # prev) <=> ~Still(u, T)
    BY <1>5, <2>1
  <2> HIDE DEF next, prev, delta, T
  <2>5. TaskDone(w, n, m)
    <3>1. task[w].modified \in Nat
      BY <1>1, TaskTypes
    <3>4. n = IF ic.systolic THEN delta ELSE Cardinality(Seen(u, T + 1))
      BY DEF Counts, T, delta
    <3>2. CASE Still(u, T)
      <4>1. m = 0 /\ ~(next # prev) /\ task[w].modified + 0 = task[w].modified
        BY <2>4, <3>1, <3>2 DEF Changes, T
      <4> QED
        BY <2>2, <2>3, <3>4, <4>1 DEF TaskDone
    <3>3. CASE ~Still(u, T)
      <4>1. m = 1 /\ next # prev
        BY <2>4, <3>3 DEF Changes, T
      <4> QED
        BY <2>2, <2>3, <3>4, <4>1 DEF TaskDone
    <3> QED
      BY <3>2, <3>3
  <2> QED
    BY <2>1, <2>2, <2>3, <2>5 DEF prev
<1> HIDE DEF n, m, delta
<1>7. /\ task' \in [Workers -> Tasks]
      /\ task'[w].at = task[w].at + 1 /\ task'[w].end = task[w].end
      /\ task'[w].step = task[w].step
      /\ task'[w].modified = task[w].modified + m
      /\ task'[w].nf = task[w].nf + n
      /\ \A v \in Workers \ {w} : task'[v] = task[v]
  BY <1>1, <1>5, <1>6, TaskAdvanced
<1>8. HeardOf(u)
  <2>1. ic \in Contexts /\ Preds(u) \subseteq Nodes /\ Contexts' = Contexts
    BY <1>1, <1>2, SeenStays DEF TypeInv, Preds
  <2>2. CASE Still(u, T)
    <3>1. ic' = ic
      BY <1>5, <1>6, <2>2
    <3> QED
      BY <2>1, <2>2, <3>1 DEF HeardOf
  <2>3. CASE ~Still(u, T)
    <3>1. ic' = Heard(u)
      BY <1>5, <1>6, <2>3
    <3> QED
      BY <1>3, <2>1, <2>3, <3>1 DEF HeardOf, Heard, Itself, Contexts
  <2> QED
    BY <2>2, <2>3
<1>9. Advances(w)
  BY <1>2, <1>7, <1>8 DEF Advances, HeardOf
<1>10. Pending' = Pending \ {u} /\ ClaimInv'
  BY <1>1, <1>9, PendingAfter
<1>11. Sound(u)
  BY <1>3, <1>4, <1>5 DEF Sound, delta, n, m
<1>12. Merges(u)
  BY <1>6 DEF Merges, delta
<1>13. Deals(w, u, Counts(u), Changes(u))
  BY <1>2, <1>7, <1>8, <1>10 DEF Deals, n, m
<1> QED
  BY <1>11, <1>12, <1>13

LEMMA CheckNodeStep ==
  ASSUME BallInv, NEW w \in Workers, CheckNode(w)
  PROVE  BallInv'
<1> DEFINE u == node(w)
           T == ic.iteration
           delta == Delta(u)
           m == Changes(u)
<1>1. InputInv /\ TypeInv /\ ClaimInv /\ CountInv /\ WorkInv /\ ExactInv
  BY DEF BallInv
<1>0. Sound(u) /\ Merges(u) /\ Deals(w, u, Counts(u), m)
  BY CheckNodeDeals
<1> HIDE DEF u
<1>2. /\ pc = "iterate" /\ pc' = pc /\ UNCHANGED inputs
      /\ UNCHANGED <<curr_state, results, left, runs>>
  BY <1>0 DEF Deals
<1>3. u \in Pending /\ u \in Nodes
  BY <1>0 DEF Sound
<1>4. T \in Nat /\ curr_state[u] = Seen(u, T) /\ Merged(u) = Seen(u, T + 1)
  BY <1>0 DEF Sound
<1>5. /\ delta \in Nat /\ (delta > 0 <=> ~Still(u, T))
      /\ delta = Cardinality(Seen(u, T + 1) \ Seen(u, T))
  BY <1>0 DEF Sound
<1>6. /\ next_state' = [next_state EXCEPT ![u] = Merged(u)]
      /\ spheres' = IF delta > 0
           THEN [spheres EXCEPT ![u] =
                   Append(@, [distance |-> T + 1, size |-> delta])]
           ELSE spheres
  BY <1>0 DEF Merges
<1>7. /\ task' \in [Workers -> Tasks]
      /\ task'[w].modified = task[w].modified + m
      /\ \A v \in Workers \ {w} : task'[v] = task[v]
  BY <1>0 DEF Deals
<1>8. HeardOf(u)
  BY <1>0 DEF Deals
<1>10. Pending' = Pending \ {u} /\ ClaimInv'
  BY <1>0 DEF Deals
<1> HIDE DEF m, delta
<1>11. next_state' = [v \in Nodes |-> IF v = u THEN Seen(u, T + 1) ELSE next_state[v]]
  <2>1. next_state = [v \in Nodes |-> next_state[v]]
    BY <1>1 DEF TypeInv
  <2> QED
    BY <1>4, <1>6, <2>1
<1>12. /\ spheres' \in [Nodes -> Seq([distance : Nat, size : Nat])]
       /\ \A v \in Nodes \ {u} : spheres'[v] = spheres[v]
       /\ SumsOf(spheres'[u], u, T + 1)
  <2> DEFINE R == [distance : Nat, size : Nat]
             r == [distance |-> T + 1, size |-> delta]
  <2>1. spheres \in [Nodes -> Seq(R)] /\ spheres[u] \in Seq(R)
    BY <1>1, <1>3 DEF TypeInv
  <2>2. SumsOf(spheres[u], u, T)
    BY <1>1, <1>2, <1>3 DEF ExactInv, SumsUpTo
  <2>3. r = Increment(u, T + 1) /\ r \in R
    <3>1. (T + 1) - 1 = T /\ T + 1 \in Nat
      BY <1>4
    <3> QED
      BY <1>4, <1>5, <3>1 DEF Increment
  <2>4. IF Still(u, T) THEN SumsOf(spheres[u], u, T + 1)
        ELSE SumsOf(Append(spheres[u], Increment(u, T + 1)), u, T + 1)
    BY <1>1, <1>3, <1>4, <2>1, <2>2, SumsGrow
  <2> HIDE DEF R, r, T
  <2>5. Append(spheres[u], r) \in Seq(R)
    BY <2>1, <2>3, AppendProperties
  <2>6. spheres' = IF Still(u, T) THEN spheres
                   ELSE [spheres EXCEPT ![u] = Append(@, r)]
    BY <1>5, <1>6 DEF r, T
  <2>7. CASE Still(u, T)
    BY <2>1, <2>4, <2>6, <2>7 DEF R
  <2>8. CASE ~Still(u, T)
    <3>1. spheres' = [spheres EXCEPT ![u] = Append(spheres[u], r)]
      BY <2>6, <2>8
    <3>2. /\ spheres' \in [Nodes -> Seq(R)] /\ spheres'[u] = Append(spheres[u], r)
          /\ \A v \in Nodes \ {u} : spheres'[v] = spheres[v]
      BY <1>3, <2>1, <2>5, <3>1
    <3> QED
      BY <2>3, <2>4, <2>8, <3>2 DEF R
  <2> QED
    BY <2>7, <2>8
<1>13. BitsInv' /\ WorkInv' /\ ExactInv'
  BY <1>2, <1>3, <1>8, <1>10, <1>11, <1>12, NodeDone
<1>14. InputInv' /\ TypeInv'
  <2>1. InputInv'
    BY <1>1, <1>2 DEF InputInv, inputs
  <2>2. ic' \in Contexts' /\ Nodes' = Nodes /\ ic'.granularity = ic.granularity
    BY <1>2, <1>8, SeenStays DEF HeardOf
  <2>3. next_state' = [v \in Nodes |-> next_state'[v]]
    BY <1>11
  <2> QED
    BY <1>1, <1>2, <1>7, <1>12, <2>1, <2>2, <2>3 DEF TypeInv, results
<1>15. CountInv'
  <2>1. u \notin ic.next_modified
    BY <1>1, <1>2, <1>3 DEF WorkInv
  <2>2. task[w].modified \in Nat
    BY <1>1, TaskTypes
  <2> DEFINE changed == ~Still(u, T)
  <2>3. changed \in BOOLEAN
    BY DEF Still
  <2>4. task'[w].modified = IF changed THEN task[w].modified + 1 ELSE task[w].modified
    BY <1>7, <2>2 DEF m, Changes
  <2>5. /\ ic'.next_modified = IF changed THEN ic.next_modified \cup {u}
                                ELSE ic.next_modified
        /\ ic'.modified = ic.modified
    BY <1>8 DEF HeardOf
  <2> HIDE DEF changed
  <2>6. \A v \in Workers \ {w} : task'[v].modified = task[v].modified
    BY <1>7
  <2> QED
    BY <1>1, <1>2, <1>3, <1>7, <2>1, <2>3, <2>4, <2>5, <2>6, ModifiedCounted
<1> QED
  BY <1>10, <1>13, <1>14, <1>15 DEF BallInv

LEMMA SkipNodeDeals ==
  ASSUME BallInv, NEW w \in Workers, SkipNode(w), NEW u, u = node(w)
  PROVE  /\ Deals(w, u, 0, 0) /\ u \in Pending /\ u \in Nodes
         /\ ic.systolic /\ ic.iteration \in Nat /\ ic.iteration > 0
         /\ curr_state[u] = Seen(u, ic.iteration) /\ Still(u, ic.iteration)
         /\ next_state' = Copied(u) /\ spheres' = spheres
<1>1. InputInv /\ TypeInv /\ ClaimInv /\ CountInv /\ BitsInv /\ WorkInv /\ ExactInv
  BY DEF BallInv
<1>2. pc = "iterate" /\ pc' = pc /\ UNCHANGED inputs
      /\ WorksOn(w) /\ task[w].at < task[w].end
      /\ UNCHANGED <<curr_state, results, left, runs, spheres, ic>>
  BY DEF SkipNode, WorksOn, shared
<1> DEFINE T == ic.iteration
<1>3. u \in Pending /\ u \in Nodes
  BY <1>1, <1>2, NextNodePending
<1>4. ~Checked(u) /\ next_state' = Copied(u) /\ task' = [task EXCEPT ![w].at = @ + 1]
  BY DEF SkipNode
<1>5. T \in Nat /\ curr_state[u] = Seen(u, T)
      /\ (graph[u] \cap ic.curr_modified = {} => Still(u, T))
  BY <1>2, <1>3, MergedIsSeen
<1> HIDE DEF T
<1>6. ic.systolic /\ ~ic.local /\ u \notin ic.must_be_checked /\ T > 0
  BY <1>1, <1>2, <1>4 DEF Checked, BitsInv, T
<1>7. graph[u] \cap ic.curr_modified = {}
  <2> SUFFICES ASSUME NEW s \in graph[u] \cap ic.curr_modified PROVE FALSE
    OBVIOUS
  <2>1. Preds(s) \subseteq ic.must_be_checked
    BY <1>1, <1>2, <1>6 DEF BitsInv
  <2>2. u \in Preds(s)
    BY <1>3 DEF Preds
  <2> QED
    BY <1>6, <2>1, <2>2
<1>8. Still(u, T)
  BY <1>5, <1>7
<1>9. /\ task' \in [Workers -> Tasks]
      /\ task'[w].at = task[w].at + 1 /\ task'[w].end = task[w].end
      /\ task'[w].step = task[w].step
      /\ task'[w].modified = task[w].modified /\ task'[w].nf = task[w].nf
      /\ \A v \in Workers \ {w} : task'[v] = task[v]
  <2> DEFINE a == task[w].at + 1  r == [task[w] EXCEPT !.at = a]
  <2>1. task[w] \in Tasks /\ a \in Nat /\ task \in [Workers -> Tasks]
    BY <1>1, TaskTypes DEF TypeInv
  <2>2. task' = [task EXCEPT ![w] = r]
    BY <1>4, <2>1 DEF Tasks
  <2> HIDE DEF a
  <2>3. r \in Tasks /\ r.at = a /\ r.end = task[w].end /\ r.step = task[w].step
        /\ r.modified = task[w].modified /\ r.nf = task[w].nf
    BY <2>1 DEF Tasks
  <2> HIDE DEF r
  <2> QED
    BY <2>1, <2>2, <2>3 DEF a
<1>10. HeardOf(u)
  <2>1. ic' = ic /\ ic \in Contexts /\ Contexts' = Contexts
    BY <1>1, <1>2, SeenStays DEF TypeInv
  <2> QED
    BY <1>8, <2>1 DEF HeardOf, T
<1>11. Advances(w)
  BY <1>2, <1>9 DEF Advances
<1>12. Pending' = Pending \ {u} /\ ClaimInv'
  BY <1>1, <1>11, PendingAfter
<1>13. Deals(w, u, 0, 0)
  <2>1. task[w].nf \in Nat /\ task[w].modified \in Nat
    BY <1>1, TaskTypes
  <2> QED
    BY <1>2, <1>9, <1>10, <1>12, <2>1 DEF Deals
<1> QED
  BY <1>2, <1>3, <1>4, <1>5, <1>6, <1>8, <1>13 DEF T

LEMMA SkipNodeStep ==
  ASSUME BallInv, NEW w \in Workers, SkipNode(w)
  PROVE  BallInv'
<1> DEFINE u == node(w)
           T == ic.iteration
<1>1. InputInv /\ TypeInv /\ ClaimInv /\ CountInv /\ BitsInv /\ WorkInv /\ ExactInv
  BY DEF BallInv
<1>0. /\ Deals(w, u, 0, 0) /\ u \in Pending /\ u \in Nodes
      /\ ic.systolic /\ T \in Nat /\ T > 0
      /\ curr_state[u] = Seen(u, T) /\ Still(u, T)
      /\ next_state' = Copied(u) /\ spheres' = spheres
  BY SkipNodeDeals
<1> HIDE DEF u, T
<1>2. /\ pc = "iterate" /\ pc' = pc /\ UNCHANGED inputs
      /\ UNCHANGED <<curr_state, results, left, runs, spheres>>
  BY <1>0 DEF Deals
<1>3. u \in Pending /\ u \in Nodes
  BY <1>0
<1>5. T \in Nat /\ T > 0 /\ curr_state[u] = Seen(u, T)
  BY <1>0
<1>8. Still(u, T)
  BY <1>0
<1>9. /\ task' \in [Workers -> Tasks]
      /\ \A v \in Workers : task'[v].modified = task[v].modified
  <2>1. task[w].modified \in Nat
    BY <1>1, TaskTypes
  <2>2. task'[w].modified = task[w].modified
    BY <1>0, <2>1 DEF Deals
  <2> QED
    BY <1>0, <2>2 DEF Deals
<1>10. HeardOf(u) /\ ic'.next_modified = ic.next_modified
       /\ ic'.modified = ic.modified
  BY <1>0, <1>8 DEF Deals, HeardOf, T
<1>12. Pending' = Pending \ {u} /\ ClaimInv'
  BY <1>0 DEF Deals
<1>13. next_state' = [v \in Nodes |-> IF v = u THEN Seen(u, T + 1) ELSE next_state[v]]
  <2>1. next_state = [v \in Nodes |-> next_state[v]]
    BY <1>1 DEF TypeInv
  <2>2. Seen(u, T + 1) = Seen(u, T)
    BY <1>8 DEF Still
  <2>3. CASE u \in ic.curr_modified
    <3>1. next_state' = [next_state EXCEPT ![u] = Seen(u, T + 1)]
      BY <1>0, <1>5, <2>2, <2>3 DEF Copied
    <3> QED
      BY <1>3, <2>1, <3>1
  <2>4. CASE u \notin ic.curr_modified
    <3>1. Still(u, T - 1)
      BY <1>1, <1>2, <1>3, <2>4 DEF BitsInv, T
    <3>2. (T - 1) + 1 = T
      BY <1>5
    <3>3. Seen(u, T) = Seen(u, T - 1)
      BY <3>1, <3>2 DEF Still
    <3>4. next_state[u] = Seen(u, T - 1)
      BY <1>1, <1>2, <1>3, <1>5 DEF WorkInv, T
    <3>5. next_state' = next_state
      BY <1>0, <2>4 DEF Copied
    <3> QED
      BY <2>1, <2>2, <3>3, <3>4, <3>5
  <2> QED
    BY <2>3, <2>4
<1>14. SumsOf(spheres'[u], u, T + 1)
  <2>1. spheres[u] \in Seq([distance : Nat, size : Nat])
    BY <1>1, <1>3 DEF TypeInv
  <2>2. SumsOf(spheres[u], u, T)
    BY <1>1, <1>2, <1>3 DEF ExactInv, SumsUpTo, T
  <2>3. SumsOf(spheres[u], u, T + 1)
    BY <1>1, <1>3, <1>5, <1>8, <2>1, <2>2, SumsGrow
  <2> QED
    BY <1>2, <2>3
<1>15. BitsInv' /\ WorkInv' /\ ExactInv'
  BY <1>2, <1>3, <1>10, <1>12, <1>13, <1>14, NodeDone DEF T
<1>16. InputInv' /\ TypeInv'
  <2>1. InputInv'
    BY <1>1, <1>2 DEF InputInv, inputs
  <2>2. ic' \in Contexts' /\ Nodes' = Nodes /\ ic'.granularity = ic.granularity
    BY <1>2, <1>10, SeenStays DEF HeardOf
  <2>3. next_state' = [v \in Nodes |-> next_state'[v]]
    BY <1>13
  <2> QED
    BY <1>1, <1>2, <1>9, <2>1, <2>2, <2>3 DEF TypeInv, results
<1>17. CountInv'
  BY <1>1, <1>2, <1>9, <1>10, CountStays
<1> QED
  BY <1>12, <1>15, <1>16, <1>17 DEF BallInv

-----------------------------------------------------------------------------
(* The steps between iterations.                                           *)

LEMMA CloseIterationStep ==
  ASSUME BallInv, CloseIteration
  PROVE  BallInv'
<1>1. InputInv /\ TypeInv /\ ClaimInv /\ CountInv /\ BitsInv /\ WorkInv /\ ExactInv
  BY DEF BallInv
<1>2. /\ pc = "iterate" /\ \A w \in Workers : task[w].step = "out"
      /\ UNCHANGED <<inputs, spheres, task, left, runs>>
      /\ curr_state' = next_state /\ next_state' = curr_state
      /\ last' = ic.current_nf
      /\ pc' = IF ic.modified = 0 THEN "idle" ELSE "loop"
  BY DEF CloseIteration
<1> DEFINE T == ic.iteration
           must == IF ic.systolic THEN ic.next_must_be_checked ELSE ic.must_be_checked
           next == IF ic.systolic THEN ic.must_be_checked ELSE ic.next_must_be_checked
<1>3. ic' = [ic EXCEPT !.curr_modified = ic.next_modified,
                       !.next_modified = ic.curr_modified,
                       !.must_be_checked = must, !.next_must_be_checked = next,
                       !.iteration = T + 1]
  BY DEF CloseIteration
<1>4. ic \in Contexts /\ T \in Nat /\ runs > 0
      /\ must \in SUBSET Nodes /\ next \in SUBSET Nodes
  BY <1>1, <1>2 DEF TypeInv, Contexts
<1>5. Nodes' = Nodes /\ Contexts' = Contexts /\ num_nodes' = num_nodes
      /\ \A u : Preds(u)' = Preds(u)
  BY <1>2, SeenStays
<1>6. \A u, t : Seen(u, t)' = Seen(u, t) /\ Still(u, t)' = Still(u, t)
  BY <1>2, SeenStays
<1> HIDE DEF must, next
<1>7. /\ ic' \in Contexts /\ ic'.iteration = T + 1
      /\ ic'.curr_modified = ic.next_modified /\ ic'.next_modified = ic.curr_modified
      /\ ic'.must_be_checked = must
      /\ ic'.systolic = ic.systolic /\ ic'.local = ic.local
      /\ ic'.pre_local = ic.pre_local /\ ic'.checklist = ic.checklist
      /\ ic'.next_checklist = ic.next_checklist
      /\ ic'.modified = ic.modified /\ ic'.granularity = ic.granularity
  <2> DEFINE d == T + 1
  <2>1. d \in Nat
    BY <1>4
  <2> HIDE DEF d
  <2>2. ic' = [ic EXCEPT !.curr_modified = ic.next_modified,
                         !.next_modified = ic.curr_modified,
                         !.must_be_checked = must, !.next_must_be_checked = next,
                         !.iteration = d]
    BY <1>3 DEF d
  <2>3. /\ ic' \in Contexts /\ ic'.iteration = d
        /\ ic'.curr_modified = ic.next_modified /\ ic'.next_modified = ic.curr_modified
        /\ ic'.must_be_checked = must
        /\ ic'.systolic = ic.systolic /\ ic'.local = ic.local
        /\ ic'.pre_local = ic.pre_local /\ ic'.checklist = ic.checklist
        /\ ic'.next_checklist = ic.next_checklist
        /\ ic'.modified = ic.modified /\ ic'.granularity = ic.granularity
    BY <1>4, <2>1, <2>2 DEF Contexts
  <2> QED
    BY <2>3 DEF d
<1>8. Pending = {}
  BY <1>1, <1>2, PendingNone
<1>9. next_state = Ball(T + 1)
  BY <1>1, <1>2, <1>8 DEF WorkInv, TypeInv, Ball
<1>10. curr_state = Ball(T)
  BY <1>1, <1>4 DEF ExactInv
<1>11. ic.modified <= num_nodes
  <2> DEFINE f == [w \in Workers |-> task[w].modified]
  <2>1. \A w \in Workers : f[w] \in Nat
    BY <1>1, TaskTypes
  <2>2. ic.modified + SumFunctionOnSet(f, Workers) = Cardinality(ic.next_modified)
    BY <1>1, <1>2 DEF CountInv
  <2> HIDE DEF f
  <2>3. SumFunctionOnSet(f, Workers) \in Nat
    BY <2>1, HyperBallAssumption, SumType
  <2>4. ic.next_modified \subseteq 0 .. num_nodes - 1 /\ num_nodes \in Nat
    BY <1>1, <1>4, GraphFacts DEF Contexts
  <2>5. Cardinality(ic.next_modified) <= num_nodes
        /\ Cardinality(ic.next_modified) \in Nat
    BY <2>4, CountInInterval
  <2>6. ic.modified \in Nat
    BY <1>4 DEF Contexts
  <2> QED
    BY <2>2, <2>3, <2>4, <2>5, <2>6
<1>12. InputInv' /\ TypeInv'
  <2>1. InputInv'
    BY <1>1, <1>2 DEF InputInv, inputs
  <2>2. next_state' = [u \in Nodes |-> next_state'[u]]
    BY <1>2, <1>10 DEF Ball
  <2>3. last' \in Nat
    BY <1>2, <1>4 DEF Contexts
  <2> QED
    BY <1>1, <1>2, <1>5, <1>7, <2>1, <2>2, <2>3 DEF TypeInv
<1>13. ClaimInv' /\ WorkInv'
  BY <1>2 DEF ClaimInv, WorkInv
<1>14. CountInv'
  <2>1. ic.modified \in Nat
    BY <1>4 DEF Contexts
  <2> QED
    BY <1>2, <1>5, <1>7, <1>11, <2>1 DEF CountInv
<1>15. BitsInv'
  <2> DEFINE M == ic.next_modified
  <2>1. T + 1 \in Nat /\ T + 1 > 0 /\ (T + 1) - 1 = T
    BY <1>4
  <2>2. \A u \in Nodes \ M : Still(u, T)
    BY <1>1, <1>2, <1>8 DEF WorkInv
  <2>4. ic.systolic /\ ~ic.pre_local => \A u \in M : Preds(u) \subseteq must
    BY <1>1, <1>2 DEF WorkInv, must
  <2>5. ic.pre_local => \A u \in M : {u} \cup Preds(u) \subseteq ic.next_checklist
    BY <1>1, <1>2 DEF WorkInv
  <2>6. ic.local => ic.curr_modified \subseteq ToSet(ic.checklist)
    BY <1>1, <1>2 DEF BitsInv
  <2>7. pc' # "iterate"
    BY <1>2
  <2> HIDE DEF T
  <2>8. next_state' = Ball(ic.iteration - 1)'
    <3>1. ic'.iteration - 1 = T
      BY <1>7, <2>1
    <3>2. \A t : Ball(t)' = Ball(t)
      BY <1>2, SeenStays
    <3> QED
      BY <1>2, <1>10, <3>1, <3>2
  <2>9. \A u \in Nodes \ M : Still(u, ic.iteration - 1)'
    <3>1. ic'.iteration - 1 = T
      BY <1>7, <2>1
    <3> QED
      BY <1>6, <2>2, <3>1
  <2> QED
    BY <1>5, <1>7, <2>1, <2>4, <2>5, <2>6, <2>7, <2>8, <2>9 DEF BitsInv
<1>16. ExactInv'
  <2>1. \A u, t : SumsUpTo(u, t)' = SumsUpTo(u, t)
    BY <1>2, SumsStay
  <2>2. \A t : Ball(t)' = Ball(t)
    BY <1>2, SeenStays
  <2>3. \A u \in Nodes : SumsUpTo(u, T + 1)
    BY <1>1, <1>2, <1>8 DEF ExactInv
  <2>4. pc' # "iterate"
    BY <1>2
  <2> QED
    BY <1>2, <1>5, <1>7, <1>9, <2>1, <2>2, <2>3, <2>4 DEF ExactInv
<1> QED
  BY <1>12, <1>13, <1>14, <1>15, <1>16 DEF BallInv

(* When an iteration begins, the nodes to deal with are pending.           *)
Opens(s, l) ==
  /\ pc = "loop" /\ pc' = "iterate" /\ UNCHANGED inputs
  /\ ic' \in Contexts
  /\ ic'.cursor = 0 /\ ic'.arc = 0 /\ ic'.modified = 0
  /\ ic'.granularity > 0
  /\ ic'.iteration = ic.iteration
  /\ ic'.systolic = s /\ ic'.local = ic.pre_local
  /\ ic'.checklist = l /\ ic'.curr_modified = ic.curr_modified
  /\ ic'.next_modified = {}
  /\ ic'.current_nf = IF s THEN last ELSE 0
  /\ s /\ ~ic.pre_local =>
       ic'.must_be_checked = IF ic.systolic THEN ic.must_be_checked ELSE Nodes
  /\ ic.pre_local =>
       IsInjective(l) /\ ToSet(l) = ic.next_checklist /\ l \in Seq(Nodes)
  /\ s => ic.iteration > 0
  /\ task' = [w \in Workers |-> [NoTask EXCEPT !.step = "work"]]

LEMMA PendingAll ==
  ASSUME InputInv, NEW s, NEW l, Opens(s, l)
  PROVE  /\ Pending' = IF ic.pre_local THEN ToSet(l) ELSE Nodes
         /\ ClaimInv'
<1>1. /\ num_nodes \in Nat /\ Nodes = 0 .. num_nodes - 1 /\ ArcsBefore(0) = 0
      /\ num_nodes' = num_nodes
  BY GraphFacts, ArcsCounted, SeenStays DEF Opens
<1>2. \A w \in Workers : task'[w].at = 0 /\ task'[w].end = 0 /\ task'[w].step = "work"
  BY DEF Opens, NoTask
<1>3. \A w \in Workers : Held(w)' = {}
  BY <1>2 DEF Held
<1>4. ic'.cursor = 0 /\ ic'.local = ic.pre_local /\ ic'.checklist = l /\ ic'.arc = 0
  BY DEF Opens
<1>5. Limit' = IF ic.pre_local THEN Len(l) ELSE num_nodes
  BY <1>1, <1>4 DEF Limit
<1>6. ic.pre_local => Len(l) \in Nat /\ DOMAIN l = 1 .. Len(l) /\ IsInjective(l)
  <2> SUFFICES ASSUME ic.pre_local
               PROVE  Len(l) \in Nat /\ DOMAIN l = 1 .. Len(l) /\ IsInjective(l)
    OBVIOUS
  <2>1. l \in Seq(Nodes) /\ IsInjective(l)
    BY DEF Opens
  <2> QED
    BY <2>1, LenProperties
<1>7. Waiting' = 0 .. Limit' - 1
  BY <1>3, <1>4 DEF Waiting
<1>8. Pending' = IF ic.pre_local THEN ToSet(l) ELSE Nodes
  <2>1. CASE ic.pre_local
    <3> DEFINE n == Len(l)
    <3>1. n \in Nat /\ DOMAIN l = 1 .. n
      BY <1>6, <2>1
    <3>2. Waiting' = 0 .. n - 1 /\ \A p : At(p)' = l[p + 1]
      BY <1>4, <1>5, <1>7, <2>1 DEF At
    <3>3. Pending' = {l[p + 1] : p \in 0 .. n - 1}
      BY <3>2 DEF Pending
    <3> HIDE DEF n
    <3>4. \A j \in 1 .. n : j - 1 \in 0 .. n - 1 /\ (j - 1) + 1 = j
      BY <3>1
    <3>5. \A p \in 0 .. n - 1 : p + 1 \in 1 .. n
      BY <3>1
    <3>6. {l[p + 1] : p \in 0 .. n - 1} = {l[j] : j \in 1 .. n}
      BY <3>4, <3>5
    <3> QED
      BY <2>1, <3>1, <3>3, <3>6 DEF ToSet
  <2>2. CASE ~ic.pre_local
    <3>1. Waiting' = 0 .. num_nodes - 1 /\ \A p : At(p)' = p
      BY <1>4, <1>5, <1>7, <2>2 DEF At
    <3> QED
      BY <1>1, <2>2, <3>1 DEF Pending
  <2> QED
    BY <2>1, <2>2
<1>9. Limit' \in Nat
  BY <1>1, <1>5, <1>6
<1>10. Aligned'
  <2>1. ArcsBefore(0)' = ArcsBefore(0)
    BY DEF ArcsBefore, Opens, inputs
  <2>2. ArcsBefore(ic.cursor)' = 0
    BY <1>1, <1>4, <2>1
  <2> QED
    BY <1>4, <2>2 DEF Aligned
<1>11. ClaimInv'
  <2>1. \A w \in Workers : task'[w].at <= task'[w].end /\ task'[w].end <= ic'.cursor
    BY <1>2, <1>4
  <2>2. \A w, v \in Workers : w # v => Held(w)' \cap Held(v)' = {}
    BY <1>3
  <2>3. ic'.cursor <= Limit' /\ (ic'.local => IsInjective(ic'.checklist))
    BY <1>4, <1>6, <1>9
  <2>4. \A w \in Workers : task'[w].step # "out"
    BY <1>2
  <2> QED
    BY <1>10, <2>1, <2>2, <2>3, <2>4 DEF ClaimInv
<1> QED
  BY <1>8, <1>11

LEMMA IterationOpens ==
  ASSUME BallInv, BeginIteration
  PROVE  LET s == has_transpose /\ ic.iteration > 0 /\ Few
             l == IF ic.pre_local THEN Increasing(ic.next_checklist) ELSE ic.checklist
         IN  Opens(s, l)
<1> DEFINE s == has_transpose /\ ic.iteration > 0 /\ Few
           l == IF ic.pre_local THEN Increasing(ic.next_checklist) ELSE ic.checklist
           nf == IF s THEN last ELSE 0
           pre == s /\ VeryFew
           nm == ic.next_modified \ StaleModified
           nc == IF ic.pre_local THEN {} ELSE ic.next_checklist
           nb == IF s /\ ~ic.pre_local THEN {} ELSE ic.next_must_be_checked
           mb == IF s /\ ~ic.pre_local THEN MustBeChecked ELSE ic.must_be_checked
           gr == Adapted(ic.pre_local)
<1>1. InputInv /\ TypeInv /\ CountInv /\ BitsInv
  BY DEF BallInv
<1>2. /\ pc = "loop" /\ pc' = "iterate" /\ UNCHANGED inputs
      /\ task' = [w \in Workers |-> [NoTask EXCEPT !.step = "work"]]
  BY DEF BeginIteration
<1>3. ic' = [ic EXCEPT
               !.systolic = s, !.current_nf = nf, !.local = ic.pre_local,
               !.pre_local = pre, !.next_modified = nm, !.checklist = l,
               !.next_checklist = nc, !.next_must_be_checked = nb,
               !.must_be_checked = mb, !.granularity = gr,
               !.cursor = 0, !.arc = 0, !.modified = 0]
  BY DEF BeginIteration
<1>4. /\ ic \in Contexts /\ last \in Nat
      /\ ic.iteration \in Nat /\ ic.pre_local \in BOOLEAN
      /\ ic.next_checklist \subseteq Nodes /\ ic.checklist \in Seq(Nodes)
      /\ ic.next_modified \subseteq Nodes /\ ic.must_be_checked \subseteq Nodes
      /\ ic.next_must_be_checked \subseteq Nodes
  BY <1>1 DEF TypeInv, Contexts
<1>5. s \in BOOLEAN /\ pre \in BOOLEAN /\ (s => ic.iteration > 0)
  BY DEF Few, VeryFew
<1>6. nf \in Nat /\ nc \subseteq Nodes /\ nb \subseteq Nodes /\ nm \subseteq Nodes
      /\ mb \subseteq Nodes
  BY <1>4 DEF MustBeChecked
<1>7. gr \in Nat /\ gr > 0
  BY <1>1, <1>2, AdaptedPositive
<1>8. nm = {}
  BY <1>1, <1>2 DEF BitsInv, StaleModified
<1>9. /\ l \in Seq(Nodes)
      /\ ic.pre_local => IsInjective(l) /\ ToSet(l) = ic.next_checklist
  <2>1. CASE ic.pre_local
    <3> DEFINE S == ic.next_checklist
    <3>1. num_nodes \in Nat /\ Nodes = 0 .. num_nodes - 1 /\ IsFiniteSet(Nodes)
      BY <1>1, GraphFacts
    <3>2. S \subseteq Nat /\ IsFiniteSet(S) /\ S \subseteq Nodes
      BY <1>4, <3>1, FS_Subset
    <3> HIDE DEF S
    <3>3. Increasing(S) \in Seq(S) /\ ToSet(Increasing(S)) = S
          /\ IsInjective(Increasing(S))
      BY <3>2, IncreasingLists, IncreasingAll, IncreasingInjective
    <3>4. Increasing(S) \in Seq(Nodes)
      <4> DEFINE q == Increasing(S)
      <4>1. q \in Seq(S) /\ S \subseteq Nodes
        BY <3>2, <3>3
      <4> HIDE DEF q
      <4>2. Len(q) \in Nat /\ q \in [1 .. Len(q) -> S]
        BY <4>1, LenProperties
      <4>3. q \in [1 .. Len(q) -> Nodes]
        BY <4>1, <4>2
      <4>4. q \in Seq(Nodes)
        BY <4>2, <4>3
      <4> QED
        BY <4>4 DEF q
    <3> QED
      BY <2>1, <3>3, <3>4 DEF S
  <2>2. CASE ~ic.pre_local
    BY <1>4, <2>2
  <2> QED
    BY <2>1, <2>2
<1>10. s /\ ~ic.pre_local =>
         mb = IF ic.systolic THEN ic.must_be_checked ELSE Nodes
  BY DEF MustBeChecked
<1> HIDE DEF s, l, nf, pre, nm, nc, nb, mb, gr
<1>11. /\ ic' \in Contexts
       /\ ic'.cursor = 0 /\ ic'.arc = 0 /\ ic'.modified = 0
       /\ ic'.granularity = gr /\ ic'.iteration = ic.iteration
       /\ ic'.systolic = s /\ ic'.local = ic.pre_local
       /\ ic'.checklist = l /\ ic'.curr_modified = ic.curr_modified
       /\ ic'.next_modified = nm /\ ic'.must_be_checked = mb
       /\ ic'.current_nf = nf
  BY <1>3, <1>4, <1>5, <1>6, <1>7, <1>9 DEF Contexts
<1>12. Opens(s, l)
  BY <1>2, <1>5, <1>7, <1>8, <1>9, <1>10, <1>11 DEF Opens, nf
<1> QED
  BY <1>12 DEF s, l

LEMMA BeginIterationStep ==
  ASSUME BallInv, BeginIteration
  PROVE  BallInv'
<1>1. InputInv /\ TypeInv /\ CountInv /\ BitsInv /\ ExactInv
  BY DEF BallInv
<1>2. PICK s, l : Opens(s, l)
  BY IterationOpens
<1> DEFINE T == ic.iteration
           M == ic.curr_modified
           P == IF ic.pre_local THEN ToSet(l) ELSE Nodes
<1>3. /\ pc = "loop" /\ pc' = "iterate" /\ UNCHANGED inputs
      /\ UNCHANGED <<curr_state, next_state, results, spheres, runs>>
      /\ left > 0 /\ left' = left - 1
  BY DEF BeginIteration
<1>4. Nodes' = Nodes /\ Contexts' = Contexts /\ \A u : Preds(u)' = Preds(u)
  BY <1>3, SeenStays
<1>5. \A u, t : Seen(u, t)' = Seen(u, t) /\ Still(u, t)' = Still(u, t)
  BY <1>3, SeenStays
<1>6. Pending' = P /\ ClaimInv'
  BY <1>1, <1>2, PendingAll
<1>7. /\ T \in Nat /\ runs > 0
      /\ \A u \in Nodes \ M : T > 0 /\ Still(u, T - 1)
      /\ (T > 0 => next_state = Ball(T - 1)) /\ curr_state = Ball(T)
      /\ (ic.pre_local => T > 0)
  BY <1>1, <1>3 DEF TypeInv, Contexts, BitsInv, ExactInv
<1>8. P \subseteq Nodes
  BY <1>1, <1>2 DEF Opens, TypeInv, Contexts
<1>9. ASSUME NEW u \in Nodes \ P
      PROVE  T > 0 /\ Still(u, T - 1) /\ Still(u, T)
  <2>1. ic.pre_local /\ u \notin ic.next_checklist
    BY <1>2, <1>9 DEF Opens
  <2>2. \A x \in M : {x} \cup Preds(x) \subseteq ic.next_checklist
    BY <1>1, <1>3, <2>1 DEF BitsInv
  <2>3. u \notin M /\ graph[u] \cap M = {}
    BY <1>9, <2>1, <2>2 DEF Preds
  <2>4. T > 0 /\ Still(u, T - 1)
    BY <1>7, <1>9, <2>3
  <2>5. Still(u, T)
    <3> HIDE DEF T, M
    <3> QED
      BY <1>1, <1>7, <1>9, <2>3, NewsFromModified
  <2> QED
    BY <2>4, <2>5
<1>10. /\ ic'.iteration = T /\ ic'.curr_modified = M /\ ic'.next_modified = {}
       /\ ic'.modified = 0
       /\ ic'.systolic = s /\ ic'.local = ic.pre_local /\ ic'.checklist = l
  BY <1>2 DEF Opens
<1> HIDE DEF P
<1>11. InputInv' /\ TypeInv'
  <2>1. InputInv'
    BY <1>1, <1>3 DEF InputInv, inputs
  <2>2. task' \in [Workers -> Tasks]
    BY <1>2 DEF Opens, NoTask, Tasks
  <2>3. left' \in Nat
    BY <1>1, <1>3 DEF TypeInv
  <2>4. ic' \in Contexts' /\ ic'.granularity > 0
    BY <1>2, <1>4 DEF Opens
  <2> QED
    BY <1>1, <1>3, <1>4, <2>1, <2>2, <2>3, <2>4 DEF TypeInv, results
<1>12. CountInv'
  <2> DEFINE f == [w \in Workers |-> task'[w].modified]
  <2>1. \A w \in Workers : f[w] = 0
    BY <1>2 DEF Opens, NoTask
  <2> HIDE DEF f
  <2>2. SumFunctionOnSet(f, Workers) = 0
    BY <2>1, HyperBallAssumption, SumZero
  <2>3. ic'.modified + SumFunctionOnSet(f, Workers) = Cardinality(ic'.next_modified)
    BY <1>10, <2>2, FS_EmptySet
  <2> QED
    BY <1>3, <2>3 DEF CountInv, f
<1>13. BitsInv'
  <2>1. s /\ ~ic.pre_local => \A u \in M : Preds(u) \subseteq ic'.must_be_checked
    <3> SUFFICES ASSUME s, ~ic.pre_local, NEW u \in M
                 PROVE  Preds(u) \subseteq ic'.must_be_checked
      OBVIOUS
    <3>1. ic'.must_be_checked = IF ic.systolic THEN ic.must_be_checked ELSE Nodes
      BY <1>2 DEF Opens
    <3>2. Preds(u) \subseteq Nodes
      BY DEF Preds
    <3>3. ic.systolic => Preds(u) \subseteq ic.must_be_checked
      BY <1>1, <1>3 DEF BitsInv
    <3> QED
      BY <3>1, <3>2, <3>3
  <2>2. ic.pre_local => \A u \in M : {u} \cup Preds(u) \subseteq ToSet(l)
    BY <1>1, <1>2, <1>3 DEF BitsInv, Opens
  <2>3. s => T > 0
    BY <1>2 DEF Opens
  <2>4. \A u \in Nodes \ M : Still(u, ic.iteration - 1)'
    BY <1>5, <1>7, <1>10
  <2>5. pc' = "iterate"
    BY <1>3
  <2> HIDE DEF T, M
  <2>6. \A u \in Nodes' \ ic'.curr_modified :
          ic'.iteration > 0 /\ Still(u, ic.iteration - 1)'
    BY <1>4, <1>7, <1>10, <2>4
  <2> QED
    BY <1>4, <1>7, <1>10, <2>1, <2>2, <2>3, <2>5, <2>6 DEF BitsInv
<1>14. WorkInv'
  <2>1. T > 0 => \A u \in P : next_state[u] = Seen(u, T - 1)
    BY <1>7, <1>8 DEF Ball
  <2>2. \A u \in Nodes \ P : next_state[u] = Seen(u, T + 1)
    <3> SUFFICES ASSUME NEW u \in Nodes \ P PROVE next_state[u] = Seen(u, T + 1)
      OBVIOUS
    <3>1. T > 0 /\ Still(u, T - 1) /\ Still(u, T) /\ (T - 1) + 1 = T
      BY <1>7, <1>9
    <3>2. next_state[u] = Seen(u, T - 1)
      BY <1>7, <3>1 DEF Ball
    <3> QED
      BY <3>1, <3>2 DEF Still
  <2>3. \A u \in Nodes \ P : Still(u, T)
    BY <1>9
  <2>4. T > 0 => \A u \in P : next_state'[u] = Seen(u, ic.iteration - 1)'
    BY <1>3, <1>5, <1>10, <2>1
  <2>5. \A u \in Nodes \ P :
          next_state'[u] = Seen(u, ic.iteration + 1)' /\ Still(u, ic.iteration)'
    BY <1>3, <1>5, <1>10, <2>2, <2>3
  <2> HIDE DEF T
  <2> QED
    BY <1>4, <1>6, <1>10, <2>4, <2>5 DEF WorkInv
<1>15. ExactInv'
  <2>1. \A u, t : SumsUpTo(u, t)' = SumsUpTo(u, t)
    BY <1>3, SumsStay
  <2>2. \A t : Ball(t)' = Ball(t)
    BY <1>3, SeenStays
  <2>3. \A u \in Nodes : SumsUpTo(u, T)
    BY <1>1, <1>3, <1>7 DEF ExactInv
  <2>4. ASSUME NEW u \in Nodes \ P PROVE SumsUpTo(u, T + 1)
    <3>1. spheres[u] \in Seq([distance : Nat, size : Nat])
      BY <1>1 DEF TypeInv
    <3>2. SumsOf(spheres[u], u, T) /\ Still(u, T)
      BY <1>9, <2>3 DEF SumsUpTo
    <3>3. SumsOf(spheres[u], u, T + 1)
      <4> HIDE DEF T
      <4> QED
        BY <1>1, <1>7, <3>1, <3>2, SumsGrow
    <3> QED
      BY <3>3 DEF SumsUpTo
  <2>5. runs' > 0 => curr_state' = Ball(ic.iteration)'
    BY <1>3, <1>7, <1>10, <2>2
  <2>6. \A u \in P : SumsUpTo(u, ic.iteration)'
    BY <1>8, <1>10, <2>1, <2>3
  <2>7. \A u \in Nodes \ P : SumsUpTo(u, ic.iteration + 1)'
    BY <1>10, <2>1, <2>4
  <2>8. pc' = "iterate"
    BY <1>3
  <2> QED
    BY <1>4, <1>6, <2>5, <2>6, <2>7, <2>8 DEF ExactInv
<1> QED
  BY <1>6, <1>11, <1>12, <1>13, <1>14, <1>15 DEF BallInv

LEMMA StartRunStep ==
  ASSUME BallInv, StartRun
  PROVE  BallInv'
<1>1. InputInv /\ TypeInv
  BY DEF BallInv
<1>2. /\ pc = "idle" /\ pc' = "loop" /\ runs' = runs + 1
      /\ UNCHANGED <<inputs, task>>
      /\ curr_state' = items /\ next_state' = Empty /\ last' = num_nodes
      /\ spheres' = [u \in Nodes |-> << >>]
  BY DEF StartRun
<1>3. num_nodes \in Nat /\ granularity \in Nat /\ granularity > 0
  BY <1>1, GraphFacts, HyperBallAssumption DEF InputInv
<1>4. /\ Nodes' = Nodes /\ Contexts' = Contexts /\ num_nodes' = num_nodes
      /\ \A t : Ball(t)' = Ball(t)
  BY <1>2, SeenStays
<1>5. ic \in Contexts /\ Nodes \in SUBSET Nodes
  BY <1>1 DEF TypeInv
<1>6. /\ ic' \in Contexts /\ ic'.iteration = 0 /\ ic'.curr_modified = Nodes
      /\ ic'.systolic = FALSE /\ ic'.local = FALSE /\ ic'.pre_local = FALSE
      /\ ic'.granularity = granularity /\ ic'.modified = 0
  <2>1. ic' = [ic EXCEPT !.iteration = 0, !.systolic = FALSE, !.local = FALSE,
                      !.pre_local = FALSE, !.curr_modified = Nodes,
                      !.granularity = granularity, !.cursor = 0, !.arc = 0,
                      !.modified = 0]
    BY DEF StartRun
  <2> QED
    BY <1>3, <1>5, <2>1 DEF Contexts
<1>7. left' \in Nat
  BY <1>3, HyperBallAssumption DEF StartRun, AtMost
<1>8. InputInv'
  BY <1>1, <1>2 DEF InputInv, inputs
<1>9. TypeInv'
  <2>1. spheres' \in [Nodes -> Seq([distance : Nat, size : Nat])]
    <3>1. << >> \in Seq([distance : Nat, size : Nat])
      BY EmptySeq
    <3> QED
      BY <1>2, <3>1
  <2>2. next_state' = [u \in Nodes |-> next_state'[u]]
    BY <1>2 DEF Empty
  <2>3. task' \in [Workers -> Tasks] /\ runs' \in Nat /\ runs' > 0
    BY <1>1, <1>2 DEF TypeInv
  <2> QED
    BY <1>2, <1>3, <1>4, <1>6, <1>7, <2>1, <2>2, <2>3 DEF TypeInv
<1>10. ClaimInv' /\ CountInv' /\ WorkInv'
  BY <1>2, <1>3, <1>4, <1>6 DEF ClaimInv, CountInv, WorkInv
<1>11. BitsInv'
  <2>1. Nodes' \ ic'.curr_modified = {}
    BY <1>4, <1>6
  <2> QED
    BY <1>2, <1>6, <2>1 DEF BitsInv
<1>12. ExactInv'
  <2>1. curr_state' = Ball(0)
    <3>1. items = [u \in Nodes |-> items[u]]
      BY <1>1, GraphFacts
    <3>2. \A u \in Nodes : Seen(u, 0) = items[u]
      BY <1>1, SeenFacts
    <3>3. Ball(0) = [u \in Nodes |-> items[u]]
      BY <3>2 DEF Ball
    <3> QED
      BY <1>2, <3>1, <3>3
  <2>2. curr_state' = Ball(ic.iteration)'
    BY <1>4, <1>6, <2>1
  <2>3. \A u \in Nodes : SumsUpTo(u, ic.iteration)'
    <3>1. \A u \in Nodes : spheres'[u] = << >>
      BY <1>2
    <3>2. \A u \in Nodes : SumsOf(<< >>, u, 0)'
      <4> SUFFICES ASSUME NEW u \in Nodes PROVE SumsOf(<< >>, u, 0)'
        OBVIOUS
      <4>1. DOMAIN << >> = {} /\ 1 .. 0 = {}
        OBVIOUS
      <4>2. ToSet(<< >>) = {} /\ IsInjective(<< >>)
        BY <4>1 DEF ToSet, IsInjective
      <4> QED
        BY <4>1, <4>2 DEF SumsOf
    <3> QED
      BY <1>4, <1>6, <3>1, <3>2 DEF SumsUpTo
  <2> QED
    BY <1>2, <1>4, <2>2, <2>3 DEF ExactInv
<1> QED
  BY <1>8, <1>9, <1>10, <1>11, <1>12 DEF BallInv

LEMMA BallUnchanged ==
  ASSUME BallInv, UNCHANGED vars
  PROVE  BallInv'
<1>1. InputInv /\ TypeInv /\ ClaimInv /\ CountInv /\ BitsInv /\ WorkInv /\ ExactInv
  BY DEF BallInv
<1>2. /\ graph' = graph /\ items' = items /\ has_transpose' = has_transpose
      /\ granularity' = granularity /\ curr_state' = curr_state
      /\ next_state' = next_state /\ last' = last /\ spheres' = spheres
      /\ ic' = ic /\ task' = task /\ pc' = pc /\ left' = left /\ runs' = runs
      /\ UNCHANGED inputs
  BY DEF vars, inputs, results
<1>3. InputInv' /\ TypeInv'
  BY <1>1, <1>2 DEF InputInv, TypeInv, Nodes, Contexts
<1>4. Pending' = Pending /\ Limit' = Limit /\ num_nodes' = num_nodes /\ Nodes' = Nodes
  BY <1>2 DEF Pending, Waiting, Held, At, Limit, num_nodes, Nodes
<1>5. ClaimInv'
  BY <1>1, <1>2, <1>4 DEF ClaimInv, Held, Aligned, ArcsBefore, NoTask
<1>6. CountInv'
  BY <1>1, <1>2, <1>4 DEF CountInv
<1>7. /\ \A u, t : Seen(u, t)' = Seen(u, t) /\ Still(u, t)' = Still(u, t)
      /\ \A t : Ball(t)' = Ball(t) /\ \A u : Preds(u)' = Preds(u)
  BY <1>2, SeenStays
<1>8. \A u, t : SumsUpTo(u, t)' = SumsUpTo(u, t)
  BY <1>2, SumsStay
<1>9. BitsInv' /\ WorkInv' /\ ExactInv'
  <2>1. /\ Ball(ic.iteration - 1)' = Ball(ic.iteration - 1)
        /\ Ball(ic.iteration)' = Ball(ic.iteration)
    BY <1>2, <1>7
  <2>2. \A u : /\ Still(u, ic.iteration - 1)' = Still(u, ic.iteration - 1)
               /\ Still(u, ic.iteration)' = Still(u, ic.iteration)
               /\ Seen(u, ic.iteration - 1)' = Seen(u, ic.iteration - 1)
               /\ Seen(u, ic.iteration + 1)' = Seen(u, ic.iteration + 1)
               /\ SumsUpTo(u, ic.iteration)' = SumsUpTo(u, ic.iteration)
               /\ SumsUpTo(u, ic.iteration + 1)' = SumsUpTo(u, ic.iteration + 1)
    BY <1>2, <1>7, <1>8
  <2>3. BitsInv'
    BY <1>1, <1>2, <1>4, <1>7, <2>1, <2>2 DEF BitsInv
  <2>4. WorkInv'
    BY <1>1, <1>2, <1>4, <1>7, <2>1, <2>2 DEF WorkInv
  <2>5. ExactInv'
    BY <1>1, <1>2, <1>4, <1>7, <2>1, <2>2 DEF ExactInv
  <2> QED
    BY <2>3, <2>4, <2>5
<1> QED
  BY <1>3, <1>5, <1>6, <1>9 DEF BallInv

LEMMA BallInit == Init => BallInv
<1> SUFFICES ASSUME Init PROVE BallInv
  OBVIOUS
<1>1. InputInv
  BY DEF Init, InputInv
<1>2. ic = Context /\ pc = "idle" /\ runs = 0 /\ left = 0 /\ last = 0
      /\ next_state = Empty /\ spheres = [u \in Nodes |-> << >>]
      /\ task = [w \in Workers |-> NoTask]
  BY DEF Init
<1>3. TypeInv
  <2>1. << >> \in Seq([distance : Nat, size : Nat]) /\ << >> \in Seq(Nodes)
    BY EmptySeq
  <2>2. ic \in Contexts
    BY <1>2, <2>1 DEF Context, Contexts
  <2>3. task \in [Workers -> Tasks]
    BY <1>2 DEF NoTask, Tasks
  <2>4. spheres \in [Nodes -> Seq([distance : Nat, size : Nat])]
    BY <1>2, <2>1
  <2>5. next_state = [u \in Nodes |-> next_state[u]]
    BY <1>2 DEF Empty
  <2> QED
    BY <1>2, <2>2, <2>3, <2>4, <2>5 DEF TypeInv
<1>4. ClaimInv /\ CountInv /\ BitsInv /\ WorkInv /\ ExactInv
  BY <1>2 DEF ClaimInv, CountInv, BitsInv, WorkInv, ExactInv
<1> QED
  BY <1>1, <1>3, <1>4 DEF BallInv

LEMMA BallStep == BallInv /\ [Next]_vars => BallInv'
<1> SUFFICES ASSUME BallInv, [Next]_vars PROVE BallInv'
  OBVIOUS
<1>1. CASE StartRun
  BY <1>1, StartRunStep
<1>2. CASE BeginIteration
  BY <1>2, BeginIterationStep
<1>3. CASE CloseIteration
  BY <1>3, CloseIterationStep
<1>4. CASE StopRun
  BY <1>4, StopRunStep
<1>5. ASSUME NEW w \in Workers, Worker(w) PROVE BallInv'
  <2>1. CASE TakeListed(w)
    BY <2>1, TakeListedStep
  <2>2. CASE TakeChunk(w)
    BY <2>2, TakeChunkStep
  <2>3. CASE CheckNode(w)
    BY <2>3, CheckNodeStep
  <2>4. CASE SkipNode(w)
    BY <2>4, SkipNodeStep
  <2>5. CASE EndTask(w)
    BY <2>5, EndTaskStep
  <2> QED
    BY <1>5, <2>1, <2>2, <2>3, <2>4, <2>5 DEF Worker
<1>6. CASE UNCHANGED vars
  BY <1>6, BallUnchanged
<1> QED
  BY <1>1, <1>2, <1>3, <1>4, <1>5, <1>6 DEF Next, Main

-----------------------------------------------------------------------------
(* Distances and centralities sum up, at each distance, the items first    *)
(* met there, once: whatever mode each iteration chose, and whatever       *)
(* thread dealt with a node.                                               *)
THEOREM SpheresExactTheorem == Spec => []SpheresExact
<1>1. Init => BallInv
  BY BallInit
<1>2. BallInv /\ [Next]_vars => BallInv'
  BY BallStep
<1>3. BallInv => SpheresExact
  <2> SUFFICES ASSUME BallInv, pc # "iterate", runs > 0, NEW u \in Nodes
               PROVE
      /\ ToSet(spheres[u]) =
           {[distance |-> t, size |-> Cardinality(Seen(u, t) \ Seen(u, t - 1))] :
              t \in {d \in 1 .. ic.iteration : Seen(u, d) # Seen(u, d - 1)}}
      /\ IsInjective(spheres[u])
    BY DEF SpheresExact
  <2>1. SumsUpTo(u, ic.iteration)
    BY DEF BallInv, ExactInv
  <2> QED
    BY <2>1 DEF SumsUpTo, SumsOf, Increment
<1> QED
  BY <1>1, <1>2, <1>3, PTL DEF Spec

-----------------------------------------------------------------------------
(* The neighborhood function.  What an iteration has added up so far is    *)
(* the sum over all nodes of the estimates of those dealt with and, in a   *)
(* systolic iteration, of the old estimates of the others.                 *)
Gains ==
  [u \in Nodes |->
     IF u \notin Pending THEN Cardinality(Seen(u, ic.iteration + 1))
     ELSE IF ic.systolic THEN Cardinality(Seen(u, ic.iteration)) ELSE 0]
Partial == [w \in Workers |-> task[w].nf]
Estimates(t) == [u \in Nodes |-> Cardinality(Seen(u, t))]
SumOver(f) == SumFunctionOnSet(f, Nodes)
Compensated == ic.local => ic.systolic

ValuesInv ==
  /\ runs = 0 => neighborhood_function = << >>
  /\ runs > 0 =>
       /\ neighborhood_function \in Seq(Nat) /\ neighborhood_function # << >>
       /\ Last(neighborhood_function) = SumOver(Estimates(ic.iteration))
       /\ last = SumOver(Estimates(ic.iteration))
TotalInv ==
  pc = "iterate" =>
    ic.current_nf + SumFunctionOnSet(Partial, Workers) = SumOver(Gains)

(* As many items as nodes: the first value is the number of nodes.         *)
ItemPerNode ==
  \A i \in Inputs :
    SumFunctionOnSet([u \in DOMAIN i.graph |-> Cardinality(i.items[u])],
                     DOMAIN i.graph) = Cardinality(DOMAIN i.graph)

LEMMA EstimateTypes ==
  ASSUME InputInv, NEW t \in Nat
  PROVE  /\ \A u \in Nodes : Estimates(t)[u] \in Nat
         /\ \A u \in Nodes : Estimates(t)[u] <= Estimates(t + 1)[u]
         /\ SumOver(Estimates(t)) \in Nat
         /\ SumOver(Estimates(t)) <= SumOver(Estimates(t + 1))
<1>1. ASSUME NEW u \in Nodes, NEW d \in Nat PROVE Estimates(d)[u] \in Nat
  BY <1>1, Grows DEF Estimates
<1>2. ASSUME NEW u \in Nodes PROVE Estimates(t)[u] <= Estimates(t + 1)[u]
  <2> DEFINE a == Cardinality(Seen(u, t))  b == Cardinality(Seen(u, t + 1))
  <2>1. a \in Nat /\ b \in Nat
    BY <1>1 DEF Estimates
  <2>2. b - a \in Nat
    BY Grows
  <2> HIDE DEF a, b
  <2>3. a <= b
    BY <2>1, <2>2
  <2> QED
    BY <2>3 DEF a, b, Estimates
<1>3. IsFiniteSet(Nodes) /\ t + 1 \in Nat
  BY GraphFacts
<1> DEFINE f == Estimates(t)  g == Estimates(t + 1)
<1>4. \A u \in Nodes : f[u] \in Nat /\ g[u] \in Nat /\ f[u] <= g[u]
  BY <1>1, <1>2, <1>3
<1> HIDE DEF f, g
<1>5. SumFunctionOnSet(f, Nodes) \in Nat
  BY <1>3, <1>4, SumType
<1>6. SumFunctionOnSet(f, Nodes) <= SumFunctionOnSet(g, Nodes)
  BY <1>3, <1>4, SumAtMost
<1> QED
  BY <1>1, <1>2, <1>5, <1>6 DEF f, g, SumOver

LEMMA GainTypes ==
  ASSUME BallInv
  PROVE  /\ \A u \in Nodes : Gains[u] \in Nat
         /\ \A w \in Workers : Partial[w] \in Nat
         /\ ic.current_nf \in Nat /\ ic.iteration \in Nat
<1>1. InputInv /\ TypeInv
  BY DEF BallInv
<1>2. ic.current_nf \in Nat /\ ic.iteration \in Nat /\ ic.iteration + 1 \in Nat
  BY <1>1 DEF TypeInv, Contexts
<1>3. \A w \in Workers : Partial[w] \in Nat
  BY <1>1, TaskTypes DEF Partial
<1>4. ASSUME NEW u \in Nodes PROVE Gains[u] \in Nat
  <2>1. /\ Cardinality(Seen(u, ic.iteration)) \in Nat
        /\ Cardinality(Seen(u, ic.iteration + 1)) \in Nat
    BY <1>1, <1>2, EstimateTypes DEF Estimates
  <2> QED
    BY <2>1 DEF Gains
<1> QED
  BY <1>2, <1>3, <1>4

(* Nothing is added or handed in.                                          *)
LEMMA TotalKept ==
  ASSUME BallInv, TotalInv, UNCHANGED inputs, pc = "iterate", Kept
  PROVE  TotalInv'
<1>1. Partial' = Partial
  BY DEF Kept, Partial
<1>2. Nodes' = Nodes /\ \A u, t : Seen(u, t)' = Seen(u, t)
  BY SeenStays
<1>3. Gains' = Gains
  BY <1>2 DEF Kept, Gains
<1> QED
  BY <1>1, <1>2, <1>3 DEF Kept, TotalInv, SumOver

(* A node is dealt with: the sum of the gains and that of the threads grow *)
(* alike.                                                                  *)
LEMMA TotalDealt ==
  ASSUME BallInv, TotalInv, NEW w \in Workers, NEW u \in Pending, u \in Nodes,
         NEW n \in Nat, NEW m, Deals(w, u, n, m),
         Cardinality(Seen(u, ic.iteration + 1)) =
           n + IF ic.systolic THEN Cardinality(Seen(u, ic.iteration)) ELSE 0
  PROVE  TotalInv'
<1>1. /\ pc = "iterate" /\ pc' = "iterate" /\ UNCHANGED inputs
      /\ Pending' = Pending \ {u} /\ task' \in [Workers -> Tasks]
      /\ task'[w].nf = task[w].nf + n
      /\ \A v \in Workers \ {w} : task'[v] = task[v]
      /\ ic'.systolic = ic.systolic /\ ic'.iteration = ic.iteration
      /\ ic'.current_nf = ic.current_nf
  BY DEF Deals, HeardOf
<1>2. Nodes' = Nodes /\ \A v, t : Seen(v, t)' = Seen(v, t)
  BY <1>1, SeenStays
<1> DEFINE f == Gains  g == Gains'
           p == Partial  q == Partial'
<1>0. /\ \A v \in Nodes : f[v] \in Nat
      /\ \A v \in Workers : p[v] \in Nat
      /\ ic.current_nf \in Nat
  BY GainTypes
<1>4. g[u] = f[u] + n
  <2>1. /\ Cardinality(Seen(u, ic.iteration + 1)) \in Nat
        /\ Cardinality(Seen(u, ic.iteration)) \in Nat
    <3>1. InputInv /\ ic.iteration \in Nat /\ ic.iteration + 1 \in Nat
      BY GainTypes DEF BallInv
    <3> QED
      BY <3>1, EstimateTypes DEF Estimates
  <2>2. g[u] = Cardinality(Seen(u, ic.iteration + 1))
    BY <1>1, <1>2 DEF Gains
  <2>3. f[u] = IF ic.systolic THEN Cardinality(Seen(u, ic.iteration)) ELSE 0
    BY DEF Gains
  <2> QED
    BY <2>1, <2>2, <2>3
<1>5. \A v \in Nodes \ {u} : f[v] = g[v]
  BY <1>1, <1>2 DEF Gains
<1>6. q[w] = p[w] + n /\ \A v \in Workers \ {w} : p[v] = q[v]
  BY <1>1 DEF Partial
<1>3. /\ \A v \in Nodes : f[v] \in Nat /\ g[v] \in Nat
      /\ \A v \in Workers : p[v] \in Nat /\ q[v] \in Nat
      /\ ic.current_nf \in Nat
  <2>1. g[u] \in Nat /\ q[w] \in Nat
    BY <1>0, <1>4, <1>6
  <2>2. \A v \in Nodes : g[v] \in Nat
    BY <1>0, <1>5, <2>1
  <2>3. \A v \in Workers : q[v] \in Nat
    BY <1>0, <1>6, <2>1
  <2> QED
    BY <1>0, <2>2, <2>3
<1>7. ic.current_nf + SumFunctionOnSet(p, Workers) = SumFunctionOnSet(f, Nodes)
  BY <1>1 DEF TotalInv, SumOver
<1> HIDE DEF f, g, p, q
<1>8. IsFiniteSet(Nodes) /\ IsFiniteSet(Workers)
  BY GraphFacts, HyperBallAssumption DEF BallInv
<1>9. /\ SumFunctionOnSet(f, Nodes) \in Nat /\ SumFunctionOnSet(g, Nodes) \in Nat
      /\ SumFunctionOnSet(g, Nodes) + f[u] = SumFunctionOnSet(f, Nodes) + g[u]
  BY ONLY <1>3, <1>5, <1>8, u \in Nodes, SumMoves
<1>10. /\ SumFunctionOnSet(p, Workers) \in Nat /\ SumFunctionOnSet(q, Workers) \in Nat
       /\ SumFunctionOnSet(q, Workers) + p[w] = SumFunctionOnSet(p, Workers) + q[w]
  BY ONLY <1>3, <1>6, <1>8, w \in Workers, SumMoves
<1>11. f[u] \in Nat /\ p[w] \in Nat
  BY <1>3
<1>12. ic.current_nf + SumFunctionOnSet(q, Workers) = SumFunctionOnSet(g, Nodes)
  BY <1>3, <1>4, <1>6, <1>7, <1>9, <1>10, <1>11
<1> QED
  BY <1>1, <1>2, <1>12 DEF TotalInv, SumOver, g, q

LEMMA TotalChecked ==
  ASSUME BallInv, TotalInv, NEW w \in Workers, CheckNode(w)
  PROVE  TotalInv'
<1> DEFINE u == node(w)
<1>1. Sound(u) /\ Deals(w, u, Counts(u), Changes(u))
  BY CheckNodeDeals
<1> HIDE DEF u
<1>2. u \in Pending /\ u \in Nodes /\ Counts(u) \in Nat
  BY <1>1 DEF Sound
<1>3. /\ Cardinality(Seen(u, ic.iteration + 1)) \in Nat
      /\ Cardinality(Seen(u, ic.iteration)) \in Nat
  <2>1. InputInv /\ ic.iteration \in Nat /\ ic.iteration + 1 \in Nat
    BY GainTypes DEF BallInv
  <2> QED
    BY <1>2, <2>1, EstimateTypes DEF Estimates
<1>4. Cardinality(Seen(u, ic.iteration + 1)) =
        Counts(u) + IF ic.systolic THEN Cardinality(Seen(u, ic.iteration)) ELSE 0
  BY <1>3 DEF Counts, Delta
<1> QED
  BY <1>1, <1>2, <1>4, TotalDealt

LEMMA TotalSkipped ==
  ASSUME BallInv, TotalInv, NEW w \in Workers, SkipNode(w)
  PROVE  TotalInv'
<1> DEFINE u == node(w)
<1>1. Deals(w, u, 0, 0) /\ u \in Pending /\ u \in Nodes /\ ic.systolic
      /\ Still(u, ic.iteration)
  BY SkipNodeDeals
<1> HIDE DEF u
<1>2. /\ Cardinality(Seen(u, ic.iteration)) \in Nat
      /\ Seen(u, ic.iteration + 1) = Seen(u, ic.iteration)
  <2>1. InputInv /\ ic.iteration \in Nat
    BY GainTypes DEF BallInv
  <2> QED
    BY <1>1, <2>1, EstimateTypes DEF Estimates, Still
<1>3. Cardinality(Seen(u, ic.iteration + 1)) =
        0 + IF ic.systolic THEN Cardinality(Seen(u, ic.iteration)) ELSE 0
  BY <1>1, <1>2
<1> QED
  BY <1>1, <1>3, TotalDealt

LEMMA TotalHandedIn ==
  ASSUME BallInv, TotalInv, NEW w \in Workers, EndTask(w)
  PROVE  TotalInv'
<1>1. /\ pc = "iterate" /\ pc' = "iterate" /\ UNCHANGED inputs
  BY DEF EndTask, Ready, WorksOn, shared
<1>2. /\ Pending' = Pending
      /\ ic'.current_nf = ic.current_nf + task[w].nf
      /\ ic'.systolic = ic.systolic /\ ic'.iteration = ic.iteration
      /\ task'[w].nf = 0 /\ \A v \in Workers \ {w} : task'[v].nf = task[v].nf
  BY EndTaskStep
<1>3. Nodes' = Nodes /\ \A v, t : Seen(v, t)' = Seen(v, t)
  BY <1>1, SeenStays
<1>4. Gains' = Gains
  BY <1>2, <1>3 DEF Gains
<1> DEFINE p == Partial  q == Partial'
<1>5. /\ \A v \in Workers : p[v] \in Nat /\ q[v] \in Nat
      /\ ic.current_nf \in Nat
  <2>1. \A v \in Workers : p[v] \in Nat
    BY GainTypes
  <2>2. \A v \in Workers : q[v] \in Nat
    BY EndTaskStep DEF Partial, Tasks
  <2> QED
    BY <2>1, <2>2, GainTypes
<1>6. q[w] = 0 /\ p[w] = task[w].nf /\ \A v \in Workers \ {w} : p[v] = q[v]
  BY <1>2 DEF Partial
<1>7. ic.current_nf + SumFunctionOnSet(p, Workers) = SumOver(Gains)
  BY <1>1 DEF TotalInv
<1> HIDE DEF p, q
<1>8. IsFiniteSet(Workers)
  BY HyperBallAssumption
<1>9. /\ SumFunctionOnSet(p, Workers) \in Nat /\ SumFunctionOnSet(q, Workers) \in Nat
      /\ SumFunctionOnSet(q, Workers) + p[w] = SumFunctionOnSet(p, Workers) + q[w]
  BY ONLY <1>5, <1>6, <1>8, w \in Workers, SumMoves
<1>10. ic'.current_nf + SumFunctionOnSet(q, Workers) = SumOver(Gains)
  BY <1>2, <1>5, <1>6, <1>7, <1>9
<1> QED
  BY <1>1, <1>3, <1>4, <1>10 DEF TotalInv, SumOver, q

(* When an iteration begins, nodes that are not pending have not changed.  *)
LEMMA TotalOpens ==
  ASSUME BallInv, ValuesInv, BeginIteration, Compensated'
  PROVE  TotalInv'
<1> DEFINE T == ic.iteration
<1>1. InputInv /\ TypeInv
  BY DEF BallInv
<1>2. PICK s, l : Opens(s, l)
  BY IterationOpens
<1>3. /\ pc = "loop" /\ pc' = "iterate" /\ UNCHANGED inputs /\ runs > 0
      /\ last = SumOver(Estimates(T)) /\ T \in Nat
  BY <1>1 DEF BeginIteration, TypeInv, Contexts, ValuesInv
<1>4. Nodes' = Nodes /\ \A u, t : Seen(u, t)' = Seen(u, t) /\ Still(u, t)' = Still(u, t)
  BY <1>3, SeenStays
<1>5. /\ ic'.iteration = T /\ ic'.systolic = s /\ ic'.next_modified = {}
      /\ ic'.local = ic.pre_local
      /\ ic'.current_nf = IF s THEN last ELSE 0
      /\ task' = [w \in Workers |-> [NoTask EXCEPT !.step = "work"]]
  BY <1>2 DEF Opens
<1>6. WorkInv'
  BY BeginIterationStep DEF BallInv
<1>7. ic'.local \/ Pending' = Nodes
  BY <1>1, <1>2, <1>5, PendingAll
<1>8. \A u \in Nodes \ Pending' : Still(u, T)
  BY <1>3, <1>4, <1>5, <1>6 DEF WorkInv
<1>9. IsFiniteSet(Nodes) /\ IsFiniteSet(Workers)
  BY <1>1, GraphFacts, HyperBallAssumption
<1> DEFINE q == Partial'  g == Gains'
<1>10. \A w \in Workers : q[w] = 0
  BY <1>5 DEF Partial, NoTask
<1>11. s => \A u \in Nodes : g[u] = Estimates(T)[u]
  <2> SUFFICES ASSUME s, NEW u \in Nodes PROVE g[u] = Estimates(T)[u]
    OBVIOUS
  <2>1. u \notin Pending' => Cardinality(Seen(u, T + 1)) = Cardinality(Seen(u, T))
    BY <1>8 DEF Still
  <2> HIDE DEF T
  <2> QED
    BY <1>4, <1>5, <2>1 DEF Gains, Estimates
<1>12. ~s => \A u \in Nodes : g[u] = 0
  <2>1. ~s => Pending' = Nodes
    BY <1>5, <1>7 DEF Compensated
  <2> QED
    BY <1>4, <1>5, <2>1 DEF Gains
<1> HIDE DEF q, g, T
<1>13. SumFunctionOnSet(q, Workers) = 0
  BY <1>9, <1>10, SumZero
<1>14. SumFunctionOnSet(g, Nodes) = IF s THEN last ELSE 0
  <2>1. CASE s
    <3> DEFINE f == Estimates(T)
    <3>1. \A u \in Nodes : f[u] \in Nat
      BY <1>1, <1>3, EstimateTypes
    <3>2. \A u \in Nodes : f[u] = g[u]
      BY <1>11, <2>1
    <3> HIDE DEF f
    <3>3. SumFunctionOnSet(f, Nodes) = SumFunctionOnSet(g, Nodes)
      BY <1>9, <3>1, <3>2, SumSame
    <3> QED
      BY <1>3, <2>1, <3>3 DEF f, SumOver
  <2>2. CASE ~s
    BY <1>9, <1>12, <2>2, SumZero
  <2> QED
    BY <2>1, <2>2
<1>15. last \in Nat
  BY <1>1 DEF TypeInv
<1>16. ic'.current_nf + SumFunctionOnSet(q, Workers) = SumFunctionOnSet(g, Nodes)
  BY <1>5, <1>13, <1>14, <1>15
<1> QED
  BY <1>3, <1>4, <1>16 DEF TotalInv, SumOver, q, g

(* When all threads are out, all nodes have been added up.                 *)
LEMMA TotalCloses ==
  ASSUME BallInv, TotalInv, CloseIteration
  PROVE  ic.current_nf = SumOver(Estimates(ic.iteration + 1))
<1>1. InputInv /\ TypeInv /\ ClaimInv
  BY DEF BallInv
<1>2. pc = "iterate" /\ \A w \in Workers : task[w].step = "out"
  BY DEF CloseIteration
<1>3. Pending = {}
  BY <1>1, <1>2, PendingNone
<1>4. Gains = Estimates(ic.iteration + 1)
  BY <1>3 DEF Gains, Estimates
<1> DEFINE p == Partial
<1>5. \A w \in Workers : p[w] = 0
  BY <1>1, <1>2 DEF ClaimInv, NoTask, Partial
<1>6. ic.current_nf + SumFunctionOnSet(p, Workers) = SumOver(Gains)
  BY <1>2 DEF TotalInv
<1> HIDE DEF p
<1>7. SumFunctionOnSet(p, Workers) = 0
  BY <1>5, HyperBallAssumption, SumZero
<1>8. ic.current_nf \in Nat
  BY GainTypes
<1>9. ic.current_nf = SumOver(Gains)
  BY <1>6, <1>7, <1>8
<1> QED
  BY <1>4, <1>9

LEMMA ValuesStay ==
  ASSUME ValuesInv, UNCHANGED <<inputs, results, runs>>, ic'.iteration = ic.iteration
  PROVE  ValuesInv'
<1>1. Nodes' = Nodes /\ \A u, t : Seen(u, t)' = Seen(u, t)
  BY SeenStays
<1>2. SumOver(Estimates(ic.iteration))' = SumOver(Estimates(ic.iteration))
  BY <1>1 DEF SumOver, Estimates
<1> QED
  BY <1>2 DEF ValuesInv, results

LEMMA ValuesClose ==
  ASSUME BallInv, ValuesInv, TotalInv, CloseIteration
  PROVE  /\ ValuesInv' /\ runs > 0
         /\ neighborhood_function' =
              Append(neighborhood_function, SumOver(Estimates(ic.iteration + 1)))
         /\ ic'.iteration = ic.iteration + 1
<1> DEFINE T == ic.iteration
           a == SumOver(Estimates(T))  b == SumOver(Estimates(T + 1))
           nf == neighborhood_function
<1>1. InputInv /\ TypeInv
  BY DEF BallInv
<1>2. pc = "iterate" /\ UNCHANGED inputs /\ UNCHANGED runs /\ runs > 0
      /\ last' = ic.current_nf
      /\ nf' = Append(nf, AtLeast(ic.current_nf, Last(nf)))
      /\ ic'.iteration = T + 1 /\ T \in Nat
  <2>1. ic' = [ic EXCEPT
       !.curr_modified = ic.next_modified,
       !.next_modified = ic.curr_modified,
       !.must_be_checked =
         IF ic.systolic THEN ic.next_must_be_checked ELSE ic.must_be_checked,
       !.next_must_be_checked =
         IF ic.systolic THEN ic.must_be_checked ELSE ic.next_must_be_checked,
       !.iteration = ic.iteration + 1]
    BY DEF CloseIteration
  <2>2. ic'.iteration = T + 1 /\ T \in Nat
    BY <1>1, <2>1 DEF TypeInv, Contexts
  <2> QED
    BY <1>1, <2>2 DEF CloseIteration, TypeInv
<1>3. ic.current_nf = b
  BY TotalCloses
<1>4. a \in Nat /\ b \in Nat /\ a <= b
  <2>1. T + 1 \in Nat
    BY <1>2
  <2> HIDE DEF T
  <2> QED
    BY <1>1, <1>2, <2>1, EstimateTypes
<1>5. nf \in Seq(Nat) /\ nf # << >> /\ Last(nf) = a
  BY <1>2 DEF ValuesInv
<1>6. Nodes' = Nodes /\ \A u, t : Seen(u, t)' = Seen(u, t)
  BY <1>2, SeenStays
<1>7. SumOver(Estimates(ic.iteration))' = b
  <2>1. \A u : Seen(u, ic.iteration)' = Seen(u, T + 1)
    BY <1>2, <1>6
  <2> QED
    BY <1>6, <2>1 DEF SumOver, Estimates
<1> HIDE DEF a, b, T
<1>8. AtLeast(ic.current_nf, Last(nf)) = b
  BY <1>3, <1>4, <1>5 DEF AtLeast
<1>9. nf' = Append(nf, b) /\ nf' \in Seq(Nat) /\ nf' # << >> /\ Last(nf') = b
  <2>1. nf' = Append(nf, b)
    BY <1>2, <1>8
  <2>2. /\ Append(nf, b) \in Seq(Nat) /\ Append(nf, b) # << >>
        /\ Len(Append(nf, b)) = Len(nf) + 1
        /\ Append(nf, b)[Len(nf) + 1] = b
    BY <1>4, <1>5, AppendProperties
  <2> QED
    BY <2>1, <2>2 DEF Last
<1>10. ValuesInv'
  BY <1>2, <1>3, <1>7, <1>9 DEF ValuesInv
<1> QED
  BY <1>2, <1>9, <1>10 DEF T, b

LEMMA ValuesStart ==
  ASSUME ItemPerNode, BallInv, StartRun
  PROVE  /\ ValuesInv'
         /\ neighborhood_function' = << SumOver(Estimates(0)) >>
<1>1. InputInv /\ TypeInv
  BY DEF BallInv
<1>2. /\ UNCHANGED inputs /\ runs' = runs + 1 /\ last' = num_nodes
      /\ neighborhood_function' = << num_nodes >>
  BY DEF StartRun
<1>3. ic'.iteration = 0
  <2>1. ic \in Contexts
    BY <1>1 DEF TypeInv
  <2> QED
    BY <2>1 DEF StartRun, Contexts
<1>4. SumOver(Estimates(0)) = num_nodes
  <2>1. PICK i \in Inputs : graph = i.graph /\ items = i.items
    BY <1>1 DEF InputInv
  <2>2. SumFunctionOnSet([u \in Nodes |-> Cardinality(items[u])], Nodes) = num_nodes
    BY <2>1 DEF ItemPerNode, Nodes, num_nodes
  <2>3. \A u \in Nodes : Seen(u, 0) = items[u]
    BY <1>1, SeenFacts
  <2>4. Estimates(0) = [u \in Nodes |-> Cardinality(items[u])]
    BY <2>3 DEF Estimates
  <2> QED
    BY <2>2, <2>4 DEF SumOver
<1>5. Nodes' = Nodes /\ \A u, t : Seen(u, t)' = Seen(u, t)
  BY <1>2, SeenStays
<1>6. SumOver(Estimates(ic.iteration))' = num_nodes
  <2>1. \A u : Seen(u, ic.iteration)' = Seen(u, 0)
    BY <1>3, <1>5
  <2> QED
    BY <1>4, <1>5, <2>1 DEF SumOver, Estimates
<1>7. num_nodes \in Nat
  BY <1>1, GraphFacts
<1>8. << num_nodes >> \in Seq(Nat) /\ << num_nodes >> # << >>
      /\ Last(<< num_nodes >>) = num_nodes
  <2> DEFINE n == num_nodes
  <2>1. n \in Nat
    BY <1>7
  <2> HIDE DEF n
  <2>2. << n >> \in Seq(Nat) /\ << n >> # << >> /\ Last(<< n >>) = n
    BY <2>1 DEF Last
  <2> QED
    BY <2>2 DEF n
<1>9. runs \in Nat
  BY <1>1 DEF TypeInv
<1> QED
  BY <1>2, <1>4, <1>6, <1>8, <1>9 DEF ValuesInv

GrowthInv == BallInv /\ ValuesInv /\ TotalInv

LEMMA GrowthInit == Init => GrowthInv
<1> SUFFICES ASSUME Init PROVE GrowthInv
  OBVIOUS
<1>1. BallInv
  BY BallInit
<1>2. pc = "idle" /\ runs = 0 /\ neighborhood_function = << >>
  BY DEF Init
<1> QED
  BY <1>1, <1>2 DEF GrowthInv, ValuesInv, TotalInv

LEMMA GrowthStep ==
  ASSUME ItemPerNode, GrowthInv, [Next]_vars, Compensated'
  PROVE  GrowthInv'
<1>1. BallInv /\ ValuesInv /\ TotalInv
  BY DEF GrowthInv
<1>2. BallInv'
  BY <1>1, BallStep
<1>3. CASE StartRun
  <2>1. ValuesInv'
    BY <1>1, <1>3, ValuesStart
  <2>2. TotalInv'
    BY <1>3 DEF StartRun, TotalInv
  <2> QED
    BY <1>2, <2>1, <2>2 DEF GrowthInv
<1>4. CASE BeginIteration
  <2>1. TotalInv'
    BY <1>1, <1>4, TotalOpens
  <2>2. /\ UNCHANGED <<inputs, results, runs>> /\ ic'.iteration = ic.iteration
    <3>1. PICK s, l : Opens(s, l)
      BY <1>1, <1>4, IterationOpens
    <3> QED
      BY <1>4, <3>1 DEF BeginIteration, Opens
  <2> QED
    BY <1>1, <1>2, <2>1, <2>2, ValuesStay DEF GrowthInv
<1>5. CASE CloseIteration
  <2>1. ValuesInv'
    BY <1>1, <1>5, ValuesClose
  <2>2. TotalInv'
    BY <1>5 DEF CloseIteration, TotalInv
  <2> QED
    BY <1>2, <2>1, <2>2 DEF GrowthInv
<1>6. CASE StopRun
  <2>1. UNCHANGED <<inputs, results, runs>> /\ ic' = ic /\ pc' = "idle"
    BY <1>6 DEF StopRun
  <2> QED
    BY <1>1, <1>2, <2>1, ValuesStay DEF GrowthInv, TotalInv
<1>7. ASSUME NEW w \in Workers, Worker(w) PROVE GrowthInv'
  <2>1. UNCHANGED <<inputs, results, runs>> /\ pc = "iterate"
    BY <1>7 DEF Worker, TakeListed, TakeChunk, CheckNode, SkipNode, EndTask,
                WorksOn, Ready, shared
  <2>2. CASE TakeListed(w)
    <3>1. Kept
      BY <1>1, <2>2, TakeListedStep
    <3>2. TotalInv' /\ ic'.iteration = ic.iteration
      BY <1>1, <2>1, <3>1, TotalKept DEF Kept
    <3> QED
      BY <1>1, <1>2, <2>1, <3>2, ValuesStay DEF GrowthInv
  <2>3. CASE TakeChunk(w)
    <3>1. Kept
      BY <1>1, <2>3, TakeChunkStep
    <3>2. TotalInv' /\ ic'.iteration = ic.iteration
      BY <1>1, <2>1, <3>1, TotalKept DEF Kept
    <3> QED
      BY <1>1, <1>2, <2>1, <3>2, ValuesStay DEF GrowthInv
  <2>4. CASE CheckNode(w)
    <3> DEFINE u == node(w)
    <3>1. Deals(w, u, Counts(u), Changes(u))
      BY <1>1, <2>4, CheckNodeDeals
    <3> HIDE DEF u
    <3>2. ic'.iteration = ic.iteration
      BY <3>1 DEF Deals, HeardOf
    <3>3. TotalInv'
      BY <1>1, <2>4, TotalChecked
    <3> QED
      BY <1>1, <1>2, <2>1, <3>2, <3>3, ValuesStay DEF GrowthInv
  <2>5. CASE SkipNode(w)
    <3>1. ic' = ic
      BY <2>5 DEF SkipNode
    <3>2. TotalInv'
      BY <1>1, <2>5, TotalSkipped
    <3> QED
      BY <1>1, <1>2, <2>1, <3>1, <3>2, ValuesStay DEF GrowthInv
  <2>6. CASE EndTask(w)
    <3>1. ic'.iteration = ic.iteration
      BY <1>1, <2>6, EndTaskStep
    <3>2. TotalInv'
      BY <1>1, <2>6, TotalHandedIn
    <3> QED
      BY <1>1, <1>2, <2>1, <3>1, <3>2, ValuesStay DEF GrowthInv
  <2> QED
    BY <1>7, <2>2, <2>3, <2>4, <2>5, <2>6 DEF Worker
<1>8. CASE UNCHANGED vars
  <2>1. /\ UNCHANGED <<inputs, results, runs>> /\ ic' = ic /\ pc' = pc /\ task' = task
    BY <1>8 DEF vars
  <2>2. Pending' = Pending
    BY <2>1 DEF Pending, Waiting, Held, At, Limit, num_nodes, Nodes, inputs
  <2>3. CASE pc = "iterate"
    <3>1. Kept
      BY <2>1, <2>2 DEF Kept
    <3> QED
      BY <1>1, <1>2, <2>1, <2>3, <3>1, TotalKept, ValuesStay DEF GrowthInv
  <2>4. CASE pc # "iterate"
    BY <1>1, <1>2, <2>1, <2>4, ValuesStay DEF GrowthInv, TotalInv
  <2> QED
    BY <2>3, <2>4
<1> QED
  BY <1>3, <1>4, <1>5, <1>6, <1>7, <1>8 DEF Next, Main

-----------------------------------------------------------------------------
(* The steps seen as those of BallGrowth.                                  *)

(* The operators BallGrowth has of its own are those used here.            *)
LEMMA SameOperators ==
  ASSUME NEW S, NEW f
  PROVE  /\ Growth!Cardinality(S) = Cardinality(S)
         /\ Growth!IsFiniteSet(S) <=> IsFiniteSet(S)
         /\ Growth!SumFunctionOnSet(f, S) = SumFunctionOnSet(f, S)
<1>1. Growth!Cardinality(S) = Cardinality(S)
  BY DEF Growth!Cardinality, Cardinality
<1>2. Growth!IsFiniteSet(S) <=> IsFiniteSet(S)
  BY DEF Growth!IsFiniteSet, IsFiniteSet
<1>3. Growth!SumFunctionOnSet(f, S) = SumFunctionOnSet(f, S)
  BY DEF Growth!SumFunctionOnSet, SumFunctionOnSet, Growth!FoldFunctionOnSet,
         FoldFunctionOnSet, Growth!MapThenFoldSet, MapThenFoldSet
<1> QED
  BY <1>1, <1>2, <1>3

(* What BallGrowth calls the total is the sum over the balls.              *)
LEMMA TotalIsSum ==
  ASSUME NEW t
  PROVE  Growth!Total(Ball(t)) = SumOver(Estimates(t)) /\ DOMAIN Ball(t) = Nodes
<1>1. DOMAIN Ball(t) = Nodes /\ \A u \in Nodes : Ball(t)[u] = Seen(u, t)
  BY DEF Ball
<1>2. [u \in Nodes |-> Cardinality(Ball(t)[u])] = Estimates(t)
  BY <1>1 DEF Estimates
<1>3. Growth!Total(Ball(t)) =
        Growth!SumFunctionOnSet([u \in Nodes |-> Growth!Cardinality(Ball(t)[u])], Nodes)
  BY <1>1 DEF Growth!Total
<1>4. [u \in Nodes |-> Growth!Cardinality(Ball(t)[u])] = Estimates(t)
  BY <1>2, SameOperators
<1>5. Growth!Total(Ball(t)) = SumFunctionOnSet(Estimates(t), Nodes)
  BY <1>3, <1>4, SameOperators
<1> QED
  BY <1>1, <1>5 DEF SumOver

LEMMA NextBall ==
  ASSUME InputInv, NEW t \in Nat
  PROVE  Ball(t + 1) = Growth!Grown(graph, Ball(t))
<1>1. DOMAIN Ball(t) = Nodes /\ \A u \in Nodes : Ball(t)[u] = Seen(u, t)
  BY DEF Ball
<1>2. ASSUME NEW u \in Nodes
      PROVE  Seen(u, t + 1) = Ball(t)[u] \cup UNION {Ball(t)[s] : s \in graph[u]}
  <2>1. graph[u] \subseteq Nodes
    BY GraphFacts
  <2>2. Seen(u, t + 1) = Seen(u, t) \cup UNION {Seen(s, t) : s \in graph[u]}
    BY SeenFacts
  <2>3. \A s \in graph[u] : Ball(t)[s] = Seen(s, t)
    BY <1>1, <2>1
  <2>4. {Ball(t)[s] : s \in graph[u]} = {Seen(s, t) : s \in graph[u]}
    BY <2>3
  <2> QED
    BY <1>1, <2>2, <2>4
<1> DEFINE G == [u \in Nodes |-> Ball(t)[u] \cup UNION {Ball(t)[s] : s \in graph[u]}]
<1>3. Ball(t + 1) = G
  BY <1>2 DEF Ball
<1>4. Growth!Grown(graph, Ball(t)) = G
  BY <1>1 DEF Growth!Grown
<1> QED
  BY <1>3, <1>4

LEMMA GrowthInitial == Init => Growth!Init
<1> SUFFICES ASSUME Init PROVE Growth!Init
  OBVIOUS
<1>1. InputInv
  BY BallInit DEF BallInv
<1>2. IsDigraph(graph)
  BY <1>1, GraphFacts
<1>3. Growth!IsDigraph(graph)
  BY <1>2, SameOperators DEF IsDigraph, Growth!IsDigraph
<1> QED
  BY <1>3 DEF Init, Growth!Init, Empty, Nodes

LEMMA GrowthNext ==
  ASSUME ItemPerNode, GrowthInv, [Next]_vars
  PROVE  [Growth!Next]_(Growth!vars)
<1>1. BallInv /\ ValuesInv /\ TotalInv /\ InputInv /\ TypeInv /\ ClaimInv
  BY DEF GrowthInv, BallInv
<1>2. CASE StartRun
  <2>1. UNCHANGED inputs /\ curr_state' = items
    BY <1>2 DEF StartRun
  <2>2. curr_state' = Ball(0)
    <3>1. items = [u \in Nodes |-> items[u]]
      BY <1>1, GraphFacts
    <3>2. \A u \in Nodes : Seen(u, 0) = items[u]
      BY <1>1, SeenFacts
    <3>3. Ball(0) = [u \in Nodes |-> items[u]]
      BY <3>2 DEF Ball
    <3> QED
      BY <2>1, <3>1, <3>3
  <2>3. neighborhood_function' = << SumOver(Estimates(0)) >>
    BY <1>1, <1>2, ValuesStart
  <2>4. Growth!Total(curr_state') = SumOver(Estimates(0)) /\ DOMAIN curr_state' = Nodes
    BY <2>2, TotalIsSum
  <2> QED
    BY <2>1, <2>3, <2>4 DEF Growth!Next, Growth!Begin, Nodes, inputs
<1>3. CASE CloseIteration
  <2> DEFINE T == ic.iteration
  <2>1. /\ T \in Nat /\ pc = "iterate" /\ UNCHANGED inputs
        /\ curr_state' = next_state
        /\ \A w \in Workers : task[w].step = "out"
    BY <1>1, <1>3 DEF CloseIteration, TypeInv, Contexts
  <2>2. /\ runs > 0
        /\ neighborhood_function' =
             Append(neighborhood_function, SumOver(Estimates(T + 1)))
    BY <1>1, <1>3, ValuesClose
  <2>3. Pending = {}
    BY <1>1, <2>1, PendingNone
  <2>4. curr_state = Ball(T) /\ next_state = Ball(T + 1)
    BY <1>1, <2>1, <2>2, <2>3 DEF BallInv, WorkInv, TypeInv, ExactInv, Ball
  <2> HIDE DEF T
  <2>5. curr_state' = Growth!Grown(graph, curr_state)
    BY <1>1, <2>1, <2>4, NextBall
  <2>6. Growth!Total(curr_state') = SumOver(Estimates(T + 1))
    BY <2>1, <2>4, TotalIsSum
  <2>7. neighborhood_function # << >>
    BY <1>1, <2>2 DEF ValuesInv
  <2> QED
    BY <2>1, <2>2, <2>5, <2>6, <2>7 DEF Growth!Next, Growth!Grow, inputs
<1>4. CASE BeginIteration \/ StopRun \/ (\E w \in Workers : Worker(w)) \/ UNCHANGED vars
  <2>1. UNCHANGED <<inputs, curr_state, results>>
    BY <1>4 DEF BeginIteration, StopRun, Worker, TakeListed, TakeChunk, CheckNode,
                SkipNode, EndTask, shared, vars
  <2> QED
    BY <2>1 DEF Growth!vars, inputs, results
<1> QED
  BY <1>2, <1>3, <1>4 DEF Next, Main

(* Systolic iterations compensate: as long as every iteration that works   *)
(* on a list is also systolic, estimators and neighborhood function are    *)
(* those of full iterations.                                               *)
THEOREM GrowthTheorem ==
  ASSUME ItemPerNode
  PROVE  Spec /\ []Compensated => GrowthSpec
<1>1. Init => GrowthInv /\ Growth!Init
  BY GrowthInit, GrowthInitial
<1>2. GrowthInv /\ [Next]_vars /\ Compensated' => GrowthInv'
  BY GrowthStep
<1>3. GrowthInv /\ [Next]_vars => [Growth!Next]_(Growth!vars)
  BY GrowthNext
<1> QED
  BY <1>1, <1>2, <1>3, PTL DEF Spec, GrowthSpec, Growth!Spec

(* Without a transposed graph all iterations are standard ones.            *)
Standard == ~has_transpose /\ ~ic.systolic /\ ~ic.pre_local /\ ~ic.local

LEMMA StandardStep ==
  ASSUME TypeInv, Standard, [Next]_vars
  PROVE  Standard'
<1>1. has_transpose' = has_transpose
  BY InputsStay DEF inputs
<1>2. ic \in Contexts
  BY DEF TypeInv
<1>3. ~ic'.systolic /\ ~ic'.pre_local /\ ~ic'.local
  <2>1. CASE StartRun
    BY <1>2, <2>1 DEF StartRun, Contexts
  <2>2. CASE BeginIteration
    BY <1>2, <2>2 DEF BeginIteration, Contexts, Standard
  <2>3. CASE CloseIteration
    BY <1>2, <2>3 DEF CloseIteration, Contexts, Standard
  <2>4. CASE StopRun \/ UNCHANGED vars
    BY <2>4 DEF StopRun, vars, Standard
  <2>5. ASSUME NEW w \in Workers, Worker(w)
        PROVE  ~ic'.systolic /\ ~ic'.pre_local /\ ~ic'.local
    <3>1. CASE TakeListed(w) \/ TakeChunk(w)
      BY <1>2, <3>1 DEF TakeListed, TakeChunk, Contexts, Standard
    <3>2. CASE CheckNode(w)
      BY <1>2, <3>2 DEF CheckNode, Heard, Contexts, Standard
    <3>3. CASE SkipNode(w) \/ EndTask(w)
      BY <1>2, <3>3 DEF SkipNode, EndTask, Contexts, Standard
    <3> QED
      BY <2>5, <3>1, <3>2, <3>3 DEF Worker
  <2> QED
    BY <2>1, <2>2, <2>3, <2>4, <2>5 DEF Next, Main
<1> QED
  BY <1>1, <1>3 DEF Standard

(* Then HyperBall implements BallGrowth, whatever the graph and the        *)
(* threads: estimators and neighborhood function are those of full         *)
(* iterations.                                                             *)
THEOREM StandardGrowthTheorem ==
  ASSUME ItemPerNode
  PROVE  Spec /\ ~has_transpose => GrowthSpec
<1>1. Init /\ ~has_transpose => Standard /\ BallInv
  BY BallInit DEF Init, Context, Standard
<1>2. BallInv /\ [Next]_vars => BallInv'
  BY BallStep
<1>3. BallInv /\ Standard /\ [Next]_vars => Standard'
  BY StandardStep DEF BallInv
<1>4. Standard => Compensated
  BY DEF Standard, Compensated
<1>5. Spec /\ []Compensated => GrowthSpec
  BY GrowthTheorem
<1> QED
  BY <1>1, <1>2, <1>3, <1>4, <1>5, PTL DEF Spec

EstimatorsExact == runs > 0 => curr_state = Ball(ic.iteration)

(* Whatever the mode, an estimator knows the items of the ball around its  *)
(* node, of a radius that is the number of iterations: a node that was     *)
(* skipped, or is not on the list, had nothing to learn.                   *)
THEOREM EstimatorsExactTheorem == Spec => []EstimatorsExact
<1>1. Init => BallInv
  BY BallInit
<1>2. BallInv /\ [Next]_vars => BallInv'
  BY BallStep
<1>3. BallInv => EstimatorsExact
  BY DEF BallInv, ExactInv, EstimatorsExact
<1> QED
  BY <1>1, <1>2, <1>3, PTL DEF Spec
=============================================================================
