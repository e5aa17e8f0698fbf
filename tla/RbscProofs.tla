----------------------------- MODULE RbscProofs -----------------------------
(***************************************************************************)
(* Type correctness of rbsc: every index stays within the array it is used *)
(* on, for every graph, batch size, number of GPUs and hash, and whatever  *)
(* the threads do to one another's bounds while they trim.  Then what      *)
(* holds of its threads whatever the race, and what rbsc relies on between *)
(* batches when no two threads trim at once.  Last what the labels mean:   *)
(* refinement never separates nodes that a stable partition keeps          *)
(* together, whatever the hash and the schedule; with hashes that tell     *)
(* signatures apart, and one thread trimming at a time, the labels of a    *)
(* round are stable, so that its quotient sends what the input sends, and  *)
(* the rounds implement Lumping.                                           *)
(***************************************************************************)
EXTENDS Rbsc, BaseLemmas

(***************************************************************************)
(* Weights, quotients, and what joins two partitions.                      *)
(***************************************************************************)

(* What a node sends, in the words of BaseLemmas.                          *)
LEMMA WeightsIn ==
  ASSUME NEW g, IsGraph(g)
  PROVE  HasWeights(g)
BY ModulusAssumption DEF IsGraph, HasWeights, Edges

LEMMA OutWeightIs ==
  ASSUME NEW g, NEW u, NEW C
  PROVE  /\ OutWeight(g, u, C) = Sent(g, WeightModulus, u, C)
         /\ OutWeight(g, u, C) =
              SumFunctionOnSet(g.weight, EdgesTo(g, u, C)) % WeightModulus
BY DEF OutWeight, Sent, EdgesTo, Edges

LEMMA OutWeightUnion ==
  ASSUME NEW g, IsGraph(g), NEW u, NEW C, NEW D, C \cap D = {}
  PROVE  OutWeight(g, u, C \cup D) =
           (OutWeight(g, u, C) + OutWeight(g, u, D)) % WeightModulus
<1>1. HasWeights(g) /\ WeightModulus \in Nat \ {0}
  BY WeightsIn, ModulusAssumption
<1> QED
  BY <1>1, OutWeightIs, SentUnion

(* Nodes that send the same weight to the blocks of a partition send the   *)
(* same to those of a coarser one.                                         *)
LEMMA SameWeightCoarser ==
  ASSUME NEW g, IsGraph(g), NEW q, NEW p, IsFiniteSet(DOMAIN q),
         DOMAIN p = DOMAIN q, Refines(Blocks(q), Blocks(p)), NEW u, NEW v,
         \A C \in Blocks(q) : OutWeight(g, u, C) = OutWeight(g, v, C),
         NEW c
  PROVE  OutWeight(g, u, Block(p, c)) = OutWeight(g, v, Block(p, c))
<1>1. HasWeights(g) /\ WeightModulus \in Nat \ {0}
  BY WeightsIn, ModulusAssumption
<1>2. \A x, C : OutWeight(g, x, C) = Sent(g, WeightModulus, x, C)
  BY OutWeightIs
<1> QED
  BY <1>1, <1>2, SameSentCoarser

(* Nodes of one block of a stable partition send the same to each label.   *)
LEMMA StableByLabels ==
  ASSUME NEW g, NEW p
  PROVE  StablePartition(g, Blocks(p)) <=>
           \A u, v \in DOMAIN p, c \in Range(p) : p[u] = p[v] =>
             OutWeight(g, u, Block(p, c)) = OutWeight(g, v, Block(p, c))
<1>1. ASSUME StablePartition(g, Blocks(p)),
             NEW u \in DOMAIN p, NEW v \in DOMAIN p, NEW c \in Range(p),
             p[u] = p[v]
      PROVE  OutWeight(g, u, Block(p, c)) = OutWeight(g, v, Block(p, c))
  <2>1. Block(p, c) \in Blocks(p)
    BY DEF Blocks
  <2>2. /\ Block(p, p[u]) \in Blocks(p)
        /\ u \in Block(p, p[u]) /\ v \in Block(p, p[u])
    BY <1>1, BlockOfNode
  <2> QED
    BY <1>1, <2>1, <2>2 DEF StablePartition
<1>2. ASSUME \A u, v \in DOMAIN p, c \in Range(p) : p[u] = p[v] =>
               OutWeight(g, u, Block(p, c)) = OutWeight(g, v, Block(p, c))
      PROVE  StablePartition(g, Blocks(p))
  <2> SUFFICES ASSUME NEW B \in Blocks(p), NEW C \in Blocks(p),
                      NEW u \in B, NEW v \in B
               PROVE  OutWeight(g, u, C) = OutWeight(g, v, C)
    BY DEF StablePartition
  <2>1. PICK b \in Range(p), c \in Range(p) :
          B = Block(p, b) /\ C = Block(p, c)
    BY DEF Blocks
  <2>2. u \in DOMAIN p /\ v \in DOMAIN p /\ p[u] = p[v]
    BY <2>1 DEF Block
  <2> QED
    BY <1>2, <2>1, <2>2
<1> QED
  BY <1>1, <1>2

(* A node no edge leads from to C sends it nothing; one edge, its weight.  *)
LEMMA OutWeightNone ==
  ASSUME NEW g, NEW u, NEW C, EdgesTo(g, u, C) = {}
  PROVE  OutWeight(g, u, C) = 0
<1>1. 0 % WeightModulus = 0
  BY ModulusAssumption
<1> QED
  BY <1>1, SumEmpty, OutWeightIs

LEMMA OutWeightOne ==
  ASSUME NEW g, IsGraph(g), NEW u, NEW C, NEW k, EdgesTo(g, u, C) = {k}
  PROVE  OutWeight(g, u, C) = g.weight[k] % WeightModulus
<1>1. k \in EdgesTo(g, u, C)
  OBVIOUS
<1>2. g.weight[k] \in Nat
  BY <1>1, WeightsIn, EdgesToFinite
<1>3. SumFunctionOnSet(g.weight, {} \cup {k}) =
        g.weight[k] + SumFunctionOnSet(g.weight, {})
  BY <1>2, SumAdd, FS_EmptySet
<1>4. SumFunctionOnSet(g.weight, {k}) = g.weight[k]
  <2>1. {} \cup {k} = {k}
    OBVIOUS
  <2> QED
    BY <1>2, <1>3, <2>1, SumEmpty
<1> QED
  BY <1>4, OutWeightIs

(* What u sends to each class of p is what d sends to that node of q.      *)
SendsThrough(g, p, u, q, d) ==
  \A c \in Nodes(q) : OutWeight(g, u, Block(p, c)) = OutWeight(q, d, {c})

(* Sending equal weights to single nodes of a quotient and to their        *)
(* classes in the graph extends to sets of nodes.                          *)
LEMMA OutWeightComposed ==
  ASSUME NEW g, IsGraph(g), NEW q, IsGraph(q),
         NEW p, DOMAIN p = Nodes(g), NEW u, NEW d, SendsThrough(g, p, u, q, d),
         NEW D, D \subseteq Nodes(q),
         NEW B, B \subseteq Nodes(g), \A x \in Nodes(g) : x \in B <=> p[x] \in D
  PROVE  OutWeight(g, u, B) = OutWeight(q, d, D)
<1> DEFINE From(X) == {x \in Nodes(g) : p[x] \in X}
           T == {X \in SUBSET Nodes(q) :
                   OutWeight(g, u, From(X)) # OutWeight(q, d, X)}
<1>1. T \subseteq SUBSET Nodes(q)
  OBVIOUS
<1>2. IsFiniteSet(Nodes(q))
  <2>1. q.nodes \in Nat
    BY DEF IsGraph
  <2> QED
    BY <2>1, FS_Interval DEF Nodes
<1>0. B = From(D)
  OBVIOUS
<1> SUFFICES ASSUME T # {} PROVE FALSE
  BY <1>0
<1>3. PICK X \in T : \A Y \in T : Y \subseteq X => Y = X
  <2> HIDE DEF T
  <2> QED
    BY <1>1, <1>2, LeastPart
<1>4. X # {}
  <2> SUFFICES ASSUME X = {} PROVE FALSE
    OBVIOUS
  <2>1. EdgesTo(g, u, From(X)) = {} /\ EdgesTo(q, d, X) = {}
    BY DEF EdgesTo
  <2>2. OutWeight(g, u, From(X)) = 0 /\ OutWeight(q, d, X) = 0
    <3> HIDE DEF From
    <3> QED
      BY <2>1, OutWeightNone
  <2> QED
    BY <1>3, <2>2
<1>5. PICK c \in X : TRUE
  BY <1>4
<1> DEFINE Y == X \ {c}
<1>6. /\ c \in Nodes(q) /\ Y \subseteq Nodes(q) /\ Y \subseteq X /\ Y # X
      /\ X = Y \cup {c} /\ Y \cap {c} = {}
  BY <1>3, <1>5
<1>7. From(X) = From(Y) \cup Block(p, c) /\ From(Y) \cap Block(p, c) = {}
  BY <1>5 DEF Block
<1>8. OutWeight(g, u, From(Y)) = OutWeight(q, d, Y)
  <2>1. Y \in SUBSET Nodes(q) /\ Y \notin T
    BY <1>3, <1>6
  <2> HIDE DEF Y, From
  <2> QED
    BY <2>1
<1>9. OutWeight(g, u, Block(p, c)) = OutWeight(q, d, {c})
  BY <1>6 DEF SendsThrough
<1>10. OutWeight(g, u, From(X)) =
         (OutWeight(g, u, From(Y)) + OutWeight(g, u, Block(p, c)))
           % WeightModulus
  <2> HIDE DEF From, Y, T
  <2> QED
    BY <1>7, OutWeightUnion
<1>11. OutWeight(q, d, X) =
         (OutWeight(q, d, Y) + OutWeight(q, d, {c})) % WeightModulus
  <2> HIDE DEF Y, T
  <2> QED
    BY <1>6, OutWeightUnion
<1>12. OutWeight(g, u, From(X)) # OutWeight(q, d, X)
  BY <1>3
<1> HIDE DEF From, Y, T
<1> QED
  BY <1>8, <1>9, <1>10, <1>11, <1>12

-----------------------------------------------------------------------------
(* The quotient of a graph by a labelling with n labels, its edges those   *)
(* of source.                                                              *)
Quotient(q, g, label, n, source) ==
  /\ IsGraph(g) /\ n \in Nat /\ label \in [Nodes(g) -> 0 .. n - 1]
  /\ source \in InOrder(Kept(g, label))
  /\ q = QuotientGraph(g, label, n, source)

LEMMA KeptEdges ==
  ASSUME NEW q, NEW g, NEW label, NEW n, NEW source,
         Quotient(q, g, label, n, source)
  PROVE  /\ Kept(g, label) \subseteq Edges(g)
         /\ IsFiniteSet(Kept(g, label)) /\ q.edges \in Nat
         /\ q.edges = Cardinality(Kept(g, label)) /\ q.nodes = n
         /\ Nodes(q) = 0 .. n - 1
         /\ DOMAIN source = Edges(q) /\ source \in [Edges(q) -> Edges(g)]
         /\ \A k \in Edges(q) : source[k] \in Kept(g, label)
         /\ \A j, k \in Edges(q) : j < k => source[j] < source[k]
         /\ \A k \in Edges(q) :
              /\ source[k] \in Nat
              /\ q.start[k] = label[g.start[source[k]]]
              /\ q.end[k] = label[g.end[source[k]]]
              /\ q.weight[k] = SummedWeight(g, label, source[k])
<1>1. Kept(g, label) \subseteq Edges(g)
  BY DEF Kept
<1>2. g.edges \in Nat
  BY DEF Quotient, IsGraph
<1>3. IsFiniteSet(Kept(g, label)) /\ Cardinality(Kept(g, label)) \in Nat
  BY <1>1, <1>2, CountInInterval DEF Edges
<1>4. /\ q.edges = Cardinality(Kept(g, label)) /\ q.nodes = n
      /\ q.start = [k \in DOMAIN source |-> label[g.start[source[k]]]]
      /\ q.end = [k \in DOMAIN source |-> label[g.end[source[k]]]]
      /\ q.weight = [k \in DOMAIN source |-> SummedWeight(g, label, source[k])]
  BY DEF Quotient, QuotientGraph
<1>5. /\ source \in [0 .. Cardinality(Kept(g, label)) - 1 -> Kept(g, label)]
      /\ \A j, k \in DOMAIN source : j < k => source[j] < source[k]
  BY DEF Quotient, InOrder
<1>6. DOMAIN source = Edges(q) /\ Nodes(q) = 0 .. n - 1
  BY <1>4, <1>5 DEF Edges, Nodes
<1>7. \A k \in Edges(q) : source[k] \in Kept(g, label) /\ source[k] \in Edges(g)
  BY <1>1, <1>4, <1>5, <1>6 DEF Edges
<1>8. \A k \in Edges(q) : source[k] \in Nat
  BY <1>2, <1>7 DEF Edges
<1>9. source \in [Edges(q) -> Edges(g)]
  BY <1>5, <1>6, <1>7
<1> QED
  BY <1>1, <1>3, <1>4, <1>5, <1>6, <1>7, <1>8, <1>9

LEMMA SummedWeightFits ==
  ASSUME NEW g, IsGraph(g), NEW label, NEW e
  PROVE  SummedWeight(g, label, e) \in 0 .. WeightModulus - 1
<1> DEFINE S == {d \in Edges(g) : Parallel(g, label, d, e)}
<1>1. g.edges \in Nat
  BY DEF IsGraph
<1>2. IsFiniteSet(S)
  BY <1>1, CountInInterval DEF Edges
<1>3. \A d \in S : g.weight[d] \in Nat
  BY ModulusAssumption DEF IsGraph
<1>4. SumFunctionOnSet(g.weight, S) \in Nat
  <2> HIDE DEF S
  <2> QED
    BY <1>2, <1>3, SumType
<1> QED
  BY <1>4, ModulusAssumption, ModDef DEF SummedWeight

LEMMA QuotientIsGraph ==
  ASSUME NEW q, NEW g, NEW label, NEW n, NEW source,
         Quotient(q, g, label, n, source)
  PROVE  IsGraph(q)
<1>1. /\ q.nodes \in Nat /\ q.edges \in Nat /\ DOMAIN source = Edges(q)
      /\ Nodes(q) = 0 .. n - 1
      /\ \A k \in Edges(q) : source[k] \in Edges(g)
  BY KeptEdges DEF Quotient
<1>2. /\ q.start = [k \in DOMAIN source |-> label[g.start[source[k]]]]
      /\ q.end = [k \in DOMAIN source |-> label[g.end[source[k]]]]
      /\ q.weight = [k \in DOMAIN source |-> SummedWeight(g, label, source[k])]
      /\ q = [nodes |-> q.nodes, edges |-> q.edges, start |-> q.start,
              end |-> q.end, weight |-> q.weight]
  BY DEF Quotient, QuotientGraph
<1>3. /\ IsGraph(g) /\ label \in [Nodes(g) -> 0 .. n - 1]
  BY DEF Quotient
<1>4. \A e \in Edges(g) : g.start[e] \in Nodes(g) /\ g.end[e] \in Nodes(g)
  BY <1>3 DEF IsGraph
<1>5. /\ q.start \in [Edges(q) -> Nodes(q)]
      /\ q.end \in [Edges(q) -> Nodes(q)]
  BY <1>1, <1>2, <1>3, <1>4
<1>6. q.weight \in [Edges(q) -> 0 .. WeightModulus - 1]
  BY <1>1, <1>2, <1>3, SummedWeightFits
<1> QED
  BY <1>1, <1>2, <1>5, <1>6 DEF IsGraph

(* Every edge kept is one of the quotient, and the sources stay together.  *)
LEMMA EveryKept ==
  ASSUME NEW q, NEW g, NEW label, NEW n, NEW source,
         Quotient(q, g, label, n, source), NEW e \in Kept(g, label)
  PROVE  \E k \in Edges(q) : source[k] = e
<1> DEFINE K == Kept(g, label)
<1>1. /\ IsFiniteSet(K) /\ q.edges = Cardinality(K) /\ q.edges \in Nat
      /\ source \in [Edges(q) -> K]
      /\ \A k \in Edges(q) : source[k] \in Nat
      /\ \A j, k \in Edges(q) : j < k => source[j] < source[k]
  BY KeptEdges
<1>2. IsFiniteSet(Edges(q)) /\ Cardinality(Edges(q)) = Cardinality(K)
  BY <1>1, CountInterval DEF Edges
<1>3. \A j, k \in Edges(q) : source[j] = source[k] => j = k
  <2> SUFFICES ASSUME NEW j \in Edges(q), NEW k \in Edges(q),
                      source[j] = source[k]
               PROVE  j = k
    OBVIOUS
  <2>1. j \in Int /\ k \in Int
    BY DEF Edges
  <2>2. source[j] \in Nat /\ ~(source[j] < source[k]) /\ ~(source[k] < source[j])
    BY <1>1
  <2> QED
    BY <1>1, <2>1, <2>2
<1>4. source \in Injection(Edges(q), K)
  BY <1>1, <1>3 DEF Injection, IsInjective
<1> HIDE DEF K
<1>5. source \in Surjection(Edges(q), K)
  BY <1>1, <1>2, <1>4, FS_Injection
<1> QED
  BY <1>5 DEF Surjection, K

LEMMA QuotientGrouped ==
  ASSUME NEW q, NEW g, NEW label, NEW n, NEW source,
         Quotient(q, g, label, n, source), Grouped(g)
  PROVE  Grouped(q)
<1> SUFFICES ASSUME NEW j \in Edges(q), NEW k \in Edges(q), j <= k,
                    q.start[j] = q.start[k], NEW e \in j .. k
             PROVE  q.start[e] = q.start[j]
  BY DEF Grouped
<1>1. /\ q.edges \in Nat
      /\ \A m \in Edges(q) :
           /\ source[m] \in Edges(g) /\ source[m] \in Nat
           /\ source[m] \in Kept(g, label)
           /\ q.start[m] = label[g.start[source[m]]]
      /\ \A m, x \in Edges(q) : m < x => source[m] < source[x]
  BY KeptEdges
<1>2. e \in Edges(q)
  BY <1>1 DEF Edges
<1>3. j \in Int /\ k \in Int /\ e \in Int /\ j <= e /\ e <= k
  BY DEF Edges
<1>4. source[j] <= source[e] /\ source[e] <= source[k]
  BY <1>1, <1>2, <1>3
<1>5. g.start[source[j]] = g.start[source[k]]
  <2>1. Representative(g, label, source[k])
    BY <1>1 DEF Kept
  <2>2. CASE source[j] = source[k]
    BY <2>2
  <2>3. CASE source[j] # source[k]
    <3>1. source[j] \in 0 .. source[k] - 1
      <4>1. source[j] \in Nat /\ source[k] \in Nat /\ source[e] \in Nat
        BY <1>1, <1>2
      <4>2. source[j] <= source[k]
        BY <4>1, <1>4
      <4> QED
        BY <4>1, <4>2, <2>3
    <3> QED
      BY <1>1, <2>1, <3>1 DEF Representative
  <2> QED
    BY <2>2, <2>3
<1>6. g.start[source[e]] = g.start[source[j]]
  <2>1. source[e] \in source[j] .. source[k] /\ source[j] <= source[k]
    <3>1. source[j] \in Nat /\ source[k] \in Nat /\ source[e] \in Nat
      BY <1>1, <1>2
    <3> QED
      BY <3>1, <1>4
  <2> QED
    BY <1>1, <1>5, <2>1 DEF Grouped
<1> QED
  BY <1>1, <1>2, <1>6

LEMMA QuotientNoParallel ==
  ASSUME NEW q, NEW g, NEW label, NEW n, NEW source,
         Quotient(q, g, label, n, source),
         NEW d \in Edges(q), NEW e \in Edges(q),
         q.start[d] = q.start[e], q.end[d] = q.end[e]
  PROVE  d = e
<1>1. /\ \A m \in Edges(q) :
           /\ source[m] \in Edges(g) /\ source[m] \in Nat
           /\ source[m] \in Kept(g, label)
           /\ q.start[m] = label[g.start[source[m]]]
           /\ q.end[m] = label[g.end[source[m]]]
      /\ \A m, x \in Edges(q) : m < x => source[m] < source[x]
      /\ Edges(q) \subseteq Int
  BY KeptEdges DEF Edges
<1>2. ASSUME NEW j \in Edges(q), NEW k \in Edges(q), j < k,
             q.start[j] = q.start[k], q.end[j] = q.end[k]
      PROVE  FALSE
  <2>1. source[j] \in 0 .. source[k] - 1
    BY <1>1, <1>2
  <2>2. /\ Representative(g, label, source[k])
        /\ ~Parallel(g, label, source[j], source[k])
    BY <1>1, <2>1 DEF Kept
  <2>3. g.start[source[j]] = g.start[source[k]]
    BY <1>1, <1>2, <2>1, <2>2 DEF Representative
  <2> QED
    BY <1>1, <1>2, <2>2, <2>3 DEF Parallel
<1> QED
  BY <1>1, <1>2

(* What a class sends to another, when the classes are stable, is what its *)
(* node of the quotient sends: one edge stands for all that lead there.    *)
SendAlike(g, label, d, c) ==
  \A r \in Nodes(g) : label[r] = label[d] =>
    OutWeight(g, r, Block(label, c)) = OutWeight(g, d, Block(label, c))

LEMMA QuotientWeight ==
  ASSUME NEW q, NEW g, NEW label, NEW n, NEW source,
         Quotient(q, g, label, n, source), Grouped(g),
         NEW d \in Nodes(g), NEW c, SendAlike(g, label, d, c)
  PROVE  OutWeight(g, d, Block(label, c)) = OutWeight(q, label[d], {c})
<1> DEFINE l == label[d]
           F == {e \in Edges(g) : label[g.start[e]] = l}
<1>1. /\ IsGraph(g) /\ g.edges \in Nat /\ DOMAIN label = Nodes(g)
      /\ Edges(g) \subseteq Nat
      /\ \A e \in Edges(g) : g.start[e] \in Nodes(g) /\ g.end[e] \in Nodes(g)
  BY DEF Quotient, IsGraph, Edges
<1>2. IsGraph(q)
  BY QuotientIsGraph
<1>3. /\ \A k \in Edges(q) :
           /\ source[k] \in Edges(g) /\ source[k] \in Nat
           /\ source[k] \in Kept(g, label)
           /\ q.start[k] = label[g.start[source[k]]]
           /\ q.end[k] = label[g.end[source[k]]]
           /\ q.weight[k] = SummedWeight(g, label, source[k])
  BY KeptEdges
<1>4. CASE F = {}
  <2>1. EdgesTo(g, d, Block(label, c)) = {}
    BY <1>4 DEF EdgesTo, Edges
  <2>2. EdgesTo(q, l, {c}) = {}
    BY <1>3, <1>4 DEF EdgesTo, Edges
  <2> QED
    BY <2>1, <2>2, OutWeightNone
<1>5. CASE F # {}
  <2> DEFINE e0 == Min(F)
             r == g.start[e0]
             T == EdgesTo(g, r, Block(label, c))
  <2>1. e0 \in F /\ \A e \in F : e0 <= e
    <3>1. F \subseteq Nat
      BY <1>1
    <3> QED
      BY <1>5, <3>1, MinOfNat
  <2>2. r \in Nodes(g) /\ label[r] = l
    BY <1>1, <2>1
  <2>3. \A e \in Edges(g) :
          g.start[e] = r => Representative(g, label, e)
    <3> SUFFICES ASSUME NEW e \in Edges(g), g.start[e] = r,
                        NEW x \in 0 .. e - 1,
                        label[g.start[x]] = label[g.start[e]]
                 PROVE  g.start[x] = g.start[e]
      BY DEF Representative
    <3>1. x \in F
      BY <1>1, <2>2 DEF Edges
    <3>2. e0 <= x /\ e0 \in Nat /\ x \in e0 .. e /\ e0 <= e /\ e0 \in Edges(g)
      BY <1>1, <2>1, <3>1
    <3> HIDE DEF e0
    <3> QED
      BY <3>2 DEF Grouped
  <2>4. \A e \in Edges(g) : Representative(g, label, e) /\ label[g.start[e]] = l
          => g.start[e] = r
    <3> SUFFICES ASSUME NEW e \in Edges(g), Representative(g, label, e),
                        label[g.start[e]] = l
                 PROVE  g.start[e] = r
      OBVIOUS
    <3>1. e0 <= e /\ e0 \in Nat /\ e \in Nat
      BY <1>1, <2>1
    <3>2. CASE e0 = e
      BY <3>2
    <3>3. CASE e0 # e
      <4>1. e0 \in 0 .. e - 1
        BY <3>1, <3>3
      <4>2. label[g.start[e0]] = label[g.start[e]]
        BY <2>1
      <4> QED
        BY <4>1, <4>2 DEF Representative
    <3> QED
      BY <3>2, <3>3
  <2> HIDE DEF F, e0, r
  <2>5. OutWeight(g, d, Block(label, c)) = OutWeight(g, r, Block(label, c))
    BY <2>2 DEF SendAlike
  <2>6. ASSUME NEW k \in EdgesTo(q, l, {c})
        PROVE  source[k] \in T /\ source[k] \in Kept(g, label)
    <3>1. k \in Edges(q) /\ q.start[k] = l /\ q.end[k] = c
      BY DEF EdgesTo, Edges
    <3>2. Representative(g, label, source[k])
      BY <1>3, <3>1 DEF Kept
    <3>3. g.start[source[k]] = r
      BY <1>3, <2>4, <3>1, <3>2
    <3>4. g.end[source[k]] \in Block(label, c)
      BY <1>1, <1>3, <3>1 DEF Block
    <3> QED
      BY <1>3, <3>1, <3>3, <3>4 DEF EdgesTo, Edges
  <2>7. CASE T = {}
    <3>1. EdgesTo(q, l, {c}) = {}
      BY <2>6, <2>7
    <3>2. OutWeight(g, r, Block(label, c)) = 0 /\ OutWeight(q, l, {c}) = 0
      BY <2>7, <3>1, OutWeightNone
    <3> QED
      BY <2>5, <3>2
  <2>8. CASE T # {}
    <3> DEFINE e1 == Min(T)
    <3>1. /\ e1 \in T /\ e1 \in Edges(g) /\ e1 \in Nat
          /\ g.start[e1] = r /\ label[g.end[e1]] = c
          /\ \A e \in T : e1 <= e
      <4>1. T \subseteq Nat
        BY <1>1 DEF EdgesTo
      <4>2. e1 \in T /\ \A e \in T : e1 <= e
        BY <2>8, <4>1, MinOfNat
      <4> QED
        BY <4>1, <4>2 DEF EdgesTo, Block, Edges
    <3> HIDE DEF e1
    <3>2. \A e \in Edges(g) : Parallel(g, label, e, e1) <=> e \in T
      BY <1>1, <3>1 DEF Parallel, EdgesTo, Block, Edges
    <3>3. e1 \in Kept(g, label)
      <4>1. \A e \in 0 .. e1 - 1 : ~Parallel(g, label, e, e1)
        <5> SUFFICES ASSUME NEW e \in 0 .. e1 - 1, e \in T PROVE FALSE
          BY <1>1, <3>1, <3>2 DEF Edges
        <5> QED
          BY <3>1
      <4> QED
        BY <2>3, <3>1, <4>1 DEF Kept
    <3>4. PICK k \in Edges(q) : source[k] = e1
      BY <3>3, EveryKept
    <3>5. k \in EdgesTo(q, l, {c})
      BY <1>3, <2>2, <3>1, <3>4 DEF EdgesTo, Edges
    <3>6. ASSUME NEW j \in EdgesTo(q, l, {c}) PROVE j = k
      <4>1. j \in Edges(q) /\ q.start[j] = q.start[k] /\ q.end[j] = q.end[k]
        BY <3>5 DEF EdgesTo, Edges
      <4> QED
        BY <4>1, QuotientNoParallel
    <3>7. EdgesTo(q, l, {c}) = {k}
      BY <3>5, <3>6
    <3>8. OutWeight(q, l, {c}) = q.weight[k] % WeightModulus
      <4> HIDE DEF l
      <4> QED
        BY <1>2, <3>7, OutWeightOne
    <3>9. q.weight[k] = OutWeight(g, r, Block(label, c))
      <4>1. {e \in Edges(g) : Parallel(g, label, e, e1)} = T
        BY <3>2 DEF EdgesTo, Edges
      <4> QED
        BY <1>3, <3>4, <4>1, OutWeightIs DEF SummedWeight
    <3>10. q.weight[k] \in 0 .. WeightModulus - 1
      BY <1>2 DEF IsGraph
    <3>11. q.weight[k] % WeightModulus = q.weight[k]
      BY <3>10, ModulusAssumption
    <3> QED
      BY <2>5, <3>8, <3>9, <3>11
  <2> QED
    BY <2>7, <2>8
<1> QED
  BY <1>4, <1>5

(* Nodes of one block of a stable partition send the same in total.        *)
LEMMA StableTotals ==
  ASSUME NEW g, IsGraph(g), NEW q, DOMAIN q = Nodes(g),
         StablePartition(g, Blocks(q)),
         NEW u \in Nodes(g), NEW v \in Nodes(g), q[u] = q[v]
  PROVE  OutWeight(g, u, Nodes(g)) = OutWeight(g, v, Nodes(g))
<1> DEFINE s == [x \in Nodes(g) |-> 0]
<1>1. \A C \in Blocks(q) : OutWeight(g, u, C) = OutWeight(g, v, C)
  <2>1. /\ Block(q, q[u]) \in Blocks(q) /\ u \in Block(q, q[u])
        /\ v \in Block(q, q[u])
    BY BlockOfNode DEF Block
  <2> QED
    BY <2>1 DEF StablePartition
<1>2. Block(s, 0) = Nodes(g) /\ DOMAIN s = DOMAIN q
  BY DEF Block
<1>3. \A x, y \in DOMAIN q : q[x] = q[y] => s[x] = s[y]
  OBVIOUS
<1>4. IsFiniteSet(DOMAIN q)
  <2>1. g.nodes \in Nat
    BY DEF IsGraph
  <2> QED
    BY <2>1, CountInterval DEF Nodes
<1> HIDE DEF s
<1>5. Refines(Blocks(q), Blocks(s))
  BY <1>2, <1>3, RefinesByLabels
<1>6. OutWeight(g, u, Block(s, 0)) = OutWeight(g, v, Block(s, 0))
  BY <1>1, <1>2, <1>4, <1>5, SameWeightCoarser
<1> QED
  BY <1>2, <1>6

-----------------------------------------------------------------------------
(* A stable partition q of a graph g, seen in a quotient h of g by p: the  *)
(* nodes of h whose classes q connects are joined.                         *)

(* A set of nodes of h that q does not lead out of.                        *)
Closed(p, q, S) ==
  \A u, v \in DOMAIN p : q[u] = q[v] => (p[u] \in S <=> p[v] \in S)
Joined(p, q, N, d) ==
  {x \in N : \A S \in SUBSET N : Closed(p, q, S) /\ d \in S => x \in S}

(* A closed set has all or none of the nodes joined to one.                *)
LEMMA JoinedAlike ==
  ASSUME NEW N, NEW p, \A u \in DOMAIN p : p[u] \in N, NEW q,
         NEW S \in SUBSET N, Closed(p, q, S),
         NEW d \in N, NEW x \in Joined(p, q, N, d)
  PROVE  x \in N /\ (d \in S <=> x \in S)
<1>1. N \ S \in SUBSET N /\ Closed(p, q, N \ S)
  BY DEF Closed
<1> QED
  BY <1>1 DEF Joined

LEMMA JoinedOnce ==
  ASSUME NEW N, NEW p, \A u \in DOMAIN p : p[u] \in N, NEW q,
         NEW d \in N, NEW x \in Joined(p, q, N, d)
  PROVE  Joined(p, q, N, x) = Joined(p, q, N, d)
<1>1. x \in N
  BY DEF Joined
<1>2. ASSUME NEW S \in SUBSET N, Closed(p, q, S)
      PROVE  d \in S <=> x \in S
  <2>1. N \ S \in SUBSET N /\ Closed(p, q, N \ S)
    BY <1>2 DEF Closed
  <2> QED
    BY <1>2, <2>1 DEF Joined
<1> QED
  BY <1>1, <1>2 DEF Joined

(* Nodes q puts in one class are joined.                                   *)
LEMMA JoinedByStable ==
  ASSUME NEW N, NEW p, \A u \in DOMAIN p : p[u] \in N, NEW q,
         NEW u \in DOMAIN p, NEW v \in DOMAIN p, q[u] = q[v]
  PROVE  p[v] \in Joined(p, q, N, p[u])
BY DEF Joined, Closed

(* The nodes of h are a quotient of g by p.                                *)
Projects(g, p, h) ==
  /\ IsGraph(g) /\ IsGraph(h)
  /\ p \in [Nodes(g) -> Nodes(h)]
  /\ \A u \in Nodes(g) : SendsThrough(g, p, u, h, p[u])

(* To a closed set joined nodes send the same.                             *)
LEMMA JoinedSend ==
  ASSUME NEW g, NEW h, NEW p, Projects(g, p, h),
         NEW q, DOMAIN q = Nodes(g), StablePartition(g, Blocks(q)),
         NEW B \in SUBSET Nodes(h), Closed(p, q, B),
         NEW d \in Nodes(h), NEW x \in Joined(p, q, Nodes(h), d)
  PROVE  OutWeight(h, d, B) = OutWeight(h, x, B)
<1> DEFINE P == {u \in Nodes(g) : p[u] \in B}
           s == [u \in Nodes(g) |-> IF u \in P THEN 1 ELSE 0]
           S == {y \in Nodes(h) : OutWeight(h, y, B) = OutWeight(h, d, B)}
<1>1. /\ IsGraph(g) /\ IsGraph(h) /\ DOMAIN p = Nodes(g)
      /\ \A u \in Nodes(g) : p[u] \in Nodes(h) /\ SendsThrough(g, p, u, h, p[u])
  BY DEF Projects
<1>2. \A u \in Nodes(g) : OutWeight(g, u, P) = OutWeight(h, p[u], B)
  <2> SUFFICES ASSUME NEW u \in Nodes(g)
               PROVE  OutWeight(g, u, P) = OutWeight(h, p[u], B)
    OBVIOUS
  <2>1. P \subseteq Nodes(g) /\ \A y \in Nodes(g) : y \in P <=> p[y] \in B
    OBVIOUS
  <2> HIDE DEF P
  <2> QED
    BY <1>1, <2>1, OutWeightComposed
<1>3. Block(s, 1) = P /\ DOMAIN s = Nodes(g)
  BY DEF Block
<1>4. Refines(Blocks(q), Blocks(s))
  <2>1. \A u, v \in Nodes(g) : q[u] = q[v] => s[u] = s[v]
    BY <1>1 DEF Closed
  <2>2. DOMAIN s = DOMAIN q
    OBVIOUS
  <2> HIDE DEF s
  <2> QED
    BY <2>1, <2>2, RefinesByLabels
<1>5. IsFiniteSet(DOMAIN q)
  <2>1. g.nodes \in Nat
    BY <1>1 DEF IsGraph
  <2> QED
    BY <2>1, CountInterval DEF Nodes
<1>6. ASSUME NEW u \in Nodes(g), NEW v \in Nodes(g), q[u] = q[v]
      PROVE  OutWeight(g, u, P) = OutWeight(g, v, P)
  <2>1. \A C \in Blocks(q) : OutWeight(g, u, C) = OutWeight(g, v, C)
    <3>1. /\ Block(q, q[u]) \in Blocks(q) /\ u \in Block(q, q[u])
          /\ v \in Block(q, q[u])
      BY <1>6, BlockOfNode DEF Block
    <3> QED
      BY <3>1 DEF StablePartition
  <2> HIDE DEF s, P
  <2>2. OutWeight(g, u, Block(s, 1)) = OutWeight(g, v, Block(s, 1))
    BY <1>1, <1>3, <1>4, <1>5, <2>1, SameWeightCoarser
  <2> QED
    BY <1>3, <2>2
<1> HIDE DEF P, s
<1>7. S \in SUBSET Nodes(h) /\ d \in S /\ Closed(p, q, S)
  BY <1>1, <1>2, <1>6 DEF Closed
<1> HIDE DEF S
<1>8. x \in S
  BY <1>1, <1>7, JoinedAlike
<1> QED
  BY <1>8 DEF S

(* The join is a stable partition of h, in which q's classes stay whole.   *)
LEMMA ProjectStable ==
  ASSUME NEW g, NEW h, NEW p, Projects(g, p, h),
         NEW q, DOMAIN q = Nodes(g), StablePartition(g, Blocks(q))
  PROVE  \E r \in [Nodes(h) -> Nodes(h)] :
           /\ StablePartition(h, Blocks(r))
           /\ \A u, v \in Nodes(g) : q[u] = q[v] => r[p[u]] = r[p[v]]
<1> DEFINE N == Nodes(h)
           class == [d \in N |-> Joined(p, q, N, d)]
           r == [d \in N |-> Min(class[d])]
<1>1. /\ IsGraph(h) /\ DOMAIN p = Nodes(g)
      /\ \A u \in DOMAIN p : p[u] \in N
  BY DEF Projects
<1>2. N \subseteq Nat
  BY <1>1 DEF IsGraph, Nodes
<1>3. \A d \in N : class[d] \subseteq N /\ d \in class[d]
  BY DEF Joined
<1>4. \A d, x \in N : x \in class[d] <=> class[d] = class[x]
  <2>1. ASSUME NEW d \in N, NEW x \in N, x \in class[d]
        PROVE  class[d] = class[x]
    <3>1. x \in Joined(p, q, N, d)
      BY <2>1
    <3> HIDE DEF N
    <3>2. Joined(p, q, N, x) = Joined(p, q, N, d)
      BY <1>1, <3>1, JoinedOnce
    <3> QED
      BY <3>2
  <2> HIDE DEF class
  <2> QED
    BY <1>3, <2>1
<1>5. NamesLeast(N, class, class, r)
  <2> HIDE DEF class, N
  <2> QED
    BY <1>2, <1>3, <1>4 DEF NamesLeast
<1>6. /\ \A d, x \in N : r[d] = r[x] <=> class[d] = class[x]
      /\ \A d \in N : r[d] \in N
  <2> HIDE DEF class, r, N
  <2> QED
    BY <1>5, LeastNames
<1>7. r \in [N -> N]
  BY <1>6
<1>8. \A d, x \in N : r[d] = r[x] => x \in Joined(p, q, N, d)
  <2>1. \A d, x \in N : r[d] = r[x] => x \in class[d]
    <3> HIDE DEF r, class, N
    <3> QED
      BY <1>4, <1>6
  <2> HIDE DEF r
  <2> QED
    BY <2>1
<1>9. ASSUME NEW d \in N, NEW x \in N, r[d] = r[x],
             NEW B \in SUBSET N, Closed(p, q, B)
      PROVE  OutWeight(h, d, B) = OutWeight(h, x, B)
  <2>1. x \in Joined(p, q, N, d)
    BY <1>8, <1>9
  <2> HIDE DEF r
  <2> QED
    BY <1>9, <2>1, JoinedSend
<1>10. \A u, v \in Nodes(g) : q[u] = q[v] => r[p[u]] = r[p[v]]
  <2> SUFFICES ASSUME NEW u \in Nodes(g), NEW v \in Nodes(g), q[u] = q[v]
               PROVE  r[p[u]] = r[p[v]]
    OBVIOUS
  <2>1. p[v] \in Joined(p, q, N, p[u])
    <3> HIDE DEF N
    <3> QED
      BY <1>1, JoinedByStable
  <2>2. p[v] \in class[p[u]] /\ p[u] \in N /\ p[v] \in N
    BY <1>1, <2>1
  <2> HIDE DEF class, r, N
  <2> QED
    BY <1>4, <1>6, <2>2
<1>11. \A c : Closed(p, q, Block(r, c)) /\ Block(r, c) \in SUBSET N
  <2> HIDE DEF class
  <2>1. DOMAIN r = N
    OBVIOUS
  <2> HIDE DEF r, N
  <2> QED
    BY <1>1, <1>10, <2>1 DEF Closed, Block
<1>12. StablePartition(h, Blocks(r))
  <2>1. DOMAIN r = N
    OBVIOUS
  <2> HIDE DEF r, N
  <2> QED
    BY <1>9, <1>11, <2>1, StableByLabels
<1> HIDE DEF r
<1> QED
  BY <1>7, <1>10, <1>12

(***************************************************************************)
(* Types.                                                                  *)
(***************************************************************************)

(* Outside the parallel region no thread is at work.                       *)
QuietOutside ==
  pc # "parallel" => \A g \in Gpus : tpc[g] \in {"idle", "undefined"}

(* The batches of a round are as many as its edges need.                   *)
EnoughBatches ==
  pc = "parallel" => batches = CeilDiv(edge_n, max_batch_edge_n)

TypeInv == TypeOK /\ QuietOutside /\ EnoughBatches

LEMMA InitTypeInv == Init => TypeInv
<1> SUFFICES ASSUME Init PROVE TypeInv
  OBVIOUS
<1> USE RbscAssumption, GraphsAssumption DEF Init
<1>1. IsGraph(graph)
  OBVIOUS
<1>2. HostTypeOK
  BY <1>1 DEF HostTypeOK, IsGraph, Nodes, Edges
<1>3. tpc \in [Gpus -> {"idle", "scan", "trim", "init", "refine", "merge",
                       "undefined"}]
  OBVIOUS
<1>4. \A g \in Gpus : ThreadTypeOK(g)
  BY DEF ThreadTypeOK
<1> QED
  BY <1>2, <1>3, <1>4
  DEF TypeInv, TypeOK, QuietOutside, EnoughBatches, PrivateDomains

(* The number of batches is a natural number that covers all edges.        *)
LEMMA CeilDivNat ==
  ASSUME NEW a \in Nat, NEW b \in Nat \ {0}
  PROVE  CeilDiv(a, b) \in Nat /\ a <= CeilDiv(a, b) * b
BY DEF CeilDiv

-----------------------------------------------------------------------------
(* The main thread.                                                        *)

LEMMA BeginRoundTypeInv == TypeInv /\ BeginRound => TypeInv'
<1> SUFFICES ASSUME TypeInv, BeginRound PROVE TypeInv'
  OBVIOUS
<1> USE RbscAssumption
<1>1. HostTypeOK /\ QuietOutside
  BY DEF TypeInv, TypeOK
<1>2. batches' \in Nat
  BY <1>1, CeilDivNat DEF BeginRound, HostTypeOK
<1>3. HostTypeOK'
  <2>1. {node_n, new_node_n, edge_n, new_edge_n, batches}' \subseteq Nat
    BY <1>1, <1>2 DEF BeginRound, HostTypeOK
  <2>2. /\ {edge_start', edge_end'} \subseteq [Edge' -> Node']
        /\ cls' \in [Nodes(graph') -> Node']
    BY <1>1 DEF BeginRound, HostTypeOK, Edge, Node, IsGraph, Nodes, Edges
  <2>3. w' \in [Node' -> (0 .. new_node_n' - 1) \cup {node_n'}]
    BY DEF BeginRound, Node
  <2> QED
    BY <1>1, <2>1, <2>2, <2>3 DEF BeginRound, HostTypeOK
<1>4. \A g \in Gpus : ThreadTypeOK(g)'
  BY <1>1 DEF BeginRound, QuietOutside, ThreadTypeOK, threadvars
<1> QED
  BY <1>1, <1>3, <1>4
  DEF TypeInv, TypeOK, QuietOutside, EnoughBatches, PrivateDomains,
      BeginRound, threadvars

(* Completing the labels gives every node one below the new node count.    *)
LEMMA FullLabelType ==
  ASSUME TypeInv, pc = "parallel"
  PROVE  LET total == new_node_n + Cardinality(Unlabelled(Node))
         IN  total \in Nat /\ FullLabel \in [Node -> 0 .. total - 1]
<1>1. /\ node_n \in Nat /\ new_node_n \in Nat
      /\ w \in [Node -> (0 .. new_node_n - 1) \cup {node_n}]
  BY DEF TypeInv, TypeOK, HostTypeOK
<1> DEFINE all == Unlabelled(Node)
<1>2. IsFiniteSet(all) /\ Cardinality(all) \in Nat
  BY <1>1, CountInInterval DEF Unlabelled, Node
<1>3. ASSUME NEW u \in Node
      PROVE  FullLabel[u] \in 0 .. new_node_n + Cardinality(all) - 1
  <2>1. CASE w[u] # node_n
    BY <2>1, <1>1, <1>2, <1>3 DEF FullLabel
  <2>2. CASE w[u] = node_n
    <3> DEFINE before == Unlabelled(0 .. u - 1)
    <3>1. before \subseteq all /\ u \in all /\ u \notin before
      BY <2>2, <1>1, <1>3 DEF Unlabelled, Node
    <3>2. /\ Cardinality(before) \in Nat
          /\ Cardinality(before) < Cardinality(all)
      BY <3>1, <1>2, CountStrict
    <3>3. FullLabel[u] = new_node_n + Cardinality(before)
      BY <2>2, <1>3 DEF FullLabel
    <3> HIDE DEF before, all
    <3> QED
      BY <3>2, <3>3, <1>1, <1>2
  <2> QED
    BY <2>1, <2>2
<1>4. FullLabel = [u \in Node |-> FullLabel[u]]
  BY DEF FullLabel
<1> QED
  BY <1>1, <1>2, <1>3, <1>4

LEMMA CompactTypeInv == TypeInv /\ Compact => TypeInv'
<1> SUFFICES ASSUME TypeInv, Compact PROVE TypeInv'
  OBVIOUS
<1> USE RbscAssumption
<1>1. /\ HostTypeOK
      /\ pc = "parallel"
      /\ \A g \in Gpus : tpc[g] = "idle"
      /\ batches \in Nat /\ todo = {}
  BY DEF TypeInv, TypeOK, HostTypeOK, Compact, Barrier
<1>2. /\ new_node_n' \in Nat
      /\ FullLabel \in [Node -> 0 .. new_node_n' - 1]
  BY <1>1, FullLabelType DEF Compact
<1>3. /\ Kept(RoundGraph, w') \subseteq Edge
      /\ Cardinality(Kept(RoundGraph, w')) \in Nat
  <2>1. Kept(RoundGraph, w') \subseteq Edge
    BY DEF Kept, RoundGraph, Edges, Edge
  <2> QED
    BY <2>1, <1>1, CountInInterval DEF Edge, HostTypeOK
<1>4. PICK source \in InOrder(Kept(RoundGraph, w')) :
        /\ new_edge_n' = Cardinality(Kept(RoundGraph, w'))
        /\ edge_start' = [k \in DOMAIN source |-> w'[edge_start[source[k]]]]
        /\ edge_end' = [k \in DOMAIN source |-> w'[edge_end[source[k]]]]
  BY DEF Compact, QuotientGraph, RoundGraph
<1>5. source \in [0 .. new_edge_n' - 1 -> Edge]
  BY <1>3, <1>4 DEF InOrder
<1>6. w' \in [Node -> 0 .. new_node_n' - 1]
  BY <1>2 DEF Compact
<1>7. {edge_start', edge_end'} \subseteq
        [0 .. new_edge_n' - 1 -> 0 .. new_node_n' - 1]
  BY <1>1, <1>4, <1>5, <1>6 DEF HostTypeOK
<1>8. cls' \in [Nodes(graph') -> 0 .. new_node_n' - 1]
  BY <1>1, <1>6 DEF Compact, HostTypeOK
<1>9. pc' \in {"round", "print"}
  BY DEF Compact
<1>10. HostTypeOK'
  <2>1. {node_n, new_node_n, edge_n, new_edge_n, batches}' \subseteq Nat
    BY <1>1, <1>2, <1>3, <1>4 DEF Compact, HostTypeOK
  <2>2. /\ ideal' \in BOOLEAN /\ IsGraph(graph')
        /\ todo' \subseteq 0 .. batches' - 1
    BY <1>1 DEF Compact, HostTypeOK
  <2> QED
    BY <1>7, <1>8, <1>9, <2>1, <2>2 DEF HostTypeOK
<1>11. UNCHANGED threadvars /\ tpc' = tpc
  BY DEF Compact, threadvars
<1>12. \A g \in Gpus : ThreadTypeOK(g)'
  BY <1>1, <1>11 DEF ThreadTypeOK
<1> QED
  BY <1>1, <1>9, <1>10, <1>11, <1>12
  DEF TypeInv, TypeOK, QuietOutside, EnoughBatches, PrivateDomains,
      threadvars

(* The other steps of the main thread only move it on.                     *)
LEMMA ExitTypeInv ==
  TypeInv /\ (CompactUndefined \/ LeaveLoop \/ PrintResult) => TypeInv'
<1> SUFFICES ASSUME TypeInv, CompactUndefined \/ LeaveLoop \/ PrintResult
             PROVE  TypeInv'
  OBVIOUS
<1>1. /\ pc' \in {"undefined", "print", "done"}
      /\ \A g \in Gpus : tpc[g] \in {"idle", "undefined"}
      /\ UNCHANGED <<ideal, graph, node_n, new_node_n, edge_n, new_edge_n,
                     batches, todo, tpc, threadvars>>
  BY DEF CompactUndefined, LeaveLoop, PrintResult, Barrier, TypeInv,
         QuietOutside, threadvars
<1>2. HostTypeOK'
  BY <1>1 DEF TypeInv, TypeOK, HostTypeOK
<1>3. \A g \in Gpus : ThreadTypeOK(g)'
  BY <1>1 DEF ThreadTypeOK
<1>4. tpc' = tpc /\ PrivateDomains' /\ TypeOK
  BY <1>1 DEF TypeInv, TypeOK, PrivateDomains, threadvars
<1> QED
  BY <1>1, <1>2, <1>3, <1>4 DEF TypeInv, TypeOK, QuietOutside, EnoughBatches

-----------------------------------------------------------------------------
(* The threads.                                                            *)

Busy == {"scan", "trim", "init", "refine", "merge"}

LEMMA BusyIsParallel ==
  ASSUME TypeInv, NEW g \in Gpus, tpc[g] \in Busy
  PROVE  pc = "parallel"
BY DEF TypeInv, QuietOutside, Busy

(* What a thread's step leaves of the host: only w, the counter and the    *)
(* batches to do can change.                                               *)
LEMMA HostFrame ==
  ASSUME TypeInv, pc = "parallel", UNCHANGED hostvars,
         todo' \subseteq todo, new_node_n' \in Nat,
         w' \in [Node -> (0 .. new_node_n' - 1) \cup {node_n}]
  PROVE  HostTypeOK'
<1>1. /\ HostTypeOK
      /\ UNCHANGED <<ideal, graph, node_n, edge_n, new_edge_n, batches,
                     edge_start, edge_end, edge_weight, cls, result, pc>>
  BY DEF TypeInv, TypeOK, hostvars
<1> QED
  BY <1>1 DEF HostTypeOK, Node, Edge

LEMMA SameW ==
  ASSUME TypeInv, pc = "parallel", UNCHANGED <<w, new_node_n>>
  PROVE  /\ new_node_n' \in Nat
         /\ w' \in [Node -> (0 .. new_node_n' - 1) \cup {node_n}]
BY DEF TypeInv, TypeOK, HostTypeOK

PrivateUnchanged(h) ==
  /\ tpc'[h] = tpc[h] /\ batch'[h] = batch[h] /\ i'[h] = i[h]
  /\ batch_start'[h] = batch_start[h] /\ batch_end'[h] = batch_end[h]
  /\ batch_mask'[h] = batch_mask[h] /\ partition'[h] = partition[h]
  /\ label_map'[h] = label_map[h]

(* A step of one thread keeps the types of another.                        *)
LEMMA ThreadFrame ==
  ASSUME TypeInv, UNCHANGED hostvars, todo' \subseteq todo,
         new_node_n' \in Nat, new_node_n \in Nat, new_node_n <= new_node_n',
         NEW h \in Gpus, PrivateUnchanged(h),
         tpc[h] \in {"scan", "trim"} =>
           {new_batch_start', new_batch_end'} \subseteq
             (0 .. edge_n) \cup {NOT_INIT}
  PROVE  ThreadTypeOK(h)'
<1>1. ThreadTypeOK(h) /\ UNCHANGED <<node_n, edge_n, batches>>
  BY DEF TypeInv, TypeOK, hostvars
<1>2. tpc[h] = "merge" =>
        label_map'[h] \in [Node -> (0 .. new_node_n' - 1) \cup {node_n}]
  BY <1>1 DEF ThreadTypeOK, PrivateUnchanged
<1> QED
  BY <1>1, <1>2
  DEF ThreadTypeOK, PrivateUnchanged, Node, RangeStart, RangeEnd

(* Assembling the invariant after a step of thread g.                      *)
LEMMA StepTypeInv ==
  ASSUME TypeInv, NEW g \in Gpus, pc = "parallel", UNCHANGED hostvars,
         todo' \subseteq todo,
         new_node_n' \in Nat, new_node_n <= new_node_n',
         w' \in [Node -> (0 .. new_node_n' - 1) \cup {node_n}],
         tpc' \in [Gpus -> {"idle", "scan", "trim", "init", "refine",
                           "merge", "undefined"}],
         ThreadTypeOK(g)', PrivateDomains',
         \A h \in Gpus \ {g} :
           /\ PrivateUnchanged(h)
           /\ tpc[h] \in {"scan", "trim"} =>
                {new_batch_start', new_batch_end'} \subseteq
                  (0 .. edge_n) \cup {NOT_INIT}
  PROVE  TypeInv'
<1>1. HostTypeOK'
  BY HostFrame
<1>2. new_node_n \in Nat
  BY DEF TypeInv, TypeOK, HostTypeOK
<1>3. \A h \in Gpus \ {g} : ThreadTypeOK(h)'
  BY <1>2, ThreadFrame
<1>4. pc' = "parallel" /\ UNCHANGED <<edge_n, batches>>
  BY DEF hostvars
<1> QED
  BY <1>1, <1>3, <1>4
  DEF TypeInv, TypeOK, QuietOutside, EnoughBatches, PrivateDomains

LEMMA TakeBatchTypeInv ==
  ASSUME TypeInv, NEW g \in Gpus, TakeBatch(g)
  PROVE  TypeInv'
<1> USE RbscAssumption
<1>1. /\ pc = "parallel" /\ UNCHANGED hostvars
      /\ UNCHANGED <<w, new_node_n, batch_start, batch_end, z_unique_n,
                     partition, label_map>>
      /\ new_batch_start' = NOT_INIT /\ new_batch_end' = NOT_INIT
  BY DEF TakeBatch
<1>2. PICK b \in todo :
        /\ todo' = todo \ {b}
        /\ batch' = [batch EXCEPT ![g] = b]
        /\ i' = [i EXCEPT ![g] = RangeStart(b)]
        /\ batch_mask' = [batch_mask EXCEPT ![g] =
             [u \in Node |-> InitialMask(b)]]
        /\ tpc' = [tpc EXCEPT ![g] = "scan"]
  BY DEF TakeBatch, Untaken
<1>3. /\ TypeOK /\ PrivateDomains /\ b \in 0 .. batches - 1
      /\ UNCHANGED <<node_n, edge_n, batches>>
      /\ edge_n \in Nat /\ batches \in Nat
      /\ batches = CeilDiv(edge_n, max_batch_edge_n)
  BY <1>1, <1>2
  DEF TypeInv, TypeOK, HostTypeOK, hostvars, PrivateDomains, EnoughBatches
<1>4. RangeStart(b) \in RangeStart(b) .. RangeEnd(b)
  <2>1. b * max_batch_edge_n < edge_n /\ b * max_batch_edge_n \in Nat
    BY <1>3, LastRange DEF CeilDiv
  <2> QED
    BY <1>3, <2>1 DEF RangeStart, RangeEnd, Lesser
<1>5. ThreadTypeOK(g)'
  <2>1. /\ tpc'[g] = "scan" /\ batch'[g] = b /\ i'[g] = RangeStart(b)
        /\ batch_mask'[g] = [u \in Node |-> InitialMask(b)]
    BY <1>2, <1>3 DEF TypeOK, PrivateDomains
  <2>2. i'[g] \in (RangeStart(batch[g]) .. RangeEnd(batch[g]))'
    BY <1>3, <1>4, <2>1 DEF RangeStart, RangeEnd
  <2>3. batch_mask'[g] \in [Node -> {OFF_BATCH, IN_BATCH, DANGLING}]
    BY <2>1 DEF InitialMask
  <2> QED
    BY <1>1, <1>2, <1>3, <2>1, <2>2, <2>3 DEF ThreadTypeOK, Node
<1>6. \A h \in Gpus \ {g} : PrivateUnchanged(h)
  BY <1>1, <1>2 DEF PrivateUnchanged
<1>7. /\ tpc' \in [Gpus -> {"idle", "scan", "trim", "init", "refine",
                            "merge", "undefined"}]
      /\ PrivateDomains'
  BY <1>1, <1>2, <1>3 DEF TypeOK, PrivateDomains
<1> QED
  BY <1>1, <1>2, <1>3, <1>5, <1>6, <1>7, SameW, StepTypeInv

LEMMA ScanEdgeTypeInv ==
  ASSUME TypeInv, NEW g \in Gpus, ScanEdge(g)
  PROVE  TypeInv'
<1>1. /\ tpc[g] = "scan" /\ i[g] < RangeEnd(batch[g])
      /\ UNCHANGED hostvars
      /\ UNCHANGED <<w, new_node_n, todo, tpc, batch, batch_start, batch_end,
                     z_unique_n, partition, label_map>>
      /\ batch_mask' =
           [batch_mask EXCEPT ![g][edge_start[i[g]]] = IN_BATCH]
      /\ i' = [i EXCEPT ![g] = @ + 1]
      /\ {new_batch_start', new_batch_end'} \subseteq
           {i[g], new_batch_start, new_batch_end}
  BY DEF ScanEdge
<1>2. /\ pc = "parallel" /\ TypeOK /\ ThreadTypeOK(g) /\ PrivateDomains
      /\ edge_n \in Nat
      /\ UNCHANGED <<node_n, edge_n, batches>>
  BY <1>1, BusyIsParallel DEF Busy, TypeInv, TypeOK, HostTypeOK, hostvars
<1>3. RangeStart(batch[g]) \in Nat /\ RangeEnd(batch[g]) \in 0 .. edge_n
  BY <1>1, <1>2, RbscAssumption
  DEF ThreadTypeOK, RangeStart, RangeEnd, Lesser
<1>4. /\ i[g] \in Edge
      /\ i[g] + 1 \in RangeStart(batch[g]) .. RangeEnd(batch[g])
  BY <1>1, <1>2, <1>3 DEF ThreadTypeOK, Edge
<1>5. {new_batch_start', new_batch_end'} \subseteq (0 .. edge_n) \cup {NOT_INIT}
  BY <1>1, <1>2, <1>4 DEF ThreadTypeOK, Edge
<1>6. ThreadTypeOK(g)'
  <2>1. tpc'[g] = "scan" /\ i'[g] = i[g] + 1 /\ batch'[g] = batch[g]
    BY <1>1, <1>2 DEF PrivateDomains
  <2>2. batch_mask'[g] = [batch_mask[g] EXCEPT ![edge_start[i[g]]] = IN_BATCH]
    BY <1>1, <1>2 DEF PrivateDomains
  <2>3. batch_mask'[g] \in [Node -> {OFF_BATCH, IN_BATCH, DANGLING}]
    BY <1>1, <1>2, <2>2 DEF ThreadTypeOK
  <2>4. i'[g] \in (RangeStart(batch[g]) .. RangeEnd(batch[g]))'
    BY <1>2, <1>4, <2>1 DEF RangeStart, RangeEnd
  <2> QED
    BY <1>1, <1>2, <1>5, <2>1, <2>3, <2>4 DEF ThreadTypeOK, Node
<1>7. \A h \in Gpus \ {g} : PrivateUnchanged(h)
  BY <1>1 DEF PrivateUnchanged
<1>8. PrivateDomains'
  BY <1>1, <1>2 DEF PrivateDomains
<1>9. new_node_n \in Nat
  BY <1>2 DEF TypeOK, HostTypeOK
<1> QED
  BY <1>1, <1>2, <1>5, <1>6, <1>7, <1>8, <1>9, SameW, StepTypeInv
  DEF TypeOK

LEMMA CloseScanTypeInv ==
  ASSUME TypeInv, NEW g \in Gpus, CloseScan(g)
  PROVE  TypeInv'
<1>1. /\ tpc[g] = "scan" /\ i[g] = RangeEnd(batch[g])
      /\ UNCHANGED hostvars
      /\ UNCHANGED <<w, new_node_n, todo, batch, i, batch_start, batch_end,
                     z_unique_n, batch_mask, partition, label_map>>
      /\ tpc' = [tpc EXCEPT ![g] = "trim"]
      /\ new_batch_start' = new_batch_start
      /\ new_batch_end' \in {i[g], new_batch_end}
  BY DEF CloseScan
<1>2. /\ pc = "parallel" /\ TypeOK /\ ThreadTypeOK(g) /\ PrivateDomains
      /\ edge_n \in Nat /\ new_node_n \in Nat
      /\ UNCHANGED <<node_n, edge_n, batches>>
  BY <1>1, BusyIsParallel DEF Busy, TypeInv, TypeOK, HostTypeOK, hostvars
<1>3. RangeEnd(batch[g]) \in 0 .. edge_n
  BY <1>1, <1>2, RbscAssumption
  DEF ThreadTypeOK, RangeStart, RangeEnd, Lesser
<1>4. {new_batch_start', new_batch_end'} \subseteq (0 .. edge_n) \cup {NOT_INIT}
  BY <1>1, <1>2, <1>3 DEF ThreadTypeOK
<1>5. /\ tpc'[g] = "trim"
      /\ tpc' \in [Gpus -> {"idle", "scan", "trim", "init", "refine",
                            "merge", "undefined"}]
  BY <1>1, <1>2 DEF TypeOK
<1>6. ThreadTypeOK(g)'
  BY <1>1, <1>2, <1>4, <1>5 DEF ThreadTypeOK, Node
<1>7. \A h \in Gpus \ {g} : PrivateUnchanged(h)
  BY <1>1, <1>2 DEF PrivateUnchanged, TypeOK
<1>8. PrivateDomains'
  BY <1>1, <1>2 DEF PrivateDomains
<1> QED
  BY <1>1, <1>2, <1>4, <1>5, <1>6, <1>7, <1>8, SameW, StepTypeInv

(* A thread that leaves a batch, skipped or merged.                        *)
LEMMA LeaveBatchTypeInv ==
  ASSUME TypeInv, NEW g \in Gpus, SkipBatch(g) \/ EndBatch(g)
  PROVE  TypeInv'
<1>1. /\ tpc[g] \in {"trim", "merge"}
      /\ UNCHANGED hostvars
      /\ UNCHANGED <<w, new_node_n, todo, sharedvars, batch, i, batch_start,
                     batch_end, z_unique_n, batch_mask, partition, label_map>>
      /\ tpc' = [tpc EXCEPT ![g] = "idle"]
  BY DEF SkipBatch, EndBatch
<1>2. /\ pc = "parallel" /\ TypeOK /\ PrivateDomains /\ new_node_n \in Nat
  BY <1>1, BusyIsParallel DEF Busy, TypeInv, TypeOK, HostTypeOK
<1>3. /\ tpc'[g] = "idle"
      /\ tpc' \in [Gpus -> {"idle", "scan", "trim", "init", "refine",
                            "merge", "undefined"}]
  BY <1>1, <1>2 DEF TypeOK
<1>4. ThreadTypeOK(g)'
  BY <1>3 DEF ThreadTypeOK
<1>5. \A h \in Gpus \ {g} :
        /\ PrivateUnchanged(h)
        /\ tpc[h] \in {"scan", "trim"} =>
             {new_batch_start', new_batch_end'} \subseteq
               (0 .. edge_n) \cup {NOT_INIT}
  BY <1>1, <1>2 DEF PrivateUnchanged, TypeOK, ThreadTypeOK, sharedvars
<1>6. PrivateDomains'
  BY <1>1, <1>2 DEF PrivateDomains
<1> QED
  BY <1>1, <1>2, <1>3, <1>4, <1>5, <1>6, SameW, StepTypeInv

LEMMA TrimBatchTypeInv ==
  ASSUME TypeInv, NEW g \in Gpus, TrimBatch(g)
  PROVE  TypeInv'
<1>1. /\ tpc[g] = "trim"
      /\ NOT_INIT \notin {new_batch_start, new_batch_end}
      /\ FitsDevice(new_batch_start, new_batch_end)
      /\ UNCHANGED hostvars
      /\ UNCHANGED <<w, new_node_n, todo, new_batch_start, new_batch_end,
                     batch, i, z_unique_n, partition, label_map>>
      /\ batch_start' = [batch_start EXCEPT ![g] = new_batch_start]
      /\ batch_end' = [batch_end EXCEPT ![g] = new_batch_end]
      /\ tpc' = [tpc EXCEPT ![g] = "init"]
      /\ batch_mask' = [batch_mask EXCEPT ![g] = [u \in Node |->
           IF u \in Outside(new_batch_start, new_batch_end)
           THEN OFF_BATCH ELSE batch_mask[g][u]]]
  BY DEF TrimBatch
<1>2. /\ pc = "parallel" /\ TypeOK /\ ThreadTypeOK(g) /\ PrivateDomains
      /\ edge_n \in Nat /\ new_node_n \in Nat
      /\ UNCHANGED <<node_n, edge_n, batches>>
  BY <1>1, BusyIsParallel DEF Busy, TypeInv, TypeOK, HostTypeOK, hostvars
<1>3. /\ tpc'[g] = "init"
      /\ tpc' \in [Gpus -> {"idle", "scan", "trim", "init", "refine",
                            "merge", "undefined"}]
  BY <1>1, <1>2 DEF TypeOK
<1>4. ThreadTypeOK(g)'
  <2>1. /\ batch_start'[g] = new_batch_start
        /\ batch_end'[g] = new_batch_end
        /\ batch'[g] = batch[g]
    BY <1>1, <1>2 DEF PrivateDomains
  <2>2. batch_mask'[g] \in [Node -> {OFF_BATCH, IN_BATCH, DANGLING}]
    BY <1>1, <1>2 DEF ThreadTypeOK, PrivateDomains
  <2>3. new_batch_start <= new_batch_end
    BY <1>1, <1>2, RbscAssumption DEF ThreadTypeOK, FitsDevice
  <2> QED
    BY <1>1, <1>2, <1>3, <2>1, <2>2, <2>3 DEF ThreadTypeOK, Node
<1>5. \A h \in Gpus \ {g} :
        /\ PrivateUnchanged(h)
        /\ tpc[h] \in {"scan", "trim"} =>
             {new_batch_start', new_batch_end'} \subseteq
               (0 .. edge_n) \cup {NOT_INIT}
  BY <1>1, <1>2 DEF PrivateUnchanged, TypeOK, ThreadTypeOK
<1>6. PrivateDomains'
  BY <1>1, <1>2 DEF PrivateDomains
<1> QED
  BY <1>1, <1>2, <1>3, <1>4, <1>5, <1>6, SameW, StepTypeInv

LEMMA TrimUndefinedTypeInv ==
  ASSUME TypeInv, NEW g \in Gpus, TrimUndefined(g)
  PROVE  TypeInv'
<1>1. /\ pc' = "undefined"
      /\ tpc' = [h \in Gpus |-> "undefined"]
      /\ UNCHANGED <<ideal, graph, node_n, new_node_n, edge_n, new_edge_n,
                     batches, todo, batch, i, batch_start, batch_end,
                     z_unique_n, batch_mask, partition, label_map>>
  BY DEF TrimUndefined
<1>2. HostTypeOK' /\ PrivateDomains'
  BY <1>1 DEF TypeInv, TypeOK, HostTypeOK, PrivateDomains
<1>3. \A h \in Gpus : ThreadTypeOK(h)'
  BY <1>1 DEF ThreadTypeOK
<1> QED
  BY <1>1, <1>2, <1>3 DEF TypeInv, TypeOK, QuietOutside, EnoughBatches

(* A class is named by one of its nodes, so a partition maps nodes to      *)
(* nodes.                                                                  *)
LEMMA LeastIsNode ==
  ASSUME TypeInv, NEW S, S \subseteq Node, S # {}
  PROVE  Min(S) \in Node
<1>1. S \subseteq Nat
  BY DEF Node, TypeInv, TypeOK, HostTypeOK
<1> QED
  BY <1>1, MinOfNat

LEMMA InitPartitionTypeInv ==
  ASSUME TypeInv, NEW g \in Gpus, InitPartition(g)
  PROVE  TypeInv'
<1> DEFINE class(u) == {v \in Node : batch_mask[g][v] = batch_mask[g][u]}
           all == [u \in Node |->
                     IF batch_mask[g][u] = OFF_BATCH THEN u ELSE Min(class(u))]
<1>1. /\ tpc[g] = "init"
      /\ UNCHANGED hostvars
      /\ UNCHANGED <<w, new_node_n, todo, sharedvars, batch, i, batch_start,
                     batch_end, batch_mask, label_map>>
      /\ tpc' = [tpc EXCEPT ![g] = "refine"]
      /\ partition' = [partition EXCEPT ![g] = all]
      /\ z_unique_n' = [z_unique_n EXCEPT ![g] = off_batch_node_n + 1]
  BY DEF InitPartition
<1>2. /\ pc = "parallel" /\ TypeOK /\ ThreadTypeOK(g) /\ PrivateDomains
      /\ edge_n \in Nat /\ new_node_n \in Nat
      /\ UNCHANGED <<node_n, edge_n, batches>>
  BY <1>1, BusyIsParallel DEF Busy, TypeInv, TypeOK, HostTypeOK, hostvars
<1>3. all \in [Node -> Node]
  <2>1. \A u \in Node : Min(class(u)) \in Node
    BY LeastIsNode
  <2> HIDE DEF class
  <2> QED
    BY <2>1
<1>4. /\ tpc'[g] = "refine"
      /\ tpc' \in [Gpus -> {"idle", "scan", "trim", "init", "refine",
                            "merge", "undefined"}]
      /\ partition'[g] = all
  BY <1>1, <1>2 DEF TypeOK, PrivateDomains
<1> HIDE DEF all
<1>5. ThreadTypeOK(g)'
  BY <1>1, <1>2, <1>3, <1>4 DEF ThreadTypeOK, Node
<1>6. \A h \in Gpus \ {g} :
        /\ PrivateUnchanged(h)
        /\ tpc[h] \in {"scan", "trim"} =>
             {new_batch_start', new_batch_end'} \subseteq
               (0 .. edge_n) \cup {NOT_INIT}
  BY <1>1, <1>2 DEF PrivateUnchanged, TypeOK, ThreadTypeOK, sharedvars
<1>7. PrivateDomains'
  BY <1>1, <1>2 DEF PrivateDomains
<1> QED
  BY <1>1, <1>2, <1>4, <1>5, <1>6, <1>7, SameW, StepTypeInv

(* One iteration of the refinement, and its exit to the merge.             *)
LEMMA RefineTypeInv ==
  ASSUME TypeInv, NEW g \in Gpus, Refine(g)
  PROVE  TypeInv'
<1>1. /\ tpc[g] = "refine"
      /\ UNCHANGED hostvars
      /\ UNCHANGED <<w, new_node_n, todo, sharedvars, batch, batch_start,
                     batch_end, batch_mask>>
      /\ z_unique_n' = [z_unique_n EXCEPT ![g] =
                          Cardinality(Range(partition'[g]))]
      /\ \/ /\ tpc' = [tpc EXCEPT ![g] = "merge"]
            /\ label_map' = [label_map EXCEPT ![g] = [c \in Node |-> node_n]]
            /\ i' = [i EXCEPT ![g] = 0]
         \/ UNCHANGED <<tpc, label_map, i>>
  BY DEF Refine
<1>2. PICK z : partition' = [partition EXCEPT ![g] =
        [u \in Node |-> Min({v \in Node : Together(g, u, v, z[u], z[v])})]]
  BY DEF Refine
<1>3. /\ pc = "parallel" /\ TypeOK /\ ThreadTypeOK(g) /\ PrivateDomains
      /\ edge_n \in Nat /\ new_node_n \in Nat /\ node_n \in Nat
      /\ UNCHANGED <<node_n, edge_n, batches>>
  BY <1>1, BusyIsParallel DEF Busy, TypeInv, TypeOK, HostTypeOK, hostvars
<1>4. partition'[g] \in [Node -> Node]
  <2> DEFINE class(u) == {v \in Node : Together(g, u, v, z[u], z[v])}
  <2>1. ASSUME NEW u \in Node PROVE Min(class(u)) \in Node
    <3>1. u \in class(u)
      BY DEF Together
    <3> QED
      BY <3>1, LeastIsNode
  <2>2. partition'[g] = [u \in Node |-> Min(class(u))]
    BY <1>2, <1>3 DEF PrivateDomains
  <2> HIDE DEF class
  <2> QED
    BY <2>1, <2>2
<1>5. PrivateDomains'
  BY <1>1, <1>2, <1>3 DEF PrivateDomains
<1>6. ASSUME NEW h \in Gpus \ {g}
      PROVE  /\ PrivateUnchanged(h)
             /\ tpc[h] \in {"scan", "trim"} =>
                  {new_batch_start', new_batch_end'} \subseteq
                    (0 .. edge_n) \cup {NOT_INIT}
  <2>1. partition'[h] = partition[h]
    BY <1>2, <1>3 DEF PrivateDomains
  <2>2. tpc'[h] = tpc[h] /\ label_map'[h] = label_map[h] /\ i'[h] = i[h]
    BY <1>1, <1>3 DEF PrivateDomains, TypeOK
  <2> QED
    BY <1>1, <1>3, <2>1, <2>2
    DEF PrivateUnchanged, TypeOK, ThreadTypeOK, sharedvars
<1>7. tpc' \in [Gpus -> {"idle", "scan", "trim", "init", "refine", "merge",
                        "undefined"}]
  BY <1>1, <1>3 DEF TypeOK
<1>8. ThreadTypeOK(g)'
  <2>1. CASE UNCHANGED <<tpc, label_map, i>>
    BY <1>1, <1>3, <1>4, <2>1 DEF ThreadTypeOK, Node
  <2>2. CASE /\ tpc' = [tpc EXCEPT ![g] = "merge"]
             /\ label_map' = [label_map EXCEPT ![g] = [c \in Node |-> node_n]]
             /\ i' = [i EXCEPT ![g] = 0]
    <3>1. /\ tpc'[g] = "merge" /\ i'[g] = 0
          /\ label_map'[g] = [c \in Node |-> node_n]
      BY <2>2, <1>3 DEF PrivateDomains, TypeOK
    <3> QED
      BY <1>1, <1>3, <1>4, <3>1 DEF ThreadTypeOK, Node
  <2> QED
    BY <1>1, <2>1, <2>2
<1> QED
  BY <1>1, <1>3, <1>5, <1>6, <1>7, <1>8, SameW, StepTypeInv

LEMMA MergeNodeTypeInv ==
  ASSUME TypeInv, NEW g \in Gpus, MergeNode(g)
  PROVE  TypeInv'
<1> DEFINE u == i[g]
           local_label == partition[g][u]
           fresh == label_map[g][local_label] = node_n
<1>1. /\ tpc[g] = "merge" /\ u < node_n
      /\ UNCHANGED hostvars
      /\ UNCHANGED <<todo, sharedvars, tpc, batch, batch_start, batch_end,
                     z_unique_n, batch_mask, partition>>
      /\ i' = [i EXCEPT ![g] = @ + 1]
  BY DEF MergeNode
<1>2. \/ UNCHANGED <<label_map, new_node_n, w>>
      \/ /\ label_map' = IF fresh
             THEN [label_map EXCEPT ![g][local_label] = new_node_n]
             ELSE label_map
         /\ new_node_n' = IF fresh THEN new_node_n + 1 ELSE new_node_n
         /\ w' = [w EXCEPT ![u] = label_map'[g][local_label]]
  BY DEF MergeNode, Drawn
<1>3. /\ pc = "parallel" /\ TypeOK /\ ThreadTypeOK(g) /\ PrivateDomains
      /\ edge_n \in Nat /\ new_node_n \in Nat /\ node_n \in Nat
      /\ UNCHANGED <<node_n, edge_n, batches>>
      /\ w \in [Node -> (0 .. new_node_n - 1) \cup {node_n}]
  BY <1>1, BusyIsParallel DEF Busy, TypeInv, TypeOK, HostTypeOK, hostvars
<1>4. /\ u \in Node /\ u + 1 \in 0 .. node_n /\ local_label \in Node
      /\ label_map[g] \in [Node -> (0 .. new_node_n - 1) \cup {node_n}]
  BY SMTT(30), <1>1, <1>3 DEF ThreadTypeOK, Node
<1> HIDE DEF u, local_label
<1>5. new_node_n' \in Nat /\ new_node_n <= new_node_n'
  BY <1>2, <1>3
<1>6. label_map'[g] \in [Node -> (0 .. new_node_n' - 1) \cup {node_n}]
  <2>1. CASE UNCHANGED <<label_map, new_node_n, w>>
    BY <1>4, <2>1
  <2>2. CASE fresh /\ new_node_n' = new_node_n + 1 /\ label_map' =
               [label_map EXCEPT ![g][local_label] = new_node_n]
    <3>1. label_map'[g] = [label_map[g] EXCEPT ![local_label] = new_node_n]
      BY <2>2, <1>3 DEF PrivateDomains
    <3> QED
      BY <2>2, <3>1, <1>3, <1>4
  <2>3. CASE ~fresh /\ new_node_n' = new_node_n /\ label_map' = label_map
    BY <1>4, <2>3
  <2> QED
    BY <1>2, <2>1, <2>2, <2>3
<1>7. w' \in [Node -> (0 .. new_node_n' - 1) \cup {node_n}]
  <2>1. CASE UNCHANGED <<label_map, new_node_n, w>>
    BY <1>3, <2>1
  <2>2. CASE w' = [w EXCEPT ![u] = label_map'[g][local_label]]
    BY <1>3, <1>4, <1>5, <1>6, <2>2
  <2> QED
    BY <1>2, <2>1, <2>2
<1>8. PrivateDomains'
  BY <1>1, <1>2, <1>3 DEF PrivateDomains
<1>9. ASSUME NEW h \in Gpus \ {g}
      PROVE  /\ PrivateUnchanged(h)
             /\ tpc[h] \in {"scan", "trim"} =>
                  {new_batch_start', new_batch_end'} \subseteq
                    (0 .. edge_n) \cup {NOT_INIT}
  <2>1. label_map'[h] = label_map[h] /\ i'[h] = i[h]
    BY <1>1, <1>2, <1>3 DEF PrivateDomains
  <2> QED
    BY <1>1, <1>3, <2>1 DEF PrivateUnchanged, TypeOK, ThreadTypeOK, sharedvars
<1>10. i'[g] = u + 1
  BY <1>1, <1>3 DEF PrivateDomains, u
<1>11. ThreadTypeOK(g)'
  BY <1>1, <1>3, <1>4, <1>6, <1>10 DEF ThreadTypeOK, Node
<1> QED
  BY <1>1, <1>3, <1>5, <1>7, <1>8, <1>9, <1>11, StepTypeInv DEF TypeOK

-----------------------------------------------------------------------------

LEMMA NextTypeInv == TypeInv /\ [Next]_vars => TypeInv'
<1> SUFFICES ASSUME TypeInv, [Next]_vars PROVE TypeInv'
  OBVIOUS
<1>1. CASE MainThread
  BY <1>1, BeginRoundTypeInv, CompactTypeInv, ExitTypeInv DEF MainThread
<1>2. CASE \E g \in Gpus : Thread(g)
  BY <1>2, TakeBatchTypeInv, ScanEdgeTypeInv, CloseScanTypeInv,
     LeaveBatchTypeInv, TrimBatchTypeInv, TrimUndefinedTypeInv,
     InitPartitionTypeInv, RefineTypeInv, MergeNodeTypeInv DEF Thread
<1>3. CASE UNCHANGED vars
  BY <1>3 DEF vars, hostvars, sharedvars, threadvars, TypeInv, TypeOK,
     HostTypeOK, ThreadTypeOK, PrivateDomains, QuietOutside, EnoughBatches,
     Node, Edge, RangeStart, RangeEnd
<1> QED
  BY <1>1, <1>2, <1>3 DEF Next, Stopped

LEMMA TypeInvariance == Spec => []TypeInv
BY InitTypeInv, NextTypeInv, PTL DEF Spec

(* Every index rbsc uses stays in bounds (rbsc.cu:274-487), with any       *)
(* number of GPUs and in spite of the bounds they share.                   *)
THEOREM TypeCorrect == Spec => []TypeOK
<1>1. TypeInv => TypeOK
  BY DEF TypeInv
<1> QED
  BY <1>1, TypeInvariance, PTL

-----------------------------------------------------------------------------
(***************************************************************************)
(* What holds of the threads under every schedule, the race on the bounds  *)
(* they trim to included: the nodes a thread refines are whole, and no two *)
(* threads hold the same label.                                            *)
(***************************************************************************)

(* A node left in the mask has all its edges in the trimmed batch.         *)
MaskTrimmed(g) ==
  tpc[g] \in {"init", "refine", "merge"} =>
    \A e \in Edge :
      batch_mask[g][edge_start[e]] # OFF_BATCH => e \in Trimmed(g)

LabelsApart(g, h) ==
  tpc[g] = "merge" /\ tpc[h] = "merge" =>
    \A c, d \in Node :
      label_map[g][c] = label_map[h][d] => label_map[g][c] = node_n

ThreadInv ==
  /\ TypeInv
  /\ \A g \in Gpus : MaskTrimmed(g)
  /\ \A g, h \in Gpus : g # h => LabelsApart(g, h)

(* Steps that leave the thread h, the graph and the counter as they are.   *)
LEMMA MaskFrame ==
  ASSUME NEW h \in Gpus, MaskTrimmed(h), PrivateUnchanged(h),
         UNCHANGED <<edge_n, edge_start>>
  PROVE  MaskTrimmed(h)'
BY DEF MaskTrimmed, PrivateUnchanged, Edge, Trimmed

LEMMA ApartFrame ==
  ASSUME NEW g \in Gpus, NEW h \in Gpus, LabelsApart(g, h),
         PrivateUnchanged(g), PrivateUnchanged(h), UNCHANGED node_n
  PROVE  LabelsApart(g, h)'
BY DEF LabelsApart, PrivateUnchanged, Node

LEMMA InitThreadInv == Init => ThreadInv
BY InitTypeInv DEF Init, ThreadInv, MaskTrimmed, LabelsApart

(* Outside the parallel region there is nothing to keep.                   *)
LEMMA MainThreadInv == ThreadInv /\ MainThread => ThreadInv'
<1> SUFFICES ASSUME ThreadInv, MainThread PROVE ThreadInv'
  OBVIOUS
<1>1. TypeInv'
  BY NextTypeInv DEF ThreadInv, Next
<1>2. \A g \in Gpus : tpc'[g] \in {"idle", "undefined"}
  BY DEF ThreadInv, TypeInv, QuietOutside, MainThread, BeginRound, Compact,
     CompactUndefined, LeaveLoop, PrintResult, Barrier, threadvars
<1> QED
  BY <1>1, <1>2 DEF ThreadInv, MaskTrimmed, LabelsApart

(* The thread that moves stays clear of the mask and of the labels.        *)
LEMMA OtherStepInv ==
  ASSUME ThreadInv, NEW g \in Gpus, TypeInv', UNCHANGED hostvars,
         \A h \in Gpus \ {g} : PrivateUnchanged(h),
         MaskTrimmed(g)', tpc'[g] # "merge"
  PROVE  ThreadInv'
<1>1. UNCHANGED <<edge_n, edge_start, node_n>>
  BY DEF hostvars
<1>2. \A h \in Gpus : MaskTrimmed(h)'
  BY <1>1, MaskFrame DEF ThreadInv
<1>3. \A h, k \in Gpus : h # k => LabelsApart(h, k)'
  <2> SUFFICES ASSUME NEW h \in Gpus, NEW k \in Gpus, h # k
               PROVE  LabelsApart(h, k)'
    OBVIOUS
  <2>1. CASE g \in {h, k}
    BY <2>1 DEF LabelsApart
  <2>2. CASE g \notin {h, k}
    BY <1>1, <2>2, ApartFrame DEF ThreadInv
  <2> QED
    BY <2>1, <2>2
<1> QED
  BY <1>2, <1>3 DEF ThreadInv

LEMMA TrimBatchThreadInv ==
  ASSUME ThreadInv, NEW g \in Gpus, TrimBatch(g)
  PROVE  ThreadInv'
<1>1. /\ TypeInv /\ TypeOK /\ PrivateDomains
      /\ TypeInv'
  BY TrimBatchTypeInv DEF ThreadInv, TypeInv, TypeOK
<1>2. /\ UNCHANGED hostvars /\ UNCHANGED <<edge_n, edge_start, node_n>>
      /\ tpc' = [tpc EXCEPT ![g] = "init"]
      /\ batch_start' = [batch_start EXCEPT ![g] = new_batch_start]
      /\ batch_end' = [batch_end EXCEPT ![g] = new_batch_end]
      /\ batch_mask' = [batch_mask EXCEPT ![g] = [u \in Node |->
           IF u \in Outside(new_batch_start, new_batch_end)
           THEN OFF_BATCH ELSE batch_mask[g][u]]]
      /\ UNCHANGED <<batch, i, z_unique_n, partition, label_map>>
  BY DEF TrimBatch, hostvars
<1>3. \A h \in Gpus \ {g} : PrivateUnchanged(h)
  BY <1>1, <1>2 DEF PrivateUnchanged, PrivateDomains, TypeOK
<1>4. /\ tpc'[g] = "init"
      /\ batch_start'[g] = new_batch_start /\ batch_end'[g] = new_batch_end
      /\ batch_mask'[g] = [u \in Node |->
           IF u \in Outside(new_batch_start, new_batch_end)
           THEN OFF_BATCH ELSE batch_mask[g][u]]
  BY <1>1, <1>2 DEF PrivateDomains, TypeOK
<1>5. MaskTrimmed(g)'
  <2> SUFFICES ASSUME NEW e \in Edge, e \notin Trimmed(g)'
               PROVE  batch_mask'[g][edge_start[e]] = OFF_BATCH
    BY <1>2 DEF MaskTrimmed, Edge
  <2>1. edge_start[e] \in Outside(new_batch_start, new_batch_end)
    BY <1>4 DEF Outside, Trimmed
  <2>2. edge_start[e] \in Node
    <3>1. pc = "parallel"
      BY <1>1, BusyIsParallel DEF TrimBatch, Busy
    <3> QED
      BY <1>1, <3>1 DEF TypeOK, HostTypeOK
  <2> QED
    BY <1>4, <2>1, <2>2
<1> QED
  BY <1>1, <1>2, <1>3, <1>4, <1>5, OtherStepInv

LEMMA ScanThreadInv ==
  ASSUME ThreadInv, NEW g \in Gpus,
         TakeBatch(g) \/ ScanEdge(g) \/ CloseScan(g) \/ SkipBatch(g)
           \/ EndBatch(g)
  PROVE  ThreadInv'
<1>1. /\ TypeInv /\ TypeOK /\ PrivateDomains
      /\ TypeInv'
  BY NextTypeInv DEF ThreadInv, TypeInv, TypeOK, Next, Thread
<1>2. UNCHANGED hostvars
  BY DEF TakeBatch, ScanEdge, CloseScan, SkipBatch, EndBatch
<1>3. tpc'[g] \in {"scan", "trim", "idle"}
  BY <1>1 DEF TypeOK, TakeBatch, ScanEdge, CloseScan, SkipBatch, EndBatch
<1>4. \A h \in Gpus \ {g} : PrivateUnchanged(h)
  <2>1. CASE TakeBatch(g)
    BY <2>1, <1>1 DEF PrivateUnchanged, PrivateDomains, TypeOK, TakeBatch
  <2>2. CASE ScanEdge(g)
    BY <2>2, <1>1 DEF PrivateUnchanged, PrivateDomains, TypeOK, ScanEdge
  <2>3. CASE CloseScan(g) \/ SkipBatch(g) \/ EndBatch(g)
    BY <2>3, <1>1 DEF PrivateUnchanged, PrivateDomains, TypeOK, CloseScan,
       SkipBatch, EndBatch
  <2> QED
    BY <2>1, <2>2, <2>3
<1> QED
  BY <1>1, <1>2, <1>3, <1>4, OtherStepInv DEF MaskTrimmed

LEMMA InitPartitionThreadInv ==
  ASSUME ThreadInv, NEW g \in Gpus, InitPartition(g)
  PROVE  ThreadInv'
<1>1. /\ TypeInv /\ TypeOK /\ PrivateDomains
      /\ TypeInv'
  BY InitPartitionTypeInv DEF ThreadInv, TypeInv, TypeOK
<1>2. /\ UNCHANGED hostvars /\ UNCHANGED <<edge_n, edge_start>>
      /\ tpc[g] = "init"
      /\ tpc' = [tpc EXCEPT ![g] = "refine"]
      /\ UNCHANGED <<batch, i, batch_start, batch_end, batch_mask, label_map>>
      /\ \A h \in Gpus \ {g} : partition'[h] = partition[h]
  BY <1>1 DEF InitPartition, hostvars, PrivateDomains
<1>3. \A h \in Gpus \ {g} : PrivateUnchanged(h)
  BY <1>1, <1>2 DEF PrivateUnchanged, TypeOK
<1>4. MaskTrimmed(g)' /\ tpc'[g] # "merge"
  BY <1>1, <1>2 DEF ThreadInv, MaskTrimmed, Edge, Trimmed, TypeOK
<1> QED
  BY <1>1, <1>2, <1>3, <1>4, OtherStepInv

LEMMA RefineThreadInv ==
  ASSUME ThreadInv, NEW g \in Gpus, Refine(g)
  PROVE  ThreadInv'
<1>1. /\ TypeInv /\ TypeOK /\ PrivateDomains /\ TypeInv'
      /\ \A h \in Gpus : MaskTrimmed(h)
      /\ \A h, k \in Gpus : h # k => LabelsApart(h, k)
  BY RefineTypeInv DEF ThreadInv, TypeInv, TypeOK
<1>2. /\ UNCHANGED hostvars /\ UNCHANGED <<node_n, edge_n, edge_start>>
      /\ tpc[g] = "refine"
      /\ UNCHANGED <<batch, batch_start, batch_end, batch_mask>>
      /\ \/ /\ tpc' = [tpc EXCEPT ![g] = "merge"]
            /\ label_map' = [label_map EXCEPT ![g] = [c \in Node |-> node_n]]
            /\ i' = [i EXCEPT ![g] = 0]
         \/ UNCHANGED <<tpc, label_map, i>>
  BY DEF Refine, hostvars
<1>3. \A h \in Gpus \ {g} : PrivateUnchanged(h)
  <2>1. \A h \in Gpus \ {g} : partition'[h] = partition[h]
    BY <1>1 DEF Refine, PrivateDomains
  <2>2. \A h \in Gpus \ {g} : /\ tpc'[h] = tpc[h] /\ i'[h] = i[h]
                              /\ label_map'[h] = label_map[h]
    BY <1>1, <1>2 DEF PrivateDomains, TypeOK
  <2> QED
    BY <1>2, <2>1, <2>2 DEF PrivateUnchanged
<1>4. MaskTrimmed(g)'
  BY <1>1, <1>2 DEF MaskTrimmed, Edge, Trimmed, TypeOK
<1>5. CASE UNCHANGED <<tpc, label_map, i>>
  <2>1. tpc'[g] # "merge"
    BY <1>2, <1>5
  <2> QED
    BY <1>1, <1>2, <1>3, <1>4, <2>1, OtherStepInv
<1>6. CASE label_map' = [label_map EXCEPT ![g] = [c \in Node |-> node_n]]
  <2>1. label_map'[g] = [c \in Node |-> node_n]
    BY <1>1, <1>6 DEF PrivateDomains
  <2>2. \A h, k \in Gpus : h # k => LabelsApart(h, k)'
    <3> SUFFICES ASSUME NEW h \in Gpus, NEW k \in Gpus, h # k
                 PROVE  LabelsApart(h, k)'
      OBVIOUS
    <3>1. CASE g \in {h, k}
      BY ZenonT(40), <1>2, <2>1, <3>1 DEF LabelsApart, Node
    <3>2. CASE g \notin {h, k}
      BY <1>1, <1>2, <1>3, <3>2, ApartFrame
    <3> QED
      BY <3>1, <3>2
  <2>3. \A h \in Gpus : MaskTrimmed(h)'
    BY <1>1, <1>2, <1>3, <1>4, MaskFrame
  <2> QED
    BY <1>1, <2>2, <2>3 DEF ThreadInv
<1> QED
  BY <1>2, <1>5, <1>6

(* A label drawn in the critical section is one nobody holds.              *)
LEMMA MergeNodeThreadInv ==
  ASSUME ThreadInv, NEW g \in Gpus, MergeNode(g)
  PROVE  ThreadInv'
<1> DEFINE c == partition[g][i[g]]
<1>1. /\ TypeInv /\ TypeOK /\ PrivateDomains /\ TypeInv'
      /\ \A h \in Gpus : MaskTrimmed(h)
      /\ \A h, k \in Gpus : h # k => LabelsApart(h, k)
  BY MergeNodeTypeInv DEF ThreadInv, TypeInv, TypeOK
<1>2. /\ UNCHANGED hostvars /\ UNCHANGED <<node_n, edge_n, edge_start>>
      /\ tpc[g] = "merge" /\ i[g] < node_n
      /\ UNCHANGED <<tpc, batch, batch_start, batch_end, batch_mask,
                     partition>>
      /\ i' = [i EXCEPT ![g] = @ + 1]
      /\ \/ label_map' = label_map
         \/ label_map' = [label_map EXCEPT ![g][c] = new_node_n]
  BY DEF MergeNode, hostvars
<1> HIDE DEF c
<1>3. \A h \in Gpus \ {g} : PrivateUnchanged(h)
  BY <1>1, <1>2 DEF PrivateUnchanged, PrivateDomains
<1>4. \A h \in Gpus : MaskTrimmed(h)'
  BY <1>1, <1>2 DEF MaskTrimmed, Edge, Trimmed
<1>5. /\ node_n \in Nat /\ new_node_n \in Nat
      /\ \A h \in Gpus : tpc[h] = "merge" =>
           label_map[h] \in [Node -> (0 .. new_node_n - 1) \cup {node_n}]
  BY <1>1 DEF TypeOK, HostTypeOK, ThreadTypeOK
<1>6. ASSUME NEW h \in Gpus, NEW k \in Gpus, h # k
      PROVE  LabelsApart(h, k)'
  <2>1. CASE label_map' = label_map
    BY <1>1, <1>2, <1>6, <2>1 DEF LabelsApart, Node
  <2>2. CASE label_map' = [label_map EXCEPT ![g][c] = new_node_n]
    <3>1. label_map'[g] = [label_map[g] EXCEPT ![c] = new_node_n]
      BY <1>1, <2>2 DEF PrivateDomains
    <3> SUFFICES ASSUME tpc[h] = "merge", tpc[k] = "merge",
                        NEW x \in Node, NEW y \in Node,
                        label_map'[h][x] = label_map'[k][y]
                 PROVE  label_map'[h][x] = node_n
      BY <1>2 DEF LabelsApart, Node
    <3>2. \A m \in Gpus \ {g} : label_map'[m] = label_map[m]
      BY <1>3 DEF PrivateUnchanged
    <3>3. /\ label_map[h][x] = label_map[k][y] => label_map[h][x] = node_n
      BY <1>1, <1>6 DEF LabelsApart
    <3>4. \A m \in Gpus, v \in Node :
            tpc[m] = "merge" =>
              label_map[m][v] \in (0 .. new_node_n - 1) \cup {node_n}
      BY <1>5
    <3>5. \A v \in Node : label_map'[g][v] \in {label_map[g][v], new_node_n}
      BY <1>2, <1>5, <3>1
    <3>6. CASE h # g /\ k # g
      BY <3>2, <3>3, <3>6
    <3>7. CASE h = g
      BY <1>5, <1>6, <3>2, <3>3, <3>4, <3>5, <3>7
    <3>8. CASE k = g
      BY <1>5, <1>6, <3>2, <3>3, <3>4, <3>5, <3>8
    <3> QED
      BY <3>6, <3>7, <3>8
  <2> QED
    BY <1>2, <2>1, <2>2
<1> QED
  BY <1>1, <1>4, <1>6 DEF ThreadInv

LEMMA NextThreadInv == ThreadInv /\ [Next]_vars => ThreadInv'
<1> SUFFICES ASSUME ThreadInv, [Next]_vars PROVE ThreadInv'
  OBVIOUS
<1>1. CASE MainThread
  BY <1>1, MainThreadInv
<1>2. CASE \E g \in Gpus : Thread(g)
  <2> PICK g \in Gpus : Thread(g)
    BY <1>2
  <2>1. CASE TrimUndefined(g)
    <3>1. \A h \in Gpus : tpc'[h] = "undefined"
      BY <2>1 DEF TrimUndefined
    <3> QED
      BY <2>1, <3>1, TrimUndefinedTypeInv
      DEF ThreadInv, MaskTrimmed, LabelsApart
  <2> QED
    BY <2>1, ScanThreadInv, TrimBatchThreadInv, InitPartitionThreadInv,
       RefineThreadInv, MergeNodeThreadInv DEF Thread
<1>3. CASE UNCHANGED vars
  <2>1. TypeInv'
    BY <1>3, NextTypeInv DEF ThreadInv
  <2> QED
    BY <1>3, <2>1 DEF ThreadInv, MaskTrimmed, LabelsApart, vars, hostvars,
       threadvars, Node, Edge, Trimmed
<1> QED
  BY <1>1, <1>2, <1>3 DEF Next, Stopped

LEMMA ThreadInvariance == Spec => []ThreadInv
BY InitThreadInv, NextThreadInv, PTL DEF Spec

(* A thread only ever refines nodes all of whose edges its batch holds     *)
(* (rbsc.cu:332-334), in every schedule.                                   *)
THEOREM WholeNodes == Spec => []OwnsWholeNodes
<1>1. ThreadInv => OwnsWholeNodes
  BY DEF ThreadInv, MaskTrimmed, OwnsWholeNodes, InBatch, OFF_BATCH, IN_BATCH
<1> QED
  BY <1>1, ThreadInvariance, PTL

(* The critical section at rbsc.cu:438 keeps the labels of the threads     *)
(* apart, in every schedule.                                               *)
THEOREM LabelsStayApart == Spec => []LabelsNotShared
<1>1. ThreadInv => LabelsNotShared
  <2> SUFFICES ASSUME ThreadInv, NEW g \in Gpus, NEW h \in Gpus, g # h,
                      tpc[g] = "merge", tpc[h] = "merge",
                      NEW v, v \in Range(label_map[g]),
                      v \in Range(label_map[h])
               PROVE  v = node_n
    BY DEF LabelsNotShared
  <2>1. /\ DOMAIN label_map[g] = Node /\ DOMAIN label_map[h] = Node
        /\ LabelsApart(g, h)
    BY DEF ThreadInv, TypeInv, TypeOK, ThreadTypeOK
  <2>2. PICK c \in Node, d \in Node :
          v = label_map[g][c] /\ v = label_map[h][d]
    BY <2>1 DEF Range
  <2> QED
    BY <2>1, <2>2 DEF LabelsApart
<1> QED
  BY <1>1, ThreadInvariance, PTL

-----------------------------------------------------------------------------
(* Between batches, when no two threads trim at once (one GPU is such a    *)
(* case): the trimmed batches of a round own disjoint sets of nodes, so    *)
(* that every node gets its label once and the labels handed out are       *)
(* exactly those in use.                                                   *)

Exclusive == ~TrimOverlap \/ \A g, h \in Gpus : g = h

BatchRange(b) == RangeStart(b) .. RangeEnd(b) - 1

(* Batch b may label node u: all of u's edges are in its range, and u has  *)
(* one there unless b is the batch that takes the dangling nodes.          *)
Owned(b, u) ==
  /\ \A e \in Edge : edge_start[e] = u => e \in BatchRange(b)
  /\ b = 0 \/ \E e \in Edge : edge_start[e] = u

(* One thread at a time between reading the shared bounds' reset and use.  *)
OneTrims ==
  \A g, h \in Gpus :
    /\ tpc[g] \in {"scan", "trim", "init"}
    /\ tpc[h] \in {"scan", "trim", "init"}
    => g = h

OneBatchEach ==
  \A g, h \in Gpus :
    tpc[g] \in Busy /\ tpc[h] \in Busy /\ batch[g] = batch[h] => g = h

(* While a thread scans, the bounds are those of the edges it has seen,    *)
(* and it has marked their sources and no other node.                      *)
ScanInv(g) ==
  tpc[g] \in {"scan", "trim"} =>
    /\ i[g] \in RangeStart(batch[g]) .. RangeEnd(batch[g])
    /\ tpc[g] = "trim" => i[g] = RangeEnd(batch[g])
    /\ new_batch_start # NOT_INIT => new_batch_start >= RangeStart(batch[g])
    /\ new_batch_start # NOT_INIT => new_batch_start <= i[g]
    /\ new_batch_end # NOT_INIT => new_batch_end <= i[g]
    /\ NOT_INIT \notin {new_batch_start, new_batch_end} =>
         new_batch_start <= new_batch_end
    /\ tpc[g] = "scan" /\ new_batch_start = NOT_INIT =>
         new_batch_end = NOT_INIT
    /\ \A e \in RangeStart(batch[g]) .. i[g] - 1 :
         batch_mask[g][edge_start[e]] = IN_BATCH
    /\ \A u \in Node : batch_mask[g][u] = IN_BATCH =>
         \E e \in Edge : edge_start[e] = u
    /\ \A u \in Node : batch_mask[g][u] = DANGLING => batch[g] = 0

(* After that its mask holds nodes it owns.                                *)
OwnInv(g) ==
  tpc[g] \in {"init", "refine", "merge"} =>
    \A u \in Node : batch_mask[g][u] # OFF_BATCH =>
      /\ Owned(batch[g], u)
      /\ batch_mask[g][u] = DANGLING => \A e \in Edge : edge_start[e] # u

(* A label was given by the one batch that owns the node, already past it. *)
Labelled == {u \in Node : w[u] # node_n}
LabelInv ==
  pc = "parallel" =>
    \A u \in Labelled :
      \E b \in (0 .. batches - 1) \ todo :
        /\ Owned(b, u)
        /\ \A g \in Gpus : tpc[g] \in Busy /\ batch[g] = b =>
             tpc[g] = "merge" /\ u < i[g]

BatchInv ==
  /\ ThreadInv
  /\ OneTrims
  /\ OneBatchEach
  /\ \A g \in Gpus : ScanInv(g) /\ OwnInv(g)
  /\ LabelInv
  /\ LabelsDense
  /\ pc # "undefined"

-----------------------------------------------------------------------------

(* No node belongs to two batches.                                         *)
LEMMA OwnedOnce ==
  ASSUME TypeInv, pc = "parallel", NEW b \in Nat, NEW c \in Nat,
         NEW u \in Node, Owned(b, u), Owned(c, u)
  PROVE  b = c
<1>1. edge_n \in Nat
  BY DEF TypeInv, TypeOK, HostTypeOK
<1>2. ASSUME NEW e \in Edge, edge_start[e] = u PROVE b = c
  <2>1. e \in BatchRange(b) /\ e \in BatchRange(c)
    BY <1>2 DEF Owned
  <2>2. /\ e >= b * max_batch_edge_n
        /\ e < b * max_batch_edge_n + max_batch_edge_n
        /\ e >= c * max_batch_edge_n
        /\ e < c * max_batch_edge_n + max_batch_edge_n
    <3>1. /\ b * max_batch_edge_n \in Nat /\ c * max_batch_edge_n \in Nat
          /\ max_batch_edge_n \in Nat
      BY RbscAssumption
    <3> QED
      BY <1>1, <2>1, <3>1 DEF BatchRange, RangeStart, RangeEnd, Lesser
  <2>3. CASE b < c
    <3>1. b * max_batch_edge_n + max_batch_edge_n <= c * max_batch_edge_n
      BY <2>3, NextRange, RbscAssumption
    <3> QED
      BY <2>2, <3>1, RbscAssumption DEF Edge
  <2>4. CASE c < b
    <3>1. c * max_batch_edge_n + max_batch_edge_n <= b * max_batch_edge_n
      BY <2>4, NextRange, RbscAssumption
    <3> QED
      BY <2>2, <3>1, RbscAssumption DEF Edge
  <2> QED
    BY <2>3, <2>4
<1> QED
  BY <1>2 DEF Owned

LEMMA InitBatchInv == Init => BatchInv
<1> SUFFICES ASSUME Init PROVE BatchInv
  OBVIOUS
<1>1. ThreadInv
  BY InitThreadInv
<1>2. \A g \in Gpus : tpc[g] = "idle"
  BY DEF Init
<1> QED
  BY <1>1, <1>2 DEF BatchInv, OneTrims, OneBatchEach, ScanInv, OwnInv,
     LabelInv, LabelsDense, Busy, Init

(* The labels in use are no more than the nodes that have one, so there is *)
(* room for the others.                                                    *)
LEMMA LabelsFit ==
  ASSUME TypeInv, LabelsDense, pc = "parallel"
  PROVE  /\ new_node_n + Cardinality(Unlabelled(Node)) <= node_n
         /\ Unlabelled(Node) # {} => new_node_n < node_n
<1>1. /\ node_n \in Nat /\ new_node_n \in Nat
      /\ {w[u] : u \in Labelled} = 0 .. new_node_n - 1
  BY DEF TypeInv, TypeOK, HostTypeOK, LabelsDense, Labelled
<1>2. /\ IsFiniteSet(Node) /\ Cardinality(Node) = node_n
      /\ IsFiniteSet(0 .. new_node_n - 1)
      /\ Cardinality(0 .. new_node_n - 1) = new_node_n
  <2>1. \A n \in Nat : /\ IsFiniteSet(0 .. n - 1)
                       /\ Cardinality(0 .. n - 1) = n
    BY FS_Interval
  <2> QED
    BY <1>1, <2>1 DEF Node
<1>3. Labelled \subseteq Node /\ Unlabelled(Node) = Node \ Labelled
  BY DEF Labelled, Unlabelled
<1>4. IsFiniteSet(Labelled) /\ Cardinality(Labelled) \in Nat
  BY <1>2, <1>3, FS_Subset, FS_CardinalityType
<1> DEFINE f == [u \in Labelled |-> w[u]]
<1>5. f \in Surjection(Labelled, 0 .. new_node_n - 1)
  BY <1>1 DEF Surjection
<1> HIDE DEF f
<1>6. new_node_n <= Cardinality(Labelled)
  BY <1>2, <1>4, <1>5, FS_Surjection
<1>7. Cardinality(Unlabelled(Node)) = node_n - Cardinality(Labelled)
  <2>1. Node \cap Labelled = Labelled
    BY <1>3
  <2> QED
    BY ZenonT(40), <1>2, <1>3, <2>1, FS_Difference
<1>8. Unlabelled(Node) # {} => Cardinality(Labelled) < node_n
  BY <1>2, <1>3, CountStrict
<1> QED
  BY <1>1, <1>4, <1>6, <1>7, <1>8

LEMMA MainBatchInv == BatchInv /\ MainThread => BatchInv'
<1> SUFFICES ASSUME BatchInv, MainThread PROVE BatchInv'
  OBVIOUS
<1>1. /\ ThreadInv /\ TypeInv /\ TypeOK /\ HostTypeOK /\ LabelsDense
      /\ pc # "undefined"
  BY DEF BatchInv, ThreadInv, TypeInv, TypeOK
<1>2. ThreadInv'
  BY <1>1, MainThreadInv
<1>3. \A g \in Gpus : tpc'[g] \in {"idle", "undefined"}
  BY <1>1 DEF TypeInv, QuietOutside, MainThread, BeginRound, Compact,
     CompactUndefined, LeaveLoop, PrintResult, Barrier, threadvars
<1>4. ~CompactUndefined
  <2>1. pc = "parallel" =>
          new_node_n + Cardinality(Unlabelled(Node)) <= node_n
    BY <1>1, LabelsFit
  <2>2. /\ new_node_n \in Nat /\ node_n \in Nat
        /\ Cardinality(Unlabelled(Node)) \in Nat
    BY <1>1, CountInInterval DEF HostTypeOK, Unlabelled, Node
  <2> QED
    BY <2>1, <2>2 DEF CompactUndefined, Barrier
<1>5. CASE BeginRound
  <2>1. /\ pc' = "parallel" /\ new_node_n' = 0
        /\ w' = [u \in Node' |-> node_n']
    BY <1>5 DEF BeginRound, Node
  <2>2. Labelled' = {} /\ {u \in Node' : w'[u] # node_n'} = {}
    BY <2>1 DEF Labelled
  <2>3. LabelInv' /\ LabelsDense'
    BY <2>1, <2>2 DEF LabelInv, LabelsDense
  <2> QED
    BY <1>2, <1>3, <2>1, <2>3
    DEF BatchInv, OneTrims, OneBatchEach, ScanInv, OwnInv, Busy
<1>6. CASE Compact \/ LeaveLoop \/ PrintResult
  <2>1. pc' \in {"round", "print", "done"}
    BY <1>6 DEF Compact, LeaveLoop, PrintResult
  <2> QED
    BY <1>2, <1>3, <2>1 DEF BatchInv, OneTrims, OneBatchEach, ScanInv, OwnInv,
       Busy, LabelInv, LabelsDense
<1> QED
  BY <1>4, <1>5, <1>6 DEF MainThread

-----------------------------------------------------------------------------
(* Steps of a thread.                                                      *)

(* The graph stays, and so do the batches and what they own.               *)
LEMMA OwnedFrame ==
  ASSUME UNCHANGED hostvars
  PROVE  /\ Node' = Node /\ Edge' = Edge
         /\ UNCHANGED <<pc, node_n, edge_n, batches, edge_start>>
         /\ \A b : /\ RangeStart(b)' = RangeStart(b)
                   /\ RangeEnd(b)' = RangeEnd(b)
         /\ \A b, u : Owned(b, u)' <=> Owned(b, u)
BY DEF hostvars, Node, Edge, Owned, BatchRange, RangeStart, RangeEnd

LEMMA OwnFrame ==
  ASSUME UNCHANGED hostvars, NEW h \in Gpus, PrivateUnchanged(h), OwnInv(h)
  PROVE  OwnInv(h)'
BY OwnedFrame DEF OwnInv, PrivateUnchanged

LEMMA ScanFrame ==
  ASSUME UNCHANGED hostvars, NEW h \in Gpus, PrivateUnchanged(h), ScanInv(h),
         tpc[h] \in {"scan", "trim"} =>
           UNCHANGED <<new_batch_start, new_batch_end>>
  PROVE  ScanInv(h)'
BY OwnedFrame DEF ScanInv, PrivateUnchanged

(* A step of thread g that gives no label and takes no batch.              *)
LEMMA QuietStep ==
  ASSUME BatchInv, NEW g \in Gpus, ThreadInv', UNCHANGED hostvars,
         UNCHANGED <<w, new_node_n, todo>>,
         \A h \in Gpus \ {g} : PrivateUnchanged(h),
         tpc[g] \in Busy, tpc[g] = "merge" => tpc'[g] = "idle",
         batch'[g] = batch[g],
         tpc'[g] \in {"scan", "trim", "init"} =>
           tpc[g] \in {"scan", "trim", "init"},
         tpc[g] \in {"scan", "trim", "init"} \/
           UNCHANGED <<new_batch_start, new_batch_end>>,
         ScanInv(g)', OwnInv(g)'
  PROVE  BatchInv'
<1> USE DEF Busy
<1>1. OneTrims'
  BY DEF BatchInv, OneTrims, PrivateUnchanged
<1>2. OneBatchEach'
  BY DEF BatchInv, OneBatchEach, PrivateUnchanged
<1>3. \A h \in Gpus : ScanInv(h)' /\ OwnInv(h)'
  <2> SUFFICES ASSUME NEW h \in Gpus \ {g} PROVE ScanInv(h)' /\ OwnInv(h)'
    OBVIOUS
  <2>1. tpc[h] \in {"scan", "trim"} =>
          UNCHANGED <<new_batch_start, new_batch_end>>
    BY DEF BatchInv, OneTrims
  <2> QED
    BY <2>1, ScanFrame, OwnFrame DEF BatchInv
<1>4. LabelInv'
  <2>1. Labelled' = Labelled
    BY OwnedFrame DEF Labelled
  <2> SUFFICES ASSUME pc = "parallel", NEW u \in Labelled
               PROVE  \E b \in (0 .. batches' - 1) \ todo' :
                        /\ Owned(b, u)'
                        /\ \A h \in Gpus :
                             tpc'[h] \in Busy /\ batch'[h] = b =>
                               tpc'[h] = "merge" /\ u < i'[h]
    BY <2>1, OwnedFrame DEF LabelInv
  <2>2. PICK b \in (0 .. batches - 1) \ todo :
          /\ Owned(b, u)
          /\ \A h \in Gpus : tpc[h] \in Busy /\ batch[h] = b =>
               tpc[h] = "merge" /\ u < i[h]
    BY DEF BatchInv, LabelInv
  <2>3. \A h \in Gpus : tpc'[h] \in Busy /\ batch'[h] = b =>
          tpc'[h] = "merge" /\ u < i'[h]
    BY <2>2 DEF PrivateUnchanged
  <2> QED
    BY <2>2, <2>3, OwnedFrame
<1>5. LabelsDense' /\ pc' # "undefined"
  BY OwnedFrame DEF BatchInv, LabelsDense
<1> QED
  BY <1>1, <1>2, <1>3, <1>4, <1>5 DEF BatchInv

LEMMA ScanEdgeBatchInv ==
  ASSUME BatchInv, NEW g \in Gpus, ScanEdge(g)
  PROVE  BatchInv'
<1>1. /\ ThreadInv /\ TypeInv /\ TypeOK /\ PrivateDomains /\ HostTypeOK
      /\ ThreadTypeOK(g) /\ ScanInv(g)
      /\ ThreadInv'
  BY ScanThreadInv DEF BatchInv, ThreadInv, TypeInv, TypeOK
<1>2. /\ UNCHANGED hostvars /\ UNCHANGED <<w, new_node_n, todo>>
      /\ tpc[g] = "scan" /\ i[g] < RangeEnd(batch[g])
      /\ UNCHANGED <<tpc, batch, batch_start, batch_end, partition, label_map>>
      /\ i' = [i EXCEPT ![g] = @ + 1]
      /\ batch_mask' =
           [batch_mask EXCEPT ![g][edge_start[i[g]]] = IN_BATCH]
      /\ new_batch_start' =
           IF FirstEdge(i[g]) /\ new_batch_start = NOT_INIT
           THEN i[g] ELSE new_batch_start
      /\ new_batch_end' =
           IF i[g] # 0 /\ FirstEdge(i[g]) /\ new_batch_start' # NOT_INIT
           THEN i[g] ELSE new_batch_end
  BY DEF ScanEdge, hostvars
<1>3. \A h \in Gpus \ {g} : PrivateUnchanged(h)
  BY <1>1, <1>2 DEF PrivateUnchanged, PrivateDomains
<1>4. /\ pc = "parallel" /\ edge_n \in Nat /\ batches \in Nat
      /\ batch[g] \in Nat /\ RangeStart(batch[g]) \in Nat
      /\ RangeEnd(batch[g]) <= edge_n
  <2>1. pc = "parallel"
    BY <1>1, <1>2, BusyIsParallel DEF Busy
  <2>2. batch[g] \in Nat /\ edge_n \in Nat /\ batches \in Nat
    BY <1>1, <1>2 DEF ThreadTypeOK, HostTypeOK
  <2>3. RangeStart(batch[g]) \in Nat
    BY <2>2, RbscAssumption DEF RangeStart
  <2> QED
    BY <2>1, <2>2, <2>3, RbscAssumption DEF RangeEnd, Lesser
<1>5. /\ i[g] \in RangeStart(batch[g]) .. RangeEnd(batch[g]) - 1
      /\ i[g] \in Edge /\ edge_start[i[g]] \in Node
      /\ {new_batch_start, new_batch_end} \subseteq (0 .. edge_n) \cup {NOT_INIT}
  <2>1. i[g] \in RangeStart(batch[g]) .. RangeEnd(batch[g])
    BY <1>1, <1>2 DEF ThreadTypeOK
  <2>2. RangeEnd(batch[g]) \in Int
    BY <1>4, RbscAssumption DEF RangeEnd, Lesser
  <2>3. i[g] \in Edge
    BY <1>2, <1>4, <2>1, <2>2 DEF Edge
  <2>4. edge_start \in [Edge -> Node]
    BY <1>1, <1>4 DEF HostTypeOK
  <2>5. {new_batch_start, new_batch_end} \subseteq (0 .. edge_n) \cup {NOT_INIT}
    BY <1>1, <1>2 DEF ThreadTypeOK
  <2> QED
    BY <1>2, <1>4, <2>1, <2>2, <2>3, <2>4, <2>5
<1>6. /\ i'[g] = i[g] + 1
      /\ batch_mask'[g] =
           [batch_mask[g] EXCEPT ![edge_start[i[g]]] = IN_BATCH]
      /\ DOMAIN batch_mask[g] = Node
  BY <1>1, <1>2 DEF PrivateDomains, ThreadTypeOK
<1>7. ScanInv(g)'
  <2> DEFINE from == RangeStart(batch[g])
             to == RangeEnd(batch[g])
  <2>1. /\ i[g] \in from .. to - 1 /\ from \in Nat /\ to \in Int
        /\ from <= i'[g] /\ i'[g] <= to
    BY <1>4, <1>5, <1>6, RbscAssumption DEF RangeEnd, Lesser
  <2>2. /\ new_batch_start # NOT_INIT =>
             new_batch_start >= from /\ new_batch_start <= i[g]
        /\ new_batch_end # NOT_INIT => new_batch_end <= i[g]
        /\ NOT_INIT \notin {new_batch_start, new_batch_end} =>
             new_batch_start <= new_batch_end
        /\ new_batch_start = NOT_INIT => new_batch_end = NOT_INIT
    BY <1>1, <1>2 DEF ScanInv
  <2>3. /\ RangeStart(batch[g])' = from /\ RangeEnd(batch[g])' = to
        /\ Node' = Node /\ Edge' = Edge /\ edge_start' = edge_start
        /\ batch'[g] = batch[g] /\ tpc'[g] = "scan"
    BY <1>2, OwnedFrame DEF RangeStart, RangeEnd, hostvars
  <2> HIDE DEF from, to
  <2>4. /\ new_batch_start' # NOT_INIT =>
             new_batch_start' >= from /\ new_batch_start' <= i'[g]
        /\ new_batch_end' # NOT_INIT => new_batch_end' <= i'[g]
        /\ NOT_INIT \notin {new_batch_start', new_batch_end'} =>
             new_batch_start' <= new_batch_end'
        /\ new_batch_start' = NOT_INIT => new_batch_end' = NOT_INIT
    BY <1>2, <1>5, <1>6, <2>1, <2>2 DEF NOT_INIT
  <2>5. \A e \in from .. i'[g] - 1 : batch_mask'[g][edge_start[e]] = IN_BATCH
    <3> SUFFICES ASSUME NEW e \in from .. i'[g] - 1
                 PROVE  batch_mask'[g][edge_start[e]] = IN_BATCH
      OBVIOUS
    <3>1. e = i[g] \/ e \in from .. i[g] - 1
      BY <1>6, <2>1
    <3>2. e \in Edge /\ edge_start[e] \in Node
      <4>1. e \in Edge
        BY <1>4, <1>5, <2>1, <3>1 DEF Edge
      <4> QED
        BY <1>1, <1>4, <4>1 DEF HostTypeOK
    <3>3. e \in from .. i[g] - 1 => batch_mask[g][edge_start[e]] = IN_BATCH
      BY <1>1, <1>2 DEF ScanInv, from
    <3> QED
      BY <1>6, <3>1, <3>2, <3>3
  <2>6. \A u \in Node : batch_mask'[g][u] = IN_BATCH =>
          \E e \in Edge : edge_start[e] = u
    BY <1>1, <1>2, <1>5, <1>6 DEF ScanInv
  <2>7. \A u \in Node : batch_mask'[g][u] = DANGLING => batch[g] = 0
    BY <1>1, <1>2, <1>5, <1>6 DEF ScanInv, IN_BATCH, DANGLING
  <2>8. i'[g] \in from .. to
    BY <2>1, <1>6
  <2> QED
    BY <2>8, <2>3, <2>4, <2>5, <2>6, <2>7 DEF ScanInv
<1>8. OwnInv(g)'
  BY <1>2 DEF OwnInv
<1> QED
  BY <1>1, <1>2, <1>3, <1>7, <1>8, QuietStep DEF Busy

LEMMA CloseScanBatchInv ==
  ASSUME BatchInv, NEW g \in Gpus, CloseScan(g)
  PROVE  BatchInv'
<1>1. /\ ThreadInv /\ TypeInv /\ TypeOK /\ PrivateDomains /\ HostTypeOK
      /\ ThreadTypeOK(g) /\ ScanInv(g)
      /\ ThreadInv'
  BY ScanThreadInv DEF BatchInv, ThreadInv, TypeInv, TypeOK
<1>2. /\ UNCHANGED hostvars /\ UNCHANGED <<w, new_node_n, todo>>
      /\ tpc[g] = "scan" /\ i[g] = RangeEnd(batch[g])
      /\ tpc' = [tpc EXCEPT ![g] = "trim"]
      /\ UNCHANGED <<new_batch_start, batch, i, batch_start, batch_end,
                     batch_mask, partition, label_map>>
      /\ new_batch_end' \in {i[g], new_batch_end}
      /\ UNCHANGED <<edge_n, edge_start>>
  BY DEF CloseScan, hostvars
<1>3. tpc'[g] = "trim" /\ \A h \in Gpus \ {g} : PrivateUnchanged(h)
  BY <1>1, <1>2 DEF PrivateUnchanged, TypeOK
<1>4. i[g] \in RangeStart(batch[g]) .. RangeEnd(batch[g]) /\ i[g] \in Int
  BY <1>1, <1>2 DEF ThreadTypeOK
<1>5. ScanInv(g)'
  BY <1>1, <1>2, <1>3, <1>4, OwnedFrame DEF ScanInv, NOT_INIT
<1>6. OwnInv(g)'
  BY <1>3 DEF OwnInv
<1> QED
  BY <1>1, <1>2, <1>3, <1>5, <1>6, QuietStep DEF Busy

LEMMA LeaveBatchInv ==
  ASSUME BatchInv, NEW g \in Gpus, SkipBatch(g) \/ EndBatch(g)
  PROVE  BatchInv'
<1>1. TypeOK /\ ThreadInv'
  BY ScanThreadInv DEF BatchInv, ThreadInv, TypeInv
<1>2. /\ UNCHANGED hostvars /\ UNCHANGED <<w, new_node_n, todo>>
      /\ tpc[g] \in {"trim", "merge"}
      /\ tpc' = [tpc EXCEPT ![g] = "idle"]
      /\ UNCHANGED <<new_batch_start, new_batch_end, batch, i, batch_start,
                     batch_end, batch_mask, partition, label_map>>
  BY DEF SkipBatch, EndBatch, sharedvars
<1>3. tpc'[g] = "idle" /\ \A h \in Gpus \ {g} : PrivateUnchanged(h)
  BY <1>1, <1>2 DEF PrivateUnchanged, TypeOK
<1>4. ScanInv(g)' /\ OwnInv(g)'
  BY <1>3 DEF ScanInv, OwnInv
<1> QED
  BY <1>1, <1>2, <1>3, <1>4, QuietStep DEF Busy

LEMMA InitPartitionBatchInv ==
  ASSUME BatchInv, NEW g \in Gpus, InitPartition(g)
  PROVE  BatchInv'
<1>1. TypeOK /\ PrivateDomains /\ OwnInv(g) /\ ThreadInv'
  BY InitPartitionThreadInv DEF BatchInv, ThreadInv, TypeInv, TypeOK
<1>2. /\ UNCHANGED hostvars /\ UNCHANGED <<w, new_node_n, todo>>
      /\ tpc[g] = "init"
      /\ tpc' = [tpc EXCEPT ![g] = "refine"]
      /\ UNCHANGED <<new_batch_start, new_batch_end, batch, i, batch_start,
                     batch_end, batch_mask, label_map>>
      /\ \A h \in Gpus \ {g} : partition'[h] = partition[h]
  BY <1>1 DEF InitPartition, sharedvars, PrivateDomains
<1>3. tpc'[g] = "refine" /\ \A h \in Gpus \ {g} : PrivateUnchanged(h)
  BY <1>1, <1>2 DEF PrivateUnchanged, TypeOK
<1>4. ScanInv(g)' /\ OwnInv(g)'
  BY <1>1, <1>2, <1>3, OwnedFrame DEF ScanInv, OwnInv
<1> QED
  BY <1>1, <1>2, <1>3, <1>4, QuietStep DEF Busy

LEMMA RefineBatchInv ==
  ASSUME BatchInv, NEW g \in Gpus, Refine(g)
  PROVE  BatchInv'
<1>1. TypeOK /\ PrivateDomains /\ OwnInv(g) /\ ThreadInv'
  BY RefineThreadInv DEF BatchInv, ThreadInv, TypeInv, TypeOK
<1>2. /\ UNCHANGED hostvars /\ UNCHANGED <<w, new_node_n, todo>>
      /\ tpc[g] = "refine"
      /\ UNCHANGED <<new_batch_start, new_batch_end, batch, batch_start,
                     batch_end, batch_mask>>
      /\ \/ /\ tpc' = [tpc EXCEPT ![g] = "merge"]
            /\ label_map' = [label_map EXCEPT ![g] = [c \in Node |-> node_n]]
            /\ i' = [i EXCEPT ![g] = 0]
         \/ UNCHANGED <<tpc, label_map, i>>
  BY DEF Refine, sharedvars
<1>3. \A h \in Gpus \ {g} : partition'[h] = partition[h]
  BY <1>1 DEF Refine, PrivateDomains
<1>4. /\ tpc'[g] \in {"refine", "merge"}
      /\ \A h \in Gpus \ {g} : PrivateUnchanged(h)
  BY <1>1, <1>2, <1>3 DEF PrivateUnchanged, PrivateDomains, TypeOK
<1>5. ScanInv(g)' /\ OwnInv(g)'
  BY <1>1, <1>2, <1>4, OwnedFrame DEF ScanInv, OwnInv
<1> QED
  BY <1>1, <1>2, <1>4, <1>5, QuietStep DEF Busy

(* The bounds are those of the batch itself, in order.                     *)
LEMMA BoundsInRange ==
  ASSUME BatchInv, NEW g \in Gpus, tpc[g] = "trim",
         NOT_INIT \notin {new_batch_start, new_batch_end}
  PROVE  /\ FitsDevice(new_batch_start, new_batch_end)
         /\ new_batch_start .. new_batch_end - 1 \subseteq BatchRange(batch[g])
<1>1. /\ HostTypeOK /\ ThreadTypeOK(g) /\ ScanInv(g)
      /\ pc = "parallel"
  BY BusyIsParallel DEF BatchInv, ThreadInv, TypeInv, TypeOK, Busy
<1>2. /\ edge_n \in Nat /\ batch[g] \in Nat
      /\ new_batch_start \in Nat /\ new_batch_end \in Nat
  BY <1>1 DEF HostTypeOK, ThreadTypeOK
<1>3. /\ max_batch_edge_n \in Nat
      /\ RangeStart(batch[g]) \in Nat /\ RangeEnd(batch[g]) \in Int
      /\ RangeEnd(batch[g]) <= RangeStart(batch[g]) + max_batch_edge_n
  BY <1>2, RbscAssumption DEF RangeStart, RangeEnd, Lesser
<1>4. /\ new_batch_start <= new_batch_end
      /\ new_batch_start >= RangeStart(batch[g])
      /\ new_batch_end <= RangeEnd(batch[g])
  BY <1>1 DEF ScanInv
<1> QED
  BY <1>2, <1>3, <1>4 DEF BatchRange, FitsDevice

LEMMA TrimBatchBatchInv ==
  ASSUME BatchInv, NEW g \in Gpus, TrimBatch(g)
  PROVE  BatchInv'
<1> DEFINE from == new_batch_start
           to == new_batch_end
<1>1. /\ TypeOK /\ PrivateDomains /\ HostTypeOK /\ ThreadTypeOK(g)
      /\ ScanInv(g)
      /\ ThreadInv'
  BY TrimBatchThreadInv DEF BatchInv, ThreadInv, TypeInv, TypeOK
<1>2. /\ UNCHANGED hostvars /\ UNCHANGED <<w, new_node_n, todo>>
      /\ UNCHANGED <<edge_start, edge_n>>
      /\ tpc[g] = "trim"
      /\ NOT_INIT \notin {from, to}
      /\ tpc' = [tpc EXCEPT ![g] = "init"]
      /\ batch_start' = [batch_start EXCEPT ![g] = from]
      /\ batch_end' = [batch_end EXCEPT ![g] = to]
      /\ batch_mask' = [batch_mask EXCEPT ![g] = [u \in Node |->
           IF u \in Outside(from, to) THEN OFF_BATCH ELSE batch_mask[g][u]]]
      /\ UNCHANGED <<new_batch_start, new_batch_end, batch, i, partition,
                     label_map>>
  BY DEF TrimBatch, hostvars
<1>3. /\ tpc'[g] = "init" /\ batch'[g] = batch[g]
      /\ \A h \in Gpus \ {g} : PrivateUnchanged(h)
      /\ batch_mask'[g] = [u \in Node |->
           IF u \in Outside(from, to) THEN OFF_BATCH ELSE batch_mask[g][u]]
  BY <1>1, <1>2 DEF PrivateUnchanged, PrivateDomains, TypeOK
<1>4. from .. to - 1 \subseteq BatchRange(batch[g])
  BY <1>2, BoundsInRange
<1>5. \A e \in BatchRange(batch[g]) :
        batch_mask[g][edge_start[e]] = IN_BATCH
  BY <1>1, <1>2 DEF ScanInv, BatchRange
<1> HIDE DEF from, to
<1>6. ASSUME NEW u \in Node, batch_mask'[g][u] # OFF_BATCH
      PROVE  /\ Owned(batch[g], u)
             /\ batch_mask'[g][u] = DANGLING =>
                  \A e \in Edge : edge_start[e] # u
  <2>1. u \notin Outside(from, to) /\ batch_mask'[g][u] = batch_mask[g][u]
    BY <1>3, <1>6
  <2>2. \A e \in Edge : edge_start[e] = u => e \in BatchRange(batch[g])
    BY <1>4, <2>1 DEF Outside
  <2>3. batch_mask[g][u] \in {IN_BATCH, DANGLING}
    BY <1>1, <1>2, <1>6, <2>1 DEF ThreadTypeOK
  <2>4. batch_mask[g][u] = IN_BATCH => \E e \in Edge : edge_start[e] = u
    BY <1>1, <1>2 DEF ScanInv
  <2>5. batch_mask[g][u] = DANGLING => batch[g] = 0
    BY <1>1, <1>2 DEF ScanInv
  <2> QED
    BY <1>5, <2>1, <2>2, <2>3, <2>4, <2>5 DEF Owned, IN_BATCH, DANGLING
<1>7. ScanInv(g)' /\ OwnInv(g)'
  BY <1>2, <1>3, <1>6, OwnedFrame DEF ScanInv, OwnInv
<1> QED
  BY <1>1, <1>2, <1>3, <1>7, QuietStep DEF Busy

LEMMA NeverUndefined ==
  ASSUME BatchInv, NEW g \in Gpus
  PROVE  ~TrimUndefined(g)
BY BoundsInRange DEF TrimUndefined

LEMMA TakeBatchBatchInv ==
  ASSUME Exclusive, BatchInv, NEW g \in Gpus, TakeBatch(g)
  PROVE  BatchInv'
<1> USE DEF Busy
<1>1. /\ TypeOK /\ PrivateDomains /\ HostTypeOK
      /\ \A h \in Gpus : ThreadTypeOK(h)
      /\ ThreadInv' /\ ThreadTypeOK(g)'
  BY ScanThreadInv DEF BatchInv, ThreadInv, TypeInv, TypeOK
<1>2. /\ UNCHANGED hostvars /\ UNCHANGED <<w, new_node_n, node_n, pc, batches>>
      /\ tpc[g] = "idle" /\ pc = "parallel"
      /\ tpc' = [tpc EXCEPT ![g] = "scan"]
      /\ UNCHANGED <<batch_start, batch_end, partition, label_map>>
      /\ new_batch_start' = NOT_INIT /\ new_batch_end' = NOT_INIT
      /\ TrimOverlap \/ \A h \in Gpus : tpc[h] \in {"idle", "refine", "merge"}
  BY DEF TakeBatch, hostvars
<1>3. PICK b \in todo :
        /\ todo' = todo \ {b}
        /\ batch' = [batch EXCEPT ![g] = b]
        /\ i' = [i EXCEPT ![g] = RangeStart(b)]
        /\ batch_mask' = [batch_mask EXCEPT ![g] =
             [u \in Node |-> InitialMask(b)]]
  BY DEF TakeBatch, Untaken
<1>4. /\ tpc'[g] = "scan" /\ batch'[g] = b /\ i'[g] = RangeStart(b)
      /\ batch_mask'[g] = [u \in Node |-> InitialMask(b)]
      /\ \A h \in Gpus \ {g} : PrivateUnchanged(h)
  BY <1>1, <1>2, <1>3 DEF PrivateUnchanged, PrivateDomains, TypeOK
<1>5. \A h \in Gpus \ {g} : tpc[h] \notin {"scan", "trim", "init"}
  BY <1>2 DEF Exclusive
<1>6. OneTrims'
  BY <1>4, <1>5 DEF OneTrims, PrivateUnchanged
<1>7. \A h \in Gpus : tpc[h] \in Busy => batch[h] \notin todo
  BY <1>1 DEF ThreadTypeOK
<1>8. OneBatchEach'
  BY <1>4, <1>7 DEF BatchInv, OneBatchEach, PrivateUnchanged
<1>9. \A h \in Gpus : ScanInv(h)' /\ OwnInv(h)'
  <2>1. ASSUME NEW h \in Gpus \ {g} PROVE ScanInv(h)' /\ OwnInv(h)'
    BY <1>2, <1>4, <1>5, ScanFrame, OwnFrame DEF BatchInv
  <2>2. OwnInv(g)'
    BY <1>4 DEF OwnInv
  <2>3. /\ RangeStart(batch[g])' = RangeStart(b)
        /\ RangeStart(b) \in Nat
        /\ Node' = Node
    BY <1>1, <1>3, <1>4, OwnedFrame, <1>2, RbscAssumption
    DEF RangeStart, HostTypeOK
  <2>4. \A u \in Node :
          /\ batch_mask'[g][u] # IN_BATCH
          /\ batch_mask'[g][u] = DANGLING => b = 0
    BY <1>4 DEF InitialMask, OFF_BATCH, IN_BATCH, DANGLING
  <2>5. ScanInv(g)'
    BY <1>1, <1>2, <1>4, <2>3, <2>4 DEF ScanInv, ThreadTypeOK
  <2> QED
    BY <2>1, <2>2, <2>5
<1>10. LabelInv'
  <2> SUFFICES ASSUME NEW u \in Labelled
               PROVE  \E c \in (0 .. batches - 1) \ todo' :
                        /\ Owned(c, u)
                        /\ \A h \in Gpus :
                             tpc'[h] \in Busy /\ batch'[h] = c =>
                               tpc'[h] = "merge" /\ u < i'[h]
    BY <1>2, OwnedFrame DEF LabelInv, Labelled
  <2>1. PICK c \in (0 .. batches - 1) \ todo :
          /\ Owned(c, u)
          /\ \A h \in Gpus : tpc[h] \in Busy /\ batch[h] = c =>
               tpc[h] = "merge" /\ u < i[h]
    BY <1>2 DEF BatchInv, LabelInv
  <2> QED
    BY <1>3, <1>4, <2>1 DEF PrivateUnchanged
<1>11. LabelsDense' /\ pc' # "undefined"
  BY <1>2, OwnedFrame DEF BatchInv, LabelsDense
<1> QED
  BY <1>1, <1>6, <1>8, <1>9, <1>10, <1>11 DEF BatchInv

(* The node being merged had no label: no other batch owns it, and this    *)
(* one only reaches it now.                                                *)
LEMMA MergedUnlabelled ==
  ASSUME BatchInv, NEW g \in Gpus, tpc[g] = "merge", i[g] < node_n,
         batch_mask[g][i[g]] # OFF_BATCH
  PROVE  /\ i[g] \in Node /\ Owned(batch[g], i[g]) /\ w[i[g]] = node_n
         /\ pc = "parallel"
         /\ batch[g] \in (0 .. batches - 1) \ todo
<1>1. /\ TypeInv /\ HostTypeOK /\ ThreadTypeOK(g) /\ OwnInv(g)
      /\ pc = "parallel"
  BY BusyIsParallel DEF BatchInv, ThreadInv, TypeInv, TypeOK, Busy
<1>2. /\ node_n \in Nat /\ batches \in Nat
      /\ i[g] \in 0 .. node_n
      /\ batch[g] \in (0 .. batches - 1) \ todo
  BY <1>1 DEF HostTypeOK, ThreadTypeOK
<1>3. i[g] \in Node /\ Owned(batch[g], i[g])
  BY <1>1, <1>2 DEF OwnInv, Node
<1>4. ASSUME w[i[g]] # node_n PROVE FALSE
  <2>1. PICK b \in (0 .. batches - 1) \ todo :
          /\ Owned(b, i[g])
          /\ \A h \in Gpus : tpc[h] \in Busy /\ batch[h] = b =>
               tpc[h] = "merge" /\ i[g] < i[h]
    BY <1>1, <1>3, <1>4 DEF BatchInv, LabelInv, Labelled
  <2>2. b = batch[g]
    BY <1>1, <1>2, <1>3, <2>1, OwnedOnce
  <2> QED
    BY <1>2, <2>1, <2>2 DEF Busy
<1> QED
  BY <1>1, <1>2, <1>3, <1>4

LEMMA MergeNodeBatchInv ==
  ASSUME BatchInv, NEW g \in Gpus, MergeNode(g)
  PROVE  BatchInv' /\ \A u \in Node : w[u] # node_n => w'[u] = w[u]
<1> USE DEF Busy
<1> DEFINE u == i[g]
           c == partition[g][u]
<1>1. /\ TypeInv /\ TypeOK /\ PrivateDomains /\ HostTypeOK /\ ThreadTypeOK(g)
      /\ \A h \in Gpus : ScanInv(h) /\ OwnInv(h)
      /\ ThreadInv'
  BY MergeNodeThreadInv DEF BatchInv, ThreadInv, TypeInv, TypeOK
<1>2. /\ UNCHANGED hostvars
      /\ UNCHANGED <<node_n, pc, todo, batches, new_batch_start,
                     new_batch_end>>
      /\ tpc[g] = "merge" /\ u < node_n
      /\ UNCHANGED <<tpc, batch, batch_start, batch_end, batch_mask,
                     partition>>
      /\ i' = [i EXCEPT ![g] = @ + 1]
  BY DEF MergeNode, hostvars, sharedvars
<1>3. /\ pc = "parallel" /\ node_n \in Nat /\ new_node_n \in Nat
      /\ w \in [Node -> (0 .. new_node_n - 1) \cup {node_n}]
      /\ i[g] \in 0 .. node_n /\ u \in Node
      /\ partition[g] \in [Node -> Node]
      /\ label_map[g] \in [Node -> (0 .. new_node_n - 1) \cup {node_n}]
  <2>1. pc = "parallel"
    BY <1>1, <1>2, BusyIsParallel
  <2> QED
    BY <1>1, <1>2, <2>1 DEF HostTypeOK, ThreadTypeOK, Node
<1>4. /\ i'[g] = i[g] + 1 /\ \A h \in Gpus \ {g} : i'[h] = i[h]
      /\ \A h \in Gpus \ {g} : label_map'[h] = label_map[h]
  BY <1>1, <1>2 DEF PrivateDomains, MergeNode
<1>5. OneTrims' /\ OneBatchEach' /\ pc' # "undefined"
  BY <1>2 DEF BatchInv, OneTrims, OneBatchEach
<1>6. \A h \in Gpus : ScanInv(h)' /\ OwnInv(h)'
  <2>1. ASSUME NEW h \in Gpus \ {g} PROVE ScanInv(h)' /\ OwnInv(h)'
    <3>1. PrivateUnchanged(h)
      BY <1>2, <1>4 DEF PrivateUnchanged
    <3> QED
      BY <1>1, <1>2, <3>1, ScanFrame, OwnFrame
  <2>2. ScanInv(g)' /\ OwnInv(g)'
    BY <1>1, <1>2, OwnedFrame DEF ScanInv, OwnInv
  <2> QED
    BY <2>1, <2>2
(* Labels already given still have the batch that gave them.               *)
<1>7. ASSUME NEW v \in Labelled
      PROVE  \E b \in (0 .. batches - 1) \ todo :
               /\ Owned(b, v)
               /\ \A h \in Gpus : tpc[h] \in Busy /\ batch[h] = b =>
                    tpc[h] = "merge" /\ v < i'[h]
  <2>1. PICK b \in (0 .. batches - 1) \ todo :
          /\ Owned(b, v)
          /\ \A h \in Gpus : tpc[h] \in Busy /\ batch[h] = b =>
               tpc[h] = "merge" /\ v < i[h]
    BY <1>3 DEF BatchInv, LabelInv
  <2>2. v \in Int
    BY <1>3 DEF Labelled, Node
  <2>3. \A h \in Gpus : tpc[h] \in Busy /\ batch[h] = b =>
          tpc[h] = "merge" /\ v < i'[h]
    BY <1>3, <1>4, <2>1, <2>2
  <2> QED
    BY <2>1, <2>3
<1>8. CASE batch_mask[g][u] = OFF_BATCH
  <2>1. UNCHANGED <<w, new_node_n>>
    BY <1>8 DEF MergeNode
  <2>2. Labelled' = Labelled
    BY <1>2, <2>1, OwnedFrame DEF Labelled
  <2>3. LabelInv'
    BY <1>2, <1>7, <2>2, OwnedFrame DEF LabelInv
  <2>4. LabelsDense'
    BY <1>2, <2>1, OwnedFrame DEF BatchInv, LabelsDense
  <2> QED
    BY <1>1, <1>5, <1>6, <2>1, <2>3, <2>4 DEF BatchInv
<1>9. CASE batch_mask[g][u] # OFF_BATCH
  <2> DEFINE fresh == label_map[g][c] = node_n
             l == IF fresh THEN new_node_n ELSE label_map[g][c]
  <2>1. /\ w[u] = node_n /\ Owned(batch[g], u)
        /\ batch[g] \in (0 .. batches - 1) \ todo
    BY <1>2, <1>9, MergedUnlabelled
  <2>2. /\ new_node_n' = IF fresh THEN new_node_n + 1 ELSE new_node_n
        /\ label_map' = IF fresh
             THEN [label_map EXCEPT ![g][c] = new_node_n] ELSE label_map
        /\ w' = [w EXCEPT ![u] = label_map'[g][c]]
    BY <1>9 DEF MergeNode, Drawn
  <2>3. label_map'[g][c] = l
    <3>1. c \in Node
      BY <1>3
    <3> QED
      BY <1>1, <1>3, <2>2, <3>1 DEF PrivateDomains
  <2>4. /\ l \in 0 .. new_node_n' - 1 /\ l # node_n
        /\ new_node_n' = IF fresh THEN new_node_n + 1 ELSE new_node_n
    <3>1. new_node_n < node_n
      <4>1. u \in Unlabelled(Node)
        BY <1>3, <2>1 DEF Unlabelled
      <4> QED
        BY <1>1, <1>3, <4>1, LabelsFit DEF BatchInv
    <3>2. label_map[g][c] \in (0 .. new_node_n - 1) \cup {node_n}
      BY <1>3
    <3> QED
      BY <1>3, <2>2, <3>1, <3>2
  <2>5. w' = [w EXCEPT ![u] = l]
    BY <2>2, <2>3
  <2> HIDE DEF l
  <2>6. /\ \A v \in Node \ {u} : w'[v] = w[v]
        /\ w'[u] = l
    BY <1>3, <2>5
  <2>7. \A v \in Node : w[v] # node_n => w'[v] = w[v]
    BY <2>1, <2>6
  <2>8. Labelled' = Labelled \cup {u} /\ u \notin Labelled
    BY <1>2, <1>3, <2>1, <2>4, <2>6, OwnedFrame DEF Labelled
  <2>9. LabelInv'
    <3> SUFFICES ASSUME NEW v \in Labelled'
                 PROVE  \E b \in (0 .. batches - 1) \ todo :
                          /\ Owned(b, v)
                          /\ \A h \in Gpus :
                               tpc[h] \in Busy /\ batch[h] = b =>
                                 tpc[h] = "merge" /\ v < i'[h]
      BY <1>2, OwnedFrame DEF LabelInv
    <3>1. CASE v = u
      <4>1. \A h \in Gpus : tpc[h] \in Busy /\ batch[h] = batch[g] => h = g
        BY <1>2 DEF BatchInv, OneBatchEach
      <4>2. u < i'[g]
        BY <1>3, <1>4
      <4> QED
        BY <1>2, <2>1, <3>1, <4>1, <4>2
    <3>2. CASE v \in Labelled
      BY <1>7, <3>2
    <3> QED
      BY <2>8, <3>1, <3>2
  <2>10. LabelsDense'
    <3>1. {w[v] : v \in Labelled} = 0 .. new_node_n - 1
      BY <1>3 DEF BatchInv, LabelsDense, Labelled
    <3>2. {w'[v] : v \in Labelled'} = (0 .. new_node_n - 1) \cup {l}
      <4>1. \A v \in Labelled : w'[v] = w[v]
        BY <2>6, <2>8 DEF Labelled
      <4>2. {w'[v] : v \in Labelled'} = {w[v] : v \in Labelled} \cup {w'[u]}
        BY <2>8, <4>1, Zenon
      <4> QED
        BY <2>6, <3>1, <4>2
    <3>3. (0 .. new_node_n - 1) \cup {l} = 0 .. new_node_n' - 1
      BY <1>3, <2>4 DEF l
    <3> QED
      BY <3>2, <3>3 DEF LabelsDense, Labelled
  <2> QED
    BY <1>1, <1>5, <1>6, <2>7, <2>9, <2>10 DEF BatchInv
<1> QED
  BY <1>8, <1>9

LEMMA NextBatchInv ==
  ASSUME Exclusive, BatchInv, [Next]_vars
  PROVE  BatchInv'
<1>1. CASE MainThread
  BY <1>1, MainBatchInv
<1>2. CASE \E g \in Gpus : Thread(g)
  BY <1>2, TakeBatchBatchInv, ScanEdgeBatchInv, CloseScanBatchInv,
     LeaveBatchInv, TrimBatchBatchInv, NeverUndefined, InitPartitionBatchInv,
     RefineBatchInv, MergeNodeBatchInv DEF Thread
<1>3. CASE UNCHANGED vars
  <2>1. ThreadInv'
    BY <1>3, NextThreadInv DEF BatchInv
  <2>2. UNCHANGED hostvars
    BY <1>3 DEF vars
  <2>3. /\ UNCHANGED <<w, new_node_n, todo, new_batch_start, new_batch_end>>
        /\ UNCHANGED <<tpc, batch, i, batch_mask>>
        /\ \A h \in Gpus : PrivateUnchanged(h)
    BY <1>3 DEF vars, sharedvars, threadvars, PrivateUnchanged
  <2>4. \A h \in Gpus : ScanInv(h)' /\ OwnInv(h)'
    BY <2>2, <2>3, ScanFrame, OwnFrame DEF BatchInv
  <2>5. OneTrims' /\ OneBatchEach'
    BY <2>3 DEF BatchInv, OneTrims, OneBatchEach
  <2>6. LabelInv' /\ LabelsDense' /\ pc' # "undefined"
    BY <2>2, <2>3, OwnedFrame DEF BatchInv, LabelInv, Labelled, LabelsDense
  <2> QED
    BY <2>1, <2>4, <2>5, <2>6 DEF BatchInv
<1> QED
  BY <1>1, <1>2, <1>3 DEF Next, Stopped

LEMMA BatchInvariance ==
  ASSUME Exclusive
  PROVE  Spec => []BatchInv
<1>1. BatchInv /\ [Next]_vars => BatchInv'
  BY NextBatchInv
<1> QED
  BY <1>1, InitBatchInv, PTL DEF Spec

-----------------------------------------------------------------------------

(* With one thread trimming at a time, what is taken for dangling has no   *)
(* edge: rbsc.cu:310 marks the nodes, the scan and the trimming correct it.*)
THEOREM DanglingIsDangling ==
  ASSUME Exclusive
  PROVE  Spec => []DanglingHasNoEdge
<1>1. BatchInv => DanglingHasNoEdge
  <2> SUFFICES ASSUME BatchInv, NEW g \in Gpus,
                      tpc[g] \in {"refine", "merge"}, NEW e \in Edge
               PROVE  batch_mask[g][edge_start[e]] # DANGLING
    BY DEF DanglingHasNoEdge
  <2>1. edge_start[e] \in Node
    BY BusyIsParallel DEF BatchInv, ThreadInv, TypeInv, TypeOK, HostTypeOK,
       Busy
  <2> QED
    BY <2>1 DEF BatchInv, OwnInv, OFF_BATCH, DANGLING
<1> QED
  BY <1>1, BatchInvariance, PTL

(* Then the labels of a round are those in use, without a gap              *)
(* (rbsc.cu:437-443): new_node_n is the size of the quotient, and          *)
(* considered_nodes is never indexed beyond it.                            *)
THEOREM LabelsAreDense ==
  ASSUME Exclusive
  PROVE  Spec => []LabelsDense
<1>1. BatchInv => LabelsDense
  BY DEF BatchInv
<1> QED
  BY <1>1, BatchInvariance, PTL

(* Then no node gets a second label in a round: the batches own disjoint   *)
(* sets of nodes (rbsc.cu:315-334), and closing the round keeps the labels *)
(* they gave.                                                              *)
THEOREM LabelsAreGivenOnce ==
  ASSUME Exclusive
  PROVE  Spec => LabelGivenOnce
<1> DEFINE Once ==
      pc = "parallel" /\ pc' # "undefined" =>
        \A u \in Node : w[u] # node_n => w'[u] = w[u]
<1>1. BatchInv /\ [Next]_vars => [Once]_vars
  <2> SUFFICES ASSUME BatchInv, Next, pc = "parallel", pc' # "undefined"
               PROVE  \A u \in Node : w[u] # node_n => w'[u] = w[u]
    OBVIOUS
  <2>1. CASE MainThread
    <3>1. w' \in {FullLabel, w}
      BY <2>1 DEF MainThread, BeginRound, Compact, CompactUndefined, LeaveLoop,
         PrintResult
    <3> QED
      BY <3>1 DEF FullLabel
  <2>2. CASE \E g \in Gpus : Thread(g)
    <3> PICK g \in Gpus : Thread(g)
      BY <2>2
    <3>1. CASE MergeNode(g)
      BY <3>1, MergeNodeBatchInv
    <3>2. CASE ~MergeNode(g)
      <4>1. w' = w
        BY <3>2 DEF Thread, TakeBatch, ScanEdge, CloseScan, SkipBatch,
           TrimBatch, TrimUndefined, InitPartition, Refine, EndBatch
      <4> QED
        BY <4>1
    <3> QED
      BY <3>1, <3>2
  <2>3. CASE Stopped
    BY <2>3 DEF Stopped, vars
  <2> QED
    BY <2>1, <2>2, <2>3 DEF Next
<1> QED
  BY <1>1, BatchInvariance, PTL DEF Spec, LabelGivenOnce

(* Then the undefined outcomes of the race are out of reach.               *)
THEOREM StaysDefined ==
  ASSUME Exclusive
  PROVE  Spec => [](pc # "undefined")
<1>1. BatchInv => pc # "undefined"
  BY DEF BatchInv
<1> QED
  BY <1>1, BatchInvariance, PTL

-----------------------------------------------------------------------------
(* What the labels of a round mean.                                        *)

(* The edge arrays hold a graph, between rounds and during one.            *)
GraphInv ==
  /\ pc = "round" => IsGraph(CurrentGraph)
  /\ pc = "parallel" => IsGraph(RoundGraph)

(* Two nodes a thread has apart are apart in every stable partition that   *)
(* keeps to its mask.                                                      *)
Unsplit(g) ==
  tpc[g] \in {"refine", "merge"} =>
    \A q \in [Node -> Node] :
      RespectsMask(g, q) /\ StablePartition(RoundGraph, Blocks(q)) =>
        \A u, v \in Node : q[u] = q[v] => partition[g][u] = partition[g][v]

UnsplitInv ==
  /\ ThreadInv
  /\ GraphInv
  /\ \A g \in Gpus : Unsplit(g)

-----------------------------------------------------------------------------

(* Classes do not span masks, and nodes outside the batch are alone.       *)
WithinMask(g) ==
  tpc[g] \in {"refine", "merge"} => RespectsMask(g, partition[g])

(* The number of nodes left out is known while the batch is set up, and    *)
(* the number of classes is never overestimated, so that refinement ends   *)
(* only when nothing was split.                                            *)
OffNodes(g) == {u \in Node : batch_mask[g][u] = OFF_BATCH}
CountInv(g) ==
  /\ tpc[g] = "init" => off_batch_node_n = Cardinality(OffNodes(g))
  /\ tpc[g] = "refine" /\ OffNodes(g) # Node =>
       z_unique_n[g] <= Cardinality(Range(partition[g]))

(* Then the classes that are merged are stable.                            *)
StableInv(g) ==
  ideal /\ tpc[g] = "merge" =>
    StablePartition(RoundGraph, Blocks(partition[g]))

(* A label a thread has given is that of one class of its own, and the     *)
(* nodes it has been through have the label of their class.                *)
ClassInv(g) ==
  tpc[g] = "merge" =>
    /\ \A c, d \in Node :
         label_map[g][c] = label_map[g][d] /\ label_map[g][c] # node_n => c = d
    /\ \A u \in Node : u < i[g] /\ batch_mask[g][u] # OFF_BATCH =>
         w[u] # node_n /\ w[u] = label_map[g][partition[g][u]]
    /\ \A u, c \in Node :
         w[u] # node_n /\ w[u] = label_map[g][c] =>
           batch_mask[g][u] # OFF_BATCH /\ partition[g][u] = c

(* Labellings that keep the labels given so far together.                  *)
Extending ==
  {f \in [Node -> Node] :
     \A u, v \in Node : w[u] # node_n /\ w[u] = w[v] => f[u] = f[v]}

(* u and v send the same, whatever labels are given to the other nodes.    *)
Settled(u, v) ==
  \A f \in Extending, c \in Node :
    OutWeight(RoundGraph, u, Block(f, c)) = OutWeight(RoundGraph, v, Block(f, c))

(* Nodes of one label are settled, or a thread is still merging them.      *)
SettledInv ==
  ideal /\ pc = "parallel" =>
    \A u, v \in Node : w[u] # node_n /\ w[u] = w[v] =>
      \/ \E g \in Gpus : /\ tpc[g] = "merge"
                         /\ batch_mask[g][u] # OFF_BATCH
                         /\ partition[g][u] = partition[g][v]
      \/ Settled(u, v)

(* The graph of a round is the quotient of the input by cls.               *)
FollowsInput(q) ==
  /\ IsGraph(q) /\ Grouped(q)
  /\ cls \in [Nodes(graph) -> Nodes(q)] /\ Range(cls) = Nodes(q)
  /\ \A u \in Nodes(graph), c \in Nodes(q) :
       OutWeight(graph, u, Block(cls, c)) = OutWeight(q, cls[u], {c})
QuotientInv ==
  ideal =>
    /\ pc = "round" => FollowsInput(CurrentGraph)
    /\ pc = "parallel" => FollowsInput(RoundGraph)

RoundInv ==
  /\ BatchInv
  /\ GraphInv
  /\ \A g \in Gpus : WithinMask(g) /\ CountInv(g) /\ StableInv(g) /\ ClassInv(g)
  /\ SettledInv
  /\ QuotientInv
  /\ RoundsExact

-----------------------------------------------------------------------------
(* Frames.                                                                 *)

LEMMA ThreadStep ==
  ASSUME TypeInv, NEW g \in Gpus, Thread(g), ~TrimUndefined(g)
  PROVE  /\ UNCHANGED hostvars
         /\ tpc[g] \in Busy \cup {"idle"} /\ pc = "parallel"
         /\ \A h \in Gpus \ {g} :
              PrivateUnchanged(h) /\ z_unique_n'[h] = z_unique_n[h]
<1>1. /\ TypeOK /\ PrivateDomains
  BY DEF TypeInv, TypeOK
<1>2. UNCHANGED hostvars
  BY DEF Thread, TakeBatch, ScanEdge, CloseScan, SkipBatch, TrimBatch,
     InitPartition, Refine, MergeNode, EndBatch
<1>3. tpc[g] \in Busy \cup {"idle"}
  BY DEF Thread, TakeBatch, ScanEdge, CloseScan, SkipBatch, TrimBatch,
     InitPartition, Refine, MergeNode, EndBatch, Busy
<1>4. pc = "parallel"
  <2>1. CASE TakeBatch(g)
    BY <2>1 DEF TakeBatch
  <2>2. CASE ~TakeBatch(g)
    <3>1. tpc[g] \in Busy
      BY <2>2 DEF Thread, ScanEdge, CloseScan, SkipBatch, TrimBatch,
         InitPartition, Refine, MergeNode, EndBatch, Busy
    <3> QED
      BY <3>1, BusyIsParallel
  <2> QED
    BY <2>1, <2>2
<1>5. ASSUME NEW h \in Gpus \ {g}
      PROVE  PrivateUnchanged(h) /\ z_unique_n'[h] = z_unique_n[h]
  <2>1. CASE TakeBatch(g) \/ ScanEdge(g) \/ CloseScan(g)
    BY <1>1, <2>1 DEF TypeOK, PrivateDomains, PrivateUnchanged, TakeBatch,
       ScanEdge, CloseScan
  <2>2. CASE SkipBatch(g) \/ EndBatch(g) \/ TrimBatch(g)
    BY <1>1, <2>2 DEF TypeOK, PrivateDomains, PrivateUnchanged, SkipBatch,
       EndBatch, TrimBatch
  <2>3. CASE InitPartition(g) \/ MergeNode(g)
    BY <1>1, <2>3 DEF TypeOK, PrivateDomains, PrivateUnchanged, InitPartition,
       MergeNode
  <2>4. CASE Refine(g)
    <3>1. partition'[h] = partition[h]
      BY <1>1, <2>4 DEF PrivateDomains, Refine
    <3>2. /\ z_unique_n' = [z_unique_n EXCEPT ![g] = z_unique_n'[g]]
          /\ UNCHANGED <<batch, batch_start, batch_end, batch_mask>>
          /\ \/ UNCHANGED <<tpc, label_map, i>>
             \/ /\ tpc' = [tpc EXCEPT ![g] = "merge"]
                /\ label_map' = [label_map EXCEPT ![g] = [c \in Node |-> node_n]]
                /\ i' = [i EXCEPT ![g] = 0]
      BY <1>1, <2>4 DEF Refine, PrivateDomains
    <3> QED
      BY <1>1, <3>1, <3>2 DEF TypeOK, PrivateDomains, PrivateUnchanged
  <2> QED
    BY <2>1, <2>2, <2>3, <2>4 DEF Thread
<1> QED
  BY <1>2, <1>3, <1>4, <1>5

LEMMA GraphFrame ==
  ASSUME UNCHANGED hostvars
  PROVE  /\ UNCHANGED <<RoundGraph, Node, Edge, pc, node_n, ideal, graph, cls>>
         /\ UNCHANGED <<edge_n, new_edge_n, edge_start, edge_end, edge_weight>>
BY DEF hostvars, RoundGraph, Node, Edge

(* The edge arrays are a graph: the quotient of one is one.                *)
LEMMA InitGraphInv == Init => GraphInv
<1> SUFFICES ASSUME Init PROVE GraphInv
  OBVIOUS
<1>1. IsGraph(graph) /\ pc = "round"
  BY RbscAssumption, GraphsAssumption DEF Init
<1>2. CurrentGraph = [nodes |-> graph.nodes, edges |-> graph.edges,
                      start |-> graph.start, end |-> graph.end,
                      weight |-> graph.weight]
  BY DEF Init, CurrentGraph
<1>3. CurrentGraph = graph
  BY <1>1, <1>2 DEF IsGraph
<1> QED
  BY <1>1, <1>3 DEF GraphInv

(* The quotient Compact builds.                                            *)
LEMMA CompactQuotient ==
  ASSUME TypeInv, IsGraph(RoundGraph), Compact
  PROVE  /\ w' = FullLabel
         /\ \E source : Quotient(CurrentGraph', RoundGraph, w', new_node_n',
                                 source)
<1>1. /\ HostTypeOK /\ pc = "parallel"
  BY DEF TypeInv, TypeOK, Compact, Barrier
<1>2. /\ new_node_n' \in Nat /\ w' = FullLabel
      /\ w' \in [Node -> 0 .. new_node_n' - 1]
  BY <1>1, FullLabelType DEF Compact
<1>3. PICK source \in InOrder(Kept(RoundGraph, w')) :
        LET quotient == QuotientGraph(RoundGraph, w', new_node_n', source)
        IN  /\ new_edge_n' = quotient.edges
            /\ edge_start' = quotient.start
            /\ edge_end' = quotient.end
            /\ edge_weight' = quotient.weight
  BY DEF Compact
<1>4. Nodes(RoundGraph) = Node
  BY DEF Nodes, RoundGraph, Node
<1>5. CurrentGraph' = QuotientGraph(RoundGraph, w', new_node_n', source)
  BY <1>3 DEF CurrentGraph, QuotientGraph
<1>6. Quotient(CurrentGraph', RoundGraph, w', new_node_n', source)
  BY <1>2, <1>3, <1>4, <1>5 DEF Quotient
<1> QED
  BY <1>2, <1>6

LEMMA NextGraphInv ==
  ASSUME ThreadInv, GraphInv, [Next]_vars
  PROVE  GraphInv'
<1>1. TypeInv
  BY DEF ThreadInv
<1>2. CASE BeginRound
  <2>1. /\ RoundGraph' = CurrentGraph /\ pc = "round" /\ pc' = "parallel"
    BY <1>2 DEF BeginRound, RoundGraph, CurrentGraph
  <2> QED
    BY <2>1 DEF GraphInv
<1>3. CASE Compact
  <2>1. pc = "parallel" /\ pc' \in {"round", "print"}
    BY <1>3 DEF Compact, Barrier
  <2>2. IsGraph(CurrentGraph')
    BY <1>1, <1>3, <2>1, CompactQuotient, QuotientIsGraph DEF GraphInv
  <2> QED
    BY <2>1, <2>2 DEF GraphInv
<1>4. CASE CompactUndefined \/ LeaveLoop \/ PrintResult
  <2>1. pc' \in {"undefined", "print", "done"}
    BY <1>4 DEF CompactUndefined, LeaveLoop, PrintResult
  <2> QED
    BY <2>1 DEF GraphInv
<1>5. ASSUME NEW g \in Gpus, Thread(g) PROVE GraphInv'
  <2>1. CASE TrimUndefined(g)
    BY <2>1 DEF TrimUndefined, GraphInv
  <2>2. CASE ~TrimUndefined(g)
    <3>1. UNCHANGED hostvars /\ pc = "parallel"
      BY <1>1, <1>5, <2>2, ThreadStep
    <3> QED
      BY <3>1, GraphFrame DEF GraphInv
  <2> QED
    BY <2>1, <2>2
<1>6. CASE UNCHANGED vars
  BY <1>6 DEF vars, hostvars, GraphInv, RoundGraph, CurrentGraph
<1> QED
  BY <1>2, <1>3, <1>4, <1>5, <1>6 DEF Next, MainThread, Stopped

-----------------------------------------------------------------------------
(* One iteration of the refinement.                                        *)

(* What a node of the batch sends to each class: all its edges are in the  *)
(* trimmed batch.                                                          *)
LEMMA SignatureIs ==
  ASSUME ThreadInv, NEW g \in Gpus, tpc[g] \in {"refine", "merge"},
         NEW u \in InBatch(g)
  PROVE  Signature(g, u) =
           [c \in Range(partition[g]) |->
              OutWeight(RoundGraph, u, Block(partition[g], c))]
<1>1. /\ TypeInv /\ MaskTrimmed(g) /\ pc = "parallel" /\ ThreadTypeOK(g)
      /\ HostTypeOK
  BY BusyIsParallel DEF ThreadInv, TypeInv, TypeOK, Busy
<1>2. /\ edge_n \in Nat /\ batch_start[g] \in 0 .. edge_n
      /\ batch_end[g] \in 0 .. edge_n
      /\ edge_start \in [Edge -> Node] /\ edge_end \in [Edge -> Node]
      /\ partition[g] \in [Node -> Node]
  BY <1>1 DEF HostTypeOK, ThreadTypeOK
<1>3. Trimmed(g) \subseteq Edge /\ Edges(RoundGraph) = Edge
  BY <1>2 DEF Trimmed, Edge, Edges, RoundGraph
<1>4. \A e \in Edge : edge_start[e] = u => e \in Trimmed(g)
  BY <1>1 DEF MaskTrimmed, InBatch, IN_BATCH, OFF_BATCH
<1>5. ASSUME NEW c
      PROVE  {k \in Trimmed(g) : /\ edge_start[k] = u
                                 /\ partition[g][edge_end[k]] = c}
               = EdgesTo(RoundGraph, u, Block(partition[g], c))
  <2>1. RoundGraph.start = edge_start /\ RoundGraph.end = edge_end
    BY DEF RoundGraph
  <2>2. \A k \in Edge : edge_end[k] \in Block(partition[g], c) <=>
                          partition[g][edge_end[k]] = c
    BY <1>2 DEF Block
  <2> QED
    BY <1>3, <1>4, <2>1, <2>2 DEF EdgesTo, Edges
<1>6. RoundGraph.weight = edge_weight
  BY DEF RoundGraph
<1>7. \A c : OutWeight(RoundGraph, u, Block(partition[g], c)) =
             SumFunctionOnSet(edge_weight,
               {k \in Trimmed(g) : /\ edge_start[k] = u
                                   /\ partition[g][edge_end[k]] = c}) % WeightModulus
  BY <1>5, <1>6, OutWeightIs
<1> QED
  BY <1>7 DEF Signature

(* Two nodes stay together when they were and their hashes are the same.   *)
HashOf(g, h, u) == IF u \in InBatch(g) THEN <<h[Signature(g, u)]>> ELSE << >>

LEMMA RefinedClasses ==
  ASSUME TypeInv, NEW g \in Gpus, Refine(g)
  PROVE  \E h \in Hashes({Signature(g, u) : u \in InBatch(g)}) :
           \A u, v \in Node :
             partition'[g][u] = partition'[g][v] <=>
               /\ partition[g][u] = partition[g][v]
               /\ HashOf(g, h, u) = HashOf(g, h, v)
<1> DEFINE sig == [u \in InBatch(g) |-> Signature(g, u)]
<1>1. Range(sig) = {Signature(g, u) : u \in InBatch(g)}
  BY DEF Range
<1>2. PICK h \in Hashes(Range(sig)) :
        partition' = [partition EXCEPT ![g] =
          [u \in Node |->
             Min({v \in Node :
               Together(g, u, v,
                 [x \in Node |-> IF x \in InBatch(g) THEN <<h[sig[x]]>>
                                 ELSE << >>][u],
                 [x \in Node |-> IF x \in InBatch(g) THEN <<h[sig[x]]>>
                                 ELSE << >>][v])})]]
  BY DEF Refine
<1>3. g \in DOMAIN partition
  BY DEF TypeInv, TypeOK, PrivateDomains
<1>4. \A x \in Node : HashOf(g, h, x) =
        [y \in Node |-> IF y \in InBatch(g) THEN <<h[sig[y]]>> ELSE << >>][x]
  BY DEF HashOf
<1> HIDE DEF sig
<1> DEFINE key == [u \in Node |-> <<partition[g][u], HashOf(g, h, u)>>]
<1>5. partition'[g] = [u \in Node |-> Min({v \in Node : key[u] = key[v]})]
  <2>1. partition'[g] =
          [u \in Node |->
             Min({v \in Node : Together(g, u, v, HashOf(g, h, u),
                                        HashOf(g, h, v))})]
    BY <1>2, <1>3, <1>4
  <2>2. \A u, v \in Node :
          Together(g, u, v, HashOf(g, h, u), HashOf(g, h, v)) <=>
            key[u] = key[v]
    BY DEF Together
  <2> HIDE DEF key
  <2>3. \A u \in Node :
          {v \in Node : Together(g, u, v, HashOf(g, h, u), HashOf(g, h, v))}
            = {v \in Node : key[u] = key[v]}
    BY <2>2
  <2> QED
    BY <2>1, <2>3
<1>6. node_n \in Nat
  BY DEF TypeInv, TypeOK, HostTypeOK
<1>7. \A u, v \in Node :
        partition'[g][u] = partition'[g][v] <=> key[u] = key[v]
  <2> DEFINE p == partition'[g]
             class == [u \in Node |-> {v \in Node : key[u] = key[v]}]
  <2>1. Node \subseteq Nat
    BY <1>6 DEF Node
  <2>2. \A u \in Node : p[u] = Min(class[u])
    BY <1>5
  <2>3. /\ \A u \in Node : class[u] \subseteq Node
        /\ \A u, v \in Node : v \in class[u] <=> key[u] = key[v]
    OBVIOUS
  <2> HIDE DEF key, p, class
  <2>4. \A u, v \in Node : p[u] = p[v] <=> key[u] = key[v]
    <3>1. NamesLeast(Node, key, class, p)
      BY <2>1, <2>2, <2>3 DEF NamesLeast
    <3> QED
      BY <3>1, LeastNames
  <2> QED
    BY <2>4 DEF p
<1>8. \A u, v \in Node : key[u] = key[v] <=>
        /\ partition[g][u] = partition[g][v]
        /\ HashOf(g, h, u) = HashOf(g, h, v)
  OBVIOUS
<1> HIDE DEF key
<1> QED
  BY <1>1, <1>2, <1>7, <1>8

-----------------------------------------------------------------------------
(* Refinement never separates what a stable partition keeps together.      *)

(* Nodes of one class of such a partition have one signature.              *)
LEMMA SameSignature ==
  ASSUME UnsplitInv, NEW g \in Gpus, tpc[g] = "refine",
         NEW q \in [Node -> Node], RespectsMask(g, q),
         StablePartition(RoundGraph, Blocks(q)),
         NEW u \in InBatch(g), NEW v \in InBatch(g), q[u] = q[v]
  PROVE  Signature(g, u) = Signature(g, v)
<1> DEFINE p == partition[g]
<1>1. /\ ThreadInv /\ TypeInv /\ HostTypeOK /\ ThreadTypeOK(g) /\ Unsplit(g)
      /\ pc = "parallel" /\ IsGraph(RoundGraph)
  <2>1. TypeInv /\ TypeOK /\ GraphInv
    BY DEF UnsplitInv, ThreadInv, TypeInv
  <2>2. pc = "parallel"
    BY <2>1, BusyIsParallel DEF Busy
  <2> QED
    BY <2>1, <2>2 DEF UnsplitInv, GraphInv, TypeOK
<1>2. p \in [Node -> Node] /\ node_n \in Nat
  BY <1>1 DEF ThreadTypeOK, HostTypeOK
<1>3. IsFiniteSet(Node)
  BY <1>2, CountInterval DEF Node
<1>4. \A x, y \in Node : q[x] = q[y] => p[x] = p[y]
  BY <1>1 DEF Unsplit
<1>5. u \in Node /\ v \in Node
  BY DEF InBatch
<1>6. Refines(Blocks(q), Blocks(p))
  BY <1>2, <1>4, RefinesByLabels
<1>7. \A C \in Blocks(q) :
        OutWeight(RoundGraph, u, C) = OutWeight(RoundGraph, v, C)
  <2>1. Block(q, q[u]) \in Blocks(q) /\ u \in Block(q, q[u])
        /\ v \in Block(q, q[u])
    BY <1>5, BlockOfNode
  <2> QED
    BY <2>1 DEF StablePartition
<1>8. \A c : OutWeight(RoundGraph, u, Block(p, c)) =
               OutWeight(RoundGraph, v, Block(p, c))
  <2> SUFFICES ASSUME NEW c
               PROVE  OutWeight(RoundGraph, u, Block(p, c)) =
                        OutWeight(RoundGraph, v, Block(p, c))
    OBVIOUS
  <2>1. IsFiniteSet(DOMAIN q) /\ DOMAIN p = DOMAIN q
    BY <1>2, <1>3
  <2> HIDE DEF p
  <2> QED
    BY <1>1, <1>6, <1>7, <2>1, SameWeightCoarser
<1>9. /\ Signature(g, u) = [c \in Range(p) |-> OutWeight(RoundGraph, u, Block(p, c))]
      /\ Signature(g, v) = [c \in Range(p) |-> OutWeight(RoundGraph, v, Block(p, c))]
  BY <1>1, SignatureIs
<1> QED
  BY <1>8, <1>9

LEMMA RefineUnsplit ==
  ASSUME UnsplitInv, NEW g \in Gpus, Refine(g)
  PROVE  Unsplit(g)'
<1>1. /\ TypeInv /\ TypeOK /\ Unsplit(g) /\ tpc[g] = "refine"
      /\ UNCHANGED <<hostvars, batch_mask>>
  BY DEF UnsplitInv, ThreadInv, TypeInv, Refine
<1>2. UNCHANGED <<RoundGraph, Node>>
  BY <1>1, GraphFrame
<1>3. PICK h \in Hashes({Signature(g, u) : u \in InBatch(g)}) :
        \A u, v \in Node :
          partition'[g][u] = partition'[g][v] <=>
            /\ partition[g][u] = partition[g][v]
            /\ HashOf(g, h, u) = HashOf(g, h, v)
  BY <1>1, RefinedClasses
<1>4. ASSUME NEW q \in [Node -> Node], RespectsMask(g, q),
             StablePartition(RoundGraph, Blocks(q)),
             NEW u \in Node, NEW v \in Node, q[u] = q[v]
      PROVE  partition'[g][u] = partition'[g][v]
  <2>1. partition[g][u] = partition[g][v]
    BY <1>1, <1>4 DEF Unsplit
  <2>2. CASE u = v
    BY <2>2
  <2>3. CASE u # v
    <3>1. batch_mask[g][u] = batch_mask[g][v]
      BY <1>4, <2>3 DEF RespectsMask
    <3>2. u \in InBatch(g) <=> v \in InBatch(g)
      BY <3>1 DEF InBatch
    <3>3. u \in InBatch(g) => Signature(g, u) = Signature(g, v)
      BY <1>1, <1>4, <3>2, SameSignature
    <3> QED
      BY <1>3, <2>1, <3>2, <3>3 DEF HashOf
  <2> QED
    BY <2>2, <2>3
<1> QED
  BY <1>1, <1>2, <1>4 DEF Unsplit, RespectsMask

LEMMA InitPartitionUnsplit ==
  ASSUME TypeInv, NEW g \in Gpus, InitPartition(g)
  PROVE  Unsplit(g)'
<1>1. /\ TypeOK /\ PrivateDomains /\ UNCHANGED <<hostvars, batch_mask>>
  BY DEF TypeInv, TypeOK, InitPartition
<1>2. UNCHANGED <<RoundGraph, Node>>
  BY <1>1, GraphFrame
<1>3. partition'[g] =
        [u \in Node |->
           IF batch_mask[g][u] = OFF_BATCH THEN u
           ELSE Min({v \in Node : batch_mask[g][v] = batch_mask[g][u]})]
  BY <1>1 DEF InitPartition, PrivateDomains
<1>4. ASSUME NEW q, RespectsMask(g, q),
             NEW u \in Node, NEW v \in Node, q[u] = q[v]
      PROVE  partition'[g][u] = partition'[g][v]
  BY <1>3, <1>4 DEF RespectsMask
<1> QED
  BY <1>1, <1>2, <1>4 DEF Unsplit, RespectsMask

LEMMA UnsplitFrame ==
  ASSUME NEW h \in Gpus, Unsplit(h), PrivateUnchanged(h),
         UNCHANGED <<RoundGraph, Node>>
  PROVE  Unsplit(h)'
BY DEF Unsplit, RespectsMask, PrivateUnchanged

LEMMA InitUnsplitInv == Init => UnsplitInv
<1>1. Init => \A g \in Gpus : Unsplit(g)
  BY DEF Init, Unsplit
<1> QED
  BY <1>1, InitThreadInv, InitGraphInv DEF UnsplitInv

LEMMA NextUnsplitInv == UnsplitInv /\ [Next]_vars => UnsplitInv'
<1> SUFFICES ASSUME UnsplitInv, [Next]_vars PROVE UnsplitInv'
  OBVIOUS
<1>1. /\ ThreadInv /\ TypeInv /\ TypeOK /\ PrivateDomains /\ GraphInv
      /\ QuietOutside /\ \A g \in Gpus : Unsplit(g)
  BY DEF UnsplitInv, ThreadInv, TypeInv, TypeOK
<1>2. ThreadInv' /\ GraphInv'
  BY <1>1, NextThreadInv, NextGraphInv
<1>3. CASE MainThread
  <2>1. \A g \in Gpus : tpc'[g] \in {"idle", "undefined"}
    BY <1>1, <1>3 DEF MainThread, BeginRound, Compact, CompactUndefined,
       LeaveLoop, PrintResult, Barrier, QuietOutside, threadvars
  <2>2. \A g \in Gpus : Unsplit(g)'
    BY <2>1 DEF Unsplit
  <2> QED
    BY <1>2, <2>2 DEF UnsplitInv
<1>4. ASSUME NEW g \in Gpus, Thread(g) PROVE UnsplitInv'
  <2>1. CASE TrimUndefined(g)
    BY <1>2, <2>1 DEF TrimUndefined, UnsplitInv, Unsplit
  <2>2. CASE ~TrimUndefined(g)
    <3>1. /\ UNCHANGED <<RoundGraph, Node>>
          /\ \A h \in Gpus \ {g} : PrivateUnchanged(h)
      BY <1>1, <1>4, <2>2, ThreadStep, GraphFrame
    <3>2. \A h \in Gpus \ {g} : Unsplit(h)'
      BY <1>1, <3>1, UnsplitFrame
    <3>3. Unsplit(g)'
      <4>1. CASE \/ TakeBatch(g) \/ ScanEdge(g) \/ CloseScan(g) \/ SkipBatch(g)
                 \/ TrimBatch(g) \/ EndBatch(g)
        <5>1. tpc'[g] \in {"scan", "trim", "init", "idle"}
          BY <1>1, <4>1 DEF TakeBatch, ScanEdge, CloseScan, SkipBatch,
             TrimBatch, EndBatch, TypeOK
        <5> QED
          BY <5>1 DEF Unsplit
      <4>2. CASE InitPartition(g)
        BY <1>1, <4>2, InitPartitionUnsplit
      <4>3. CASE Refine(g)
        BY <4>3, RefineUnsplit
      <4>4. CASE MergeNode(g)
        BY <1>1, <3>1, <4>4 DEF MergeNode, Unsplit, RespectsMask
      <4> QED
        BY <1>4, <2>2, <4>1, <4>2, <4>3, <4>4 DEF Thread
    <3> QED
      BY <1>2, <3>2, <3>3 DEF UnsplitInv
  <2> QED
    BY <2>1, <2>2
<1>5. CASE UNCHANGED vars
  <2>1. UNCHANGED <<RoundGraph, Node>> /\ UNCHANGED threadvars
    BY <1>5, GraphFrame DEF vars
  <2>2. \A h \in Gpus : PrivateUnchanged(h)
    BY <2>1 DEF threadvars, PrivateUnchanged
  <2> QED
    BY <1>1, <1>2, <2>1, <2>2, UnsplitFrame DEF UnsplitInv
<1> QED
  BY <1>3, <1>4, <1>5 DEF Next, Stopped

(* Whatever the hash and whatever the race on the bounds, nodes that some  *)
(* stable partition within the batch keeps together are never split: a     *)
(* collision of hashes can only lump too much (rbsc.cu:357-430).           *)
THEOREM EquivalentStayTogether == Spec => []NeverSplitsEquivalent
<1>1. UnsplitInv => NeverSplitsEquivalent
  <2> SUFFICES ASSUME UnsplitInv, NEW g \in Gpus,
                      tpc[g] \in {"refine", "merge"},
                      NEW q \in [Node -> Node], RespectsMask(g, q),
                      \A u, v \in Node, c \in Range(q) : q[u] = q[v] =>
                        WeightInto(u, Block(q, c)) = WeightInto(v, Block(q, c))
               PROVE  Refines(Blocks(q), Blocks(partition[g]))
    BY DEF NeverSplitsEquivalent
  <2>1. ThreadTypeOK(g) /\ Unsplit(g)
    BY DEF UnsplitInv, ThreadInv, TypeInv, TypeOK
  <2>2. \A u, C : WeightInto(u, C) = OutWeight(RoundGraph, u, C)
    BY DEF WeightInto, OutWeight, RoundGraph, Edge, Edges
  <2>3. StablePartition(RoundGraph, Blocks(q))
    BY <2>2, StableByLabels
  <2>4. \A u, v \in Node : q[u] = q[v] => partition[g][u] = partition[g][v]
    BY <2>1, <2>3 DEF Unsplit
  <2>5. DOMAIN partition[g] = DOMAIN q /\ DOMAIN q = Node
    BY <2>1 DEF ThreadTypeOK
  <2> QED
    BY <2>4, <2>5, RefinesByLabels
<1> QED
  BY <1>1, InitUnsplitInv, NextUnsplitInv, PTL DEF Spec

-----------------------------------------------------------------------------
(* The classes a thread ends with are stable when hashes tell signatures   *)
(* apart.                                                                  *)

LEMMA InitPartitionClasses ==
  ASSUME TypeInv, NEW g \in Gpus, CountInv(g), InitPartition(g)
  PROVE  WithinMask(g)' /\ CountInv(g)'
<1> DEFINE p == partition'[g]
           mask == batch_mask[g]
           class(u) == {v \in Node : mask[v] = mask[u]}
<1>1. /\ TypeOK /\ PrivateDomains /\ HostTypeOK /\ tpc[g] = "init"
      /\ UNCHANGED <<hostvars, batch_mask, off_batch_node_n>>
      /\ tpc'[g] = "refine"
      /\ z_unique_n'[g] = off_batch_node_n + 1
      /\ off_batch_node_n = Cardinality(OffNodes(g))
  BY DEF TypeInv, TypeOK, PrivateDomains, InitPartition, sharedvars, CountInv
<1>2. Node' = Node /\ node_n \in Nat /\ mask' = mask
  BY <1>1, GraphFrame DEF HostTypeOK
<1>3. \A u \in Node : p[u] = IF mask[u] = OFF_BATCH THEN u ELSE Min(class(u))
  BY <1>1 DEF InitPartition, PrivateDomains
<1>4. \A u \in Node : mask[u] # OFF_BATCH => p[u] \in Node /\ mask[p[u]] = mask[u]
  <2> SUFFICES ASSUME NEW u \in Node, mask[u] # OFF_BATCH
               PROVE  p[u] \in Node /\ mask[p[u]] = mask[u]
    OBVIOUS
  <2>1. class(u) \subseteq Nat /\ class(u) # {}
    BY <1>2 DEF Node
  <2>2. Min(class(u)) \in class(u)
    <3> HIDE DEF class
    <3> QED
      BY <2>1, MinOfNat
  <2> QED
    BY <1>3, <2>2
<1>5. WithinMask(g)'
  <2> SUFFICES ASSUME NEW u \in Node, NEW v \in Node, u # v, p[u] = p[v]
               PROVE  mask[u] = mask[v] /\ mask[u] # OFF_BATCH
    BY <1>2 DEF WithinMask, RespectsMask
  <2> HIDE DEF p, class
  <2> QED
    BY <1>3, <1>4
<1>6. ASSUME OffNodes(g) # Node
      PROVE  off_batch_node_n + 1 <= Cardinality(Range(p))
  <2>1. PICK u \in Node : mask[u] # OFF_BATCH
    BY <1>6 DEF OffNodes
  <2>2. DOMAIN p = Node
    BY <1>1 DEF InitPartition, PrivateDomains
  <2>3. p[u] \in Node /\ mask[p[u]] # OFF_BATCH
    BY <1>4, <2>1
  <2>4. OffNodes(g) \cup {p[u]} \subseteq Range(p)
    BY <1>3, <2>2 DEF OffNodes, Range
  <2>5. Range(p) \subseteq Node
    <3>1. \A x \in Node : p[x] \in Node
      <4> HIDE DEF p, class
      <4> QED
        BY <1>3, <1>4
    <3> HIDE DEF p
    <3> QED
      BY <2>2, <3>1 DEF Range
  <2>6. IsFiniteSet(Range(p)) /\ IsFiniteSet(OffNodes(g))
    BY <1>2, <2>5, CountInInterval DEF OffNodes, Node
  <2>7. p[u] \notin OffNodes(g)
    BY <2>3 DEF OffNodes
  <2> HIDE DEF p
  <2>8. /\ Cardinality(OffNodes(g) \cup {p[u]}) = Cardinality(OffNodes(g)) + 1
        /\ IsFiniteSet(OffNodes(g) \cup {p[u]})
    BY <2>6, <2>7, FS_AddElement
  <2>9. Cardinality(OffNodes(g) \cup {p[u]}) <= Cardinality(Range(p))
    BY <2>4, <2>6, FS_Subset
  <2> QED
    BY <1>1, <2>8, <2>9
<1>7. CountInv(g)'
  BY <1>1, <1>2, <1>6 DEF CountInv, OffNodes
<1> QED
  BY <1>5, <1>7

LEMMA RefineClasses ==
  ASSUME TypeInv, NEW g \in Gpus, WithinMask(g), Refine(g)
  PROVE  WithinMask(g)' /\ CountInv(g)'
<1>1. /\ TypeOK /\ PrivateDomains /\ HostTypeOK /\ tpc[g] = "refine"
      /\ UNCHANGED <<hostvars, batch_mask>>
      /\ tpc'[g] \in {"refine", "merge"}
  BY DEF TypeInv, TypeOK, Refine
<1>2. Node' = Node /\ node_n \in Nat /\ TypeInv'
  BY <1>1, GraphFrame, RefineTypeInv DEF HostTypeOK
<1>3. \A u, v \in Node : partition'[g][u] = partition'[g][v] =>
                           partition[g][u] = partition[g][v]
  BY RefinedClasses
<1>4. WithinMask(g)'
  BY <1>1, <1>2, <1>3 DEF WithinMask, RespectsMask
<1>5. z_unique_n'[g] = Cardinality(Range(partition'[g]))
  BY <1>1 DEF Refine, PrivateDomains
<1>6. Range(partition'[g]) \subseteq Node
  <2>1. partition'[g] \in [Node -> Node]
    BY <1>1, <1>2 DEF TypeInv, TypeOK, ThreadTypeOK
  <2> QED
    BY <2>1 DEF Range
<1>7. Cardinality(Range(partition'[g])) \in Nat
  BY <1>2, <1>6, CountInInterval DEF Node
<1>8. CountInv(g)'
  BY <1>1, <1>5, <1>7 DEF CountInv
<1> QED
  BY <1>4, <1>8

(* Nothing was split by the last refinement: one signature for each class. *)
LEMMA NothingSplit ==
  ASSUME TypeInv, TypeInv', NEW g \in Gpus, WithinMask(g), CountInv(g),
         WithinMask(g)', Refine(g), tpc'[g] = "merge",
         NEW u \in Node, NEW v \in Node, partition[g][u] = partition[g][v]
  PROVE  partition'[g][u] = partition'[g][v]
<1> DEFINE p == partition[g]
           q == partition'[g]
<1>1. /\ TypeOK /\ PrivateDomains /\ HostTypeOK /\ tpc[g] = "refine"
      /\ UNCHANGED <<hostvars, batch_mask>> /\ ThreadTypeOK(g)
      /\ TypeOK' /\ ThreadTypeOK(g)'
  BY DEF TypeInv, TypeOK, Refine
<1>2. Node' = Node /\ node_n \in Nat
  BY <1>1, GraphFrame DEF HostTypeOK
<1>3. p \in [Node -> Node] /\ q \in [Node -> Node]
  BY <1>1, <1>2 DEF ThreadTypeOK
<1>4. CASE OffNodes(g) = Node
  BY <1>1, <1>4 DEF OffNodes, WithinMask, RespectsMask
<1>5. CASE OffNodes(g) # Node
  <2>1. /\ z_unique_n[g] <= Cardinality(Range(p))
        /\ z_unique_n[g] = Cardinality(Range(q))
    BY <1>1, <1>5 DEF CountInv, Refine, PrivateDomains
  <2>2. \A x, y \in Node : q[x] = q[y] => p[x] = p[y]
    BY RefinedClasses
  <2>3. Range(q) \subseteq Node
    BY <1>3 DEF Range
  <2>4. IsFiniteSet(Range(q))
    BY <1>2, <2>3, CountInInterval DEF Node
  <2>5. DOMAIN p = Node /\ DOMAIN q = Node
    BY <1>3
  <2> HIDE DEF p, q
  <2>6. Refines(Blocks(q), Blocks(p))
    BY <2>2, <2>5, RefinesByLabels
  <2>7. /\ Cardinality(Range(p)) \in Nat /\ Cardinality(Range(q)) \in Nat
        /\ Cardinality(Range(p)) <= Cardinality(Range(q))
    BY <2>4, <2>5, <2>6, RefinesCount
  <2>8. Cardinality(Range(q)) = Cardinality(Range(p))
    BY <2>1, <2>7
  <2> QED
    BY <2>4, <2>5, <2>6, <2>8, SameCount DEF p, q
<1> QED
  BY <1>4, <1>5

LEMMA RefineStable ==
  ASSUME ThreadInv, TypeInv', NEW g \in Gpus, OwnInv(g),
         WithinMask(g), CountInv(g), WithinMask(g)', Refine(g)
  PROVE  StableInv(g)'
<1> DEFINE p == partition[g]
           q == partition'[g]
<1>1. /\ TypeInv /\ TypeOK /\ HostTypeOK /\ tpc[g] = "refine"
      /\ UNCHANGED <<hostvars, batch_mask>> /\ ThreadTypeOK(g)
      /\ TypeOK' /\ ThreadTypeOK(g)'
  BY DEF ThreadInv, TypeInv, TypeOK, Refine
<1>2. /\ Node' = Node /\ RoundGraph' = RoundGraph /\ ideal' = ideal
      /\ UNCHANGED pc /\ pc = "parallel"
  BY <1>1, GraphFrame, BusyIsParallel DEF Busy
<1> SUFFICES ASSUME ideal, tpc'[g] = "merge"
             PROVE  StablePartition(RoundGraph, Blocks(q))
  BY <1>2 DEF StableInv
<1>3. p \in [Node -> Node] /\ q \in [Node -> Node]
  BY <1>1, <1>2 DEF ThreadTypeOK
<1>4. PICK h \in Hashes({Signature(g, u) : u \in InBatch(g)}) :
        \A u, v \in Node :
          q[u] = q[v] <=>
            p[u] = p[v] /\ HashOf(g, h, u) = HashOf(g, h, v)
  BY <1>1, RefinedClasses
<1>5. \A u \in InBatch(g) : h[Signature(g, u)] = Signature(g, u)
  BY <1>4 DEF Hashes
<1>6. \A u, v \in Node : p[u] = p[v] <=> q[u] = q[v]
  BY <1>1, <1>4, NothingSplit
<1>7. \A u \in Node : Block(q, q[u]) = Block(p, p[u])
  <2> HIDE DEF p, q
  <2> QED
    BY <1>3, <1>6 DEF Block
<1>8. ASSUME NEW u \in Node, NEW v \in Node, NEW c \in Range(q), q[u] = q[v]
      PROVE  OutWeight(RoundGraph, u, Block(q, c)) =
               OutWeight(RoundGraph, v, Block(q, c))
  <2>1. PICK x \in Node : c = q[x]
    BY <1>3, <1>8 DEF Range
  <2>2. Block(q, c) = Block(p, p[x]) /\ p[x] \in Range(p)
    BY <1>3, <1>7, <2>1 DEF Range
  <2>3. CASE u = v
    BY <2>3
  <2>4. CASE u # v
    <3>1. /\ batch_mask[g][u] = batch_mask[g][v]
          /\ batch_mask[g][u] # OFF_BATCH
      BY <1>1, <1>2, <1>8, <2>4 DEF WithinMask, RespectsMask
    <3>2. CASE u \in InBatch(g)
      <4>1. v \in InBatch(g)
        BY <3>1, <3>2 DEF InBatch
      <4>2. Signature(g, u) = Signature(g, v)
        BY <1>4, <1>5, <1>8, <3>2, <4>1 DEF HashOf
      <4>3. /\ Signature(g, u) =
                 [d \in Range(p) |-> OutWeight(RoundGraph, u, Block(p, d))]
            /\ Signature(g, v) =
                 [d \in Range(p) |-> OutWeight(RoundGraph, v, Block(p, d))]
        BY <1>1, <3>2, <4>1, SignatureIs
      <4>4. /\ Signature(g, u)[p[x]] = OutWeight(RoundGraph, u, Block(p, p[x]))
            /\ Signature(g, v)[p[x]] = OutWeight(RoundGraph, v, Block(p, p[x]))
        BY <2>2, <4>3
      <4> QED
        BY <2>2, <4>2, <4>4
    <3>3. CASE u \notin InBatch(g)
      <4>1. batch_mask[g][u] = DANGLING /\ batch_mask[g][v] = DANGLING
        BY <1>1, <3>1, <3>3 DEF InBatch, ThreadTypeOK
      <4>2. \A e \in Edge : edge_start[e] # u /\ edge_start[e] # v
        BY <1>1, <3>1, <4>1 DEF OwnInv
      <4>3. /\ EdgesTo(RoundGraph, u, Block(q, c)) = {}
            /\ EdgesTo(RoundGraph, v, Block(q, c)) = {}
        BY <4>2 DEF EdgesTo, RoundGraph, Edge, Edges
      <4> QED
        BY <4>3, OutWeightNone
    <3> QED
      BY <3>2, <3>3
  <2> QED
    BY <2>3, <2>4
<1> HIDE DEF p, q
<1> QED
  BY <1>3, <1>8, StableByLabels

-----------------------------------------------------------------------------
(* Merging: a label stands for one class, and its nodes are settled.       *)

(* The next label is none of those in use.                                 *)
LEMMA NextLabel ==
  ASSUME BatchInv, NEW g \in Gpus, MergeNode(g),
         batch_mask[g][i[g]] # OFF_BATCH
  PROVE  /\ i[g] \in Node /\ w[i[g]] = node_n /\ node_n \in Nat
         /\ new_node_n \in Nat /\ new_node_n < node_n
         /\ w \in [Node -> (0 .. new_node_n - 1) \cup {node_n}]
         /\ partition[g] \in [Node -> Node] /\ batch_mask[g] \in [Node -> 0 .. 2]
         /\ label_map[g] \in [Node -> (0 .. new_node_n - 1) \cup {node_n}]
<1>1. /\ tpc[g] = "merge" /\ i[g] < node_n /\ TypeInv /\ LabelsDense
  BY DEF BatchInv, ThreadInv, MergeNode
<1>2. pc = "parallel" /\ HostTypeOK /\ ThreadTypeOK(g)
  BY <1>1, BusyIsParallel DEF TypeInv, TypeOK, Busy
<1>3. i[g] \in Node /\ w[i[g]] = node_n
  BY <1>1, MergedUnlabelled
<1>4. Unlabelled(Node) # {}
  BY <1>3 DEF Unlabelled
<1>5. new_node_n < node_n
  BY <1>1, <1>2, <1>4, LabelsFit
<1> QED
  BY <1>1, <1>2, <1>3, <1>5
  DEF HostTypeOK, ThreadTypeOK, OFF_BATCH, IN_BATCH, DANGLING

LEMMA MergeNodeClasses ==
  ASSUME BatchInv, NEW g \in Gpus, ClassInv(g), MergeNode(g)
  PROVE  ClassInv(g)'
<1> DEFINE u == i[g]
           c == partition[g][u]
<1>1. /\ UNCHANGED <<node_n, partition, batch_mask, tpc>> /\ tpc[g] = "merge"
      /\ TypeInv /\ TypeOK /\ PrivateDomains /\ ThreadTypeOK(g) /\ HostTypeOK
      /\ u < node_n
  BY DEF MergeNode, hostvars, BatchInv, ThreadInv, TypeInv, TypeOK
<1>2. Node' = Node /\ i'[g] = u + 1 /\ u \in Nat /\ node_n \in Nat
  <2>1. u \in Nat /\ node_n \in Nat
    BY <1>1 DEF ThreadTypeOK, HostTypeOK
  <2>2. i'[g] = u + 1
    BY <1>1 DEF MergeNode, PrivateDomains
  <2> QED
    BY <1>1, <2>1, <2>2 DEF Node
<1>3. /\ \A x, d \in Node :
           label_map[g][x] = label_map[g][d] /\ label_map[g][x] # node_n => x = d
      /\ \A x \in Node : x < u /\ batch_mask[g][x] # OFF_BATCH =>
           w[x] # node_n /\ w[x] = label_map[g][partition[g][x]]
      /\ \A x, d \in Node :
           w[x] # node_n /\ w[x] = label_map[g][d] =>
             batch_mask[g][x] # OFF_BATCH /\ partition[g][x] = d
  BY <1>1 DEF ClassInv
<1>4. \A x \in Node : x < u + 1 => x < u \/ x = u
  BY <1>2 DEF Node
<1>5. CASE batch_mask[g][u] = OFF_BATCH
  <2>1. UNCHANGED <<label_map, w>>
    BY <1>5 DEF MergeNode
  <2> HIDE DEF u
  <2> QED
    BY <1>1, <1>2, <1>3, <1>4, <1>5, <2>1 DEF ClassInv
<1>6. CASE batch_mask[g][u] # OFF_BATCH
  <2>1. /\ u \in Node /\ w[u] = node_n /\ c \in Node
        /\ new_node_n \in Nat /\ new_node_n < node_n
        /\ w \in [Node -> (0 .. new_node_n - 1) \cup {node_n}]
        /\ partition[g] \in [Node -> Node]
        /\ label_map[g] \in [Node -> (0 .. new_node_n - 1) \cup {node_n}]
    BY <1>6, NextLabel
  <2>2. new_node_n \notin (0 .. new_node_n - 1) \cup {node_n}
    BY <1>2, <2>1
  <2>3. \A x \in Node : w[x] # new_node_n /\ label_map[g][x] # new_node_n
    BY <2>1, <2>2
  <2>4. w'[u] = label_map'[g][c] /\ \A x \in Node : x # u => w'[x] = w[x]
    BY <1>6, <2>1 DEF MergeNode
  <2>5. CASE label_map[g][c] = node_n
    <3>1. /\ label_map'[g][c] = new_node_n
          /\ \A d \in Node : d # c => label_map'[g][d] = label_map[g][d]
      BY <1>1, <1>6, <2>1, <2>5 DEF MergeNode, PrivateDomains
    <3> HIDE DEF u, c
    <3>2. \A x, d \in Node :
            label_map'[g][x] = label_map'[g][d] /\ label_map'[g][x] # node_n
              => x = d
      BY <1>3, <2>3, <3>1
    <3>3. \A x \in Node : x < u + 1 /\ batch_mask[g][x] # OFF_BATCH =>
            w'[x] # node_n /\ w'[x] = label_map'[g][partition[g][x]]
      <4>1. ASSUME NEW x \in Node, x < u, batch_mask[g][x] # OFF_BATCH
            PROVE  w'[x] # node_n /\ w'[x] = label_map'[g][partition[g][x]]
        <5>1. w[x] # node_n /\ w[x] = label_map[g][partition[g][x]]
          BY <1>3, <4>1
        <5>2. x # u /\ partition[g][x] # c /\ partition[g][x] \in Node
          BY <2>1, <2>5, <5>1
        <5> QED
          BY <2>4, <3>1, <5>1, <5>2
      <4>2. w'[u] # node_n /\ w'[u] = label_map'[g][partition[g][u]]
        BY <2>1, <2>2, <2>4, <3>1 DEF c
      <4> QED
        BY <1>4, <4>1, <4>2
    <3>4. \A x, d \in Node :
            w'[x] # node_n /\ w'[x] = label_map'[g][d] =>
              batch_mask[g][x] # OFF_BATCH /\ partition[g][x] = d
      <4>1. ASSUME NEW d \in Node, w'[u] = label_map'[g][d]
            PROVE  d = c
        BY <2>1, <2>3, <2>4, <3>1, <4>1
      <4>2. ASSUME NEW x \in Node, NEW d \in Node, x # u, w'[x] # node_n,
                   w'[x] = label_map'[g][d]
            PROVE  batch_mask[g][x] # OFF_BATCH /\ partition[g][x] = d
        <5>1. d # c
          BY <2>3, <2>4, <3>1, <4>2
        <5> QED
          BY <1>3, <2>4, <3>1, <4>2, <5>1
      <4> QED
        BY <1>6, <4>1, <4>2 DEF c
    <3> QED
      BY <1>1, <1>2, <3>2, <3>3, <3>4 DEF ClassInv
  <2>6. CASE label_map[g][c] # node_n
    <3>1. label_map' = label_map
      BY <1>6, <2>6 DEF MergeNode
    <3> HIDE DEF u, c
    <3>2. w'[u] # node_n /\ w'[u] = label_map[g][c] /\ c = partition[g][u]
      BY <2>4, <2>6, <3>1 DEF c
    <3>3. \A x \in Node : x < u + 1 /\ batch_mask[g][x] # OFF_BATCH =>
            w'[x] # node_n /\ w'[x] = label_map[g][partition[g][x]]
      BY <1>3, <1>4, <2>1, <2>4, <3>2
    <3>4. \A x, d \in Node :
            w'[x] # node_n /\ w'[x] = label_map[g][d] =>
              batch_mask[g][x] # OFF_BATCH /\ partition[g][x] = d
      <4>1. ASSUME NEW d \in Node, w'[u] = label_map[g][d]
            PROVE  d = c
        BY <1>3, <2>1, <2>6, <3>2, <4>1
      <4> QED
        BY <1>3, <1>6, <2>4, <4>1 DEF c
    <3> QED
      BY <1>1, <1>2, <1>3, <3>1, <3>3, <3>4 DEF ClassInv
  <2> QED
    BY <2>5, <2>6
<1> QED
  BY <1>5, <1>6

(* Another thread's merging does not touch the nodes and labels of g.      *)
LEMMA OtherMergeClasses ==
  ASSUME BatchInv, NEW g \in Gpus, NEW h \in Gpus \ {g}, ClassInv(g),
         MergeNode(h)
  PROVE  ClassInv(g)'
<1> DEFINE u == i[h]
           c == partition[h][u]
<1>1. /\ ThreadInv' /\ TypeInv /\ tpc[h] = "merge" /\ tpc'[h] = "merge"
      /\ UNCHANGED hostvars
  BY MergeNodeThreadInv DEF BatchInv, ThreadInv, MergeNode
<1>2. PrivateUnchanged(g) /\ UNCHANGED <<Node, node_n>>
  BY <1>1, ThreadStep, GraphFrame DEF Thread, TrimUndefined
<1> SUFFICES ASSUME tpc[g] = "merge" PROVE ClassInv(g)'
  BY <1>2 DEF ClassInv, PrivateUnchanged
<1>3. CASE batch_mask[h][u] = OFF_BATCH
  <2>1. w' = w
    BY <1>3 DEF MergeNode
  <2> QED
    BY <1>2, <2>1 DEF ClassInv, PrivateUnchanged
<1>4. CASE batch_mask[h][u] # OFF_BATCH
  <2>1. /\ u \in Node /\ w[u] = node_n /\ c \in Node
        /\ w \in [Node -> (0 .. new_node_n - 1) \cup {node_n}]
    BY <1>4, NextLabel
  <2>2. w'[u] = label_map'[h][c] /\ \A x \in Node : x # u => w'[x] = w[x]
    BY <1>4, <2>1 DEF MergeNode
  <2>3. \A d \in Node : label_map'[h][c] = label_map'[g][d] =>
                          label_map'[h][c] = node_n
    <3>1. LabelsApart(h, g)'
      BY <1>1 DEF ThreadInv
    <3>2. tpc'[h] = "merge" /\ tpc'[g] = "merge"
      BY <1>1, <1>2 DEF PrivateUnchanged
    <3> QED
      BY <1>2, <2>1, <3>1, <3>2 DEF LabelsApart
  <2>4. /\ tpc'[g] = tpc[g] /\ i'[g] = i[g] /\ batch_mask'[g] = batch_mask[g]
        /\ partition'[g] = partition[g] /\ label_map'[g] = label_map[g]
    BY <1>2 DEF PrivateUnchanged
  <2> HIDE DEF u, c
  <2>5. \A x \in Node : x < i[g] /\ batch_mask[g][x] # OFF_BATCH =>
          w'[x] # node_n /\ w'[x] = label_map[g][partition[g][x]]
    BY <2>1, <2>2 DEF ClassInv
  <2>6. \A x, d \in Node : w'[x] # node_n /\ w'[x] = label_map[g][d] =>
          batch_mask[g][x] # OFF_BATCH /\ partition[g][x] = d
    BY <2>1, <2>2, <2>3, <2>4 DEF ClassInv
  <2> QED
    BY <1>2, <2>4, <2>5, <2>6 DEF ClassInv
<1> QED
  BY <1>3, <1>4

(* What is settled stays so: labels, once given, stay.                     *)
LEMMA SettledStays ==
  ASSUME UNCHANGED <<RoundGraph, Node, node_n>>,
         \A x \in Node : w[x] # node_n => w'[x] = w[x],
         NEW u \in Node, NEW v \in Node, Settled(u, v)
  PROVE  Settled(u, v)'
<1>1. ASSUME NEW f \in Extending' PROVE f \in Extending
  BY DEF Extending
<1> QED
  BY <1>1 DEF Settled

(* At the end of a batch the nodes of one class have one label: a labelling*)
(* that extends the labels is coarser than the classes, which are stable.  *)
LEMMA EndBatchSettles ==
  ASSUME BatchInv, GraphInv, ideal, NEW g \in Gpus, WithinMask(g),
         StableInv(g), ClassInv(g), EndBatch(g),
         NEW u \in Node, NEW v \in Node, batch_mask[g][u] # OFF_BATCH,
         partition[g][u] = partition[g][v]
  PROVE  Settled(u, v)
<1> DEFINE p == partition[g]
<1>1. /\ TypeInv /\ TypeOK /\ ThreadTypeOK(g) /\ HostTypeOK
      /\ tpc[g] = "merge" /\ i[g] = node_n
  BY DEF BatchInv, ThreadInv, TypeInv, TypeOK, EndBatch
<1>2. IsGraph(RoundGraph) /\ pc = "parallel"
  BY <1>1, BusyIsParallel DEF Busy, GraphInv
<1>3. p \in [Node -> Node] /\ node_n \in Nat
  BY <1>1 DEF ThreadTypeOK, HostTypeOK
<1>4. IsFiniteSet(Node) /\ \A x \in Node : x < node_n
  BY <1>3, CountInterval DEF Node
<1>5. StablePartition(RoundGraph, Blocks(p))
  BY <1>1 DEF StableInv
<1>6. \A C \in Blocks(p) : OutWeight(RoundGraph, u, C) = OutWeight(RoundGraph, v, C)
  <2>1. /\ Block(p, p[u]) \in Blocks(p) /\ u \in Block(p, p[u])
        /\ v \in Block(p, p[u])
    BY <1>3, BlockOfNode DEF Block
  <2> QED
    BY <1>5, <2>1 DEF StablePartition
<1>7. ASSUME NEW f \in Extending, NEW c
      PROVE  OutWeight(RoundGraph, u, Block(f, c)) =
               OutWeight(RoundGraph, v, Block(f, c))
  <2>1. f \in [Node -> Node]
        /\ \A x, y \in Node : w[x] # node_n /\ w[x] = w[y] => f[x] = f[y]
    BY DEF Extending
  <2>2. ASSUME NEW x \in Node, NEW y \in Node, p[x] = p[y]
        PROVE  f[x] = f[y]
    <3>1. CASE x = y
      BY <3>1
    <3>2. CASE x # y
      <4>1. batch_mask[g][x] # OFF_BATCH /\ batch_mask[g][y] # OFF_BATCH
        BY <1>1, <2>2, <3>2 DEF WithinMask, RespectsMask
      <4>2. /\ w[x] # node_n /\ w[x] = label_map[g][p[x]]
            /\ w[y] # node_n /\ w[y] = label_map[g][p[y]]
        BY <1>1, <1>4, <4>1 DEF ClassInv
      <4> QED
        BY <2>1, <2>2, <4>2
    <3> QED
      BY <3>1, <3>2
  <2>3. DOMAIN p = Node /\ DOMAIN f = Node
    BY <1>3, <2>1
  <2> HIDE DEF p
  <2>4. Refines(Blocks(p), Blocks(f))
    BY <2>2, <2>3, RefinesByLabels
  <2>5. IsFiniteSet(DOMAIN p) /\ DOMAIN f = DOMAIN p
    BY <1>4, <2>3
  <2> QED
    BY <1>2, <1>6, <2>4, <2>5, SameWeightCoarser
<1> QED
  BY <1>7 DEF Settled

LEMMA ThreadSettled ==
  ASSUME RoundInv, NEW g \in Gpus, Thread(g), ClassInv(g)'
  PROVE  SettledInv'
<1>1. /\ BatchInv /\ TypeInv /\ TypeOK /\ PrivateDomains /\ GraphInv /\ SettledInv
      /\ ~TrimUndefined(g)
  BY NeverUndefined DEF RoundInv, BatchInv, ThreadInv, TypeInv, TypeOK
<1>2. /\ UNCHANGED <<RoundGraph, Node, node_n, pc, ideal>> /\ pc = "parallel"
      /\ \A h \in Gpus \ {g} : PrivateUnchanged(h)
  BY <1>1, ThreadStep, GraphFrame
<1>3. ~MergeNode(g) => w' = w
  BY <1>1 DEF Thread, TakeBatch, ScanEdge, CloseScan, SkipBatch, TrimBatch,
     InitPartition, Refine, EndBatch
<1>4. \A x \in Node : w[x] # node_n => w'[x] = w[x]
  BY <1>1, <1>3, MergeNodeBatchInv
<1> SUFFICES ASSUME ideal, NEW u \in Node, NEW v \in Node,
                    w'[u] # node_n, w'[u] = w'[v]
             PROVE  \/ \E h \in Gpus : /\ tpc'[h] = "merge"
                                       /\ batch_mask'[h][u] # OFF_BATCH
                                       /\ partition'[h][u] = partition'[h][v]
                    \/ Settled(u, v)'
  BY <1>2 DEF SettledInv
<1>5. w[u] # node_n /\ w[u] = w[v] =>
        \/ \E h \in Gpus : /\ tpc[h] = "merge"
                           /\ batch_mask[h][u] # OFF_BATCH
                           /\ partition[h][u] = partition[h][v]
        \/ Settled(u, v)'
  BY <1>1, <1>2, <1>4, SettledStays DEF SettledInv
<1>6. CASE MergeNode(g)
  <2>1. UNCHANGED <<tpc, batch_mask, partition>> /\ tpc[g] = "merge"
    BY <1>6 DEF MergeNode
  <2>2. CASE w[u] # node_n /\ w[v] # node_n
    BY <1>4, <1>5, <2>1, <2>2
  <2>3. CASE ~(w[u] # node_n /\ w[v] # node_n)
    <3> DEFINE x == i[g]
               c == partition[g][x]
    <3>1. batch_mask[g][x] # OFF_BATCH
      BY <1>6, <2>3 DEF MergeNode
    <3>2. /\ c \in Node /\ x \in Node
          /\ w'[x] = label_map'[g][c] /\ \A y \in Node : y # x => w'[y] = w[y]
      <4>1. /\ x \in Node /\ partition[g] \in [Node -> Node]
            /\ w \in [Node -> (0 .. new_node_n - 1) \cup {node_n}]
        BY <1>1, <1>6, <3>1, NextLabel
      <4>2. w' = [w EXCEPT ![x] = label_map'[g][c]]
        BY <1>6, <3>1 DEF MergeNode
      <4> QED
        BY <4>1, <4>2
    <3>3. w'[u] = label_map'[g][c] /\ w'[v] = label_map'[g][c]
      BY <2>3, <3>2
    <3> HIDE DEF x, c
    <3>4. \A y, d \in Node : w'[y] # node_n /\ w'[y] = label_map'[g][d] =>
            batch_mask'[g][y] # OFF_BATCH /\ partition'[g][y] = d
      <4>1. tpc'[g] = "merge"
        BY <2>1
      <4> QED
        BY <1>2, <4>1 DEF ClassInv
    <3>5. /\ batch_mask'[g][u] # OFF_BATCH /\ partition'[g][u] = c
          /\ partition'[g][v] = c
      BY <3>2, <3>3, <3>4
    <3> QED
      BY <2>1, <3>5
  <2> QED
    BY <2>2, <2>3
<1>7. CASE EndBatch(g)
  <2>1. w[u] # node_n /\ w[u] = w[v]
    BY <1>1, <1>3, <1>7 DEF EndBatch, MergeNode
  <2>2. CASE Settled(u, v)'
    BY <2>2
  <2>3. ASSUME NEW h \in Gpus, tpc[h] = "merge", batch_mask[h][u] # OFF_BATCH,
               partition[h][u] = partition[h][v], h # g
        PROVE  /\ tpc'[h] = "merge" /\ batch_mask'[h][u] # OFF_BATCH
               /\ partition'[h][u] = partition'[h][v]
    BY <1>2, <2>3 DEF PrivateUnchanged
  <2>4. ASSUME batch_mask[g][u] # OFF_BATCH, partition[g][u] = partition[g][v]
        PROVE  Settled(u, v)'
    <3>1. WithinMask(g) /\ StableInv(g) /\ ClassInv(g)
      BY DEF RoundInv
    <3>2. Settled(u, v)
      BY <1>1, <1>7, <2>4, <3>1, EndBatchSettles
    <3> QED
      BY <1>2, <1>4, <3>2, SettledStays
  <2> QED
    BY <1>5, <2>1, <2>3, <2>4
<1>8. CASE ~MergeNode(g) /\ ~EndBatch(g)
  <2>1. tpc[g] # "merge"
    BY <1>8 DEF Thread, TakeBatch, ScanEdge, CloseScan, SkipBatch, TrimBatch,
       TrimUndefined, InitPartition, Refine
  <2>2. w[u] # node_n /\ w[u] = w[v]
    BY <1>3, <1>8
  <2>3. ASSUME NEW h \in Gpus, tpc[h] = "merge", batch_mask[h][u] # OFF_BATCH,
               partition[h][u] = partition[h][v]
        PROVE  /\ tpc'[h] = "merge" /\ batch_mask'[h][u] # OFF_BATCH
               /\ partition'[h][u] = partition'[h][v]
    BY <1>2, <2>1, <2>3 DEF PrivateUnchanged
  <2> QED
    BY <1>5, <2>2, <2>3
<1> QED
  BY <1>6, <1>7, <1>8

-----------------------------------------------------------------------------
(* Between rounds.                                                         *)

(* Completing the labels joins nothing, and uses every number.             *)
LEMMA FullLabelJoins ==
  ASSUME TypeInv, pc = "parallel", NEW x \in Node, NEW y \in Node, x # y,
         FullLabel[x] = FullLabel[y]
  PROVE  w[x] # node_n /\ w[x] = w[y]
<1> DEFINE before(u) == Unlabelled(0 .. u - 1)
<1>1. /\ node_n \in Nat /\ new_node_n \in Nat
      /\ w \in [Node -> (0 .. new_node_n - 1) \cup {node_n}]
  BY DEF TypeInv, TypeOK, HostTypeOK
<1>2. \A u \in Node :
        IsFiniteSet(before(u)) /\ Cardinality(before(u)) \in Nat
  <2> SUFFICES ASSUME NEW u \in Node
               PROVE  IsFiniteSet(before(u)) /\ Cardinality(before(u)) \in Nat
    OBVIOUS
  <2>1. u \in Nat /\ before(u) \subseteq 0 .. u - 1
    BY <1>1 DEF Node, Unlabelled
  <2> HIDE DEF before
  <2> QED
    BY <2>1, CountInInterval
<1>3. ASSUME NEW a \in Node, NEW b \in Node, a < b, w[a] = node_n
      PROVE  Cardinality(before(a)) < Cardinality(before(b))
  <2>1. before(a) \subseteq before(b) /\ a \in before(b) /\ a \notin before(a)
    BY <1>1, <1>3 DEF Unlabelled, Node
  <2> HIDE DEF before
  <2> QED
    BY <1>2, <2>1, CountStrict
<1>4. \A u \in Node : FullLabel[u] =
        IF w[u] = node_n THEN new_node_n + Cardinality(before(u)) ELSE w[u]
  BY DEF FullLabel
<1> HIDE DEF before
<1>5. CASE w[x] = node_n /\ w[y] = node_n
  <2>1. Cardinality(before(x)) = Cardinality(before(y))
    BY <1>1, <1>2, <1>4, <1>5
  <2>2. x \in Int /\ y \in Int
    BY DEF Node
  <2>3. x < y \/ y < x
    BY <2>2
  <2> QED
    BY <1>2, <1>3, <1>5, <2>1, <2>3
<1>6. ASSUME NEW a \in Node, NEW b \in Node, w[a] = node_n, w[b] # node_n
      PROVE  FullLabel[a] # FullLabel[b]
  BY <1>1, <1>2, <1>4, <1>6
<1> QED
  BY <1>4, <1>5, <1>6

LEMMA FullLabelOnto ==
  ASSUME TypeInv, LabelsDense, pc = "parallel"
  PROVE  \A c \in 0 .. (new_node_n + Cardinality(Unlabelled(Node))) - 1 :
           \E u \in Node : FullLabel[u] = c
<1> DEFINE all == Unlabelled(Node)
<1>1. /\ node_n \in Nat /\ new_node_n \in Nat
      /\ w \in [Node -> (0 .. new_node_n - 1) \cup {node_n}]
  BY DEF TypeInv, TypeOK, HostTypeOK
<1>2. /\ IsFiniteSet(all) /\ Cardinality(all) \in Nat /\ all \subseteq Nat
  <2>1. all \subseteq 0 .. node_n - 1 /\ 0 .. node_n - 1 \subseteq Nat
    BY <1>1 DEF Unlabelled, Node
  <2> HIDE DEF all
  <2>2. IsFiniteSet(all) /\ Cardinality(all) \in Nat
    BY <1>1, <2>1, CountInInterval
  <2> QED
    BY <2>1, <2>2
<1> SUFFICES ASSUME NEW c \in 0 .. (new_node_n + Cardinality(all)) - 1
             PROVE  \E u \in Node : FullLabel[u] = c
  OBVIOUS
<1>3. CASE c < new_node_n
  <2>1. c \in 0 .. new_node_n - 1
    BY <1>1, <1>2, <1>3
  <2>2. PICK u \in Node : w[u] # node_n /\ w[u] = c
    BY <2>1 DEF LabelsDense
  <2> QED
    BY <2>2 DEF FullLabel
<1>4. CASE ~(c < new_node_n)
  <2>1. c - new_node_n + 1 \in 1 .. Cardinality(all)
    <3> HIDE DEF all
    <3> QED
      BY <1>1, <1>2, <1>4
  <2>2. PICK u \in all : Cardinality({y \in all : y < u}) = c - new_node_n
    <3> HIDE DEF all
    <3>1. PICK u \in all : Cardinality({y \in all : y < u}) = (c - new_node_n + 1) - 1
      BY <1>2, <2>1, Ranks
    <3>2. (c - new_node_n + 1) - 1 = c - new_node_n
      <4>1. c \in Int
        BY <1>2
      <4> QED
        BY <1>1, <4>1
    <3> QED
      BY <3>1, <3>2
  <2>3. {y \in all : y < u} = Unlabelled(0 .. u - 1)
    BY <1>1, <1>2 DEF Unlabelled, Node
  <2>4. u \in Node /\ w[u] = node_n
    BY DEF Unlabelled
  <2>5. FullLabel[u] = new_node_n + Cardinality(Unlabelled(0 .. u - 1))
    BY <2>4 DEF FullLabel
  <2> HIDE DEF all
  <2>6. FullLabel[u] = new_node_n + (c - new_node_n)
    BY <2>2, <2>3, <2>5
  <2> QED
    BY <1>1, <2>4, <2>6
<1> QED
  BY <1>3, <1>4

(* At the barrier the completed labels are labels of the quotient, and     *)
(* stable: nodes of one label are settled.                                 *)
LEMMA FullLabelNodes ==
  ASSUME TypeInv, LabelsDense, pc = "parallel"
  PROVE  /\ new_node_n + Cardinality(Unlabelled(Node)) \in Nat
         /\ 0 .. (new_node_n + Cardinality(Unlabelled(Node))) - 1 \subseteq Node
         /\ FullLabel \in [Node -> Node]
<1> DEFINE total == new_node_n + Cardinality(Unlabelled(Node))
<1>1. /\ total \in Nat /\ node_n \in Nat /\ total <= node_n
      /\ FullLabel \in [Node -> 0 .. total - 1]
  BY FullLabelType, LabelsFit DEF TypeInv, TypeOK, HostTypeOK
<1> HIDE DEF total
<1>2. 0 .. total - 1 \subseteq Node
  BY <1>1 DEF Node
<1>3. FullLabel \in [Node -> Node]
  BY <1>1, <1>2
<1> QED
  BY <1>1, <1>2, <1>3 DEF total

LEMMA FullLabelStable ==
  ASSUME RoundInv, ideal, Barrier, NEW x \in Node, NEW y \in Node,
         FullLabel[x] = FullLabel[y], NEW c \in Node
  PROVE  OutWeight(RoundGraph, x, Block(FullLabel, c)) =
           OutWeight(RoundGraph, y, Block(FullLabel, c))
<1>1. /\ TypeInv /\ LabelsDense /\ SettledInv /\ pc = "parallel"
      /\ \A g \in Gpus : tpc[g] = "idle"
  BY DEF RoundInv, BatchInv, ThreadInv, Barrier
<1>2. FullLabel \in Extending
  <2>1. FullLabel \in [Node -> Node]
    BY <1>1, FullLabelNodes
  <2>2. \A u, v \in Node : w[u] # node_n /\ w[u] = w[v] =>
                             FullLabel[u] = FullLabel[v]
    BY DEF FullLabel
  <2> QED
    BY <2>1, <2>2 DEF Extending
<1>3. CASE x = y
  BY <1>3
<1>4. CASE x # y
  <2>1. w[x] # node_n /\ w[x] = w[y]
    BY <1>1, <1>4, FullLabelJoins
  <2>2. Settled(x, y)
    BY <1>1, <2>1 DEF SettledInv
  <2> QED
    BY <1>2, <2>2 DEF Settled
<1> QED
  BY <1>3, <1>4

(* The quotient of the round's graph sends what the graph sends.           *)
LEMMA CompactSends ==
  ASSUME RoundInv, ideal, Compact
  PROVE  /\ IsGraph(CurrentGraph') /\ Nodes(CurrentGraph') = 0 .. new_node_n' - 1
         /\ FullLabel \in [Node -> Nodes(CurrentGraph')]
         /\ \A d \in Node : SendsThrough(RoundGraph, FullLabel, d,
                                         CurrentGraph', FullLabel[d])
<1> DEFINE q == CurrentGraph'
           f == FullLabel
           n == new_node_n'
<1>1. /\ TypeInv /\ HostTypeOK /\ LabelsDense /\ pc = "parallel"
      /\ IsGraph(RoundGraph) /\ Grouped(RoundGraph) /\ Nodes(RoundGraph) = Node
      /\ w' = f
      /\ n = new_node_n + Cardinality(Unlabelled(Node)) /\ Barrier
  BY DEF RoundInv, BatchInv, ThreadInv, TypeInv, TypeOK,
     QuotientInv, FollowsInput, Compact, Barrier, Nodes, RoundGraph, Node
<1>2. n \in Nat /\ f \in [Node -> 0 .. n - 1] /\ 0 .. n - 1 \subseteq Node
  BY <1>1, FullLabelType, FullLabelNodes
<1>3. PICK source : Quotient(q, RoundGraph, f, n, source)
  BY <1>1, CompactQuotient
<1>4. IsGraph(q) /\ Nodes(q) = 0 .. n - 1
  BY <1>3, QuotientIsGraph, KeptEdges
<1>5. ASSUME NEW d \in Node, NEW c \in 0 .. n - 1
      PROVE  OutWeight(RoundGraph, d, Block(f, c)) = OutWeight(q, f[d], {c})
  <2>1. SendAlike(RoundGraph, f, d, c)
    <3>1. c \in Node
      BY <1>2
    <3> QED
      BY <1>1, <3>1, FullLabelStable DEF SendAlike
  <2>2. d \in Nodes(RoundGraph)
    BY <1>1
  <2> HIDE DEF f, n, q
  <2> QED
    BY <1>1, <1>3, <2>1, <2>2, QuotientWeight
<1> QED
  BY <1>2, <1>4, <1>5 DEF SendsThrough

(* The classes of the input nodes once the labels are completed.           *)
NextClass == [u \in Nodes(graph) |-> FullLabel[cls[u]]]

LEMMA NextClassOnto ==
  ASSUME RoundInv, ideal, Barrier
  PROVE  LET total == new_node_n + Cardinality(Unlabelled(Node))
         IN  /\ NextClass \in [Nodes(graph) -> 0 .. total - 1]
             /\ Range(NextClass) = 0 .. total - 1
<1> DEFINE total == new_node_n + Cardinality(Unlabelled(Node))
<1>1. /\ TypeInv /\ LabelsDense /\ pc = "parallel" /\ FollowsInput(RoundGraph)
  BY DEF RoundInv, BatchInv, ThreadInv, QuotientInv, Barrier
<1>2. cls \in [Nodes(graph) -> Node] /\ Range(cls) = Node
  BY <1>1 DEF FollowsInput, Nodes, RoundGraph, Node
<1>3. FullLabel \in [Node -> 0 .. total - 1]
  BY <1>1, FullLabelType
<1>4. \A c \in 0 .. total - 1 : \E u \in Node : FullLabel[u] = c
  BY <1>1, FullLabelOnto
<1> HIDE DEF total
<1>5. NextClass \in [Nodes(graph) -> 0 .. total - 1]
  BY <1>2, <1>3 DEF NextClass
<1>6. ASSUME NEW c \in 0 .. total - 1
      PROVE  \E u \in Nodes(graph) : NextClass[u] = c
  <2>1. PICK x \in Node : FullLabel[x] = c
    BY <1>4
  <2>2. PICK u \in Nodes(graph) : cls[u] = x
    BY <1>2, <2>1 DEF Range
  <2> QED
    BY <2>1, <2>2 DEF NextClass
<1>7. Range(NextClass) = 0 .. total - 1
  BY <1>5, <1>6 DEF Range
<1> QED
  BY <1>5, <1>7 DEF total

LEMMA NextClassSends ==
  ASSUME RoundInv, ideal, Barrier, NEW u \in Nodes(graph), NEW c
  PROVE  OutWeight(graph, u, Block(NextClass, c)) =
           OutWeight(RoundGraph, cls[u], Block(FullLabel, c))
<1> DEFINE D == Block(FullLabel, c)
           B == Block(NextClass, c)
<1>1. /\ FollowsInput(RoundGraph) /\ IsGraph(graph) /\ IsGraph(RoundGraph)
      /\ Nodes(RoundGraph) = Node /\ DOMAIN FullLabel = Node
  BY DEF RoundInv, BatchInv, ThreadInv, TypeInv, TypeOK, HostTypeOK,
     QuotientInv, Barrier, FollowsInput, Nodes, RoundGraph, Node, FullLabel
<1>2. D \subseteq Nodes(RoundGraph) /\ B \subseteq Nodes(graph)
  BY <1>1 DEF Block, NextClass
<1>3. DOMAIN cls = Nodes(graph) /\ \A x \in Nodes(graph) : cls[x] \in Node
  BY <1>1 DEF FollowsInput
<1>4. \A x \in Nodes(graph) : x \in B <=> cls[x] \in D
  BY <1>1, <1>3 DEF Block, NextClass
<1>5. SendsThrough(graph, cls, u, RoundGraph, cls[u])
  BY <1>1 DEF FollowsInput, SendsThrough
<1> HIDE DEF D, B
<1>6. OutWeight(graph, u, B) = OutWeight(RoundGraph, cls[u], D)
  BY <1>1, <1>2, <1>3, <1>4, <1>5, OutWeightComposed
<1> QED
  BY <1>6 DEF B, D

LEMMA CompactFollows ==
  ASSUME RoundInv, ideal, Compact
  PROVE  /\ IsGraph(CurrentGraph') /\ Grouped(CurrentGraph')
         /\ Nodes(CurrentGraph') = 0 .. new_node_n' - 1
         /\ cls' \in [Nodes(graph) -> Nodes(CurrentGraph')]
         /\ Range(cls') = Nodes(CurrentGraph')
         /\ \A u \in Nodes(graph), c \in Nodes(CurrentGraph') :
              OutWeight(graph, u, Block(cls', c)) =
                OutWeight(CurrentGraph', cls'[u], {c})
         /\ \A d, e \in Edges(CurrentGraph') :
              /\ CurrentGraph'.start[d] = CurrentGraph'.start[e]
              /\ CurrentGraph'.end[d] = CurrentGraph'.end[e]
              => d = e
<1> DEFINE q == CurrentGraph'
           f == FullLabel
           n == new_node_n'
<1>1. /\ TypeInv /\ HostTypeOK /\ LabelsDense /\ pc = "parallel"
      /\ FollowsInput(RoundGraph) /\ IsGraph(graph)
      /\ w' = f /\ cls' = [u \in Nodes(graph) |-> f[cls[u]]]
      /\ n = new_node_n + Cardinality(Unlabelled(Node)) /\ Barrier
  BY DEF RoundInv, BatchInv, ThreadInv, TypeInv, TypeOK, HostTypeOK,
     QuotientInv, Compact, Barrier
<1>2. /\ IsGraph(RoundGraph) /\ Grouped(RoundGraph)
      /\ Nodes(RoundGraph) = Node
      /\ cls \in [Nodes(graph) -> Node] /\ Range(cls) = Node
      /\ \A u \in Nodes(graph), c \in Node :
           OutWeight(graph, u, Block(cls, c)) = OutWeight(RoundGraph, cls[u], {c})
  BY <1>1 DEF FollowsInput, Nodes, RoundGraph, Node
<1>3. n \in Nat /\ node_n \in Nat /\ f \in [Node -> 0 .. n - 1]
  BY <1>1, FullLabelType DEF HostTypeOK
<1>4. PICK source : Quotient(q, RoundGraph, f, n, source)
  BY <1>1, <1>2, CompactQuotient
<1>5. /\ IsGraph(q) /\ Grouped(q) /\ Nodes(q) = 0 .. n - 1
  BY <1>2, <1>4, QuotientIsGraph, QuotientGrouped, KeptEdges
<1>6. cls' \in [Nodes(graph) -> 0 .. n - 1] /\ Range(cls') = 0 .. n - 1
  BY <1>1, NextClassOnto DEF NextClass
<1>7. \A d \in Node, c \in 0 .. n - 1 :
        OutWeight(RoundGraph, d, Block(f, c)) = OutWeight(q, f[d], {c})
  BY <1>5, CompactSends DEF SendsThrough
<1>8. ASSUME NEW u \in Nodes(graph), NEW c \in 0 .. n - 1
      PROVE  OutWeight(graph, u, Block(cls', c)) = OutWeight(q, cls'[u], {c})
  <2>1. cls' = NextClass
    BY <1>1 DEF NextClass
  <2>2. OutWeight(graph, u, Block(cls', c)) =
          OutWeight(RoundGraph, cls[u], Block(f, c))
    BY <1>1, <2>1, NextClassSends
  <2>3. OutWeight(RoundGraph, cls[u], Block(f, c)) = OutWeight(q, f[cls[u]], {c})
    BY <1>2, <1>7
  <2> HIDE DEF f, n, q
  <2> QED
    BY <1>1, <2>2, <2>3
<1>9. \A d, e \in Edges(q) : q.start[d] = q.start[e] /\ q.end[d] = q.end[e]
         => d = e
  <2> HIDE DEF f, n, q
  <2> QED
    BY <1>4, QuotientNoParallel
<1> QED
  BY <1>5, <1>6, <1>8, <1>9

LEMMA CompactRound ==
  ASSUME RoundInv, Compact
  PROVE  QuotientInv' /\ RoundsExact'
<1>1. ideal' = ideal /\ graph' = graph /\ pc' # "parallel"
  BY DEF Compact
<1> SUFFICES ASSUME ideal
             PROVE  FollowsInput(CurrentGraph)' /\ QuotientExact'
  BY <1>1 DEF QuotientInv, RoundsExact
<1>2. /\ IsGraph(CurrentGraph') /\ Grouped(CurrentGraph')
      /\ Nodes(CurrentGraph') = 0 .. new_node_n' - 1
      /\ cls' \in [Nodes(graph) -> Nodes(CurrentGraph')]
      /\ Range(cls') = Nodes(CurrentGraph')
      /\ \A u \in Nodes(graph), c \in Nodes(CurrentGraph') :
           OutWeight(graph, u, Block(cls', c)) =
             OutWeight(CurrentGraph', cls'[u], {c})
      /\ \A d, e \in Edges(CurrentGraph') :
           /\ CurrentGraph'.start[d] = CurrentGraph'.start[e]
           /\ CurrentGraph'.end[d] = CurrentGraph'.end[e]
           => d = e
  BY CompactFollows
<1>3. FollowsInput(CurrentGraph)'
  BY <1>1, <1>2 DEF FollowsInput
<1>4. CurrentGraph'.start = edge_start' /\ CurrentGraph'.end = edge_end'
  BY DEF CurrentGraph
<1>5. QuotientExact'
  BY <1>1, <1>2, <1>4 DEF QuotientExact
<1> QED
  BY <1>3, <1>5

-----------------------------------------------------------------------------
(* RoundInv holds at the start and each step keeps it.                     *)

LEMMA InitRoundInv == Init => RoundInv
<1> SUFFICES ASSUME Init PROVE RoundInv
  OBVIOUS
<1>1. /\ IsGraph(graph) /\ Grouped(graph) /\ pc = "round"
      /\ cls = [u \in Nodes(graph) |-> u]
      /\ edge_n = 0 /\ new_node_n = graph.nodes
      /\ \A g \in Gpus : tpc[g] = "idle"
  BY RbscAssumption, GraphsAssumption DEF Init
<1>2. CurrentGraph = graph
  <2>1. CurrentGraph = [nodes |-> graph.nodes, edges |-> graph.edges,
                        start |-> graph.start, end |-> graph.end,
                        weight |-> graph.weight]
    BY DEF Init, CurrentGraph
  <2> QED
    BY <1>1, <2>1 DEF IsGraph
<1>3. \A c \in Nodes(graph) : Block(cls, c) = {c}
  BY <1>1 DEF Block
<1>4. \A u \in Nodes(graph), c \in Nodes(graph) :
        OutWeight(graph, u, Block(cls, c)) = OutWeight(graph, cls[u], {c})
  BY <1>1, <1>3
<1>5. Range(cls) = Nodes(graph) /\ Nodes(graph) = 0 .. new_node_n - 1
  BY <1>1 DEF Range, Nodes
<1>6. cls \in [Nodes(graph) -> Nodes(graph)]
  BY <1>1
<1>7. QuotientInv
  BY <1>1, <1>2, <1>4, <1>5, <1>6 DEF QuotientInv, FollowsInput
<1>8. RoundsExact
  <2>1. ~(edge_n > 0)
    BY <1>1
  <2>2. IsGraph(CurrentGraph) /\ Grouped(CurrentGraph)
    BY <1>1, <1>2
  <2>3. \A u \in Nodes(graph), c \in Range(cls) :
          OutWeight(graph, u, Block(cls, c)) =
            OutWeight(CurrentGraph, cls[u], {c})
    BY <1>2, <1>4, <1>5
  <2> QED
    BY <1>5, <2>1, <2>2, <2>3 DEF RoundsExact, QuotientExact
<1>9. \A g \in Gpus : WithinMask(g) /\ CountInv(g) /\ StableInv(g) /\ ClassInv(g)
  BY <1>1 DEF WithinMask, CountInv, StableInv, ClassInv
<1>10. SettledInv
  BY <1>1 DEF SettledInv
<1> QED
  BY <1>7, <1>8, <1>9, <1>10, InitBatchInv, InitGraphInv DEF RoundInv

LEMMA MainRoundInv ==
  ASSUME RoundInv, MainThread
  PROVE  RoundInv'
<1>1. BatchInv /\ GraphInv /\ ThreadInv /\ TypeInv /\ QuietOutside
  BY DEF RoundInv, BatchInv, ThreadInv, TypeInv
<1>2. BatchInv' /\ GraphInv'
  <2>1. [Next]_vars
    BY DEF Next
  <2> QED
    BY <1>1, <2>1, MainBatchInv, NextGraphInv
<1>3. \A g \in Gpus : tpc'[g] \in {"idle", "undefined"}
  BY <1>1 DEF MainThread, BeginRound, Compact, CompactUndefined,
     LeaveLoop, PrintResult, Barrier, QuietOutside, threadvars
<1>4. \A g \in Gpus :
        WithinMask(g)' /\ CountInv(g)' /\ StableInv(g)' /\ ClassInv(g)'
  BY <1>3 DEF WithinMask, CountInv, StableInv, ClassInv
<1>5. SettledInv' /\ QuotientInv' /\ RoundsExact'
  <2>1. CASE BeginRound
    <3>1. /\ RoundGraph' = CurrentGraph /\ pc = "round" /\ pc' = "parallel"
          /\ UNCHANGED <<ideal, graph, cls>>
          /\ w' = [u \in Node' |-> node_n']
      BY <2>1 DEF BeginRound, RoundGraph, CurrentGraph, Node
    <3>2. SettledInv'
      BY <3>1 DEF SettledInv
    <3>3. QuotientInv'
      BY <3>1 DEF RoundInv, QuotientInv, FollowsInput
    <3>4. RoundsExact'
      BY <3>1 DEF RoundsExact, QuotientExact
    <3> QED
      BY <3>2, <3>3, <3>4
  <2>2. CASE Compact
    <3>1. pc' # "parallel"
      BY <2>2 DEF Compact
    <3> QED
      BY <2>2, <3>1, CompactRound DEF SettledInv
  <2>3. CASE CompactUndefined \/ LeaveLoop \/ PrintResult
    <3>1. pc' \in {"undefined", "print", "done"}
      BY <2>3 DEF CompactUndefined, LeaveLoop, PrintResult
    <3> QED
      BY <3>1 DEF SettledInv, QuotientInv, RoundsExact, QuotientExact
  <2> QED
    BY <2>1, <2>2, <2>3 DEF MainThread
<1> QED
  BY <1>2, <1>4, <1>5 DEF RoundInv

(* What a thread's own step does to its classes.                           *)
LEMMA OwnClasses ==
  ASSUME RoundInv, TypeInv', NEW g \in Gpus, Thread(g)
  PROVE  WithinMask(g)' /\ CountInv(g)' /\ StableInv(g)' /\ ClassInv(g)'
<1>1. /\ BatchInv /\ ThreadInv /\ TypeInv /\ TypeOK /\ PrivateDomains /\ OwnInv(g)
      /\ WithinMask(g) /\ CountInv(g) /\ StableInv(g) /\ ClassInv(g)
      /\ ~TrimUndefined(g)
  BY NeverUndefined DEF RoundInv, BatchInv, ThreadInv, TypeInv, TypeOK
<1>2. UNCHANGED <<RoundGraph, Node, node_n, ideal>>
  BY <1>1, ThreadStep, GraphFrame
<1>3. CASE TakeBatch(g) \/ ScanEdge(g) \/ CloseScan(g) \/ SkipBatch(g) \/ EndBatch(g)
  <2>1. tpc'[g] \in {"scan", "trim", "idle"}
    BY <1>1, <1>3 DEF TakeBatch, ScanEdge, CloseScan, SkipBatch, EndBatch, TypeOK
  <2> QED
    BY <2>1 DEF WithinMask, CountInv, StableInv, ClassInv
<1>4. CASE TrimBatch(g)
  <2>1. tpc'[g] = "init"
    BY <1>1, <1>4 DEF TrimBatch, TypeOK
  <2>2. off_batch_node_n' = Cardinality({u \in Node : batch_mask'[g][u] = OFF_BATCH})
    BY <1>1, <1>4 DEF TrimBatch, PrivateDomains
  <2> QED
    BY <1>2, <2>1, <2>2
    DEF WithinMask, CountInv, StableInv, ClassInv, OffNodes
<1>5. CASE InitPartition(g)
  <2>1. tpc'[g] = "refine"
    BY <1>1, <1>5 DEF InitPartition, TypeOK
  <2> QED
    BY <1>1, <1>5, <2>1, InitPartitionClasses DEF StableInv, ClassInv
<1>6. CASE Refine(g)
  <2>1. WithinMask(g)' /\ CountInv(g)'
    BY <1>1, <1>6, RefineClasses
  <2>2. StableInv(g)'
    BY <1>1, <1>6, <2>1, RefineStable
  <2>3. tpc'[g] = "merge" => i'[g] = 0 /\ label_map'[g] = [c \in Node |-> node_n]
    <3>1. tpc[g] = "refine"
      BY <1>6 DEF Refine
    <3> QED
      BY <1>1, <1>6, <3>1 DEF Refine, PrivateDomains
  <2>4. ClassInv(g)'
    <3> SUFFICES ASSUME tpc'[g] = "merge" PROVE ClassInv(g)'
      BY DEF ClassInv
    <3>1. \A u \in Node : ~(u < 0)
      BY <1>1 DEF Node, TypeOK, HostTypeOK
    <3> QED
      BY <1>2, <2>3, <3>1 DEF ClassInv
  <2> QED
    BY <2>1, <2>2, <2>4
<1>7. CASE MergeNode(g)
  <2>1. UNCHANGED <<tpc, batch_mask, partition>> /\ tpc[g] = "merge"
    BY <1>7 DEF MergeNode
  <2>2. WithinMask(g)' /\ CountInv(g)' /\ StableInv(g)'
    BY <1>1, <1>2, <2>1 DEF WithinMask, CountInv, StableInv, RespectsMask
  <2> QED
    BY <1>1, <1>7, <2>2, MergeNodeClasses
<1> QED
  BY <1>1, <1>3, <1>4, <1>5, <1>6, <1>7 DEF Thread

(* And to those of another.                                                *)
LEMMA OtherClasses ==
  ASSUME RoundInv, NEW g \in Gpus, Thread(g), NEW h \in Gpus \ {g}
  PROVE  WithinMask(h)' /\ CountInv(h)' /\ StableInv(h)' /\ ClassInv(h)'
<1>1. /\ BatchInv /\ ThreadInv /\ TypeInv /\ OneTrims
      /\ WithinMask(h) /\ CountInv(h) /\ StableInv(h) /\ ClassInv(h)
      /\ ~TrimUndefined(g)
  BY NeverUndefined DEF RoundInv, BatchInv, ThreadInv
<1>2. /\ UNCHANGED <<RoundGraph, Node, node_n, ideal>>
      /\ PrivateUnchanged(h) /\ z_unique_n'[h] = z_unique_n[h]
  BY <1>1, ThreadStep, GraphFrame
<1>3. WithinMask(h)' /\ StableInv(h)'
  BY <1>1, <1>2 DEF WithinMask, StableInv, RespectsMask, PrivateUnchanged
<1>4. CountInv(h)'
  <2>1. tpc[h] = "init" => off_batch_node_n' = off_batch_node_n
    <3>1. CASE TrimBatch(g)
      BY <1>1, <3>1 DEF TrimBatch, OneTrims
    <3>2. CASE ~TrimBatch(g)
      BY <1>1, <3>2 DEF Thread, TakeBatch, ScanEdge, CloseScan, SkipBatch,
         InitPartition, Refine, MergeNode, EndBatch, sharedvars
    <3> QED
      BY <3>1, <3>2
  <2> QED
    BY <1>1, <1>2, <2>1 DEF CountInv, OffNodes, PrivateUnchanged
<1>5. ClassInv(h)'
  <2>1. CASE MergeNode(g)
    BY <1>1, <2>1, OtherMergeClasses
  <2>2. CASE ~MergeNode(g)
    <3>1. w' = w
      BY <1>1, <2>2 DEF Thread, TakeBatch, ScanEdge, CloseScan, SkipBatch,
         TrimBatch, InitPartition, Refine, EndBatch
    <3> QED
      BY <1>1, <1>2, <3>1 DEF ClassInv, PrivateUnchanged
  <2> QED
    BY <2>1, <2>2
<1> QED
  BY <1>3, <1>4, <1>5

LEMMA ThreadRoundInv ==
  ASSUME Exclusive, RoundInv, NEW g \in Gpus, Thread(g)
  PROVE  RoundInv'
<1>1. /\ BatchInv /\ GraphInv /\ ThreadInv /\ TypeInv /\ ~TrimUndefined(g)
  BY NeverUndefined DEF RoundInv, BatchInv, ThreadInv
<1>2. BatchInv' /\ GraphInv' /\ TypeInv'
  <2>1. [Next]_vars
    BY DEF Next
  <2> QED
    BY <1>1, <2>1, NextBatchInv, NextGraphInv, NextTypeInv
<1>3. WithinMask(g)' /\ CountInv(g)' /\ StableInv(g)' /\ ClassInv(g)'
  BY <1>2, OwnClasses
<1>4. \A h \in Gpus :
        WithinMask(h)' /\ CountInv(h)' /\ StableInv(h)' /\ ClassInv(h)'
  BY <1>3, OtherClasses
<1>5. SettledInv'
  BY <1>3, ThreadSettled
<1>6. /\ UNCHANGED <<RoundGraph, pc, ideal, graph, cls>> /\ pc = "parallel"
  BY <1>1, ThreadStep, GraphFrame
<1>7. QuotientInv' /\ RoundsExact'
  BY <1>6 DEF RoundInv, QuotientInv, FollowsInput, RoundsExact, QuotientExact
<1> QED
  BY <1>2, <1>4, <1>5, <1>7 DEF RoundInv

LEMMA StutterRoundInv ==
  ASSUME Exclusive, RoundInv, UNCHANGED vars
  PROVE  RoundInv'
<1>1. /\ UNCHANGED <<RoundGraph, Node, node_n, ideal, pc, graph, cls>>
      /\ UNCHANGED <<w, off_batch_node_n>>
      /\ UNCHANGED <<tpc, i, z_unique_n, batch_mask, partition, label_map>>
  BY GraphFrame DEF vars, threadvars, sharedvars, hostvars
<1>2. BatchInv' /\ GraphInv'
  <2>1. [Next]_vars
    OBVIOUS
  <2> QED
    BY <2>1, NextBatchInv, NextGraphInv DEF RoundInv, BatchInv
<1>3. \A g \in Gpus :
        WithinMask(g)' /\ CountInv(g)' /\ StableInv(g)' /\ ClassInv(g)'
  <2> SUFFICES ASSUME NEW g \in Gpus
               PROVE  WithinMask(g)' /\ CountInv(g)' /\ StableInv(g)' /\ ClassInv(g)'
    OBVIOUS
  <2>1. WithinMask(g) /\ CountInv(g) /\ StableInv(g) /\ ClassInv(g)
    BY DEF RoundInv
  <2>2. WithinMask(g)' /\ StableInv(g)'
    BY <1>1, <2>1 DEF WithinMask, StableInv, RespectsMask
  <2>3. CountInv(g)'
    BY <1>1, <2>1 DEF CountInv, OffNodes
  <2>4. ClassInv(g)'
    BY <1>1, <2>1 DEF ClassInv
  <2> QED
    BY <2>2, <2>3, <2>4
<1>4. SettledInv'
  BY <1>1 DEF RoundInv, SettledInv, Settled, Extending
<1>5. CurrentGraph' = CurrentGraph /\ new_node_n' = new_node_n
      /\ UNCHANGED <<edge_n, edge_start, edge_end>>
  BY DEF vars, hostvars, CurrentGraph
<1>6. QuotientInv' /\ RoundsExact'
  BY <1>1, <1>5 DEF RoundInv, QuotientInv, FollowsInput, RoundsExact,
     QuotientExact
<1> QED
  BY <1>2, <1>3, <1>4, <1>6 DEF RoundInv

LEMMA RoundInvariance ==
  ASSUME Exclusive
  PROVE  Spec => []RoundInv
<1>1. RoundInv /\ [Next]_vars => RoundInv'
  BY MainRoundInv, ThreadRoundInv, StutterRoundInv DEF Next, Stopped
<1> QED
  BY <1>1, InitRoundInv, PTL DEF Spec

(* With hashes that tell signatures apart and one thread trimming at a     *)
(* time, the arrays a round starts from are the quotient of the input:     *)
(* every input node sends to each class what its class does, in one edge   *)
(* for each pair of classes (rbsc.cu:451-486).                             *)
THEOREM RoundsAreExact ==
  ASSUME Exclusive
  PROVE  Spec => []RoundsExact
<1>1. RoundInv => RoundsExact
  BY DEF RoundInv
<1> QED
  BY <1>1, RoundInvariance, PTL

-----------------------------------------------------------------------------
(* The rounds implement Lumping.  A round of a single batch ends with the  *)
(* coarsest partition: the batch is the whole graph, so no node is left    *)
(* out of it.  This needs that a node with edges sends something, since    *)
(* the batch keeps nodes with and without edges apart.                     *)

AllSend(g) ==
  /\ g.edges > 0
  /\ \A e \in Edges(g) : OutWeight(g, g.start[e], Nodes(g)) # 0
Sending == \A g \in Graphs : AllSend(g)

SendInv ==
  ideal =>
    /\ pc = "round" => AllSend(CurrentGraph)
    /\ pc = "parallel" => AllSend(RoundGraph)

(* A single batch is all of the edge list.                                 *)
WholeInv(g) ==
  ideal /\ batches = 1 =>
    /\ tpc[g] = "scan" /\ i[g] # 0 => new_batch_start = 0
    /\ tpc[g] = "trim" => new_batch_start = 0 /\ new_batch_end = edge_n
    /\ tpc[g] \in Busy => \A u \in Node : batch_mask[g][u] # OFF_BATCH
    /\ tpc[g] \in {"init", "refine", "merge"} =>
         \A u \in Node : batch_mask[g][u] = IN_BATCH =>
           \E e \in Edge : edge_start[e] = u

(* All nodes have the label of the coarsest partition.                     *)
AllLabelled ==
  /\ \A u \in Node : w[u] # node_n
  /\ \A q \in [Node -> Node] : StablePartition(RoundGraph, Blocks(q)) =>
       \A u, v \in Node : q[u] = q[v] => w[u] = w[v]

(* The batch is still to be taken, or at work, or has labelled all nodes.  *)
SingleInv ==
  ideal /\ batches = 1 /\ pc = "parallel" =>
    \/ 0 \in todo
    \/ \E g \in Gpus : tpc[g] \in Busy
    \/ AllLabelled

(* What is about to be printed.                                            *)
PrintInv ==
  /\ pc # "done" => result = NoResult
  /\ ideal /\ pc = "print" =>
       /\ cls \in [Nodes(graph) -> 0 .. new_node_n - 1]
       /\ Range(cls) = 0 .. new_node_n - 1
       /\ StablePartition(graph, Blocks(cls))
       /\ batches = 1 => Coarsest(graph, Blocks(cls))

ReduceInv ==
  /\ RoundInv
  /\ UnsplitInv
  /\ SendInv
  /\ \A g \in Gpus : WholeInv(g)
  /\ SingleInv
  /\ PrintInv

-----------------------------------------------------------------------------
(* Sources send something in every round.                                  *)

LEMMA QuotientSends ==
  ASSUME RoundInv, ideal, AllSend(RoundGraph), Compact
  PROVE  AllSend(CurrentGraph')
<1> DEFINE q == CurrentGraph'
           f == FullLabel
<1>1. /\ IsGraph(q) /\ IsGraph(RoundGraph) /\ Nodes(RoundGraph) = Node
      /\ f \in [Node -> Nodes(q)] /\ w' = f
      /\ \A d \in Node : SendsThrough(RoundGraph, f, d, q, f[d])
  BY CompactSends
  DEF RoundInv, GraphInv, Compact, Barrier, Nodes, RoundGraph, Node
<1>2. PICK source : Quotient(q, RoundGraph, f, new_node_n', source)
  BY <1>1, CompactQuotient DEF RoundInv, BatchInv, ThreadInv
<1>3. q.edges > 0
  <2>1. 0 \in Kept(RoundGraph, f)
    <3>1. RoundGraph.edges \in Nat /\ RoundGraph.edges > 0
      BY <1>1 DEF AllSend, IsGraph
    <3> QED
      BY <3>1 DEF Kept, Edges, Representative
  <2>2. \E k \in Edges(q) : source[k] = 0
    <3> HIDE DEF f, q
    <3> QED
      BY <1>2, <2>1, EveryKept
  <2>3. q.edges \in Nat
    BY <1>1 DEF IsGraph
  <2> QED
    BY <2>2, <2>3 DEF Edges
<1>4. ASSUME NEW d \in Node
      PROVE  OutWeight(q, f[d], Nodes(q)) = OutWeight(RoundGraph, d, Node)
  <2>1. \A x \in Node : x \in Node <=> f[x] \in Nodes(q)
    BY <1>1
  <2>2. SendsThrough(RoundGraph, f, d, q, f[d])
    BY <1>1
  <2>3. DOMAIN f = Nodes(RoundGraph)
    BY <1>1
  <2> HIDE DEF f, q
  <2> QED
    BY <1>1, <2>1, <2>2, <2>3, OutWeightComposed
<1>5. ASSUME NEW k \in Edges(q)
      PROVE  OutWeight(q, q.start[k], Nodes(q)) # 0
  <2>1. /\ q.start[k] = f[RoundGraph.start[source[k]]]
        /\ source[k] \in Edges(RoundGraph)
    <3> HIDE DEF f, q
    <3> QED
      BY <1>2, KeptEdges
  <2>2. RoundGraph.start[source[k]] \in Node
    BY <1>1, <2>1 DEF IsGraph
  <2> QED
    BY <1>1, <1>4, <2>1, <2>2 DEF AllSend
<1> QED
  BY <1>3, <1>5 DEF AllSend

LEMMA InitSendInv == ASSUME Sending, Init PROVE SendInv
<1>1. AllSend(graph) /\ IsGraph(graph) /\ pc = "round"
  BY RbscAssumption, GraphsAssumption DEF Init, Sending
<1>2. CurrentGraph = [nodes |-> graph.nodes, edges |-> graph.edges,
                      start |-> graph.start, end |-> graph.end,
                      weight |-> graph.weight]
  BY DEF Init, CurrentGraph
<1>3. CurrentGraph = graph
  BY <1>1, <1>2 DEF IsGraph
<1> QED
  BY <1>1, <1>3 DEF SendInv

LEMMA NextSendInv ==
  ASSUME RoundInv, SendInv, [Next]_vars
  PROVE  SendInv'
<1>1. TypeInv
  BY DEF RoundInv, BatchInv, ThreadInv
<1>2. CASE BeginRound
  <2>1. /\ RoundGraph' = CurrentGraph /\ pc = "round" /\ pc' = "parallel"
        /\ ideal' = ideal
    BY <1>2 DEF BeginRound, RoundGraph, CurrentGraph
  <2> QED
    BY <2>1 DEF SendInv
<1>3. CASE Compact
  <2>1. pc = "parallel" /\ pc' \in {"round", "print"} /\ ideal' = ideal
    BY <1>3 DEF Compact, Barrier
  <2>2. ideal => AllSend(CurrentGraph')
    BY <1>3, <2>1, QuotientSends DEF SendInv
  <2> QED
    BY <2>1, <2>2 DEF SendInv
<1>4. CASE CompactUndefined \/ LeaveLoop \/ PrintResult
  <2>1. pc' \in {"undefined", "print", "done"}
    BY <1>4 DEF CompactUndefined, LeaveLoop, PrintResult
  <2> QED
    BY <2>1 DEF SendInv
<1>5. ASSUME NEW g \in Gpus, Thread(g) PROVE SendInv'
  <2>1. CASE TrimUndefined(g)
    BY <2>1 DEF TrimUndefined, SendInv
  <2>2. CASE ~TrimUndefined(g)
    <3>1. UNCHANGED hostvars /\ pc = "parallel"
      BY <1>1, <1>5, <2>2, ThreadStep
    <3> QED
      BY <3>1, GraphFrame DEF SendInv
  <2> QED
    BY <2>1, <2>2
<1>6. CASE UNCHANGED vars
  BY <1>6 DEF vars, hostvars, SendInv, RoundGraph, CurrentGraph
<1> QED
  BY <1>2, <1>3, <1>4, <1>5, <1>6 DEF Next, MainThread, Stopped

-----------------------------------------------------------------------------
(* A round of a single batch.                                              *)

LEMMA SingleBatch ==
  ASSUME BatchInv, SendInv, ideal, batches = 1, pc = "parallel"
  PROVE  /\ edge_n \in Nat \ {0} /\ RangeStart(0) = 0 /\ RangeEnd(0) = edge_n
         /\ todo \subseteq {0}
         /\ \A g \in Gpus : tpc[g] \in Busy =>
              batch[g] = 0 /\ todo = {} /\ \A h \in Gpus : tpc[h] \in Busy => h = g
<1>1. /\ TypeInv /\ TypeOK /\ HostTypeOK /\ OneBatchEach
      /\ \A g \in Gpus : ThreadTypeOK(g)
  BY DEF BatchInv, ThreadInv, TypeInv, TypeOK
<1>2. edge_n \in Nat \ {0}
  <2>1. AllSend(RoundGraph)
    BY DEF SendInv
  <2> QED
    BY <1>1, <2>1 DEF AllSend, RoundGraph, HostTypeOK
<1>3. max_batch_edge_n \in Nat \ {0} /\ edge_n <= max_batch_edge_n
  <2>1. max_batch_edge_n \in Nat \ {0}
    BY RbscAssumption
  <2>2. edge_n <= CeilDiv(edge_n, max_batch_edge_n) * max_batch_edge_n
    BY <1>2, <2>1, CeilDivNat
  <2>3. CeilDiv(edge_n, max_batch_edge_n) = 1
    BY <1>1 DEF TypeInv, EnoughBatches
  <2> QED
    BY <2>1, <2>2, <2>3
<1>4. RangeStart(0) = 0 /\ RangeEnd(0) = edge_n
  BY <1>2, <1>3 DEF RangeStart, RangeEnd, Lesser
<1>5. todo \subseteq {0}
  BY <1>1 DEF HostTypeOK
<1>6. \A g \in Gpus : tpc[g] \in Busy => batch[g] = 0 /\ 0 \notin todo
  BY <1>1 DEF ThreadTypeOK, Busy
<1> QED
  BY <1>1, <1>2, <1>4, <1>5, <1>6 DEF OneBatchEach

LEMMA OwnWholeInv ==
  ASSUME BatchInv, SendInv, NEW g \in Gpus, WholeInv(g), Thread(g)
  PROVE  WholeInv(g)'
<1>1. /\ TypeInv /\ TypeOK /\ PrivateDomains /\ HostTypeOK /\ ThreadTypeOK(g)
      /\ ScanInv(g) /\ OwnInv(g) /\ ~TrimUndefined(g)
  BY NeverUndefined DEF BatchInv, ThreadInv, TypeInv, TypeOK
<1>2. /\ UNCHANGED <<Node, Edge, ideal, batches, edge_n, edge_start, pc>>
      /\ pc = "parallel"
  BY <1>1, ThreadStep, GraphFrame DEF hostvars
<1> SUFFICES ASSUME ideal, batches = 1
             PROVE  /\ tpc'[g] = "scan" /\ i'[g] # 0 => new_batch_start' = 0
                    /\ tpc'[g] = "trim" =>
                         new_batch_start' = 0 /\ new_batch_end' = edge_n
                    /\ tpc'[g] \in Busy =>
                         \A u \in Node : batch_mask'[g][u] # OFF_BATCH
                    /\ tpc'[g] \in {"init", "refine", "merge"} =>
                         \A u \in Node : batch_mask'[g][u] = IN_BATCH =>
                           \E e \in Edge : edge_start[e] = u
  BY <1>2 DEF WholeInv
<1>3. /\ edge_n \in Nat \ {0} /\ RangeStart(0) = 0 /\ RangeEnd(0) = edge_n
      /\ todo \subseteq {0} /\ (tpc[g] \in Busy => batch[g] = 0)
  BY <1>2, SingleBatch
<1>4. CASE TakeBatch(g)
  <2>1. /\ tpc'[g] = "scan" /\ i'[g] = RangeStart(0)
        /\ batch_mask'[g] = [u \in Node |-> InitialMask(0)]
    BY <1>1, <1>3, <1>4 DEF TakeBatch, TypeOK, PrivateDomains
  <2> QED
    BY <1>3, <2>1 DEF InitialMask, DANGLING, OFF_BATCH
<1>5. CASE ScanEdge(g)
  <2>1. /\ tpc[g] = "scan" /\ tpc'[g] = "scan" /\ batch[g] = 0
        /\ i[g] \in 0 .. edge_n /\ i[g] < edge_n
        /\ new_batch_start' = IF FirstEdge(i[g]) /\ new_batch_start = NOT_INIT
                              THEN i[g] ELSE new_batch_start
        /\ batch_mask'[g] = [batch_mask[g] EXCEPT ![edge_start[i[g]]] = IN_BATCH]
    BY <1>1, <1>3, <1>5 DEF ScanEdge, ScanInv, Busy, TypeOK, PrivateDomains
  <2>2. new_batch_start' = 0
    <3>1. CASE i[g] = 0
      BY <1>1, <1>3, <2>1, <3>1 DEF ScanInv, FirstEdge, ThreadTypeOK
    <3>2. CASE i[g] # 0
      BY <2>1, <3>2 DEF WholeInv, NOT_INIT
    <3> QED
      BY <3>1, <3>2
  <2>3. \A u \in Node : batch_mask'[g][u] # OFF_BATCH
    <3>1. batch_mask[g] \in [Node -> {OFF_BATCH, IN_BATCH, DANGLING}]
      BY <1>1, <2>1 DEF ThreadTypeOK
    <3>2. \A u \in Node : batch_mask[g][u] # OFF_BATCH
      BY <2>1 DEF WholeInv, Busy
    <3> QED
      BY <2>1, <3>1, <3>2 DEF OFF_BATCH, IN_BATCH
  <2> QED
    BY <2>1, <2>2, <2>3
<1>6. CASE CloseScan(g)
  <2>1. /\ tpc[g] = "scan" /\ tpc'[g] = "trim" /\ batch[g] = 0
        /\ i[g] = edge_n /\ new_batch_end' = edge_n
        /\ UNCHANGED <<new_batch_start, batch_mask>>
    BY <1>1, <1>3, <1>6 DEF CloseScan, Busy, TypeOK
  <2> QED
    BY <1>3, <2>1 DEF WholeInv, Busy
<1>7. CASE SkipBatch(g)
  BY <1>1, <1>7 DEF SkipBatch, TypeOK, Busy
<1>8. CASE TrimBatch(g)
  <2>1. /\ tpc[g] = "trim" /\ tpc'[g] = "init"
        /\ batch_mask'[g] = [u \in Node |->
             IF u \in Outside(new_batch_start, new_batch_end)
             THEN OFF_BATCH ELSE batch_mask[g][u]]
    BY <1>1, <1>8 DEF TrimBatch, TypeOK, PrivateDomains
  <2>2. new_batch_start = 0 /\ new_batch_end = edge_n
    BY <2>1 DEF WholeInv
  <2>3. Outside(new_batch_start, new_batch_end) = {}
    BY <2>2 DEF Outside, Edge
  <2>4. \A u \in Node : batch_mask[g][u] = IN_BATCH =>
                          \E e \in Edge : edge_start[e] = u
    BY <1>1, <2>1 DEF ScanInv
  <2> QED
    BY <2>1, <2>3, <2>4 DEF WholeInv, Busy
<1>9. CASE InitPartition(g) \/ Refine(g) \/ MergeNode(g)
  <2>1. /\ tpc[g] \in {"init", "refine", "merge"} /\ UNCHANGED batch_mask
        /\ tpc'[g] \in {"refine", "merge"}
    BY <1>1, <1>9 DEF InitPartition, Refine, MergeNode, TypeOK
  <2> QED
    BY <2>1 DEF WholeInv, Busy
<1>10. CASE EndBatch(g)
  BY <1>1, <1>10 DEF EndBatch, TypeOK, Busy
<1> QED
  BY <1>1, <1>4, <1>5, <1>6, <1>7, <1>8, <1>9, <1>10 DEF Thread

LEMMA ThreadWholeInv ==
  ASSUME BatchInv, SendInv, \A h \in Gpus : WholeInv(h),
         NEW g \in Gpus, Thread(g)
  PROVE  \A h \in Gpus : WholeInv(h)'
<1>1. WholeInv(g)'
  BY OwnWholeInv
<1>2. ASSUME NEW h \in Gpus \ {g} PROVE WholeInv(h)'
  <2>1. /\ UNCHANGED <<ideal, batches>> /\ pc = "parallel"
        /\ tpc[g] \in Busy \cup {"idle"} /\ tpc'[h] = tpc[h]
    BY ThreadStep, NeverUndefined
    DEF BatchInv, ThreadInv, hostvars, PrivateUnchanged
  <2>2. CASE ideal /\ batches = 1 /\ tpc[h] \in Busy
    <3>1. todo = {} /\ tpc[g] \notin Busy
      BY <2>1, <2>2, SingleBatch
    <3>2. TakeBatch(g)
      BY <3>1, NeverUndefined
      DEF Thread, ScanEdge, CloseScan, SkipBatch, TrimBatch,
          InitPartition, Refine, MergeNode, EndBatch, Busy
    <3> QED
      BY <3>1, <3>2 DEF TakeBatch
  <2>3. CASE ~(ideal /\ batches = 1 /\ tpc[h] \in Busy)
    BY <2>1, <2>3 DEF WholeInv, Busy
  <2> QED
    BY <2>2, <2>3
<1> QED
  BY <1>1, <1>2

(* A node that sends something has an edge.                                *)
LEMMA SendersAlike ==
  ASSUME IsGraph(RoundGraph), AllSend(RoundGraph),
         NEW q \in [Node -> Node], StablePartition(RoundGraph, Blocks(q)),
         NEW u \in Node, NEW v \in Node, q[u] = q[v],
         \E e \in Edge : edge_start[e] = u
  PROVE  \E e \in Edge : edge_start[e] = v
<1>1. /\ Nodes(RoundGraph) = Node /\ Edges(RoundGraph) = Edge
      /\ RoundGraph.start = edge_start
  BY DEF Nodes, Edges, Node, Edge, RoundGraph
<1>2. OutWeight(RoundGraph, u, Node) # 0
  BY <1>1 DEF AllSend
<1>3. OutWeight(RoundGraph, v, Node) # 0
  <2>1. DOMAIN q = Nodes(RoundGraph) /\ u \in Nodes(RoundGraph)
        /\ v \in Nodes(RoundGraph)
    BY <1>1
  <2> QED
    BY <1>1, <1>2, <2>1, StableTotals
<1>4. EdgesTo(RoundGraph, v, Node) # {}
  BY <1>3, OutWeightNone
<1> QED
  BY <1>1, <1>4 DEF EdgesTo, Edges

(* What the thread of a single batch has labelled when it ends.            *)
LEMMA EndBatchLabels ==
  ASSUME RoundInv, UnsplitInv, SendInv, NEW g \in Gpus, WholeInv(g),
         EndBatch(g), ideal, batches = 1
  PROVE  AllLabelled
<1>1. /\ TypeInv /\ TypeOK /\ ThreadTypeOK(g) /\ HostTypeOK
      /\ tpc[g] = "merge" /\ i[g] = node_n
      /\ ClassInv(g) /\ Unsplit(g) /\ OwnInv(g)
  BY DEF RoundInv, UnsplitInv, BatchInv, ThreadInv, TypeInv, TypeOK, EndBatch
<1>2. /\ pc = "parallel" /\ IsGraph(RoundGraph) /\ AllSend(RoundGraph)
  BY <1>1, BusyIsParallel DEF Busy, RoundInv, GraphInv, SendInv
<1>3. \A u \in Node : u < node_n
  BY <1>1 DEF Node, HostTypeOK
<1>4. \A u \in Node : batch_mask[g][u] # OFF_BATCH
  BY <1>1 DEF WholeInv, Busy
<1>5. \A u \in Node : w[u] # node_n /\ w[u] = label_map[g][partition[g][u]]
  BY <1>1, <1>3, <1>4 DEF ClassInv
<1>6. ASSUME NEW q \in [Node -> Node], StablePartition(RoundGraph, Blocks(q))
      PROVE  RespectsMask(g, q)
  <2> SUFFICES ASSUME NEW u \in Node, NEW v \in Node, q[u] = q[v]
               PROVE  batch_mask[g][u] = batch_mask[g][v]
    BY <1>4 DEF RespectsMask
  <2>1. \A x \in Node : batch_mask[g][x] \in {IN_BATCH, DANGLING}
    BY <1>1, <1>4 DEF ThreadTypeOK
  <2>2. \A x \in Node : batch_mask[g][x] = IN_BATCH <=>
                          \E e \in Edge : edge_start[e] = x
    BY <1>1, <1>4, <2>1 DEF WholeInv, OwnInv, IN_BATCH, DANGLING
  <2>3. (\E e \in Edge : edge_start[e] = u) <=> (\E e \in Edge : edge_start[e] = v)
    BY <1>2, <1>6, SendersAlike
  <2> QED
    BY <2>1, <2>2, <2>3
<1>7. ASSUME NEW q \in [Node -> Node], StablePartition(RoundGraph, Blocks(q)),
             NEW u \in Node, NEW v \in Node, q[u] = q[v]
      PROVE  w[u] = w[v]
  BY <1>1, <1>5, <1>6, <1>7 DEF Unsplit
<1> QED
  BY <1>5, <1>7 DEF AllLabelled

LEMMA ThreadSingleInv ==
  ASSUME RoundInv, UnsplitInv, SendInv, SingleInv,
         \A g \in Gpus : WholeInv(g), NEW g \in Gpus, Thread(g)
  PROVE  SingleInv'
<1>1. /\ BatchInv /\ TypeInv /\ TypeOK /\ ~TrimUndefined(g)
  BY NeverUndefined DEF RoundInv, BatchInv, ThreadInv, TypeInv
<1>2. /\ UNCHANGED <<RoundGraph, Node, node_n, ideal, batches, pc>>
      /\ pc = "parallel"
  BY <1>1, ThreadStep, GraphFrame DEF hostvars
<1> SUFFICES ASSUME ideal, batches = 1
             PROVE  \/ \E h \in Gpus : tpc'[h] \in Busy
                    \/ AllLabelled'
  BY <1>2 DEF SingleInv
<1>3. CASE \/ TakeBatch(g) \/ ScanEdge(g) \/ CloseScan(g) \/ TrimBatch(g)
           \/ InitPartition(g) \/ Refine(g) \/ MergeNode(g)
  <2>1. tpc'[g] \in {"scan", "trim", "init", "refine", "merge"}
    BY <1>1, <1>3 DEF TypeOK, TakeBatch, ScanEdge, CloseScan, TrimBatch,
       InitPartition, Refine, MergeNode
  <2> QED
    BY <2>1 DEF Busy
<1>4. CASE SkipBatch(g)
  <2>1. edge_n \in Nat
    BY <1>1 DEF TypeOK, HostTypeOK
  <2> QED
    BY <1>4, <2>1 DEF SkipBatch, WholeInv, NOT_INIT
<1>5. CASE EndBatch(g)
  <2>1. AllLabelled
    BY <1>5, EndBatchLabels
  <2>2. w' = w
    BY <1>5 DEF EndBatch
  <2> QED
    BY <1>2, <2>1, <2>2 DEF AllLabelled
<1> QED
  BY <1>1, <1>3, <1>4, <1>5 DEF Thread

-----------------------------------------------------------------------------
(* What a round ends with.                                                 *)

(* The classes of the next round are a coarser, stable partition.          *)
LEMMA NextClassStable ==
  ASSUME RoundInv, ideal, Barrier
  PROVE  /\ Refines(Blocks(cls), Blocks(NextClass))
         /\ StablePartition(graph, Blocks(NextClass))
<1>1. /\ cls \in [Nodes(graph) -> Node] /\ DOMAIN NextClass = Nodes(graph)
  BY DEF RoundInv, QuotientInv, Barrier, FollowsInput, Nodes, RoundGraph,
     Node, NextClass
<1>2. Refines(Blocks(cls), Blocks(NextClass))
  <2>1. \A u, v \in Nodes(graph) : cls[u] = cls[v] => NextClass[u] = NextClass[v]
    BY DEF NextClass
  <2> QED
    BY <1>1, <2>1, RefinesByLabels
<1>3. Range(NextClass) \subseteq Node
  <2>1. /\ TypeInv /\ LabelsDense /\ pc = "parallel"
    BY DEF RoundInv, BatchInv, ThreadInv, Barrier
  <2>2. FullLabel \in [Node -> Node]
    BY <2>1, FullLabelNodes
  <2> QED
    BY <1>1, <2>2 DEF Range, NextClass
<1>4. ASSUME NEW u \in Nodes(graph), NEW v \in Nodes(graph),
             NEW c \in Range(NextClass), NextClass[u] = NextClass[v]
      PROVE  OutWeight(graph, u, Block(NextClass, c)) =
               OutWeight(graph, v, Block(NextClass, c))
  <2>1. /\ cls[u] \in Node /\ cls[v] \in Node /\ c \in Node
        /\ FullLabel[cls[u]] = FullLabel[cls[v]]
    BY <1>1, <1>3, <1>4 DEF NextClass
  <2>2. OutWeight(RoundGraph, cls[u], Block(FullLabel, c)) =
          OutWeight(RoundGraph, cls[v], Block(FullLabel, c))
    BY <2>1, FullLabelStable
  <2> QED
    BY <2>2, NextClassSends
<1> QED
  BY <1>1, <1>2, <1>4, StableByLabels

(* When all nodes are labelled by a single batch, the coarsest one.        *)
LEMMA LabelsCoarsest ==
  ASSUME RoundInv, ideal, Barrier, AllLabelled
  PROVE  /\ NextClass = [u \in Nodes(graph) |-> w[cls[u]]]
         /\ Unlabelled(Node) = {}
         /\ Coarsest(graph, Blocks(NextClass))
<1>1. /\ IsGraph(graph) /\ IsGraph(RoundGraph) /\ Nodes(RoundGraph) = Node
      /\ FollowsInput(RoundGraph)
      /\ cls \in [Nodes(graph) -> Node]
  BY DEF RoundInv, BatchInv, ThreadInv, TypeInv, TypeOK, HostTypeOK,
     QuotientInv, Barrier, FollowsInput, Nodes, RoundGraph, Node
<1>2. \A u \in Nodes(graph) : NextClass[u] = w[cls[u]]
  BY <1>1 DEF NextClass, FullLabel, AllLabelled
<1>3. NextClass = [u \in Nodes(graph) |-> w[cls[u]]]
  BY <1>2 DEF NextClass
<1>4. Unlabelled(Node) = {}
  BY DEF Unlabelled, AllLabelled
<1>5. Projects(graph, cls, RoundGraph)
  BY <1>1 DEF Projects, FollowsInput, SendsThrough
<1>6. ASSUME NEW q \in [Nodes(graph) -> Nodes(graph)],
             StablePartition(graph, Blocks(q))
      PROVE  Refines(Blocks(q), Blocks(NextClass))
  <2>1. DOMAIN q = Nodes(graph) /\ DOMAIN NextClass = DOMAIN q
    BY DEF NextClass
  <2>2. PICK r \in [Nodes(RoundGraph) -> Nodes(RoundGraph)] :
          /\ StablePartition(RoundGraph, Blocks(r))
          /\ \A u, v \in Nodes(graph) : q[u] = q[v] => r[cls[u]] = r[cls[v]]
    BY <1>5, <1>6, <2>1, ProjectStable
  <2>3. \A d, x \in Node : r[d] = r[x] => w[d] = w[x]
    BY <1>1, <2>2 DEF AllLabelled
  <2>4. \A u, v \in Nodes(graph) : q[u] = q[v] => NextClass[u] = NextClass[v]
    BY <1>1, <1>2, <2>2, <2>3
  <2> QED
    BY <2>1, <2>4, RefinesByLabels
<1>7. StablePartition(graph, Blocks(NextClass))
  BY NextClassStable
<1> QED
  BY <1>3, <1>4, <1>6, <1>7 DEF Coarsest

LEMMA MainReduceInv ==
  ASSUME ReduceInv, MainThread
  PROVE  SingleInv' /\ PrintInv' /\ \A g \in Gpus : WholeInv(g)'
<1>1. /\ RoundInv /\ BatchInv /\ TypeInv /\ QuietOutside /\ LabelsDense
      /\ SendInv /\ SingleInv /\ PrintInv
  BY DEF ReduceInv, RoundInv, BatchInv, ThreadInv, TypeInv
<1>2. \A g \in Gpus : tpc'[g] \in {"idle", "undefined"}
  BY <1>1 DEF MainThread, BeginRound, Compact, CompactUndefined,
     LeaveLoop, PrintResult, Barrier, QuietOutside, threadvars
<1>3. \A g \in Gpus : WholeInv(g)'
  BY <1>2 DEF WholeInv, Busy
<1>4. CASE BeginRound
  <2>1. /\ pc = "round" /\ pc' = "parallel" /\ todo' = 0 .. batches' - 1
        /\ result' = result
    BY <1>4 DEF BeginRound
  <2> QED
    BY <1>1, <1>3, <2>1 DEF SingleInv, PrintInv
<1>5. CASE Compact
  <2>1. /\ pc = "parallel" /\ pc' \in {"round", "print"} /\ Barrier
        /\ batches > 1 /\ cls' = [u \in Nodes(graph) |-> FullLabel[cls[u]]]
        /\ new_node_n' = new_node_n + Cardinality(Unlabelled(Node))
        /\ UNCHANGED <<ideal, graph, batches, result>>
    BY <1>5 DEF Compact, Barrier
  <2>2. cls' = NextClass
    BY <2>1 DEF NextClass
  <2>3. batches' # 1
    BY <1>1, <2>1 DEF TypeInv, TypeOK, HostTypeOK
  <2>4. ideal => /\ cls' \in [Nodes(graph) -> 0 .. new_node_n' - 1]
                 /\ Range(cls') = 0 .. new_node_n' - 1
                 /\ StablePartition(graph, Blocks(cls'))
    BY <1>1, <2>1, <2>2, NextClassOnto, NextClassStable
  <2>5. PrintInv'
    BY <1>1, <2>1, <2>3, <2>4 DEF PrintInv
  <2> QED
    BY <1>3, <2>1, <2>5 DEF SingleInv
<1>6. CASE CompactUndefined
  <2>1. pc = "parallel" /\ pc' = "undefined" /\ result' = result
    BY <1>6 DEF CompactUndefined, Barrier
  <2> QED
    BY <1>1, <1>3, <2>1 DEF SingleInv, PrintInv
<1>7. CASE LeaveLoop
  <2>1. /\ pc = "parallel" /\ pc' = "print" /\ Barrier /\ batches <= 1
        /\ cls' = [u \in Nodes(graph) |-> w[cls[u]]]
        /\ todo = {} /\ \A g \in Gpus : tpc[g] = "idle"
        /\ UNCHANGED <<ideal, graph, batches, new_node_n, result>>
    BY <1>7 DEF LeaveLoop, Barrier
  <2>2. ASSUME ideal
        PROVE  /\ cls' \in [Nodes(graph) -> 0 .. new_node_n' - 1]
               /\ Range(cls') = 0 .. new_node_n' - 1
               /\ StablePartition(graph, Blocks(cls'))
               /\ Coarsest(graph, Blocks(cls'))
    <3>1. batches = 1
      <4>1. /\ batches \in Nat /\ edge_n \in Nat /\ max_batch_edge_n \in Nat \ {0}
            /\ batches = CeilDiv(edge_n, max_batch_edge_n)
        BY <1>1, <2>1, RbscAssumption
        DEF TypeInv, TypeOK, HostTypeOK, EnoughBatches
      <4>2. edge_n > 0
        BY <1>1, <2>1, <2>2 DEF SendInv, AllSend, RoundGraph
      <4>3. edge_n <= batches * max_batch_edge_n
        BY <4>1, CeilDivNat
      <4>4. batches # 0
        BY <4>1, <4>2, <4>3
      <4> QED
        BY <2>1, <4>1, <4>4
    <3>2. AllLabelled
      BY <1>1, <2>1, <2>2, <3>1 DEF SingleInv, Busy
    <3>3. cls' = NextClass /\ Unlabelled(Node) = {}
          /\ Coarsest(graph, Blocks(cls'))
      BY <1>1, <2>1, <2>2, <3>2, LabelsCoarsest
    <3>4. new_node_n + Cardinality(Unlabelled(Node)) = new_node_n'
      <4>1. new_node_n \in Nat
        BY <1>1 DEF TypeInv, TypeOK, HostTypeOK
      <4> QED
        BY <2>1, <3>3, <4>1, FS_EmptySet
    <3> QED
      BY <1>1, <2>1, <2>2, <3>3, <3>4, NextClassOnto, NextClassStable
  <2>3. PrintInv'
    BY <1>1, <2>1, <2>2 DEF PrintInv
  <2> QED
    BY <1>3, <2>1, <2>3 DEF SingleInv
<1>8. CASE PrintResult
  <2>1. pc' = "done"
    BY <1>8 DEF PrintResult
  <2> QED
    BY <1>3, <2>1 DEF SingleInv, PrintInv
<1> QED
  BY <1>4, <1>5, <1>6, <1>7, <1>8 DEF MainThread

LEMMA StutterReduceInv ==
  ASSUME ReduceInv, UNCHANGED vars
  PROVE  SingleInv' /\ PrintInv' /\ \A g \in Gpus : WholeInv(g)'
<1>1. /\ UNCHANGED <<RoundGraph, Node, Edge, node_n, ideal, pc, graph, cls>>
      /\ UNCHANGED <<batches, edge_n, edge_start, result, new_node_n, w, todo>>
      /\ UNCHANGED <<tpc, i, batch_mask, new_batch_start, new_batch_end>>
  BY GraphFrame DEF vars, threadvars, sharedvars, hostvars
<1>2. \A g \in Gpus : WholeInv(g)'
  BY <1>1 DEF ReduceInv, WholeInv
<1>3. SingleInv'
  BY <1>1 DEF ReduceInv, SingleInv, AllLabelled
<1>4. PrintInv'
  BY <1>1 DEF ReduceInv, PrintInv
<1> QED
  BY <1>2, <1>3, <1>4

LEMMA InitReduceInv == ASSUME Sending, Init PROVE ReduceInv
<1>1. \A g \in Gpus : WholeInv(g)
  BY DEF Init, WholeInv, Busy
<1>2. SingleInv /\ PrintInv
  BY DEF Init, SingleInv, PrintInv
<1> QED
  BY <1>1, <1>2, InitRoundInv, InitUnsplitInv, InitSendInv DEF ReduceInv

LEMMA NextReduceInv ==
  ASSUME Exclusive, ReduceInv, [Next]_vars
  PROVE  ReduceInv'
<1>1. RoundInv' /\ UnsplitInv' /\ SendInv'
  BY MainRoundInv, ThreadRoundInv, StutterRoundInv, NextUnsplitInv, NextSendInv
  DEF ReduceInv, Next, Stopped
<1>2. ASSUME NEW g \in Gpus, Thread(g)
      PROVE  SingleInv' /\ PrintInv' /\ \A h \in Gpus : WholeInv(h)'
  <2>1. SingleInv' /\ \A h \in Gpus : WholeInv(h)'
    BY <1>2, ThreadSingleInv, ThreadWholeInv DEF ReduceInv, RoundInv
  <2>2. /\ UNCHANGED hostvars /\ pc = "parallel"
    BY <1>2, ThreadStep, NeverUndefined
    DEF ReduceInv, RoundInv, BatchInv, ThreadInv
  <2>3. PrintInv'
    BY <2>2 DEF ReduceInv, PrintInv, hostvars
  <2> QED
    BY <2>1, <2>3
<1>3. SingleInv' /\ PrintInv' /\ \A g \in Gpus : WholeInv(g)'
  BY <1>2, MainReduceInv, StutterReduceInv DEF Next, Stopped
<1> QED
  BY <1>1, <1>3 DEF ReduceInv

-----------------------------------------------------------------------------
(* Lumping's notions, under the names its instance gives them.             *)
LEMMA SameWeights ==
  \A g, u, C : Reduction!OutWeight(g, u, C) = OutWeight(g, u, C)
BY DEF Reduction!OutWeight, OutWeight, Reduction!Edges, Edges,
       Reduction!SumFunctionOnSet, SumFunctionOnSet,
       Reduction!FoldFunctionOnSet, FoldFunctionOnSet,
       Reduction!MapThenFoldSet, MapThenFoldSet

LEMMA SameNotions ==
  /\ \A g : Reduction!IsGraph(g) <=> IsGraph(g)
  /\ \A g, P : Reduction!StablePartition(g, P) <=> StablePartition(g, P)
  /\ \A P, Q : Reduction!Refines(P, Q) <=> Refines(P, Q)
  /\ \A g, P : Reduction!Coarsest(g, P) <=> Coarsest(g, P)
  /\ \A g : Reduction!Nodes(g) = Nodes(g)
  /\ \A S : Reduction!Cardinality(S) = Cardinality(S)
<1>1. \A g : Reduction!Nodes(g) = Nodes(g)
  BY DEF Reduction!Nodes, Nodes
<1>2. \A g : Reduction!IsGraph(g) <=> IsGraph(g)
  BY DEF Reduction!IsGraph, IsGraph, Reduction!Edges, Edges,
         Reduction!Nodes, Nodes
<1>3. \A g, P : Reduction!StablePartition(g, P) <=> StablePartition(g, P)
  BY SameWeights DEF Reduction!StablePartition, StablePartition
<1>4. \A P, Q : Reduction!Refines(P, Q) <=> Refines(P, Q)
  BY DEF Reduction!Refines, Refines
<1>5. \A q : Reduction!Blocks(q) = Blocks(q)
  BY DEF Reduction!Blocks, Blocks, Reduction!Block, Block,
         Reduction!Range, Range
<1>6. \A g, P : Reduction!Coarsest(g, P) <=> Coarsest(g, P)
  BY <1>1, <1>3, <1>4, <1>5 DEF Reduction!Coarsest, Coarsest
<1>7. \A S : Reduction!Cardinality(S) = Cardinality(S)
  BY DEF Reduction!Cardinality, Cardinality
<1> QED
  BY <1>1, <1>2, <1>3, <1>4, <1>6, <1>7

LEMMA InitReduces == ASSUME Init PROVE Reduction!Init
<1>1. IsGraph(graph) /\ result = NoResult /\ cls = [u \in Nodes(graph) |-> u]
  BY RbscAssumption, GraphsAssumption DEF Init
<1>2. Blocks(cls) = {{u} : u \in Nodes(graph)}
  <2>1. Range(cls) = Nodes(graph)
    BY <1>1 DEF Range
  <2>2. \A c \in Nodes(graph) : Block(cls, c) = {c}
    BY <1>1 DEF Block
  <2> QED
    BY <2>1, <2>2 DEF Blocks
<1> QED
  BY <1>1, <1>2, SameNotions DEF Reduction!Init, Reduction!NoResult, NoResult

(* The end of a round lumps.                                               *)
LEMMA RoundLumps ==
  ASSUME ReduceInv, ideal, Compact \/ LeaveLoop
  PROVE  Reduction!Lump
<1>1. /\ RoundInv /\ SingleInv /\ SendInv /\ PrintInv
      /\ Barrier /\ pc = "parallel" /\ UNCHANGED <<graph, result>>
  BY DEF ReduceInv, Compact, LeaveLoop, Barrier
<1>2. Refines(Blocks(cls), Blocks(cls')) /\ StablePartition(graph, Blocks(cls'))
  <2>1. CASE Compact
    <3>1. cls' = NextClass
      BY <2>1 DEF Compact, NextClass
    <3> QED
      BY <1>1, <3>1, NextClassStable
  <2>2. CASE LeaveLoop
    <3>1. PrintInv' /\ pc' = "print" /\ ideal'
      BY <2>2, MainReduceInv DEF MainThread, LeaveLoop
    <3>2. StablePartition(graph, Blocks(cls'))
      BY <1>1, <3>1 DEF PrintInv
    <3>3. /\ cls' = [u \in Nodes(graph) |-> w[cls[u]]]
          /\ DOMAIN cls = Nodes(graph)
      BY <1>1, <2>2 DEF LeaveLoop, RoundInv, QuotientInv, FollowsInput
    <3>4. /\ DOMAIN cls' = DOMAIN cls
          /\ \A u, v \in DOMAIN cls : cls[u] = cls[v] => cls'[u] = cls'[v]
      BY <3>3
    <3> QED
      BY <3>2, <3>4, RefinesByLabels
  <2> QED
    BY <1>1, <2>1, <2>2
<1>3. result = NoResult
  BY <1>1 DEF PrintInv
<1> QED
  BY <1>1, <1>2, <1>3, SameNotions
  DEF Reduction!Lump, Reduction!NoResult, NoResult

(* Printing answers.                                                       *)
LEMMA PrintAnswers ==
  ASSUME ReduceInv, ideal, PrintResult
  PROVE  Reduction!Answer
<1>1. /\ pc = "print" /\ UNCHANGED <<graph, cls>>
      /\ result' = [done |-> IF batches = 1 THEN 1 ELSE 0, nodes |-> new_node_n]
      /\ new_node_n \in Nat
  BY DEF ReduceInv, RoundInv, BatchInv, ThreadInv, TypeInv, TypeOK, HostTypeOK,
     PrintResult
<1>2. /\ result = NoResult /\ Range(cls) = 0 .. new_node_n - 1
      /\ StablePartition(graph, Blocks(cls))
      /\ batches = 1 => Coarsest(graph, Blocks(cls))
  BY <1>1 DEF ReduceInv, PrintInv
<1>3. Cardinality(Blocks(cls)) = new_node_n
  <2>1. /\ IsFiniteSet(Range(cls)) /\ Cardinality(Range(cls)) = new_node_n
    BY <1>1, <1>2, CountInterval
  <2> QED
    BY <2>1, CountBlocks
<1>4. Refines(Blocks(cls), Blocks(cls))
  BY RefinesByLabels
<1>5. Blocks(cls') = Blocks(cls)
  BY <1>1
<1>6. /\ result'.nodes = Cardinality(Blocks(cls')) /\ result'.done \in {0, 1}
      /\ result'.done = 1 => Coarsest(graph, Blocks(cls'))
  BY <1>1, <1>2, <1>3, <1>5
<1> QED
  BY <1>1, <1>2, <1>4, <1>5, <1>6, SameNotions
  DEF Reduction!Answer, Reduction!NoResult, NoResult

LEMMA StepReduces ==
  ASSUME ReduceInv, [Next]_vars, ideal
  PROVE  [Reduction!Next]_(Reduction!vars)
<1>1. /\ TypeInv /\ BatchInv
  BY DEF ReduceInv, RoundInv, BatchInv, ThreadInv
<1>2. CASE Compact \/ LeaveLoop
  BY <1>2, RoundLumps DEF Reduction!Next
<1>3. CASE PrintResult
  BY <1>3, PrintAnswers DEF Reduction!Next
<1>4. CASE BeginRound \/ CompactUndefined \/ UNCHANGED vars
  <2>1. UNCHANGED <<graph, cls, result>>
    BY <1>4 DEF BeginRound, CompactUndefined, vars, hostvars
  <2> QED
    BY <2>1 DEF Reduction!vars
<1>5. ASSUME NEW g \in Gpus, Thread(g)
      PROVE  [Reduction!Next]_(Reduction!vars)
  <2>1. UNCHANGED hostvars
    BY <1>1, <1>5, ThreadStep, NeverUndefined
  <2>2. UNCHANGED <<graph, cls, result>>
    BY <2>1 DEF hostvars
  <2> QED
    BY <2>2 DEF Reduction!vars
<1> QED
  BY <1>2, <1>3, <1>4, <1>5 DEF Next, MainThread, Stopped

(* With hashes that tell signatures apart and one thread trimming at a     *)
(* time, rbsc implements Lumping on every graph with edges whose sources   *)
(* send something: each round lumps the input into a coarser stable        *)
(* partition, what is printed is its number of blocks, and done = 1 says   *)
(* that it is the coarsest (rbsc.cu:274-496).                              *)
THEOREM RoundsImplementLumping ==
  ASSUME Exclusive, Sending
  PROVE  Spec => RoundsReduce
<1>1. Init => ReduceInv /\ Reduction!Init
  BY InitReduceInv, InitReduces
<1>2. ReduceInv /\ [Next]_vars => ReduceInv'
  BY NextReduceInv
<1>3. ReduceInv /\ [Next]_vars => (ideal => [Reduction!Next]_(Reduction!vars))
  BY StepReduces
<1>4. UNCHANGED vars => UNCHANGED Reduction!vars
  BY DEF vars, hostvars, Reduction!vars
<1> QED
  BY <1>1, <1>2, <1>3, <1>4, PTL DEF Spec, RoundsReduce
=============================================================================
