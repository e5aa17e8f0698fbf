----------------------------- MODULE RscProofs ------------------------------
(***************************************************************************)
(* rsc keeps every index, weight and label in its word, adds up exactly    *)
(* what is stored, and prints the coarsest reduction; and two tools that   *)
(* both claim the coarsest reduction of a graph report the same one.       *)
(***************************************************************************)
EXTENDS Rsc, BaseLemmas

(* What a node sends, in the words of BaseLemmas.                          *)
LEMMA WeightsIn ==
  ASSUME NEW g, IsGraph(g)
  PROVE  HasWeights(g)
BY ModulusAssumption DEF IsGraph, HasWeights, Edges

LEMMA OutWeightIs ==
  ASSUME NEW g, NEW u, NEW C
  PROVE  /\ OutWeight(g, u, C) = Sent(g, WeightModulus, u, C)
         /\ OutWeight(g, u, C) =
              SumFunctionOnSet(g.weight, EdgesTo(g, u, C)) % WeightModulus
BY DEF OutWeight, Sent, EdgesTo, Edges

(* Nodes that send the same weight to the blocks of a partition send the   *)
(* same to those of a coarser one.                                         *)
LEMMA SameWeightCoarser ==
  ASSUME NEW g, IsGraph(g), NEW q, NEW p, IsFiniteSet(DOMAIN q),
         DOMAIN p = DOMAIN q, Refines(Blocks(q), Blocks(p)), NEW u, NEW v,
         \A C \in Blocks(q) : OutWeight(g, u, C) = OutWeight(g, v, C),
         NEW c
  PROVE  OutWeight(g, u, Block(p, c)) = OutWeight(g, v, Block(p, c))
<1>1. HasWeights(g) /\ WeightModulus \in Nat \ {0}
  BY WeightsIn, ModulusAssumption
<1>2. \A x, C : OutWeight(g, x, C) = Sent(g, WeightModulus, x, C)
  BY OutWeightIs
<1> QED
  BY <1>1, <1>2, SameSentCoarser

(* There is one coarsest reduction: the done = 1 of rsc and the done = 1   *)
(* of rbsc, which bench.py records side by side, stand for the same        *)
(* partition and so for the same number of nodes.                          *)
THEOREM CoarsestUnique ==
  ASSUME NEW g, NEW p \in [Nodes(g) -> Nodes(g)],
         NEW q \in [Nodes(g) -> Nodes(g)],
         Coarsest(g, Blocks(p)), Coarsest(g, Blocks(q))
  PROVE  Blocks(p) = Blocks(q)
<1>1. Refines(Blocks(p), Blocks(q)) /\ Refines(Blocks(q), Blocks(p))
  BY DEF Coarsest
<1> QED
  BY <1>1, RefinesAntisymmetric

-----------------------------------------------------------------------------
LEMMA InitTypeOK == Init => TypeOK
<1> SUFFICES ASSUME Init PROVE TypeOK
  OBVIOUS
<1> USE RscAssumption, ModulusAssumption DEF Init
<1>1. IsGraph(graph) /\ graph.nodes \in Nat /\ graph.nodes > 0
      /\ graph.edges \in Nat
  BY DEF IsGraph
<1>2. NoWeight \in [Label -> 0 .. WeightModulus - 1]
  BY DEF NoWeight
<1>3. w \in [Node -> Label] /\ z \in [Node -> [Label -> 0 .. WeightModulus - 1]]
  BY <1>1, <1>2 DEF Label
<1>4. edge_weight \in [0 .. i - 1 -> 0 .. WEIGHT_MAX]
  OBVIOUS
<1> QED
  BY <1>1, <1>3, <1>4 DEF TypeOK, StoredEdges

(* What is stored of a weight fits the word it is stored in.               *)
LEMMA StoredFits ==
  ASSUME TypeOK, NEW e \in Edges(graph)
  PROVE  Stored(e) \in 0 .. WEIGHT_MAX
BY RscAssumption DEF Stored, TypeOK, IsGraph

LEMMA ReadEdgeTypeOK == TypeOK /\ ReadEdge => TypeOK'
<1> SUFFICES ASSUME TypeOK, ReadEdge PROVE TypeOK'
  OBVIOUS
<1> USE RscAssumption
<1>1. i \in Edges(graph) /\ i \in Nat /\ graph.edges \in Nat
  BY DEF TypeOK, ReadEdge, Edges, IsGraph
<1>2. Stored(i) \in 0 .. WEIGHT_MAX
  BY <1>1, StoredFits
<1>3. tot_weight' \in 0 .. WEIGHT_MAX
  BY <1>2 DEF TypeOK, ReadEdge
<1>4. edge_weight \in [0 .. i - 1 -> 0 .. WEIGHT_MAX]
  BY DEF TypeOK, ReadEdge, StoredEdges
<1>5. edge_weight' \in [0 .. i' - 1 -> 0 .. WEIGHT_MAX]
  BY <1>1, <1>2, <1>4 DEF ReadEdge
<1> QED
  BY <1>1, <1>3, <1>5, SMTT(30)
     DEF TypeOK, ReadEdge, Node, Label, StoredEdges, Edges

(* The weights of the first edges of a source make sums in range.          *)
LEMMA AddEdgeTypeOK == TypeOK /\ AddEdge => TypeOK'
<1> SUFFICES ASSUME TypeOK, AddEdge PROVE TypeOK'
  OBVIOUS
<1> USE RscAssumption, ModulusAssumption
<1>1. /\ i \in Edges(graph) /\ i \in Nat /\ graph.edges \in Nat
      /\ graph.start[i] \in Node /\ graph.end[i] \in Node
  <2>1. /\ IsGraph(graph) /\ i \in 0 .. graph.edges
        /\ i < graph.edges
    BY DEF TypeOK, AddEdge
  <2>2. graph.edges \in Nat /\ i \in Edges(graph) /\ i \in Nat
    BY <2>1 DEF IsGraph, Edges
  <2> QED
    BY <2>1, <2>2 DEF IsGraph, Node
<1>2. edge_weight \in [Edges(graph) -> 0 .. WEIGHT_MAX]
  BY DEF TypeOK, AddEdge, StoredEdges
<1>3. EndLabel(i) \in Label
  BY <1>1 DEF EndLabel, TypeOK
<1>4. SumBefore(i) \in [Label -> 0 .. WeightModulus - 1]
  BY <1>1 DEF SumBefore, NoWeight, TypeOK
<1>5. [SumBefore(i) EXCEPT ![EndLabel(i)] =
         (@ + edge_weight[i]) % WeightModulus]
        \in [Label -> 0 .. WeightModulus - 1]
  <2>1. (SumBefore(i)[EndLabel(i)] + edge_weight[i]) % WeightModulus
          \in 0 .. WeightModulus - 1
    <3>1. edge_weight[i] \in Nat /\ SumBefore(i)[EndLabel(i)] \in Nat
      BY <1>1, <1>2, <1>3, <1>4
    <3> QED
      BY <3>1
  <2> QED
    BY <2>1, <1>4
<1>6. z' \in [Node -> [Label -> 0 .. WeightModulus - 1]]
  BY <1>1, <1>5 DEF AddEdge, TypeOK
<1>7. i' \in 0 .. graph'.edges /\ StoredEdges' = StoredEdges
  BY <1>1 DEF AddEdge, TypeOK, StoredEdges, Edges
<1> QED
  BY <1>1, <1>6, <1>7 DEF TypeOK, AddEdge, Node, Label

LEMMA RelabelTypeOK == TypeOK /\ Relabel => TypeOK'
<1> SUFFICES ASSUME TypeOK, Relabel PROVE TypeOK'
  OBVIOUS
<1>1. graph.nodes \in Nat /\ graph.edges \in Nat
  BY DEF TypeOK, IsGraph
<1>2. w' \in [Node -> Node]
  <2>1. PICK h : w' = [u \in Node |-> Min({v \in Node : h[z[v]] = h[z[u]]})]
    BY DEF Relabel
  <2>2. ASSUME NEW u \in Node
        PROVE  Min({v \in Node : h[z[v]] = h[z[u]]}) \in Node
    <3> DEFINE same == {v \in Node : h[z[v]] = h[z[u]]}
    <3>1. same \subseteq Nat /\ same # {}
      BY <1>1, <2>2 DEF Node, Nodes
    <3> QED
      BY <3>1, MinOfNat
  <2> QED
    BY <2>1, <2>2
<1>3. w' \in [Node -> Label]
  BY <1>1, <1>2 DEF Node, Nodes, Label
<1>4. new_node_n' \in Nat
  <2>1. Range(w') \subseteq 0 .. graph.nodes - 1
    BY <1>2 DEF Range, Node, Nodes
  <2> QED
    BY <2>1, <1>1, CountInInterval DEF Relabel
<1>5. pc' \in {"sum", "print"} /\ StoredEdges' = StoredEdges
  BY DEF Relabel, StoredEdges
<1>6. i' \in 0 .. graph'.edges
  BY <1>1 DEF Relabel
<1> QED
  BY <1>3, <1>4, <1>5, <1>6 DEF TypeOK, Relabel, Node, Label

LEMMA NextTypeOK == TypeOK /\ [Next]_vars => TypeOK'
<1> SUFFICES ASSUME TypeOK, [Next]_vars PROVE TypeOK'
  OBVIOUS
<1>1. CASE ReadEdge
  BY <1>1, ReadEdgeTypeOK
<1>2. CASE RejectWeight
  BY <1>2 DEF TypeOK, RejectWeight, Node, Label, StoredEdges
<1>3. CASE EndRead
  BY <1>3 DEF TypeOK, EndRead, AllEdges, Node, Label, IsGraph, Edges,
              StoredEdges
<1>4. CASE AddEdge
  BY <1>4, AddEdgeTypeOK
<1>5. CASE Relabel
  BY <1>5, RelabelTypeOK
<1>6. CASE PrintResult
  BY <1>6 DEF TypeOK, PrintResult, Node, Label, StoredEdges
<1>7. CASE UNCHANGED vars
  BY <1>7 DEF TypeOK, vars, Node, Label, StoredEdges
<1> QED
  BY <1>1, <1>2, <1>3, <1>4, <1>5, <1>6, <1>7 DEF Next, Step, Stopped

(* Labels, sums, weights and the total stay in their words, and the loop   *)
(* reads only weights that were stored (rsc.cpp:46-61, 123-144).           *)
THEOREM TypeCorrect == Spec => []TypeOK
BY InitTypeOK, NextTypeOK, PTL DEF Spec

-----------------------------------------------------------------------------
(* What the sums are made of.  Between two edges z holds, for the sources  *)
(* seen in this iteration, the weights of the edges seen; nodes without    *)
(* edges are never written.                                                *)

Seen(g, n, p, u, c) ==
  {k \in 0 .. n - 1 : g.start[k] = u /\ p[g.end[k]] = c}

StoredInv ==
  /\ graph \in Graphs
  /\ edge_weight = [e \in StoredEdges |-> Stored(e)]
  /\ tot_weight = SumFunctionOnSet(edge_weight, StoredEdges)

SumInv ==
  /\ \A u \in Node :
       (\A e \in Edges(graph) : graph.start[e] # u) => z[u] = NoWeight
  /\ pc = "sum" =>
       \A e \in 0 .. i - 1, c \in Label :
         z[graph.start[e]][c] =
           SumFunctionOnSet(edge_weight, Seen(graph, i, w, graph.start[e], c))
             % WeightModulus

LEMMA InitSums == Init => StoredInv /\ SumInv
<1> SUFFICES ASSUME Init PROVE StoredInv /\ SumInv
  OBVIOUS
<1>1. StoredEdges = {} /\ edge_weight = << >> /\ tot_weight = 0
  BY DEF Init, StoredEdges
<1>2. edge_weight = [e \in StoredEdges |-> Stored(e)]
  BY <1>1
<1>3. tot_weight = SumFunctionOnSet(edge_weight, StoredEdges)
  BY <1>1, SumEmpty
<1> QED
  BY <1>2, <1>3 DEF Init, StoredInv, SumInv, Node

(* The check on the total keeps it from wrapping.                          *)
LEMMA ReadEdgeSums ==
  TypeOK /\ StoredInv /\ SumInv /\ ReadEdge => StoredInv' /\ SumInv'
<1> SUFFICES ASSUME TypeOK, StoredInv, SumInv, ReadEdge
             PROVE  StoredInv' /\ SumInv'
  OBVIOUS
<1>1. /\ i \in Edges(graph) /\ i \in Nat /\ graph.edges \in Nat
      /\ pc = "read" /\ pc' = "read" /\ i' = i + 1
      /\ StoredEdges = 0 .. i - 1 /\ StoredEdges' = 0 .. i
      /\ edge_weight \in [0 .. i - 1 -> 0 .. WEIGHT_MAX]
  BY DEF TypeOK, ReadEdge, Edges, IsGraph, StoredEdges
<1>2. Stored(i) \in 0 .. WEIGHT_MAX
  BY <1>1, StoredFits
<1>3. tot_weight' = tot_weight + Stored(i)
  <2>1. /\ tot_weight \in 0 .. WEIGHT_MAX /\ ~(WEIGHT_MAX - tot_weight < Stored(i))
        /\ tot_weight' = (tot_weight + Stored(i)) % (WEIGHT_MAX + 1)
    BY DEF TypeOK, ReadEdge, Exceeds
  <2>2. tot_weight + Stored(i) \in 0 .. WEIGHT_MAX
    BY <1>2, <2>1, RscAssumption
  <2>3. \A x \in 0 .. WEIGHT_MAX : x % (WEIGHT_MAX + 1) = x
    BY RscAssumption
  <2> QED
    BY <2>1, <2>2, <2>3
<1>4. \A e \in Edges(graph) : Stored(e)' = Stored(e)
  BY DEF Stored, ReadEdge
<1>5. edge_weight' = [e \in 0 .. i |-> Stored(e)']
  <2>1. \A e \in 0 .. i - 1 : edge_weight[e] = Stored(e)
    BY <1>1 DEF StoredInv
  <2>2. \A e \in 0 .. i : e # i => e \in 0 .. i - 1
    BY <1>1
  <2>3. \A e \in 0 .. i : e \in Edges(graph)
    BY <1>1 DEF Edges
  <2>4. \A e \in 0 .. i :
          (IF e = i THEN Stored(i) ELSE edge_weight[e]) = Stored(e)'
    BY <2>1, <2>2, <2>3, <1>4
  <2> QED
    BY <2>4 DEF ReadEdge
<1>6. tot_weight' = SumFunctionOnSet(edge_weight', 0 .. i)
  <2> DEFINE old == 0 .. i - 1  new == edge_weight'
  <2>1. IsFiniteSet(old) /\ 0 .. i = old \cup {i} /\ i \notin old
    <3>1. IsFiniteSet(old)
      <4>1. old \subseteq 0 .. i - 1
        OBVIOUS
      <4> HIDE DEF old
      <4> QED
        BY <4>1, <1>1, CountInInterval
    <3>2. 0 .. i = old \cup {i} /\ i \notin old
      BY <1>1
    <3> QED
      BY <3>1, <3>2
  <2>2. \A e \in old : new[e] = edge_weight[e] /\ edge_weight[e] \in Nat
    BY <1>1, RscAssumption DEF ReadEdge
  <2>3. new[i] = Stored(i) /\ Stored(i) \in Nat
    BY <1>1, <1>2, RscAssumption DEF ReadEdge
  <2>4. SumFunctionOnSet(new, old \cup {i}) =
          new[i] + SumFunctionOnSet(new, old)
    <3>1. \A x \in old \cup {i} : new[x] \in Nat
      BY <2>2, <2>3
    <3> HIDE DEF old, new
    <3> QED
      BY <2>1, <3>1, SumAdd
  <2>5. SumFunctionOnSet(edge_weight, old) = SumFunctionOnSet(new, old)
    <3> HIDE DEF old, new
    <3> QED
      BY <2>1, <2>2, SumSame
  <2>6. tot_weight = SumFunctionOnSet(edge_weight, old)
        /\ tot_weight \in Nat
    BY <1>1, RscAssumption DEF StoredInv, TypeOK
  <2>7. tot_weight' = new[i] + SumFunctionOnSet(new, old)
    <3> HIDE DEF old, new
    <3> QED
      BY <1>3, <2>3, <2>5, <2>6
  <2>8. tot_weight' = SumFunctionOnSet(new, old \cup {i})
    BY <2>4, <2>7
  <2> QED
    BY <2>1, <2>8
<1>7. StoredInv'
  BY <1>1, <1>5, <1>6 DEF StoredInv, ReadEdge
<1> QED
  BY <1>1, <1>7 DEF SumInv, ReadEdge, Node, NoWeight, Label

LEMMA EndReadSums ==
  TypeOK /\ StoredInv /\ SumInv /\ EndRead => StoredInv' /\ SumInv'
<1> SUFFICES ASSUME TypeOK, StoredInv, SumInv, EndRead
             PROVE  StoredInv' /\ SumInv'
  OBVIOUS
<1>1. i = graph.edges /\ i' = 0 /\ StoredEdges = Edges(graph)
      /\ StoredEdges' = Edges(graph)
  BY DEF EndRead, AllEdges, StoredEdges, Edges
<1>2. StoredInv'
  BY <1>1 DEF StoredInv, EndRead, Stored
<1>3. SumInv'
  <2>1. 0 .. i' - 1 = {} /\ UNCHANGED <<graph, z>>
    BY <1>1 DEF EndRead
  <2> QED
    BY <2>1 DEF SumInv, Node, NoWeight, Label
<1> QED
  BY <1>2, <1>3

(* The edges of a source are contiguous, so that the first one seen meets  *)
(* no sum of this iteration and all others continue it.                    *)
LEMMA AddEdgeSums ==
  TypeOK /\ StoredInv /\ SumInv /\ AddEdge => StoredInv' /\ SumInv'
<1> SUFFICES ASSUME TypeOK, StoredInv, SumInv, AddEdge
             PROVE  StoredInv' /\ SumInv'
  OBVIOUS
<1> DEFINE s == graph.start[i]
           c0 == EndLabel(i)
           M == WeightModulus
           old(u, c) == Seen(graph, i, w, u, c)
           new(u, c) == Seen(graph, i + 1, w, u, c)
           sum(u, c) == SumFunctionOnSet(edge_weight, old(u, c))
<1>1. /\ IsGraph(graph) /\ Grouped(graph)
      /\ i \in Edges(graph) /\ i \in Nat /\ graph.edges \in Nat
      /\ pc = "sum" /\ pc' = "sum" /\ i' = i + 1
      /\ Edges(graph) = 0 .. graph.edges - 1
      /\ \A e \in Edges(graph) : graph.start[e] \in Node /\ graph.end[e] \in Node
      /\ UNCHANGED <<graph, edge_weight, tot_weight, w>>
  <2>1. IsGraph(graph) /\ Grouped(graph)
    BY RscAssumption DEF StoredInv
  <2>2. graph.edges \in Nat /\ Edges(graph) = 0 .. graph.edges - 1
        /\ i \in 0 .. graph.edges /\ i < graph.edges
    BY <2>1 DEF TypeOK, AddEdge, IsGraph, Edges
  <2>3. \A e \in Edges(graph) : graph.start[e] \in Node /\ graph.end[e] \in Node
    BY <2>1 DEF IsGraph, Node
  <2> QED
    BY <2>1, <2>2, <2>3 DEF AddEdge
<1>2. /\ edge_weight \in [Edges(graph) -> 0 .. WEIGHT_MAX]
      /\ \A e \in Edges(graph) : edge_weight[e] \in Nat
      /\ w \in [Node -> Label] /\ M \in Nat \ {0}
      /\ z \in [Node -> [Label -> 0 .. M - 1]]
  <2>1. edge_weight \in [Edges(graph) -> 0 .. WEIGHT_MAX]
    BY <1>1 DEF TypeOK, StoredEdges
  <2>2. \A e \in Edges(graph) : edge_weight[e] \in Nat
    BY <2>1, RscAssumption
  <2> QED
    BY <2>1, <2>2, ModulusAssumption DEF TypeOK
<1>3. c0 \in Label /\ s \in Node /\ c0 = w[graph.end[i]]
  BY <1>1, <1>2 DEF EndLabel
<1>4. SumBefore(i) \in [Label -> 0 .. M - 1]
  BY <1>1, <1>2 DEF SumBefore, NoWeight
<1>5. z' = [z EXCEPT ![s] =
              [SumBefore(i) EXCEPT ![c0] = (@ + edge_weight[i]) % M]]
  BY DEF AddEdge
<1>6. \A u \in Node, c \in Label :
        new(u, c) = IF u = s /\ c = c0 THEN old(u, c) \cup {i}
                      ELSE old(u, c)
  <2> SUFFICES ASSUME NEW u \in Node, NEW c \in Label
               PROVE  new(u, c) = IF u = s /\ c = c0
                                    THEN old(u, c) \cup {i} ELSE old(u, c)
    OBVIOUS
  <2>1. 0 .. i' - 1 = (0 .. i - 1) \cup {i} /\ i \notin 0 .. i - 1
    BY <1>1
  <2>2. new(u, c) =
          {k \in 0 .. i' - 1 : graph.start[k] = u /\ w[graph.end[k]] = c}
    BY <1>1 DEF Seen
  <2> QED
    BY <1>3, <2>1, <2>2 DEF Seen
<1>7. \A u \in Node, c \in Label :
        /\ IsFiniteSet(old(u, c)) /\ i \notin old(u, c)
        /\ \A k \in old(u, c) \cup {i} : edge_weight[k] \in Nat
        /\ sum(u, c) \in Nat
  <2> SUFFICES ASSUME NEW u \in Node, NEW c \in Label
               PROVE  /\ IsFiniteSet(old(u, c)) /\ i \notin old(u, c)
                      /\ \A k \in old(u, c) \cup {i} : edge_weight[k] \in Nat
                      /\ sum(u, c) \in Nat
    OBVIOUS
  <2>1. old(u, c) \subseteq 0 .. i - 1 /\ 0 .. i - 1 \subseteq Edges(graph)
    BY <1>1 DEF Seen
  <2>2. IsFiniteSet(old(u, c)) /\ i \notin old(u, c)
    BY <2>1, <1>1, CountInInterval
  <2>3. \A k \in old(u, c) \cup {i} : edge_weight[k] \in Nat
    BY <2>1, <1>1, <1>2
  <2> QED
    BY <2>2, <2>3, SumType
<1>8. \A c \in Label : SumBefore(i)[c] = sum(s, c) % M
  <2> SUFFICES ASSUME NEW c \in Label PROVE SumBefore(i)[c] = sum(s, c) % M
    OBVIOUS
  <2>1. CASE FirstEdge(i)
    <3>1. \A e \in 0 .. i - 1 : graph.start[e] # s
      <4> SUFFICES ASSUME NEW e \in 0 .. i - 1, graph.start[e] = s PROVE FALSE
        OBVIOUS
      <4>1. i # 0 /\ e \in Edges(graph) /\ e <= i /\ i - 1 \in e .. i
            /\ graph.start[i - 1] # s
        BY <1>1, <2>1 DEF FirstEdge
      <4>2. graph.start[i - 1] = graph.start[e]
        BY <1>1, <4>1 DEF Grouped
      <4> QED
        BY <4>1, <4>2
    <3>2. old(s, c) = {}
      BY <3>1 DEF Seen
    <3>3. sum(s, c) = 0
      BY <3>2, SumEmpty
    <3>4. SumBefore(i)[c] = 0
      BY <2>1 DEF SumBefore, NoWeight
    <3>5. 0 % M = 0
      BY <1>2
    <3> HIDE DEF sum, M
    <3> QED
      BY <3>3, <3>4, <3>5
  <2>2. CASE ~FirstEdge(i)
    <3>1. i - 1 \in 0 .. i - 1 /\ graph.start[i - 1] = s
      BY <1>1, <2>2 DEF FirstEdge
    <3>2. z[graph.start[i - 1]][c] = sum(graph.start[i - 1], c) % M
      BY <1>1, <3>1 DEF SumInv
    <3> QED
      BY <2>2, <3>1, <3>2 DEF SumBefore
  <2> QED
    BY <2>1, <2>2
<1>9. \A c \in Label :
        z'[s][c] = SumFunctionOnSet(edge_weight, new(s, c)) % M
  <2> SUFFICES ASSUME NEW c \in Label
               PROVE z'[s][c] = SumFunctionOnSet(edge_weight, new(s, c)) % M
    OBVIOUS
  <2>1. z'[s] = [SumBefore(i) EXCEPT ![c0] =
                   (SumBefore(i)[c0] + edge_weight[i]) % M]
    BY <1>2, <1>3, <1>5
  <2>2. CASE c = c0
    <3>1. z'[s][c] = ((sum(s, c) % M) + edge_weight[i]) % M
      <4> HIDE DEF M, sum, s, c0
      <4> QED
        BY <1>3, <1>4, <1>8, <2>1, <2>2
    <3>2. z'[s][c] = (sum(s, c) + edge_weight[i]) % M
      <4>1. edge_weight[i] \in Nat /\ sum(s, c) \in Nat
        BY <1>1, <1>2, <1>3, <1>7
      <4> HIDE DEF sum, s
      <4> QED
        BY <3>1, <4>1, <1>2, ModAdd
    <3>3. new(s, c) = old(s, c) \cup {i}
      BY <1>3, <1>6, <2>2
    <3>4. SumFunctionOnSet(edge_weight, old(s, c) \cup {i}) =
            edge_weight[i] + sum(s, c)
      BY <1>3, <1>7, SumAdd
    <3>5. edge_weight[i] + sum(s, c) = sum(s, c) + edge_weight[i]
      <4>1. edge_weight[i] \in Int /\ sum(s, c) \in Int
        BY <1>1, <1>2, <1>3, <1>7
      <4> HIDE DEF sum, s
      <4> QED
        BY <4>1
    <3> QED
      BY <3>2, <3>3, <3>4, <3>5
  <2>3. CASE c # c0
    <3>1. new(s, c) = old(s, c)
      BY <1>3, <1>6, <2>3
    <3>2. z'[s][c] = SumBefore(i)[c]
      BY <1>4, <2>1, <2>3
    <3> QED
      BY <1>8, <3>1, <3>2
  <2> QED
    BY <2>2, <2>3
<1>10. StoredInv'
  BY <1>1 DEF StoredInv, StoredEdges, Stored
<1>11. ASSUME NEW u \in Node, \A e \in Edges(graph) : graph.start[e] # u
       PROVE  z'[u] = NoWeight
  <2>1. u # s
    BY <1>1, <1>11
  <2> QED
    BY <1>2, <1>5, <1>11, <2>1 DEF SumInv
<1>12. ASSUME NEW e \in 0 .. i, NEW c \in Label
       PROVE  z'[graph.start[e]][c] =
                SumFunctionOnSet(edge_weight, new(graph.start[e], c)) % M
  <2>1. CASE graph.start[e] = s
    BY <1>9, <2>1
  <2>2. CASE graph.start[e] # s
    <3>1. e \in 0 .. i - 1 /\ graph.start[e] \in Node
      BY <1>1, <2>2
    <3>2. new(graph.start[e], c) = old(graph.start[e], c)
      BY <1>6, <2>2, <3>1
    <3>3. z'[graph.start[e]] = z[graph.start[e]]
      BY <1>2, <1>5, <2>2, <3>1
    <3>4. z[graph.start[e]][c] = sum(graph.start[e], c) % M
      BY <1>1, <3>1 DEF SumInv
    <3> QED
      BY <3>2, <3>3, <3>4
  <2> QED
    BY <2>1, <2>2
<1>13. SumInv'
  <2>1. i' - 1 = i /\ Node' = Node /\ Label' = Label /\ NoWeight' = NoWeight
    BY <1>1 DEF Node, Label, NoWeight
  <2>2. \A u \in Node' :
          (\A e \in Edges(graph') : graph'.start[e] # u) => z'[u] = NoWeight'
    BY <1>1, <1>11, <2>1
  <2>3. \A e \in 0 .. i' - 1, c \in Label' :
          z'[graph'.start[e]][c] =
            SumFunctionOnSet(edge_weight', Seen(graph', i', w', graph'.start[e], c))
              % M
    BY <1>1, <1>12, <2>1
  <2> QED
    BY <2>2, <2>3 DEF SumInv
<1> QED
  BY <1>10, <1>13

LEMMA NextSums ==
  TypeOK /\ StoredInv /\ SumInv /\ [Next]_vars => StoredInv' /\ SumInv'
<1> SUFFICES ASSUME TypeOK, StoredInv, SumInv, [Next]_vars
             PROVE  StoredInv' /\ SumInv'
  OBVIOUS
<1>1. CASE ReadEdge
  BY <1>1, ReadEdgeSums
<1>2. CASE RejectWeight
  BY <1>2 DEF RejectWeight, StoredInv, SumInv, StoredEdges, Stored, Node,
              NoWeight, Label
<1>3. CASE EndRead
  BY <1>3, EndReadSums
<1>4. CASE AddEdge
  BY <1>4, AddEdgeSums
<1>5. CASE Relabel
  <2>1. pc = "sum" /\ pc' \in {"sum", "print"} /\ i' = 0
        /\ UNCHANGED <<graph, edge_weight, tot_weight, z>>
    BY <1>5 DEF Relabel
  <2>2. 0 .. i' - 1 = {} /\ StoredEdges' = StoredEdges
    BY <2>1 DEF StoredEdges
  <2>3. SumInv'
    BY <2>1, <2>2 DEF SumInv, Node, NoWeight, Label
  <2>4. StoredInv'
    BY <2>1, <2>2 DEF StoredInv, Stored
  <2> QED
    BY <2>3, <2>4
<1>6. CASE PrintResult
  BY <1>6 DEF PrintResult, StoredInv, SumInv, StoredEdges, Stored, Node,
              NoWeight, Label
<1>7. CASE UNCHANGED vars
  BY <1>7 DEF vars, StoredInv, SumInv, StoredEdges, Stored, Node,
              NoWeight, Label
<1> QED
  BY <1>1, <1>2, <1>3, <1>4, <1>5, <1>6, <1>7 DEF Next, Step, Stopped

(* The graph as it is stored, and what is summed up of it.                 *)
StoredGraph == [graph EXCEPT !.weight = edge_weight]

LEMMA StoredIsGraph ==
  ASSUME TypeOK, pc \notin {"read", "failed"}
  PROVE  /\ IsGraph(StoredGraph) /\ IsGraph(graph)
         /\ Nodes(StoredGraph) = Node /\ Edges(StoredGraph) = Edges(graph)
         /\ StoredGraph.start = graph.start /\ StoredGraph.end = graph.end
         /\ StoredGraph.weight = edge_weight
         /\ StoredGraph.nodes = graph.nodes /\ StoredGraph.edges = graph.edges
<1>1. IsGraph(graph) /\ edge_weight \in [Edges(graph) -> 0 .. WEIGHT_MAX]
  BY DEF TypeOK, StoredEdges
<1>2. edge_weight \in [Edges(graph) -> 0 .. WeightModulus - 1]
  <2>1. 0 .. WEIGHT_MAX \subseteq 0 .. WeightModulus - 1
    BY RscAssumption, ModulusAssumption
  <2> QED
    BY <1>1, <2>1
<1>3. /\ StoredGraph.start = graph.start /\ StoredGraph.end = graph.end
      /\ StoredGraph.weight = edge_weight
      /\ StoredGraph.nodes = graph.nodes /\ StoredGraph.edges = graph.edges
      /\ StoredGraph = [nodes |-> graph.nodes, edges |-> graph.edges,
                         start |-> graph.start, end |-> graph.end,
                         weight |-> edge_weight]
  BY <1>1 DEF StoredGraph, IsGraph
<1>4. Nodes(StoredGraph) = Node /\ Edges(StoredGraph) = Edges(graph)
  BY <1>3 DEF Nodes, Edges, Node
<1> QED
  BY <1>1, <1>2, <1>3, <1>4 DEF IsGraph, Node

LEMMA SumsComplete ==
  ASSUME TypeOK, StoredInv, SumInv, pc = "sum", AllEdges,
         NEW u \in Node, NEW c \in Label
  PROVE  z[u][c] = OutWeight(StoredGraph, u, Block(w, c))
<1> DEFINE S == EdgesTo(StoredGraph, u, Block(w, c))
<1>1. /\ OutWeight(StoredGraph, u, Block(w, c)) =
           SumFunctionOnSet(edge_weight, S) % WeightModulus
      /\ StoredGraph.start = graph.start /\ StoredGraph.end = graph.end
      /\ Edges(StoredGraph) = Edges(graph) /\ IsGraph(graph)
  BY OutWeightIs, StoredIsGraph
<1>2. Edges(graph) = 0 .. i - 1 /\ w \in [Node -> Label]
      /\ \A k \in Edges(graph) : graph.end[k] \in Node
  BY <1>1 DEF AllEdges, Edges, TypeOK, IsGraph, Node
<1>3. S = Seen(graph, i, w, u, c)
  BY <1>1, <1>2 DEF EdgesTo, Seen, Block, Edges
<1>4. CASE \E e \in Edges(graph) : graph.start[e] = u
  BY <1>1, <1>2, <1>3, <1>4 DEF SumInv
<1>5. CASE \A e \in Edges(graph) : graph.start[e] # u
  <2>1. z[u][c] = 0
    BY <1>5 DEF SumInv, NoWeight
  <2>2. S = {}
    BY <1>1, <1>5 DEF EdgesTo, Edges
  <2>3. SumFunctionOnSet(edge_weight, S) = 0
    BY <2>2, SumEmpty
  <2>4. 0 % WeightModulus = 0
    BY ModulusAssumption
  <2> QED
    BY <1>1, <2>1, <2>3, <2>4
<1> QED
  BY <1>4, <1>5

(* The total never wraps, and the sums made in place, edge by edge, are    *)
(* those of the labels of the moment, whatever z held before               *)
(* (rsc.cpp:17-23, 57, 71-78).                                             *)
THEOREM SumsAreExact == Spec => []SumsExact
<1>1. Init => TypeOK /\ StoredInv /\ SumInv
  BY InitTypeOK, InitSums
<1>2. TypeOK /\ StoredInv /\ SumInv /\ [Next]_vars
        => (TypeOK /\ StoredInv /\ SumInv)'
  BY NextTypeOK, NextSums
<1>3. TypeOK /\ StoredInv /\ SumInv => SumsExact
  <2> SUFFICES ASSUME TypeOK, StoredInv, SumInv PROVE SumsExact
    OBVIOUS
  <2>1. tot_weight = SumFunctionOnSet(edge_weight, DOMAIN edge_weight)
    BY DEF StoredInv, TypeOK
  <2>2. ASSUME pc = "sum", AllEdges, NEW u \in Node, NEW c \in Label
        PROVE  z[u][c] = OutWeight([graph EXCEPT !.weight = edge_weight],
                                   u, Block(w, c))
    BY <2>2, SumsComplete DEF StoredGraph
  <2> QED
    BY <2>1, <2>2 DEF SumsExact
<1> QED
  BY <1>1, <1>2, <1>3, PTL DEF Spec

-----------------------------------------------------------------------------
(* What the classes are.  SameSums says that two nodes send the same       *)
(* weight to every block of a labelling.                                   *)

SameSums(g, p, u, v) ==
  \A B \in Blocks(p) : OutWeight(g, u, B) = OutWeight(g, v, B)

FirstLabels == w = [u \in Node |-> 1] /\ new_node_n = graph.nodes

(* In an ideal run the labels are the classes of the sums over labels that *)
(* they refine.                                                            *)
FromSums ==
  /\ new_node_n = Cardinality(Range(w))
  /\ \E p \in [Node -> Label] :
       /\ Refines(Blocks(w), Blocks(p))
       /\ \A u, v \in Node : w[u] = w[v] <=> SameSums(StoredGraph, p, u, v)

ClassInv ==
  /\ pc \in {"read", "failed"} => FirstLabels
  /\ ideal /\ pc = "sum" => FirstLabels \/ FromSums
  /\ ideal /\ pc \in {"print", "done"} =>
       /\ new_node_n = Cardinality(Range(w))
       /\ StablePartition(StoredGraph, Blocks(w))
  /\ pc \notin {"read", "failed"} =>
       \A q \in [Node -> Node] :
         StablePartition(StoredGraph, Blocks(q)) => Refines(Blocks(q), Blocks(w))
  /\ pc # "done" => result = NoResult

(* Equal sums and equal weights to all blocks are the same.                *)
LEMMA EqualSums ==
  ASSUME TypeOK, StoredInv, SumInv, pc = "sum", AllEdges,
         NEW u \in Node, NEW v \in Node
  PROVE  z[u] = z[v] <=> SameSums(StoredGraph, w, u, v)
<1>1. z[u] = z[v] <=> \A c \in Label : z[u][c] = z[v][c]
  <2>1. z[u] \in [Label -> 0 .. WeightModulus - 1]
        /\ z[v] \in [Label -> 0 .. WeightModulus - 1]
    BY DEF TypeOK
  <2> QED
    BY <2>1
<1>2. \A c \in Label : z[u][c] = OutWeight(StoredGraph, u, Block(w, c))
                       /\ z[v][c] = OutWeight(StoredGraph, v, Block(w, c))
  BY SumsComplete
<1>3. \A c \in Label \ Range(w) :
        OutWeight(StoredGraph, u, Block(w, c)) =
          OutWeight(StoredGraph, v, Block(w, c))
  <2> SUFFICES ASSUME NEW c \in Label \ Range(w)
               PROVE  OutWeight(StoredGraph, u, Block(w, c)) =
                        OutWeight(StoredGraph, v, Block(w, c))
    OBVIOUS
  <2>1. Block(w, c) = {}
    BY DEF Block, Range
  <2>2. EdgesTo(StoredGraph, u, Block(w, c)) =
          EdgesTo(StoredGraph, v, Block(w, c))
    BY <2>1 DEF EdgesTo
  <2> QED
    BY <2>2, OutWeightIs
<1>4. Range(w) \subseteq Label
  BY DEF TypeOK, Range
<1> QED
  BY <1>1, <1>2, <1>3, <1>4 DEF SameSums, Blocks

(* Nodes with equal hashes, and only they, get equal labels.               *)
LEMMA RelabelClasses ==
  ASSUME TypeOK, Relabel
  PROVE  /\ w' \in [Node -> Node]
         /\ \A u, v \in Node : z[u] = z[v] => w'[u] = w'[v]
         /\ ideal => \A u, v \in Node : w'[u] = w'[v] => z[u] = z[v]
<1>1. PICK h \in Hashes(Range(z)) :
        w' = [u \in Node |-> Min({v \in Node : h[z[v]] = h[z[u]]})]
  BY DEF Relabel
<1> DEFINE same(u) == {v \in Node : h[z[v]] = h[z[u]]}
<1>2. \A u \in Node : Min(same(u)) \in same(u)
  <2> SUFFICES ASSUME NEW u \in Node PROVE Min(same(u)) \in same(u)
    OBVIOUS
  <2>1. Node \subseteq Nat
    BY DEF Node, Nodes, TypeOK, IsGraph
  <2>2. same(u) \subseteq Nat /\ same(u) # {}
    BY <2>1
  <2> HIDE DEF same
  <2> QED
    BY <2>2, MinOfNat
<1>3. \A u \in Node : w'[u] = Min(same(u))
  BY <1>1
<1>4. w' \in [Node -> Node]
  BY <1>1, <1>2
<1>5. \A u, v \in Node : z[u] = z[v] => w'[u] = w'[v]
  BY <1>3
<1>6. ASSUME ideal, NEW u \in Node, NEW v \in Node, w'[u] = w'[v]
      PROVE  z[u] = z[v]
  <2>1. w'[u] \in same(u) /\ w'[v] \in same(v)
    BY <1>2, <1>3
  <2>2. h[z[u]] = h[z[v]]
    BY <1>6, <2>1
  <2>3. h = [s \in Range(z) |-> s]
    BY <1>1, <1>6 DEF Hashes
  <2>4. z[u] \in Range(z) /\ z[v] \in Range(z)
    BY DEF TypeOK, Range
  <2> QED
    BY <2>2, <2>3, <2>4
<1> QED
  BY <1>4, <1>5, <1>6

(* What a stable labelling keeps together an iteration keeps together.     *)
LEMMA LumpsOnly ==
  ASSUME TypeOK, StoredInv, SumInv, Relabel,
         NEW q \in [Node -> Node], StablePartition(StoredGraph, Blocks(q)),
         Refines(Blocks(q), Blocks(w))
  PROVE  Refines(Blocks(q), Blocks(w'))
<1>1. /\ pc = "sum" /\ AllEdges
      /\ w \in [Node -> Label] /\ w' \in [Node -> Node]
      /\ IsGraph(StoredGraph) /\ IsFiniteSet(Node)
  <2>1. IsFiniteSet(Node)
    <3>1. graph.nodes \in Nat
      BY DEF TypeOK, IsGraph
    <3> QED
      BY <3>1, FS_Interval DEF Node, Nodes
  <2> QED
    BY <2>1, RelabelClasses, StoredIsGraph DEF Relabel, TypeOK
<1>2. ASSUME NEW u \in Node, NEW v \in Node, q[u] = q[v]
      PROVE  w'[u] = w'[v]
  <2>1. \A C \in Blocks(q) :
          OutWeight(StoredGraph, u, C) = OutWeight(StoredGraph, v, C)
    <3>1. Block(q, q[u]) \in Blocks(q)
          /\ u \in Block(q, q[u]) /\ v \in Block(q, q[u])
      BY <1>2, BlockOfNode
    <3> QED
      BY <3>1 DEF StablePartition
  <2>2. \A c : OutWeight(StoredGraph, u, Block(w, c)) =
                 OutWeight(StoredGraph, v, Block(w, c))
    BY <1>1, <2>1, SameWeightCoarser
  <2>3. SameSums(StoredGraph, w, u, v)
    BY <2>2 DEF SameSums, Blocks
  <2>4. z[u] = z[v]
    BY <1>1, <2>3, EqualSums
  <2> QED
    BY <2>4, RelabelClasses
<1> QED
  BY <1>1, <1>2, RefinesByLabels

(* With ideal hashes an iteration only splits classes.                     *)
LEMMA SplitsOnly ==
  ASSUME TypeOK, StoredInv, SumInv, ClassInv, Relabel, ideal
  PROVE  Refines(Blocks(w'), Blocks(w))
<1>1. /\ pc = "sum" /\ AllEdges
      /\ w \in [Node -> Label] /\ w' \in [Node -> Node]
      /\ IsGraph(StoredGraph) /\ IsFiniteSet(Node)
  <2>1. IsFiniteSet(Node)
    <3>1. graph.nodes \in Nat
      BY DEF TypeOK, IsGraph
    <3> QED
      BY <3>1, FS_Interval DEF Node, Nodes
  <2> QED
    BY <2>1, RelabelClasses, StoredIsGraph DEF Relabel, TypeOK
<1>2. ASSUME NEW u \in Node, NEW v \in Node, w'[u] = w'[v]
      PROVE  w[u] = w[v]
  <2>1. CASE FirstLabels
    BY <2>1 DEF FirstLabels
  <2>2. CASE FromSums
    <3>1. PICK p \in [Node -> Label] :
            /\ Refines(Blocks(w), Blocks(p))
            /\ \A x, y \in Node : w[x] = w[y] <=> SameSums(StoredGraph, p, x, y)
      BY <2>2 DEF FromSums
    <3>2. SameSums(StoredGraph, w, u, v)
      BY <1>1, <1>2, RelabelClasses, EqualSums
    <3>3. \A c : OutWeight(StoredGraph, u, Block(p, c)) =
                   OutWeight(StoredGraph, v, Block(p, c))
      BY <1>1, <3>1, <3>2, SameWeightCoarser DEF SameSums
    <3>4. SameSums(StoredGraph, p, u, v)
      BY <3>3 DEF SameSums, Blocks
    <3> QED
      BY <3>1, <3>4
  <2> QED
    BY <1>1, <2>1, <2>2 DEF ClassInv
<1> QED
  BY <1>1, <1>2, RefinesByLabels

(* When the number of classes repeats, the classes have.                   *)
LEMMA SettledIsStable ==
  ASSUME TypeOK, StoredInv, SumInv, ClassInv, Relabel, ideal,
         new_node_n' = new_node_n
  PROVE  StablePartition(StoredGraph, Blocks(w'))
<1>1. /\ pc = "sum" /\ AllEdges
      /\ w \in [Node -> Label] /\ w' \in [Node -> Node]
      /\ IsFiniteSet(Node) /\ Cardinality(Node) = graph.nodes
      /\ Refines(Blocks(w'), Blocks(w))
      /\ Cardinality(Range(w')) = new_node_n
      /\ IsFiniteSet(Range(w'))
  <2>1. IsFiniteSet(Node) /\ Cardinality(Node) = graph.nodes
    <3>1. graph.nodes \in Nat /\ Node = 0 .. graph.nodes - 1
      BY DEF TypeOK, IsGraph, Node, Nodes
    <3> QED
      BY <3>1, CountInterval
  <2>2. w' \in [Node -> Node]
    BY RelabelClasses
  <2>3. Range(w') \subseteq Node
    BY <2>2 DEF Range
  <2>4. IsFiniteSet(Range(w'))
    BY <2>1, <2>3, FS_Subset
  <2> QED
    BY <2>1, <2>2, <2>4, SplitsOnly DEF Relabel, TypeOK
<1>2. CASE FirstLabels
  <2> DEFINE id == [u \in Node |-> u]
  <2>1. Range(id) = Node /\ DOMAIN id = Node
    BY DEF Range
  <2>2. Refines(Blocks(id), Blocks(w'))
    <3>1. \A u, v \in Node : id[u] = id[v] => w'[u] = w'[v]
      OBVIOUS
    <3> HIDE DEF id
    <3> QED
      BY <3>1, <1>1, <2>1, RefinesByLabels
  <2>3. Cardinality(Range(id)) = Cardinality(Range(w'))
    BY <1>1, <1>2, <2>1 DEF FirstLabels
  <2>4. \A u, v \in Node : id[u] = id[v] <=> w'[u] = w'[v]
    <3> HIDE DEF id
    <3> QED
      BY <1>1, <2>1, <2>2, <2>3, SameCount
  <2>5. \A u, v \in Node : w'[u] = w'[v] => u = v
    BY <2>4
  <2>6. \A B \in Blocks(w') : \A u, v \in B : u = v
    BY <1>1, <2>5 DEF Blocks, Block
  <2> QED
    BY <2>6 DEF StablePartition
<1>3. CASE FromSums
  <2>1. \A u, v \in Node : w'[u] = w'[v] <=> w[u] = w[v]
    BY <1>1, <1>3, SameCount DEF FromSums
  <2>2. Refines(Blocks(w), Blocks(w'))
    BY <1>1, <2>1, RefinesByLabels
  <2>3. Blocks(w) = Blocks(w')
    <3>1. Blocks(w) \subseteq Blocks(w')
      BY <1>1, <2>2, RefinesAntisymmetric
    <3>2. Blocks(w') \subseteq Blocks(w)
      BY <1>1, <2>2, RefinesAntisymmetric
    <3> QED
      BY <3>1, <3>2
  <2> SUFFICES ASSUME NEW B \in Blocks(w'), NEW C \in Blocks(w'),
                      NEW u \in B, NEW v \in B
               PROVE  OutWeight(StoredGraph, u, C) = OutWeight(StoredGraph, v, C)
    BY DEF StablePartition
  <2>4. u \in Node /\ v \in Node /\ w'[u] = w'[v]
    BY <1>1 DEF Blocks, Block
  <2>5. SameSums(StoredGraph, w, u, v)
    BY <1>1, <2>4, RelabelClasses, EqualSums
  <2> QED
    BY <2>3, <2>5 DEF SameSums
<1> QED
  BY <1>1, <1>2, <1>3 DEF ClassInv

LEMMA RelabelClassInv ==
  TypeOK /\ StoredInv /\ SumInv /\ ClassInv /\ Relabel => ClassInv'
<1> SUFFICES ASSUME TypeOK, StoredInv, SumInv, ClassInv, Relabel
             PROVE  ClassInv'
  OBVIOUS
<1>1. /\ pc = "sum" /\ AllEdges /\ pc' \in {"sum", "print"}
      /\ UNCHANGED <<graph, ideal, edge_weight, result>>
      /\ new_node_n' = Cardinality(Range(w'))
      /\ pc' = "print" => new_node_n' = new_node_n
      /\ w \in [Node -> Label] /\ w' \in [Node -> Node]
  BY RelabelClasses DEF Relabel, TypeOK, Settled
<1>2. Node' = Node /\ Label' = Label /\ StoredGraph' = StoredGraph
  BY <1>1 DEF Node, Label, StoredGraph
<1>3. ASSUME ideal PROVE FromSums'
  <2>1. Refines(Blocks(w'), Blocks(w))
    BY <1>3, SplitsOnly
  <2>2. \A u, v \in Node : w'[u] = w'[v] <=> SameSums(StoredGraph, w, u, v)
    BY <1>1, <1>3, RelabelClasses, EqualSums
  <2> QED
    BY <1>1, <1>2, <2>1, <2>2 DEF FromSums
<1>4. ASSUME ideal, pc' = "print"
      PROVE  StablePartition(StoredGraph', Blocks(w'))
  BY <1>1, <1>2, <1>4, SettledIsStable
<1>5. ASSUME NEW q \in [Node -> Node], StablePartition(StoredGraph, Blocks(q))
      PROVE  Refines(Blocks(q), Blocks(w'))
  BY <1>1, <1>5, LumpsOnly DEF ClassInv
<1>6. result' = NoResult'
  BY <1>1 DEF ClassInv, NoResult
<1> QED
  BY <1>1, <1>2, <1>3, <1>4, <1>5, <1>6 DEF ClassInv

LEMMA ClassFrame ==
  ASSUME ClassInv, pc' = pc,
         UNCHANGED <<graph, ideal, edge_weight, w, new_node_n, result>>
  PROVE  ClassInv'
BY DEF ClassInv, FirstLabels, FromSums, StoredGraph, Node, Label, NoResult

LEMMA NextClassInv ==
  TypeOK /\ StoredInv /\ SumInv /\ ClassInv /\ [Next]_vars => ClassInv'
<1> SUFFICES ASSUME TypeOK, StoredInv, SumInv, ClassInv, [Next]_vars
             PROVE  ClassInv'
  OBVIOUS
<1>1. CASE ReadEdge \/ RejectWeight
  <2>1. pc = "read" /\ pc' \in {"read", "failed"}
        /\ UNCHANGED <<graph, w, new_node_n, result>>
    BY <1>1 DEF ReadEdge, RejectWeight
  <2> QED
    BY <2>1 DEF ClassInv, FirstLabels, Node, NoResult
<1>2. CASE EndRead
  <2>1. pc = "read" /\ pc' = "sum"
        /\ UNCHANGED <<graph, edge_weight, w, new_node_n, result>>
    BY <1>2 DEF EndRead
  <2>2. FirstLabels /\ FirstLabels' /\ Node' = Node
    BY <2>1 DEF ClassInv, FirstLabels, Node
  <2>3. ASSUME NEW q \in [Node -> Node] PROVE Refines(Blocks(q), Blocks(w'))
    BY <2>1, <2>2, RefinesByLabels DEF FirstLabels
  <2> QED
    BY <2>1, <2>2, <2>3 DEF ClassInv, NoResult
<1>3. CASE AddEdge
  BY <1>3, ClassFrame DEF AddEdge
<1>4. CASE Relabel
  BY <1>4, RelabelClassInv
<1>5. CASE PrintResult
  BY <1>5 DEF PrintResult, ClassInv, StoredGraph, Node
<1>6. CASE UNCHANGED vars
  BY <1>6, ClassFrame DEF vars
<1> QED
  BY <1>1, <1>2, <1>3, <1>4, <1>5, <1>6 DEF Next, Step, Stopped

RscInv == TypeOK /\ StoredInv /\ SumInv /\ ClassInv

THEOREM InvariantHolds == Spec => []RscInv
<1>1. Init => RscInv
  BY InitTypeOK, InitSums DEF RscInv, ClassInv, FirstLabels, Init
<1>2. RscInv /\ [Next]_vars => RscInv'
  BY NextTypeOK, NextSums, NextClassInv DEF RscInv
<1> QED
  BY <1>1, <1>2, PTL DEF Spec

(* The answers are about the graph that is stored.  It is the graph on     *)
(* standard input when no weight is beyond the limit: beyond it weights    *)
(* may be cut to less without notice, which HeavyIsRejected is about.      *)
NothingCut == \A g \in Graphs : \A e \in Edges(g) : g.weight[e] <= WEIGHT_MAX

LEMMA StoredIsInput ==
  ASSUME NothingCut, RscInv, pc \notin {"read", "failed"}
  PROVE  StoredGraph = graph
<1>1. IsGraph(graph) /\ graph \in Graphs
  BY DEF RscInv, TypeOK, StoredInv
<1>2. \A e \in Edges(graph) : Stored(e) = graph.weight[e]
  <2> SUFFICES ASSUME NEW e \in Edges(graph)
               PROVE  graph.weight[e] % (WEIGHT_MAX + 1) = graph.weight[e]
    BY DEF Stored
  <2>1. graph.weight[e] \in 0 .. WEIGHT_MAX
    BY <1>1, RscAssumption, ModulusAssumption DEF NothingCut, IsGraph
  <2> QED
    BY <2>1, RscAssumption
<1>3. edge_weight = [e \in Edges(graph) |-> Stored(e)]
  BY DEF RscInv, StoredInv, StoredEdges
<1>4. edge_weight = graph.weight
  BY <1>1, <1>2, <1>3 DEF IsGraph
<1>5. graph = [nodes |-> graph.nodes, edges |-> graph.edges,
               start |-> graph.start, end |-> graph.end,
               weight |-> graph.weight]
  BY <1>1 DEF IsGraph
<1> QED
  BY <1>4, <1>5 DEF StoredGraph

(* With sums that collide at will, no partition that joins what the        *)
(* program has separated is a reduction: its answer is never too large.    *)
THEOREM NeverTooLarge ==
  ASSUME NothingCut
  PROVE  Spec => []CollisionsOnlyLump
<1>1. RscInv => CollisionsOnlyLump
  <2> SUFFICES ASSUME RscInv, NEW q \in [Node -> Node],
                      StablePartition(graph, Blocks(q))
               PROVE  Refines(Blocks(q), Blocks(w))
    BY DEF CollisionsOnlyLump
  <2>1. CASE pc \in {"read", "failed"}
    <3>1. w = [u \in Node |-> 1]
      BY <2>1 DEF RscInv, ClassInv, FirstLabels
    <3> QED
      BY <3>1, RefinesByLabels
  <2>2. CASE pc \notin {"read", "failed"}
    BY <2>2, StoredIsInput DEF RscInv, ClassInv
  <2> QED
    BY <2>1, <2>2
<1> QED
  BY <1>1, InvariantHolds, PTL

(* Lumping's notions, under the names its instance gives them.             *)
LEMMA SameWeights ==
  \A g, u, C : Reduction!OutWeight(g, u, C) = OutWeight(g, u, C)
BY DEF Reduction!OutWeight, OutWeight, Reduction!Edges, Edges,
       Reduction!SumFunctionOnSet, SumFunctionOnSet,
       Reduction!FoldFunctionOnSet, FoldFunctionOnSet,
       Reduction!MapThenFoldSet, MapThenFoldSet

LEMMA SameNotions ==
  /\ \A g : Reduction!IsGraph(g) <=> IsGraph(g)
  /\ \A g, P : Reduction!StablePartition(g, P) <=> StablePartition(g, P)
  /\ \A P, Q : Reduction!Refines(P, Q) <=> Refines(P, Q)
  /\ \A g, P : Reduction!Coarsest(g, P) <=> Coarsest(g, P)
  /\ \A g : Reduction!Nodes(g) = Nodes(g)
  /\ \A S : Reduction!Cardinality(S) = Cardinality(S)
<1>1. \A g : Reduction!Nodes(g) = Nodes(g)
  BY DEF Reduction!Nodes, Nodes
<1>2. \A g : Reduction!IsGraph(g) <=> IsGraph(g)
  BY DEF Reduction!IsGraph, IsGraph, Reduction!Edges, Edges,
         Reduction!Nodes, Nodes
<1>3. \A g, P : Reduction!StablePartition(g, P) <=> StablePartition(g, P)
  BY SameWeights DEF Reduction!StablePartition, StablePartition
<1>4. \A P, Q : Reduction!Refines(P, Q) <=> Refines(P, Q)
  BY DEF Reduction!Refines, Refines
<1>5. \A q : Reduction!Blocks(q) = Blocks(q)
  BY DEF Reduction!Blocks, Blocks, Reduction!Block, Block,
         Reduction!Range, Range
<1>6. \A g, P : Reduction!Coarsest(g, P) <=> Coarsest(g, P)
  BY <1>1, <1>3, <1>4, <1>5 DEF Reduction!Coarsest, Coarsest
<1>7. \A S : Reduction!Cardinality(S) = Cardinality(S)
  BY DEF Reduction!Cardinality, Cardinality
<1> QED
  BY <1>1, <1>2, <1>3, <1>4, <1>6, <1>7

(* With ideal hashes the program implements Lumping: iterations only split *)
(* classes, and what is printed is the coarsest stable partition and the   *)
(* number of its blocks (rsc.cpp:121-147).                                 *)
THEOREM AnswersCoarsest ==
  ASSUME NothingCut
  PROVE  Spec => AnswerIsCoarsest
<1>1. Init => Reduction!Init
  <2> SUFFICES ASSUME Init PROVE Reduction!Init
    OBVIOUS
  <2>1. IsGraph(graph) /\ pc = "read" /\ result = NoResult
    BY InitTypeOK DEF Init, TypeOK
  <2> QED
    BY <2>1, SameNotions
    DEF Reduction!Init, Reduction!NoResult, NoResult, Node
<1>2. RscInv /\ [Next]_vars /\ ideal => Splits
  <2> SUFFICES ASSUME RscInv, [Next]_vars, ideal, pc = "sum"
               PROVE  Refines(Blocks(w'), Blocks(w))
    BY DEF Splits
  <2>1. CASE Relabel
    BY <2>1, SplitsOnly DEF RscInv
  <2>2. CASE ~Relabel
    <3>1. w' = w
      BY <2>2 DEF Next, Step, Stopped, ReadEdge, RejectWeight, EndRead,
                  AddEdge, PrintResult, vars
    <3> QED
      BY <3>1, RefinesByLabels
  <2> QED
    BY <2>1, <2>2
<1>3. ASSUME RscInv, PrintResult, ideal PROVE Reduction!Answer
  <2>1. /\ pc = "print" /\ pc' = "done" /\ w' = w /\ graph' = graph
        /\ result' = [done |-> 1, nodes |-> new_node_n] /\ result = NoResult
        /\ w \in [Node -> Label]
    BY <1>3 DEF PrintResult, RscInv, ClassInv, TypeOK
  <2>2. StoredGraph = graph /\ StablePartition(graph, Blocks(w))
        /\ new_node_n = Cardinality(Range(w))
    BY <1>3, <2>1, StoredIsInput DEF RscInv, ClassInv
  <2>3. Coarsest(graph, Blocks(w))
    BY <1>3, <2>1, <2>2 DEF Coarsest, RscInv, ClassInv, Node
  <2>4. Cardinality(Blocks(w)) = new_node_n
    <3>1. graph.nodes \in Nat
      BY <1>3 DEF RscInv, TypeOK, IsGraph
    <3>2. IsFiniteSet(Label)
      BY <3>1, FS_Interval DEF Label
    <3>3. Range(w) \subseteq Label
      BY <2>1 DEF Range
    <3> QED
      BY <3>2, <3>3, <2>2, FS_Subset, CountBlocks
  <2>5. Refines({{u} : u \in Node}, Blocks(w))
    <3>1. \A u \in Node : \E C \in Blocks(w) : u \in C
      BY <2>1, BlockOfNode
    <3> QED
      BY <3>1 DEF Refines
  <2> DEFINE before == IF pc = "done" THEN Blocks(w) ELSE {{u} : u \in Node}
             after == IF pc' = "done" THEN Blocks(w') ELSE {{u} : u \in Node'}
  <2>6. before = {{u} : u \in Node} /\ after = Blocks(w)
    BY <2>1
  <2>7. /\ result = Reduction!NoResult
        /\ Reduction!Refines(before, after)
        /\ Reduction!StablePartition(graph, after)
        /\ result'.nodes = Reduction!Cardinality(after)
        /\ result'.done \in {0, 1}
        /\ Reduction!Coarsest(graph, after)
    BY <2>1, <2>2, <2>3, <2>4, <2>5, <2>6, SameNotions
    DEF Reduction!NoResult, NoResult
  <2> QED
    BY <2>1, <2>7 DEF Reduction!Answer
<1>4. ASSUME RscInv, [Next]_vars, ideal
      PROVE  [Reduction!Next]_Reduction!vars
  <2>1. CASE PrintResult
    BY <1>3, <1>4, <2>1 DEF Reduction!Next
  <2>2. CASE ~PrintResult
    <3>1. UNCHANGED <<graph, result>> /\ (pc' = "done" <=> pc = "done")
          /\ (pc = "done" => w' = w) /\ Node' = Node
      BY <1>4, <2>2 DEF Next, Step, Stopped, ReadEdge, RejectWeight, EndRead,
                        AddEdge, Relabel, vars, Node
    <3> QED
      BY <3>1 DEF Reduction!vars
  <2> QED
    BY <2>1, <2>2
<1>5. RscInv /\ [Next]_vars
        => [ideal => Splits /\ [Reduction!Next]_Reduction!vars]_vars
  BY <1>2, <1>4
<1> QED
  BY <1>1, <1>5, InvariantHolds, PTL DEF Spec, AnswerIsCoarsest
=============================================================================
