-------------------------- MODULE CompactionProofs --------------------------
(***************************************************************************)
(* The in-place quotient of rbsc for every edge list and every labelling:  *)
(* its indices stay in range, it never reads what it wrote, it leaves at   *)
(* most one edge between two nodes, and what it leaves is the quotient.    *)
(***************************************************************************)
EXTENDS Compaction, BaseLemmas

Labelled == {u \in Node : w[u] # node_n}

(* While labels are completed: those in use have no gap, and the nodes     *)
(* visited have one; the edge list is untouched.                           *)
LabelInv ==
  pc = "label" =>
    /\ {w[u] : u \in Labelled} = 0 .. new_node_n - 1
    /\ \A u \in 0 .. i - 1 : w[u] # node_n /\ weight_indexes[u] = edge_n
    /\ edge_start = graph.start
    /\ edge_end = graph.end
    /\ edge_weight = graph.weight
    /\ new_edge_n = 0

(* While edges are visited: weight_indexes leads to edges written.  The    *)
(* sources written have been considered; those of the current group are    *)
(* the edges from first_edge_i on, and weight_indexes finds each of them.  *)
Current(k) == k >= first_edge_i
EdgeInv ==
  pc # "label" =>
    /\ new_edge_n <= i
    /\ i > 0 => considered_nodes[w[current_node]]
    /\ \A t \in Node : weight_indexes[t] \in (0 .. new_edge_n - 1) \cup {edge_n}
    /\ \A k \in 0 .. new_edge_n - 1 :
         /\ considered_nodes[edge_start[k]]
         /\ counting /\ i > 0 =>
              (Current(k) <=> edge_start[k] = w[current_node])
         /\ Current(k) => weight_indexes[edge_end[k]] = k

CompactionInv ==
  TypeOK /\ LabelInv /\ EdgeInv /\ UnreadIntact /\ NoParallelEdges

-----------------------------------------------------------------------------
(* Labels without a gap leave room for one more while a node has none.     *)
LEMMA RoomForLabel ==
  ASSUME NEW n \in Nat, NEW m \in Nat, NEW f \in [0 .. n - 1 -> 0 .. n],
         {f[u] : u \in {v \in 0 .. n - 1 : f[v] # n}} = 0 .. m - 1
  PROVE  /\ m <= n
         /\ \A u \in 0 .. n - 1 : f[u] = n => m < n
<1> DEFINE S == {v \in 0 .. n - 1 : f[v] # n}
<1>1. /\ IsFiniteSet(0 .. n - 1) /\ Cardinality(0 .. n - 1) = n
      /\ IsFiniteSet(0 .. m - 1) /\ Cardinality(0 .. m - 1) = m
  BY FS_Interval
<1>2. IsFiniteSet(S) /\ Cardinality(S) \in Nat /\ Cardinality(S) <= n
  BY CountInInterval
<1> DEFINE g == [u \in S |-> f[u]]
<1>3. g \in Surjection(S, 0 .. m - 1)
  BY DEF Surjection
<1>4. m <= Cardinality(S)
  <2> HIDE DEF g, S
  <2> QED
    BY <1>1, <1>2, <1>3, FS_Surjection
<1>5. ASSUME NEW u \in 0 .. n - 1, f[u] = n PROVE Cardinality(S) < n
  BY <1>1, <1>5, CountStrict
<1> HIDE DEF S
<1> QED
  BY <1>2, <1>4, <1>5

LEMMA InitCompactionInv == Init => CompactionInv
<1> SUFFICES ASSUME Init PROVE CompactionInv
  OBVIOUS
<1>1. IsGraph(graph) /\ node_n \in Nat /\ edge_n \in Nat
      /\ Node = 0 .. node_n - 1
  BY GraphsAssumption DEF Init, IsGraph, node_n, edge_n, Node, Nodes
<1>2. /\ given \in [0 .. node_n - 1 -> 0 .. node_n]
      /\ w = given /\ new_node_n = drawn /\ pc = "label" /\ i = 0
  BY <1>1 DEF Init
<1>3. drawn \in Nat
  <2>1. Range(given) \ {node_n} \subseteq 0 .. node_n - 1
    BY <1>1, <1>2 DEF Range
  <2> QED
    BY <2>1, <1>1, CountInInterval DEF Init
<1>4. {w[u] : u \in Labelled} = 0 .. new_node_n - 1
  <2>1. {w[u] : u \in Labelled} = Range(given) \ {node_n}
    BY <1>1, <1>2 DEF Labelled, Range
  <2> QED
    BY <1>2, <2>1 DEF Init
<1>5. drawn <= node_n
  BY <1>1, <1>2, <1>3, <1>4, RoomForLabel DEF Labelled
<1>6. /\ weight_indexes \in [Node -> 0 .. edge_n]
      /\ considered_nodes \in [Node -> BOOLEAN]
  BY <1>1 DEF Init
<1>7. /\ edge_start = graph.start /\ edge_end = graph.end
      /\ edge_weight = graph.weight /\ new_edge_n = 0
      /\ first_edge_i = 0 /\ current_node = 0 /\ counting = FALSE
  BY DEF Init
<1>8. TypeOK
  <2>1. {edge_start, edge_end} \subseteq [Edges(graph) -> Node]
        /\ edge_weight \in [Edges(graph) -> 0 .. WeightModulus - 1]
    BY <1>1, <1>7 DEF IsGraph, Node
  <2>2. /\ i \in 0 .. node_n /\ new_node_n \in 0 .. node_n
        /\ w \in [Node -> 0 .. node_n]
    BY <1>1, <1>2, <1>3, <1>5
  <2>3. /\ new_edge_n \in 0 .. edge_n /\ first_edge_i \in 0 .. new_edge_n
        /\ current_node \in Node \cup {0} /\ counting \in BOOLEAN
    <3>1. 0 \in 0 .. edge_n /\ 0 \in 0 .. 0 /\ 0 \in Node \cup {0}
      BY <1>1
    <3> QED
      BY <1>7, <3>1
  <2> QED
    BY <1>1, <1>2, <1>6, <2>1, <2>2, <2>3 DEF TypeOK
<1>9. LabelInv
  BY <1>2, <1>4, <1>7 DEF LabelInv
<1> QED
  BY <1>2, <1>8, <1>9
  DEF CompactionInv, EdgeInv, UnreadIntact, NoParallelEdges

LEMMA LabelNodeInv == CompactionInv /\ LabelNode => CompactionInv'
<1> SUFFICES ASSUME CompactionInv, LabelNode PROVE CompactionInv'
  OBVIOUS
<1>1. /\ TypeOK /\ pc = "label" /\ pc' = "label"
      /\ node_n \in Nat /\ new_node_n \in Nat /\ i \in Nat /\ edge_n \in Nat
      /\ i \in Node /\ i' = i + 1 /\ i < node_n
      /\ w \in [0 .. node_n - 1 -> 0 .. node_n]
      /\ Node = 0 .. node_n - 1
      /\ graph' = graph
  BY DEF CompactionInv, TypeOK, LabelNode, IsGraph, node_n, edge_n, Node,
         Nodes, input
<1>2. /\ {w[u] : u \in Labelled} = 0 .. new_node_n - 1
      /\ \A u \in 0 .. i - 1 : w[u] # node_n /\ weight_indexes[u] = edge_n
  BY <1>1 DEF CompactionInv, LabelInv
<1>3. w[i] = node_n => new_node_n < node_n
  BY <1>1, <1>2, RoomForLabel DEF Labelled
<1>4. /\ w' \in [Node -> 0 .. node_n]
      /\ new_node_n' \in 0 .. node_n
      /\ \A u \in 0 .. i : w'[u] # node_n
  <2>1. CASE w[i] = node_n
    <3>1. /\ w' = [w EXCEPT ![i] = new_node_n]
          /\ new_node_n' = new_node_n + 1
      BY <2>1 DEF LabelNode, NextLabel
    <3> QED
      BY <1>1, <1>2, <1>3, <2>1, <3>1
  <2>2. CASE w[i] # node_n
    <3>1. w' = w /\ new_node_n' = new_node_n
      BY <2>2 DEF LabelNode
    <3>2. new_node_n \in 0 .. node_n
      BY <1>1 DEF TypeOK
    <3> QED
      BY <1>1, <1>2, <2>2, <3>1, <3>2
  <2> QED
    BY <2>1, <2>2
<1>5. {w'[u] : u \in Labelled'} = 0 .. new_node_n' - 1
  <2>0. Labelled' = {u \in Node : w'[u] # node_n}
    BY <1>1 DEF Labelled, node_n, Node
  <2>1. CASE w[i] = node_n
    <3>1. /\ w' = [w EXCEPT ![i] = new_node_n]
          /\ new_node_n' = new_node_n + 1
      BY <2>1 DEF LabelNode, NextLabel
    <3>2. Labelled' = Labelled \cup {i}
      BY <1>1, <1>3, <2>0, <2>1, <3>1 DEF Labelled
    <3>3. {w'[u] : u \in Labelled'} = {w[u] : u \in Labelled} \cup {new_node_n}
      BY SMTT(30), <1>1, <2>1, <3>1, <3>2 DEF Labelled
    <3>4. (0 .. new_node_n - 1) \cup {new_node_n} = 0 .. new_node_n
      BY <1>1
    <3>5. new_node_n' - 1 = new_node_n
      BY <1>1, <3>1
    <3> QED
      BY <1>2, <3>3, <3>4, <3>5
  <2>2. CASE w[i] # node_n
    BY <1>2, <2>0, <2>2 DEF LabelNode, Labelled
  <2> QED
    BY <2>1, <2>2
<1>6. weight_indexes' = [weight_indexes EXCEPT ![i] = edge_n]
      /\ considered_nodes' = [considered_nodes EXCEPT ![i] = FALSE]
  BY DEF LabelNode
<1>7. TypeOK'
  <2>1. weight_indexes' \in [Node -> 0 .. edge_n]
        /\ considered_nodes' \in [Node -> BOOLEAN]
    BY SMTT(30), <1>1, <1>6 DEF TypeOK
  <2> QED
    BY <1>1, <1>4, <2>1 DEF TypeOK, LabelNode, arrays, node_n, edge_n, Node
<1>8. LabelInv'
  <2>1. \A u \in 0 .. i : weight_indexes'[u] = edge_n
    BY <1>1, <1>2, <1>6 DEF TypeOK
  <2>2. /\ edge_start' = graph.start /\ edge_end' = graph.end
        /\ edge_weight' = graph.weight /\ new_edge_n' = 0
    BY <1>1 DEF LabelNode, arrays, CompactionInv, LabelInv
  <2>3. \A u \in 0 .. i' - 1 : w'[u] # node_n /\ weight_indexes'[u] = edge_n
    BY <1>1, <1>4, <2>1
  <2> QED
    BY <1>1, <1>5, <2>2, <2>3 DEF LabelInv, node_n, edge_n
<1> QED
  BY <1>1, <1>7, <1>8
  DEF CompactionInv, EdgeInv, UnreadIntact, NoParallelEdges

LEMMA EndLabelsInv == CompactionInv /\ EndLabels => CompactionInv'
<1> SUFFICES ASSUME CompactionInv, EndLabels PROVE CompactionInv'
  OBVIOUS
<1>1. /\ TypeOK /\ pc = "label" /\ pc' = "edges" /\ i' = 0 /\ i = node_n
      /\ node_n \in Nat /\ new_node_n \in Nat /\ edge_n \in Nat
      /\ Node = 0 .. node_n - 1
      /\ UNCHANGED <<graph, w, new_node_n, edge_start, edge_end, edge_weight,
                     new_edge_n, first_edge_i, current_node, counting,
                     considered_nodes, weight_indexes>>
  BY SMTT(30) DEF CompactionInv, TypeOK, EndLabels, IsGraph, node_n, edge_n, Node,
         Nodes, input, arrays, group
<1>2. /\ {w[u] : u \in Labelled} = 0 .. new_node_n - 1
      /\ \A u \in Node : w[u] # node_n /\ weight_indexes[u] = edge_n
      /\ edge_start = graph.start /\ edge_end = graph.end
      /\ edge_weight = graph.weight /\ new_edge_n = 0
  BY <1>1 DEF CompactionInv, LabelInv
<1>3. w \in [Node -> 0 .. new_node_n - 1]
  <2>1. Labelled = Node
    BY <1>2 DEF Labelled
  <2> QED
    BY <1>1, <1>2, <2>1 DEF TypeOK
<1>4. TypeOK'
  BY <1>1, <1>3 DEF TypeOK, node_n, edge_n, Node
<1>5. EdgeInv' /\ UnreadIntact' /\ NoParallelEdges'
  BY <1>1, <1>2 DEF EdgeInv, UnreadIntact, NoParallelEdges, Node, node_n,
     edge_n
<1> QED
  BY <1>1, <1>4, <1>5 DEF CompactionInv, LabelInv

-----------------------------------------------------------------------------
(* The edge loop.                                                          *)

(* Visiting a source gives every part of EdgeInv for the group edge i is   *)
(* in: an edge written belongs to it exactly when its source has the same  *)
(* label, for a label considered before does not count again.              *)
LEMMA VisitSourceInv ==
  ASSUME CompactionInv, pc = "edges", i < edge_n, VisitSource
  PROVE  /\ i \in Edges(graph) /\ Source \in Node /\ Target \in Node
         /\ current_node' = edge_start[i] /\ current_node' \in Node
         /\ counting' \in BOOLEAN
         /\ first_edge_i' \in 0 .. new_edge_n
         /\ considered_nodes' \in [Node -> BOOLEAN]
         /\ considered_nodes'[Source]
         /\ \A k \in 0 .. new_edge_n - 1 :
              /\ considered_nodes'[edge_start[k]]
              /\ counting' => (k >= first_edge_i' <=> edge_start[k] = Source)
              /\ k >= first_edge_i' => weight_indexes[edge_end[k]] = k
<1>1. /\ node_n \in Nat /\ edge_n \in Nat /\ i \in Nat
      /\ i \in Edges(graph) /\ new_edge_n \in 0 .. edge_n
      /\ new_edge_n <= i /\ first_edge_i \in 0 .. new_edge_n
      /\ Node = 0 .. node_n - 1 /\ Edges(graph) = 0 .. edge_n - 1
      /\ new_node_n \in 0 .. node_n
      /\ w \in [Node -> 0 .. new_node_n - 1]
      /\ edge_start \in [Edges(graph) -> Node]
      /\ edge_end \in [Edges(graph) -> Node]
      /\ considered_nodes \in [Node -> BOOLEAN] /\ counting \in BOOLEAN
  <2>1. /\ IsGraph(graph) /\ i \in 0 .. edge_n /\ new_edge_n \in 0 .. edge_n
        /\ first_edge_i \in 0 .. new_edge_n /\ new_node_n \in 0 .. node_n
        /\ w \in [Node -> 0 .. new_node_n - 1]
        /\ edge_start \in [Edges(graph) -> Node]
        /\ edge_end \in [Edges(graph) -> Node]
        /\ considered_nodes \in [Node -> BOOLEAN] /\ counting \in BOOLEAN
    BY DEF CompactionInv, TypeOK
  <2>2. /\ node_n \in Nat /\ edge_n \in Nat
        /\ Node = 0 .. node_n - 1 /\ Edges(graph) = 0 .. edge_n - 1
    BY <2>1 DEF IsGraph, Nodes, Edges, Node, node_n, edge_n
  <2>3. new_edge_n <= i
    BY DEF CompactionInv, EdgeInv
  <2>4. i \in Nat /\ i \in Edges(graph)
    BY <2>1, <2>2
  <2> QED
    BY <2>1, <2>2, <2>3, <2>4
<1>2. Source \in Node /\ Target \in Node /\ edge_start[i] \in Node
  BY <1>1 DEF Source, Target
<1>3. /\ i > 0 => considered_nodes[w[current_node]]
      /\ \A k \in 0 .. new_edge_n - 1 :
           /\ considered_nodes[edge_start[k]]
           /\ counting /\ i > 0 =>
                (k >= first_edge_i <=> edge_start[k] = w[current_node])
           /\ k >= first_edge_i => weight_indexes[edge_end[k]] = k
  BY DEF CompactionInv, EdgeInv, Current
<1>4. \A k \in 0 .. new_edge_n - 1 : k \in Edges(graph) /\ k < new_edge_n
  BY <1>1
<1>5. CASE i = 0 \/ edge_start[i] # current_node
  <2>1. /\ current_node' = edge_start[i]
        /\ counting' = ~considered_nodes[Source]
        /\ first_edge_i' = new_edge_n
        /\ considered_nodes' = [considered_nodes EXCEPT ![Source] = TRUE]
    BY <1>5 DEF VisitSource
  <2>2. ASSUME NEW k \in 0 .. new_edge_n - 1
        PROVE  /\ considered_nodes'[edge_start[k]]
               /\ counting' => edge_start[k] # Source
               /\ ~(k >= first_edge_i')
    <3>1. considered_nodes[edge_start[k]] /\ edge_start[k] \in Node
      BY <1>1, <1>3, <1>4
    <3>2. considered_nodes'[edge_start[k]]
      BY <1>1, <1>2, <2>1, <3>1
    <3>3. counting' => edge_start[k] # Source
      BY <2>1, <3>1
    <3>4. ~(k >= first_edge_i')
      BY <1>1, <2>1
    <3> QED
      BY <3>2, <3>3, <3>4
  <2>3. /\ considered_nodes' \in [Node -> BOOLEAN]
        /\ considered_nodes'[Source]
        /\ counting' \in BOOLEAN
        /\ first_edge_i' \in 0 .. new_edge_n
    BY <1>1, <1>2, <2>1
  <2> QED
    BY <1>1, <1>2, <2>1, <2>2, <2>3
<1>6. CASE i # 0 /\ edge_start[i] = current_node
  <2>1. UNCHANGED group
    BY <1>6 DEF VisitSource
  <2>2. i > 0 /\ Source = w[current_node]
    BY <1>1, <1>6 DEF Source
  <2> QED
    BY <1>1, <1>2, <1>3, <1>6, <2>1, <2>2 DEF group
<1> QED
  BY <1>5, <1>6

(* The parts of the state no edge step changes.                            *)
LEMMA EdgeStepType ==
  ASSUME CompactionInv, pc = "edges", i < edge_n, VisitSource,
         pc' = pc, i' = i + 1, UNCHANGED <<input, w, new_node_n>>,
         {edge_start', edge_end'} \subseteq [Edges(graph) -> Node],
         edge_weight' \in [Edges(graph) -> 0 .. WeightModulus - 1],
         new_edge_n' \in {new_edge_n, new_edge_n + 1},
         weight_indexes' \in [Node -> 0 .. edge_n]
  PROVE  TypeOK' /\ new_edge_n' <= i'
<1>1. /\ TypeOK /\ new_edge_n <= i /\ i \in Nat /\ edge_n \in Nat
      /\ new_edge_n \in 0 .. edge_n
      /\ graph' = graph /\ Node' = Node /\ node_n' = node_n
      /\ edge_n' = edge_n
  BY DEF CompactionInv, TypeOK, EdgeInv, IsGraph, node_n, edge_n, Node, input
<1>2. i' \in 0 .. edge_n /\ new_edge_n' \in 0 .. edge_n /\ new_edge_n' <= i'
  BY <1>1
<1>3. /\ current_node' \in Node \cup {0} /\ counting' \in BOOLEAN
      /\ first_edge_i' \in 0 .. new_edge_n'
      /\ considered_nodes' \in [Node -> BOOLEAN]
  BY <1>1, VisitSourceInv
<1> QED
  BY <1>1, <1>2, <1>3 DEF TypeOK

LEMMA DropEdgeInv == CompactionInv /\ DropEdge => CompactionInv'
<1> SUFFICES ASSUME CompactionInv, DropEdge PROVE CompactionInv'
  OBVIOUS
<1>1. /\ pc = "edges" /\ i < edge_n /\ VisitSource /\ ~counting'
      /\ pc' = pc /\ i' = i + 1 /\ new_edge_n' = new_edge_n
      /\ UNCHANGED <<input, w, new_node_n, arrays, weight_indexes>>
      /\ TypeOK /\ i \in Nat /\ edge_n \in Nat
      /\ graph' = graph /\ Node' = Node /\ edge_n' = edge_n
  BY DEF CompactionInv, TypeOK, DropEdge, IsGraph, input, edge_n, Node
<1>2. TypeOK' /\ new_edge_n' <= i'
  BY <1>1, EdgeStepType DEF TypeOK, arrays
<1>3. EdgeInv'
  <2>1. /\ considered_nodes'[w[current_node']]
        /\ \A k \in 0 .. new_edge_n - 1 :
             /\ considered_nodes'[edge_start[k]]
             /\ k >= first_edge_i' => weight_indexes[edge_end[k]] = k
    BY <1>1, VisitSourceInv DEF Source
  <2>2. \A t \in Node : weight_indexes[t] \in (0 .. new_edge_n - 1) \cup {edge_n}
    BY <1>1 DEF CompactionInv, EdgeInv
  <2> QED
    BY <1>1, <1>2, <2>1, <2>2 DEF EdgeInv, Current, arrays
<1>4. UnreadIntact' /\ NoParallelEdges'
  BY <1>1 DEF CompactionInv, UnreadIntact, NoParallelEdges, arrays
<1> QED
  BY <1>1, <1>2, <1>3, <1>4 DEF CompactionInv, LabelInv

LEMMA AppendEdgeInv == CompactionInv /\ AppendEdge => CompactionInv'
<1> SUFFICES ASSUME CompactionInv, AppendEdge PROVE CompactionInv'
  OBVIOUS
<1> DEFINE n == new_edge_n
<1>1. /\ pc = "edges" /\ i < edge_n /\ VisitSource /\ counting'
      /\ pc' = pc /\ i' = i + 1 /\ new_edge_n' = n + 1
      /\ UNCHANGED <<input, w, new_node_n>>
      /\ edge_start' = [edge_start EXCEPT ![i] = Source, ![n] = Source]
      /\ edge_end' = [edge_end EXCEPT ![i] = Target, ![n] = Target]
      /\ edge_weight' = [edge_weight EXCEPT ![n] = edge_weight[i]]
      /\ weight_indexes' = [weight_indexes EXCEPT ![Target] = n]
      /\ TypeOK /\ i \in Nat /\ edge_n \in Nat /\ n \in Nat /\ n <= i
      /\ Edges(graph) = 0 .. edge_n - 1
      /\ graph' = graph /\ Node' = Node /\ edge_n' = edge_n
      /\ NewTarget(Target, first_edge_i')
  <2>1. IsGraph(graph) /\ edge_n \in Nat /\ Edges(graph) = 0 .. edge_n - 1
    BY DEF CompactionInv, TypeOK, IsGraph, edge_n, Edges
  <2>2. TypeOK /\ pc = "edges"
    BY DEF CompactionInv, AppendEdge
  <2>3. i \in 0 .. edge_n /\ n \in 0 .. edge_n
    BY <2>2 DEF TypeOK
  <2> QED
    BY <2>1, <2>2, <2>3 DEF CompactionInv, EdgeInv, AppendEdge, Slot,
                      input, edge_n, Node
<1>2. /\ Source \in Node /\ Target \in Node
      /\ current_node' = edge_start[i]
      /\ first_edge_i' \in 0 .. n
      /\ considered_nodes'[Source]
      /\ \A k \in 0 .. n - 1 :
           /\ considered_nodes'[edge_start[k]]
           /\ k >= first_edge_i' <=> edge_start[k] = Source
           /\ k >= first_edge_i' => weight_indexes[edge_end[k]] = k
  BY <1>1, VisitSourceInv
<1>3. /\ edge_start \in [Edges(graph) -> Node]
      /\ edge_end \in [Edges(graph) -> Node]
      /\ edge_weight \in [Edges(graph) -> 0 .. WeightModulus - 1]
      /\ weight_indexes \in [Node -> 0 .. edge_n]
      /\ i \in Edges(graph) /\ n \in Edges(graph)
  <2>1. i \in Edges(graph) /\ n \in Edges(graph)
    BY <1>1
  <2> QED
    BY <2>1 DEF CompactionInv, TypeOK
<1>4. TypeOK' /\ new_edge_n' <= i'
  <2>1. /\ {edge_start', edge_end'} \subseteq [Edges(graph) -> Node]
        /\ edge_weight' \in [Edges(graph) -> 0 .. WeightModulus - 1]
        /\ weight_indexes' \in [Node -> 0 .. edge_n]
    <3>1. {edge_start', edge_end'} \subseteq [Edges(graph) -> Node]
      BY ZenonT(40), <1>1, <1>2, <1>3
    <3>2. edge_weight' \in [Edges(graph) -> 0 .. WeightModulus - 1]
      BY <1>1, <1>3
    <3>3. weight_indexes' \in [Node -> 0 .. edge_n]
      <4>1. n \in 0 .. edge_n
        BY <1>1
      <4> QED
        BY <1>1, <1>2, <1>3, <4>1
    <3> QED
      BY <3>1, <3>2, <3>3
  <2> QED
    BY <1>1, <2>1, EdgeStepType
<1>5. /\ \A k \in 0 .. n - 1 :
           /\ edge_start'[k] = edge_start[k] /\ edge_end'[k] = edge_end[k]
      /\ edge_start'[n] = Source /\ edge_end'[n] = Target
  BY <1>1, <1>2, <1>3
<1>6. \A k \in 0 .. n - 1 : k >= first_edge_i' => edge_end[k] # Target
  <2> SUFFICES ASSUME NEW k \in 0 .. n - 1, k >= first_edge_i',
                      edge_end[k] = Target
               PROVE  FALSE
    OBVIOUS
  <2>1. weight_indexes[Target] = k
    BY <1>2
  <2>2. k < edge_n
    BY <1>1
  <2> QED
    BY <1>1, <1>2, <2>1, <2>2 DEF NewTarget
<1>7. EdgeInv'
  <2>1. Source = w'[current_node']
    BY <1>1, <1>2 DEF Source
  <2>2. \A t \in Node :
          weight_indexes'[t] \in (0 .. new_edge_n' - 1) \cup {edge_n}
    <3>1. \A t \in Node : weight_indexes[t] \in (0 .. n - 1) \cup {edge_n}
      BY <1>1 DEF CompactionInv, EdgeInv
    <3> QED
      BY <1>1, <1>2, <1>3, <3>1
  <2>3. ASSUME NEW k \in 0 .. new_edge_n' - 1
        PROVE  /\ considered_nodes'[edge_start'[k]]
               /\ k >= first_edge_i' <=> edge_start'[k] = Source
               /\ k >= first_edge_i' => weight_indexes'[edge_end'[k]] = k
    <3>1. CASE k = n
      <4>1. edge_start'[k] = Source /\ edge_end'[k] = Target
        BY <1>5, <3>1
      <4>2. weight_indexes'[Target] = n /\ n >= first_edge_i'
        BY <1>1, <1>2, <1>3
      <4> QED
        BY SMTT(30), <1>2, <3>1, <4>1, <4>2
    <3>2. CASE k \in 0 .. n - 1
      <4>1. edge_end[k] \in Node
        BY <1>1, <1>3, <3>2
      <4>2. edge_start'[k] = edge_start[k] /\ edge_end'[k] = edge_end[k]
        BY <1>5, <3>2
      <4>3. /\ considered_nodes'[edge_start[k]]
            /\ k >= first_edge_i' <=> edge_start[k] = Source
            /\ k >= first_edge_i' => weight_indexes[edge_end[k]] = k
        BY <1>2, <3>2
      <4>4. k >= first_edge_i' => weight_indexes'[edge_end[k]] = k
        <5>1. ASSUME k >= first_edge_i' PROVE weight_indexes'[edge_end[k]] = k
          <6>1. edge_end[k] # Target
            BY <1>6, <3>2, <5>1
          <6>2. weight_indexes'[edge_end[k]] = weight_indexes[edge_end[k]]
            BY <1>1, <1>3, <4>1, <6>1
          <6> QED
            BY <4>3, <5>1, <6>2
        <5> QED
          BY <5>1
      <4> QED
        BY <4>2, <4>3, <4>4
    <3> QED
      BY <1>1, <3>1, <3>2
  <2> QED
    BY <1>1, <1>2, <1>4, <2>1, <2>2, <2>3 DEF EdgeInv, Current
<1>8. UnreadIntact'
  <2> SUFFICES ASSUME NEW k \in i + 1 .. edge_n - 1
               PROVE  /\ edge_start'[k] = graph.start[k]
                      /\ edge_end'[k] = graph.end[k]
                      /\ edge_weight'[k] = graph.weight[k]
    BY <1>1 DEF UnreadIntact
  <2>1. k \in Edges(graph) /\ k # i /\ k # n /\ k \in i .. edge_n - 1
    BY <1>1
  <2>2. /\ edge_start[k] = graph.start[k] /\ edge_end[k] = graph.end[k]
        /\ edge_weight[k] = graph.weight[k]
    BY <1>1, <2>1 DEF CompactionInv, UnreadIntact
  <2> QED
    BY <1>1, <1>3, <2>1, <2>2
<1>9. NoParallelEdges'
  <2> SUFFICES ASSUME NEW j \in 0 .. n, NEW k \in 0 .. n, j < k,
                      edge_start'[j] = edge_start'[k],
                      edge_end'[j] = edge_end'[k]
               PROVE  FALSE
    BY <1>1 DEF NoParallelEdges
  <2>1. j \in 0 .. n - 1
    BY <1>1
  <2>2. CASE k = n
    BY <1>2, <1>5, <1>6, <2>1, <2>2
  <2>3. CASE k \in 0 .. n - 1
    <3>1. edge_start[j] = edge_start[k] /\ edge_end[j] = edge_end[k]
      BY <1>5, <2>1, <2>3
    <3> QED
      BY <1>1, <2>1, <2>3, <3>1 DEF CompactionInv, NoParallelEdges
  <2> QED
    BY <1>1, <2>2, <2>3
<1> QED
  BY <1>1, <1>4, <1>7, <1>8, <1>9 DEF CompactionInv, LabelInv

LEMMA AddWeightInv == CompactionInv /\ AddWeight => CompactionInv'
<1> SUFFICES ASSUME CompactionInv, AddWeight PROVE CompactionInv'
  OBVIOUS
<1> USE ModulusAssumption
<1> DEFINE n == new_edge_n
           slot == weight_indexes[Target]
<1>1. /\ pc = "edges" /\ i < edge_n /\ VisitSource /\ counting'
      /\ pc' = pc /\ i' = i + 1 /\ new_edge_n' = n
      /\ UNCHANGED <<input, w, new_node_n, weight_indexes>>
      /\ edge_start' = [edge_start EXCEPT ![i] = Source]
      /\ edge_end' = [edge_end EXCEPT ![i] = Target]
      /\ edge_weight' = [edge_weight EXCEPT ![slot] =
                           (edge_weight[slot] + edge_weight[i]) % WeightModulus]
      /\ TypeOK /\ i \in Nat /\ edge_n \in Nat /\ n \in Nat /\ n <= i
      /\ Edges(graph) = 0 .. edge_n - 1
      /\ graph' = graph /\ Node' = Node /\ edge_n' = edge_n
      /\ slot # edge_n
  <2>1. IsGraph(graph) /\ edge_n \in Nat /\ Edges(graph) = 0 .. edge_n - 1
    BY DEF CompactionInv, TypeOK, IsGraph, edge_n, Edges
  <2>2. TypeOK /\ pc = "edges"
    BY DEF CompactionInv, AddWeight
  <2>3. i \in 0 .. edge_n /\ n \in 0 .. edge_n
    BY <2>2 DEF TypeOK
  <2> QED
    BY <2>1, <2>2, <2>3 DEF CompactionInv, EdgeInv, AddWeight, NewTarget,
                      input, edge_n, Node
<1>2. /\ Source \in Node /\ Target \in Node
      /\ current_node' = edge_start[i]
      /\ considered_nodes'[Source]
      /\ \A k \in 0 .. n - 1 :
           /\ considered_nodes'[edge_start[k]]
           /\ k >= first_edge_i' <=> edge_start[k] = Source
           /\ k >= first_edge_i' => weight_indexes[edge_end[k]] = k
  BY <1>1, VisitSourceInv
<1>3. /\ edge_start \in [Edges(graph) -> Node]
      /\ edge_end \in [Edges(graph) -> Node]
      /\ edge_weight \in [Edges(graph) -> 0 .. WeightModulus - 1]
      /\ i \in Edges(graph)
  <2>1. i \in Edges(graph)
    BY <1>1
  <2> QED
    BY <2>1 DEF CompactionInv, TypeOK
<1>4. \A t \in Node : weight_indexes[t] \in (0 .. n - 1) \cup {edge_n}
  BY <1>1 DEF CompactionInv, EdgeInv
<1>5. slot \in 0 .. n - 1 /\ slot \in Edges(graph)
  BY <1>1, <1>2, <1>4
<1>6. TypeOK' /\ new_edge_n' <= i'
  <2>1. edge_weight[slot] \in Nat /\ edge_weight[i] \in Nat
    BY <1>3, <1>5
  <2>2. (edge_weight[slot] + edge_weight[i]) % WeightModulus
          \in 0 .. WeightModulus - 1
    BY <2>1
  <2>3. /\ {edge_start', edge_end'} \subseteq [Edges(graph) -> Node]
        /\ edge_weight' \in [Edges(graph) -> 0 .. WeightModulus - 1]
    BY <1>1, <1>2, <1>3, <1>5, <2>2
  <2>4. weight_indexes' \in [Node -> 0 .. edge_n]
    BY <1>1 DEF TypeOK
  <2> QED
    BY <1>1, <2>3, <2>4, EdgeStepType
<1>7. \A k \in 0 .. n - 1 :
        edge_start'[k] = edge_start[k] /\ edge_end'[k] = edge_end[k]
  BY <1>1, <1>2, <1>3
<1>8. EdgeInv'
  <2>1. Source = w'[current_node']
    BY <1>1, <1>2 DEF Source
  <2>2. \A k \in 0 .. n - 1 :
          /\ considered_nodes'[edge_start'[k]]
          /\ k >= first_edge_i' <=> edge_start'[k] = Source
          /\ k >= first_edge_i' => weight_indexes'[edge_end'[k]] = k
    BY <1>1, <1>2, <1>7
  <2> QED
    BY <1>1, <1>2, <1>4, <1>6, <2>1, <2>2 DEF EdgeInv, Current
<1>9. UnreadIntact' /\ NoParallelEdges'
  <2>1. UnreadIntact'
    <3> SUFFICES ASSUME NEW k \in i + 1 .. edge_n - 1
                 PROVE  /\ edge_start'[k] = graph.start[k]
                        /\ edge_end'[k] = graph.end[k]
                        /\ edge_weight'[k] = graph.weight[k]
      BY <1>1 DEF UnreadIntact
    <3>1. k \in Edges(graph) /\ k # i /\ k # slot /\ k \in i .. edge_n - 1
      BY <1>1, <1>5
    <3>2. /\ edge_start[k] = graph.start[k] /\ edge_end[k] = graph.end[k]
          /\ edge_weight[k] = graph.weight[k]
      BY <1>1, <3>1 DEF CompactionInv, UnreadIntact
    <3> QED
      BY <1>1, <1>3, <3>1, <3>2
  <2>2. NoParallelEdges'
    BY <1>1, <1>7 DEF CompactionInv, NoParallelEdges
  <2> QED
    BY <2>1, <2>2
<1> QED
  BY <1>1, <1>6, <1>8, <1>9 DEF CompactionInv, LabelInv

LEMMA IdleInv ==
  CompactionInv /\ (EndEdges \/ UNCHANGED vars) => CompactionInv'
<1> SUFFICES ASSUME CompactionInv, EndEdges \/ UNCHANGED vars
             PROVE  CompactionInv'
  OBVIOUS
<1>1. /\ pc' = pc \/ (pc = "edges" /\ pc' = "done")
      /\ UNCHANGED <<input, i, w, new_node_n, arrays, new_edge_n, group,
                     weight_indexes>>
      /\ graph' = graph /\ Node' = Node /\ node_n' = node_n
      /\ edge_n' = edge_n
  BY DEF EndEdges, vars, input, Node, node_n, edge_n
<1>2. TypeOK'
  BY <1>1 DEF CompactionInv, TypeOK, arrays, group
<1>3. LabelInv' /\ EdgeInv'
  BY <1>1 DEF CompactionInv, LabelInv, EdgeInv, Current, Labelled, arrays,
     group
<1>4. UnreadIntact' /\ NoParallelEdges'
  BY <1>1 DEF CompactionInv, UnreadIntact, NoParallelEdges, arrays
<1> QED
  BY <1>2, <1>3, <1>4 DEF CompactionInv

LEMMA CompactionInvariance == Spec => []CompactionInv
<1>1. CompactionInv /\ [Next]_vars => CompactionInv'
  BY LabelNodeInv, EndLabelsInv, DropEdgeInv, AppendEdgeInv, AddWeightInv,
     IdleInv DEF Next, Step, Left
<1> QED
  BY InitCompactionInv, <1>1, PTL DEF Spec

(* Every index the loops use is within the array it indexes, and labels    *)
(* never outnumber the nodes (rbsc.cu:457-482).                            *)
THEOREM TypeCorrect == Spec => []TypeOK
BY CompactionInvariance, PTL DEF CompactionInv

(* The edges not read yet are those of the input, although the loop writes *)
(* to the arrays it reads (rbsc.cu:472-480).                               *)
THEOREM ReadsInputOnly == Spec => []UnreadIntact
BY CompactionInvariance, PTL DEF CompactionInv

(* The edges written never hold two with the same ends: what a round hands *)
(* to the next is a graph with at most one edge between two nodes          *)
(* (rbsc.cu:475-483).                                                      *)
THEOREM EdgesAreMerged == Spec => []NoParallelEdges
BY CompactionInvariance, PTL DEF CompactionInv

-----------------------------------------------------------------------------
(* The quotient of the first edges of a list.                              *)
Prefix(g, n) == [g EXCEPT !.edges = n]
KeptEdge(g, l, e) ==
  Representative(g, l, e) /\ \A d \in 0 .. e - 1 : ~Parallel(g, l, d, e)
ParallelTo(g, l, n, e) == {d \in 0 .. n - 1 : Parallel(g, l, d, e)}

Extended(s, m, n) == [k \in 0 .. m |-> IF k = m THEN n ELSE s[k]]

(* The first m places of three arrays hold the quotient of the first n     *)
(* edges of g; the k-th of them comes from edge s[k].                      *)
Holds(g, l, n, m, s, es, ee, ew) ==
  /\ s \in [0 .. m - 1 -> 0 .. n - 1]
  /\ \A j, k \in 0 .. m - 1 : j < k => s[j] < s[k]
  /\ \A e \in 0 .. n - 1 :
       KeptEdge(g, l, e) <=> \E k \in 0 .. m - 1 : s[k] = e
  /\ \A k \in 0 .. m - 1 :
       /\ es[k] = l[g.start[s[k]]]
       /\ ee[k] = l[g.end[s[k]]]
       /\ ew[k] = SumFunctionOnSet(g.weight, ParallelTo(g, l, n, s[k]))
                    % WeightModulus

LEMMA PrefixFields ==
  ASSUME NEW g, IsGraph(g), NEW n
  PROVE  /\ Prefix(g, n).edges = n
         /\ Prefix(g, n).nodes = g.nodes
         /\ Prefix(g, n).start = g.start
         /\ Prefix(g, n).end = g.end
         /\ Prefix(g, n).weight = g.weight
         /\ Edges(Prefix(g, n)) = 0 .. n - 1
BY DEF Prefix, IsGraph, Edges

LEMMA QuotientOfPrefix ==
  ASSUME NEW g, IsGraph(g), NEW n \in Nat, NEW l
  PROVE  /\ Kept(Prefix(g, n), l) = {e \in 0 .. n - 1 : KeptEdge(g, l, e)}
         /\ \A e : SummedWeight(Prefix(g, n), l, e) =
                     SumFunctionOnSet(g.weight, ParallelTo(g, l, n, e))
                       % WeightModulus
<1>1. \A d, e : Parallel(Prefix(g, n), l, d, e) <=> Parallel(g, l, d, e)
  BY PrefixFields DEF Parallel
<1>2. \A e : Representative(Prefix(g, n), l, e) <=> Representative(g, l, e)
  BY PrefixFields DEF Representative
<1>3. \A e : {d \in Edges(Prefix(g, n)) : Parallel(Prefix(g, n), l, d, e)}
               = ParallelTo(g, l, n, e)
  BY <1>1, PrefixFields DEF ParallelTo
<1>4. \A e : SummedWeight(Prefix(g, n), l, e) =
              SumFunctionOnSet(g.weight, ParallelTo(g, l, n, e))
                % WeightModulus
  BY <1>3, PrefixFields DEF SummedWeight
<1>5. Kept(Prefix(g, n), l) = {e \in 0 .. n - 1 : KeptEdge(g, l, e)}
  BY <1>1, <1>2, PrefixFields DEF Kept, KeptEdge
<1> QED
  BY <1>4, <1>5

LEMMA HoldsQuotient ==
  ASSUME NEW g, IsGraph(g), NEW n \in Nat, NEW m \in Nat, NEW l, NEW s,
         NEW es, NEW ee, NEW ew, Holds(g, l, n, m, s, es, ee, ew), NEW q,
         q = [nodes |-> q.nodes, edges |-> m,
              start |-> [k \in 0 .. m - 1 |-> es[k]],
              end |-> [k \in 0 .. m - 1 |-> ee[k]],
              weight |-> [k \in 0 .. m - 1 |-> ew[k]]]
  PROVE  IsQuotient(q, Prefix(g, n), l)
<1> DEFINE K == Kept(Prefix(g, n), l)
<1>1. K = {e \in 0 .. n - 1 : KeptEdge(g, l, e)}
      /\ \A e : SummedWeight(Prefix(g, n), l, e) =
                     SumFunctionOnSet(g.weight, ParallelTo(g, l, n, e))
                       % WeightModulus
  BY QuotientOfPrefix
<1>2. /\ s \in [0 .. m - 1 -> K]
      /\ \A e \in K : \E k \in 0 .. m - 1 : s[k] = e
  BY <1>1 DEF Holds
<1>3. \A j, k \in 0 .. m - 1 : s[j] = s[k] => j = k
  <2> SUFFICES ASSUME NEW j \in 0 .. m - 1, NEW k \in 0 .. m - 1, s[j] = s[k]
               PROVE  j = k
    OBVIOUS
  <2>1. s[j] \in Int /\ ~(s[j] < s[k]) /\ ~(s[k] < s[j])
    BY DEF Holds
  <2>2. ~(j < k) /\ ~(k < j)
    BY <2>1 DEF Holds
  <2> QED
    BY <2>2
<1>4. Cardinality(K) = m
  <2> HIDE DEF K
  <2>1. s \in Bijection(0 .. m - 1, K)
    BY <1>2, <1>3 DEF Bijection, Injection, Surjection, IsInjective
  <2>2. IsFiniteSet(0 .. m - 1) /\ Cardinality(0 .. m - 1) = m
    BY CountInterval
  <2>3. Cardinality(K) = Cardinality(0 .. m - 1)
    BY <2>1, <2>2, FS_Bijection DEF ExistsBijection
  <2> QED
    BY <2>2, <2>3
<1>5. s \in InOrder(K)
  BY <1>2, <1>4 DEF InOrder, Holds
<1>6. DOMAIN s = 0 .. m - 1
  BY <1>2
<1>7. /\ [k \in 0 .. m - 1 |-> es[k]]
           = [k \in DOMAIN s |-> l[Prefix(g, n).start[s[k]]]]
      /\ [k \in 0 .. m - 1 |-> ee[k]]
           = [k \in DOMAIN s |-> l[Prefix(g, n).end[s[k]]]]
      /\ [k \in 0 .. m - 1 |-> ew[k]]
           = [k \in DOMAIN s |-> SummedWeight(Prefix(g, n), l, s[k])]
  BY <1>1, <1>6, PrefixFields DEF Holds
<1>8. q = QuotientGraph(Prefix(g, n), l, q.nodes, s)
  BY <1>4, <1>7 DEF QuotientGraph
<1> QED
  BY <1>5, <1>8 DEF IsQuotient

(* Reading one more edge adds its weight to that of the edges parallel to  *)
(* it, and to no other.                                                    *)
LEMMA SumOfNext ==
  ASSUME NEW g, IsGraph(g), NEW n \in Nat, n < g.edges, NEW l, NEW e
  PROVE  /\ SumFunctionOnSet(g.weight, ParallelTo(g, l, n, e)) \in Nat
         /\ ~Parallel(g, l, n, e) =>
              ParallelTo(g, l, n + 1, e) = ParallelTo(g, l, n, e)
         /\ Parallel(g, l, n, e) =>
              SumFunctionOnSet(g.weight, ParallelTo(g, l, n + 1, e)) =
                g.weight[n] + SumFunctionOnSet(g.weight, ParallelTo(g, l, n, e))
<1> DEFINE P == ParallelTo(g, l, n, e)
<1>1. IsFiniteSet(P)
  BY CountInInterval DEF ParallelTo
<1>2. n \notin P /\ \A d \in P \cup {n} : g.weight[d] \in Nat
  BY ModulusAssumption DEF ParallelTo, IsGraph, Edges
<1>3. (0 .. (n + 1) - 1) = (0 .. n - 1) \cup {n}
  OBVIOUS
<1>4. Parallel(g, l, n, e) => ParallelTo(g, l, n + 1, e) = P \cup {n}
  BY <1>3 DEF ParallelTo
<1>5. ~Parallel(g, l, n, e) => ParallelTo(g, l, n + 1, e) = P
  BY <1>3 DEF ParallelTo
<1> HIDE DEF P
<1>6. SumFunctionOnSet(g.weight, P) \in Nat
  BY <1>1, <1>2, SumType
<1>7. SumFunctionOnSet(g.weight, P \cup {n}) =
        g.weight[n] + SumFunctionOnSet(g.weight, P)
  BY <1>1, <1>2, SumAdd
<1> QED
  BY <1>4, <1>5, <1>6, <1>7 DEF P

LEMMA HoldsDropped ==
  ASSUME NEW g, IsGraph(g), NEW n \in Nat, n < g.edges, NEW m \in Nat, NEW l,
         NEW s, NEW es, NEW ee, NEW ew, Holds(g, l, n, m, s, es, ee, ew),
         ~KeptEdge(g, l, n), \A k \in 0 .. m - 1 : ~Parallel(g, l, n, s[k])
  PROVE  Holds(g, l, n + 1, m, s, es, ee, ew)
<1>1. (0 .. (n + 1) - 1) = (0 .. n - 1) \cup {n} /\ n \notin 0 .. n - 1
  OBVIOUS
<1>2. s \in [0 .. m - 1 -> 0 .. (n + 1) - 1]
  BY <1>1 DEF Holds
<1>3. \A e \in 0 .. (n + 1) - 1 :
        KeptEdge(g, l, e) <=> \E k \in 0 .. m - 1 : s[k] = e
  BY <1>1 DEF Holds
<1>4. \A k \in 0 .. m - 1 :
        ParallelTo(g, l, n + 1, s[k]) = ParallelTo(g, l, n, s[k])
  BY SumOfNext
<1> QED
  BY <1>2, <1>3, <1>4 DEF Holds

LEMMA HoldsAppended ==
  ASSUME NEW g, IsGraph(g), NEW n \in Nat, n < g.edges, NEW m \in Nat, NEW l,
         NEW s, NEW es, NEW ee, NEW ew, Holds(g, l, n, m, s, es, ee, ew),
         KeptEdge(g, l, n), NEW fs, NEW fe, NEW fw,
         \A k \in 0 .. m - 1 : fs[k] = es[k] /\ fe[k] = ee[k] /\ fw[k] = ew[k],
         fs[m] = l[g.start[n]], fe[m] = l[g.end[n]], fw[m] = g.weight[n]
  PROVE  Holds(g, l, n + 1, m + 1, Extended(s, m, n), fs, fe, fw)
<1> DEFINE t == Extended(s, m, n)
<1>1. /\ (0 .. (n + 1) - 1) = (0 .. n - 1) \cup {n} /\ n \notin 0 .. n - 1
      /\ (0 .. (m + 1) - 1) = (0 .. m - 1) \cup {m} /\ m \notin 0 .. m - 1
      /\ 0 .. m = (0 .. m - 1) \cup {m}
  OBVIOUS
<1>2. t[m] = n /\ \A k \in 0 .. m - 1 : t[k] = s[k] /\ s[k] \in 0 .. n - 1
  BY <1>1 DEF Holds, Extended
<1>3. t \in [0 .. (m + 1) - 1 -> 0 .. (n + 1) - 1]
  BY <1>1, <1>2 DEF Extended
<1> HIDE DEF t
<1>4. \A j, k \in 0 .. (m + 1) - 1 : j < k => t[j] < t[k]
  <2> SUFFICES ASSUME NEW j \in 0 .. (m + 1) - 1, NEW k \in 0 .. (m + 1) - 1,
                      j < k
               PROVE  t[j] < t[k]
    OBVIOUS
  <2>1. j \in 0 .. m - 1
    OBVIOUS
  <2>2. CASE k = m
    BY <1>2, <2>1, <2>2
  <2>3. CASE k \in 0 .. m - 1
    BY <1>2, <2>1, <2>3 DEF Holds
  <2> QED
    BY <1>1, <2>2, <2>3
<1>5. \A e \in 0 .. (n + 1) - 1 :
        KeptEdge(g, l, e) <=> \E k \in 0 .. (m + 1) - 1 : t[k] = e
  <2> SUFFICES ASSUME NEW e \in 0 .. (n + 1) - 1
               PROVE  KeptEdge(g, l, e) <=> \E k \in 0 .. (m + 1) - 1 : t[k] = e
    OBVIOUS
  <2>1. CASE e = n
    BY <1>1, <1>2, <2>1
  <2>2. CASE e \in 0 .. n - 1
    <3>1. KeptEdge(g, l, e) <=> \E k \in 0 .. m - 1 : s[k] = e
      BY <2>2 DEF Holds
    <3>2. e # n
      BY <1>1, <2>2
    <3> QED
      BY <1>1, <1>2, <3>1, <3>2
  <2> QED
    BY <1>1, <2>1, <2>2
<1>6. \A d \in 0 .. n - 1 : ~Parallel(g, l, n, d) /\ ~Parallel(g, l, d, n)
  BY DEF KeptEdge, Parallel
<1>7. fw[m] = SumFunctionOnSet(g.weight, ParallelTo(g, l, n + 1, n))
                % WeightModulus
  <2>1. ParallelTo(g, l, n, n) = {}
    BY <1>6 DEF ParallelTo
  <2>2. Parallel(g, l, n, n)
    BY DEF Parallel
  <2>3. SumFunctionOnSet(g.weight, ParallelTo(g, l, n + 1, n))
          = g.weight[n] + 0
    BY <2>1, <2>2, SumOfNext, SumEmpty
  <2>4. g.weight[n] \in 0 .. WeightModulus - 1
    BY DEF IsGraph, Edges
  <2> QED
    BY <2>3, <2>4, ModulusAssumption
<1>8. \A k \in 0 .. (m + 1) - 1 :
        /\ fs[k] = l[g.start[t[k]]]
        /\ fe[k] = l[g.end[t[k]]]
        /\ fw[k] = SumFunctionOnSet(g.weight, ParallelTo(g, l, n + 1, t[k]))
                     % WeightModulus
  <2> SUFFICES ASSUME NEW k \in 0 .. (m + 1) - 1
               PROVE
        /\ fs[k] = l[g.start[t[k]]]
        /\ fe[k] = l[g.end[t[k]]]
        /\ fw[k] = SumFunctionOnSet(g.weight, ParallelTo(g, l, n + 1, t[k]))
                     % WeightModulus
    OBVIOUS
  <2>1. CASE k = m
    BY <1>2, <1>7, <2>1
  <2>2. CASE k \in 0 .. m - 1
    <3>1. ParallelTo(g, l, n + 1, t[k]) = ParallelTo(g, l, n, s[k])
      BY <1>2, <1>6, <2>2, SumOfNext
    <3> QED
      BY <1>2, <2>2, <3>1 DEF Holds
  <2> QED
    BY <1>1, <2>1, <2>2
<1> QED
  BY <1>3, <1>4, <1>5, <1>8 DEF Holds, t

LEMMA HoldsAdded ==
  ASSUME NEW g, IsGraph(g), NEW n \in Nat, n < g.edges, NEW m \in Nat, NEW l,
         NEW s, NEW es, NEW ee, NEW ew, Holds(g, l, n, m, s, es, ee, ew),
         NEW c \in 0 .. m - 1, Parallel(g, l, n, s[c]), NEW fs, NEW fe, NEW fw,
         \A k \in 0 .. m - 1 : fs[k] = es[k] /\ fe[k] = ee[k],
         \A k \in (0 .. m - 1) \ {c} : fw[k] = ew[k],
         fw[c] = (ew[c] + g.weight[n]) % WeightModulus
  PROVE  Holds(g, l, n + 1, m, s, fs, fe, fw)
<1>1. (0 .. (n + 1) - 1) = (0 .. n - 1) \cup {n} /\ n \notin 0 .. n - 1
  OBVIOUS
<1>2. s \in [0 .. m - 1 -> 0 .. (n + 1) - 1] /\ s[c] \in 0 .. n - 1
      /\ \A k \in 0 .. m - 1 : s[k] \in 0 .. n - 1 /\ KeptEdge(g, l, s[k])
  BY <1>1 DEF Holds
<1>3. ~KeptEdge(g, l, n)
  BY <1>2 DEF KeptEdge, Parallel
<1>4. \A e \in 0 .. (n + 1) - 1 :
        KeptEdge(g, l, e) <=> \E k \in 0 .. m - 1 : s[k] = e
  BY <1>1, <1>2, <1>3 DEF Holds
<1>5. ASSUME NEW k \in (0 .. m - 1) \ {c} PROVE ~Parallel(g, l, n, s[k])
  <2> SUFFICES ASSUME Parallel(g, l, n, s[k]) PROVE FALSE
    OBVIOUS
  <2>1. Parallel(g, l, s[k], s[c]) /\ Parallel(g, l, s[c], s[k])
    BY DEF Parallel
  <2>2. k < c \/ c < k
    BY <1>5
  <2>3. s[k] < s[c] \/ s[c] < s[k]
    BY <1>5, <2>2 DEF Holds
  <2>4. s[k] \in 0 .. s[c] - 1 \/ s[c] \in 0 .. s[k] - 1
    BY <1>2, <1>5, <2>3
  <2> QED
    BY <1>2, <1>5, <2>1, <2>4 DEF KeptEdge
<1>6. fw[c] = SumFunctionOnSet(g.weight, ParallelTo(g, l, n + 1, s[c]))
                % WeightModulus
  <2> DEFINE old == SumFunctionOnSet(g.weight, ParallelTo(g, l, n, s[c]))
  <2>0. g.weight[n] \in 0 .. WeightModulus - 1
    BY DEF IsGraph, Edges
  <2>1. old \in Nat /\ g.weight[n] \in Nat
    BY <2>0, SumOfNext, ModulusAssumption
  <2>2. ew[c] = old % WeightModulus
    BY DEF Holds
  <2>3. SumFunctionOnSet(g.weight, ParallelTo(g, l, n + 1, s[c]))
          = g.weight[n] + old
    BY SumOfNext
  <2> HIDE DEF old
  <2>4. ((old % WeightModulus) + g.weight[n]) % WeightModulus
          = (old + g.weight[n]) % WeightModulus
    BY <2>1, ModulusAssumption, ModAdd
  <2>5. old + g.weight[n] = g.weight[n] + old
    BY <2>1
  <2> QED
    BY <2>2, <2>3, <2>4, <2>5
<1>7. \A k \in 0 .. m - 1 :
        fw[k] = SumFunctionOnSet(g.weight, ParallelTo(g, l, n + 1, s[k]))
                  % WeightModulus
  <2> SUFFICES ASSUME NEW k \in 0 .. m - 1, k # c
               PROVE  fw[k] = SumFunctionOnSet(g.weight,
                                ParallelTo(g, l, n + 1, s[k])) % WeightModulus
    BY <1>6
  <2>1. ParallelTo(g, l, n + 1, s[k]) = ParallelTo(g, l, n, s[k])
    BY <1>5, SumOfNext
  <2> QED
    BY <2>1 DEF Holds
<1> QED
  BY <1>2, <1>4, <1>7 DEF Holds

-----------------------------------------------------------------------------
(* Labels: those visited are completed, the others as given.               *)
Unlabelled(n) == {v \in 0 .. n - 1 : given[v] = node_n}
LabelsInv ==
  /\ Grouped(graph)
  /\ given \in [Node -> 0 .. node_n] /\ drawn \in Nat
  /\ pc = "label" =>
       /\ \A u \in Node : w[u] = IF u < i THEN CompletedLabel[u] ELSE given[u]
       /\ new_node_n = drawn + Cardinality(Unlabelled(i))
       /\ \A u \in 0 .. i - 1 : ~considered_nodes[u]
  /\ pc # "label" => w = CompletedLabel

(* Edges: the labels considered are those of the sources read; the current *)
(* group is counted when its source is the first of its label;             *)
(* weight_indexes leads to an edge to the label it is asked for.           *)
LabelRead(g, l, n, c) == \E d \in 0 .. n - 1 : l[g.start[d]] = c
GroupInv ==
  pc # "label" =>
    /\ \A c \in Node : considered_nodes[c] <=> LabelRead(graph, w, i, c)
    /\ i > 0 =>
         /\ current_node = graph.start[i - 1]
         /\ counting <=> Representative(graph, w, i - 1)
    /\ \A t \in Node :
         weight_indexes[t] \in first_edge_i .. new_edge_n - 1 =>
           edge_end[weight_indexes[t]] = t

QuotientHeld ==
  pc # "label" =>
    \E s : Holds(graph, w, i, new_edge_n, s, edge_start, edge_end, edge_weight)

QuotientInv == LabelsInv /\ GroupInv /\ QuotientHeld

LEMMA InitQuotientInv == Init => QuotientInv
<1> SUFFICES ASSUME Init PROVE QuotientInv
  OBVIOUS
<1>1. CompactionInv
  BY InitCompactionInv
<1>2. /\ Grouped(graph) /\ pc = "label" /\ i = 0 /\ w = given
      /\ new_node_n = drawn
  BY GraphsAssumption DEF Init
<1>3. node_n \in Nat /\ Node = 0 .. node_n - 1
  BY <1>1 DEF CompactionInv, TypeOK, IsGraph, node_n, Node, Nodes
<1>4. given \in [Node -> 0 .. node_n] /\ drawn \in Nat
  BY <1>1, <1>2, <1>3 DEF CompactionInv, TypeOK
<1>5. Cardinality(Unlabelled(i)) = 0
  <2>1. Unlabelled(i) = {}
    BY <1>2 DEF Unlabelled
  <2> QED
    BY <2>1, FS_EmptySet
<1>6. \A u \in Node : w[u] = IF u < i THEN CompletedLabel[u] ELSE given[u]
  BY <1>2, <1>3
<1>7. LabelsInv
  BY <1>2, <1>4, <1>5, <1>6 DEF LabelsInv
<1> QED
  BY <1>2, <1>7 DEF QuotientInv, GroupInv, QuotientHeld

LEMMA LabelNodeQuotient ==
  CompactionInv /\ QuotientInv /\ LabelNode => QuotientInv'
<1> SUFFICES ASSUME CompactionInv, QuotientInv, LabelNode PROVE QuotientInv'
  OBVIOUS
<1>1. /\ TypeOK /\ pc = "label" /\ pc' = "label"
      /\ node_n \in Nat /\ new_node_n \in Nat /\ i \in Nat
      /\ i \in Node /\ i' = i + 1 /\ i < node_n
      /\ w \in [Node -> 0 .. node_n]
      /\ Node = 0 .. node_n - 1
      /\ considered_nodes \in [Node -> BOOLEAN]
      /\ UNCHANGED <<graph, given, drawn>>
      /\ considered_nodes' = [considered_nodes EXCEPT ![i] = FALSE]
  BY DEF CompactionInv, TypeOK, LabelNode, IsGraph, node_n, edge_n, Node,
         Nodes, input
<1>2. /\ Node' = Node /\ node_n' = node_n
      /\ CompletedLabel' = CompletedLabel
      /\ Unlabelled(i)' = Unlabelled(i + 1)
  BY <1>1 DEF Node, node_n, CompletedLabel, Unlabelled
<1>3. /\ \A u \in Node : w[u] = IF u < i THEN CompletedLabel[u] ELSE given[u]
      /\ new_node_n = drawn + Cardinality(Unlabelled(i))
      /\ \A u \in 0 .. i - 1 : ~considered_nodes[u]
      /\ Grouped(graph) /\ drawn \in Nat /\ given \in [Node -> 0 .. node_n]
  BY <1>1 DEF QuotientInv, LabelsInv
<1>4. w[i] = given[i]
  BY <1>1, <1>3
<1>5. IsFiniteSet(Unlabelled(i)) /\ Cardinality(Unlabelled(i)) \in Nat
      /\ i \notin Unlabelled(i)
  BY <1>1, CountInInterval DEF Unlabelled
<1>6. CompletedLabel[i] = IF given[i] = node_n THEN new_node_n ELSE given[i]
  BY <1>1, <1>3 DEF CompletedLabel, Unlabelled
<1>7. /\ w' = [w EXCEPT ![i] = CompletedLabel[i]]
      /\ new_node_n' = drawn + Cardinality(Unlabelled(i + 1))
  <2>1. (0 .. (i + 1) - 1) = (0 .. i - 1) \cup {i}
    BY <1>1
  <2>2. CASE given[i] = node_n
    <3>1. Unlabelled(i + 1) = Unlabelled(i) \cup {i}
      BY <2>1, <2>2 DEF Unlabelled
    <3>2. Cardinality(Unlabelled(i + 1)) = Cardinality(Unlabelled(i)) + 1
      BY <1>5, <3>1, FS_AddElement
    <3>3. w' = [w EXCEPT ![i] = new_node_n] /\ new_node_n' = new_node_n + 1
      BY <1>4, <2>2 DEF LabelNode, NextLabel
    <3> QED
      BY <1>3, <1>5, <1>6, <2>2, <3>2, <3>3
  <2>3. CASE given[i] # node_n
    <3>1. Unlabelled(i + 1) = Unlabelled(i)
      BY <2>1, <2>3 DEF Unlabelled
    <3>2. w' = w /\ new_node_n' = new_node_n
      BY <1>4, <2>3 DEF LabelNode
    <3> QED
      BY <1>1, <1>3, <1>4, <1>6, <2>3, <3>1, <3>2
  <2> QED
    BY <2>2, <2>3
<1>8. \A u \in Node : w'[u] = IF u < i + 1 THEN CompletedLabel[u] ELSE given[u]
  <2> SUFFICES ASSUME NEW u \in Node
               PROVE  w'[u] = IF u < i + 1 THEN CompletedLabel[u] ELSE given[u]
    OBVIOUS
  <2>1. CASE u = i
    BY <1>1, <1>7, <2>1
  <2>2. CASE u # i
    <3>1. w'[u] = w[u] /\ (u < i + 1 <=> u < i)
      BY <1>1, <1>7, <2>2
    <3> QED
      BY <1>3, <3>1
  <2> QED
    BY <2>1, <2>2
<1>9. \A u \in 0 .. (i + 1) - 1 : ~considered_nodes'[u]
  BY <1>1, <1>3
<1>10. LabelsInv'
  BY <1>1, <1>2, <1>3, <1>7, <1>8, <1>9 DEF LabelsInv
<1> QED
  BY <1>1, <1>10 DEF QuotientInv, GroupInv, QuotientHeld

LEMMA EndLabelsQuotient ==
  CompactionInv /\ QuotientInv /\ EndLabels => QuotientInv'
<1> SUFFICES ASSUME CompactionInv, QuotientInv, EndLabels PROVE QuotientInv'
  OBVIOUS
<1>1. /\ TypeOK /\ pc = "label" /\ pc' = "edges" /\ i' = 0 /\ i = node_n
      /\ node_n \in Nat /\ edge_n \in Nat /\ Node = 0 .. node_n - 1
      /\ w \in [Node -> 0 .. node_n]
      /\ UNCHANGED <<graph, given, drawn, w, edge_start, edge_end, edge_weight,
                     new_edge_n, first_edge_i, considered_nodes,
                     weight_indexes>>
  BY SMTT(30) DEF CompactionInv, TypeOK, EndLabels, IsGraph, node_n, edge_n,
         Node, Nodes, input, arrays, group
<1>2. Node' = Node /\ node_n' = node_n /\ CompletedLabel' = CompletedLabel
  BY <1>1 DEF Node, node_n, CompletedLabel
<1>3. /\ \A u \in Node : w[u] = IF u < i THEN CompletedLabel[u] ELSE given[u]
      /\ \A u \in 0 .. i - 1 : ~considered_nodes[u]
      /\ Grouped(graph) /\ drawn \in Nat /\ given \in [Node -> 0 .. node_n]
  BY <1>1 DEF QuotientInv, LabelsInv
<1>4. new_edge_n = 0
  BY <1>1 DEF CompactionInv, LabelInv
<1>5. w = CompletedLabel
  <2>1. \A u \in Node : w[u] = CompletedLabel[u]
    BY <1>1, <1>3
  <2>2. CompletedLabel = [u \in Node |-> CompletedLabel[u]]
    BY DEF CompletedLabel
  <2>3. w = [u \in Node |-> w[u]]
    BY <1>1
  <2> QED
    BY <2>1, <2>2, <2>3
<1>6. LabelsInv'
  BY <1>1, <1>2, <1>3, <1>5 DEF LabelsInv
<1>7. GroupInv'
  <2>1. \A c \in Node : ~considered_nodes'[c]
    BY <1>1, <1>3
  <2>2. \A c \in Node : ~LabelRead(graph, w, 0, c)
    BY DEF LabelRead
  <2>3. \A t \in Node : weight_indexes[t] \notin first_edge_i .. new_edge_n - 1
    <3>1. first_edge_i = 0
      BY <1>4 DEF CompactionInv, TypeOK
    <3> QED
      BY <1>4, <3>1
  <2> QED
    BY <1>1, <1>2, <2>1, <2>2, <2>3 DEF GroupInv
<1>8. QuotientHeld'
  <2>1. Holds(graph, w, 0, 0, << >>, edge_start, edge_end, edge_weight)
    <3>1. << >> \in [0 .. 0 - 1 -> 0 .. 0 - 1]
      OBVIOUS
    <3> QED
      BY <3>1 DEF Holds
  <2> QED
    BY <1>1, <1>4, <2>1 DEF QuotientHeld
<1> QED
  BY <1>6, <1>7, <1>8 DEF QuotientInv

(* What visiting a source makes of the group.                              *)
LEMMA VisitGroup ==
  ASSUME CompactionInv, QuotientInv, pc = "edges", i < edge_n, VisitSource
  PROVE  /\ IsGraph(graph) /\ Grouped(graph)
         /\ i \in Nat /\ i < graph.edges /\ new_edge_n \in Nat
         /\ Source = w[graph.start[i]] /\ Target = w[graph.end[i]]
         /\ edge_weight[i] = graph.weight[i]
         /\ current_node' = graph.start[i]
         /\ counting' <=> Representative(graph, w, i)
         /\ \A c \in Node : considered_nodes'[c] <=> LabelRead(graph, w, i + 1, c)
         /\ \A t \in Node :
              weight_indexes[t] \in first_edge_i' .. new_edge_n - 1 =>
                edge_end[weight_indexes[t]] = t
<1>1. /\ IsGraph(graph) /\ Grouped(graph)
      /\ i \in Nat /\ i < graph.edges /\ edge_n = graph.edges
      /\ graph.edges \in Nat /\ new_edge_n \in Nat
      /\ considered_nodes \in [Node -> BOOLEAN] /\ counting \in BOOLEAN
      /\ Edges(graph) = 0 .. graph.edges - 1
  BY DEF CompactionInv, TypeOK, QuotientInv, LabelsInv, edge_n, IsGraph, Edges
<1>2. /\ edge_start[i] = graph.start[i] /\ edge_end[i] = graph.end[i]
      /\ edge_weight[i] = graph.weight[i]
  <2>1. i \in i .. edge_n - 1
    BY <1>1
  <2> QED
    BY <2>1 DEF CompactionInv, UnreadIntact
<1>3. Source = w[graph.start[i]] /\ Target = w[graph.end[i]]
      /\ Source \in Node /\ current_node' = graph.start[i]
  BY <1>2, VisitSourceInv DEF Source, Target
<1>4. /\ \A c \in Node : considered_nodes[c] <=> LabelRead(graph, w, i, c)
      /\ i > 0 =>
           /\ current_node = graph.start[i - 1]
           /\ counting <=> Representative(graph, w, i - 1)
      /\ \A t \in Node :
           weight_indexes[t] \in first_edge_i .. new_edge_n - 1 =>
             edge_end[weight_indexes[t]] = t
  BY DEF QuotientInv, GroupInv
<1>5. (0 .. (i + 1) - 1) = (0 .. i - 1) \cup {i}
  BY <1>1
<1>6. \A c \in Node : LabelRead(graph, w, i + 1, c) <=>
                        LabelRead(graph, w, i, c) \/ c = Source
  BY <1>3, <1>5 DEF LabelRead
<1>7. CASE i = 0 \/ edge_start[i] # current_node
  <2>1. /\ counting' = ~considered_nodes[Source]
        /\ first_edge_i' = new_edge_n
        /\ considered_nodes' = [considered_nodes EXCEPT ![Source] = TRUE]
    BY <1>7 DEF VisitSource
  <2>2. \A d \in 0 .. i - 1 : graph.start[d] # graph.start[i]
    <3> SUFFICES ASSUME NEW d \in 0 .. i - 1, graph.start[d] = graph.start[i]
                 PROVE  FALSE
      OBVIOUS
    <3>1. i > 0 /\ i - 1 \in d .. i /\ d \in Edges(graph) /\ i \in Edges(graph)
          /\ d <= i
      BY <1>1
    <3>2. graph.start[i - 1] = graph.start[d]
      BY <1>1, <3>1 DEF Grouped
    <3> QED
      BY <1>2, <1>4, <1>7, <3>1, <3>2
  <2>3. counting' <=> Representative(graph, w, i)
    BY <1>3, <1>4, <2>1, <2>2 DEF Representative, LabelRead
  <2>4. \A c \in Node : considered_nodes'[c] <=> LabelRead(graph, w, i + 1, c)
    <3> SUFFICES ASSUME NEW c \in Node
                 PROVE  considered_nodes'[c] <=> LabelRead(graph, w, i + 1, c)
      OBVIOUS
    <3>1. CASE c = Source
      BY <1>1, <1>3, <1>6, <2>1, <3>1
    <3>2. CASE c # Source
      <4>1. considered_nodes'[c] = considered_nodes[c]
        BY <1>1, <1>3, <2>1, <3>2
      <4> QED
        BY <1>4, <1>6, <3>2, <4>1
    <3> QED
      BY <3>1, <3>2
  <2>5. \A t \in Node : weight_indexes[t] \notin first_edge_i' .. new_edge_n - 1
    BY <1>1, <2>1
  <2> QED
    BY <1>1, <1>2, <1>3, <2>3, <2>4, <2>5
<1>8. CASE i # 0 /\ edge_start[i] = current_node
  <2>1. counting' = counting /\ first_edge_i' = first_edge_i
        /\ considered_nodes' = considered_nodes
    BY <1>8 DEF VisitSource, group
  <2>2. i - 1 \in 0 .. i - 1 /\ graph.start[i - 1] = graph.start[i]
        /\ (0 .. i - 1) = (0 .. (i - 1) - 1) \cup {i - 1}
    BY <1>1, <1>2, <1>4, <1>8
  <2>3. counting' <=> Representative(graph, w, i)
    <3>1. Representative(graph, w, i - 1) <=> Representative(graph, w, i)
      BY <2>2 DEF Representative
    <3> QED
      BY <1>1, <1>4, <1>8, <2>1, <3>1
  <2>4. LabelRead(graph, w, i, Source)
    BY <1>3, <2>2 DEF LabelRead
  <2> QED
    BY <1>1, <1>2, <1>3, <1>4, <1>6, <2>1, <2>3, <2>4
<1> QED
  BY <1>7, <1>8

(* A source is the first of its label at all of its edges or at none.      *)
LEMMA GroupRepresentative ==
  ASSUME NEW g, IsGraph(g), Grouped(g), NEW l, NEW e \in Edges(g),
         NEW d \in 0 .. e - 1, g.start[d] = g.start[e]
  PROVE  Representative(g, l, d) <=> Representative(g, l, e)
<1>1. d \in Edges(g) /\ d <= e /\ e \in Nat /\ d \in Nat
  BY DEF Edges, IsGraph
<1>2. \A b \in d .. e : g.start[b] = g.start[e]
  BY <1>1 DEF Grouped
<1>3. \A b \in 0 .. e - 1 : b \in 0 .. d - 1 \/ b \in d .. e
  BY <1>1
<1>4. \A b \in 0 .. d - 1 : b \in 0 .. e - 1
  BY <1>1
<1> QED
  BY <1>2, <1>3, <1>4 DEF Representative

LEMMA KeepsLabels ==
  ASSUME QuotientInv, pc # "label", pc' # "label", UNCHANGED <<input, w>>
  PROVE  LabelsInv'
BY DEF QuotientInv, LabelsInv, input, Node, node_n, CompletedLabel

LEMMA DropEdgeQuotient ==
  CompactionInv /\ QuotientInv /\ DropEdge => QuotientInv'
<1> SUFFICES ASSUME CompactionInv, QuotientInv, DropEdge PROVE QuotientInv'
  OBVIOUS
<1>1. /\ pc = "edges" /\ i < edge_n /\ VisitSource /\ ~counting'
      /\ pc' = pc /\ i' = i + 1 /\ new_edge_n' = new_edge_n
      /\ UNCHANGED <<input, w, edge_start, edge_end, edge_weight,
                     weight_indexes>>
      /\ graph' = graph /\ Node' = Node
  BY DEF DropEdge, input, arrays, Node
<1>2. /\ IsGraph(graph) /\ Grouped(graph)
      /\ i \in Nat /\ i < graph.edges /\ new_edge_n \in Nat
      /\ current_node' = graph.start[i]
      /\ ~Representative(graph, w, i)
      /\ \A c \in Node : considered_nodes'[c] <=> LabelRead(graph, w, i + 1, c)
      /\ \A t \in Node :
           weight_indexes[t] \in first_edge_i' .. new_edge_n - 1 =>
             edge_end[weight_indexes[t]] = t
  BY <1>1, VisitGroup
<1>3. LabelsInv'
  BY <1>1, KeepsLabels
<1>4. GroupInv'
  <2>1. i' - 1 = i
    BY <1>1, <1>2
  <2> QED
    BY <1>1, <1>2, <2>1 DEF GroupInv
<1>5. QuotientHeld'
  <2>1. PICK s : Holds(graph, w, i, new_edge_n, s,
                       edge_start, edge_end, edge_weight)
    BY <1>1 DEF QuotientInv, QuotientHeld
  <2>2. \A k \in 0 .. new_edge_n - 1 : ~Parallel(graph, w, i, s[k])
    <3> SUFFICES ASSUME NEW k \in 0 .. new_edge_n - 1,
                        Parallel(graph, w, i, s[k])
                 PROVE  FALSE
      OBVIOUS
    <3>1. s[k] \in 0 .. i - 1 /\ KeptEdge(graph, w, s[k])
          /\ graph.start[s[k]] = graph.start[i]
      BY <2>1 DEF Holds, Parallel
    <3>2. i \in Edges(graph)
      BY <1>2 DEF Edges, IsGraph
    <3> QED
      BY <1>2, <3>1, <3>2, GroupRepresentative DEF KeptEdge
  <2>3. ~KeptEdge(graph, w, i)
    BY <1>2 DEF KeptEdge
  <2>4. Holds(graph, w, i + 1, new_edge_n, s, edge_start, edge_end, edge_weight)
    BY <1>2, <2>1, <2>2, <2>3, HoldsDropped
  <2> QED
    BY <1>1, <2>4 DEF QuotientHeld
<1> QED
  BY <1>3, <1>4, <1>5 DEF QuotientInv

(* In a group that is counted, an edge is the first to its label exactly   *)
(* when weight_indexes has no place for it.                                *)
LEMMA TargetOfGroup ==
  ASSUME CompactionInv, QuotientInv, pc = "edges", i < edge_n, VisitSource,
         counting', NEW s,
         Holds(graph, w, i, new_edge_n, s, edge_start, edge_end, edge_weight)
  PROVE  /\ NewTarget(Target, first_edge_i') => KeptEdge(graph, w, i)
         /\ ~NewTarget(Target, first_edge_i') =>
              /\ weight_indexes[Target] \in 0 .. new_edge_n - 1
              /\ Parallel(graph, w, i, s[weight_indexes[Target]])
<1>1. /\ i \in Nat /\ i < graph.edges /\ new_edge_n \in Nat
      /\ Source = w[graph.start[i]] /\ Target = w[graph.end[i]]
      /\ Representative(graph, w, i)
      /\ \A t \in Node :
           weight_indexes[t] \in first_edge_i' .. new_edge_n - 1 =>
             edge_end[weight_indexes[t]] = t
  BY VisitGroup
<1>2. /\ Target \in Node /\ first_edge_i' \in 0 .. new_edge_n
      /\ \A k \in 0 .. new_edge_n - 1 :
           /\ k >= first_edge_i' <=> edge_start[k] = Source
           /\ k >= first_edge_i' => weight_indexes[edge_end[k]] = k
  BY VisitSourceInv
<1>3. weight_indexes[Target] \in (0 .. new_edge_n - 1) \cup {edge_n}
      /\ new_edge_n <= i /\ edge_n \in Nat
  BY <1>2 DEF CompactionInv, EdgeInv, TypeOK, IsGraph, edge_n
<1>4. ASSUME NEW d \in 0 .. i - 1, Parallel(graph, w, d, i)
      PROVE  ~NewTarget(Target, first_edge_i')
  <2> DEFINE D == {b \in 0 .. i - 1 : Parallel(graph, w, b, i)}
             e == Min(D)
  <2>1. D \subseteq Nat /\ D # {}
    BY <1>1, <1>4
  <2>2. e \in D /\ \A b \in D : e <= b
    BY <2>1, MinOfNat
  <2>3. e \in 0 .. i - 1 /\ Parallel(graph, w, e, i)
    BY <2>2
  <2> HIDE DEF e
  <2>4. KeptEdge(graph, w, e)
    <3>1. Representative(graph, w, e)
      <4>1. \A b \in 0 .. e - 1 : b \in 0 .. i - 1
        BY <1>1, <2>3
      <4> QED
        BY <1>1, <2>3, <4>1 DEF Representative, Parallel
    <3>2. ASSUME NEW b \in 0 .. e - 1, Parallel(graph, w, b, e) PROVE FALSE
      <4>1. b \in 0 .. i - 1 /\ ~(e <= b)
        BY <1>1, <2>3
      <4>2. Parallel(graph, w, b, i)
        BY <2>3, <3>2 DEF Parallel
      <4> QED
        BY <2>2, <4>1, <4>2
    <3> QED
      BY <3>1, <3>2 DEF KeptEdge
  <2>5. PICK k \in 0 .. new_edge_n - 1 : s[k] = e
    BY <2>3, <2>4 DEF Holds
  <2>6. edge_start[k] = Source /\ edge_end[k] = Target
    BY <1>1, <2>3, <2>5 DEF Holds, Parallel
  <2>7. weight_indexes[Target] = k /\ k >= first_edge_i'
    BY <1>2, <2>6
  <2> QED
    BY <1>1, <1>2, <1>3, <2>7 DEF NewTarget, edge_n
<1>5. NewTarget(Target, first_edge_i') => KeptEdge(graph, w, i)
  BY <1>1, <1>4 DEF KeptEdge
<1>6. ASSUME ~NewTarget(Target, first_edge_i')
      PROVE  /\ weight_indexes[Target] \in 0 .. new_edge_n - 1
             /\ Parallel(graph, w, i, s[weight_indexes[Target]])
  <2> DEFINE k == weight_indexes[Target]
  <2>1. k \in 0 .. new_edge_n - 1 /\ k \in first_edge_i' .. new_edge_n - 1
        /\ k >= first_edge_i'
    BY <1>1, <1>2, <1>3, <1>6 DEF NewTarget
  <2>2. edge_end[k] = Target /\ edge_start[k] = Source
    BY <1>1, <1>2, <2>1
  <2> HIDE DEF k
  <2>3. s[k] \in 0 .. i - 1 /\ Source = w[graph.start[s[k]]]
        /\ Target = w[graph.end[s[k]]]
    BY <2>1, <2>2 DEF Holds
  <2>4. graph.start[s[k]] = graph.start[i]
    BY <1>1, <2>3 DEF Representative
  <2> QED
    BY <1>1, <2>1, <2>3, <2>4 DEF Parallel, k
<1> QED
  BY <1>5, <1>6

LEMMA AppendEdgeQuotient ==
  CompactionInv /\ QuotientInv /\ AppendEdge => QuotientInv'
<1> SUFFICES ASSUME CompactionInv, QuotientInv, AppendEdge PROVE QuotientInv'
  OBVIOUS
<1> DEFINE n == new_edge_n
<1>1. /\ pc = "edges" /\ i < edge_n /\ VisitSource /\ counting'
      /\ pc' = pc /\ i' = i + 1 /\ new_edge_n' = n + 1
      /\ UNCHANGED <<input, w>>
      /\ edge_start' = [edge_start EXCEPT ![i] = Source, ![n] = Source]
      /\ edge_end' = [edge_end EXCEPT ![i] = Target, ![n] = Target]
      /\ edge_weight' = [edge_weight EXCEPT ![n] = edge_weight[i]]
      /\ weight_indexes' = [weight_indexes EXCEPT ![Target] = n]
      /\ graph' = graph /\ Node' = Node
      /\ NewTarget(Target, first_edge_i')
  BY DEF AppendEdge, Slot, input, Node
<1>2. /\ IsGraph(graph) /\ Grouped(graph)
      /\ i \in Nat /\ i < graph.edges /\ n \in Nat
      /\ Source = w[graph.start[i]] /\ Target = w[graph.end[i]]
      /\ edge_weight[i] = graph.weight[i]
      /\ current_node' = graph.start[i]
      /\ Representative(graph, w, i)
      /\ \A c \in Node : considered_nodes'[c] <=> LabelRead(graph, w, i + 1, c)
      /\ \A t \in Node :
           weight_indexes[t] \in first_edge_i' .. n - 1 =>
             edge_end[weight_indexes[t]] = t
  BY <1>1, VisitGroup
<1>3. Target \in Node /\ first_edge_i' \in 0 .. n
  BY <1>1, VisitSourceInv
<1>4. /\ edge_start \in [Edges(graph) -> Node]
      /\ edge_end \in [Edges(graph) -> Node]
      /\ edge_weight \in [Edges(graph) -> 0 .. WeightModulus - 1]
      /\ weight_indexes \in [Node -> 0 .. edge_n]
      /\ n <= i /\ edge_n = graph.edges /\ graph.edges \in Nat
      /\ \A t \in Node : weight_indexes[t] \in (0 .. n - 1) \cup {edge_n}
  BY <1>1 DEF CompactionInv, TypeOK, EdgeInv, edge_n, IsGraph
<1>5. i \in Edges(graph) /\ n \in Edges(graph)
      /\ \A k \in 0 .. n - 1 : k \in Edges(graph) /\ k # i /\ k # n
  BY <1>2, <1>4 DEF Edges
<1>6. /\ \A k \in 0 .. n - 1 :
           /\ edge_start'[k] = edge_start[k]
           /\ edge_end'[k] = edge_end[k]
           /\ edge_weight'[k] = edge_weight[k]
      /\ edge_start'[n] = Source /\ edge_end'[n] = Target
      /\ edge_weight'[n] = graph.weight[i]
  BY <1>1, <1>2, <1>4, <1>5
<1>7. LabelsInv'
  BY <1>1, KeepsLabels
<1>8. GroupInv'
  <2>1. i' - 1 = i
    BY <1>1, <1>2
  <2>2. ASSUME NEW t \in Node, weight_indexes'[t] \in first_edge_i' .. n
        PROVE  edge_end'[weight_indexes'[t]] = t
    <3>1. CASE t = Target
      <4>1. weight_indexes'[t] = n
        BY <1>1, <1>3, <1>4, <3>1
      <4> QED
        BY <1>6, <3>1, <4>1
    <3>2. CASE t # Target
      <4>1. weight_indexes'[t] = weight_indexes[t]
        BY <1>1, <1>4, <3>2
      <4>2. weight_indexes[t] \in (0 .. n - 1) \cup {edge_n}
            /\ ~(edge_n <= n)
        BY <1>2, <1>4
      <4>3. weight_indexes[t] \in 0 .. n - 1
            /\ weight_indexes[t] \in first_edge_i' .. n - 1
        BY <1>2, <1>3, <1>4, <2>2, <4>1, <4>2
      <4> QED
        BY <1>2, <1>6, <4>1, <4>3
    <3> QED
      BY <3>1, <3>2
  <2>3. new_edge_n' - 1 = n
    BY <1>1, <1>2
  <2> QED
    BY <1>1, <1>2, <2>1, <2>2, <2>3 DEF GroupInv
<1>9. QuotientHeld'
  <2>1. PICK s : Holds(graph, w, i, n, s, edge_start, edge_end, edge_weight)
    BY <1>1 DEF QuotientInv, QuotientHeld
  <2>2. KeptEdge(graph, w, i)
    BY <1>1, <2>1, TargetOfGroup
  <2> DEFINE fs == edge_start'  fe == edge_end'  fw == edge_weight'
  <2>3. /\ \A k \in 0 .. n - 1 :
             fs[k] = edge_start[k] /\ fe[k] = edge_end[k]
               /\ fw[k] = edge_weight[k]
        /\ fs[n] = w[graph.start[i]] /\ fe[n] = w[graph.end[i]]
        /\ fw[n] = graph.weight[i]
    BY <1>2, <1>6
  <2> HIDE DEF n, fs, fe, fw
  <2>4. Holds(graph, w, i + 1, n + 1, Extended(s, n, i), fs, fe, fw)
    BY <1>2, <2>1, <2>2, <2>3, HoldsAppended
  <2>5. Holds(graph, w, i + 1, n + 1, Extended(s, n, i),
              edge_start', edge_end', edge_weight')
    BY <2>4 DEF fs, fe, fw
  <2> QED
    BY <1>1, <2>5 DEF QuotientHeld
<1> QED
  BY <1>7, <1>8, <1>9 DEF QuotientInv

LEMMA AddWeightQuotient ==
  CompactionInv /\ QuotientInv /\ AddWeight => QuotientInv'
<1> SUFFICES ASSUME CompactionInv, QuotientInv, AddWeight PROVE QuotientInv'
  OBVIOUS
<1> DEFINE n == new_edge_n
           slot == weight_indexes[Target]
<1>1. /\ pc = "edges" /\ i < edge_n /\ VisitSource /\ counting'
      /\ pc' = pc /\ i' = i + 1 /\ new_edge_n' = n
      /\ UNCHANGED <<input, w, weight_indexes>>
      /\ edge_start' = [edge_start EXCEPT ![i] = Source]
      /\ edge_end' = [edge_end EXCEPT ![i] = Target]
      /\ edge_weight' = [edge_weight EXCEPT ![slot] =
                           (edge_weight[slot] + edge_weight[i]) % WeightModulus]
      /\ graph' = graph /\ Node' = Node
      /\ ~NewTarget(Target, first_edge_i')
  BY DEF AddWeight, input, Node
<1>2. /\ IsGraph(graph) /\ Grouped(graph)
      /\ i \in Nat /\ i < graph.edges /\ n \in Nat
      /\ edge_weight[i] = graph.weight[i]
      /\ current_node' = graph.start[i]
      /\ Representative(graph, w, i)
      /\ \A c \in Node : considered_nodes'[c] <=> LabelRead(graph, w, i + 1, c)
      /\ \A t \in Node :
           weight_indexes[t] \in first_edge_i' .. n - 1 =>
             edge_end[weight_indexes[t]] = t
  BY <1>1, VisitGroup
<1>3. Target \in Node /\ first_edge_i' \in 0 .. n
  BY <1>1, VisitSourceInv
<1>4. /\ edge_start \in [Edges(graph) -> Node]
      /\ edge_end \in [Edges(graph) -> Node]
      /\ edge_weight \in [Edges(graph) -> 0 .. WeightModulus - 1]
      /\ n <= i /\ graph.edges \in Nat
  BY <1>1 DEF CompactionInv, TypeOK, EdgeInv, IsGraph
<1>5. \A k \in 0 .. n - 1 : k \in Edges(graph) /\ k # i
  BY <1>2, <1>4 DEF Edges
<1>6. \A k \in 0 .. n - 1 :
        edge_start'[k] = edge_start[k] /\ edge_end'[k] = edge_end[k]
  BY <1>1, <1>4, <1>5
<1>7. LabelsInv'
  BY <1>1, KeepsLabels
<1>8. GroupInv'
  <2>1. i' - 1 = i
    BY <1>1, <1>2
  <2>2. ASSUME NEW t \in Node, weight_indexes[t] \in first_edge_i' .. n - 1
        PROVE  edge_end'[weight_indexes[t]] = t
    <3>1. weight_indexes[t] \in 0 .. n - 1
      BY <1>2, <1>3, <2>2
    <3> QED
      BY <1>2, <1>6, <2>2, <3>1
  <2> QED
    BY <1>1, <1>2, <2>1, <2>2 DEF GroupInv
<1>9. QuotientHeld'
  <2>1. PICK s : Holds(graph, w, i, n, s, edge_start, edge_end, edge_weight)
    BY <1>1 DEF QuotientInv, QuotientHeld
  <2>2. slot \in 0 .. n - 1 /\ Parallel(graph, w, i, s[slot])
    BY <1>1, <2>1, TargetOfGroup
  <2>3. \A k \in (0 .. n - 1) \ {slot} : edge_weight'[k] = edge_weight[k]
    BY <1>1, <1>4, <1>5
  <2>4. edge_weight'[slot] = (edge_weight[slot] + graph.weight[i]) % WeightModulus
    BY <1>1, <1>2, <1>4, <1>5, <2>2
  <2> HIDE DEF n, slot
  <2>5. Holds(graph, w, i + 1, n, s, edge_start', edge_end', edge_weight')
    BY <1>2, <1>6, <2>1, <2>2, <2>3, <2>4, HoldsAdded
  <2> QED
    BY <1>1, <2>5 DEF QuotientHeld
<1> QED
  BY <1>7, <1>8, <1>9 DEF QuotientInv

LEMMA IdleQuotient ==
  QuotientInv /\ (EndEdges \/ UNCHANGED vars) => QuotientInv'
<1> SUFFICES ASSUME QuotientInv, EndEdges \/ UNCHANGED vars
             PROVE  QuotientInv'
  OBVIOUS
<1>1. /\ pc' = pc \/ (pc = "edges" /\ pc' = "done")
      /\ UNCHANGED <<graph, given, drawn, i, w, new_node_n, edge_start,
                     edge_end, edge_weight, new_edge_n, first_edge_i,
                     current_node, counting, considered_nodes, weight_indexes>>
  BY DEF EndEdges, vars, input, arrays, group
<1>2. Node' = Node /\ node_n' = node_n /\ CompletedLabel' = CompletedLabel
      /\ Unlabelled(i)' = Unlabelled(i)
  BY <1>1 DEF Node, node_n, CompletedLabel, Unlabelled
<1>3. LabelsInv'
  BY <1>1, <1>2 DEF QuotientInv, LabelsInv
<1>4. GroupInv' /\ QuotientHeld'
  BY <1>1, <1>2 DEF QuotientInv, GroupInv, QuotientHeld
<1> QED
  BY <1>3, <1>4 DEF QuotientInv

LEMMA QuotientInvariance == Spec => [](CompactionInv /\ QuotientInv)
<1>1. CompactionInv /\ QuotientInv /\ [Next]_vars => QuotientInv'
  BY LabelNodeQuotient, EndLabelsQuotient, DropEdgeQuotient,
     AppendEdgeQuotient, AddWeightQuotient, IdleQuotient
  DEF Next, Step, Left
<1> QED
  BY InitQuotientInv, CompactionInvariance, <1>1, PTL DEF Spec

(* At any time the edges written are the quotient of the edges read, in    *)
(* their order, with the weights of parallel edges added modulo 2^64; in   *)
(* the end they are the quotient of the graph (rbsc.cu:452-485).           *)
THEOREM BuildsQuotient == Spec => []FollowsQuotient
<1>1. CompactionInv /\ QuotientInv => FollowsQuotient
  <2> SUFFICES ASSUME CompactionInv, QuotientInv, pc # "label"
               PROVE  IsQuotient(Written, Prefix(graph, i), CompletedLabel)
    BY DEF FollowsQuotient, Prefix
  <2>1. /\ IsGraph(graph) /\ i \in Nat /\ new_edge_n \in Nat
        /\ w = CompletedLabel
    BY DEF CompactionInv, TypeOK, QuotientInv, LabelsInv, IsGraph, edge_n
  <2>2. PICK s : Holds(graph, w, i, new_edge_n, s,
                       edge_start, edge_end, edge_weight)
    BY DEF QuotientInv, QuotientHeld
  <2> QED
    BY <2>1, <2>2, HoldsQuotient DEF Written
<1> QED
  BY <1>1, QuotientInvariance, PTL
=============================================================================
