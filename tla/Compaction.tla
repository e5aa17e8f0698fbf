----------------------------- MODULE Compaction -----------------------------
(***************************************************************************)
(* The loops that end a round of rbsc (src/rbsc/rbsc.cu, lines 452-485),   *)
(* step by step: the first completes the labels, the second replaces the   *)
(* edge arrays by those of the quotient while it reads them.  Rbsc takes   *)
(* all of this as one step that yields a quotient in the sense of          *)
(* Quotients; here the loops are shown to build it.                        *)
(***************************************************************************)
EXTENDS Quotients

VARIABLES
  graph, given, drawn,      \* arrays, w and new_node_n when the loops start
  pc,
  i,                        \* the node or edge visited next
  w, new_node_n,
  edge_start, edge_end, edge_weight, new_edge_n,
  first_edge_i, current_node, counting,
  weight_indexes, considered_nodes

input == <<graph, given, drawn>>
arrays == <<edge_start, edge_end, edge_weight>>
group == <<first_edge_i, current_node, counting, considered_nodes>>
vars == <<input, pc, i, w, new_node_n, arrays, new_edge_n, group,
          weight_indexes>>

node_n == graph.nodes
edge_n == graph.edges
Node == Nodes(graph)

(* The threads leave some nodes labelled, without gaps; weight_indexes and *)
(* considered_nodes hold what the round before left, or nothing yet.       *)
Init ==
  /\ graph \in Graphs
  /\ given \in [Node -> Node \cup {node_n}]
  /\ drawn = Cardinality(Range(given) \ {node_n})
  /\ Range(given) \ {node_n} = 0 .. drawn - 1
  /\ pc = "label"
  /\ i = 0
  /\ w = given /\ new_node_n = drawn
  /\ edge_start = graph.start
  /\ edge_end = graph.end
  /\ edge_weight = graph.weight
  /\ new_edge_n = 0
  /\ first_edge_i = 0 /\ current_node = 0 /\ counting = FALSE
  /\ weight_indexes \in {[u \in Node |-> k] : k \in {0, edge_n}}
  /\ considered_nodes \in {[u \in Node |-> b] : b \in BOOLEAN}

-----------------------------------------------------------------------------
(* The first loop.                                                         *)

SameLabel(n) == n                                              \* mutant
NextLabel(n) == n + 1

LabelNode ==
  /\ pc = "label"
  /\ i < node_n
  /\ weight_indexes' = [weight_indexes EXCEPT ![i] = edge_n]
  /\ considered_nodes' = [considered_nodes EXCEPT ![i] = FALSE]
  /\ IF w[i] = node_n
     THEN /\ w' = [w EXCEPT ![i] = new_node_n]
          /\ new_node_n' = NextLabel(new_node_n)
     ELSE UNCHANGED <<w, new_node_n>>
  /\ i' = i + 1
  /\ UNCHANGED <<input, pc, arrays, new_edge_n, first_edge_i, current_node,
                 counting>>

EndLabels ==
  /\ pc = "label"
  /\ i = node_n
  /\ pc' = "edges"
  /\ i' = 0
  /\ UNCHANGED <<input, w, new_node_n, arrays, new_edge_n, group,
                 weight_indexes>>

-----------------------------------------------------------------------------
(* The second loop, one edge of the list per step.                         *)

Source == w[edge_start[i]]
Target == w[edge_end[i]]

(* Lines 464-469: where a source begins it is decided if its edges count.  *)
VisitSource ==
  IF i = 0 \/ edge_start[i] # current_node
  THEN /\ current_node' = edge_start[i]
       /\ counting' = ~considered_nodes[Source]
       /\ first_edge_i' = new_edge_n
       /\ considered_nodes' = [considered_nodes EXCEPT ![Source] = TRUE]
  ELSE UNCHANGED group

(* Line 475: the source has no edge to this label yet.                     *)
NeverUsed(t, first) == weight_indexes[t] = edge_n              \* mutant
OneTooFar(t, first) ==                                         \* mutant
  weight_indexes[t] = edge_n \/ weight_indexes[t] <= first
NewTarget(t, first) ==
  weight_indexes[t] = edge_n \/ weight_indexes[t] < first

DropEdge ==
  /\ pc = "edges"
  /\ i < edge_n
  /\ VisitSource
  /\ ~counting'
  /\ i' = i + 1
  /\ UNCHANGED <<input, pc, w, new_node_n, arrays, new_edge_n,
                 weight_indexes>>

SlotAfter(n) == n + 1                                          \* mutant
Slot(n) == n

AppendEdge ==
  /\ pc = "edges"
  /\ i < edge_n
  /\ VisitSource
  /\ counting'
  /\ NewTarget(Target, first_edge_i')
  /\ LET k == Slot(new_edge_n)
     IN  /\ edge_start' = [edge_start EXCEPT ![i] = Source, ![k] = Source]
         /\ edge_end' = [edge_end EXCEPT ![i] = Target, ![k] = Target]
         /\ edge_weight' = [edge_weight EXCEPT ![k] = edge_weight[i]]
         /\ weight_indexes' = [weight_indexes EXCEPT ![Target] = k]
  /\ new_edge_n' = new_edge_n + 1
  /\ i' = i + 1
  /\ UNCHANGED <<input, pc, w, new_node_n>>

AddWeight ==
  /\ pc = "edges"
  /\ i < edge_n
  /\ VisitSource
  /\ counting'
  /\ ~NewTarget(Target, first_edge_i')
  /\ edge_start' = [edge_start EXCEPT ![i] = Source]
  /\ edge_end' = [edge_end EXCEPT ![i] = Target]
  /\ edge_weight' = [edge_weight EXCEPT ![weight_indexes[Target]] =
                       (@ + edge_weight[i]) % WeightModulus]
  /\ i' = i + 1
  /\ UNCHANGED <<input, pc, w, new_node_n, new_edge_n, weight_indexes>>

EndEdges ==
  /\ pc = "edges"
  /\ i = edge_n
  /\ pc' = "done"
  /\ UNCHANGED <<input, i, w, new_node_n, arrays, new_edge_n, group,
                 weight_indexes>>

Step == LabelNode \/ EndLabels \/ DropEdge \/ AppendEdge \/ AddWeight
          \/ EndEdges

(* The next round begins.                                                  *)
Left == pc = "done" /\ UNCHANGED vars

Next == Step \/ Left

Spec == Init /\ [][Next]_vars

-----------------------------------------------------------------------------
(* Types: what indexes an array stays in it; new labels and new edges are  *)
(* no more than there is room for.                                         *)
TypeOK ==
  /\ IsGraph(graph)
  /\ pc \in {"label", "edges", "done"}
  /\ i \in IF pc = "label" THEN 0 .. node_n ELSE 0 .. edge_n
  /\ new_node_n \in 0 .. node_n
  /\ w \in [Node -> 0 .. node_n]
  /\ pc # "label" => w \in [Node -> 0 .. new_node_n - 1]
  /\ {edge_start, edge_end} \subseteq [Edges(graph) -> Node]
  /\ edge_weight \in [Edges(graph) -> 0 .. WeightModulus - 1]
  /\ new_edge_n \in 0 .. edge_n
  /\ first_edge_i \in 0 .. new_edge_n
  /\ current_node \in Node \cup {0}
  /\ counting \in BOOLEAN
  /\ weight_indexes \in [Node -> 0 .. edge_n]
  /\ considered_nodes \in [Node -> BOOLEAN]

(* The list is overwritten only behind the edge that is read next: the     *)
(* loop never reads an edge it wrote itself (rbsc.cu:472-480).             *)
UnreadIntact ==
  pc # "label" =>
    \A k \in i .. edge_n - 1 :
      /\ edge_start[k] = graph.start[k]
      /\ edge_end[k] = graph.end[k]
      /\ edge_weight[k] = graph.weight[k]

(* Between two nodes of the quotient there is at most one edge, whatever   *)
(* weight_indexes holds of the groups before (rbsc.cu:475).                *)
NoParallelEdges ==
  pc # "label" =>
    \A j, k \in 0 .. new_edge_n - 1 :
      edge_start[j] = edge_start[k] /\ edge_end[j] = edge_end[k] => j = k

(* What is written is, at any time, the quotient of the edges read so far: *)
(* in the end that of the graph, by the labels of the threads with a new   *)
(* one for every other node.                                               *)
Written ==
  [nodes |-> new_node_n, edges |-> new_edge_n,
   start |-> [k \in 0 .. new_edge_n - 1 |-> edge_start[k]],
   end |-> [k \in 0 .. new_edge_n - 1 |-> edge_end[k]],
   weight |-> [k \in 0 .. new_edge_n - 1 |-> edge_weight[k]]]
CompletedLabel ==
  [u \in Node |->
     IF given[u] = node_n
     THEN drawn + Cardinality({v \in 0 .. u - 1 : given[v] = node_n})
     ELSE given[u]]
FollowsQuotient ==
  pc # "label" =>
    IsQuotient(Written, [graph EXCEPT !.edges = i], CompletedLabel)
=============================================================================
