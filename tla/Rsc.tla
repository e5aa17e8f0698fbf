-------------------------------- MODULE Rsc ---------------------------------
(***************************************************************************)
(* rsc: sequential colour refinement (src/rsc/rsc.cpp), the tool the GPU   *)
(* programs are compared with.  It reads the graph edge by edge into words *)
(* of 32 bits, and then repeats: every node sums the hashed labels of its  *)
(* successors, times the weights, in place in z; nodes are relabelled by   *)
(* the value of z alone; it ends when the number of labels repeats.        *)
(*                                                                         *)
(* z[u] is modelled by what is summed up in it: the weight node u sends to *)
(* each label.  The 64-bit sum of hashes is any function of that signature *)
(* (when ideal, an injective one), another one in each iteration, as the   *)
(* code adds the iteration number to a label before it hashes it.  A label *)
(* is named by the least node that has it.                                 *)
(***************************************************************************)
EXTENDS WeightedGraphs, FiniteSetsExt

CONSTANTS
  Graphs,               \* the inputs explored, with weights as written
  WEIGHT_MAX,           \* UINT32_MAX, the largest node_t
  HashValues            \* the values of a hash that may collide

ASSUME RscAssumption ==
  /\ \A g \in Graphs : IsGraph(g) /\ Grouped(g) /\ g.nodes > 0
  /\ WEIGHT_MAX \in Nat
  /\ WEIGHT_MAX < WeightModulus
  /\ HashValues # {}

VARIABLES
  graph,                \* what is written on standard input
  ideal,                \* distinct signatures get distinct hashes
  pc,
  edge_weight,          \* read so far; the other arrays are the graph's
  tot_weight,
  i,                    \* the edge read or summed next
  w, z,
  new_node_n,
  result

vars == <<graph, ideal, pc, edge_weight, tot_weight, i, w, z, new_node_n, result>>

Node == Nodes(graph)
Label == 0 .. graph.nodes           \* 1 before the first iteration
AllEdges == i = graph.edges
FirstEdge(e) == e = 0 \/ graph.start[e - 1] # graph.start[e]

NoResult == [done |-> -1, nodes |-> -1]
NoWeight == [c \in Label |-> 0]

Init ==
  /\ graph \in Graphs
  /\ ideal \in BOOLEAN
  /\ pc = "read"
  /\ edge_weight = << >>
  /\ tot_weight = 0
  /\ i = 0
  /\ w = [u \in Node |-> 1]
  /\ z = [u \in Node |-> NoWeight]
  /\ new_node_n = graph.nodes
  /\ result = NoResult

-----------------------------------------------------------------------------
(* read_graph: a weight is cut to 32 bits when it is stored, and then      *)
(* added to the total unless that would exceed WEIGHT_MAX.                 *)

Stored(e) == graph.weight[e] % (WEIGHT_MAX + 1)
Exceeds(tot, c) == WEIGHT_MAX - tot < c

ReadEdge ==
  /\ pc = "read"
  /\ i < graph.edges
  /\ ~Exceeds(tot_weight, Stored(i))
  /\ tot_weight' = (tot_weight + Stored(i)) % (WEIGHT_MAX + 1)
  /\ edge_weight' =
       [e \in 0 .. i |-> IF e = i THEN Stored(i) ELSE edge_weight[e]]
  /\ i' = i + 1
  /\ UNCHANGED <<graph, ideal, pc, w, z, new_node_n, result>>

RejectWeight ==
  /\ pc = "read"
  /\ i < graph.edges
  /\ Exceeds(tot_weight, Stored(i))
  /\ pc' = "failed"
  /\ UNCHANGED <<graph, ideal, edge_weight, tot_weight, i, w, z, new_node_n, result>>

EndRead ==
  /\ pc = "read"
  /\ AllEdges
  /\ pc' = "sum"
  /\ i' = 0
  /\ UNCHANGED <<graph, ideal, edge_weight, tot_weight, w, z, new_node_n, result>>

-----------------------------------------------------------------------------
(* The refinement loop.                                                    *)

NoReset(e) == z[graph.start[e]]                                \* mutant
SumBefore(e) == IF FirstEdge(e) THEN NoWeight ELSE z[graph.start[e]]

EndNode(e) == graph.end[e]                                     \* mutant
EndLabel(e) == w[graph.end[e]]

(* spmv, one edge: the first edge of a source resets its sum.              *)
AddEdge ==
  /\ pc = "sum"
  /\ i < graph.edges
  /\ z' = [z EXCEPT ![graph.start[i]] =
             [SumBefore(i) EXCEPT ![EndLabel(i)] =
                (@ + edge_weight[i]) % WeightModulus]]
  /\ i' = i + 1
  /\ UNCHANGED <<graph, ideal, pc, edge_weight, tot_weight, w, new_node_n, result>>

Hashes(S) == IF ideal THEN {[s \in S |-> s]} ELSE [S -> HashValues]

CountShrinks(n) == n < new_node_n                              \* mutant
Settled(n) == n = new_node_n

(* Sort by z, number the runs of equal z, and compare their number with    *)
(* that of the iteration before.                                           *)
Relabel ==
  /\ pc = "sum"
  /\ AllEdges
  /\ \E h \in Hashes(Range(z)) :
       w' = [u \in Node |-> Min({v \in Node : h[z[v]] = h[z[u]]})]
  /\ new_node_n' = Cardinality(Range(w'))
  /\ pc' = IF Settled(new_node_n') THEN "print" ELSE "sum"
  /\ i' = 0
  /\ UNCHANGED <<graph, ideal, edge_weight, tot_weight, z, result>>

PrintResult ==
  /\ pc = "print"
  /\ pc' = "done"
  /\ result' = [done |-> 1, nodes |-> new_node_n]
  /\ UNCHANGED <<graph, ideal, edge_weight, tot_weight, i, w, z, new_node_n>>

Step == ReadEdge \/ RejectWeight \/ EndRead
          \/ AddEdge \/ Relabel \/ PrintResult

(* The process has left main.                                              *)
Stopped == pc \in {"done", "failed"} /\ UNCHANGED vars

Next == Step \/ Stopped

Spec == Init /\ [][Next]_vars
FairSpec == Spec /\ WF_vars(Step)

-----------------------------------------------------------------------------
(* The edges whose weights have been stored.                               *)
StoredEdges ==
  IF pc \in {"read", "failed"} THEN 0 .. i - 1 ELSE Edges(graph)

(* Types: labels, sums and the total stay within their words, and every    *)
(* weight the loop reads has been stored.                                  *)
TypeOK ==
  /\ IsGraph(graph)
  /\ ideal \in BOOLEAN
  /\ pc \in {"read", "failed", "sum", "print", "done"}
  /\ i \in 0 .. graph.edges
  /\ tot_weight \in 0 .. WEIGHT_MAX
  /\ edge_weight \in [StoredEdges -> 0 .. WEIGHT_MAX]
  /\ w \in [Node -> Label]
  /\ z \in [Node -> [Label -> 0 .. WeightModulus - 1]]
  /\ new_node_n \in Nat

(* The limit does its work on what is stored: the total never wraps, so    *)
(* that no sum of 32-bit weights can (CHECK_WEIGHT, rsc.cpp:17-23, :57);   *)
(* and the sums spmv makes in place, resetting them where a source begins, *)
(* are those of the current labels, whatever earlier iterations left in z  *)
(* (rsc.cpp:71-78).                                                        *)
SumsExact ==
  /\ tot_weight = SumFunctionOnSet(edge_weight, DOMAIN edge_weight)
  /\ pc = "sum" /\ AllEdges =>
       \A u \in Node, c \in Label :
         z[u][c] = OutWeight([graph EXCEPT !.weight = edge_weight],
                             u, Block(w, c))

(* Whatever the hash, a partition that joins what has been separated is no *)
(* reduction of the input: with sums that collide the answer may be too    *)
(* small, never too large (rsc.cpp:71-78, :128-142).                       *)
CollisionsOnlyLump ==
  \A q \in [Node -> Node] :
    ~Refines(Blocks(q), Blocks(w)) => ~StablePartition(graph, Blocks(q))

(* With distinct sums told apart the program implements the abstract       *)
(* reduction; its only step there is the answer, the coarsest stable       *)
(* partition.  Nodes are relabelled by the new sums alone, the old labels  *)
(* are not part of the comparison (rsc.cpp:92-97): still no two labels are *)
(* ever joined, on which the comparison of counts at rsc.cpp:144 relies.   *)
Reduction == INSTANCE Lumping WITH
  blocks <- IF pc = "done" THEN Blocks(w) ELSE {{u} : u \in Node}
Splits == pc = "sum" => Refines(Blocks(w'), Blocks(w))
AnswerIsCoarsest ==
  /\ Reduction!Init
  /\ [][ideal => Splits /\ [Reduction!Next]_Reduction!vars]_vars

(* The program answers or rejects its input.                               *)
EndsWhenIdeal == ideal ~> pc \in {"done", "failed"}

(* rsc.cpp:20, "Total edge weight exceeding limit!": a graph beyond the    *)
(* limit is not answered for.                                              *)
HeavyIsRejected ==
  pc = "done" =>
    SumFunctionOnSet(graph.weight, Edges(graph)) <= WEIGHT_MAX
=============================================================================
