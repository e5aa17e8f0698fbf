--------------------------- MODULE WeightedGraphs ---------------------------
(***************************************************************************)
(* The data every tool of the repository works on and the notion they all  *)
(* compute: a directed graph given as three parallel edge arrays, and the  *)
(* backward-equivalence (BE) reductions of it.  A partition of the nodes   *)
(* is STABLE when any two nodes of one block send the same total weight to *)
(* every block; the reduction asked for is the coarsest stable partition.  *)
(* Weights are 64-bit words in the code and their sums wrap, here modulo   *)
(* WeightModulus.                                                          *)
(***************************************************************************)
EXTENDS Integers, FiniteSets, Functions, Partitions

CONSTANT WeightModulus      \* 2^64 in the code

ASSUME ModulusAssumption == WeightModulus \in Nat \ {0}

Nodes(g) == 0 .. g.nodes - 1
Edges(g) == 0 .. g.edges - 1

(* What read_graph fills in: edge k goes from start[k] to end[k].          *)
IsGraph(g) ==
  /\ g = [nodes |-> g.nodes, edges |-> g.edges,
           start |-> g.start, end |-> g.end, weight |-> g.weight]
  /\ g.nodes \in Nat
  /\ g.edges \in Nat
  /\ g.start \in [Edges(g) -> Nodes(g)]
  /\ g.end \in [Edges(g) -> Nodes(g)]
  /\ g.weight \in [Edges(g) -> 0 .. WeightModulus - 1]

(* The input format: the edges of one source node are contiguous.          *)
Grouped(g) ==
  \A j, k \in Edges(g) :
    j <= k /\ g.start[j] = g.start[k] =>
      \A e \in j .. k : g.start[e] = g.start[j]

(* The total weight node u sends to the nodes of C.                        *)
OutWeight(g, u, C) ==
  SumFunctionOnSet(g.weight,
    {k \in Edges(g) : g.start[k] = u /\ g.end[k] \in C}) % WeightModulus

StablePartition(g, P) ==
  \A B, C \in P : \A u, v \in B : OutWeight(g, u, C) = OutWeight(g, v, C)

Coarsest(g, P) ==
  /\ StablePartition(g, P)
  /\ \A q \in [Nodes(g) -> Nodes(g)] :
       StablePartition(g, Blocks(q)) => Refines(Blocks(q), P)
=============================================================================
