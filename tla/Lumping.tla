------------------------------ MODULE Lumping -------------------------------
(***************************************************************************)
(* What a reduction tool promises, whatever its algorithm.  It lumps nodes *)
(* of the graph together, only ever into stable partitions, and stops with *)
(* the number of blocks and a flag; a flag of 1 says that the partition is *)
(* the coarsest stable one.                                                *)
(***************************************************************************)
EXTENDS WeightedGraphs

VARIABLES
  graph,                    \* the input
  blocks,                   \* the partition of its nodes reached so far
  result                    \* what was printed: done and nodes

vars == <<graph, blocks, result>>

NoResult == [done |-> -1, nodes |-> -1]

Init ==
  /\ IsGraph(graph)
  /\ blocks = {{u} : u \in Nodes(graph)}
  /\ result = NoResult

(* One round of the tool: coarser, and still a reduction of the input.     *)
Lump ==
  /\ result = NoResult
  /\ Refines(blocks, blocks')
  /\ StablePartition(graph, blocks')
  /\ UNCHANGED <<graph, result>>

(* The tool prints its answer.                                             *)
Answer ==
  /\ result = NoResult
  /\ Refines(blocks, blocks')
  /\ StablePartition(graph, blocks')
  /\ result'.nodes = Cardinality(blocks')
  /\ result'.done \in {0, 1}
  /\ result'.done = 1 => Coarsest(graph, blocks')
  /\ UNCHANGED graph

Next == Lump \/ Answer

Spec == Init /\ [][Next]_vars
=============================================================================
