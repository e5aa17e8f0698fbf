------------------------------- MODULE MCRbsc -------------------------------
(***************************************************************************)
(* Instances of Rbsc for TLC.                                              *)
(***************************************************************************)
EXTENDS Rbsc, MCGraphs

(* Three nodes with weights, four nodes without: few edges, or one from    *)
(* every node.                                                             *)
SmallGraphs ==
  AllGraphs(3, 2, {1, 2}) \cup AllGraphs(3, 3, {1, 2}) \cup
  AllGraphs(3, 4, {1}) \cup AllGraphs(4, 3, {1}) \cup
  {g \in AllGraphs(4, 4, {1}) : Range(g.start) = Nodes(g)}

(* The weights of a few graphs.                                            *)
FewGraphs == AllGraphs(3, 3, {1, 2})

(* Four nodes with one edge each, to a fifth that has none.                *)
SinkGraph ==
  [nodes |-> 5, edges |-> 4,
   start |-> [k \in 0 .. 3 |-> k], end |-> [k \in 0 .. 3 |-> 4],
   weight |-> [k \in 0 .. 3 |-> 1]]
SinkGraphs == {SinkGraph}

(* One GPU: hashes collide at will on a part of the graphs.  A step to an  *)
(* undefined outcome is none here, so that one would show as a deadlock.   *)
RoundsInit == Init /\ (ideal \/ graph \in FewGraphs)
RoundsNext == Next /\ pc' # "undefined"
RoundsSpec == RoundsInit /\ [][RoundsNext]_vars /\ Fairness

(* No two signatures have the same hash.                                   *)
IdealSpec == Spec /\ (ideal = TRUE)
=============================================================================
