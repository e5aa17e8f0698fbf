------------------------------- MODULE MCRsc --------------------------------
(***************************************************************************)
(* Instances of Rsc for TLC.                                               *)
(***************************************************************************)
EXTENDS Rsc, MCGraphs

(* Weights of 0 included; with three edges of weight 2 the limit of 5 is   *)
(* exceeded.                                                               *)
SmallGraphs ==
  AllGraphs(1, 0, {1}) \cup AllGraphs(1, 1, {1}) \cup
  AllGraphs(3, 2, {0, 1, 2}) \cup AllGraphs(3, 3, {1, 2}) \cup
  AllGraphs(3, 4, {1}) \cup AllGraphs(4, 4, {1})

(* Sums collide at will on a part of them.                                 *)
FewGraphs == AllGraphs(3, 3, {1, 2})

(* One edge heavier than the limit.                                        *)
HeavyGraphs == AllGraphs(3, 2, {1, 6})

MCInit == Init /\ (ideal \/ graph \in FewGraphs)
MCSpec == MCInit /\ [][Next]_vars /\ WF_vars(Step)
=============================================================================
