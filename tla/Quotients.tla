----------------------------- MODULE Quotients ------------------------------
(***************************************************************************)
(* The quotient rbsc builds of a graph by a labelling of its nodes at the  *)
(* end of a round (src/rbsc/rbsc.cu, lines 451-486), as what it is:        *)
(* of the edges, it keeps the group of the first source node of each       *)
(* label, and of that group one edge for each label it leads to, with the  *)
(* weight of all edges that lead there.                                    *)
(***************************************************************************)
EXTENDS WeightedGraphs

CONSTANT Graphs             \* the edge lists explored

ASSUME GraphsAssumption == \A g \in Graphs : IsGraph(g) /\ Grouped(g)

Representative(g, label, e) ==
  \A d \in 0 .. e - 1 :
    label[g.start[d]] = label[g.start[e]] => g.start[d] = g.start[e]

Parallel(g, label, d, e) ==
  g.start[d] = g.start[e] /\ label[g.end[d]] = label[g.end[e]]

Kept(g, label) ==
  {e \in Edges(g) : /\ Representative(g, label, e)
                    /\ \A d \in 0 .. e - 1 : ~Parallel(g, label, d, e)}

FirstWeight(g, label, e) == g.weight[e]                        \* mutant
SummedWeight(g, label, e) ==
  SumFunctionOnSet(g.weight, {d \in Edges(g) : Parallel(g, label, d, e)})
    % WeightModulus

(* The members of S in order: the edges kept stay in the order of the list.*)
InOrder(S) ==
  {s \in [0 .. Cardinality(S) - 1 -> S] :
     \A j, k \in DOMAIN s : j < k => s[j] < s[k]}

(* The quotient with n nodes whose k-th edge comes from edge source[k].    *)
QuotientGraph(g, label, n, source) ==
  [nodes |-> n, edges |-> Cardinality(Kept(g, label)),
   start |-> [k \in DOMAIN source |-> label[g.start[source[k]]]],
   end |-> [k \in DOMAIN source |-> label[g.end[source[k]]]],
   weight |-> [k \in DOMAIN source |-> SummedWeight(g, label, source[k])]]

IsQuotient(q, g, label) ==
  \E source \in InOrder(Kept(g, label)) :
    q = QuotientGraph(g, label, q.nodes, source)
=============================================================================
