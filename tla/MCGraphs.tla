------------------------------ MODULE MCGraphs ------------------------------
(***************************************************************************)
(* Enumerations of small graphs, the inputs of the instances for TLC.      *)
(***************************************************************************)
EXTENDS Integers, FiniteSets, FiniteSetsExt

(* The edges of S (pairs coded source * n + destination) in order.         *)
GraphOf(n, S, weight) ==
  LET kth == [k \in 0 .. Cardinality(S) - 1 |->
                CHOOSE c \in S : Cardinality({d \in S : d < c}) = k]
  IN  [nodes |-> n, edges |-> Cardinality(S),
       start |-> [k \in DOMAIN kth |-> kth[k] \div n],
       end |-> [k \in DOMAIN kth |-> kth[k] % n],
       weight |-> [k \in DOMAIN kth |-> weight[kth[k]]]]

(* All graphs of n nodes with m edges and the given weights.               *)
AllGraphs(n, m, Weights) ==
  UNION {{GraphOf(n, S, wt) : wt \in [S -> Weights]} :
         S \in kSubset(m, 0 .. n * n - 1)}
=============================================================================
