----------------------------- MODULE BallGrowth -----------------------------
(***************************************************************************)
(* What HyperBall promises: after t iterations the estimator of a node has *)
(* seen the items of all nodes within distance t, and the neighborhood     *)
(* function is the sum of what all estimators say.  An estimator is the    *)
(* set of the items it tells apart.                                        *)
(***************************************************************************)
EXTENDS Digraphs

VARIABLES
  graph,
  state,                    \* the set of items of every node
  neighborhood_function     \* one value per distance, from 0 on

vars == <<graph, state, neighborhood_function>>

Total(s) == SumFunctionOnSet([u \in DOMAIN s |-> Cardinality(s[u])], DOMAIN s)
Grown(g, s) == [u \in DOMAIN s |-> s[u] \cup UNION {s[v] : v \in g[u]}]

Init ==
  /\ IsDigraph(graph)
  /\ state = [u \in DOMAIN graph |-> {}]
  /\ neighborhood_function = << >>

(* A run begins: every node has its own items.                             *)
Begin ==
  /\ DOMAIN state' = DOMAIN graph
  /\ neighborhood_function' = << Total(state') >>
  /\ UNCHANGED graph

Grow ==
  /\ neighborhood_function # << >>
  /\ state' = Grown(graph, state)
  /\ neighborhood_function' = Append(neighborhood_function, Total(state'))
  /\ UNCHANGED graph

Next == Grow \/ Begin

Spec == Init /\ [][Next]_vars
=============================================================================
