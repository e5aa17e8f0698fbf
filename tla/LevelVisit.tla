----------------------------- MODULE LevelVisit -----------------------------
(***************************************************************************)
(* What a breadth-first visit promises its callback: the nodes it can      *)
(* reach are told one by one, each once, with its distance from the roots  *)
(* and a predecessor one level up, and nobody is told before the level     *)
(* above is complete.  Nodes known from earlier visits, and arrivals the   *)
(* filter refuses, do not count.                                           *)
(***************************************************************************)
EXTENDS Digraphs

NotTold == [pred |-> -1, distance |-> -1]

VARIABLES
  graph,
  levels,       \* of the visit in progress
  told          \* what the callback has been told of each node

vars == <<graph, levels, told>>

Told == {u \in DOMAIN graph : told[u] # NotTold}
Up(u, d) == IF d = 0 THEN {u} ELSE {p \in levels[d - 1] : u \in graph[p]}

Init ==
  /\ IsDigraph(graph)
  /\ levels = [d \in 0 .. Cardinality(DOMAIN graph) |-> {}]
  /\ told = [u \in DOMAIN graph |-> NotTold]

(* A visit begins, which may forget what was told before.  Its levels are  *)
(* disjoint, and below the roots every node is entered along an arc.       *)
Begin ==
  /\ levels' \in [DOMAIN levels -> SUBSET DOMAIN graph]
  /\ \A d, e \in DOMAIN levels : d # e => levels'[d] \cap levels'[e] = {}
  /\ \A d \in DOMAIN levels \ {0} :
       levels'[d] \subseteq Image(graph, levels'[d - 1])
  /\ told' \in {told, [u \in DOMAIN graph |-> NotTold]}
  /\ UNCHANGED graph

Tell(u, d, p) ==
  /\ u \in levels[d]
  /\ u \notin Told
  /\ \A e \in 0 .. d - 1 : levels[e] \subseteq Told
  /\ p \in Up(u, d)
  /\ told' = [told EXCEPT ![u] = [pred |-> p, distance |-> d]]
  /\ UNCHANGED <<graph, levels>>

Next ==
  \/ Begin
  \/ \E d \in DOMAIN levels : \E u \in levels[d] : \E p \in DOMAIN graph :
       Tell(u, d, p)

Spec == Init /\ [][Next]_vars
=============================================================================
