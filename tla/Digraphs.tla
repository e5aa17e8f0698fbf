------------------------------ MODULE Digraphs ------------------------------
(***************************************************************************)
(* The unlabelled directed graphs of webgraph-rs: nodes 0 .. n - 1, each   *)
(* with the list of its successors in increasing order.  A graph is given  *)
(* by the function from nodes to sets of successors.                       *)
(***************************************************************************)
EXTENDS Integers, Sequences, FiniteSets, SequencesExt, Functions

IsDigraph(g) ==
  /\ IsFiniteSet(DOMAIN g)
  /\ DOMAIN g = 0 .. Cardinality(DOMAIN g) - 1
  /\ g \in [DOMAIN g -> SUBSET DOMAIN g]

(* All graphs of n nodes; those without loops; the symmetric ones.         *)
AllDigraphs(n) == [0 .. n - 1 -> SUBSET (0 .. n - 1)]
Loopless(n) == {g \in AllDigraphs(n) : \A u \in 0 .. n - 1 : u \notin g[u]}
Symmetric(g) == \A u, v \in DOMAIN g : v \in g[u] <=> u \in g[v]

(* The graph of n nodes with the arcs of A, a set of pairs.                *)
FromArcs(n, A) ==
  [u \in 0 .. n - 1 |-> {v \in 0 .. n - 1 : <<u, v>> \in A}]

Arcs(g) == UNION {{<<u, v>> : v \in g[u]} : u \in DOMAIN g}
NumArcs(g) == Cardinality(Arcs(g))
Transposed(g) == [v \in DOMAIN g |-> {u \in DOMAIN g : v \in g[u]}]
Image(g, S) == UNION {g[u] : u \in S}

Increasing(S) ==
  [i \in 1 .. Cardinality(S) |->
     CHOOSE x \in S : Cardinality({y \in S : y < x}) = i - 1]
Successors(g, u) == Increasing(g[u])

(* What is reached from S along at most d arcs, for every d.               *)
Balls(g, S) ==
  LET B[d \in Nat] ==
        IF d = 0 THEN S ELSE LET A == B[d - 1] IN A \cup Image(g, A)
  IN  B
Reached(g, S) == Balls(g, S)[Cardinality(DOMAIN g)]

(* The nodes first met after d steps, for every d: start are the roots,    *)
(* old the nodes not to be entered, accept the pairs <<node, distance>>    *)
(* that pass the filter.                                                   *)
Levels(graph, start, old, accept) ==
  LET Met[d \in Nat] ==
        IF d = 0 THEN [now |-> {r \in start \ old : <<r, 0>> \in accept},
                       all |-> old]
        ELSE LET above == Met[d - 1]
                 all == above.all \cup above.now
             IN  [now |-> {s \in Image(graph, above.now) \ all :
                             <<s, d>> \in accept},
                  all |-> all]
  IN  [d \in 0 .. Cardinality(DOMAIN graph) |-> Met[d].now]

(* Nodes on a common cycle, or equal.                                      *)
SameComponent(g, u, v) == v \in Reached(g, {u}) /\ u \in Reached(g, {v})
Component(g, u) == {v \in DOMAIN g : SameComponent(g, u, v)}
Acyclic(g) == \A u \in DOMAIN g : u \notin Reached(g, g[u])
=============================================================================
