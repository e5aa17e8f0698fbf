------------------------------- MODULE MCSweep ------------------------------
(* Instances of ExactSumSweep for TLC.                                     *)
EXTENDS ExactSumSweep

Numberings(g) == {s \in [DOMAIN g -> DOMAIN g] : IsNumbering(g, s)}
Least(g, u) == CHOOSE v \in Component(g, u) : \A w \in Component(g, u) : v <= w
Downwards(g) ==
  [u \in DOMAIN g |-> Cardinality({Least(g, v) : v \in DOMAIN g} \ 0 .. Least(g, u))]

Computed(g, s) == Input(g, s, FALSE, << >>)
Both(g) == [u \in DOMAIN g |-> g[u] \cup Transposed(g)[u]]
Undirected(g) == Input(Both(g), Downwards(Both(g)), TRUE, << >>)
Path(a, b) == {<<u, u + 1>> : u \in a .. b - 1}
Cycle(a, b) == Path(a, b) \cup {<<b, a>>}

Tiny == {FromArcs(1, {}), FromArcs(2, {<<0, 1>>})} \cup Loopless(3)
Larger ==
  {FromArcs(8, Cycle(0, 3) \cup {<<2, 5>>, <<3, 4>>} \cup Cycle(4, 7)),
   FromArcs(8, Cycle(0, 7) \cup {<<0, 4>>}),
   FromArcs(8, Path(0, 7)),
   FromArcs(8, Cycle(0, 2) \cup {<<2, 3>>, <<3, 4>>, <<1, 7>>} \cup Cycle(4, 6))}
LargerInputs == {Computed(g, Downwards(g)) : g \in Larger}
SomeInputs ==
  UNION {{Computed(g, s) : s \in Numberings(g)} : g \in Tiny} \cup
  LargerInputs \cup {Undirected(g) : g \in Larger} \cup
  {[i EXCEPT !.radial = << S >>] : i \in LargerInputs, S \in {{}, {3, 5}}}
=============================================================================
