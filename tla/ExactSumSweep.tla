---------------------------- MODULE ExactSumSweep ---------------------------
(***************************************************************************)
(* ExactSumSweep.  Lower and upper bounds of all eccentricities are moved  *)
(* towards each other by breadth-first visits and by bounds through one    *)
(* pivot per strongly connected component, until the level asked for is    *)
(* exact.  The next step is the one whose points are highest: the nodes it *)
(* settled the last time, and a little for every step it was passed over.  *)
(*                                                                         *)
(* A parallel visit writes only cells of the node it tells, and is one     *)
(* step here; what its threads share, the pair of radius_high and          *)
(* radius_vertex behind a lock that is taken twice, is updated one access  *)
(* at a time.  Points are kept in units of 1 / Unit; f64 is not modelled.  *)
(***************************************************************************)
EXTENDS Digraphs

CONSTANTS
  Inputs,       \* records made by Input below
  Wanted,       \* the levels of computation
  Unbounded     \* usize::MAX

VARIABLES
  input, level,
  forward_low, forward_high, backward_low, backward_high,
  forward_tot, backward_tot,
  diameter_low, diameter_vertex, radius_high, radius_vertex,
  radial_vertices, iterations,
  solved,                       \* the iterations at which parts were exact
  points, missing_nodes, step,
  told, claims,                 \* at the lock: to be compared, to be written
  pivot, ecc_pivot_f, ecc_pivot_b, component,   \* of all_cc_upper_bound
  pc

given == <<input, level>>
forward == <<forward_low, forward_high, forward_tot>>
backward == <<backward_low, backward_high, backward_tot>>
diameter == <<diameter_low, diameter_vertex>>
radius == <<radius_high, radius_vertex>>
pivots == <<pivot, ecc_pivot_f, ecc_pivot_b, component>>
choice == <<points, missing_nodes, step>>
vars == <<given, forward, backward, diameter, radius, radial_vertices,
          iterations, solved, choice, told, claims, pivots, pc>>

graph == input.graph
scc == input.scc
successors(c) == input.scc_graph[c]
Nodes == DOMAIN graph
num_nodes == Cardinality(Nodes)
Members(c) == {v \in Nodes : scc[v] = c}
Unit == 720720                        \* a multiple of 1 .. 16

AtMost(a, b) == IF a < b THEN a ELSE b
Largest(S) == CHOOSE x \in S : \A y \in S : y <= x

(* Whether the pair p comes before q.                                      *)
Precedes(p, q) == p[1] < q[1] \/ (p[1] = q[1] /\ p[2] < q[2])

(* argmax_filtered and argmin_filtered, as sets of at most one node: ties  *)
(* of the values are broken by the second one, in the same sense, and then *)
(* by the first position.                                                  *)
ArgMin(S, key) ==
  {v \in S : \A w \in S :
     Precedes(key[v], key[w]) \/ (key[v] = key[w] /\ v <= w)}
ArgMax(S, value, tie) == ArgMin(S, [v \in S |-> <<-value[v], -tie[v]>>])
The(S) == CHOOSE x \in S : TRUE

-----------------------------------------------------------------------------
(* The components, and one arc for each pair of them (scc_graph.rs).       *)

(* Numbered in reverse topological order, as Tarjan's algorithm does; on   *)
(* symmetric graphs in any order.  Both are checked in their own modules.  *)
IsNumbering(g, s) ==
  /\ \A u, v \in DOMAIN g : s[u] = s[v] <=> SameComponent(g, u, v)
  /\ \A u \in DOMAIN g : \A v \in g[u] : s[u] >= s[v]
  /\ Range(s) = 0 .. Cardinality(Range(s)) - 1

(* What a breadth-first visit from u tells of the nodes it reaches: their  *)
(* distances.                                                              *)
Visited(g, u) ==
  LET ball == Balls(g, {u})
  IN  [v \in Reached(g, {u}) |->
         Min({d \in 0 .. Cardinality(DOMAIN g) : v \in ball[d]})]

(* The first arc of A, in the order of the nodes, of the largest value.    *)
arc_value(g, a) == Cardinality(Transposed(g)[a[1]]) + Cardinality(g[a[2]])
BestArc(g, A) ==
  CHOOSE a \in A : \A b \in A :
    \/ arc_value(g, a) > arc_value(g, b)
    \/ arc_value(g, a) = arc_value(g, b) /\ (a = b \/ Precedes(a, b))
Connections(g, s, c) ==
  LET Bridges(d) == {a \in Arcs(g) : s[a[1]] = c /\ s[a[2]] = d}
  IN  {[target |-> d, arc |-> BestArc(g, Bridges(d))] :
         d \in {e \in Range(s) \ {c} : Bridges(e) # {}}}

(* A graph with its components, and the radial vertices if any are given.  *)
Input(g, s, symm, radial) ==
  [graph |-> g, scc |-> s, symm |-> symm, radial |-> radial,
   from |-> [u \in DOMAIN g |-> Visited(g, u)],
   to |-> [u \in DOMAIN g |-> Visited(Transposed(g), u)],
   scc_graph |-> [c \in Range(s) |-> IF symm THEN {} ELSE Connections(g, s, c)]]

(* compute returns at once on a graph without nodes.                       *)
IsInput(i) ==
  /\ IsDigraph(i.graph) /\ DOMAIN i.graph # {}
  /\ Cardinality(DOMAIN i.graph) < Unbounded
  /\ i.scc \in [DOMAIN i.graph -> Nat] /\ IsNumbering(i.graph, i.scc)
  /\ i.symm \in BOOLEAN /\ (i.symm => Symmetric(i.graph))
  /\ i.radial = << >> \/ \E S \in SUBSET DOMAIN i.graph : i.radial = <<S>>
  /\ i = Input(i.graph, i.scc, i.symm, i.radial)

ASSUME SweepAssumption ==
  /\ Unbounded \in Nat
  /\ Wanted \subseteq {"All", "AllForward", "RadiusDiameter", "Diameter", "Radius"}
  /\ \A i \in Inputs : IsInput(i)

-----------------------------------------------------------------------------
Init ==
  /\ input \in Inputs
  /\ level \in Wanted
  /\ forward_low = [v \in Nodes |-> 0] /\ backward_low = forward_low
  /\ forward_high = [v \in Nodes |-> num_nodes] /\ backward_high = forward_high
  /\ forward_tot = forward_low /\ backward_tot = forward_low
  /\ diameter_low = 0 /\ diameter_vertex = 0
  /\ radius_high = Unbounded /\ radius_vertex = 0
  /\ radial_vertices = IF input.radial = << >> THEN {} ELSE input.radial[1]
  /\ iterations = 0
  /\ solved = [part \in {"radius", "diameter", "forward", "all"} |-> -1]
  /\ points = [s \in 0 .. 4 |-> num_nodes * Unit]
  /\ missing_nodes = 0 /\ step = 0
  /\ told = {} /\ claims = {}
  /\ pivot = << >> /\ ecc_pivot_f = << >> /\ ecc_pivot_b = << >>
  /\ component = 0
  /\ pc = "radial"

incomplete_forward(v) == forward_low[v] # forward_high[v]
incomplete_backward(v) == backward_low[v] # backward_high[v]
OpenForward == {v \in Nodes : incomplete_forward(v)}
OpenBackward == {v \in Nodes : incomplete_backward(v)}

(* All nodes that reach the last node of the first largest component.      *)
LargestComponent ==
  ArgMin(Range(scc), [c \in Range(scc) |-> <<-Cardinality(Members(c)), 0>>])

ComputeRadial ==
  /\ pc = "radial"
  /\ radial_vertices' = IF input.radial = << >>
       THEN DOMAIN input.to[Largest(Members(The(LargestComponent)))]
       ELSE radial_vertices
  /\ pc' = "sweep"
  /\ UNCHANGED <<given, forward, backward, diameter, radius, iterations,
                 solved, choice, told, claims, pivots>>

-----------------------------------------------------------------------------
(* A visit from start.  A forward visit settles the forward eccentricity   *)
(* of start and moves the lower backward bounds of the nodes it meets.     *)

Eccentricity(met) == Largest(Range(met))
Added(tot, d) ==
  [v \in Nodes |-> tot[v] + IF v \in DOMAIN d THEN d[v] ELSE 0]
Raised(low, high, d) ==
  [v \in Nodes |->
     IF v \in DOMAIN d /\ low[v] # high[v] /\ low[v] < d[v] THEN d[v] ELSE low[v]]

NewDiameter(ecc, start) ==
  /\ diameter_low' = IF diameter_low < ecc THEN ecc ELSE diameter_low
  /\ diameter_vertex' = IF diameter_low < ecc THEN start ELSE diameter_vertex

ForwardStep(start) ==
  LET met == input.from[start]
      ecc == Eccentricity(met)
      central == start \in radial_vertices /\ radius_high > ecc
  IN  /\ backward_low' = Raised(backward_low, backward_high, met)
      /\ backward_tot' = Added(backward_tot, met)
      /\ forward_low' = [forward_low EXCEPT ![start] = ecc]
      /\ forward_high' = [forward_high EXCEPT ![start] = ecc]
      /\ NewDiameter(ecc, start)
      /\ radius_high' = IF central THEN ecc ELSE radius_high
      /\ radius_vertex' = IF central THEN start ELSE radius_vertex
      /\ iterations' = iterations + 1
      /\ UNCHANGED <<forward_tot, backward_high, told>>

(* A backward visit may settle nodes it meets: radial ones ask for the     *)
(* radius, one thread's request at a time.                                 *)
BackwardStep(start) ==
  LET met == input.to[start]
      ecc == Eccentricity(met)
  IN  /\ forward_low' = Raised(forward_low, forward_high, met)
      /\ forward_tot' = Added(forward_tot, met)
      /\ backward_low' = [backward_low EXCEPT ![start] = ecc]
      /\ backward_high' = [backward_high EXCEPT ![start] = ecc]
      /\ NewDiameter(ecc, start)
      /\ told' = {<<met[v], v>> : v \in
                    {u \in DOMAIN met \cap radial_vertices :
                       forward_low[u] < met[u] /\ met[u] = forward_high[u]}}
      /\ iterations' = iterations + 1
      /\ UNCHANGED <<forward_high, backward_tot, radius>>

NoStep == UNCHANGED <<forward, backward, diameter, radius, iterations, told>>
StepSumSweep(start, isForward) ==
  \/ start = {} /\ NoStep
  \/ \E v \in start : IF isForward THEN ForwardStep(v) ELSE BackwardStep(v)

-----------------------------------------------------------------------------
(* all_cc_upper_bound.                                                     *)

Settled(open) == IF open THEN 0 ELSE num_nodes
PivotKey == [v \in Nodes |->
  <<backward_low[v] + forward_low[v] + Settled(incomplete_forward(v)) +
      Settled(incomplete_backward(v)),
    forward_tot[v] + backward_tot[v]>>]
find_best_pivot == [c \in Range(scc) |-> The(ArgMin(Members(c), PivotKey))]

dist_pivot_f(v) == input.from[pivot[scc[v]]][v]
dist_pivot_b(v) == input.to[pivot[scc[v]]][v]
WithoutTheArc(a) == dist_pivot_f(a[1]) + dist_pivot_b(a[2])          \* mutant
Crossing(a) == dist_pivot_f(a[1]) + 1 + dist_pivot_b(a[2])

(* The eccentricities of the pivots in their components.                   *)
ChoosePivots ==
  /\ pivot' = find_best_pivot
  /\ ecc_pivot_f' = [c \in Range(scc) |->
       Largest({input.from[pivot'[c]][v] : v \in Members(c)})]
  /\ ecc_pivot_b' = [c \in Range(scc) |->
       Largest({input.to[pivot'[c]][v] : v \in Members(c)})]
  /\ component' = 0

bounding == <<forward, backward, diameter, radius, radial_vertices, solved,
              choice, told, claims, given, pivot, iterations>>

(* Components upwards: bounded by those they lead to.                      *)
BoundForward ==
  /\ pc = "bound_forward"
  /\ LET c == component
         through == {Crossing(con.arc) + ecc_pivot_f[con.target] :
                       con \in successors(c)}
     IN  ecc_pivot_f' = IF through = {} THEN ecc_pivot_f
           ELSE [ecc_pivot_f EXCEPT ![c] =
                   AtMost(forward_high[pivot[c]], Largest(through \cup {@}))]
  /\ IF component + 1 \in Range(scc)
     THEN component' = component + 1 /\ pc' = pc
     ELSE component' = component /\ pc' = "bound_backward"
  /\ UNCHANGED <<bounding, ecc_pivot_b>>

(* And downwards: those it leads to are bounded by each.                   *)
BoundBackward ==
  /\ pc = "bound_backward"
  /\ LET c == component
         Through(con) == Crossing(con.arc) + ecc_pivot_b[c]
     IN  ecc_pivot_b' = [d \in Range(scc) |->
           IF \E con \in successors(c) : con.target = d
           THEN AtMost(backward_high[pivot[d]],
                  Largest({ecc_pivot_b[d]} \cup
                    {Through(con) : con \in {s \in successors(c) : s.target = d}}))
           ELSE ecc_pivot_b[d]]
  /\ IF component > 0
     THEN component' = component - 1 /\ pc' = pc
     ELSE component' = 0 /\ pc' = "refine"
  /\ UNCHANGED <<bounding, ecc_pivot_f>>

Refine ==
  /\ pc = "refine"
  /\ forward_high' = [v \in Nodes |->
       AtMost(forward_high[v], dist_pivot_b(v) + ecc_pivot_f[scc[v]])]
  /\ backward_high' = [v \in Nodes |->
       AtMost(backward_high[v], dist_pivot_f(v) + ecc_pivot_b[scc[v]])]
  /\ told' = {<<forward_low[v], v>> : v \in
                {u \in radial_vertices : forward_high'[u] = forward_low[u]}}
  /\ iterations' = iterations + 3
  /\ pc' = "again"
  /\ UNCHANGED <<forward_low, forward_tot, backward_low, backward_tot,
                 diameter, radius, radial_vertices, solved, choice, claims,
                 given, pivots>>

-----------------------------------------------------------------------------
(* The lock of the radius: compared under the read lock, and again under   *)
(* the write lock, which nobody waits for holding the read lock.           *)

Compare(t) ==
  /\ t \in told
  /\ told' = told \ {t}
  /\ claims' = IF t[1] < radius_high THEN claims \cup {t} ELSE claims
  /\ UNCHANGED <<given, forward, backward, diameter, radius, radial_vertices,
                 iterations, solved, choice, pivots, pc>>

WinsAlways(t) == TRUE                                              \* mutant
Wins(t) == t[1] < radius_high

Upgraded == claims                                                 \* mutant
Readers == {}

Claim(t) ==
  /\ t \in claims
  /\ Readers \subseteq {t}
  /\ claims' = claims \ {t}
  /\ radius_high' = IF Wins(t) THEN t[1] ELSE radius_high
  /\ radius_vertex' = IF Wins(t) THEN t[2] ELSE radius_vertex
  /\ UNCHANGED <<given, forward, backward, diameter, radial_vertices,
                 iterations, solved, choice, told, pivots, pc>>

Joined == told = {} /\ claims = {}

-----------------------------------------------------------------------------
(* sum_sweep_heuristic, six visits in turns; step counts them.             *)
SweepStart ==
  IF step = 0
  THEN ArgMin(Nodes, [v \in Nodes |-> <<-Cardinality(graph[v]), 0>>])
  ELSE IF step % 2 = 1 THEN ArgMax(OpenBackward, backward_tot, backward_low)
  ELSE ArgMax(OpenForward, forward_tot, forward_low)

Sweep ==
  /\ pc = "sweep" /\ Joined
  /\ StepSumSweep(SweepStart, step % 2 = 0)
  /\ step' = (step + 1) % 6
  /\ pc' = IF step = 5 THEN "measure" ELSE "sweep"
  /\ UNCHANGED <<given, radial_vertices, solved, points, missing_nodes, claims,
                 pivots>>

(* find_missing_nodes.                                                     *)
Count(S) == Cardinality(S)
Missing ==
  [radius |-> Count({v \in OpenForward \cap radial_vertices :
                       forward_low[v] < radius_high}),
   diameter |-> AtMost(Count({v \in OpenForward : forward_high[v] > diameter_low}),
                       Count({v \in OpenBackward : backward_high[v] > diameter_low})),
   forward |-> Count(OpenForward),
   all |-> Count(OpenForward) + Count(OpenBackward)]

(* What the levels return, each an assertion of level.rs.                  *)
AllParts == {"radius", "diameter", "forward", "all"}
AllForwardParts == {"radius", "diameter", "forward"}
RadiusDiameterParts == {"radius", "diameter"}
DiameterParts == {"diameter"}
RadiusParts == {"radius"}
Promises ==
  CASE level = "All" -> AllParts
    [] level = "AllForward" -> IF input.symm THEN AllParts ELSE AllForwardParts
    [] level = "RadiusDiameter" -> RadiusDiameterParts
    [] level = "Diameter" -> DiameterParts
    [] level = "Radius" -> RadiusParts

LevelMissing ==
  CASE level = "All" -> Missing.all
    [] level = "AllForward" -> IF input.symm THEN Missing.all ELSE Missing.forward
    [] level = "RadiusDiameter" -> Missing.radius + Missing.diameter
    [] level = "Diameter" -> Missing.diameter
    [] level = "Radius" -> Missing.radius

Awarded(gain) ==
  [s \in 0 .. 4 |-> IF s = step THEN gain * Unit
                    ELSE points[s] + (2 * Unit) \div iterations]

Measure ==
  /\ pc \in {"measure", "again"} /\ Joined
  /\ solved' = [part \in DOMAIN solved |->
       IF Missing[part] = 0 /\ (solved[part] = -1 \/ part = "all")
       THEN iterations ELSE solved[part]]
  /\ missing_nodes' = LevelMissing
  /\ points' = IF pc = "again" THEN Awarded(missing_nodes - LevelMissing) ELSE points
  /\ pc' = IF LevelMissing = 0 THEN "done" ELSE "choose"
  /\ UNCHANGED <<given, forward, backward, diameter, radius, radial_vertices,
                 iterations, step, told, claims, pivots>>

Best == CHOOSE s \in 0 .. 4 : \A t \in 0 .. 4 :
          points[s] > points[t] \/ (points[s] = points[t] /\ s <= t)

Choose ==
  /\ pc = "choose"
  /\ step' = Best
  /\ IF Best = 0
     THEN ChoosePivots /\ NoStep /\ pc' = "bound_forward"
     ELSE UNCHANGED pivots /\ pc' = "again"
  /\ CASE Best = 0 -> TRUE
       [] Best = 1 -> StepSumSweep(ArgMax(OpenForward, forward_high, forward_tot), TRUE)
       [] Best = 2 -> StepSumSweep(ArgMin(radial_vertices,
                        [v \in Nodes |-> <<forward_low[v], forward_tot[v]>>]), TRUE)
       [] Best = 3 -> StepSumSweep(ArgMax(OpenBackward, backward_high, backward_tot), FALSE)
       [] Best = 4 -> StepSumSweep(ArgMax(OpenBackward, backward_tot, backward_high), FALSE)
  /\ UNCHANGED <<given, radial_vertices, solved, points, missing_nodes, claims>>

Next ==
  \/ ComputeRadial \/ Sweep \/ Measure \/ Choose
  \/ BoundForward \/ BoundBackward \/ Refine
  \/ \E t \in told : Compare(t)
  \/ \E t \in claims : Claim(t)

Spec == Init /\ [][Next]_vars
FairSpec == Spec /\ WF_vars(Next)

-----------------------------------------------------------------------------
TypeOK ==
  /\ radial_vertices \subseteq Nodes
  /\ \A v \in Nodes : forward_high[v] \in 0 .. num_nodes /\ backward_high[v] \in 0 .. num_nodes
  /\ told \cup claims \subseteq (0 .. num_nodes) \X Nodes

(* The bounds never pass the eccentricities they close in on, and those of *)
(* the diameter and the radius are attained where the vertices say.  No    *)
(* step leaves more nodes missing, which a subtraction of usize relies on. *)
EccOf(v) == Eccentricity(input.from[v])
BackEccOf(v) == Eccentricity(input.to[v])
BoundsBracket ==
  /\ \A v \in Nodes :
       /\ forward_low[v] <= EccOf(v) /\ EccOf(v) <= forward_high[v]
       /\ backward_low[v] <= BackEccOf(v) /\ BackEccOf(v) <= backward_high[v]
  /\ diameter_low \in {0, EccOf(diameter_vertex), BackEccOf(diameter_vertex)}
  /\ radius_high # Unbounded =>
       radius_vertex \in radial_vertices /\ radius_high = EccOf(radius_vertex)
  /\ \A s \in DOMAIN points : points[s] >= 0

(* What a level promises is exact when the computation ends, and its parts *)
(* have been stamped (the assertions of level.rs).                         *)
Diameter == Largest({EccOf(v) : v \in Nodes})
RadiusOf(S) == -Largest({-EccOf(v) : v \in S} \cup {-Unbounded})
AnswersExact ==
  pc = "done" =>
    /\ \A part \in Promises : solved[part] # -1
    /\ "diameter" \in Promises => diameter_low = Diameter
    /\ "radius" \in Promises => radius_high = RadiusOf(radial_vertices)
    /\ "forward" \in Promises => \A v \in Nodes : forward_low[v] = EccOf(v)
    /\ "all" \in Promises => \A v \in Nodes : backward_high[v] = BackEccOf(v)

(* The steps chosen settle all nodes.                                      *)
Ends == <>(pc = "done")
=============================================================================
