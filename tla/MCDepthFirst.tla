---------------------------- MODULE MCDepthFirst ----------------------------
(***************************************************************************)
(* The depth-first visits and the algorithms that are their callbacks, on  *)
(* small graphs: a visit object in use (visits), Tarjan's algorithm        *)
(* (tarjan), and the other algorithms (others), one per behaviour.         *)
(***************************************************************************)
EXTENDS DfsVisits, Tarjan, DfsAlgorithms

VisitedGraphs ==
  Loopless(3) \cup
  {FromArcs(4, {<<0, 1>>, <<0, 3>>, <<2, 0>>}),
   FromArcs(4, {<<0, 1>>, <<0, 3>>, <<1, 2>>, <<2, 0>>})}
TarjanGraphs ==
  AllDigraphs(1) \cup AllDigraphs(2) \cup AllDigraphs(3) \cup
  {g \in Loopless(4) : \A u \in 0 .. 2 : u + 1 \in g[u]}
OtherGraphs ==
  AllDigraphs(0) \cup AllDigraphs(2) \cup Loopless(3) \cup
  {g \in Loopless(4) : g[0] = {1, 2} /\ 3 \in g[1] /\ 3 \notin g[0]}
SmallSymmetric ==
  {g \in Loopless(3) : Symmetric(g)} \cup {g \in Loopless(4) : Symmetric(g)}
SomeRoots == {<<0, 1>>, <<1>>}
AllPass == {(0 .. n - 1) \X (0 .. n) : n \in {3, 4}}
SomeFilters == AllPass \cup {((0 .. 3) \X (0 .. 4)) \ {<<1, 1>>}}

SomeGraphs == VisitedGraphs \cup TarjanGraphs \cup OtherGraphs

VARIABLE machine

tarjanCells == <<phase, callback>>
otherCells == <<algorithm, input, stage, mine>>
allVars == <<vars, tarjanCells, otherCells, machine>>

NoVisits == at = 0 /\ yielded = << >>
NoTarjan == lead = << >> /\ component_stack = << >> /\ high_link = << >>
            /\ index = 0 /\ root_low_link = 0
            /\ phase = "none" /\ number_of_components = 0
NoOthers == algorithm = "none" /\ input = << >> /\ order = << >> /\ pos = 0
            /\ components = << >> /\ sizes = << >> /\ acyclic = TRUE
            /\ stage = "none" /\ num_components = 0

AnyInit ==
  \/ machine = "visits" /\ graph \in VisitedGraphs /\ Init /\ NoTarjan /\ NoOthers
  \/ machine = "tarjan" /\ graph \in TarjanGraphs /\ TarjanInit /\ NoVisits /\ NoOthers
  \/ /\ machine = "others"
     /\ graph \in OtherGraphs \cup SmallSymmetric
     /\ AlgorithmInit /\ NoVisits /\ NoTarjan

In(m) == machine = m /\ UNCHANGED machine
Unused == UNCHANGED <<tarjanCells, otherCells>>
AnyVisits == In("visits") /\ Next /\ Unused
AnyTarjan == In("tarjan") /\ TarjanNext /\ UNCHANGED <<at, yielded, otherCells>>
AnyOther ==
  In("others") /\ AlgorithmNext /\ UNCHANGED <<at, yielded, tarjanCells>>
Ended == \/ machine = "tarjan" /\ phase = "done"
         \/ machine = "others" /\ Finished
AfterEnd == Ended /\ UNCHANGED allVars
AnyNext == AnyVisits \/ AnyTarjan \/ AnyOther \/ AfterEnd

AnyFair ==
  /\ WF_allVars(In("visits") /\ Unused /\ Step)
  /\ WF_allVars(/\ In("visits") /\ Unused
                /\ OrderDeeper \/ OrderRestart \/ OrderNone)
  /\ WF_allVars(AnyTarjan)
  /\ WF_allVars(AnyOther)

AnySpec == AnyInit /\ [][AnyNext]_allVars /\ AnyFair

-----------------------------------------------------------------------------
(* Every visit returns and every algorithm ends.                           *)
AllEnd == (pc # "idle" ~> pc = "idle") /\ (machine # "visits" ~> Ended)
=============================================================================
