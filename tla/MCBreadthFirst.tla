--------------------------- MODULE MCBreadthFirst ---------------------------
(***************************************************************************)
(* The breadth-first visits and what is built on them, on small graphs:    *)
(* the parallel visits (par), the sequential one with its iterator (seq)   *)
(* and the parallel connected components (symm), one per behaviour.        *)
(***************************************************************************)
EXTENDS ParBfs

(* A diamond with a tail back, two roots meeting, a path, and three nodes. *)
FewGraphs ==
  {FromArcs(4, {<<0, 1>>, <<0, 2>>, <<1, 3>>, <<2, 3>>, <<3, 0>>}),
   FromArcs(4, {<<0, 1>>, <<0, 2>>, <<1, 2>>, <<2, 1>>, <<1, 3>>, <<2, 3>>})}
SmallGraphs == {g \in Loopless(3) : g[0] # {}}
SequentialGraphs ==
  AllDigraphs(1) \cup SmallGraphs \cup
  {FromArcs(4, {<<0, 1>>, <<1, 2>>, <<2, 3>>}),
   FromArcs(4, {<<0, 1>>, <<0, 2>>, <<1, 3>>, <<3, 0>>})}
SmallSymmetric == {g \in Loopless(4) : Symmetric(g) /\ NumArcs(g) <= 8}

SomeRoots == {<<0>>, <<1, 0, 1>>}
SingleRoots == {<<u>> : u \in 0 .. 3}

(* Everything passes; nothing beyond distance 1; node 1 is never entered   *)
(* at distance 1.                                                          *)
AllPass == {(0 .. 3) \X (0 .. 5)}
SomeFilters ==
  AllPass \cup {(0 .. 3) \X (0 .. 1), ((0 .. 3) \X (0 .. 5)) \ {<<1, 1>>}}

VARIABLES
  queue, current, succs, at, yielded,       \* of SeqBfs
  component, number_of_components,          \* of SymmPar
  machine

seqVars == <<queue, current, succs, at, yielded>>
parVars == <<kind, granularity, start, curr_frontier, next_frontier, todo,
             work, stopped>>
symmCells == <<component, number_of_components>>
allVars == <<vars, seqVars, symmCells, machine>>

Par3 == INSTANCE ParBfs WITH Graphs <- SmallGraphs, Filters <- AllPass,
                             Granularities <- {1}
Sqn == INSTANCE SeqBfs WITH Graphs <- SequentialGraphs
Symm == INSTANCE SymmPar WITH
          Graphs <- SmallSymmetric, Filters <- AllPass, Kinds <- {"fair"},
          RootLists <- SingleRoots, Granularities <- {1}, MayStop <- FALSE,
          MaxVisits <- 4

NoSeq == queue = << >> /\ current = -1 /\ succs = << >> /\ at = 0
         /\ yielded = << >>
NoPar == kind = "fair" /\ granularity = 1 /\ start = {}
         /\ curr_frontier = << >> /\ next_frontier = << >> /\ todo = {}
         /\ work = [w \in Workers |-> Idle] /\ stopped = FALSE
NoSymm == component = << >> /\ number_of_components = 0

AnyInit ==
  \/ machine = "par" /\ (Init \/ Par3!Init) /\ NoSeq /\ NoSymm
  \/ machine = "seq" /\ Sqn!Init /\ NoPar /\ NoSymm
  \/ machine = "symm" /\ Symm!SymmInit /\ NoSeq

In(m) == machine = m /\ UNCHANGED machine
AnyPar == In("par") /\ Next /\ UNCHANGED <<seqVars, symmCells>>
AnySeq == In("seq") /\ Sqn!Next /\ UNCHANGED <<parVars, symmCells>>
AnySymm == In("symm") /\ Symm!SymmNext /\ UNCHANGED seqVars
AfterSymm == In("symm") /\ Symm!Finished /\ UNCHANGED allVars
AnyNext == AnyPar \/ AnySeq \/ AnySymm \/ AfterSymm

(* A visit that has begun goes on (FairSpec of each module).               *)
AnyFair ==
  /\ WF_allVars(/\ In("par") /\ UNCHANGED <<seqVars, symmCells>>
                /\ TakeRoot \/ CloseRoots \/ OpenLevel \/ Finish \/ CloseLevel)
  /\ \A w \in Workers :
       WF_allVars(In("par") /\ Worker(w) /\ UNCHANGED <<seqVars, symmCells>>)
  /\ WF_allVars(In("seq") /\ Sqn!Step /\ UNCHANGED <<parVars, symmCells>>)
  /\ WF_allVars(AnySymm)

AnySpec == AnyInit /\ [][AnyNext]_allVars /\ AnyFair

-----------------------------------------------------------------------------
(* No visit marks a node its filter refuses, or keeps two separators;      *)
(* BfsOrder gives all nodes once, in an order of breadth (seq.rs:268);     *)
(* symm_par numbers the connected components (symm_par.rs:42).             *)
EachExact ==
  /\ machine = "par" => MarksOnlyAccepted
  /\ machine = "seq" => Sqn!OneSeparator /\ Sqn!OrderIsBfs
  /\ machine = "symm" => Symm!ComponentsExact

(* Every visit returns, broken off or not, and symm_par ends.              *)
AllEnd == VisitEnds /\ (machine = "symm" ~> Symm!Finished)
=============================================================================
