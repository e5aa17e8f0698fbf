---------------------------- MODULE MCReductions ----------------------------
(***************************************************************************)
(* What reduces graphs apart from the rounds of one GPU, in one instance   *)
(* for TLC.  Of these a behaviour runs one:                                *)
(*   rsc      the program for one processor,                               *)
(*   race     rbsc with two GPUs racing on the bounds of the batches, with *)
(*            the undefined outcomes of the race,                          *)
(*   orderly  rbsc_aggressive with two GPUs trimming one at a time and     *)
(*            weights whose sums wrap,                                     *)
(*   loops    the loops that end a round of rbsc, with weights that wrap.  *)
(***************************************************************************)
EXTENDS MCRsc

(* A source with two edges to nodes that become one: their weights add up. *)
TwinEdges == {1, 2, 12}
TwinGraphs == {GraphOf(4, TwinEdges, wt) : wt \in [TwinEdges -> {1, 2}]}
WrapGraphs == FewGraphs \cup TwinGraphs

(* Sources 0, 1, 2, 2, 2: the last one spans two batches of two edges.     *)
ForkGraph ==
  [nodes |-> 4, edges |-> 5,
   start |-> [k \in 0 .. 4 |-> IF k < 2 THEN k ELSE 2],
   end |-> [k \in 0 .. 4 |-> IF k < 2 THEN 3 ELSE k - 2],
   weight |-> [k \in 0 .. 4 |-> 1]]

(* Four nodes no two of which are equivalent.                              *)
LadderGraph ==
  [nodes |-> 4, edges |-> 4,
   start |-> [k \in 0 .. 3 |-> k], end |-> [k \in 0 .. 3 |-> 0],
   weight |-> [k \in 0 .. 3 |-> k + 1]]
RaceGraphs == {ForkGraph, LadderGraph}

(* Sources with one, two and three edges; weights that wrap when merged.   *)
LoopGraphs ==
  AllGraphs(3, 3, {1}) \cup AllGraphs(3, 4, {2}) \cup
  {GraphOf(3, S, wt) : S \in {{0, 1, 2}}, wt \in [{0, 1, 2} -> {1, 2}]}

CONSTANT TwoGpus

VARIABLES
  machine,
  input, at, round_i, label, labels, weight,  \* of rbsc: graph, pc, i, w,
                                              \* new_node_n, edge_weight
  edge_start, edge_end, new_edge_n,
  round_ideal, node_n, edge_n, batches, todo, new_batch_start,
  new_batch_end, off_batch_node_n, tpc, batch, batch_start, batch_end,
  z_unique_n, batch_mask, partition, label_map, cls, printed,
  given, drawn, first_edge_i, current_node, counting, weight_indexes,
  considered_nodes

bothVars == <<input, at, round_i, label, labels, weight, edge_start, edge_end,
              new_edge_n>>
roundVars == <<round_ideal, node_n, edge_n, batches, todo, new_batch_start,
               new_batch_end, off_batch_node_n, tpc, batch, batch_start,
               batch_end, z_unique_n, batch_mask, partition, label_map, cls,
               printed>>
loopVars == <<given, drawn, first_edge_i, current_node, counting,
              weight_indexes, considered_nodes>>
allVars == <<vars, bothVars, roundVars, loopVars, machine>>

Race == INSTANCE Rbsc WITH
  TrimOverlap <- TRUE, Aggressive <- FALSE, Graphs <- RaceGraphs,
  Gpus <- TwoGpus, max_batch_edge_n <- 2, HashValues <- {1},
  graph <- input, pc <- at, i <- round_i, w <- label, new_node_n <- labels,
  edge_weight <- weight, ideal <- round_ideal, result <- printed
Orderly == INSTANCE Rbsc WITH
  TrimOverlap <- FALSE, Aggressive <- TRUE, Graphs <- WrapGraphs,
  Gpus <- TwoGpus, max_batch_edge_n <- 2, HashValues <- {1},
  WeightModulus <- 3,
  graph <- input, pc <- at, i <- round_i, w <- label, new_node_n <- labels,
  edge_weight <- weight, ideal <- round_ideal, result <- printed
Loops == INSTANCE Compaction WITH
  Graphs <- LoopGraphs, WeightModulus <- 3,
  graph <- input, pc <- at, i <- round_i, w <- label, new_node_n <- labels,
  edge_weight <- weight

(* A machine that does not run stays as it is.                             *)
OneNode == CHOOSE g \in AllGraphs(1, 0, {1}) : TRUE
IdleRsc == graph = OneNode /\ ideal = FALSE /\ Init
IdleBoth ==
  /\ input = 0 /\ at = 0 /\ round_i = 0 /\ label = 0 /\ labels = 0
  /\ weight = 0 /\ edge_start = 0 /\ edge_end = 0 /\ new_edge_n = 0
IdleRound ==
  /\ round_ideal = 0 /\ node_n = 0 /\ edge_n = 0 /\ batches = 0 /\ todo = 0
  /\ new_batch_start = 0 /\ new_batch_end = 0 /\ off_batch_node_n = 0
  /\ tpc = 0 /\ batch = 0 /\ batch_start = 0 /\ batch_end = 0
  /\ z_unique_n = 0 /\ batch_mask = 0 /\ partition = 0 /\ label_map = 0
  /\ cls = 0 /\ printed = 0
IdleLoops ==
  /\ given = 0 /\ drawn = 0 /\ first_edge_i = 0 /\ current_node = 0
  /\ counting = 0 /\ weight_indexes = 0 /\ considered_nodes = 0

AnyInit ==
  \/ machine = "rsc" /\ IdleRound /\ IdleLoops /\ IdleBoth /\ MCInit
  \/ machine = "race" /\ IdleRsc /\ IdleLoops /\ round_ideal = TRUE /\ Race!Init
  \/ machine = "orderly" /\ IdleRsc /\ IdleLoops /\ round_ideal = TRUE
     /\ Orderly!Init
  \/ machine = "loops" /\ IdleRsc /\ IdleRound /\ Loops!Init

In(m) == machine = m /\ UNCHANGED machine
AnyRsc == In("rsc") /\ Next /\ UNCHANGED <<bothVars, roundVars, loopVars>>
AnyRace == In("race") /\ Race!Next /\ UNCHANGED <<vars, loopVars>>
AnyOrderly == In("orderly") /\ Orderly!Next /\ UNCHANGED <<vars, loopVars>>
AnyLoops == In("loops") /\ Loops!Next /\ UNCHANGED <<vars, roundVars>>
AnyNext == AnyRsc \/ AnyRace \/ AnyOrderly \/ AnyLoops

(* The single thread of rsc goes on.                                       *)
AnySpec ==
  /\ AnyInit /\ [][AnyNext]_allVars
  /\ WF_allVars(In("rsc") /\ Step
                /\ UNCHANGED <<bothVars, roundVars, loopVars>>)

-----------------------------------------------------------------------------
(* Types: labels, sums and indices stay within the arrays they index, in   *)
(* rsc (rsc.cpp:71-78) and in the loops of rbsc (rbsc.cu:452-485).         *)
EachTypeOK == TypeOK /\ (machine = "loops" => Loops!TypeOK)

(* What a thread refines it owns whole, race or not (rbsc.cu:332-334).     *)
OwnsWholeNodes == machine = "race" => Race!OwnsWholeNodes

(* Two threads that merge at once never share a label (rbsc.cu:440).       *)
LabelsNotShared == machine = "race" => Race!LabelsNotShared

(* Without the race, two GPUs that refine and merge at the same time leave *)
(* dense labels and the exact quotient (rbsc.cu:289-449).                  *)
TwoGpusExact ==
  machine = "orderly" => Orderly!LabelsDense /\ Orderly!QuotientExact

(* The loops never read an edge they wrote themselves (rbsc.cu:472-480).   *)
UnreadIntact == machine = "loops" => Loops!UnreadIntact

(* They leave no two edges between the same nodes (rbsc.cu:475).           *)
NoParallelEdges == machine = "loops" => Loops!NoParallelEdges

(* What they have written is, at any time, the quotient of what they read  *)
(* (rbsc.cu:462-485).                                                      *)
FollowsQuotient == machine = "loops" => Loops!FollowsQuotient
=============================================================================
