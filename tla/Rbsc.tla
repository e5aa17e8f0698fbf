-------------------------------- MODULE Rbsc --------------------------------
(***************************************************************************)
(* rbsc: batched colour refinement on several GPUs, one OpenMP thread per  *)
(* GPU (src/rbsc/rbsc.cu).  A round cuts the edge list into batches of     *)
(* max_batch_edge_n edges.  A thread takes a batch, trims it to whole      *)
(* source nodes, refines the nodes it owns on its GPU against all other    *)
(* nodes as singletons, and merges their classes into the shared labels w. *)
(* After the barrier the graph is replaced by its quotient, and rounds     *)
(* repeat while they shrink it.                                            *)
(*                                                                         *)
(* A class of the GPU partition d_w is named here by its least member: the *)
(* code's numbering only serves to tell classes apart.  The sums the GPU   *)
(* hashes are the weights a node sends to each class; a hash is any        *)
(* function of that signature (when ideal: an injective one).              *)
(***************************************************************************)
EXTENDS Quotients, FiniteSetsExt

CONSTANTS
  Gpus,                 \* one OpenMP thread each: argv[2], 1 by default
  max_batch_edge_n,     \* argv[1]
  Aggressive,           \* TRUE: rbsc_aggressive.cu, its line 487
  HashValues,           \* the values of a hash that may collide
  TrimOverlap           \* TRUE: two threads may be trimming at once

ASSUME RbscAssumption ==
  /\ Gpus # {}
  /\ max_batch_edge_n \in Nat \ {0}
  /\ {Aggressive, TrimOverlap} \subseteq BOOLEAN
  /\ HashValues # {}

OFF_BATCH == 0
IN_BATCH == 1
DANGLING == 2
NOT_INIT == -1          \* UINT64_MAX, no index of an edge

VARIABLES
  ideal,                \* distinct signatures get distinct hashes
  graph,                \* the input, read once
  pc,                   \* the main thread
  node_n, new_node_n, edge_n, new_edge_n, batches,
  edge_start, edge_end, edge_weight,
  w,                    \* the label of each node; node_n: none yet
  todo,                 \* the batches no thread has taken
  new_batch_start, new_batch_end, off_batch_node_n,
                        \* not in the private clause: shared by the threads
  tpc, batch, i, batch_start, batch_end, z_unique_n,
  batch_mask, partition, label_map,
                        \* per thread; partition is d_w on its GPU
  cls,                  \* input node -> node of the current graph (ghost)
  result

hostvars == <<ideal, graph, node_n, edge_n, new_edge_n, batches,
              edge_start, edge_end, edge_weight, cls, result, pc>>
sharedvars == <<new_batch_start, new_batch_end, off_batch_node_n>>
threadvars == <<tpc, batch, i, batch_start, batch_end, z_unique_n,
                batch_mask, partition, label_map>>
vars == <<hostvars, w, new_node_n, todo, sharedvars, threadvars>>

Lesser(a, b) == IF a < b THEN a ELSE b
FloorDiv(a, b) == a \div b                                     \* mutant
CeilDiv(a, b) == (a + b - 1) \div b

Node == 0 .. node_n - 1
Edge == 0 .. edge_n - 1
FirstEdge(e) == e = 0 \/ edge_start[e - 1] # edge_start[e]
Trimmed(g) == batch_start[g] .. batch_end[g] - 1
RangeStart(b) == b * max_batch_edge_n
RangeEnd(b) == Lesser(edge_n, RangeStart(b) + max_batch_edge_n)

NoResult == [done |-> -1, nodes |-> -1]

Init ==
  /\ ideal \in BOOLEAN
  /\ graph \in Graphs
  /\ pc = "round"
  /\ node_n = 0 /\ new_node_n = graph.nodes
  /\ edge_n = 0 /\ new_edge_n = graph.edges
  /\ batches = 0
  /\ edge_start = graph.start
  /\ edge_end = graph.end
  /\ edge_weight = graph.weight
  /\ w = << >>
  /\ todo = {}
  /\ new_batch_start = NOT_INIT
  /\ new_batch_end = NOT_INIT
  /\ off_batch_node_n = 0
  /\ tpc = [g \in Gpus |-> "idle"]
  /\ batch = [g \in Gpus |-> 0]
  /\ i = [g \in Gpus |-> 0]
  /\ batch_start = [g \in Gpus |-> 0]
  /\ batch_end = [g \in Gpus |-> 0]
  /\ z_unique_n = [g \in Gpus |-> 0]
  /\ batch_mask = [g \in Gpus |-> << >>]
  /\ partition = [g \in Gpus |-> << >>]
  /\ label_map = [g \in Gpus |-> << >>]
  /\ cls = [u \in Nodes(graph) |-> u]
  /\ result = NoResult

-----------------------------------------------------------------------------
(* The main thread.                                                        *)

BeginRound ==
  /\ pc = "round"
  /\ pc' = "parallel"
  /\ node_n' = new_node_n
  /\ edge_n' = new_edge_n
  /\ new_node_n' = 0
  /\ batches' = CeilDiv(edge_n', max_batch_edge_n)
  /\ todo' = 0 .. batches' - 1
  /\ w' = [u \in 0 .. node_n' - 1 |-> node_n']
  /\ UNCHANGED <<ideal, graph, new_edge_n, edge_start, edge_end,
                 edge_weight, cls, result, sharedvars, threadvars>>

Barrier == pc = "parallel" /\ todo = {} /\ \A g \in Gpus : tpc[g] = "idle"

(* Nodes no batch labelled stay alone, with the next free labels.          *)
Unlabelled(S) == {u \in S : w[u] = node_n}
FullLabel ==
  [u \in Node |->
     IF w[u] = node_n
     THEN new_node_n + Cardinality(Unlabelled(0 .. u - 1))
     ELSE w[u]]

(* The edge list as the threads of this round read it.                     *)
RoundGraph ==
  [nodes |-> node_n, edges |-> edge_n,
   start |-> edge_start, end |-> edge_end, weight |-> edge_weight]

(* rbsc_aggressive.cu gives up when the next round has as many batches.    *)
FewerBatches(m) == batches > CeilDiv(m, max_batch_edge_n)

Compact ==
  /\ Barrier
  /\ batches > 1
  /\ w' = FullLabel
  /\ new_node_n' = new_node_n + Cardinality(Unlabelled(Node))
  /\ new_node_n' <= node_n
  /\ \E source \in InOrder(Kept(RoundGraph, w')) :
       LET quotient == QuotientGraph(RoundGraph, w', new_node_n', source)
       IN  /\ new_edge_n' = quotient.edges
           /\ edge_start' = quotient.start
           /\ edge_end' = quotient.end
           /\ edge_weight' = quotient.weight
  /\ cls' = [u \in Nodes(graph) |-> w'[cls[u]]]
  /\ pc' = IF /\ node_n > new_node_n'
              /\ Aggressive => FewerBatches(new_edge_n')
           THEN "round" ELSE "print"
  /\ UNCHANGED <<ideal, graph, node_n, edge_n, batches, result, todo,
                 sharedvars, threadvars>>

(* More labels than nodes: considered_nodes is read past its reset part.   *)
CompactUndefined ==
  /\ Barrier
  /\ batches > 1
  /\ new_node_n + Cardinality(Unlabelled(Node)) > node_n
  /\ pc' = "undefined"
  /\ UNCHANGED <<ideal, graph, node_n, new_node_n, edge_n, new_edge_n,
                 batches, edge_start, edge_end, edge_weight, w, cls, result,
                 todo, sharedvars, threadvars>>

(* A single batch needs no quotient: its labels are the answer.            *)
LeaveLoop ==
  /\ Barrier
  /\ batches <= 1
  /\ pc' = "print"
  /\ cls' = [u \in Nodes(graph) |-> w[cls[u]]]
  /\ UNCHANGED <<ideal, graph, node_n, new_node_n, edge_n, new_edge_n,
                 batches, edge_start, edge_end, edge_weight, w, result, todo,
                 sharedvars, threadvars>>

PrintResult ==
  /\ pc = "print"
  /\ pc' = "done"
  /\ result' = [done |-> IF batches = 1 THEN 1 ELSE 0, nodes |-> new_node_n]
  /\ UNCHANGED <<ideal, graph, node_n, new_node_n, edge_n, new_edge_n,
                 batches, edge_start, edge_end, edge_weight, w, cls, todo,
                 sharedvars, threadvars>>

-----------------------------------------------------------------------------
(* The thread of GPU g: trim a batch, refine it, merge its classes.        *)

(* Each iteration of the omp for goes to one thread.                       *)
NotShared(b) == todo                                           \* mutant
Untaken(b) == todo \ {b}

AlwaysDangling(b) == DANGLING                                  \* mutant
InitialMask(b) == IF b = 0 THEN DANGLING ELSE OFF_BATCH

TakeBatch(g) ==
  /\ pc = "parallel"
  /\ tpc[g] = "idle"
  /\ TrimOverlap \/ \A h \in Gpus : tpc[h] \in {"idle", "refine", "merge"}
  /\ \E b \in todo :
       /\ todo' = Untaken(b)
       /\ batch' = [batch EXCEPT ![g] = b]
       /\ i' = [i EXCEPT ![g] = RangeStart(b)]
       /\ batch_mask' = [batch_mask EXCEPT ![g] =
            [u \in Node |-> InitialMask(b)]]
  /\ new_batch_start' = NOT_INIT
  /\ new_batch_end' = NOT_INIT
  /\ tpc' = [tpc EXCEPT ![g] = "scan"]
  /\ UNCHANGED <<hostvars, w, new_node_n, off_batch_node_n, batch_start,
                 batch_end, z_unique_n, partition, label_map>>

(* One edge of the batch: a batch starts and ends where a source does.     *)
ScanEdge(g) ==
  /\ tpc[g] = "scan"
  /\ i[g] < RangeEnd(batch[g])
  /\ new_batch_start' =
       IF FirstEdge(i[g]) /\ new_batch_start = NOT_INIT
       THEN i[g] ELSE new_batch_start
  /\ new_batch_end' =
       IF i[g] # 0 /\ FirstEdge(i[g]) /\ new_batch_start' # NOT_INIT
       THEN i[g] ELSE new_batch_end
  /\ batch_mask' = [batch_mask EXCEPT ![g][edge_start[i[g]]] = IN_BATCH]
  /\ i' = [i EXCEPT ![g] = @ + 1]
  /\ UNCHANGED <<hostvars, w, new_node_n, todo, off_batch_node_n, tpc, batch,
                 batch_start, batch_end, z_unique_n, partition, label_map>>

CloseScan(g) ==
  /\ tpc[g] = "scan"
  /\ i[g] = RangeEnd(batch[g])
  /\ new_batch_end' = IF i[g] = edge_n \/ FirstEdge(i[g])
                      THEN i[g] ELSE new_batch_end
  /\ tpc' = [tpc EXCEPT ![g] = "trim"]
  /\ UNCHANGED <<hostvars, w, new_node_n, todo, new_batch_start,
                 off_batch_node_n, batch, i, batch_start, batch_end,
                 z_unique_n, batch_mask, partition, label_map>>

(* No source starts or ends in the batch: it is left out of this round.    *)
SkipBatch(g) ==
  /\ tpc[g] = "trim"
  /\ NOT_INIT \in {new_batch_start, new_batch_end}
  /\ tpc' = [tpc EXCEPT ![g] = "idle"]
  /\ UNCHANGED <<hostvars, w, new_node_n, todo, sharedvars, batch, i,
                 batch_start, batch_end, z_unique_n, batch_mask, partition,
                 label_map>>

OutsideBefore(from, to) ==                                     \* mutant
  {edge_start[e] : e \in 0 .. from - 1}
Outside(from, to) == {edge_start[e] : e \in Edge \ (from .. to - 1)}

(* The device arrays take max_batch_edge_n edges (rbsc.cu:228-229).        *)
FitsDevice(from, to) == to - from \in 0 .. max_batch_edge_n

(* Sources with an edge outside the trimmed batch are not refined in it.   *)
TrimBatch(g) ==
  /\ tpc[g] = "trim"
  /\ NOT_INIT \notin {new_batch_start, new_batch_end}
  /\ FitsDevice(new_batch_start, new_batch_end)
  /\ batch_start' = [batch_start EXCEPT ![g] = new_batch_start]
  /\ batch_end' = [batch_end EXCEPT ![g] = new_batch_end]
  /\ LET mask == [u \in Node |->
                    IF u \in Outside(new_batch_start, new_batch_end)
                    THEN OFF_BATCH ELSE batch_mask[g][u]]
     IN  /\ batch_mask' = [batch_mask EXCEPT ![g] = mask]
         /\ off_batch_node_n' =
              Cardinality({u \in Node : mask[u] = OFF_BATCH})
  /\ tpc' = [tpc EXCEPT ![g] = "init"]
  /\ UNCHANGED <<hostvars, w, new_node_n, todo, new_batch_start,
                 new_batch_end, batch, i, z_unique_n, partition, label_map>>

(* Bounds of two different batches: batch_edge_n wraps below zero or is    *)
(* more than the arrays take; what copies and launches of that size do is  *)
(* undefined.                                                              *)
TrimUndefined(g) ==
  /\ tpc[g] = "trim"
  /\ NOT_INIT \notin {new_batch_start, new_batch_end}
  /\ ~FitsDevice(new_batch_start, new_batch_end)
  /\ pc' = "undefined"
  /\ tpc' = [h \in Gpus |-> "undefined"]
  /\ UNCHANGED <<ideal, graph, node_n, new_node_n, edge_n, new_edge_n,
                 batches, edge_start, edge_end, edge_weight, w, cls, result, todo,
                 sharedvars, batch, i, batch_start, batch_end, z_unique_n,
                 batch_mask, partition, label_map>>

(* All nodes of the batch in one class, dangling ones in another, the      *)
(* rest alone.                                                             *)
InitPartition(g) ==
  /\ tpc[g] = "init"
  /\ z_unique_n' = [z_unique_n EXCEPT ![g] = off_batch_node_n + 1]
  /\ partition' = [partition EXCEPT ![g] =
       [u \in Node |->
          IF batch_mask[g][u] = OFF_BATCH THEN u
          ELSE Min({v \in Node : batch_mask[g][v] = batch_mask[g][u]})]]
  /\ tpc' = [tpc EXCEPT ![g] = "refine"]
  /\ UNCHANGED <<hostvars, w, new_node_n, todo, sharedvars, batch, i,
                 batch_start, batch_end, batch_mask, label_map>>

InBatch(g) == {u \in Node : batch_mask[g][u] = IN_BATCH}

SignatureByNode(g, u) ==                                       \* mutant
  [v \in Node |->
     SumFunctionOnSet(edge_weight,
       {k \in Trimmed(g) : edge_start[k] = u /\ edge_end[k] = v})]
(* What set_values and ReduceByKey sum up for node u.                      *)
Signature(g, u) ==
  [c \in Range(partition[g]) |->
     SumFunctionOnSet(edge_weight,
       {k \in Trimmed(g) : /\ edge_start[k] = u
                           /\ partition[g][edge_end[k]] = c})
       % WeightModulus]

Hashes(S) == IF ideal THEN {[s \in S |-> s]} ELSE [S -> HashValues]

(* Hashes are compared within a class only (compute_thruths_lex).          *)
SameHash(g, u, v, zu, zv) ==                                   \* mutant
  IF {u, v} \subseteq InBatch(g) THEN zu = zv
  ELSE partition[g][u] = partition[g][v]
Together(g, u, v, zu, zv) == partition[g][u] = partition[g][v] /\ zu = zv

(* One iteration: classes split by the hash of their nodes, until their    *)
(* number stays the same.                                                  *)
Refine(g) ==
  /\ tpc[g] = "refine"
  /\ LET sig == [u \in InBatch(g) |-> Signature(g, u)]
     IN  \E h \in Hashes(Range(sig)) :
           LET z == [u \in Node |->
                       IF u \in InBatch(g) THEN <<h[sig[u]]>> ELSE << >>]
           IN  partition' = [partition EXCEPT ![g] =
                 [u \in Node |->
                    Min({v \in Node : Together(g, u, v, z[u], z[v])})]]
  /\ z_unique_n' = [z_unique_n EXCEPT ![g] =
                      Cardinality(Range(partition'[g]))]
  /\ IF z_unique_n'[g] = z_unique_n[g]
     THEN /\ tpc' = [tpc EXCEPT ![g] = "merge"]
          /\ label_map' = [label_map EXCEPT ![g] = [c \in Node |-> node_n]]
          /\ i' = [i EXCEPT ![g] = 0]
     ELSE UNCHANGED <<tpc, label_map, i>>
  /\ UNCHANGED <<hostvars, w, new_node_n, todo, sharedvars, batch,
                 batch_start, batch_end, batch_mask>>

(* The counter after a label was drawn from it, or not.                    *)
LostUpdate(fresh) == {new_node_n, new_node_n + 1}              \* mutant
CountsNodes(fresh) == {new_node_n + 1}                         \* mutant
Drawn(fresh) == IF fresh THEN {new_node_n + 1} ELSE {new_node_n}

(* One node: the first of its class draws the next label in the critical   *)
(* section, the others share it.                                           *)
MergeNode(g) ==
  /\ tpc[g] = "merge"
  /\ i[g] < node_n
  /\ i' = [i EXCEPT ![g] = @ + 1]
  /\ LET u == i[g]
         local_label == partition[g][u]
         fresh == label_map[g][local_label] = node_n
     IN  IF batch_mask[g][u] = OFF_BATCH
         THEN UNCHANGED <<label_map, new_node_n, w>>
         ELSE /\ label_map' = IF fresh
                THEN [label_map EXCEPT ![g][local_label] = new_node_n]
                ELSE label_map
              /\ new_node_n' \in Drawn(fresh)
              /\ w' = [w EXCEPT ![u] = label_map'[g][local_label]]
  /\ UNCHANGED <<hostvars, todo, sharedvars, tpc, batch, batch_start,
                 batch_end, z_unique_n, batch_mask, partition>>

EndBatch(g) ==
  /\ tpc[g] = "merge"
  /\ i[g] = node_n
  /\ tpc' = [tpc EXCEPT ![g] = "idle"]
  /\ UNCHANGED <<hostvars, w, new_node_n, todo, sharedvars, batch, i,
                 batch_start, batch_end, z_unique_n, batch_mask, partition,
                 label_map>>

-----------------------------------------------------------------------------

MainThread ==
  BeginRound \/ Compact \/ CompactUndefined \/ LeaveLoop \/ PrintResult

Thread(g) ==
  \/ TakeBatch(g) \/ ScanEdge(g) \/ CloseScan(g)
  \/ SkipBatch(g) \/ TrimBatch(g) \/ TrimUndefined(g)
  \/ InitPartition(g) \/ Refine(g)
  \/ MergeNode(g) \/ EndBatch(g)

(* The process has left main, or left defined behaviour.                   *)
Stopped == pc \in {"done", "undefined"} /\ UNCHANGED vars

Next == MainThread \/ (\E g \in Gpus : Thread(g)) \/ Stopped

Fairness == WF_vars(MainThread) /\ \A g \in Gpus : WF_vars(Thread(g))

Spec == Init /\ [][Next]_vars
FairSpec == Spec /\ Fairness

-----------------------------------------------------------------------------
CurrentGraph ==
  [nodes |-> new_node_n, edges |-> new_edge_n,
   start |-> edge_start, end |-> edge_end, weight |-> edge_weight]

(* Types: indices stay within the arrays they index, whatever the threads  *)
(* do to one another's trimming.  Weights are left to QuotientExact.       *)
HostTypeOK ==
  /\ ideal \in BOOLEAN
  /\ IsGraph(graph)
  /\ pc \in {"round", "parallel", "print", "done", "undefined"}
  /\ {node_n, new_node_n, edge_n, new_edge_n, batches} \subseteq Nat
  /\ todo \subseteq 0 .. batches - 1
  /\ pc = "round" =>
       /\ {edge_start, edge_end} \subseteq
             [0 .. new_edge_n - 1 -> 0 .. new_node_n - 1]
       /\ cls \in [Nodes(graph) -> 0 .. new_node_n - 1]
  /\ pc = "parallel" =>
       /\ {edge_start, edge_end} \subseteq [Edge -> Node]
       /\ cls \in [Nodes(graph) -> Node]
       /\ w \in [Node -> (0 .. new_node_n - 1) \cup {node_n}]

ThreadTypeOK(g) ==
  /\ tpc[g] \notin {"idle", "undefined"} =>
       batch[g] \in (0 .. batches - 1) \ todo
  /\ tpc[g] = "scan" => i[g] \in RangeStart(batch[g]) .. RangeEnd(batch[g])
  /\ tpc[g] \in {"scan", "trim"} =>
       {new_batch_start, new_batch_end} \subseteq (0 .. edge_n) \cup {NOT_INIT}
  /\ tpc[g] \in {"scan", "trim", "init", "refine", "merge"} =>
       batch_mask[g] \in [Node -> {OFF_BATCH, IN_BATCH, DANGLING}]
  /\ tpc[g] \in {"init", "refine", "merge"} =>
       /\ {batch_start[g], batch_end[g]} \subseteq 0 .. edge_n
       /\ batch_start[g] <= batch_end[g]
  /\ tpc[g] \in {"refine", "merge"} => partition[g] \in [Node -> Node]
  /\ tpc[g] = "merge" =>
       /\ i[g] \in 0 .. node_n
       /\ label_map[g] \in [Node -> (0 .. new_node_n - 1) \cup {node_n}]

PrivateDomains ==
  {DOMAIN batch, DOMAIN i, DOMAIN batch_start, DOMAIN batch_end,
   DOMAIN z_unique_n, DOMAIN batch_mask, DOMAIN partition, DOMAIN label_map}
    = {Gpus}

TypeOK ==
  /\ HostTypeOK
  /\ tpc \in [Gpus -> {"idle", "scan", "trim", "init", "refine", "merge",
                       "undefined"}]
  /\ \A g \in Gpus : ThreadTypeOK(g)
  /\ PrivateDomains

(* What a thread refines it owns whole: the refinement of a source that    *)
(* has edges in another batch would see a part of its weights only         *)
(* (the mask loops at rbsc.cu:332-334).                                    *)
OwnsWholeNodes ==
  \A g \in Gpus : tpc[g] \in {"refine", "merge"} =>
    \A e \in Edge : edge_start[e] \in InBatch(g) => e \in Trimmed(g)

(* A node is dangling for the first batch only when no edge leaves it      *)
(* (rbsc.cu:310 marks all nodes before the edges are scanned).             *)
DanglingHasNoEdge ==
  \A g \in Gpus : tpc[g] \in {"refine", "merge"} =>
    \A e \in Edge : batch_mask[g][edge_start[e]] # DANGLING

(* No node belongs to two batches of a round: a label, once given, stays.  *)
LabelGivenOnce ==
  [][pc = "parallel" /\ pc' # "undefined" =>
       \A u \in Node : w[u] # node_n => w'[u] = w[u]]_vars

(* The labels handed out so far are those in use, with no gap: what the    *)
(* host reports as the size of the quotient is its number of blocks, and   *)
(* no label reaches the sentinel node_n.                                   *)
LabelsDense ==
  pc = "parallel" =>
    {w[u] : u \in {v \in Node : w[v] # node_n}} = 0 .. new_node_n - 1

(* Two threads never hold one label for classes of their own: they draw    *)
(* labels from one counter (the critical section at rbsc.cu:438).          *)
LabelsNotShared ==
  \A g, h \in Gpus :
    g # h /\ tpc[g] = "merge" /\ tpc[h] = "merge" =>
      Range(label_map[g]) \cap Range(label_map[h]) \subseteq {node_n}

(* Between rounds the arrays hold the quotient of the input, exactly: each *)
(* input node sends to each class of input nodes the weight its class      *)
(* sends there, in one edge per pair of classes, still grouped by source.  *)
QuotientExact ==
  pc = "round" =>
    /\ IsGraph(CurrentGraph) /\ Grouped(CurrentGraph)
    /\ Range(cls) = 0 .. new_node_n - 1
    /\ \A u \in Nodes(graph), c \in Range(cls) :
         OutWeight(graph, u, Block(cls, c)) =
           OutWeight(CurrentGraph, cls[u], {c})
    /\ edge_n > 0 =>
         \A d, e \in Edges(CurrentGraph) :
           edge_start[d] = edge_start[e] /\ edge_end[d] = edge_end[e] => d = e

(* With hashes that tell signatures apart every round ends there.          *)
RoundsExact == ideal => QuotientExact

WeightInto(u, C) ==
  SumFunctionOnSet(edge_weight,
    {e \in Edge : edge_start[e] = u /\ edge_end[e] \in C}) % WeightModulus

(* Whatever the hash, refinement never separates two nodes that some       *)
(* stable partition keeps together: collisions can only lump too much.     *)
RespectsMask(g, q) ==
  \A u, v \in Node : u # v /\ q[u] = q[v] =>
    batch_mask[g][u] = batch_mask[g][v] /\ batch_mask[g][u] # OFF_BATCH
NeverSplitsEquivalent ==
  \A g \in Gpus : tpc[g] \in {"refine", "merge"} =>
    \A q \in [Node -> Node] :
      /\ RespectsMask(g, q)
      /\ \A u, v \in Node, c \in Range(q) : q[u] = q[v] =>
           WeightInto(u, Block(q, c)) = WeightInto(v, Block(q, c))
      => Refines(Blocks(q), Blocks(partition[g]))

(* With ideal hashes the rounds implement the abstract reduction: every    *)
(* one lumps the input into a stable partition, and done = 1 says it is    *)
(* the coarsest (rbsc.cu:274-496).                                         *)
Reduction == INSTANCE Lumping WITH blocks <- Blocks(cls)
RoundsReduce ==
  Reduction!Init /\ [][ideal => [Reduction!Next]_(Reduction!vars)]_vars

(* Refinement, rounds and threads all end, whatever the hash.              *)
Termination == <>(pc = "done")

(* README.md:35: a result with done = 1 is a BE reduction at all.          *)
DoneIsReduction == result.done = 1 => StablePartition(graph, Blocks(cls))
=============================================================================
