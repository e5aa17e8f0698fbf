# Verification of the RBSC tools and of the webgraph library they use

TLA+ models, TLC instances and TLAPS proofs for the repository "Scaling
Weisfeiler-Leman Expressiveness Analysis": tools that compute the coarsest
backward-equivalence (BE) reduction of a weighted directed graph, and the
copy of webgraph-rs that stores the graphs they read. References such as
`rbsc.cu:289` are to files of `src/rbsc`, `src/rsc`, `webgraph-rs/webgraph/src`,
`webgraph-rs/algo/src` and `webgraph-rs/cli/src`; `PROJECT.json` gives full
paths and maps every definition to its lines.

## 1. Inventory

The reduction tools:

| part | state | operations | what makes it correct |
|---|---|---|---|
| `rbsc.cu` host loop | edge arrays, `node_n`, `new_node_n`, labels `w`, `batches` | start a round, build the quotient in place, stop, print | each round is an exact quotient by a stable partition; `done = 1` only for the coarsest; rounds end |
| its threads, one per GPU | trimmed bounds, `batch_mask`, `label_map`; three bounds shared by mistake | take a batch, scan and trim it, refine, merge labels | a batch owns its nodes whole, no node is in two, labels unique and dense |
| its GPU kernels | `d_w` (classes), `d_z` (hashes) | sum hashes by source, split classes, count | never splits nodes that are equivalent; ends |
| `rbsc_aggressive.cu` | the same | the same, one more exit condition | the same |
| `rsc.cpp` | labels, hashes | sequential colour refinement | the same partition, sums within 32 bits |
| `part_ref` | blocks of states and of transitions, splitters | mark, split, main loop | not modelled (section 9) |

The graph library, from which the tools' inputs come:

| part | state | operations | what makes it correct |
|---|---|---|---|
| `visits/breadth_first` | bits of the nodes, two frontiers or a queue with separators, callbacks | visit from roots, filter, break off, reset, iterate | every node told once, at its distance; frontiers never mixed; returns |
| `visits/depth_first` | bits, a stack of successor iterators, parents | visit, retreat, break off, reset, iterate | stack, parents and current node describe one path; previsit and postvisit nest |
| `sccs`, `top_sort`, `acyclicity` | arrays written by callbacks, timestamps, component stack | Tarjan, Kosaraju, symmetric components, orders, renumbering | components, dense and in reverse topological order; every cell written |
| `distances/hyperball` | two arrays of estimators, bits of modified nodes, checklists, arc cursor | iterations in four modes, runs | the estimators of full iterations, each value counted once |
| `distances/exact_sum_sweep` | bounds of all eccentricities, radius behind a lock, points of six steps | visits, bounds by pivots, exactness tests | bounds never pass the eccentricities, answers exact, it ends |
| `graphs/bvgraph/comp`, `codecs` | ring of lists, chain lengths, a stream of codes | choose a reference, write a list | a list is read back whatever reference was chosen |
| `graphs/bvgraph` readers, `load`, `flags` | position in a stream, ring of lists, properties | random access, sequential and degree iteration, load | all readers agree with the writer |
| `comp/impls` | threads, a channel, a queue ordered by job number | compress parts, glue bitstreams and offsets | the glued graph is the graph, in any order of arrival |
| `utils/sort_pairs`, `transform`, `graphs`, `split` | batches on disk, merge iterators, graphs in memory | sort, transpose, simplify, permute, split | each arc once, in order, whatever the batches and the order in which they arrive |
| `cli` | files | compose the above and the index of offsets | what a command leaves on disk is the promised graph |

Interaction. The experiment drivers start a writer (webgraph or an adapter) and
one tool joined by a pipe. Inside rbsc the main thread opens a parallel region
per round; threads share the edge arrays (read only), `w` and `new_node_n`
(written under the critical section or at nodes a batch owns) and, through an
incomplete `private` clause at `rbsc.cu:289`, the bounds `new_batch_start`,
`new_batch_end` and `off_batch_node_n`. In webgraph, visits call back into
algorithms, which are modelled conjoined with the visit they are handed to;
parallel visits and HyperBall share atomic bits and cursors; ExactSumSweep
shares one lock that it takes twice; threads that compress or sort share only a
channel, and their results meet in the order of arrival.

The hard behaviours: batches cut through the edges of a node, partial
refinement is composed over rounds, compaction is in place, hashes stand in for
signatures, 64-bit sums wrap; who swaps a bit first owns a node; visits are
broken off and their objects reused; HyperBall leaves out nodes it believes
unchanged; references chain through a ring of lists; jobs are numbered and may
be fewer than the threads. `PROJECT.json` lists these as hazards, each at its
line, with the properties that are about it.

## 2. Modules

Reduction tools:

* `WeightedGraphs`: graphs as `read_graph` leaves them in memory, weight sums
  modulo `WeightModulus`, stable partitions, and the coarsest stable partition
  as a definition over all labellings; `Partitions`: blocks and refinement.
* `Lumping`: the abstract specification. `Lump` coarsens `blocks` to a stable
  partition of the input, `Answer` does so and prints the number of blocks and
  a flag that, when 1, promises the coarsest.
* `Quotients`: the quotient graph of a labelling, as rbsc defines it.
* `Rbsc`: the GPU program (section 3), `Compaction`: the two loops that build
  its quotient, step by step. `Rsc`: the sequential program (section 4).

Graph algorithms (section 5):

* `Digraphs`: graphs, distances, levels and components, by definition.
* `LevelVisit`: the abstract specification of a breadth-first visit.
* `ParBfs` (both parallel visits), `SeqBfs` (the sequential one and its
  iterator); `SymmPar` extends `ParBfs` with the callbacks of `symm_par`.
* `SeqDfs`: one step of the depth-first visits. `DfsVisits` (an object in
  use), `Tarjan` and `DfsAlgorithms` extend it.
* `BallGrowth`: the abstract specification of HyperBall; `HyperBall`.
* `ExactSumSweep`.

Storage (section 6):

* `BvCompressor` (a list becomes codes), `BvDecoders` (the readers),
  `CompFlags` (properties, loading, index of offsets), `ParComp` (references
  across lists, jobs, the queue): operators, each on the ones before.
* `SortPairs`, `GraphBuilders`, `Transforms`: external sorting, graphs in
  memory and views, and what the commands do to the arcs.
* `Storage`: the state machine that composes them: sorting threads, merging,
  compressing threads, gluing, properties, index.

Instances: `MCRbsc`, `MCRsc`, `MCReductions`, `MCBreadthFirst`,
`MCDepthFirst`, `MCHyperBall`, `MCSweep`, `MCStorage`; `MCGraphs` enumerates
small weighted graphs. Where one instance covers several machines
(`MCReductions`: `Rsc`, `Rbsc` with two GPUs, racing or in order, and
`Compaction`; `MCBreadthFirst`: the parallel visits, the sequential one,
`symm_par`; `MCDepthFirst`), the variable `machine` is fixed by the initial
state, so that a behaviour is one of one machine and the variables of the others
stay as they are. In the same way the
variable `ideal` of `Rbsc` and `Rsc` says whether hashes tell signatures apart.

Proofs: `RbscProofs`, `CompactionProofs`, `RscProofs`, `ParBfsProofs`,
`DfsProofs`, `HyperBallProofs`, `ExactSumSweepProofs`, on the lemmas of
`BaseLemmas` (section 10).

`Rbsc` and `Rsc` both have `Lumping` as a property, under refinement mappings of
their own: the tools are not compared with each other but each with what its
answer promises, and `CoarsestUnique` proves that this fixes the answer. In the
same way `ParBfs` and `SeqBfs` implement `LevelVisit`.

## 3. How `Rbsc` corresponds to the code

State: `node_n`, `new_node_n`, `edge_n`, `new_edge_n`, `batches`, the three edge
arrays, `w`, `batch_mask`, `label_map`, `batch_start`, `batch_end`,
`z_unique_n` and `i` are the variables of `main` of the same names; the private
ones are functions of the GPU. `partition[g]` is `d_w[g]` with a class named by
its least member. `todo` holds the iterations of the `omp for` not yet
started. `cls`, a ghost, maps each input node to its node in the current graph.

| action | lines of `rbsc.cu` |
|---|---|
| `BeginRound` | 274-287 |
| `TakeBatch`, `ScanEdge`, `CloseScan` | 303-323, one step per edge scanned |
| `SkipBatch`, `TrimBatch`, `TrimUndefined` | 325-350 |
| `InitPartition` | 339, 352-353, kernel 51-63 |
| `Refine` | one turn of 354-425, with 427-432 when it is the last |
| `MergeNode`, `EndBatch` | 434-449, one step per node |
| `Compact`, `CompactUndefined`, `LeaveLoop` | 451-487 |
| `PrintResult` | 489-496 |

Abstractions, each an over-approximation or an identity on what the properties
see:

* Class numbers on the GPU only serve to tell classes apart. `d_w` holds
  numbers below `node_n + 2` when it is sorted at line 386, so that sorting 32
  bits of it sorts all of it.
* `randomize` is a bijection of 64-bit words (additions, odd multiplications,
  xor-shifts, a rotation). Classes thus have distinct values at line 407 and
  the loop of lines 404-419 runs once; it is part of `Refine`. The hash of a
  node is a sum of such values, hence a function of its signature, the weight
  it sends to each class. The variable `ideal`, fixed by the initial state, says
  what is known of that function: where it is TRUE it is injective, where it is
  FALSE it is any function into `HashValues`, chosen anew each time.
* A thread takes any batch not taken yet. The default schedule of OpenMP is up
  to the implementation; usual ones are among those modelled.
* The scratch arrays, device copies and timing are left out, and CUDA calls
  succeed.
* `Compact` is stated by its result: the groups kept, their edges and sums
  (`Kept`, `SummedWeight`). `Compaction` shows the loops to have this result.
* The race on the shared bounds is modelled at the granularity of one scanned
  edge. When a thread then trims to bounds the wrong way round, or to more
  edges than the device arrays take, `TrimUndefined` ends the behaviour: what
  the copies and launches do is not defined. Likewise `CompactUndefined` when
  labels outnumber nodes. `TrimOverlap = FALSE` restricts schedules to those
  in which the stretches 304-339 of two threads do not overlap; with one
  thread it makes no difference.

## 4. How `Compaction` and `Rsc` correspond to the code

`Compaction` starts where all threads have left the barrier. `given` and
`drawn` are the labels and their number then, any labelling without gaps
(`LabelsDense` of `Rbsc`, proved there). The variables are those of lines
452-486, with the two scratch arrays holding what the last round left.
`LabelNode` is a turn of 457-461. A turn of 463-485 is `DropEdge`,
`AppendEdge` or `AddWeight`, by the branch it takes; each includes the test
for a new source (`VisitSource`, 464-469). `FollowsQuotient` relates the loop
to `Quotients` at every turn: what is written is the quotient of what was read.

`Rsc` reads its input edge by edge (`ReadEdge`, `RejectWeight`: lines 53-59),
adds up `z` edge by edge (`AddEdge`: `spmv`, 71-78) and relabels in one step
(`Relabel`: lines 128-144). `z[u]` holds the weight sent to each label rather
than a sum of hashes; a hash is a function of it, as in `Rbsc`, and a new one
in each iteration since the code mixes the iteration number in. Sorting by `z`
and numbering runs of equal `z` is taken for what it does: nodes with equal
`z` get equal labels. The tie-break on `w` in the comparison (131) has no
influence on that and is left out. Input weights are below `WeightModulus`,
the 64 bits that `read_uint64` returns; `Stored` cuts them to `WEIGHT_MAX`.


## 5. How the graph algorithms correspond to the code

Visits and callbacks. `ParBfs`, `SeqBfs` and `SeqDfs` are the visits; a
callback answers `Continue` or `Break`, and the models let it answer either
way (`MayStop`). An algorithm that is the callback of a visit (`Tarjan`,
`DfsAlgorithms`, `SymmPar`) is conjoined with the visit: the step that raises an
event is also the step of the callback that handles it, so that a callback
sees the visit exactly as in the code. Ghosts record what the callback was told
(`told`, `sizes`, `done`, `event`) and the definition it is compared with
(`levels`, `path`, `white`).

| module | action | code |
|---|---|---|
| `ParBfs` | `StartVisit`, `TakeRoot`, `CloseRoots` | `visit_par_filtered_with` up to the first frontier, `par_fair.rs:144-188`, `par_low_mem.rs:119-164` |
| | `OpenLevel`, `CloseLevel`, `Finish` | a turn of the loop over levels, before and after the parallel part; `Done` |
| | `TakeChunk` | an item of `chunks(granularity)` handed to a thread of the pool |
| | `VisitNode`, `SwapBit`, `Discover`, `TellKnown`, `NextNode` | `par_fair.rs:199-235`, `par_low_mem.rs:187-222`, one step per access to shared memory |
| | `Reset` | `reset` |
| `SeqBfs` | `PopNode`, `PopSeparator`, `ScanSucc`, `EndArcs`, `Finish` | `breadth_first/seq.rs:196-251` |
| | `StartOrder`, `OrderNext`, `OrderNone`, `OrderPanic`, `DropOrder` | `BfsOrder`, `seq.rs:259-312` |
| `SeqDfs` | `InitRoot`, `PrevisitRoot`, `Revisit`, `Ignore`, `Previsit`, `Postvisit`, `DoneRoot` | `depth_first/seq.rs:298-427`, with and without predecessors and path bits (`kind`) |
| `DfsVisits` | `Visit`, `Restore`, `Inspect` | several visits of one object, `reset`, `stack()` |
| | `StartOrder`, `OrderDeeper`, `OrderRestart`, `OrderNone` | `DfsOrder`, `seq.rs:544-616` |
| `Tarjan`, `DfsAlgorithms`, `SymmPar` | one definition per event | `tarjan.rs`, `top_sort.rs`, `acyclicity.rs`, `symm_seq.rs`, `kosaraju.rs`, `symm_par.rs`, `sccs/mod.rs` |
| `HyperBall` | `StartRun`, `BeginIteration`, `CloseIteration`, `StopRun` | `init`, prologue and epilogue of `iterate`, `hyperball.rs:523-571`, `:765-944`, `:1165-1224` |
| | `TakeListed`, `TakeChunk`, `CheckNode`, `SkipNode`, `EndTask` | `parallel_task`, `hyperball.rs:988-1160` |
| `ExactSumSweep` | `Sweep`, `ForwardStep`, `BackwardStep`, `StepSumSweep`, `ChoosePivots`, `BoundForward`, `BoundBackward`, `Refine`, `Compare`, `Claim`, `Measure`, `Choose` | `computer.rs:248-972`, with the tests of `level.rs` |

Abstractions.

* The atomic swap of a bit is one step, and so is the push to the lock of the
  frontier it guards, since each thread pushes to a vector of its own. Chunks
  may be taken in any order by any thread.
* Uninitialised arrays hold `Unwritten` until they are written, and
  `AssumeInitSound` asks that no such cell is left when `assume_init` is called.
* A HyperLogLog counter is the set of items it can tell apart, its estimate the
  size of the set, merging is union. Collisions are inputs: nodes may share an
  item. Numerical error of the estimates is left out. A thread's work on one
  node is one step: it reads the old array and old bits only, and writes its own
  node and atomic bits.
* A visit of ExactSumSweep writes only cells of the node it tells, and is one
  step with the exception of `radius_high` and `radius_vertex`: their lock is
  taken for reading, released and taken for writing (`computer.rs:591-606`), so
  reading and writing are steps of their own (`Compare`, `Claim`). Points are
  kept in units of 1/720720, of which every quotient used is a multiple.

## 6. How the storage modules correspond to the code

A graph on disk is a sequence of words, each with the code it was written in, its
value and its length: offsets in bits are sums of lengths, and a reader that
expects another code than the writer used finds `Garbage`. `BvCompressor`
builds the words of a list with and without a reference; `ParComp!push` chooses
the reference as `BvComp::push` does, by the length of each candidate, from the
ring of the last lists and the lengths of their chains. `BvDecoders` has each
reader with the state it keeps: random access follows references through the
offsets, the sequential iterator through its ring, `iter_from` fills the ring
first, the degree iterator skips what it does not need.

`Storage` is the state machine: `Sort` (a thread sorts its part and dumps its
batches), `Split` (batches are merged and the result is split for the
compressors), `Compress`, `Send`, `Receive` (the queue of jobs ordered by their
number), `Glue`, `Finish` (properties), `BuildIndex`. What a thread does alone is one
step, since threads share only the channel; what they send meets in any order.
`Transforms` says what is pushed to which sorter by each command and each of its
variants (with and without index, permuted, given the transpose; in which the
code takes different paths), with the arcs that `from arcs` reads from text.
What is stored is compared with what the documentation promises, stated apart
from the code: `PromisedArcs` and `PromisedNodes` (`ArcsAsked`: the lines
`--max-arcs` asks for; `OriginalArcs`: the given graph, permuted if a permutation is
given). `TransformExact` says that the graph handed to the compressor is the promised
one, `StoredExact` that every reader finds on disk what the compressor was handed.

## 7. Runs

| run | instance | what it shows |
|---|---|---|
| `rounds` | 1 GPU, batches of 2 edges, all graphs of 3 nodes with 2 or 3 edges of weight 1 or 2 or with 4 edges, of 4 nodes with 3 edges or with one edge from every node; with ideal hashes, and on a part of them with hashes that collide at will | types, dangling nodes, dense labels, labels given once, exact quotients by stable partitions, refinement of `Lumping`; collisions only lump (`NeverSplitsEquivalent`), and the program ends |
| `reductions`, race and orderly | 2 GPUs, all interleavings, two graphs, one with a node whose edges span two batches; and, without overlap, `rbsc_aggressive` with weights modulo 3 | `OwnsWholeNodes` and `LabelsNotShared` survive the race; without it labels are dense and quotients exact |
| `race_answer` | 2 GPUs, all interleavings, four nodes with an edge to a fifth | **violated**: `done = 1` with a partition that is not a reduction |
| `reductions`, loops | graphs of 3 nodes with 3 or 4 edges, every labelling without gaps, any leftovers | types, unread edges intact, no parallel edges, always the quotient of what was read |
| `reductions`, rsc | graphs of 1 to 4 nodes, weights 0 to 2, limit 5; on a part of them hashes of 3 values | exact sums, refinement of `Lumping` with the coarsest answer, the end; collisions only lump |
| `rsc_heavy` | a weight of 6, cut to 0 by the limit of 5 | **violated**: accepted and answered |
| `breadth_first` | 2 workers, chunks of 1 and 2, 4 nodes, 3 filters, 2 visits with and without reset, `Break` anywhere; all loopless graphs of 3 nodes; the sequential visit and its iterator; symmetric graphs of 4 nodes | no node told twice, `Done` only when all that can be reached was told, only accepted nodes marked, order of breadth, components, refinement of `LevelVisit`, every visit returns |
| `depth_first` | the three kinds of visit on all loopless graphs of 3 nodes and two of 4, 2 visits, `Break` anywhere; Tarjan and the other algorithms on all graphs of up to 3 nodes and families of 4 | one path described by stack, bits and depth; the white-path theorem, in the visits and inside the algorithms; links, components, orders exact; all end |
| `hyperball` | 2 threads, 2 runs, 3 to 16 nodes | estimators and neighborhood function of full iterations (`BallGrowth`), each run returns |
| `hyperball_local` | a graph whose weight is at one node, where a pre-local iteration modifies many | **violated**: the neighborhood function misses nodes |
| `eccentricities` | all loopless graphs of 3 nodes with every numbering of components, graphs of 8 nodes, symmetric ones, given radial vertices; the five levels | bounds bracket the eccentricities, answers exact, it ends |
| `storage` | every pair of lists over 4 nodes under two settings, and 5 graphs of 0 to 13 nodes under every command and variant, 1 to 3 threads | the graph compressed is the documented one, every reader finds on disk what was compressed, whatever the order of threads; the command ends |
| `storage_permuted` | a directed path recompressed with a permutation and without an index | **violated**: the transpose of the permuted graph is stored |
| `storage_limit` | three arcs in text, `--max-arcs 2` | **violated**: the third line is parsed as well |

Bounds. Two-edge batches over three or four edges give two batches, sources
that straddle them, batches without a whole source, several rounds, last
rounds with one and with several batches, and quotients that merge parallel
edges. Three nodes are enough for a class of two next to another class, four
for two classes of two. Weights 1 and 2 separate nodes by weight alone and make
sums collide; modulus 3 makes sums of two edges wrap to zero, modulus 16 never
wraps on these graphs. The instance of `rounds` has no step to an undefined
outcome, so that one would show as a deadlock. For `Rsc` three edges of weight 2 exceed the limit of 5
while two do not, and weight 0 makes nodes with edges look like nodes without.

Two workers and a diamond are the least in which a node is found twice at once,
by workers in two chunks of a level; two visits are the least in which bits of
one meet the next. Three nodes give all shapes of arcs of a depth-first visit
(tree, forward, back, cross, between trees); four give a path with a branch.
HyperBall changes to local iterations when the nodes modified are few among all
(`num_nodes / 4`, and fewer than a tenth of the nodes' share of the arcs), so that most
of the 12 or 16 nodes of its inputs have no arcs; paths make modified nodes
move. In `ExactSumSweep` three nodes with every numbering cover every shape
of the graph of components; eight nodes with cycles make several steps, pivots and
ties of points necessary. `Unbounded` stands for `usize::MAX` and only has to exceed every distance. In `storage`, windows of 0 to 3, chains of 0 to 2 and
intervals of at least 2 or none are each crossed by lists of up to 4 nodes; batches of
1 and 3 arcs give several batches per part and a short last one; with three threads the
parts of a graph of 4 or 5 nodes are unequal, and a job may arrive before any other.

`MaxVisits`, `MaxRuns` and `MaxThreads` bound what a user does with an object, not
the algorithms; all other variables are bounded by the input.

The findings behind the violated runs are in `PROJECT.json`. In the shortest
behaviour of `race_answer` thread 1 scans batch 0; thread 2 takes batch 1 and
overwrites the shared bounds before thread 1 copies them at lines 325-326;
thread 1 then trims to batch 1, whose nodes carry the mask "dangling" it gave
them at line 310, and lumps them with the node that has no edges. The next
rounds build on that partition and print `done = 1`. In `hyperball_local` a
pre-local iteration modifies more than a quarter of the nodes; the next iteration is
local but not systolic, so that it sums the estimators from 0 and only over its
checklist (`hyperball.rs:788`). `storage_permuted`: `permute` pushes the arcs of the
permuted view turned around (`perm.rs:52`), `permute_split` does not (`perm.rs:115`), so
that `to bvgraph --permutation` stores one graph or its transpose depending on whether
the index is there. `storage_limit`: `from arcs` tests the limit before a line is read and
with `>` (`arcs.rs:90`), so that one line more than asked for is parsed. The inputs of `storage`
leave out these two: it permutes without an index only where arcs go both ways,
and gives `--max-arcs` limits that the lines do not exceed.

Disagreements met on the way that no run is about:

* rbsc: a node whose edges send a total of 0 modulo 2^64 (edges of weight 0, or sums that
  wrap) is kept apart from the nodes without edges, since the batches count it as theirs
  (`rbsc.cu:310-334`, `:355`), so that `done = 1` may stand for a partition that is not the
  coarsest. `RoundsImplementLumping` therefore assumes `Sending`, that every node with edges
  sends something in sum; the instances of `rounds` meet it. With more than one batch
  `done = 0` may stand for the coarsest (`rbsc.cu:493`). A graph without edges has no
  batch, no node gets a label, and 0 nodes are printed, with `done = 0`.
* visits: `BfsOrder` of a graph without nodes panics (`breadth_first/seq.rs:292`;
  `OrderPanic` models it); an interrupted depth-first visit that is used again
  without `reset` finds its old stack (`depth_first/seq.rs:352`; `ReuseBroken`).
* `argmax_filtered` breaks ties by the larger tie value, its comment says otherwise
  (`utils/argmax.rs`); HyperBall starts the neighborhood function from the number of nodes
  also when weights are given (`hyperball.rs:1209`).
* storage: properties are written with `zetak` (`flags.rs:190`) and looked up as `zeta_k`
  (`:220`); `single_thread` encodes with the default codes (`impls.rs:116`) and writes
  down those it was given; the endianness written is always big; batches of
  size 0, or arcs pushed after `iter`, lose arcs in `SortPairs`; the queue of jobs drops
  what follows a missing number; `split::ra` panics when there are more threads than
  the graph can be cut for (`InputsSplit`).

## 8. Fairness

Weak fairness of the processes only. `Rbsc`: of the main thread and of each GPU's
thread; the operating system runs every runnable thread, CUDA streams complete
what they are given, and a barrier is left once all have reached it. `Rsc`,
the sequential visits and their algorithms are one process that nothing blocks.
`ParBfs` and `HyperBall`: of the calling thread and of each worker, as a pool runs every
task it accepted. `ExactSumSweep` and `Storage`: of the main thread and of the threads
it started; a channel delivers what it was sent. That a user begins another visit or
run is never assumed.

No fairness is assumed of the choice of a batch, of a chunk, of a hash, of an
answer of a callback or of the order in which threads run. Only `Termination`,
`EndsWhenIdeal`, `AllEnd`, `RunEnds`, `Ends` and `StoreEnds` use it.
`EndsWhenIdeal` needs ideal hashes: when sums collide anew in every iteration,
the number of classes of `rsc` may go up and down for ever. Steps such as `Stopped`
and `AfterEnd` stutter where a process has ended; the runs that do not check for
deadlock are those whose machines stop when they are done (`HyperBall`,
`ExactSumSweep`, `Storage`).

In `Storage` weak fairness is written out with the guards of the actions
(`([]<>~Can) \/ ([]<><<A>>_vars)`), which is the same formula: the actions can
always be taken where their guards hold.

## 9. Not modelled

* `part_ref`, the minimizer of Markov decision processes kept for comparison: the main
  loop waits for `bisim_splitter` to pass the cords, but the call that moves it is
  commented out (`MDP_minimize.cc:771`), so that with labels on the transitions the
  algorithm on disk is not the one of its paper, and what it should answer is stated nowhere.
* Failing allocations, CUDA calls and file operations: the tools do not check most of them,
  webgraph ends the command with an error.
* The rounding of `float` in `rbsc_aggressive.cu:487`, f64 in HyperBall and ExactSumSweep,
  the character loop of `read_uint64` (which does not end at the end of a truncated
  file, `rbsc.cu:160`) and the parsing of numbers in `from arcs`.
* The drivers `bench.py` and `benchlarge.py`, which record rows of an experiment and promise
  nothing; installation and download scripts; the two one-line adapters.
* In webgraph: labels and bitstreams of labels, little-endian graphs, the Elias-Fano variant of
  `CsrGraph`, random graphs, the remaining commands (statistics, optimisation of codes,
  permutations), and layered label propagation, whose result depends on an intended
  data race on labels and is not specified.

The input of `rsc` is taken to have a node, and that of both tools to keep the
edges of a node together, as the converters write them.

## 10. Proofs

Every theorem holds for all values of the constants; the named assumptions of the
module, and those stated below, are all that is assumed.

`RbscProofs`, from `ModulusAssumption`, `GraphsAssumption` and `RbscAssumption`, in five layers.

* Indices. `TypeCorrect`, `Spec => []TypeOK`. The inductive invariant
  `TypeInv` adds that no thread is busy outside the parallel region (else the
  host could change the graph below a thread) and that a round has enough
  batches only for its edges (the indices scanned stay within the edges).
* Threads, for every schedule, the race included: `WholeNodes` and
  `LabelsStayApart`. `ThreadInv` adds that a node left in the mask has all its
  edges in the trimmed range, which the two mask loops establish whatever range
  they are given, and that the label maps of two merging threads meet in
  `node_n` only, since a label drawn is above all labels held.
* Batches, assuming `Exclusive` (one GPU, or no overlap of trimming):
  `DanglingIsDangling`, `LabelsAreDense`, `LabelsAreGivenOnce` (an action
  property) and `StaysDefined`. `BatchInv` says that the bounds are those of the
  edges scanned so far, that a mask holds nodes its batch owns, that every label
  was given by the batch that owns the node, and that this batch is past the
  node. `OwnedOnce` shows that two batches own no node in common, as ranges are
  disjoint; `LabelsFit` counts, so that labels never outnumber nodes and none
  reaches the sentinel `node_n`. `race_answer` shows that `Exclusive` is needed:
  its behaviour also violates `DanglingHasNoEdge`.
* What labels mean. `EquivalentStayTogether`, for every hash and schedule, racing
  ones included: by `UnsplitInv`, nodes that a stable partition within the mask
  keeps together have equal signatures in every iteration, so no hash can tell them
  apart. `RoundsAreExact`, under `Exclusive` and where hashes tell signatures apart
  (`ideal`). `RoundInv` has six parts. `WithinMask`: classes do not span masks.
  `CountInv`: classes are never overestimated, so refinement ends only when nothing
  was split, and then (`StableInv`) the classes are stable. `ClassInv`: a label given
  by a thread stands for one of its classes. `SettledInv` carries stability of one
  batch to the round: two nodes of one label send the same to each class of every
  labelling that extends the labels given so far, or a thread is still merging them.
  Any such labelling is coarser than the classes of the batch, which are stable on
  it; the labels completed at the barrier are one. `QuotientInv`: the arrays are the
  quotient of the input by `cls`, carried over `Compact` because a quotient of a
  quotient sends what the input sends (sums over disjoint unions, `BaseLemmas`).
* `RoundsImplementLumping`, under `Exclusive` and `Sending`: every step of `Rbsc`
  is a step of `Lumping` under the mapping `Reduction`, or a stutter. `SendInv`:
  the sums of sources stay different from 0 in quotients. `WholeInv` and `SingleInv`:
  a single batch is the whole edge list, leaves no node out, and labels by the
  coarsest partition. `PrintInv`: so what is printed is the number of blocks of a stable
  partition, the coarsest one when `done = 1`. That a coarsest partition of the round
  is one of the input takes `ProjectStable`: a stable partition of the input, joined
  with the classes of `cls`, is again stable.

`CompactionProofs`, from `GraphsAssumption` and `ModulusAssumption`:
`TypeCorrect`, `ReadsInputOnly`, `EdgesAreMerged`, `BuildsQuotient`. `CompactionInv`
says, of the first loop, that labels have no gap, so that by counting there is
room for one more while a node has none; of the second, that it has written no
more than it read, that every source written has been considered, and that
in a group that counts exactly the edges from `first_edge_i` on have its
source and are found through `weight_indexes`. The last is what makes the
test of line 475 right although `weight_indexes` is not reset between groups.
`QuotientInv` adds that what is written is, edge by edge, the first of its pair of
classes among the edges read, with the sum of all of them, which makes every turn
of the loop a step from one quotient to the next.

`RscProofs`, from `RscAssumption` and `ModulusAssumption`: `TypeCorrect`, `SumsAreExact`,
and complete correctness where no weight is cut (`NothingCut`; `rsc_heavy` shows that it
is needed): `NeverTooLarge` for any hash, and `AnswersCoarsest`. `ClassInv` says that
nodes have one label exactly when they sent the same to the labels before, which the
labels refine, and that what a stable partition keeps together has one label; when the
number of labels no longer grows, the two labellings are one, and stable. `CoarsestUnique`, of any graph:
coarsest partitions refine each other and so are the same, which makes the answers of
`rbsc` and `rsc` with `done = 1` comparable.

`ParBfsProofs`, from `ParBfsAssumption`, for both parallel visits, any number of workers,
granularity, filter and answers, any number of visits with or without reset, and for the
sequential visit and its iterator.

* `NobodyToldTwice` and `ChunksTakenOnce`, by `ParBfsInv`. `Shape`: chunks and workers
  stay within the frontier. `Apart`: ranges held by two workers, or held and still to be
  taken, are disjoint, because chunks start at multiples of the granularity
  (`NextRange`). `Marked`: the nodes of both frontiers, and those found but not yet
  pushed, have their bit set, and are distinct, since only the worker that swapped the
  bit first has found a node. `ToldInv`: what is told is told once, and what still
  waits to be told is not told yet. A `Break` on one worker while others go on leaves
  all four intact, as does the next visit, which meets the bits left set.
* `VisitImplementsLevels` (the refinement of `LevelVisit`), `DoneIsTrue` and
  `OnlyAcceptedMarked`, by `VisitInv`. `FrontierInv`: the frontier of distance `d` is
  the level `d` of the definition, what was marked is the levels so far and part of
  the next, and a predecessor waiting in a frontier is one of the level above.
  `ScanInv`: a node of the next level not found yet is ahead of a worker or of the
  frontier (`Ahead`, `ArrivesNext`), so that none is left when all have arrived. `SizesInv`:
  sizes told are sizes of levels; `LevelBelow` ends the levels within as many steps as
  there are nodes. The levels are a recursive function; the lemmas of `BaseLemmas` read
  it, and argue by a least counterexample where one would use induction.
* `ParallelComponentsExact`, for every symmetric graph: `symm_par` numbers the connected
  components densely, whatever the number of threads and the size of chunks. `SymmInv` keeps
  what earlier visits marked closed under arcs, so that a visit meets either all of a
  component or nothing of it (`VisitMeets`), every cell of it gets the number read while no
  visit is over, and the number is raised exactly when the visit was not empty. The
  hypothesis `EnterEveryNode` is how `symm_par` uses the visits: no filter, a callback
  that always continues, a symmetric graph (what its TODO would assert).
* `SequentialToldOnce`, `SequentialDoneIsTrue`, `SequentialSeparator` and
  `SequentialImplementsLevels`, by `SeqInv`, for `SeqBfs` under the same hypotheses. While a
  level is read (`SeqScan`) its queue is what is left of the level `d`, the separator, and the
  nodes of the next level found so far, each list injective; what is marked is what the
  earlier visits marked, the levels up to `d`, and those found; a node of the next level not
  found yet is a successor still to come of the node in hand or of a node left in the queue. The
  separator is therefore at the head exactly when the whole next level has been found
  (`TwoLevels`, `OneLevel`), and is pushed again only if that level is not empty.
* `IteratorIsBfs`, by `OrderInv`. The nodes given followed by those queued are one list (`Breadth`)
  in which each node stands behind its first discoverer, and discoverers are in
  order; giving a node moves it from one part to the other and puts what it
  discovers at the end (`BreadthNext`), so that the order is kept (`BreadthOrder`). A restart
  takes the least node not marked, when the queue is empty.

`DfsProofs`, from `SeqDfsAssumption` (graphs have the nodes `0 .. n - 1`) and, for visits in
general, `DfsVisitsAssumption` and `ReuseBroken = FALSE` (which `IteratorIsDfs` does without).

* `VisitFollowsPath`. `PathInv` says that during a visit and after an interruption the
  stack goes `Along` the path: as long as it, each entry with the node before as
  parent and only successors of its own node; the nodes of the path are known and all
  different (a node is entered only when it is not known), so that taking the current
  node off removes exactly one bit. `Quiet` is where the reset matters: a visit
  begins with an empty stack only if the one before was completed or reset.
* `WhitePathTheorem`. `WhiteInv` says that a known node that is off the path has no arc to
  an unknown one (`Exhausted`), that arcs of nodes on the path lead to known nodes or are still
  listed (`ArcsLeft`), and that all that was met since a node of the path was entered can be
  reached from it by nodes unknown then (`WhiteMet`). At a postvisit the nodes met are closed
  under arcs to what was white, as the other nodes of the path were known before, and
  so are all that can be reached (`ReachedLeast`).
* `TarjanIsExact`, for every graph. `WhiteChain` orders the known nodes by what was white when
  each was entered; the `Stamp` of a node not yet emitted (`Pending`) is the number of nodes
  less those pending before it, so that it does not change when timestamps are given back.
  `TarjanInv`: a link is the stamp of a pending node that can be reached, at least one's own,
  and above it on the component stack (`LinkInv`); links are as high as the arcs read and the
  descendants left behind demand (`RaisedInv`); a flag tells whether the link is still one's own
  stamp (`LeadInv`); each node of the path finds what was met below it on top of the component
  stack (`StackInv`); `index` is what is left by the pending nodes, and above the number of
  components (`IndexInv`); what is emitted is closed and correctly numbered (`EmittedInv`). A
  node that leaves with its flag set is then the oldest that its component reaches
  (`RootOfComponent`), and `Kept` cuts the stack at its descendants (`KeptBelow`); and if a link
  reaches `root_low_link` when `index` is 0, all nodes are pending and on one cycle with the
  root (`AllOneComponent`), which justifies the early exit (`ExitInv`).

* `OrdersAreExact` and `ComponentsAreExact`, for every graph and every symmetric graph, by
  `AlgorithmInv`, on top of the visit's own invariant `FullRun`. `RootsInv`: the roots are
  taken in turn from a list of all nodes (for kosaraju's second visit, the order just
  written, which is one because its places are all different), so that a visit that comes to
  its end has met all nodes (`AllKnown`). `ApartInv` and `TreeInv`: what was left before a node was
  entered has no arc to what was white then, and what was met since a root was taken is what
  the root could reach. `OrderInv`: the places from `pos` up hold the nodes left, in an order
  (`Placed`) in which, first, arcs of an acyclic graph lead to later places, and, second, each
  node has a set around it (what was white when it was entered) inside which it reaches
  all later nodes and which later ones outside have no arc into. The second part
  holds on every graph, and is why the second visit's trees are components: a root is the first
  unknown node of the order, so what it reaches backwards can be reached forwards too
  (`TreeReached`). `CycleInv`: nodes left lie on no cycle, and arcs already read from the path lead
  to nodes left, so an arc back to the path is found exactly if there is a cycle. `LabelInv`:
  complete trees are correctly numbered. `SortedBySize`: the renumbering is the inverse of a
  permutation, and two arrangements by decreasing size show the same sizes at each
  place (`SameArrangement`), so the sizes sorted separately are those of the new components.

* `IteratorIsDfs`, by `IteratorInv`. Each stack entry belongs to a node yielded, in the order
  of yielding (`Shelved`), and an arc to a node not yielded is still listed in the entry of its
  node (`Unread`). What a node can reach by nodes not yielded before it (`Reachable`) is either
  all yielded or still being yielded with nothing else since (`OverOrOpen`): the next node is
  unread in the topmost live entry, above the entry of any node from which an open
  piece goes on, hence itself part of each open piece (`DeeperReached`); and when no entry is
  live every piece is over (`NothingUnread`).

`HyperBallProofs`, from `HyperBallAssumption`: a pool has a thread, graphs have the nodes
`0 .. n - 1`, granularities are positive (the builder does not see to that; with 0 a
chunk is empty and an iteration need not end).

* `SpheresExactTheorem` and `EstimatorsExactTheorem`, in all modes and for any number of
  threads, by `BallInv`. `ClaimInv` follows the positions handed out: chunks held are
  disjoint and follow each other, and none is empty as long as the granularity is positive,
  which `Adapted` preserves because no iteration modifies more nodes than there are
  (`CountInv`). The nodes that nobody has dealt with (`Pending`) thus lose one node a step and
  are none at the barrier. `BitsInv` and `WorkInv`: a node outside `curr_modified` has what it
  had an iteration ago, so merging the modified successors is enough; predecessors of
  modified nodes have their bit set or are on the list, so that a node skipped or left
  out has nothing to learn; the other array is one iteration old at pending nodes, and
  equals the current one where nothing was modified, so copying the modified ones is
  enough. Balls are defined by their last step and merged by their first one
  (`BallByFirstStep`).
* `GrowthTheorem`: under `ItemPerNode` (as many items as nodes, which a run without weights
  has) and `[]Compensated` (a local iteration is systolic) HyperBall implements
  `BallGrowth`. `TotalInv`: what was handed in and what threads have added up is the sum
  over all nodes of the new estimates of those dealt with and, in a systolic iteration, of
  the old ones of the others. `hyperball_local` shows that `Compensated` is needed;
  `StandardGrowthTheorem`: without a transposed graph it always holds.

`ExactSumSweepProofs`, from `SweepAssumption`: `usize::MAX` (`Unbounded`) is a natural above
the number of nodes; inputs are graphs with nodes, with components numbered so that arcs never
lead to a higher one (`IsNumbering`, what Tarjan's algorithm returns), with the symmetric
computer used for symmetric graphs only, and with nodes as given radial vertices. The proofs
do not use how ties are broken nor which step has most points: the bounds are right after any sequence of steps.

* `BoundsTheorem`, by `SweepInv`. That distances obey the triangle inequality
  (`Triangle`), and that those of the transposed graph are those towards a node
  (`BackwardIs`), is proved from the balls of `Digraphs`. `Bracketed`: each node's bounds
  enclose its eccentricity. `ConnectionsAre`: an arc kept between two components goes
  downwards and exists whenever any does. `PivotInv` says how far the refinement through pivots
  has come: in components already bounded, `ecc_pivot_f` is above the eccentricity of the
  pivot because whatever a component reaches (`LeavesAndEnters`) is in it or below an arc
  kept, and components below were bounded before; the backward ones go upwards
  (`EntersFromAbove`). `LockInv`: the pair behind the lock is a radial node's
  eccentricity or unset, and what waits to be written came from a node told by the
  step. `RadiusInv`: a radial node whose bounds have met is accounted for by `radius_high`,
  or waits at the lock. `MissingInv`: counts of the level can only fall (`FewerMissing`), so the
  subtraction that awards points never goes below 0.
* `AnswersTheorem`: when nothing is missing, the diameter is the largest lower bound met and no
  open node can exceed it (`DiameterIsExact`), and no radial node can be below the radius
  (`RadiusIsExact`), at each of the five levels. `TypeCorrect`: the type invariant.

Lemmas. `BaseLemmas`: least elements, ranks, ranges, `%`, sums over finite sets, solutions of
recursions over the naturals, lists of successors, levels, reachability, weights sent to
sets of classes, partitions as labellings. The sums, levels and balls are recursive
functions `f[n \in Nat]` of the models (`CHOOSE` for the prover), whose equations are proved once and cited by name.

Only model-checked: the storage modules, chains of operators on sequences
(`TransformExact`, `StoredExact`). `EachExact` and `TwoGpusExact` put together what is proved
part by part of `ParBfs`, `SeqBfs`, `SymmPar` and of `Rbsc`.
The invariants that `MCReductions` states of `Race` and `Loops` under their own names are
those that `WholeNodes`, `LabelsStayApart` (`RbscProofs`), `TypeCorrect`, `ReadsInputOnly`,
`EdgesAreMerged` and `BuildsQuotient` (`CompactionProofs`) prove.
Liveness under fairness (`Termination`, `EndsWhenIdeal`, `AllEnd`, `RunEnds`, `Ends`,
`StoreEnds`) is out of the prover's reach altogether.
