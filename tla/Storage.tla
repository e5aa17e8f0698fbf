------------------------------- MODULE Storage -------------------------------
(***************************************************************************)
(* A command of webgraph from the arcs it starts with to the compressed    *)
(* graph it leaves on disk: threads sort the arcs of parts of the graph,   *)
(* their batches are merged, threads compress parts of the result, their   *)
(* bitstreams are glued in order, the properties are written, and an index *)
(* of the offsets is built (webgraph/src/transform,                        *)
(* graphs/bvgraph/comp/impls.rs, cli/src/build/ef.rs).  Threads share      *)
(* nothing but a channel: what one does alone is one step.                 *)
(***************************************************************************)
EXTENDS Transforms, ParComp

CONSTANTS Inputs,      \* what a command may be given (see Transforms)
          MaxThreads

(* With more threads than this, the last parts would begin past the end of *)
(* the graph, and split::ra would panic (traits/split.rs:164-180).         *)
ASSUME InputsSplit == \A in \in Inputs : Refused(in) \/ Splittable(in)

VARIABLES
  in,        \* the input of this command
  pc,        \* sort, compress, index, stored; refused, failed
  sorting,   \* the sorters still at work
  batches,   \* the sorted batches received so far, in order of arrival
  lender,    \* the nodes and lists to be compressed
  running,   \* the compressors still at work
  workers,   \* their state
  channel,   \* the jobs sent and not yet received
  queue,     \* TaskQueue
  out,       \* what was glued so far
  files      \* what is on disk

vars == <<in, pc, sorting, batches, lender, running, workers, channel, queue, out, files>>

Single == in.command = "single_thread"
NoFiles == [graph |-> << >>, offsets |-> << >>, ef |-> << >>, properties |-> << >>]

Init ==
  /\ in \in Inputs
  /\ pc = IF Refused(in) THEN "refused" ELSE "sort"
  /\ sorting = IF Refused(in) THEN {} ELSE DOMAIN Pushed(in)
  /\ batches = << >> /\ lender = << >> /\ running = {} /\ workers = << >>
  /\ channel = << >> /\ queue = EmptyQueue /\ out = NothingMerged
  /\ files = NoFiles

(* A sorter sorts what it is given and sends its batches.                  *)
CanSort(i) == pc = "sort" /\ i \in sorting
Sort(i) ==
  /\ CanSort(i)
  /\ sorting' = sorting \ {i}
  /\ batches' = batches \o SortedPart(in, Pushed(in)[i])
  /\ UNCHANGED <<in, pc, lender, running, workers, channel, queue, out, files>>

(* All sorters are done: their batches are merged, and the result split.   *)
CanSplit == pc = "sort" /\ sorting = {}
Split ==
  /\ CanSplit
  /\ pc' = "compress"
  /\ lender' = Transformed(in, batches)
  /\ workers' = [i \in DOMAIN Lenders(in, lender') |->
                   NewWorker(Lenders(in, lender')[i], in.flags)]
  /\ running' = DOMAIN workers'
  /\ UNCHANGED <<in, sorting, batches, channel, queue, out, files>>

(* A thread compresses a node.  single_thread uses the default codes.      *)
CanCompress(i) == i \in running /\ workers[i].lender # << >>
Compress(i) ==
  /\ CanCompress(i)
  /\ workers' = [workers EXCEPT ![i] =
       Compressed(@, in.flags, IF Single THEN DefaultCodes ELSE in.flags.codes)]
  /\ UNCHANGED <<in, pc, sorting, batches, lender, running, channel, queue, out, files>>

(* A thread is done; one that was given no nodes sends nothing.            *)
SendIfBegun(i) ==      \* mutant: a thread that was given no nodes stays
  /\ ~Single /\ i \in running /\ workers[i].lender = << >> /\ Begun(workers[i])
  /\ running' = running \ {i}
  /\ channel' = Append(channel, Job(i, workers[i]))
  /\ UNCHANGED <<in, pc, sorting, batches, lender, workers, queue, out, files>>
Send(i) ==
  /\ ~Single /\ i \in running /\ workers[i].lender = << >>
  /\ running' = running \ {i}
  /\ channel' = IF Begun(workers[i]) THEN Append(channel, Job(i, workers[i])) ELSE channel
  /\ UNCHANGED <<in, pc, sorting, batches, lender, workers, queue, out, files>>

(* The main thread takes a job from the channel, glues the next one if it  *)
(* is there, and finishes when all senders are gone.                       *)
Receive ==
  /\ pc = "compress" /\ ~HasNext(queue) /\ channel # << >>
  /\ queue' = Arrived(queue, Head(channel))
  /\ channel' = Tail(channel)
  /\ UNCHANGED <<in, pc, sorting, batches, lender, running, workers, out, files>>

Glue ==
  /\ pc = "compress" /\ HasNext(queue)
  /\ pc' = IF Adjacent(out, NextJob(queue)) THEN pc ELSE "failed"
  /\ out' = IF Adjacent(out, NextJob(queue)) THEN Merged(out, NextJob(queue)) ELSE out
  /\ queue' = Taken(queue)
  /\ UNCHANGED <<in, sorting, batches, lender, running, workers, channel, files>>

Written(words, offsets, num_nodes, arcs) ==
  [NoFiles EXCEPT !.graph = words, !.offsets = offsets,
                  !.properties = to_properties(in.flags, num_nodes, arcs)]

CanFinish ==
  pc = "compress" /\ ~Single /\ running = {} /\ channel = << >> /\ ~HasNext(queue)
Finish ==
  /\ CanFinish
  /\ pc' = IF Writable(in.flags) THEN "index" ELSE "failed"
  /\ files' = Written(out.words, out.deltas, NumNodes(in), out.arcs)
  /\ UNCHANGED <<in, sorting, batches, lender, running, workers, channel, queue, out>>

FinishSingle ==
  /\ pc = "compress" /\ Single /\ running # {} /\ workers[1].lender = << >>
  /\ pc' = IF Writable(in.flags) THEN "index" ELSE "failed"
  /\ running' = {}
  /\ files' = Written(workers[1].words,
                      IF in.build_offsets THEN <<0>> \o workers[1].deltas ELSE << >>,
                      Len(workers[1].deltas), workers[1].comp.arcs)
  /\ UNCHANGED <<in, sorting, batches, lender, workers, channel, queue, out>>

(* webgraph build ef.                                                      *)
CanIndex == pc = "index"
BuildIndex ==
  /\ CanIndex
  /\ pc' = "stored"
  /\ files' = [files EXCEPT !.ef = build_eliasfano(files)]
  /\ UNCHANGED <<in, sorting, batches, lender, running, workers, channel, queue, out>>

Next ==
  \/ Split \/ Receive \/ Glue \/ Finish \/ FinishSingle \/ BuildIndex
  \/ \E i \in 1 .. MaxThreads : Sort(i) \/ Compress(i) \/ Send(i)

(* The scheduler runs every thread that can run.  Weak fairness of the     *)
(* steps that compute much is written out, with their guards for ENABLED.  *)
Fairness ==
  /\ WF_vars(Receive) /\ WF_vars(Glue) /\ WF_vars(FinishSingle)
  /\ ([]<>~CanFinish) \/ ([]<><<Finish>>_vars)
  /\ ([]<>~CanSplit) \/ ([]<><<Split>>_vars)
  /\ ([]<>~CanIndex) \/ ([]<><<BuildIndex>>_vars)
  /\ \A i \in 1 .. MaxThreads :
       /\ WF_vars(Send(i))
       /\ ([]<>~CanSort(i)) \/ ([]<><<Sort(i)>>_vars)
       /\ ([]<>~CanCompress(i)) \/ ([]<><<Compress(i)>>_vars)

Spec == Init /\ [][Next]_vars /\ Fairness

-----------------------------------------------------------------------------
(* The graph that is compressed is the one the documentation of the        *)
(* command promises (Promised, in Transforms), whatever the order in which *)
(* the threads that sorted its arcs ended, and however the arcs fell into  *)
(* batches and the nodes into parts.                                       *)
TransformExact ==
  pc \notin {"sort", "refused"} =>
    /\ lender = Lender(Promised(in))
    /\ FlattenSeq(Lenders(in, lender)) = lender

(* A permuted graph is the graph with its nodes renamed: an arc leads      *)
(* where it led (to/bvgraph.rs:20, transform/perm.rs:17).                  *)
PermutationApplied ==
  pc \notin {"sort", "refused"} /\ in.command = "bvgraph" /\ Permuted(in) =>
    \A u, v \in 0 .. NumNodes(in) - 1 :
      Contains(in.lists[u + 1], v) => <<in.perm[u], in.perm[v]>> \in Range(ArcsOf(lender))

(* No more lines are parsed than --max-arcs says (cli/src/lib.rs:102).     *)
LimitKept ==
  pc \notin {"sort", "refused"} /\ in.command = "arcs" /\ in.max_arcs # NotGiven =>
    Len(ArcsOf(lender)) <= in.max_arcs[1]

(* A reader of the index, of the stream alone, from any node on, or of the *)
(* degrees, finds the lists, and no list needs more others than the flags  *)
(* allow.                                                                  *)
Agree(g, lists, decoded, found) ==
  /\ g.num_nodes = Len(lists) /\ g.num_arcs = Len(FlattenSeq(lists))
  /\ \A v \in 0 .. g.num_nodes - 1 :
       /\ decoded[v] = lists[v + 1]
       /\ outdegree(g, v) = Len(lists[v + 1])
       /\ found[v + 1] = <<g.offsets[v + 1], Len(lists[v + 1])>>
       /\ ReferenceDepth(g, decoded)[v] <= in.flags.max_ref_count
  /\ Iter(g) = lists
  /\ \A v \in 1 .. g.num_nodes : iter_from(g, v) = SubSeq(lists, v + 1, Len(lists))
ReadersAgree(g, lists) == Agree(g, lists, labels(g), OffsetDegIter(g).found)

(* What was glued so far, read as a graph of its own.                      *)
PrefixGraph ==
  [words |-> out.words, offsets |-> FromOffsets(out.next_node, out.deltas),
   num_nodes |-> out.next_node, num_arcs |-> out.arcs, codes |-> in.flags.codes,
   window |-> in.flags.compression_window,
   min_interval_length |-> in.flags.min_interval_length]

(* The graphs a reader gets; with codes of compile time only if they fit.  *)
Loaded == {LoadDynamic(files)} \cup {g \in {LoadStatic(files)} : StaticFits(files)}

(* What is on disk is the graph whose lists were lent to the compressors,  *)
(* for every reader: at any time in the part glued so far, and in the end  *)
(* through the properties and the index, which check ef finds right.       *)
Lent == [i \in DOMAIN lender |-> lender[i][2]]
StoredExact ==
  /\ pc # "failed"
  /\ pc = "compress" => Iter(PrefixGraph) = SubSeq(Lent, 1, out.next_node)
  /\ pc = "stored" =>
       /\ \A g \in Loaded : ReadersAgree(g, Lent)
       /\ check_ef(files)
       /\ files.offsets # << >> => build_offsets(files) = files.offsets

(* A command ends: no sorter, compressor or job is waited for forever.     *)
StoreEnds == <>(pc \in {"stored", "refused"})
=============================================================================
