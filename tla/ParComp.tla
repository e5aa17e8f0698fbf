------------------------------- MODULE ParComp -------------------------------
(***************************************************************************)
(* The compressor of a graph and of its parts: BvComp::push, which chooses *)
(* a reference list for each node (bvgraph/comp/bvcomp.rs), the jobs of    *)
(* the threads that compress parts, and the queue from which their results *)
(* are taken in order (bvgraph/comp/impls.rs).                             *)
(***************************************************************************)
EXTENDS CompFlags, FiniteSetsExt

RingSize(flags) == flags.compression_window + 1
NewBvComp(flags, start_node) ==
  [backrefs |-> EmptyRing(RingSize(flags), << >>),
   ref_counts |-> EmptyRing(RingSize(flags), 0),
   start_node |-> start_node, curr_node |-> start_node, arcs |-> 0]

(* The distances of the lists that may be referred to: not before the      *)
(* first node of the part, not at the end of a long chain, not empty.      *)
OneTooDeep(count, flags) == count > flags.max_ref_count    \* mutant: off by one
TooDeep(count, flags) == count >= flags.max_ref_count
Candidates(comp, backrefs, flags) ==
  {delta \in 1 .. Min({flags.compression_window, comp.curr_node - comp.start_node}) :
     /\ ~TooDeep(InRing(comp.ref_counts, comp.curr_node - delta), flags)
     /\ InRing(backrefs, comp.curr_node - delta) # << >>}

(* push: the shortest of the encodings, without reference or the nearest   *)
(* at equal length; the result is the compressor and the words written.    *)
push(comp, flags, codes, succ) ==
  LET curr == comp.curr_node
      backrefs == PutInRing(comp.backrefs, curr, succ)
      Ref(delta) == IF delta <= 0 THEN << >> ELSE InRing(backrefs, curr - delta)
      Encoded(delta) ==
        write(codes, compress(succ, Ref(delta), flags.min_interval_length),
              curr, delta, flags.min_interval_length)
      deltas == {0} \cup Candidates(comp, backrefs, flags)
      bits == [delta \in deltas |-> Bits(Encoded(delta))]
      best == CHOOSE d \in deltas : \A e \in deltas :
                bits[d] < bits[e] \/ (bits[d] = bits[e] /\ d <= e)
      ref_count == IF best = 0 THEN 0
                   ELSE InRing(comp.ref_counts, curr - best) + 1
      next == [comp EXCEPT !.backrefs = backrefs, !.curr_node = @ + 1,
                           !.arcs = @ + Len(succ)]
  IN IF flags.compression_window = 0 THEN [comp |-> next, words |-> Encoded(NoReference)]
     ELSE [comp |-> [next EXCEPT !.ref_counts = PutInRing(@, curr, ref_count)],
           words |-> Encoded(best)]

-----------------------------------------------------------------------------
(* A thread of parallel_iter: what is left of its lender, its compressor,  *)
(* what it wrote, and the difference of offsets of each node.              *)
NewWorker(lender, flags) ==
  [lender |-> lender, first_node |-> 0, last_node |-> 0, words |-> << >>,
   deltas |-> << >>, comp |-> NewBvComp(flags, 0)]
Begun(w) == w.deltas # << >>
Compressed(w, flags, codes) ==
  LET node == Head(w.lender)[1]
      comp == IF Begun(w) THEN w.comp ELSE NewBvComp(flags, node)
      pushed == push(comp, flags, codes, Head(w.lender)[2])
  IN [lender |-> Tail(w.lender), last_node |-> node,
      first_node |-> IF Begun(w) THEN w.first_node ELSE node,
      words |-> w.words \o pushed.words,
      deltas |-> Append(w.deltas, Bits(pushed.words)), comp |-> pushed.comp]

Job(job_id, w) ==
  [job_id |-> job_id, first_node |-> w.first_node, last_node |-> w.last_node,
   words |-> w.words, deltas |-> w.deltas, num_arcs |-> w.comp.arcs]

(* TaskQueue: jobs that arrived and were not yet taken, and the next one.  *)
EmptyQueue == [jobs |-> << >>, next_id |-> 1]
Arrived(queue, job) ==
  [queue EXCEPT !.jobs =
     [id \in DOMAIN @ \cup {job.job_id} |-> IF id = job.job_id THEN job ELSE @[id]]]
HasNext(queue) == queue.next_id \in DOMAIN queue.jobs
NextJob(queue) == queue.jobs[queue.next_id]
Taken(queue) ==
  [jobs |-> [id \in DOMAIN queue.jobs \ {queue.next_id} |-> queue.jobs[id]],
   next_id |-> queue.next_id + 1]

(* The merged files: the words, the differences of offsets (0 first), and  *)
(* the node that must come next.                                           *)
NothingMerged == [words |-> << >>, deltas |-> <<0>>, arcs |-> 0, next_node |-> 0]
Adjacent(out, job) == job.first_node = out.next_node
Merged(out, job) ==
  [words |-> out.words \o job.words, deltas |-> out.deltas \o job.deltas,
   arcs |-> out.arcs + job.num_arcs, next_node |-> job.last_node + 1]
=============================================================================
