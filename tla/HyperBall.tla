------------------------------ MODULE HyperBall -----------------------------
(***************************************************************************)
(* HyperBall.  Every iteration merges into the estimator of a node those   *)
(* of its successors.  Standard iterations look at all nodes; systolic     *)
(* ones only at predecessors of nodes modified by the last iteration, and  *)
(* local ones find these in a list that the iteration before (pre-local)   *)
(* wrote.  Two arrays are swapped, so that a value that did not change     *)
(* must still be copied once after it changed.  Threads share the nodes in *)
(* chunks of about the same number of arcs.                                *)
(*                                                                         *)
(* An estimator is the set of items it tells apart, its estimate the size  *)
(* of the set.  One node is one step: a thread reads only the old array    *)
(* and the old bits, and writes its own node and atomic bits.              *)
(***************************************************************************)
EXTENDS Digraphs

CONSTANTS
  Workers,              \* the threads of the pool
  Inputs,               \* pairs [graph, items]: items of every node
  Granularities, UpperBounds,
  MaxRuns

ASSUME HyperBallAssumption ==
  /\ IsFiniteSet(Workers) /\ Workers # {}
  /\ \A i \in Inputs :
       /\ IsDigraph(i.graph)
       /\ i.graph \in [DOMAIN i.graph -> SUBSET DOMAIN i.graph]
       /\ i.items = [u \in DOMAIN i.graph |-> i.items[u]]
       /\ \A u \in DOMAIN i.graph : IsFiniteSet(i.items[u])
  /\ Granularities \subseteq Nat \ {0}
  /\ UpperBounds \subseteq Nat

VARIABLES
  graph, items,
  has_transpose, granularity,
  curr_state, next_state,
  last, neighborhood_function,
  spheres,              \* what a node's centralities sum up: per distance,
                        \* the growth of its estimate
  ic,                   \* the IterationContext
  task,                 \* what each thread is at
  pc, left, runs        \* the run loop; runs made

inputs == <<graph, items, has_transpose, granularity>>
results == <<last, neighborhood_function>>
vars == <<inputs, curr_state, next_state, results, spheres, ic, task, pc,
          left, runs>>

Nodes == DOMAIN graph
num_nodes == Cardinality(Nodes)
num_arcs == NumArcs(graph)
Estimate(e) == Cardinality(e)
Preds(u) == {v \in Nodes : u \in graph[v]}
AtMost(a, b) == IF a < b THEN a ELSE b
AtLeast(a, b) == IF a < b THEN b ELSE a
CeilDiv(a, b) == (a + b - 1) \div b

NoTask == [at |-> 0, end |-> 0, nf |-> 0, modified |-> 0, step |-> "out"]
Empty == [u \in Nodes |-> {}]

Context ==
  [iteration |-> 0, current_nf |-> 0, granularity |-> 0, cursor |-> 0,
   arc |-> 0, modified |-> 0, systolic |-> FALSE, local |-> FALSE,
   pre_local |-> FALSE, checklist |-> << >>, next_checklist |-> {},
   must_be_checked |-> {}, next_must_be_checked |-> {},
   curr_modified |-> {}, next_modified |-> {}]

Init ==
  /\ \E i \in Inputs : graph = i.graph /\ items = i.items
  /\ has_transpose \in BOOLEAN
  /\ granularity \in Granularities
  /\ curr_state = Empty /\ next_state = Empty
  /\ last = 0 /\ neighborhood_function = << >>
  /\ spheres = [u \in Nodes |-> << >>]
  /\ ic = Context
  /\ task = [w \in Workers |-> NoTask]
  /\ pc = "idle" /\ left = 0 /\ runs = 0

-----------------------------------------------------------------------------
(* run and init.  The lists and the bits of must_be_checked stay as they   *)
(* were; the first value is the number of nodes.                           *)

StartRun ==
  /\ pc = "idle"
  /\ runs < MaxRuns
  /\ runs' = runs + 1
  /\ \E b \in UpperBounds : left' = AtMost(b, num_nodes)
  /\ curr_state' = items /\ next_state' = Empty
  /\ last' = num_nodes /\ neighborhood_function' = << num_nodes >>
  /\ spheres' = [u \in Nodes |-> << >>]
  /\ ic' = [ic EXCEPT !.iteration = 0, !.systolic = FALSE, !.local = FALSE,
                      !.pre_local = FALSE, !.curr_modified = Nodes,
                      !.granularity = granularity, !.cursor = 0, !.arc = 0,
                      !.modified = 0]
  /\ pc' = "loop"
  /\ UNCHANGED <<inputs, task>>

(* The prologue of iterate.                                                *)
Few == ic.modified < num_nodes \div 4
VeryFew == ic.modified < (num_nodes * num_nodes) \div (num_arcs * 10)

Adapted(local) ==
  IF Cardinality(Workers) > 1 /\ ~local /\ ic.iteration > 0
  THEN AtMost(AtLeast(1, num_nodes \div Cardinality(Workers)),
              (ic.granularity * num_nodes) \div AtLeast(1, ic.modified))
  ELSE ic.granularity

StaleModified == IF ic.local THEN ToSet(ic.checklist) ELSE ic.next_modified
NewlySystolic == {}                                                \* mutant
MustBeChecked == IF ic.systolic THEN ic.must_be_checked ELSE Nodes

BeginIteration ==
  /\ pc = "loop"
  /\ left > 0
  /\ LET systolic == has_transpose /\ ic.iteration > 0 /\ Few
         local == ic.pre_local
     IN  ic' =
       [ic EXCEPT
          !.systolic = systolic,
          !.current_nf = IF systolic THEN last ELSE 0,
          !.local = local,
          !.pre_local = systolic /\ VeryFew,
          !.next_modified = @ \ StaleModified,
          !.checklist = IF local THEN Increasing(ic.next_checklist) ELSE @,
          !.next_checklist = IF local THEN {} ELSE @,
          !.next_must_be_checked = IF systolic /\ ~local THEN {} ELSE @,
          !.must_be_checked = IF systolic /\ ~local THEN MustBeChecked ELSE @,
          !.granularity = Adapted(local),
          !.cursor = 0, !.arc = 0, !.modified = 0]
  /\ task' = [w \in Workers |-> [NoTask EXCEPT !.step = "work"]]
  /\ left' = left - 1
  /\ pc' = "iterate"
  /\ UNCHANGED <<inputs, curr_state, next_state, results, spheres, runs>>

(* Its epilogue.  The values pushed never decrease.                        *)
CloseIteration ==
  /\ pc = "iterate"
  /\ \A w \in Workers : task[w].step = "out"
  /\ curr_state' = next_state /\ next_state' = curr_state
  /\ ic' = [ic EXCEPT
       !.curr_modified = ic.next_modified,
       !.next_modified = ic.curr_modified,
       !.must_be_checked =
         IF ic.systolic THEN ic.next_must_be_checked ELSE @,
       !.next_must_be_checked =
         IF ic.systolic THEN ic.must_be_checked ELSE @,
       !.iteration = @ + 1]
  /\ last' = ic.current_nf
  /\ neighborhood_function' =
       Append(neighborhood_function,
              AtLeast(ic.current_nf, Last(neighborhood_function)))
  /\ pc' = IF ic.modified = 0 THEN "idle" ELSE "loop"
  /\ UNCHANGED <<inputs, spheres, task, left, runs>>

(* The upper bound, or a relative increment below the threshold.           *)
StopRun ==
  /\ pc = "loop"
  /\ left = 0 \/ ic.iteration > 4
  /\ pc' = "idle"
  /\ UNCHANGED <<inputs, curr_state, next_state, results, spheres, ic, task,
                 left, runs>>

-----------------------------------------------------------------------------
(* parallel_task.                                                          *)

arc_granularity == CeilDiv(num_arcs * ic.granularity, num_nodes)
ArcsBefore(k) == Cardinality({a \in Arcs(graph) : a[1] < k})
Limit == IF ic.local THEN Len(ic.checklist) ELSE num_nodes

(* The first node, as a chunk's end, with at least t arcs before it.       *)
ChunkEnd(t) ==
  CHOOSE k \in 0 .. num_nodes :
    ArcsBefore(k) >= t /\ \A j \in 0 .. k - 1 : ArcsBefore(j) < t

WorksOn(w) == pc = "iterate" /\ task[w].step = "work"
Given(w, a, b) == task' = [task EXCEPT ![w].at = a, ![w].end = b]
Ready(w) == WorksOn(w) /\ task[w].at = task[w].end
shared == <<inputs, curr_state, results, pc, left, runs>>

TakeListed(w) ==
  /\ Ready(w) /\ ic.local
  /\ ic.cursor < Limit
  /\ ic' = [ic EXCEPT !.cursor = @ + 1]
  /\ Given(w, ic.cursor, ic.cursor + 1)
  /\ UNCHANGED <<shared, next_state, spheres>>

SameStart(target) == ic.cursor                                     \* mutant
NextNode(target) == IF target >= num_arcs THEN num_nodes ELSE ChunkEnd(target)

TakeChunk(w) ==
  /\ Ready(w) /\ ~ic.local
  /\ ic.cursor < Limit
  /\ LET target == ic.arc + arc_granularity
         end == NextNode(target)
     IN  /\ ic' = [ic EXCEPT
              !.cursor = end,
              !.arc = IF target >= num_arcs THEN @ ELSE ArcsBefore(end)]
         /\ Given(w, ic.cursor, end)
  /\ UNCHANGED <<shared, next_state, spheres>>

node(w) ==
  IF ic.local THEN ic.checklist[task[w].at + 1] ELSE task[w].at
Checked(u) == ~ic.systolic \/ ic.local \/ u \in ic.must_be_checked
Itself(u) == {u}

(* The lists or bits of the next iteration that hear of a modified node.   *)
Heard(u) ==
  [ic EXCEPT
     !.next_checklist =
       IF ic.pre_local THEN @ \cup Itself(u) \cup Preds(u) ELSE @,
     !.next_modified = @ \cup {u},
     !.next_must_be_checked =
       IF ic.systolic /\ ~ic.pre_local THEN @ \cup Preds(u) ELSE @]

CheckNode(w) ==
  /\ WorksOn(w) /\ task[w].at < task[w].end
  /\ Checked(node(w))
  /\ LET u == node(w)
         prev == curr_state[u]
         next == prev \cup UNION {curr_state[s] :
                                    s \in graph[u] \cap ic.curr_modified}
         delta == Estimate(next) - Estimate(prev)
         modified == next # prev
     IN  /\ next_state' = [next_state EXCEPT ![u] = next]
         /\ spheres' = IF delta > 0
              THEN [spheres EXCEPT ![u] =
                      Append(@, [distance |-> ic.iteration + 1, size |-> delta])]
              ELSE spheres
         /\ ic' = IF modified THEN Heard(u) ELSE ic
         /\ task' = [task EXCEPT
              ![w].at = @ + 1,
              ![w].nf = @ + IF ic.systolic THEN delta ELSE Estimate(next),
              ![w].modified = IF modified THEN @ + 1 ELSE @]
  /\ UNCHANGED shared

(* A node that cannot have changed is copied if it did the last time.      *)
NeverCopied(u) == next_state                                       \* mutant
Copied(u) == IF u \in ic.curr_modified
             THEN [next_state EXCEPT ![u] = curr_state[u]] ELSE next_state

SkipNode(w) ==
  /\ WorksOn(w) /\ task[w].at < task[w].end
  /\ ~Checked(node(w))
  /\ next_state' = Copied(node(w))
  /\ task' = [task EXCEPT ![w].at = @ + 1]
  /\ UNCHANGED <<shared, spheres, ic>>

EndTask(w) ==
  /\ Ready(w)
  /\ ic.cursor >= Limit
  /\ ic' = [ic EXCEPT !.current_nf = @ + task[w].nf,
                      !.modified = @ + task[w].modified]
  /\ task' = [task EXCEPT ![w] = NoTask]
  /\ UNCHANGED <<shared, next_state, spheres>>

Main == BeginIteration \/ CloseIteration \/ StopRun
Worker(w) ==
  TakeListed(w) \/ TakeChunk(w) \/ CheckNode(w) \/ SkipNode(w) \/ EndTask(w)
Next == StartRun \/ Main \/ \E w \in Workers : Worker(w)

Spec == Init /\ [][Next]_vars
Fairness == WF_vars(Main) /\ \A w \in Workers : WF_vars(Worker(w))
FairSpec == Spec /\ Fairness

-----------------------------------------------------------------------------
TypeOK ==
  /\ [graph |-> graph, items |-> items] \in Inputs
  /\ ToSet(ic.checklist) \cup ic.next_checklist \subseteq Nodes
  /\ ic.must_be_checked \cup ic.next_must_be_checked \subseteq Nodes
  /\ ic.curr_modified \cup ic.next_modified \subseteq Nodes
  /\ ic.modified \in 0 .. num_nodes
  /\ \A w \in Workers : task[w].at <= task[w].end /\ task[w].end <= num_nodes
  /\ ic.systolic \/ ~ic.pre_local

(* "Systolic computations modify the last value by compensating": whatever *)
(* the mode, estimators grow as if all nodes were merged in each           *)
(* iteration, and the sums are those of all estimators.                    *)
Growth == INSTANCE BallGrowth WITH state <- curr_state
GrowthSpec == Growth!Spec

(* "Non-systolic computations add up the values of all estimators."        *)
NeighborhoodExact ==
  pc # "iterate" /\ neighborhood_function # << >> =>
    Last(neighborhood_function) = Growth!Total(curr_state)

(* Distances, harmonic and discounted centralities sum up, at each         *)
(* distance, how many items are first met there, once.                     *)
Seen(u, t) == UNION {items[v] : v \in Balls(graph, {u})[t]}
SpheresExact ==
  pc # "iterate" /\ runs > 0 =>
    \A u \in Nodes :
      /\ ToSet(spheres[u]) =
           {[distance |-> t, size |-> Cardinality(Seen(u, t) \ Seen(u, t - 1))] :
              t \in {d \in 1 .. ic.iteration : Seen(u, d) # Seen(u, d - 1)}}
      /\ IsInjective(spheres[u])

(* A run ends.                                                             *)
RunEnds == pc # "idle" ~> pc = "idle"
=============================================================================
