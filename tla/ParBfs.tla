------------------------------- MODULE ParBfs -------------------------------
(***************************************************************************)
(* The parallel breadth-first visits of webgraph-algo: ParFair tells the   *)
(* callback of a node when it is taken from the frontier, ParLowMem when   *)
(* it is discovered.  The threads of a pool share the frontier of a level  *)
(* in chunks of nodes; who swaps the bit of a node in the atomic bit       *)
(* vector first owns it.  The visit object outlives a visit: its bits      *)
(* remain set until it is reset, also when a callback broke off.           *)
(***************************************************************************)
EXTENDS Digraphs

CONSTANTS
  Workers,              \* the threads of the pool
  Kinds,                \* of {"fair", "lowmem"}
  Graphs, RootLists,    \* the inputs explored
  Filters,              \* sets of pairs <<node, distance>> that pass
  Granularities,        \* nodes per chunk
  MayStop,              \* TRUE: the callback may return Break
  MaxVisits             \* visits of one object explored

ASSUME ParBfsAssumption ==
  /\ Kinds \subseteq {"fair", "lowmem"}
  /\ \A g \in Graphs : IsDigraph(g)
  /\ \A g \in Graphs, rs \in RootLists : rs \in Seq(DOMAIN g)
  /\ Granularities \subseteq Nat \ {0}

VARIABLES
  graph,
  levels,               \* of the visit in progress (ghost)
  told,                 \* what the callback has been told of each node
  kind, granularity, accept,
  visited,              \* nodes whose bit is set
  pc, roots,            \* of the calling thread
  curr_frontier, next_frontier,     \* pairs <<node, pred>>
  distance,
  todo,                 \* first positions of the chunks not taken yet
  work,                 \* what each worker is at
  stopped,              \* a callback has returned Break
  start, old,           \* roots, and nodes visited before (ghost)
  sizes, done, visits   \* FrontierSize and Done events (ghost), visits made

visitVars == <<accept, start, old, visits>>
mine == <<pc, roots, curr_frontier, distance>>
vars == <<kind, granularity, graph, levels, visitVars, visited, mine,
             next_frontier, todo, work, stopped, told, sizes, done>>

Nodes == DOMAIN graph
Idle == [at |-> 0, last |-> 0, succs |-> << >>, step |-> "idle"]
Answers == IF MayStop THEN BOOLEAN ELSE {FALSE}
AllIdle == \A w \in Workers : work[w] = Idle
Listed(u) == visited \cup {u}
Tells(u, p, d) == [told EXCEPT ![u] = Append(@, [pred |-> p, distance |-> d])]

Init ==
  /\ kind \in Kinds
  /\ granularity \in Granularities
  /\ graph \in Graphs
  /\ accept \in Filters
  /\ levels = Levels(graph, {}, {}, {})
  /\ visited = {} /\ start = {} /\ old = {}
  /\ pc = "idle" /\ roots = << >>
  /\ curr_frontier = << >> /\ next_frontier = << >>
  /\ distance = 0
  /\ todo = {}
  /\ work = [w \in Workers |-> Idle]
  /\ stopped = FALSE
  /\ told = [u \in Nodes |-> << >>]
  /\ sizes = << >>
  /\ done = FALSE
  /\ visits = 0

-----------------------------------------------------------------------------
(* The calling thread.                                                     *)

StartVisit ==
  /\ pc = "idle"
  /\ visits < MaxVisits
  /\ \E rs \in RootLists :
       /\ roots' = rs
       /\ start' = ToSet(rs)
       /\ levels' = Levels(graph, ToSet(rs), visited, accept)
  /\ pc' = "roots"
  /\ old' = visited
  /\ curr_frontier' = << >> /\ next_frontier' = << >>
  /\ distance' = 0
  /\ stopped' = FALSE
  /\ sizes' = << >>
  /\ done' = FALSE
  /\ visits' = visits + 1
  /\ UNCHANGED <<kind, granularity, graph, accept, visited, todo, work, told>>

Reset ==
  /\ pc = "idle"
  /\ visits > 0
  /\ visited' = {}
  /\ told' = [u \in Nodes |-> << >>]
  /\ done' = FALSE
  /\ UNCHANGED <<kind, granularity, graph, levels, visitVars, mine,
                 next_frontier, todo, work, stopped, sizes>>

TakeRoot ==
  /\ pc = "roots"
  /\ roots # << >>
  /\ LET r == Head(roots)
         skip == r \in visited \/ <<r, 0>> \notin accept
     IN  \/ /\ skip
            /\ UNCHANGED <<visited, curr_frontier, pc, told>>
         \/ \E stop \in IF kind = "lowmem" THEN Answers ELSE {FALSE} :
              /\ ~skip
              /\ visited' = visited \cup {r}
              /\ curr_frontier' = Append(curr_frontier, <<r, r>>)
              /\ told' = IF kind = "lowmem" THEN Tells(r, r, 0) ELSE told
              /\ pc' = IF stop THEN "idle" ELSE pc
         \/ \* broken off at Init, before the first root is marked
            /\ ~skip /\ kind = "lowmem" /\ curr_frontier = << >> /\ MayStop
            /\ pc' = "idle"
            /\ UNCHANGED <<visited, curr_frontier, told>>
  /\ roots' = Tail(roots)
  /\ UNCHANGED <<kind, granularity, graph, levels, visitVars, next_frontier,
                 distance, todo, work, stopped, sizes, done>>

(* All roots taken: without any the visit returns before its first event.  *)
(* A callback may also break off at Init or FrontierSize.                  *)
CloseRoots ==
  /\ pc = "roots"
  /\ roots = << >>
  /\ \E stop \in Answers :
       pc' = IF curr_frontier = << >> \/ stop THEN "idle" ELSE "level"
  /\ UNCHANGED <<kind, granularity, graph, levels, visitVars, visited, roots,
                 curr_frontier, distance, next_frontier, todo, work, stopped,
                 told, sizes, done>>

Chunks == {p \in 1 .. Len(curr_frontier) : (p - 1) % granularity = 0}

OpenLevel ==
  /\ pc = "level"
  /\ curr_frontier # << >>
  /\ sizes' = Append(sizes, Len(curr_frontier))
  /\ \E stop \in Answers :
       /\ pc' = IF stop THEN "idle" ELSE "scan"
       /\ todo' = IF stop THEN {} ELSE Chunks
  /\ UNCHANGED <<kind, granularity, graph, levels, visitVars, visited, roots,
                 curr_frontier, distance, next_frontier, work, stopped, told,
                 done>>

Finish ==
  /\ pc = "level"
  /\ curr_frontier = << >>
  /\ pc' = "idle"
  /\ done' = TRUE
  /\ UNCHANGED <<kind, granularity, graph, levels, visitVars, visited, roots,
                 curr_frontier, distance, next_frontier, todo, work, stopped,
                 told, sizes>>

(* The parallel iterator returns when every chunk taken is finished; after *)
(* a Break the chunks not taken are dropped.                               *)
LevelOver == AllIdle /\ (todo = {} \/ stopped)

CloseLevel ==
  /\ pc = "scan"
  /\ LevelOver
  /\ todo' = {}
  /\ IF stopped
     THEN pc' = "idle" /\ UNCHANGED <<distance, curr_frontier, next_frontier>>
     ELSE /\ pc' = "level"
          /\ distance' = distance + 1
          /\ curr_frontier' = next_frontier
          /\ next_frontier' = << >>
  /\ UNCHANGED <<kind, granularity, graph, levels, visitVars, visited, roots,
                 work, stopped, told, sizes, done>>

-----------------------------------------------------------------------------
(* The workers.                                                            *)

Node(w) == curr_frontier[work[w].at][1]
Pred(w) == curr_frontier[work[w].at][2]
Succ(w) == work[w].succs[1]
AtStep(w, s) == pc = "scan" /\ work[w].step = s
callers == <<kind, granularity, graph, levels, visitVars, mine, sizes, done>>

(* No chunk is begun once a worker is known to have stopped.               *)
TakeChunk(w) ==
  /\ AtStep(w, "idle")
  /\ ~stopped
  /\ \E p \in todo :
       /\ todo' = todo \ {p}
       /\ work' = [work EXCEPT ![w] =
            [at |-> p, succs |-> << >>, step |-> "node",
             last |-> IF p + granularity - 1 > Len(curr_frontier)
                      THEN Len(curr_frontier) ELSE p + granularity - 1]]
  /\ UNCHANGED <<callers, visited, next_frontier, stopped, told>>

(* The callback's answer to an event of worker w, that else is at r next.  *)
Answer(w, r) ==
  \E stop \in Answers :
    /\ stopped' = (stopped \/ stop)
    /\ work' = [work EXCEPT ![w] = IF stop THEN Idle ELSE r]

VisitNode(w) ==
  /\ AtStep(w, "node")
  /\ LET r == [work[w] EXCEPT !.succs = Successors(graph, Node(w)),
                              !.step = "arcs"]
     IN  IF kind = "fair"
         THEN /\ told' = Tells(Node(w), Pred(w), distance)
              /\ Answer(w, r)
         ELSE /\ work' = [work EXCEPT ![w] = r]
              /\ UNCHANGED <<told, stopped>>
  /\ UNCHANGED <<callers, visited, next_frontier, todo>>

(* Filter, then swap the bit: the old value decides who discovers.         *)
Passes(s) == <<s, distance + 1>> \in accept
FoundStale(s) ==                                                   \* mutant
  IF s \in old \cup {curr_frontier[i][1] : i \in DOMAIN curr_frontier}
  THEN "known" ELSE "unknown"
Found(s) == IF s \in visited THEN "known" ELSE "unknown"

SwapBit(w) ==
  /\ AtStep(w, "arcs")
  /\ work[w].succs # << >>
  /\ IF Passes(Succ(w))
     THEN /\ visited' = Listed(Succ(w))
          /\ work' = [work EXCEPT ![w].step = Found(Succ(w))]
     ELSE /\ work' = [work EXCEPT ![w].succs = Tail(@)]
          /\ UNCHANGED visited
  /\ UNCHANGED <<callers, next_frontier, todo, stopped, told>>

RetriesKnown(w) ==                                                 \* mutant
  [work[w] EXCEPT !.succs = IF work[w].step = "known" THEN @ ELSE Tail(@),
                  !.step = "arcs"]
Advanced(w) == [work[w] EXCEPT !.succs = Tail(@), !.step = "arcs"]

TellKnown(w) ==
  /\ AtStep(w, "known")
  /\ Answer(w, Advanced(w))
  /\ UNCHANGED <<callers, visited, next_frontier, todo, told>>

(* ParLowMem tells before it pushes, and does not push after a Break.      *)
Discover(w) ==
  /\ AtStep(w, "unknown")
  /\ IF kind = "lowmem"
     THEN /\ told' = Tells(Succ(w), Node(w), distance + 1)
          /\ Answer(w, Advanced(w))
     ELSE /\ work' = [work EXCEPT ![w] = Advanced(w)]
          /\ UNCHANGED <<told, stopped>>
  /\ next_frontier' = IF work'[w] = Idle THEN next_frontier
                      ELSE Append(next_frontier, <<Succ(w), Node(w)>>)
  /\ UNCHANGED <<callers, visited, todo>>

NextNode(w) ==
  /\ AtStep(w, "arcs")
  /\ work[w].succs = << >>
  /\ work' = [work EXCEPT ![w] =
       IF work[w].at = work[w].last THEN Idle
       ELSE [work[w] EXCEPT !.at = work[w].at + 1, !.step = "node"]]
  /\ UNCHANGED <<callers, visited, next_frontier, todo, stopped, told>>

Caller ==
  \/ StartVisit \/ Reset \/ TakeRoot \/ CloseRoots
  \/ OpenLevel \/ Finish \/ CloseLevel
Worker(w) ==
  \/ TakeChunk(w) \/ VisitNode(w) \/ SwapBit(w) \/ TellKnown(w)
  \/ Discover(w) \/ NextNode(w)
Next == Caller \/ \E w \in Workers : Worker(w)

Spec == Init /\ [][Next]_vars

(* A visit that has begun goes on; nobody is forced to begin one.          *)
FairSpec ==
  /\ Spec
  /\ WF_vars(TakeRoot \/ CloseRoots \/ OpenLevel \/ Finish \/ CloseLevel)
  /\ \A w \in Workers : WF_vars(Worker(w))

-----------------------------------------------------------------------------
TypeOK ==
  /\ kind \in Kinds /\ graph \in Graphs /\ granularity \in Granularities
  /\ accept \in Filters
  /\ visited \subseteq Nodes /\ old \subseteq Nodes /\ start \subseteq Nodes
  /\ pc \in {"idle", "roots", "level", "scan"}
  /\ ToSet(roots) \subseteq Nodes
  /\ ToSet(curr_frontier) \cup ToSet(next_frontier) \subseteq Nodes \X Nodes
  /\ distance \in 0 .. Cardinality(Nodes)
  /\ todo \subseteq DOMAIN curr_frontier
  /\ \A w \in Workers :
       /\ work[w].at \in 0 .. work[w].last
       /\ ToSet(work[w].succs) \subseteq Nodes
  /\ stopped \in BOOLEAN /\ done \in BOOLEAN
  /\ visits \in 0 .. MaxVisits

(* "There will be exactly one set for each node": the callbacks of the     *)
(* examples write to node's cell without synchronisation.  Between two     *)
(* resets no node is told twice, whoever discovers it.                     *)
ToldOnce == \A u \in Nodes : Len(told[u]) <= 1

(* Done is said only when all that can be reached has been told, and each  *)
(* FrontierSize event was the number of nodes at its distance.             *)
DoneIsComplete ==
  done =>
    /\ \A d \in DOMAIN levels : \A u \in levels[d] : told[u] # << >>
    /\ \A d \in DOMAIN levels :
         IF d < Len(sizes) THEN sizes[d + 1] = Cardinality(levels[d])
         ELSE levels[d] = {}

(* A node the filter refuses at its distance is "not even marked as        *)
(* known": only nodes of the levels get their bit set.                     *)
MarksOnlyAccepted ==
  visited \subseteq old \cup UNION {levels[d] : d \in DOMAIN levels}

(* The visit implements LevelVisit: exact distances, predecessors one      *)
(* level up, levels told in order, across threads.                         *)
Visit == INSTANCE LevelVisit WITH
           told <- [u \in Nodes |-> IF told[u] = << >>
                                    THEN [pred |-> -1, distance |-> -1]
                                    ELSE told[u][1]]
LevelVisitSpec == Visit!Spec

(* Every visit returns, interrupted or not.                                *)
VisitEnds == pc # "idle" ~> pc = "idle"
=============================================================================
