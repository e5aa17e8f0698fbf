------------------------------- MODULE SeqBfs -------------------------------
(***************************************************************************)
(* The sequential breadth-first visit of webgraph-algo.  Nodes are told    *)
(* when they are discovered; the queue holds no distances, a separator     *)
(* stands between two levels.  The visit object also gives an iterator     *)
(* over all nodes (BfsOrder), which borrows its queue and its bits and may *)
(* be dropped before its end.                                              *)
(***************************************************************************)
EXTENDS Digraphs

CONSTANTS
  Graphs, RootLists, Filters,   \* as in ParBfs
  MayStop,                      \* TRUE: the callback may return Break
  MaxVisits                     \* visits and iterations explored

VARIABLES
  graph, accept,
  visited, queue,               \* of the visit object
  pc, roots,
  current, succs,               \* the node popped, successors left
  distance,
  at,                           \* BfsOrder's field start
  yielded,                      \* what BfsOrder has returned (ghost)
  levels, told, old, sizes, done, visits        \* ghosts, as in ParBfs

ghosts == <<levels, old, visits>>
inputs == <<graph, accept>>
vars == <<inputs, visited, queue, pc, roots, current, succs, distance, at,
          yielded, ghosts, told, sizes, done>>

Nodes == DOMAIN graph
None == -1                                  \* the separator
Answers == IF MayStop THEN BOOLEAN ELSE {FALSE}
Unless(stop, next) == IF stop THEN "idle" ELSE next
Tells(u, p, d) == [told EXCEPT ![u] = Append(@, [pred |-> p, distance |-> d])]

Init ==
  /\ graph \in Graphs
  /\ accept \in Filters
  /\ visited = {}
  /\ queue = << >>
  /\ pc = "idle" /\ roots = << >>
  /\ current = None /\ succs = << >>
  /\ distance = 0
  /\ at = 0
  /\ yielded = << >>
  /\ levels = Levels(graph, {}, {}, {})
  /\ told = [u \in Nodes |-> << >>]
  /\ old = {} /\ sizes = << >> /\ done = FALSE /\ visits = 0

-----------------------------------------------------------------------------
(* visit_filtered_with                                                     *)

StartVisit ==
  /\ pc = "idle"
  /\ visits < MaxVisits
  /\ \E rs \in RootLists :
       /\ ToSet(rs) \subseteq Nodes
       /\ roots' = rs
       /\ levels' = Levels(graph, ToSet(rs), visited, accept)
  /\ queue' = << >>
  /\ pc' = "roots"
  /\ old' = visited
  /\ sizes' = << >> /\ done' = FALSE
  /\ visits' = visits + 1
  /\ UNCHANGED <<inputs, visited, current, succs, distance, at, yielded, told>>

TakeRoot ==
  /\ pc = "roots"
  /\ roots # << >>
  /\ LET r == Head(roots)
         skip == r \in visited \/ <<r, 0>> \notin accept
     IN  \/ /\ skip
            /\ UNCHANGED <<visited, queue, pc, told>>
         \/ \E stop \in Answers :
              /\ ~skip
              /\ visited' = visited \cup {r}
              /\ queue' = Append(queue, r)
              /\ told' = Tells(r, r, 0)
              /\ pc' = Unless(stop, pc)
         \/ \* broken off at Init, before the first root is marked
            /\ ~skip /\ queue = << >> /\ MayStop
            /\ pc' = "idle"
            /\ UNCHANGED <<visited, queue, told>>
  /\ roots' = Tail(roots)
  /\ UNCHANGED <<inputs, current, succs, distance, at, yielded, ghosts, sizes,
                 done>>

(* FrontierSize of distance 0, then the first separator.                   *)
CloseRoots ==
  /\ pc = "roots"
  /\ roots = << >>
  /\ IF queue = << >>
     THEN pc' = "idle" /\ UNCHANGED <<queue, sizes, distance>>
     ELSE \E stop \in Answers :
            /\ sizes' = << Len(queue) >>
            /\ pc' = Unless(stop, "pop")
            /\ queue' = IF stop THEN queue ELSE Append(queue, None)
            /\ distance' = 1
  /\ UNCHANGED <<inputs, visited, roots, current, succs, at, yielded, ghosts,
                 told, done>>

Popped(q) == Tail(q)

PopNode ==
  /\ pc = "pop"
  /\ queue # << >> /\ Head(queue) # None
  /\ current' = Head(queue)
  /\ succs' = Successors(graph, Head(queue))
  /\ queue' = Popped(queue)
  /\ pc' = "arcs"
  /\ UNCHANGED <<inputs, visited, roots, distance, at, yielded, ghosts, told,
                 sizes, done>>

(* The end of a level: with nodes behind it, one more separator.           *)
NotSeparated(q) == q                                               \* mutant
Separated(q) == Append(q, None)

PopSeparator ==
  /\ pc = "pop"
  /\ queue # << >> /\ Head(queue) = None
  /\ LET rest == Tail(queue)
     IN  IF rest = << >>
         THEN queue' = rest /\ UNCHANGED <<pc, sizes, distance>>
         ELSE \E stop \in Answers :
                /\ sizes' = Append(sizes, Len(rest))
                /\ pc' = Unless(stop, pc)
                /\ distance' = IF stop THEN distance ELSE distance + 1
                /\ queue' = IF stop THEN rest ELSE Separated(rest)
  /\ UNCHANGED <<inputs, visited, roots, current, succs, at, yielded, ghosts,
                 told, done>>

(* One successor: the filter is asked only of nodes not visited.           *)
NotMarked(s) == visited                                            \* mutant
MarkedWith(s) == visited \cup {s}

ScanSucc ==
  /\ pc = "arcs"
  /\ succs # << >>
  /\ LET s == Head(succs)
         fresh == s \notin visited
     IN  \/ /\ fresh /\ <<s, distance>> \notin accept
            /\ UNCHANGED <<visited, queue, told, pc>>
         \/ /\ fresh /\ <<s, distance>> \in accept
            /\ visited' = MarkedWith(s)
            /\ told' = Tells(s, current, distance)
            /\ \E stop \in Answers :
                 /\ pc' = Unless(stop, pc)
                 /\ queue' = IF stop THEN queue ELSE Append(queue, s)
         \/ /\ ~fresh                                   \* Known
            /\ \E stop \in Answers : pc' = Unless(stop, pc)
            /\ UNCHANGED <<visited, queue, told>>
  /\ succs' = Tail(succs)
  /\ UNCHANGED <<inputs, roots, current, distance, at, yielded, ghosts, sizes,
                 done>>

EndArcs ==
  /\ pc = "arcs"
  /\ succs = << >>
  /\ pc' = "pop"
  /\ UNCHANGED <<inputs, visited, queue, roots, current, succs, distance, at,
                 yielded, ghosts, told, sizes, done>>

Finish ==
  /\ pc = "pop"
  /\ queue = << >>
  /\ pc' = "idle"
  /\ done' = TRUE
  /\ UNCHANGED <<inputs, visited, queue, roots, current, succs, distance, at,
                 yielded, ghosts, told, sizes>>

Reset ==
  /\ pc = "idle"
  /\ visits > 0
  /\ queue' = << >>
  /\ visited' = {}
  /\ told' = [u \in Nodes |-> << >>]
  /\ done' = FALSE
  /\ UNCHANGED <<inputs, pc, roots, current, succs, distance, at, yielded,
                 ghosts, sizes>>

-----------------------------------------------------------------------------
(* BfsOrder                                                                *)

StartOrder ==
  /\ pc = "idle"
  /\ visits < MaxVisits
  /\ visited' = {} /\ queue' = << >>                    \* reset
  /\ at' = 0
  /\ yielded' = << >>
  /\ pc' = "order"
  /\ visits' = visits + 1
  /\ told' = [u \in Nodes |-> << >>]
  /\ done' = FALSE
  /\ UNCHANGED <<inputs, roots, current, succs, distance, levels, old, sizes>>

(* The first node from `at' on that is not visited; n when there is none.  *)
FirstFrom(k) ==
  LET free == {u \in Nodes : u >= k /\ u \notin visited}
  IN  IF free = {} THEN Cardinality(Nodes)
      ELSE CHOOSE u \in free : \A v \in free : u <= v

(* Bits are tested before the bound: with `at' already at n, out of range. *)
Panics == queue = << >> /\ at = Cardinality(Nodes)

OrderPanic ==
  /\ pc = "order"
  /\ Panics
  /\ pc' = "panicked"
  /\ UNCHANGED <<inputs, visited, queue, roots, current, succs, distance, at,
                 yielded, ghosts, told, sizes, done>>

OrderNone ==
  /\ pc = "order"
  /\ ~Panics
  /\ queue = << >>
  /\ FirstFrom(at) = Cardinality(Nodes)
  /\ at' = Cardinality(Nodes)
  /\ pc' = "idle"                           \* a for loop does not call again
  /\ UNCHANGED <<inputs, visited, queue, roots, current, succs, distance,
                 yielded, ghosts, told, sizes, done>>

EnqueuedAt(u, q, seen) == q \o Increasing(graph[u] \ seen)

OrderNext ==
  /\ pc = "order"
  /\ ~Panics
  /\ LET restart == queue = << >>
         u == IF restart THEN FirstFrom(at) ELSE Head(queue)
         seen == IF restart THEN visited \cup {u} ELSE visited
     IN  /\ u \in Nodes
         /\ at' = IF restart THEN u ELSE at
         /\ queue' = EnqueuedAt(u, IF restart THEN queue ELSE Tail(queue), seen)
         /\ visited' = seen \cup graph[u]
         /\ yielded' = Append(yielded, u)
  /\ UNCHANGED <<inputs, pc, roots, current, succs, distance, ghosts, told,
                 sizes, done>>

(* The iterator is dropped half-way; the visit object keeps its state.     *)
DropOrder ==
  /\ pc = "order"
  /\ MayStop
  /\ pc' = "idle"
  /\ UNCHANGED <<inputs, visited, queue, roots, current, succs, distance, at,
                 yielded, ghosts, told, sizes, done>>

-----------------------------------------------------------------------------
Step ==
  \/ TakeRoot \/ CloseRoots \/ PopNode \/ PopSeparator \/ ScanSucc \/ EndArcs
  \/ Finish \/ OrderPanic \/ OrderNone \/ OrderNext
Next == StartVisit \/ Reset \/ StartOrder \/ DropOrder \/ Step

Spec == Init /\ [][Next]_vars
FairSpec == Spec /\ WF_vars(Step)

TypeOK ==
  /\ graph \in Graphs /\ accept \in Filters
  /\ visited \subseteq Nodes /\ old \subseteq Nodes
  /\ ToSet(queue) \subseteq Nodes \cup {None}
  /\ pc \in {"idle", "roots", "pop", "arcs", "order", "panicked"}
  /\ ToSet(roots) \cup ToSet(succs) \subseteq Nodes
  /\ current \in Nodes \cup {None}
  /\ distance \in 0 .. Cardinality(Nodes) + 1
  /\ at \in 0 .. Cardinality(Nodes)
  /\ ToSet(yielded) \subseteq Nodes
  /\ visits \in 0 .. MaxVisits /\ done \in BOOLEAN

(* While levels are popped exactly one separator is queued, or none when   *)
(* the last one has just gone with nothing behind it: the representation   *)
(* invariant that makes distances right without storing any.               *)
OneSeparator ==
  pc \in {"pop", "arcs"} =>
    \/ Cardinality({i \in DOMAIN queue : queue[i] = None}) = 1
    \/ pc = "pop" /\ queue = << >>

(* Between two resets no node is told twice.                               *)
ToldOnce == \A u \in Nodes : Len(told[u]) <= 1

(* Done: everything that can be reached has been told, and FrontierSize    *)
(* gave the number of nodes at each distance.                              *)
DoneIsComplete ==
  done =>
    \A d \in DOMAIN levels :
      /\ \A u \in levels[d] : told[u] # << >>
      /\ IF d < Len(sizes) THEN sizes[d + 1] = Cardinality(levels[d])
         ELSE levels[d] = {}

(* BfsOrder is an "iterator on all nodes of the graph in a BFS order": no  *)
(* node comes twice, all have come at the end, and each comes as early as  *)
(* the first node with an arc to it commands.                              *)
Discoverer(j) ==
  LET P == {i \in 1 .. j - 1 : yielded[j] \in graph[yielded[i]]}
  IN  IF P = {} THEN j ELSE CHOOSE i \in P : \A k \in P : i <= k
OrderIsBfs ==
  /\ IsInjective(yielded)
  /\ at = Cardinality(Nodes) => ToSet(yielded) = Nodes
  /\ \A j \in DOMAIN yielded : \A i \in 1 .. j : Discoverer(i) <= Discoverer(j)

(* The visit implements LevelVisit.                                        *)
Visit == INSTANCE LevelVisit WITH
           told <- [u \in Nodes |-> IF told[u] = << >>
                                    THEN [pred |-> -1, distance |-> -1]
                                    ELSE told[u][1]]
LevelVisitSpec == Visit!Spec

(* Every visit returns, and a loop over all nodes ends.                    *)
VisitEnds == pc # "idle" ~> pc = "idle"
=============================================================================
