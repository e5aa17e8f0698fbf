------------------------------- MODULE SeqDfs -------------------------------
(***************************************************************************)
(* The sequential depth-first visits of webgraph-algo: SeqNoPred, SeqPred  *)
(* (two states per node) and SeqPath (three states: also whether a node is *)
(* on the visit path).  A stack entry is the rest of a node's successors   *)
(* and the parent of that node; the node itself is in curr or is the       *)
(* parent of the entry above.  Every step that calls the callback leaves   *)
(* its argument in event and its answer in broke, so that an algorithm is  *)
(* a visit conjoined with what its callback does.                          *)
(***************************************************************************)
EXTENDS Digraphs

CONSTANT Graphs

ASSUME SeqDfsAssumption == \A g \in Graphs : IsDigraph(g)

VARIABLES
  graph, kind,          \* kind: "nopred", "pred" or "path"
  accept,               \* the pairs <<node, depth>> that pass the filter
  pc, roots, root, curr,
  stack,                \* entries [succs, parent]
  known, on_stack,      \* the node states
  event, broke,         \* the last event, and whether it broke the visit off
  path, white, visits   \* ghosts: the visit path, the nodes not known when
                        \* a node was previsited, visits made

inputs == <<graph, kind, accept>>
dfsVars == <<inputs, pc, roots, root, curr, stack, known, on_stack, event,
             broke, path, white, visits>>

Nodes == DOMAIN graph
num_nodes == Cardinality(Nodes)
AllNodes == [i \in 1 .. num_nodes |-> i - 1]
NoFilter == Nodes \X (0 .. num_nodes)
NoEvent == [type |-> "none"]
Event(t, u, p, d) ==
  [type |-> t, node |-> u, pred |-> p, root |-> root, depth |-> d]

DfsInit(graphs, kinds, filters) ==
  /\ graph \in graphs /\ kind \in kinds /\ accept \in filters
  /\ pc = "idle" /\ roots = << >>
  /\ root = -1 /\ curr = -1
  /\ stack = << >>
  /\ known = {} /\ on_stack = {}
  /\ event = NoEvent /\ broke = FALSE
  /\ path = << >>
  /\ white = [u \in Nodes |-> {}]
  /\ visits = 0

Accepts(u, d) == <<u, d>> \in accept

-----------------------------------------------------------------------------
(* visit_filtered_with, up to the loop 'recurse.  The stack is not cleared *)
(* at the start.                                                           *)

StartVisit(rs) ==
  /\ pc = "idle"
  /\ pc' = "roots"
  /\ roots' = rs
  /\ event' = NoEvent /\ broke' = FALSE
  /\ path' = << >>
  /\ visits' = visits + 1
  /\ UNCHANGED <<inputs, root, curr, stack, known, on_stack, white>>

SkipRoot ==
  /\ pc = "roots"
  /\ roots # << >>
  /\ Head(roots) \in known \/ ~Accepts(Head(roots), 0)
  /\ roots' = Tail(roots)
  /\ event' = NoEvent
  /\ UNCHANGED <<inputs, pc, root, curr, stack, known, on_stack, broke, path,
                 white, visits>>

(* After a Break the visit returns at once, with its stack as it is.       *)
Goes(next) == pc' = IF broke' THEN "idle" ELSE next

InitRoot ==
  /\ pc = "roots"
  /\ roots # << >>
  /\ Head(roots) \notin known /\ Accepts(Head(roots), 0)
  /\ root' = Head(roots)
  /\ roots' = Tail(roots)
  /\ event' = [type |-> "Init", root |-> Head(roots)]
  /\ broke' \in BOOLEAN
  /\ Goes("previsit")
  /\ UNCHANGED <<inputs, curr, stack, known, on_stack, path, white, visits>>

(* What marks a node known, tells it and enters it, unless broken off.     *)
NotMarked(u) == known                                              \* mutant
Marked(u) == known \cup {u}

Enter(u, p, d, below) ==
  /\ known' = Marked(u)
  /\ event' = Event("Previsit", u, p, d)
  /\ broke' \in BOOLEAN
  /\ white' = [white EXCEPT ![u] = Nodes \ known]
  /\ Goes("recurse")
  /\ IF broke' THEN /\ stack' = below
                    /\ UNCHANGED <<on_stack, curr, path>>
     ELSE /\ stack' =
               Append(below, [succs |-> Successors(graph, u), parent |-> p])
          /\ on_stack' = IF kind = "path" THEN on_stack \cup {u} ELSE on_stack
          /\ curr' = u
          /\ path' = Append(path, u)

PrevisitRoot ==
  /\ pc = "previsit"
  /\ Enter(root, root, 0, stack)
  /\ UNCHANGED <<inputs, roots, root, visits>>

EndRoots ==
  /\ pc = "roots"
  /\ roots = << >>
  /\ pc' = "idle"
  /\ event' = [type |-> "end"]
  /\ UNCHANGED <<inputs, roots, root, curr, stack, known, on_stack, broke,
                 path, white, visits>>

-----------------------------------------------------------------------------
(* One turn of 'recurse, or of the loop over the successors in it.         *)

Depth == Len(stack)
Top == stack[Depth]
Below == SubSeq(stack, 1, Depth - 1)
AtArc == pc = "recurse" /\ stack # << >> /\ Top.succs # << >>
Succ == Head(Top.succs)
KeptArc == stack                                                   \* mutant
LosesArcs == Append(Below, [Top EXCEPT !.succs = << >>])           \* mutant
Consumed == Append(Below, [Top EXCEPT !.succs = Tail(@)])

Revisit ==
  /\ AtArc
  /\ Succ \in known
  /\ event' = [type |-> "Revisit", node |-> Succ, pred |-> curr, root |-> root,
               depth |-> Depth, on_stack |-> Succ \in on_stack]
  /\ broke' \in BOOLEAN
  /\ Goes("recurse")
  /\ stack' = Consumed
  /\ UNCHANGED <<inputs, roots, root, curr, known, on_stack, path, white,
                 visits>>

Ignore ==
  /\ AtArc
  /\ Succ \notin known /\ ~Accepts(Succ, Depth)
  /\ stack' = Consumed
  /\ event' = NoEvent
  /\ UNCHANGED <<inputs, pc, roots, root, curr, known, on_stack, broke, path,
                 white, visits>>

Previsit ==
  /\ AtArc
  /\ Succ \notin known /\ Accepts(Succ, Depth)
  /\ Enter(Succ, curr, Depth, Consumed)
  /\ UNCHANGED <<inputs, roots, root, visits>>

(* Retreat from the current node; SeqNoPred has no event for it.           *)
ToRoot(e) == root                                                  \* mutant
Retreats(e) == e.parent

Postvisit ==
  /\ pc = "recurse"
  /\ stack # << >> /\ Top.succs = << >>
  /\ IF kind = "nopred"
     THEN event' = NoEvent /\ broke' = FALSE
     ELSE /\ event' = Event("Postvisit", curr, Top.parent, Depth - 1)
          /\ broke' \in BOOLEAN
  /\ Goes("recurse")
  /\ IF broke' THEN UNCHANGED <<on_stack, curr, stack, path>>
     ELSE /\ on_stack' = on_stack \ {curr}
          /\ curr' = Retreats(Top)
          /\ stack' = Below
          /\ path' = IF path = << >> THEN path ELSE Front(path)
  /\ UNCHANGED <<inputs, roots, root, known, white, visits>>

DoneRoot ==
  /\ pc = "recurse"
  /\ stack = << >>
  /\ event' = [type |-> "Done", root |-> root]
  /\ broke' \in BOOLEAN
  /\ Goes("roots")
  /\ UNCHANGED <<inputs, roots, root, curr, stack, known, on_stack, path,
                 white, visits>>

DfsStep ==
  \/ SkipRoot \/ InitRoot \/ PrevisitRoot \/ EndRoots \/ Revisit \/ Ignore
  \/ Previsit \/ Postvisit \/ DoneRoot

Reset ==
  /\ pc = "idle"
  /\ stack' = << >>
  /\ known' = {} /\ on_stack' = {}
  /\ event' = NoEvent /\ broke' = FALSE
  /\ path' = << >>
  /\ UNCHANGED <<inputs, pc, roots, root, curr, white, visits>>

(* What stack() returns after an interruption, from the last parent up;    *)
(* taking it pops all entries but the first.                               *)
StackNodes == [i \in 1 .. Depth - 1 |-> stack[Depth + 1 - i].parent]

TakeStack ==
  /\ pc = "idle"
  /\ Depth > 1
  /\ stack' = << stack[1] >>
  /\ path' = << >>
  /\ event' = NoEvent
  /\ UNCHANGED <<inputs, pc, roots, root, curr, known, on_stack, broke, white,
                 visits>>
=============================================================================
