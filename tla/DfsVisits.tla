----------------------------- MODULE DfsVisits ------------------------------
(***************************************************************************)
(* One depth-first visit object in use: visits from several lists of       *)
(* roots, any of which the callback may break off, resets in between, and  *)
(* the iterator over all nodes (DfsOrder) of SeqNoPred.                    *)
(***************************************************************************)
EXTENDS SeqDfs

CONSTANTS Kinds, Filters, RootLists,
  MayStop,              \* TRUE: the callback may return Break
  ReuseBroken,          \* TRUE: an interrupted visit is reused as it is
  MaxVisits

ASSUME DfsVisitsAssumption ==
  /\ RootLists \subseteq Seq(Nat)
  /\ Kinds \subseteq {"nopred", "pred", "path"}
  /\ MaxVisits \in Nat

VARIABLES at, yielded   \* DfsOrder's field start; what it returned (ghost)

vars == <<dfsVars, at, yielded>>

Init ==
  /\ DfsInit(Graphs, Kinds, Filters)
  /\ at = 0 /\ yielded = << >>

Visit ==
  /\ visits < MaxVisits
  /\ broke => ReuseBroken
  /\ \E rs \in RootLists : ToSet(rs) \subseteq Nodes /\ StartVisit(rs)
  /\ UNCHANGED <<at, yielded>>
Step ==
  /\ DfsStep
  /\ broke' => MayStop
  /\ UNCHANGED <<at, yielded>>
Restore == Reset /\ visits > 0 /\ UNCHANGED <<at, yielded>>
Inspect == TakeStack /\ UNCHANGED <<at, yielded>>

-----------------------------------------------------------------------------
(* DfsOrder                                                                *)

ordering == <<inputs, roots, root, curr, on_stack, event, broke, path, white>>

StartOrder ==
  /\ pc = "idle" /\ kind = "nopred"
  /\ visits < MaxVisits
  /\ stack' = << >> /\ known' = {}                      \* reset
  /\ at' = 0 /\ yielded' = << >>
  /\ pc' = "order"
  /\ visits' = visits + 1
  /\ event' = NoEvent /\ broke' = FALSE
  /\ UNCHANGED <<inputs, roots, root, curr, on_stack, path, white>>

Yield(u, below) ==
  /\ known' = known \cup {u}
  /\ stack' = Append(below, [succs |-> Successors(graph, u), parent |-> -1])
  /\ yielded' = Append(yielded, u)

(* Deeper: the entries on top that lead to no unknown node are popped.     *)
Unmet(e) == {k \in DOMAIN e.succs : e.succs[k] \notin known}
Live == {i \in DOMAIN stack : Unmet(stack[i]) # {}}
BottomLive == CHOOSE i \in Live : \A j \in Live : i <= j           \* mutant
TopLive == CHOOSE i \in Live : \A j \in Live : j <= i
NextUnmet == LET U == Unmet(stack[TopLive])
             IN  CHOOSE k \in U : \A j \in U : k <= j
After(k, e) == [e EXCEPT !.succs = SubSeq(@, k + 1, Len(@))]

OrderDeeper ==
  /\ pc = "order"
  /\ Live # {}
  /\ Yield(stack[TopLive].succs[NextUnmet],
           Append(SubSeq(stack, 1, TopLive - 1), After(NextUnmet, stack[TopLive])))
  /\ UNCHANGED <<ordering, pc, at, visits>>

Unknown == {u \in Nodes : u >= at /\ u \notin known}

OrderRestart ==
  /\ pc = "order"
  /\ Live = {} /\ Unknown # {}
  /\ LET u == CHOOSE v \in Unknown : \A x \in Unknown : v <= x
     IN  Yield(u, << >>) /\ at' = u + 1
  /\ UNCHANGED <<ordering, pc, visits>>

OrderNone ==
  /\ pc = "order"
  /\ Live = {} /\ Unknown = {}
  /\ stack' = << >>
  /\ at' = Cardinality(Nodes)
  /\ pc' = "idle"
  /\ UNCHANGED <<ordering, known, yielded, visits>>

Next ==
  \/ Visit \/ Step \/ Restore \/ Inspect
  \/ StartOrder \/ OrderDeeper \/ OrderRestart \/ OrderNone

Spec == Init /\ [][Next]_vars
FairSpec ==
  Spec /\ WF_vars(Step) /\ WF_vars(OrderDeeper \/ OrderRestart \/ OrderNone)

-----------------------------------------------------------------------------
TypeOK ==
  /\ graph \in Graphs /\ kind \in Kinds /\ accept \in Filters
  /\ pc \in {"idle", "roots", "previsit", "recurse", "order"}
  /\ ToSet(roots) \subseteq Nodes
  /\ {root, curr} \subseteq Nodes \cup {-1}
  /\ \A i \in DOMAIN stack :
       /\ ToSet(stack[i].succs) \subseteq Nodes
       /\ stack[i].parent \in Nodes \cup {-1}
  /\ known \subseteq Nodes /\ on_stack \subseteq known
  /\ broke \in BOOLEAN
  /\ at \in 0 .. Cardinality(Nodes)
  /\ visits \in 0 .. MaxVisits

(* Current node, parents on the stack and on-stack bits all describe one   *)
(* visit path, which is a path of the graph: none of them stores it.       *)
StackIsPath ==
  pc = "recurse" =>
    /\ Len(path) = Len(stack)
    /\ \A i \in DOMAIN stack :
         stack[i].parent = IF i = 1 THEN path[1] ELSE path[i - 1]
    /\ \A i \in 2 .. Len(path) : path[i] \in graph[path[i - 1]]
    /\ path # << >> => curr = Last(path)
    /\ kind = "path" => on_stack = ToSet(path)

(* "The nodes still on the visit path can be retrieved using stack": after *)
(* an interruption it gives the path but for its last node, backwards.     *)
StackAfterBreak ==
  broke /\ path # << >> => StackNodes = Reverse(Front(path))

(* The depth of an event is "the length of the visit path from the root to *)
(* node".                                                                  *)
DepthIsPathLength ==
  ~broke =>
    /\ event.type = "Previsit" => event.depth = Len(path) - 1
    /\ event.type = "Postvisit" => event.depth = Len(path)

(* All that describes the visit path describes the same one, during a      *)
(* visit, after an interruption, and to the callback (seq.rs:358-421).     *)
PathIsStacked == StackIsPath /\ StackAfterBreak /\ DepthIsPathLength

(* Between a node's previsit and its postvisit exactly the nodes it could  *)
(* reach by nodes then unknown are met (seq.rs:396-421), the white-path    *)
(* theorem on which topological sort and Kosaraju's algorithm stand.       *)
(* Without a filter.                                                       *)
Inside(S) == [u \in Nodes |-> IF u \in S THEN graph[u] \cap S ELSE {}]
MetWhite ==
  event'.type = "Postvisit" /\ event' # event
  /\ accept = Nodes \X (0 .. Cardinality(Nodes)) =>
    LET u == event'.node
    IN  Nodes \ known = white[u] \ Reached(Inside(white[u]), {u})
WhitePaths == [][MetWhite]_vars

(* DfsOrder is an "iterator on all nodes of the graph in a DFS order":     *)
(* each node once, all at the end, and each node's unvisited descendants   *)
(* before anything else.                                                   *)
OrderIsDfs ==
  /\ IsInjective(yielded)
  /\ at = Cardinality(Nodes) /\ pc = "idle" => ToSet(yielded) = Nodes
  /\ \A i, j \in DOMAIN yielded :
       i < j => LET rest == Nodes \ {yielded[k] : k \in 1 .. i - 1}
                    below == Reached(Inside(rest), {yielded[i]})
                IN  \A k \in i .. j :
                      yielded[j] \in below => yielded[k] \in below

(* Every visit returns, and a loop over all nodes ends.                    *)
VisitEnds == pc # "idle" ~> pc = "idle"
=============================================================================
