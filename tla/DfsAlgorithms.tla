--------------------------- MODULE DfsAlgorithms ----------------------------
(***************************************************************************)
(* The other algorithms of webgraph-algo on depth-first visits: top_sort,  *)
(* is_acyclic, symm_seq (components of a symmetric graph) and kosaraju     *)
(* (top_sort, then a visit of the transpose in that order).  Arrays are    *)
(* allocated uninitialised: a cell not written holds Unwritten.  At the    *)
(* end the components are renumbered by size.                              *)
(***************************************************************************)
EXTENDS SeqDfs

CONSTANTS Algorithms, SymmetricGraphs

ASSUME AlgorithmsAssumption ==
  /\ Algorithms \subseteq {"top_sort", "is_acyclic", "symm_seq", "kosaraju"}
  /\ \A g \in SymmetricGraphs : IsDigraph(g) /\ Symmetric(g)

VARIABLES
  algorithm, input,
  stage,                        \* "order", "label", "done", "sorted"
  order, pos,                   \* top_sort and the place it writes next
  components, num_components, sizes,
  acyclic

mine == <<order, pos, components, num_components, sizes, acyclic>>
algorithmVars == <<dfsVars, algorithm, input, stage, mine>>

Unwritten == -1
KindFor(a) == CASE a \in {"top_sort", "kosaraju"} -> "pred"
                [] a = "is_acyclic" -> "path"
                [] a = "symm_seq" -> "nopred"
FirstPhase(a) == IF a = "symm_seq" THEN "label" ELSE "order"

AlgorithmInit ==
  /\ algorithm \in Algorithms
  /\ DfsInit(IF algorithm = "symm_seq" THEN SymmetricGraphs ELSE Graphs,
             {KindFor(algorithm)}, {NoFilter})
  /\ input = graph
  /\ stage = FirstPhase(algorithm)
  /\ order = [i \in 1 .. num_nodes |-> Unwritten] /\ pos = num_nodes
  /\ components = [u \in Nodes |-> IF algorithm = "symm_seq" THEN Unwritten
                                   ELSE 0]
  /\ num_components = 0
  /\ sizes = << >>
  /\ acyclic = TRUE

(* Which visit of this algorithm comes next: kosaraju has two.             *)
StartAlgorithm ==
  /\ visits = IF algorithm = "kosaraju" /\ stage = "label" THEN 1 ELSE 0
  /\ StartVisit(IF algorithm = "kosaraju" /\ stage = "label" THEN order
                ELSE AllNodes)
  /\ UNCHANGED <<algorithm, input, stage, mine>>

-----------------------------------------------------------------------------
(* The callbacks.                                                          *)

(* top_sort: places are filled from the last one down.                     *)
OnEntry == event'.type = "Previsit"                                \* mutant
Places == event'.type = "Postvisit"

CallTopSort ==
  /\ algorithm \in {"top_sort", "kosaraju"} /\ stage = "order"
  /\ broke' = FALSE
  /\ IF Places THEN /\ pos' = pos - 1
                    /\ order' = [order EXCEPT ![pos] = event'.node]
     ELSE UNCHANGED <<pos, order>>
  /\ UNCHANGED <<components, num_components, sizes, acyclic>>

(* is_acyclic: stop at the first arc back to the visit path.               *)
FindsCycle == event'.type = "Revisit" /\ event'.on_stack

CallAcyclic ==
  /\ algorithm = "is_acyclic"
  /\ broke' = FindsCycle
  /\ acyclic' = ~broke'
  /\ UNCHANGED <<order, pos, components, num_components, sizes>>

(* symm_seq, and kosaraju on the transpose: one component per visit tree.  *)
CallLabel ==
  /\ stage = "label"
  /\ broke' = FALSE
  /\ components' = IF event'.type = "Previsit"
                   THEN [components EXCEPT ![event'.node] =
                           num_components]
                   ELSE components
  /\ num_components' = IF event'.type = "Done"
                             THEN num_components + 1
                             ELSE num_components
  /\ UNCHANGED <<order, pos, sizes, acyclic>>

VisitAlgorithm ==
  /\ DfsStep
  /\ CallTopSort \/ CallAcyclic \/ CallLabel
  /\ UNCHANGED <<algorithm, input, stage>>

VisitOver == pc = "idle" /\ visits > 0
NotTurned(g) == g                                                  \* mutant
Turned(g) == Transposed(g)

(* kosaraju: a new visit, of the transpose.                                *)
Turn ==
  /\ VisitOver /\ stage = "order" /\ algorithm = "kosaraju"
  /\ stage' = "label"
  /\ graph' = Turned(graph) /\ kind' = "nopred"
  /\ known' = {} /\ on_stack' = {} /\ stack' = << >>
  /\ event' = NoEvent
  /\ UNCHANGED <<accept, pc, roots, root, curr, broke, path, white, visits,
                 algorithm, input, mine>>

CompleteAlgorithm ==
  /\ VisitOver
  /\ \/ stage = "order" /\ algorithm # "kosaraju"
     \/ stage = "label" /\ (algorithm = "kosaraju" => visits = 2)
  /\ stage' = "done"
  /\ UNCHANGED <<dfsVars, algorithm, input, mine>>

-----------------------------------------------------------------------------
(* Sccs::sort_by_size, and its parallel twin: the sorts are unstable, so   *)
(* any order of the components by decreasing size may come out.  The sizes *)
(* returned are sorted once more.                                          *)

Components == 0 .. num_components - 1
SizeOf(c) == Cardinality({u \in Nodes : components[u] = c})
BySize(p) == \A i, j \in Components : i < j => SizeOf(p[i]) >= SizeOf(p[j])
SortPerms == {p \in [Components -> Components] : IsInjective(p) /\ BySize(p)}

Renumbering(p) == [c \in Components |-> CHOOSE i \in Components : p[i] = c]

SortBySize ==
  /\ stage = "done" /\ algorithm \in {"symm_seq", "kosaraju"}
  /\ stage' = "sorted"
  /\ \E p \in SortPerms :
       components' = [u \in Nodes |-> Renumbering(p)[components[u]]]
  /\ \E p \in SortPerms :
       sizes' = [i \in 1 .. num_components |-> SizeOf(p[i - 1])]
  /\ UNCHANGED <<dfsVars, algorithm, input, order, pos, num_components,
                 acyclic>>

AlgorithmNext ==
  \/ StartAlgorithm \/ VisitAlgorithm \/ Turn \/ CompleteAlgorithm \/ SortBySize

AlgorithmSpec == AlgorithmInit /\ [][AlgorithmNext]_algorithmVars
FairAlgorithm == AlgorithmSpec /\ WF_algorithmVars(AlgorithmNext)

-----------------------------------------------------------------------------
AlgorithmTypeOK ==
  /\ algorithm \in Algorithms
  /\ stage \in {"order", "label", "done", "sorted"}
  /\ order \in [1 .. num_nodes -> Nodes \cup {Unwritten}]
  /\ pos \in 0 .. num_nodes
  /\ components \in [Nodes -> 0 .. num_nodes \cup {Unwritten}]
  /\ num_components \in 0 .. num_nodes
  /\ acyclic \in BOOLEAN

Finished == stage \in {"done", "sorted"}

(* "SAFETY: we write in each element": when assume_init is called no cell  *)
(* is unwritten, and top_sort has placed every node once.                  *)
AssumeInitSound ==
  Finished =>
    /\ algorithm = "top_sort" => Range(order) = Nodes
    /\ algorithm = "symm_seq" => Unwritten \notin Range(components)

(* "The node of the graph in topological-sort order, if the graph is       *)
(* acyclic": arcs go forwards.                                             *)
Place(u) == CHOOSE i \in 1 .. num_nodes : order[i] = u
TopologicalOrder ==
  Finished /\ algorithm = "top_sort" /\ Acyclic(input) =>
    \A u \in Nodes : \A v \in input[u] : Place(u) < Place(v)

AcyclicExact ==
  Finished /\ algorithm = "is_acyclic" => (acyclic <=> Acyclic(input))

(* top_sort and is_acyclic return what they promise, and no cell is        *)
(* declared initialised before it was written (top_sort.rs:50).            *)
OrdersExact == AssumeInitSound /\ TopologicalOrder /\ AcyclicExact

(* One number per strongly connected component, dense; kosaraju numbers    *)
(* them so that arcs never lead back.                                      *)
ComponentsExact ==
  Finished /\ algorithm \in {"symm_seq", "kosaraju"} =>
    /\ \A u, v \in Nodes :
         components[u] = components[v] <=> SameComponent(input, u, v)
    /\ Range(components) = Components
    /\ algorithm = "kosaraju" /\ stage = "done" =>
         \A u \in Nodes : \A v \in input[u] : components[u] <= components[v]

(* "After a call to this method, the sizes will [be] decreasing in the     *)
(* component index", and the sizes returned belong to these indices.       *)
SizesDecrease ==
  stage = "sorted" =>
    /\ Len(sizes) = num_components
    /\ \A c \in Components : sizes[c + 1] = SizeOf(c)
    /\ \A i \in 1 .. Len(sizes) - 1 : sizes[i] >= sizes[i + 1]

(* symm_seq and kosaraju number the components of the graph, and the       *)
(* renumbering by size keeps them.                                         *)
SccsExact == ComponentsExact /\ SizesDecrease
=============================================================================
