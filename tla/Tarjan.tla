------------------------------- MODULE Tarjan -------------------------------
(***************************************************************************)
(* Tarjan's algorithm as webgraph-algo has it: a SeqPred visit of all      *)
(* nodes whose callback keeps high links in the array that ends up with    *)
(* the component numbers.  Timestamps decrease from n and are given back   *)
(* when a component is emitted; the visit is broken off as soon as all     *)
(* nodes are discovered and the rest is known to be one component.         *)
(***************************************************************************)
EXTENDS SeqDfs

VARIABLES
  phase,                    \* "start", "visit", "done"
  lead,                     \* with a sentinel at the bottom
  component_stack,
  high_link,
  index, root_low_link, number_of_components

callback == <<lead, component_stack, high_link, index, root_low_link,
              number_of_components>>
tarjanVars == <<dfsVars, phase, callback>>

TarjanInit ==
  /\ DfsInit(Graphs, {"pred"}, {NoFilter})
  /\ phase = "start"
  /\ lead = <<TRUE>>
  /\ component_stack = << >>
  /\ high_link = [u \in Nodes |-> 0]
  /\ index = num_nodes
  /\ root_low_link = 0
  /\ number_of_components = 0

StartTarjan ==
  /\ phase = "start"
  /\ StartVisit(AllNodes)
  /\ phase' = "visit"
  /\ UNCHANGED callback

-----------------------------------------------------------------------------
(* The callback, one definition per event.                                 *)

OnInit ==
  /\ event'.type = "Init"
  /\ root_low_link' = index
  /\ broke' = FALSE
  /\ UNCHANGED <<lead, component_stack, high_link, index,
                 number_of_components>>

OnPrevisit ==
  /\ event'.type = "Previsit"
  /\ high_link' = [high_link EXCEPT ![event'.node] = index]
  /\ index' = index - 1
  /\ lead' = Append(lead, TRUE)
  /\ broke' = FALSE
  /\ UNCHANGED <<component_stack, root_low_link, number_of_components>>

LastUnset == [lead EXCEPT ![Len(lead)] = FALSE]

(* The whole rest is one component.                                        *)
LinkedOnly(link) == link = root_low_link                           \* mutant
AllInOne(link) == link = root_low_link /\ index = 0

OnRevisit ==
  /\ event'.type = "Revisit"
  /\ LET p == event'.pred
         link == high_link[event'.node]
     IN  IF high_link[p] < link
         THEN /\ lead' = LastUnset
              /\ broke' = AllInOne(link)
              /\ high_link' =
                   [u \in Nodes |->
                      IF AllInOne(link)
                         /\ (u = p \/ u \in ToSet(component_stack))
                      THEN number_of_components
                      ELSE IF u = p THEN link ELSE high_link[u]]
         ELSE broke' = FALSE /\ UNCHANGED <<lead, high_link>>
  /\ UNCHANGED <<component_stack, index, root_low_link,
                 number_of_components>>

(* The length of the component stack below the nodes of u's component.     *)
Kept(u) ==
  LET above == {i \in DOMAIN component_stack :
                  high_link[u] < high_link[component_stack[i]]}
  IN  IF above = {} THEN 0 ELSE CHOOSE i \in above : \A j \in above : j <= i

PoppedLead == Front(lead)
GivenBack(comp) == index + Cardinality(comp)

OnPostvisit ==
  /\ event'.type = "Postvisit"
  /\ broke' = FALSE
  /\ LET u == event'.node
         p == event'.pred
         rest == PoppedLead
     IN  IF Last(lead)
         THEN LET k == Kept(u)
                  comp == {component_stack[i] :
                             i \in k + 1 .. Len(component_stack)} \cup {u}
              IN  /\ lead' = rest
                  /\ component_stack' = SubSeq(component_stack, 1, k)
                  /\ high_link' =
                       [v \in Nodes |-> IF v \in comp
                                        THEN number_of_components
                                        ELSE high_link[v]]
                  /\ index' = GivenBack(comp)
                  /\ number_of_components' = number_of_components + 1
         ELSE /\ component_stack' = Append(component_stack, u)
              /\ IF high_link[p] < high_link[u]
                 THEN /\ lead' = [rest EXCEPT ![Len(rest)] = FALSE]
                      /\ high_link' = [high_link EXCEPT ![p] = high_link[u]]
                 ELSE lead' = rest /\ UNCHANGED high_link
              /\ UNCHANGED <<index, number_of_components>>
  /\ UNCHANGED root_low_link

OnOther ==
  /\ event'.type \in {"none", "Done", "end"}
  /\ broke' = FALSE
  /\ UNCHANGED callback

VisitTarjan ==
  /\ phase = "visit"
  /\ DfsStep
  /\ OnInit \/ OnPrevisit \/ OnRevisit \/ OnPostvisit \/ OnOther
  /\ UNCHANGED phase

(* After an early exit the nodes on the visit path complete the last one.  *)
Rest == ToSet(StackNodes)

CompleteTarjan ==
  /\ phase = "visit" /\ pc = "idle"
  /\ phase' = "done"
  /\ IF broke
     THEN /\ high_link' = [u \in Nodes |-> IF u \in Rest
                                           THEN number_of_components
                                           ELSE high_link[u]]
          /\ number_of_components' = number_of_components + 1
     ELSE UNCHANGED <<high_link, number_of_components>>
  /\ UNCHANGED <<dfsVars, lead, component_stack, index, root_low_link>>

TarjanNext == StartTarjan \/ VisitTarjan \/ CompleteTarjan

TarjanSpec == TarjanInit /\ [][TarjanNext]_tarjanVars
FairTarjan == TarjanSpec /\ WF_tarjanVars(TarjanNext)

-----------------------------------------------------------------------------
TarjanTypeOK ==
  /\ phase \in {"start", "visit", "done"}
  /\ lead \in Seq(BOOLEAN)
  /\ ToSet(component_stack) \subseteq Nodes
  /\ high_link \in [Nodes -> 0 .. num_nodes]
  /\ index \in 0 .. num_nodes
  /\ root_low_link \in 0 .. num_nodes
  /\ number_of_components \in 0 .. num_nodes

(* lead has the sentinel and one entry per node of the visit path: the     *)
(* unwrap and the index len - 1 of the callback are safe.                  *)
LeadFollowsPath ==
  phase = "visit" /\ ~broke =>
    Len(lead) = Len(path) + 1

(* "Unvisited nodes and emitted nodes have always a lower value than       *)
(* index", which is why a revisit of an emitted node never raises a link;  *)
(* those on the path or the component stack have a higher one.             *)
Pending == ToSet(path) \cup ToSet(component_stack)
LowerThanIndex ==
  phase = "visit" /\ ~broke =>
    \A u \in Nodes : IF u \in Pending THEN high_link[u] > index
                     ELSE high_link[u] < index

(* The result: two nodes have one number exactly when they are on a common *)
(* cycle, the numbers are dense, and an arc never leads to a component     *)
(* numbered later.                                                         *)
ResultExact ==
  phase = "done" =>
    /\ \A u, v \in Nodes :
         high_link[u] = high_link[v] <=> SameComponent(graph, u, v)
    /\ Range(high_link) = 0 .. number_of_components - 1
    /\ \A u \in Nodes : \A v \in graph[u] : high_link[v] <= high_link[u]

(* Timestamps, flags and numbers of components are right at any time: what *)
(* callback and early exit rely on, and what they come to.                 *)
TarjanExact == LeadFollowsPath /\ LowerThanIndex /\ ResultExact

TarjanEnds == <>(phase = "done")
=============================================================================
