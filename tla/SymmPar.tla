------------------------------- MODULE SymmPar ------------------------------
(***************************************************************************)
(* symm_par: connected components of a symmetric graph by one parallel     *)
(* breadth-first visit per node, all with the same visit object.  Workers  *)
(* read the shared counter for every node they are told of, the calling    *)
(* thread increments it when a visit that was not empty is done.           *)
(***************************************************************************)
EXTENDS ParBfs

VARIABLES component, number_of_components

symmVars == <<vars, component, number_of_components>>

Unwritten == -1

SymmInit ==
  /\ Init
  /\ component = [u \in Nodes |-> Unwritten]
  /\ number_of_components = 0

NextNodeVisit ==
  /\ visits < Cardinality(Nodes)
  /\ StartVisit
  /\ roots' = << visits >>
  /\ UNCHANGED <<component, number_of_components>>

(* Unknown: write the cell; Done: one component more.                      *)
EveryVisit == pc' = "idle" /\ pc # "idle"                          \* mutant
SaysDone == done' /\ ~done

Callback ==
  /\ component' = [u \in Nodes |-> IF Len(told'[u]) > Len(told[u])
                                   THEN number_of_components
                                   ELSE component[u]]
  /\ number_of_components' = IF SaysDone THEN number_of_components + 1
                             ELSE number_of_components

Visiting ==
  /\ \/ TakeRoot \/ CloseRoots \/ OpenLevel \/ Finish \/ CloseLevel
     \/ \E w \in Workers : Worker(w)
  /\ Callback

SymmNext == NextNodeVisit \/ Visiting

SymmSpec == SymmInit /\ [][SymmNext]_symmVars /\ WF_symmVars(SymmNext)

-----------------------------------------------------------------------------
Finished == visits = Cardinality(Nodes) /\ pc = "idle"

(* Every cell is written before assume_init, two nodes share a number      *)
(* exactly when they are connected, and the numbers are dense.             *)
ComponentsExact ==
  Finished =>
    /\ \A u, v \in Nodes :
         component[u] = component[v] <=> v \in Reached(graph, {u})
    /\ Range(component) = 0 .. number_of_components - 1

Termination == <>Finished
=============================================================================
