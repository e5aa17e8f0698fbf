----------------------------- MODULE Partitions -----------------------------
(***************************************************************************)
(* Labellings of nodes and the partitions they stand for.                  *)
(***************************************************************************)
EXTENDS Functions

(* A labelling p gives every node its class; its blocks are a partition.   *)
Block(p, c) == {u \in DOMAIN p : p[u] = c}
Blocks(p) == {Block(p, c) : c \in Range(p)}

(* Every block of P lies inside one block of Q.                            *)
Refines(P, Q) == \A B \in P : \E C \in Q : B \subseteq C
=============================================================================
