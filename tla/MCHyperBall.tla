----------------------------- MODULE MCHyperBall ----------------------------
(***************************************************************************)
(* Instances of HyperBall for TLC.  The modes depend on the number of      *)
(* nodes, so most inputs have twelve or sixteen, many of them without arcs. *)
(***************************************************************************)
EXTENDS HyperBall

Path(k) == {<<u, u + 1>> : u \in 0 .. k - 1}
Own(n) == [u \in 0 .. n - 1 |-> {u}]
Input(n, A) == [graph |-> FromArcs(n, A), items |-> Own(n)]

(* Nodes 1 and 3 have the same item.                                       *)
Shared(i) == [i EXCEPT !.items[3] = {1}]

SmallInputs ==
  {Input(3, A) : A \in {{<<0, 1>>, <<1, 2>>}, {<<0, 1>>, <<1, 0>>, <<1, 2>>},
                        {<<0, 0>>, <<1, 2>>, <<2, 0>>}, {}}}
PathInputs ==
  {Input(12, Path(4)), Shared(Input(12, Path(4))), Input(16, Path(6)),
   Shared(Input(16, Path(6))),
   Input(16, Path(6) \cup {<<8, 9>>, <<9, 10>>, <<10, 8>>} \cup
             {<<7, u>> : u \in 11 .. 15})}
SomeInputs == SmallInputs \cup PathInputs

(* All weight is at node 0, which two layers of four nodes reach by 1.     *)
Layers ==
  {<<1, 0>>} \cup {<<u, 1>> : u \in 2 .. 5} \cup {<<u + 4, u>> : u \in 2 .. 5}
FarWeight ==
  {[graph |-> FromArcs(16, Layers),
    items |-> [u \in 0 .. 15 |-> IF u = 0 THEN 1 .. 16 ELSE {}]]}
=============================================================================
