---------------------------- MODULE GraphBuilders ----------------------------
(***************************************************************************)
(* Graphs in memory, and the views that are never stored                   *)
(* (webgraph/src/graphs): vectors of vectors, B-trees, compressed rows,    *)
(* lists of arcs; permuted graphs, unions, graphs without loops; and how   *)
(* an iterator over a graph is split among threads (traits/split.rs).      *)
(* A graph is the sequence of the lists of its nodes 0, 1, ...; an         *)
(* iterator (a lender) is a sequence of pairs of a node and its list.      *)
(***************************************************************************)
EXTENDS Integers, Sequences, SequencesExt, FiniteSetsExt, SortPairs

Lender(lists) == [i \in DOMAIN lists |-> <<i - 1, lists[i]>>]
ArcsOf(lender) ==
  FlattenSeq([i \in DOMAIN lender |->
    [j \in DOMAIN lender[i][2] |-> <<lender[i][1], lender[i][2][j]>>]])

(* add_node: nodes up to the given one exist afterwards.                   *)
add_node(succ, node) ==
  IF node < Len(succ) THEN succ
  ELSE succ \o [i \in 1 .. node + 1 - Len(succ) |-> << >>]

(* VecGraph: add_arc panics unless the successors of a node increase.      *)
Accepts(list, v) == list = << >> \/ Last(list) < v
VecArc(succ, u, v) == [succ EXCEPT ![u + 1] = Append(@, v)]
VecFromArcs(arcs) ==
  FoldLeft(LAMBDA succ, a : VecArc(add_node(add_node(succ, a[1]), a[2]), a[1], a[2]),
           << >>, SortSeq(arcs, Before))
VecFromLender(lender) ==
  FoldLeft(LAMBDA succ, x :
             FoldLeft(LAMBDA s, v : VecArc(s, x[1], v),
                      FoldLeft(add_node, add_node(succ, x[1]), x[2]),
                      SortSeq(x[2], <)),
           << >>, lender)

(* BTreeGraph: sets of successors; an arc may be added twice or removed.   *)
BTreeArc(succ, u, v) ==
  [succ EXCEPT ![u + 1] = SelectSeq(@, LAMBDA x : x < v) \o <<v>> \o
                          SelectSeq(@, LAMBDA x : x > v)]
BTreeFromArcs(arcs) ==
  FoldLeft(LAMBDA succ, a : BTreeArc(add_node(add_node(succ, a[1]), a[2]), a[1], a[2]),
           << >>, arcs)
BTreeWithout(succ, u, v) ==
  [succ EXCEPT ![u + 1] = SelectSeq(@, LAMBDA x : x # v)]

(* CsrGraph: all successors in a row, and where those of each node begin.  *)
CsrFromGraph(lists) ==
  LET successors == FlattenSeq(lists)
      dcf[i \in 1 .. Len(lists) + 1] ==
        IF i = 1 THEN 0 ELSE dcf[i - 1] + Len(lists[i - 1])
  IN [dcf |-> [i \in 1 .. Len(lists) + 1 |-> dcf[i]], successors |-> successors]
CsrLabels(csr) ==
  [i \in 1 .. Len(csr.dcf) - 1 |->
     SubSeq(csr.successors, csr.dcf[i] + 1, csr.dcf[i + 1])]

(* ArcListGraph: pairs of earlier sources are skipped; a list ends at the  *)
(* first pair of another source.                                           *)
Belongs(pair, node) == pair[1] = node
ArcListGraph(num_nodes, pairs) ==
  FoldLeft(LAMBDA s, node :
             LET first == SelectInSeq(s.rest, LAMBDA p : p[1] >= node)
                 ahead == IF first = 0 THEN << >> ELSE SubSeq(s.rest, first, Len(s.rest))
                 other == SelectInSeq(ahead, LAMBDA p : ~Belongs(p, node))
                 mine == IF other = 0 THEN Len(ahead) ELSE other - 1
             IN [rest |-> SubSeq(ahead, mine + 1, Len(ahead)),
                 lender |-> Append(s.lender,
                              <<node, [j \in 1 .. mine |-> ahead[j][2]]>>)],
           [rest |-> pairs, lender |-> << >>],
           [i \in 1 .. num_nodes |-> i - 1]).lender

(* PermutedGraph: nodes and successors are renamed, and stay where they    *)
(* are.                                                                    *)
PermutedGraph(lender, perm) ==
  [i \in DOMAIN lender |->
     <<perm[lender[i][1]], [j \in DOMAIN lender[i][2] |-> perm[lender[i][2][j]]]>>]

(* UnionGraph: the lists of the same node, merged; equal successors once.  *)
MergeOnce(a, b) ==
  LET merge[i \in 1 .. Len(a) + 1, j \in 1 .. Len(b) + 1] ==
        IF i > Len(a) THEN SubSeq(b, j, Len(b))
        ELSE IF j > Len(b) \/ a[i] < b[j]
        THEN <<a[i]>> \o IF j > Len(b) THEN SubSeq(a, i + 1, Len(a)) ELSE merge[i + 1, j]
        ELSE IF a[i] = b[j] THEN <<b[j]>> \o merge[i + 1, j + 1]
        ELSE <<b[j]>> \o merge[i, j + 1]
  IN merge[1, 1]
Longest(a, b) == IF Len(a) >= Len(b) THEN a ELSE b
UnionGraph(lender0, lender1) ==
  LET ListAt(lender, i) == IF i <= Len(lender) THEN lender[i][2] ELSE << >>
  IN [i \in DOMAIN Longest(lender0, lender1) |->
        <<Longest(lender0, lender1)[i][1],
          MergeOnce(ListAt(lender0, i), ListAt(lender1, i))>>]

NoSelfLoopsGraph(lender) ==
  [i \in DOMAIN lender |->
     <<lender[i][1], SelectSeq(lender[i][2], LAMBDA v : v # lender[i][1])>>]

-----------------------------------------------------------------------------
(* How many nodes each of how_many parts has, but the last ones.           *)
nodes_per_iter(num_nodes, how_many) == (num_nodes + how_many - 1) \div how_many

Take(lender, start, size) ==
  SubSeq(lender, start + 1, Min({start + size, Len(lender)}))

(* split::seq: one iterator is advanced and cloned; a part begins where    *)
(* the iterator can still be advanced to.                                  *)
SplitSeq(lender, num_nodes, how_many) ==
  LET size == nodes_per_iter(num_nodes, how_many)
      starts == SelectSeq([i \in 1 .. how_many |-> (i - 1) * size],
                          LAMBDA s : s <= Len(lender))
  IN [i \in DOMAIN starts |-> Take(lender, starts[i], size)]

(* split::ra: each part is an iterator of its own from its first node,     *)
(* which must not be past the end.                                         *)
SplitRaFits(num_nodes, how_many) ==
  (how_many - 1) * nodes_per_iter(num_nodes, how_many) <= num_nodes
SplitRa(lender, num_nodes, how_many) ==
  LET size == nodes_per_iter(num_nodes, how_many)
  IN [i \in 1 .. how_many |-> Take(lender, (i - 1) * size, size)]

(* from arcs: names of nodes get numbers in the order they appear.         *)
NumberOf(names, x) ==
  IF Contains(names, x) THEN SelectInSeq(names, LAMBDA y : y = x) - 1 ELSE Len(names)
Known(names, x) == IF Contains(names, x) THEN names ELSE Append(names, x)
NumberedArcs(lines) ==
  FoldLeft(LAMBDA s, line :
             LET names == Known(s.names, line[1])
             IN [names |-> Known(names, line[2]),
                 arcs |-> Append(s.arcs, <<NumberOf(s.names, line[1]),
                                           NumberOf(names, line[2])>>)],
           [names |-> << >>, arcs |-> << >>], lines)
=============================================================================
