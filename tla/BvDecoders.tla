----------------------------- MODULE BvDecoders -----------------------------
(***************************************************************************)
(* The readers of a compressed graph: random access (random_access.rs,     *)
(* masked_iterator.rs), the sequential iterator (sequential.rs) and the    *)
(* iterator on offsets and degrees (offset_deg_iter.rs), all in            *)
(* webgraph/src/graphs/bvgraph.  A graph on disk is a record: the words of *)
(* the stream, the offsets in bits of its nodes (or << >>), and what the   *)
(* properties say of the number of nodes, the window, the shortest         *)
(* interval and the codes.                                                 *)
(***************************************************************************)
EXTENDS BvCompressor

(* The field of the flags each part is read with (codecs/dec_dyn.rs).      *)
DecoderField ==
  [outdegree |-> "outdegrees", reference_offset |-> "references",
   block_count |-> "blocks", block |-> "blocks",
   interval_count |-> "intervals", interval_start |-> "intervals",
   interval_len |-> "intervals", first_residual |-> "residuals",
   residual |-> "residuals"]

(* What a reader finds where another code was written: some number, shown  *)
(* by one that no list holds.                                              *)
Garbage == 999

Value(g, p, part) ==
  IF p \in DOMAIN g.words /\ g.words[p][1] = g.codes[DecoderField[part]]
  THEN g.words[p][2] ELSE Garbage

(* A reader set to a bit of the stream: the word that begins there.        *)
WordStarts(words) ==
  LET start[i \in 1 .. Len(words) + 1] ==
        IF i = 1 THEN 0
        ELSE start[i - 1] + CodeLen(words[i - 1][1], words[i - 1][2])
  IN start
ReaderAt(g, bit) ==
  LET starts == WordStarts(g.words)
      here == {i \in DOMAIN starts : starts[i] = bit}
  IN IF here = {} THEN Garbage ELSE CHOOSE i \in here : TRUE

ToInt(n) == IF n % 2 = 0 THEN n \div 2 ELSE -((n + 1) \div 2)

-----------------------------------------------------------------------------
(* The parts of one list.  All readers parse the same grammar; they differ *)
(* in how they know the length of the reference list and how many of its   *)
(* nodes the blocks copy.                                                  *)
(* MaskedIterator: blocks are copied and skipped in turns; a rest is       *)
(* copied if the last block was skipped.                                   *)
WithRest(blocks, ref_len) ==
  LET rest == ref_len - FoldLeft(+, 0, blocks)
  IN IF rest # 0 /\ Len(blocks) % 2 = 0 THEN Append(blocks, rest) ELSE blocks
CopiedLen(blocks, ref_len) ==
  LET all == WithRest(blocks, ref_len)
  IN FoldLeft(+, 0, [i \in DOMAIN all |-> IF i % 2 = 1 THEN all[i] ELSE 0])
Masked(ref, blocks) ==
  LET all == WithRest(blocks, Len(ref))
      begin[i \in 1 .. Len(all) + 1] == IF i = 1 THEN 0 ELSE begin[i - 1] + all[i - 1]
  IN FlattenSeq([i \in DOMAIN all |->
       IF i % 2 = 1 THEN SubSeq(ref, begin[i] + 1, begin[i + 1]) ELSE << >>])

(* The parts of a list are read one after another from word l.next on;     *)
(* ref_len gives the length of the list a given distance back.             *)
OutdegreeAt(g, p) ==
  [degree |-> Value(g, p, "outdegree"), delta |-> 0, blocks |-> << >>,
   left |-> << >>, len |-> << >>, gap |-> << >>, next |-> p + 1]
WithReference(g, l) ==
  IF g.window = 0 THEN l
  ELSE [l EXCEPT !.delta = Value(g, l.next, "reference_offset"), !.next = @ + 1]
WithBlocks(g, l) ==
  IF l.delta = 0 THEN l
  ELSE [l EXCEPT
    !.blocks = [i \in 1 .. Value(g, l.next, "block_count") |->
                  Value(g, l.next + i, "block") + IF i = 1 THEN 0 ELSE 1],
    !.next = @ + 1 + Value(g, l.next, "block_count")]
WithIntervals(g, l, extra) ==
  IF extra = 0 \/ g.min_interval_length = NoIntervals THEN l
  ELSE [l EXCEPT
    !.left = [i \in 1 .. Value(g, l.next, "interval_count") |->
                Value(g, l.next + 2 * i - 1, "interval_start")],
    !.len = [i \in 1 .. Value(g, l.next, "interval_count") |->
               Value(g, l.next + 2 * i, "interval_len") + g.min_interval_length],
    !.next = @ + 1 + 2 * Value(g, l.next, "interval_count")]
WithResiduals(g, l, number) ==
  [l EXCEPT
    !.gap = [i \in 1 .. number |->
               Value(g, l.next + i - 1, IF i = 1 THEN "first_residual" ELSE "residual")],
    !.next = @ + number]

Extra(l, ref_len) ==
  l.degree - IF l.delta = 0 THEN 0 ELSE CopiedLen(l.blocks, ref_len[l.delta])
NotCopied(g, l, extra) ==
  LET intervals == WithIntervals(g, l, extra)
  IN WithResiduals(g, intervals, extra - FoldLeft(+, 0, intervals.len))
Parts(g, p, ref_len) ==
  IF Value(g, p, "outdegree") = 0 THEN OutdegreeAt(g, p)
  ELSE LET l == WithBlocks(g, WithReference(g, OutdegreeAt(g, p)))
       IN NotCopied(g, l, Extra(l, ref_len))

(* The intervals, from their gaps, and the residuals from theirs.          *)
IntervalNodes(l, node) ==
  LET start[i \in 1 .. Len(l.len)] ==
        IF i = 1 THEN node + ToInt(l.left[1])
        ELSE start[i - 1] + l.len[i - 1] + 1 + l.left[i]
  IN FlattenSeq([i \in DOMAIN l.len |->
       [d \in 1 .. l.len[i] |-> start[i] + d - 1]])
ResidualNodes(l, node) ==
  LET at[i \in 1 .. Len(l.gap)] ==
        IF i = 1 THEN node + ToInt(l.gap[1]) ELSE at[i - 1] + 1 + l.gap[i]
  IN [i \in DOMAIN l.gap |-> at[i]]

-----------------------------------------------------------------------------
(* Random access: the list of the reference is decoded on its own, and     *)
(* copied nodes, intervals and residuals, each increasing, are merged.     *)
MergeLists(a, b) ==
  LET merge[i \in 1 .. Len(a) + 1, j \in 1 .. Len(b) + 1] ==
        IF i > Len(a) THEN SubSeq(b, j, Len(b))
        ELSE IF j > Len(b) THEN SubSeq(a, i, Len(a))
        ELSE IF a[i] <= b[j] THEN <<a[i]>> \o merge[i + 1, j]
        ELSE <<b[j]>> \o merge[i, j + 1]
  IN merge[1, 1]

outdegree(g, node) == Value(g, ReaderAt(g, g.offsets[node + 1]), "outdegree")

ListOf(l, node, list) ==
  LET copied == IF l.delta = 0 THEN << >> ELSE Masked(list[node - l.delta], l.blocks)
      extra == MergeLists(IntervalNodes(l, node), ResidualNodes(l, node))
  IN SubSeq(MergeLists(copied, extra), 1, l.degree)
PartsAt(g, node, list) ==
  Parts(g, ReaderAt(g, g.offsets[node + 1]), [d \in 1 .. node |-> Len(list[node - d])])
labels(g) ==
  LET list[node \in 0 .. g.num_nodes - 1] == ListOf(PartsAt(g, node, list), node, list)
  IN list

(* How many lists must be decoded to read that of a node.                  *)
ReferenceDepth(g, decoded) ==
  LET depth[node \in 0 .. g.num_nodes - 1] ==
        LET delta == PartsAt(g, node, decoded).delta
        IN IF delta = 0 THEN 0 ELSE 1 + depth[node - delta]
  IN depth

-----------------------------------------------------------------------------
(* The sequential iterator: the last lists are in a ring of window + 1     *)
(* places; blocks copy from it, and what was read is sorted.               *)
InRing(ring, node) == ring[(node % Len(ring)) + 1]
PutInRing(ring, node, x) == [ring EXCEPT ![(node % Len(ring)) + 1] = x]
EmptyRing(size, x) == [i \in 1 .. size |-> x]

RingLengths(g, backrefs, node) ==
  [d \in 1 .. g.window |-> IF d <= node THEN Len(InRing(backrefs, node - d)) ELSE 0]
SortedList(l, node, backrefs) ==
  LET copied == IF l.delta = 0 THEN << >>
                ELSE Masked(InRing(backrefs, node - l.delta), l.blocks)
  IN SortSeq(copied \o IntervalNodes(l, node) \o ResidualNodes(l, node), <)
Returned(state, node, next, res) ==
  [at |-> next, backrefs |-> PutInRing(state.backrefs, node, res),
   lists |-> Append(state.lists, res)]
NextList(state, node, l) ==
  Returned(state, node, l.next, SortedList(l, node, state.backrefs))
next_successors(g, state, node) ==
  NextList(state, node, Parts(g, state.at, RingLengths(g, state.backrefs, node)))

(* iter_from: from a given node on, with the ring filled by random access, *)
(* or all nodes, from an empty ring.                                       *)
Iterate(g, state, from) ==
  FoldLeft(LAMBDA s, node : next_successors(g, s, node), state,
           [i \in 1 .. g.num_nodes - from |-> from + i - 1]).lists
Iter(g) ==
  Iterate(g, [at |-> 1, backrefs |-> EmptyRing(g.window + 1, << >>),
              lists |-> << >>], 0)
Filled(g, lists, from) ==
  FoldLeft(LAMBDA ring, node : PutInRing(ring, node, lists[node]),
           EmptyRing(g.window + 1, << >>),
           SelectSeq([i \in 1 .. from |-> i - 1], LAMBDA v : v >= from - g.window))
iter_from(g, from) ==
  Iterate(g, [at |-> ReaderAt(g, g.offsets[from + 1]),
              backrefs |-> Filled(g, labels(g), from), lists |-> << >>], from)

-----------------------------------------------------------------------------
(* Offsets and degrees: a ring of window degrees instead of lists.         *)
NextDegree(g, state, node, l) ==
  [at |-> l.next,
   backrefs |-> IF g.window = 0 THEN << >> ELSE PutInRing(state.backrefs, node, l.degree),
   found |-> Append(state.found, <<WordStarts(g.words)[state.at], l.degree>>)]
next_degree(g, state, node) ==
  NextDegree(g, state, node,
    Parts(g, state.at, [d \in 1 .. g.window |->
                          IF d <= node THEN InRing(state.backrefs, node - d) ELSE 0]))
OffsetDegIter(g) ==
  FoldLeft(LAMBDA s, node : next_degree(g, s, node),
           [at |-> 1, backrefs |-> EmptyRing(g.window, 0), found |-> << >>],
           [i \in 1 .. g.num_nodes |-> i - 1])
=============================================================================
