----------------------------- MODULE MCStorage -----------------------------
(***************************************************************************)
(* Instances of Storage: all pairs of lists over four nodes recompressed,  *)
(* and graphs chosen to make every command, split, batch and reference     *)
(* happen.                                                                 *)
(***************************************************************************)
EXTENDS Storage

Flags(codes, window, max_ref_count, min_interval_length) ==
  [codes |-> codes, compression_window |-> window,
   max_ref_count |-> max_ref_count, min_interval_length |-> min_interval_length]
ManyReferences == Flags([DefaultCodes EXCEPT !.residuals = Unary], 2, 1, NoIntervals)
LongChains == Flags([DefaultCodes EXCEPT !.outdegrees = Delta, !.residuals = Delta], 1, 2, 2)
NoWindow == Flags([DefaultCodes EXCEPT !.blocks = Zeta(3)], 0, 3, 2)
BothKinds == Flags([DefaultCodes EXCEPT !.residuals = Unary], 2, 2, 2)
Defaults == Flags(DefaultCodes, 3, 2, 2)

(* An input, and its variations.                                           *)
Given(command, lists, flags) ==
  [command |-> command, lists |-> lists, graph_t |-> NotGiven, perm |-> NotGiven,
   has_ef |-> FALSE, batch_size |-> 3, num_threads |-> 2, flags |-> flags,
   build_offsets |-> TRUE, lines |-> << >>, lines_to_skip |-> 0, exact |-> FALSE,
   max_arcs |-> NotGiven, num_nodes |-> NotGiven]
WithIndex(x, threads) == [x EXCEPT !.has_ef = TRUE, !.num_threads = threads]
Rotated(x) ==
  [x EXCEPT !.perm = [v \in 0 .. Len(x.lists) - 1 |-> (v + 1) % Len(x.lists)]]

Lists == {SetToSortSeq(s, <) : s \in SUBSET (0 .. 3)}
PairsOfLists ==
  LET graph(a, b) == VecFromLender(Lender(<<a, b, << >>, a>>))
  IN {[Given("bvgraph", graph(a, b), ManyReferences) EXCEPT !.num_threads = 1] :
        a \in Lists, b \in Lists} \cup
     {Given("bvgraph", graph(a, b), LongChains) : a \in Lists, b \in Lists}

Similar == CsrLabels(CsrFromGraph(
  <<<<0, 2, 3, 4>>, <<0, 2, 3, 4>>, <<0, 2, 4>>, <<1, 2, 3, 4>>, <<0, 2, 3>>>>))
Blocks ==
  <<<<0, 3, 6, 8>>, <<0, 3, 8, 10, 11, 12>>, <<0, 2, 3, 8, 11, 12>>>> \o
  [i \in 1 .. 10 |-> << >>]
Loops == BTreeWithout(BTreeFromArcs(
  <<<<2, 2>>, <<0, 1>>, <<3, 0>>, <<0, 1>>, <<1, 2>>, <<0, 0>>, <<3, 1>>>>), 0, 0)
Path == VecFromArcs(<<<<1, 0>>, <<0, 3>>, <<3, 2>>, <<0, 1>>>>)

Transpose(lists) ==
  [i \in DOMAIN lists |->
     SetToSortSeq({u \in 0 .. Len(lists) - 1 : Contains(lists[u + 1], i - 1)}, <)]

Commands(lists, f) ==
  LET plain == Given("simplify", lists, f)
      bvgraph == Given("bvgraph", lists, f)
      alone == Given("single_thread", lists, f)
  IN {Given("transpose", lists, f), alone, [alone EXCEPT !.build_offsets = FALSE],
      plain, WithIndex(plain, 2), Rotated(plain),
      Rotated(WithIndex(plain, 3)),
      [plain EXCEPT !.graph_t = Transpose(lists)],
      bvgraph, WithIndex(bvgraph, 2), [bvgraph EXCEPT !.num_threads = 3],
      Rotated(WithIndex(bvgraph, 3))}

(* Permuted without an index, where permute keeps what is promised: on a   *)
(* graph that is its own transpose.                                        *)
Undirected == <<<<1, 3>>, <<0, 1, 2>>, <<1>>, <<0>>>>
PermutedUndirected ==
  {[Rotated(Given("bvgraph", Undirected, Defaults)) EXCEPT !.num_threads = t] : t \in 1 .. 3}

(* Arcs to read, with names or with numbers; and commands that refuse.     *)
FromArcs(lines) == [Given("arcs", << >>, LongChains) EXCEPT !.lines = lines]
Named == FromArcs(<<<<9, 9>>, << >>, <<7, 9>>, <<3, 7>>, <<7, 9>>, << >>, <<3, 3>>, <<5, 3>>>>)
ReadArcs ==
  {Named, [Named EXCEPT !.lines_to_skip = 1, !.max_arcs = <<5>>],
   [Named EXCEPT !.max_arcs = <<9>>],
   [Named EXCEPT !.batch_size = 1, !.num_nodes = <<6>>],
   [FromArcs(<<<<2, 0>>, <<0, 3>>, <<2, 3>>, <<2, 0>>>>) EXCEPT !.exact = TRUE]}
Refusals ==
  {FromArcs(<<<< >>>>), [Given("simplify", Path, Defaults) EXCEPT !.graph_t = Similar],
   [Given("bvgraph", Path, Defaults) EXCEPT !.perm = [v \in 0 .. 1 |-> v]]}

MCInputs ==
  {[Given("bvgraph", Blocks, BothKinds) EXCEPT !.num_threads = 1]} \cup
  PairsOfLists \cup ReadArcs \cup Refusals \cup PermutedUndirected \cup
  UNION {Commands(g, Defaults) : g \in {Similar, Loops, Path, << >>}} \cup
  UNION {{[Given("bvgraph", Similar, f) EXCEPT !.num_threads = t] : t \in 1 .. 2} :
           f \in {ManyReferences, LongChains, NoWindow}}

(* A directed graph to permute without an index, and fewer arcs asked for  *)
(* than there are.                                                         *)
DirectedPermuted == {Rotated(Given("bvgraph", Path, Defaults))}
FewerArcs == {[Named EXCEPT !.max_arcs = <<2>>]}
=============================================================================
