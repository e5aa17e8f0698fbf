----------------------------- MODULE Transforms -----------------------------
(***************************************************************************)
(* What the commands of the command line (cli/src/to/bvgraph.rs,           *)
(* transform/simplify.rs, transform/transpose.rs, from/arcs.rs) do to the  *)
(* arcs of a graph before it is compressed, with webgraph/src/transform.   *)
(* An input is a record: the command; the lists of the graph, or the lines *)
(* to read arcs from; its transpose, if it is given; a permutation of the  *)
(* nodes; whether the graph has an index of its offsets (has_ef); the size *)
(* of a batch and the number of threads; and so on.                        *)
(***************************************************************************)
EXTENDS GraphBuilders

NotGiven == << >>
Permuted(in) == in.perm # NotGiven

(* Which of the transformations a command runs.                            *)
Simplification(in) ==
  IF in.graph_t # NotGiven /\ ~Permuted(in) THEN "union"
  ELSE IF in.has_ef THEN "simplify_split"
  ELSE IF Permuted(in) THEN "simplify" ELSE "simplify_sorted"
Recompression(in) ==
  IF ~Permuted(in) THEN "copy" ELSE IF in.has_ef THEN "permute_split" ELSE "permute"
Transform(in) ==
  CASE in.command = "simplify" -> Simplification(in)
    [] in.command = "bvgraph" -> Recompression(in)
    [] OTHER -> in.command          \* transpose, arcs, single_thread

(* from_csv: blank lines stand for comments and lines with few columns.    *)
(* The bound on the number of arcs is tested before one more is read.      *)
GoodLines(in) ==
  SelectSeq(SubSeq(in.lines, in.lines_to_skip + 1, Len(in.lines)),
            LAMBDA line : line # << >>)
Limited(in, extra) ==
  IF in.max_arcs = NotGiven THEN GoodLines(in)
  ELSE SubSeq(GoodLines(in), 1, Min({Len(GoodLines(in)), in.max_arcs[1] + extra}))
LinesRead(in) == Limited(in, 1)
ArcsRead(in) ==
  IF in.exact THEN LinesRead(in) ELSE NumberedArcs(LinesRead(in)).arcs
NodesRead(in) ==
  IF in.num_nodes # NotGiven THEN in.num_nodes[1]
  ELSE Max({a[1] : a \in Range(ArcsRead(in))} \cup {a[2] : a \in Range(ArcsRead(in))}) + 1

NumNodes(in) == IF in.command = "arcs" THEN NodesRead(in) ELSE Len(in.lists)

(* The commands that end with an error, or nothing to store.               *)
Refused(in) ==
  \/ Transform(in) = "union" /\ Len(in.graph_t) # Len(in.lists)
  \/ Transform(in) \in {"permute", "permute_split"}
     /\ Cardinality(DOMAIN in.perm) # Len(in.lists)
  \/ in.command = "arcs" /\ ArcsRead(in) = << >>

-----------------------------------------------------------------------------
View(in) ==
  IF Permuted(in) THEN PermutedGraph(Lender(in.lists), in.perm) ELSE Lender(in.lists)

Swapped(arcs) == [i \in DOMAIN arcs |-> <<arcs[i][2], arcs[i][1]>>]
BothWays(arcs) ==
  LET proper == SelectSeq(arcs, LAMBDA a : a[1] # a[2])
  IN FlattenSeq([i \in DOMAIN proper |-> <<proper[i], Swapped(proper)[i]>>])

(* The parts of a graph that threads sort: BvGraph is split by random      *)
(* access, a permuted graph by walking through it.                         *)
PartsOf(in) ==
  IF Permuted(in) THEN SplitSeq(View(in), NumNodes(in), in.num_threads)
  ELSE SplitRa(View(in), NumNodes(in), in.num_threads)

(* Whether random access splits the graph of an input, and can.            *)
SplitByNode(in) ==
  in.has_ef /\ ~Permuted(in) /\ Transform(in) \in {"simplify_split", "copy"}
Splittable(in) == SplitByNode(in) => SplitRaFits(NumNodes(in), in.num_threads)

(* The pairs each sorter of a transformation is given, in order.           *)
transpose(in) == <<Swapped(ArcsOf(Lender(in.lists)))>>
simplify(in) == <<BothWays(ArcsOf(View(in)))>>
simplify_split(in) ==
  [i \in DOMAIN PartsOf(in) |-> BothWays(ArcsOf(PartsOf(in)[i]))]
permute(in) == <<Swapped(ArcsOf(View(in)))>>
permute_split(in) == [i \in DOMAIN PartsOf(in) |-> ArcsOf(PartsOf(in)[i])]
Pushed(in) ==
  CASE Transform(in) \in {"transpose", "simplify_sorted"} -> transpose(in)
    [] Transform(in) = "simplify" -> simplify(in)
    [] Transform(in) = "simplify_split" -> simplify_split(in)
    [] Transform(in) = "permute" -> permute(in)
    [] Transform(in) = "permute_split" -> permute_split(in)
    [] Transform(in) = "arcs" -> <<ArcsRead(in)>>
    [] OTHER -> << >>

SorterBatch(in) ==
  IF Transform(in) \in {"simplify_split", "permute_split"}
  THEN in.batch_size \div in.num_threads ELSE in.batch_size

(* One sorter: its sorted batches, ready to be merged.                     *)
SortedPart(in, pairs) ==
  SortedBatches(dump(FoldLeft(push_labeled, NewSortPairs(SorterBatch(in)), pairs)))

Distinct(in, pairs) ==
  IF Transform(in) \in {"simplify", "simplify_split", "arcs"} THEN Dedup(pairs)
  ELSE pairs

(* The lists to compress, given the batches of all sorters.                *)
UnionWithTransposed(in) ==
  NoSelfLoopsGraph(UnionGraph(Lender(in.lists), Lender(in.graph_t)))
simplify_sorted(in, transposed) ==
  NoSelfLoopsGraph(UnionGraph(Lender(in.lists), transposed))
Transformed(in, batches) ==
  LET sorted == ArcListGraph(NumNodes(in), Distinct(in, KMerge(batches)))
  IN CASE Transform(in) \in {"copy", "single_thread"} -> Lender(in.lists)
       [] Transform(in) = "union" -> UnionWithTransposed(in)
       [] Transform(in) = "simplify_sorted" -> simplify_sorted(in, sorted)
       [] OTHER -> sorted

(* The parts that threads compress.                                        *)
Lenders(in, lender) ==
  IF Transform(in) = "single_thread" THEN <<lender>>
  ELSE IF Transform(in) = "copy" /\ SplitByNode(in)
  THEN SplitRa(lender, NumNodes(in), in.num_threads)
  ELSE SplitSeq(lender, NumNodes(in), in.num_threads)

-----------------------------------------------------------------------------
(* What the documentation of each command promises.                        *)
(*                                                                         *)
(* from arcs: as many lines as --max-arcs says are parsed (cli/src/lib.rs: *)
(* 102), and labels get numbers in appearance order (from/arcs.rs:25), so  *)
(* that a label's number is that of the labels seen before it.             *)
LinesAsked(in) == Limited(in, 0)
Appearance(labels, x) ==
  LET first == CHOOSE i \in DOMAIN labels :
                 labels[i] = x /\ \A j \in 1 .. i - 1 : labels[j] # x
  IN Cardinality({labels[j] : j \in 1 .. first - 1})
ArcsAsked(in) ==
  LET lines == LinesAsked(in)
      number(x) == IF in.exact THEN x ELSE Appearance(FlattenSeq(lines), x)
  IN {<<number(line[1]), number(line[2])>> : line \in Range(lines)}

(* The others: the arcs of the graph, its nodes renamed by the permutation *)
(* (to/bvgraph.rs:20, transform/perm.rs:17); with arcs missing in the      *)
(* other direction added, and loops removed (transform/simplify.rs:18 of   *)
(* the command line); or turned around (transform/transpose.rs:17).        *)
Renamed(in, v) == IF Permuted(in) THEN in.perm[v] ELSE v
OriginalArcs(in) ==
  {<<Renamed(in, a[1]), Renamed(in, a[2])>> : a \in Range(ArcsOf(Lender(in.lists)))}
Reversed(arcs) == {<<a[2], a[1]>> : a \in arcs}

PromisedArcs(in) ==
  CASE in.command = "arcs" -> ArcsAsked(in)
    [] in.command = "simplify" ->
         {a \in OriginalArcs(in) \cup Reversed(OriginalArcs(in)) : a[1] # a[2]}
    [] in.command = "transpose" -> Reversed(OriginalArcs(in))
    [] OTHER -> OriginalArcs(in)
PromisedNodes(in) ==
  IF in.command # "arcs" THEN Len(in.lists)
  ELSE IF in.num_nodes # NotGiven THEN in.num_nodes[1]
  ELSE Max(UNION {{a[1], a[2]} : a \in ArcsAsked(in)}) + 1

Promised(in) ==
  [i \in 1 .. PromisedNodes(in) |->
     SetToSortSeq({a[2] : a \in {b \in PromisedArcs(in) : b[1] = i - 1}}, <)]
=============================================================================
