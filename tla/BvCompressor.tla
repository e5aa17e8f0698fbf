---------------------------- MODULE BvCompressor ----------------------------
(***************************************************************************)
(* How one list of successors becomes codes of a compressed graph          *)
(* (webgraph/src/graphs/bvgraph/comp/bvcomp.rs, struct Compressor, and     *)
(* codecs/enc_dyn.rs).  A stream of bits is a sequence of words, each with *)
(* the instantaneous code it is written in and its value; its length in    *)
(* bits is that of the codes.  Lists of successors are strictly            *)
(* increasing.                                                             *)
(***************************************************************************)
EXTENDS Integers, Sequences, SequencesExt, Functions

(* CompFlags: which code each field of the flags stands for.               *)
Unary == <<"unary", 0>>
Gamma == <<"gamma", 0>>
Delta == <<"delta", 0>>
Zeta(k) == <<"zeta", k>>

DefaultCodes ==
  [outdegrees |-> Gamma, references |-> Unary, blocks |-> Gamma,
   intervals |-> Gamma, residuals |-> Zeta(3)]

(* The field of the flags each part of a list is encoded with.             *)
EncoderField ==
  [outdegree |-> "outdegrees", reference_offset |-> "references",
   block_count |-> "blocks", block |-> "blocks",
   interval_count |-> "intervals", interval_start |-> "intervals",
   interval_len |-> "intervals", first_residual |-> "residuals",
   residual |-> "residuals"]

Log2(n) == CHOOSE k \in 0 .. 20 : 2 ^ k <= n /\ n < 2 ^ (k + 1)

(* The lengths in bits of the codes of dsi-bitstream.                      *)
GammaLen(v) == 2 * Log2(v + 1) + 1
ZetaLen(k, v) ==
  LET h == Log2(v + 1) \div k
      size == 2 ^ (h * k) * (2 ^ k - 1)
      short == v + 1 - 2 ^ (h * k) < 2 ^ (Log2(size) + 1) - size
  IN h + 1 + IF k = 1 THEN h ELSE Log2(size) + IF short THEN 0 ELSE 1
CodeLen(code, v) ==
  CASE code = Unary -> v + 1
    [] code = Gamma -> GammaLen(v)
    [] code = Delta -> Log2(v + 1) + GammaLen(Log2(v + 1))
    [] OTHER -> ZetaLen(code[2], v)

(* The bits of some words, and the sign folded into the lowest bit.        *)
Bits(words) == FoldLeft(LAMBDA sum, w : sum + CodeLen(w[1], w[2]), 0, words)
ToNat(i) == IF i >= 0 THEN 2 * i ELSE -2 * i - 1

Word(codes, part, v) == <<codes[EncoderField[part]], v>>

-----------------------------------------------------------------------------
NoIntervals == 0
NoReference == -1    \* None: with no window, reference offsets are not written

(* diff_comp: j and k run through the list and the reference list; blocks  *)
(* of the latter are copied and skipped in turns, and the last is implied. *)
diff_comp(curr, ref) ==
  LET diff[j \in 1 .. Len(curr) + 1, k \in 1 .. Len(ref) + 1,
           copying \in BOOLEAN, len \in 0 .. Len(ref)] ==
        IF j > Len(curr) \/ k > Len(ref)
        THEN [blocks |-> IF copying /\ k <= Len(ref) THEN <<len>> ELSE << >>,
              extra_nodes |-> SubSeq(curr, j, Len(curr))]
        ELSE IF curr[j] < ref[k]
        THEN [diff[j + 1, k, copying, len] EXCEPT !.extra_nodes = <<curr[j]>> \o @]
        ELSE IF copying = (curr[j] = ref[k])
        THEN diff[IF copying THEN j + 1 ELSE j, k + 1, copying, len + 1]
        ELSE [diff[j, k, ~copying, 0] EXCEPT !.blocks = <<len>> \o @]
  IN diff[1, 1, TRUE, 0]

(* intervalize: how many consecutive nodes begin at i (none if alone), and *)
(* the intervals, as starts and lengths, with the nodes that are in none.  *)
ConsecutiveFrom(nodes, i) ==
  LET run == CHOOSE m \in 1 .. Len(nodes) - i + 1 :
        /\ \A d \in 1 .. m - 1 : nodes[i + d] = nodes[i] + d
        /\ i + m <= Len(nodes) => nodes[i + m] # nodes[i] + m
  IN IF run = 1 THEN 0 ELSE run

LongEnough(len, min_interval_length) == len >= min_interval_length

intervalize(nodes, min_interval_length) ==
  LET from[i \in 1 .. Len(nodes) + 1] ==
        LET j == ConsecutiveFrom(nodes, i)
        IN IF i > Len(nodes) THEN [intervals |-> << >>, residuals |-> << >>]
           ELSE IF j > 0 /\ LongEnough(j, min_interval_length)
           THEN [from[i + j] EXCEPT !.intervals = <<<<nodes[i], j>>>> \o @]
           ELSE [from[i + 1] EXCEPT !.residuals = <<nodes[i]>> \o @]
  IN from[1]

(* compress: ref_list is << >> when there is no reference list.            *)
compress(curr, ref_list, min_interval_length) ==
  LET diff == IF curr # << >> /\ ref_list # << >> THEN diff_comp(curr, ref_list)
              ELSE [blocks |-> << >>, extra_nodes |-> curr]
      rest == IF min_interval_length # NoIntervals
              THEN intervalize(diff.extra_nodes, min_interval_length)
              ELSE [intervals |-> << >>, residuals |-> diff.extra_nodes]
  IN [outdegree |-> Len(curr), blocks |-> diff.blocks,
      extra_nodes |-> diff.extra_nodes,
      intervals |-> rest.intervals, residuals |-> rest.residuals]

(* The gaps between the members of a list, the first relative to the node. *)
Gap(nodes, i, node) ==
  IF i = 1 THEN ToNat(nodes[1] - node) ELSE nodes[i] - nodes[i - 1] - 1
IntervalGap(intervals, i, node) ==
  IF i = 1 THEN ToNat(intervals[1][1] - node)
  ELSE intervals[i][1] - (intervals[i - 1][1] + intervals[i - 1][2]) - 1

(* write: the parts in the order the decoders expect them.                 *)
ReferenceParts(c, offset) ==
  IF c.outdegree = 0 \/ offset = NoReference THEN << >>
  ELSE <<<<"reference_offset", offset>>>> \o
    IF offset = 0 THEN << >>
    ELSE <<<<"block_count", Len(c.blocks)>>>> \o
         [i \in DOMAIN c.blocks |-> <<"block", IF i = 1 THEN c.blocks[i]
                                               ELSE c.blocks[i] - 1>>]
IntervalParts(c, node, min_interval_length) ==
  IF c.extra_nodes = << >> \/ min_interval_length = NoIntervals THEN << >>
  ELSE <<<<"interval_count", Len(c.intervals)>>>> \o
    FlattenSeq([i \in DOMAIN c.intervals |->
      <<<<"interval_start", IntervalGap(c.intervals, i, node)>>,
        <<"interval_len", c.intervals[i][2] - min_interval_length>>>>])
ResidualParts(c, node) ==
  [i \in DOMAIN c.residuals |->
     <<IF i = 1 THEN "first_residual" ELSE "residual", Gap(c.residuals, i, node)>>]

write(codes, c, node, offset, min_interval_length) ==
  LET parts == <<<<"outdegree", c.outdegree>>>> \o ReferenceParts(c, offset) \o
               IntervalParts(c, node, min_interval_length) \o
               ResidualParts(c, node)
  IN [i \in DOMAIN parts |-> Word(codes, parts[i][1], parts[i][2])]
=============================================================================
