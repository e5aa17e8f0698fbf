------------------------------ MODULE CompFlags ------------------------------
(***************************************************************************)
(* The properties of a compressed graph, written and read back             *)
(* (webgraph/src/graphs/bvgraph/comp/flags.rs), the files of a graph and   *)
(* how they are loaded (bvgraph/load.rs), and the index of the offsets,    *)
(* built and checked by cli/src/build/ef.rs, build/offsets.rs and          *)
(* check/ef.rs.  Flags are records of the codes of the five fields, the    *)
(* window, the longest chain of references and the shortest interval.      *)
(***************************************************************************)
EXTENDS BvDecoders, FiniteSets

Fields == {"outdegrees", "references", "blocks", "intervals", "residuals"}
IsZeta(code) == code \notin {Unary, Gamma, Delta}
Zetas(codes) == {codes[f] : f \in {h \in Fields : IsZeta(codes[h])}}

(* to_properties: a code is written as its name, if it is not the default; *)
(* one k is written for all, as zetak.  All graphs are big endian.         *)
Listed(codes) ==
  {f \in Fields : codes[f] # DefaultCodes[f] /\ ~(f = "residuals" /\ IsZeta(codes[f]))}
Writable(flags) == Cardinality(Zetas(flags.codes)) <= 1
to_properties(flags, num_nodes, num_arcs) ==
  [endianness |-> "big", nodes |-> num_nodes, arcs |-> num_arcs,
   minintervallength |-> flags.min_interval_length,
   maxrefcount |-> flags.max_ref_count, windowsize |-> flags.compression_window,
   compressionflags |-> [f \in Listed(flags.codes) |-> flags.codes[f][1]],
   zetak |-> IF Zetas(flags.codes) = {} THEN 3
             ELSE (CHOOSE code \in Zetas(flags.codes) : TRUE)[2]]

(* from_properties: k is looked up as zeta_k, and is 3 otherwise; the      *)
(* longest chain of references is not read.                                *)
ReadK(map) == IF "zeta_k" \in DOMAIN map THEN map.zeta_k ELSE 3
code_from_str(name, k) == IF name = "zeta" THEN Zeta(k) ELSE <<name, 0>>
from_properties(map) ==
  [codes |-> [f \in Fields |->
     IF f \in DOMAIN map.compressionflags
     THEN code_from_str(map.compressionflags[f], ReadK(map)) ELSE DefaultCodes[f]],
   compression_window |-> map.windowsize,
   min_interval_length |-> map.minintervallength]

(* load, with codes chosen at run time or at compile time (Static): the    *)
(* latter refuses a graph written in other codes.                          *)
Static == [outdegrees |-> Gamma, references |-> Unary, blocks |-> Gamma,
           intervals |-> Gamma, residuals |-> Zeta(3)]
StaticFits(files) == from_properties(files.properties).codes = Static
load(files, codes) ==
  LET comp_flags == from_properties(files.properties)
  IN [words |-> files.graph, offsets |-> files.ef, codes |-> codes,
      num_nodes |-> files.properties.nodes, num_arcs |-> files.properties.arcs,
      window |-> comp_flags.compression_window,
      min_interval_length |-> comp_flags.min_interval_length]
LoadDynamic(files) == load(files, from_properties(files.properties).codes)
LoadStatic(files) == load(files, Static)

-----------------------------------------------------------------------------
(* The file of offsets holds the differences, the first of them 0.         *)
build_offsets(files) ==
  LET degs == OffsetDegIter(LoadDynamic(files))
      bits == [i \in DOMAIN degs.found |-> degs.found[i][1]] \o
              <<WordStarts(files.graph)[degs.at]>>
  IN [i \in DOMAIN bits |-> bits[i] - IF i = 1 THEN 0 ELSE bits[i - 1]]

(* build_eliasfano: from the file of offsets, if there is one, or from the *)
(* graph.                                                                  *)
FromOffsets(num_nodes, deltas) ==
  LET sum[i \in 1 .. num_nodes + 1] == deltas[i] + IF i = 1 THEN 0 ELSE sum[i - 1]
  IN [i \in 1 .. num_nodes + 1 |-> sum[i]]
FromGraph(files) ==
  LET degs == OffsetDegIter(LoadDynamic(files))
  IN [i \in DOMAIN degs.found |-> degs.found[i][1]] \o
     <<WordStarts(files.graph)[degs.at]>>
build_eliasfano(files) ==
  IF files.offsets # << >> THEN FromOffsets(files.properties.nodes, files.offsets)
  ELSE FromGraph(files)

(* check ef: the index agrees with the file of offsets and with the graph. *)
check_ef(files) ==
  LET found == OffsetDegIter(LoadDynamic(files)).found
  IN /\ files.offsets # << >> =>
          files.ef = FromOffsets(files.properties.nodes, files.offsets)
     /\ \A i \in DOMAIN found : found[i][1] = files.ef[i]
=============================================================================
