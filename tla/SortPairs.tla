------------------------------ MODULE SortPairs ------------------------------
(***************************************************************************)
(* External sorting of pairs of nodes (webgraph/src/utils/sort_pairs.rs):  *)
(* pairs are collected in batches, which are sorted and written as gaps,   *)
(* and read back and merged.  A label follows its pair everywhere and      *)
(* decides nothing; it is left out.                                        *)
(***************************************************************************)
EXTENDS Integers, Sequences, SequencesExt

Before(a, b) == a[1] < b[1] \/ (a[1] = b[1] /\ a[2] < b[2])

(* A batch on disk: gaps of sources, and of targets since the source is    *)
(* the same.                                                               *)
GapFromPrevious(batch, i) ==     \* mutant: the target is not reset at a new source
  batch[i][2] - IF i > 1 THEN batch[i - 1][2] ELSE 0
TargetGap(batch, i) ==
  batch[i][2] - IF i > 1 /\ batch[i - 1][1] = batch[i][1]
                THEN batch[i - 1][2] ELSE 0
Dumped(batch) ==
  LET sorted == SortSeq(batch, Before)
  IN [i \in DOMAIN sorted |->
        <<sorted[i][1] - IF i = 1 THEN 0 ELSE sorted[i - 1][1],
          TargetGap(sorted, i)>>]

(* BatchIterator: the first len pairs of a file.                           *)
ReadBatch(file, len) ==
  LET at[i \in 1 .. len] ==
        IF i = 1 THEN file[1]
        ELSE <<at[i - 1][1] + file[i][1],
               file[i][2] + IF file[i][1] = 0 THEN at[i - 1][2] ELSE 0>>
  IN [i \in 1 .. len |-> at[i]]

NewSortPairs(batch_size) ==
  [batch_size |-> batch_size, batch |-> << >>, files |-> << >>, last_batch_len |-> 0]

dump(s) ==
  IF s.batch = << >> THEN s
  ELSE [s EXCEPT !.files = Append(@, Dumped(s.batch)),
                 !.last_batch_len = Len(s.batch), !.batch = << >>]

push_labeled(s, pair) ==
  LET t == [s EXCEPT !.batch = Append(@, pair)]
  IN IF Len(t.batch) >= t.batch_size THEN dump(t) ELSE t

(* iter: all files but the last are taken to hold batch_size pairs.        *)
BatchLen(s, i) == IF i = Len(s.files) THEN s.last_batch_len ELSE s.batch_size
SortedBatches(s) ==
  [i \in DOMAIN s.files |-> ReadBatch(s.files[i], BatchLen(s, i))]

(* KMergeIters: the least head of the iterators, until all are empty.      *)
PopLeast(m) ==
  LET live == {i \in DOMAIN m.iters : m.iters[i] # << >>}
      least == CHOOSE i \in live :
                 \A j \in live : ~Before(m.iters[j][1], m.iters[i][1])
  IN [iters |-> [m.iters EXCEPT ![least] = Tail(@)],
      out |-> Append(m.out, Head(m.iters[least]))]
KMerge(iters) ==
  FoldLeft(LAMBDA m, pair : PopLeast(m), [iters |-> iters, out |-> << >>],
           FlattenSeq(iters)).out

(* dedup of itertools: of equal pairs in a row, the first.                 *)
Dedup(pairs) ==
  LET kept == SelectSeq([i \in DOMAIN pairs |-> i],
                        LAMBDA i : i = 1 \/ pairs[i - 1] # pairs[i])
  IN [i \in DOMAIN kept |-> pairs[kept[i]]]
=============================================================================
