------------------------------ MODULE ToolData ------------------------------
(***************************************************************************)
(* What the tools that read event tables share: the batches in which a     *)
(* table is read (native/accessors.py, native/event_store.py).             *)
(***************************************************************************)
EXTENDS Integers, SequencesExt

CONSTANT None

SumOver(S, F(_)) == MapThenSumSet(F, S)

\* iter_event_batches: consecutive rows, at most size of them, in table order.
InBatches(rows, size) ==
  [n \in 1 .. (Len(rows) + size - 1) \div size |->
     SubSeq(rows, size * (n - 1) + 1, Min({size * n, Len(rows)}))]
=============================================================================
