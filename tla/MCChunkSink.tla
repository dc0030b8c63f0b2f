----------------------------- MODULE MCChunkSink -----------------------------
(***************************************************************************)
(* Instances of ChunkSink for TLC: two classes, the first with stacks.     *)
(***************************************************************************)
EXTENDS ChunkSink
=============================================================================
