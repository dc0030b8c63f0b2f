------------------------------ MODULE Extraction ------------------------------
(***************************************************************************)
(* What run_native_worker_extraction and run_dotnet_worker_extraction      *)
(* (worker_supervisor.py) promise to the loader that calls them: an        *)
(* extraction first works beside the export directory, then promotes.      *)
(* It ends with a new cache and "ok", or with a failure and no new cache;  *)
(* until it promotes, the old cache stays.                                 *)
(***************************************************************************)

VARIABLES
  stage,  \* how far the extraction is
  cache   \* the finalized cache in the export directory

vars == <<stage, cache>>

Stage == {"extracting", "promoting", "ok", "failed", "dead"}
Cache == {"none", "old", "new"}

Init == stage = "extracting" /\ cache \in {"none", "old"}

\* A complete, validated cache stands ready beside the export directory.
Ready == /\ stage = "extracting"
         /\ stage' = "promoting"
         /\ UNCHANGED cache

\* The old cache makes room for the new one.
Remove == /\ stage = "promoting" /\ cache = "old"
          /\ cache' = "none"
          /\ UNCHANGED stage

Install == /\ stage = "promoting" /\ cache = "none"
           /\ cache' = "new"
           /\ stage' = "ok"

\* A promotion that fails may have lost the old cache; nothing else loses it.
Fail == /\ stage \in {"extracting", "promoting"}
        /\ stage' = "failed"
        /\ \/ UNCHANGED cache
           \/ stage = "promoting" /\ cache = "old" /\ cache' = "none"

\* The server dies.
Die == /\ stage \in {"extracting", "promoting"}
       /\ stage' = "dead"
       /\ UNCHANGED cache

Next == Ready \/ Remove \/ Install \/ Fail \/ Die

Spec == Init /\ [][Next]_vars
===============================================================================
