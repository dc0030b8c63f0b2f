-------------------------- MODULE MCWorkerSupervisor --------------------------
(* The instances of WorkerSupervisor that TLC checks. *)
EXTENDS WorkerSupervisor
===============================================================================
