---------------------------- MODULE MCProducers ----------------------------
(***************************************************************************)
(* What fills a cache: the streaming extraction in Python, and the sidecar,*)
(* which is looked for and whose files are finalised.  They share no state:*)
(* a behaviour is one of them.                                             *)
(***************************************************************************)
EXTENDS NativeExtract, SidecarBootstrap, AggregationWorker

VARIABLE producer   \* what is looked at

MCVars == <<producer, vars, bootVars, aggregationVars>>

\* Thread 2 on CPU 1 wakes thread 1 on CPU 0; both are switched in and have
\* their stacks walked within three ticks.
MCInputs ==
  [class : {"ready"}, qpc : {1, 2, 4}, tid : {2}, about : {1}, cpu : {1}]
    \union [class : {"switch"}, qpc : {1, 2, 4}, tid : {1}, about : {1}, cpu : {0}]
    \union [class : {"switch"}, qpc : {1, 2}, tid : {2}, about : {2}, cpu : {1}]
    \union [class : {"walk"}, qpc : {1, 2}, tid : {1, 2}, about : {0}, cpu : {0}]
    \union [class : {"header", "other"}, qpc : {1}, tid : {1}, about : {0}, cpu : {0}]
    \union [class : {"thread"}, qpc : {2}, tid : {1}, about : {1}, cpu : {0}]

MCFilters == [cpus : {{}, {1}}, from : {None, 0, 1}, to : {None, 2, 3}]

\* Traces of interrupts and disk accesses, or of processes and threads.
MCTraces ==
  {t \in [Kind -> 0 .. 2] :
     /\ \A k \in Kind \ Dpc : t[k] < 2
     /\ \E kinds \in {Dpc \union DiskIo, Process \union Thread} :
          \A k \in Kind \ kinds : t[k] = 0}

\* The state of those that are not looked at does not matter.
Pinned ==
  /\ producer # "extraction" => stacks
  /\ producer # "search" => setting = [r \in Resolver |-> "unset"]
  /\ producer # "finalizer" => trace = NoRows /\ held["cswitch_events"] = "rows"

MCInit ==
  /\ producer \in {"extraction", "search", "finalizer"}
  /\ Init /\ BootInit /\ AggregationInit /\ Pinned

Extracts  == producer = "extraction" /\ Next /\ UNCHANGED <<bootVars, aggregationVars>>
Searches  == producer = "search" /\ BootNext /\ UNCHANGED <<vars, aggregationVars>>
Finalizes == producer = "finalizer" /\ AggregationNext /\ UNCHANGED <<vars, bootVars>>

MCNext == UNCHANGED producer /\ (Extracts \/ Searches \/ Finalizes)

MCSpec == MCInit /\ [][MCNext]_MCVars
=============================================================================
