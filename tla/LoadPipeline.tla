---------------------------- MODULE LoadPipeline ----------------------------
(***************************************************************************)
(* What a loader does once it runs (_load_trace_blocking and the functions *)
(* it calls in tools/trace_mgmt.py): the choice of a pipeline, the cache,  *)
(* the chain of fallbacks, registration, the background dumper, and the    *)
(* tools that wait for it (trace_state.py).                                *)
(*                                                                         *)
(* One server, one path, one export directory, whose trace file may be     *)
(* replaced by a newer one.  Loads follow each other (LoadJobs); the       *)
(* dumper threads they start go on beside later loads.  Every dataset      *)
(* carries where it comes from: the pipeline that decoded it and the       *)
(* version of the trace file it decoded.                                   *)
(***************************************************************************)
EXTENDS Naturals, FiniteSets, ModeResolution

CONSTANTS
  Tool,         \* tool calls that wait for the dumper
  MaxLoads,     \* number of loads
  Versions,     \* number of versions of the trace file
  Uses,         \* pairs of a host and a mode argument that it is called with
  OldCaches,    \* may the directory hold a cache of a release without manifests?
  Overlap,      \* may the trace file be replaced while a dumper runs?
  Prompt,       \* does a loader reach its wait before its thread has decoded the file?
  Faults        \* may extractions and exports fail?

ASSUME ConstantsAssumption ==
  /\ {MaxLoads, Versions} \subseteq Nat \ {0}
  /\ Uses \subseteq Host \X Request
  /\ {OldCaches, Overlap, Prompt, Faults} \subseteq BOOLEAN

VARIABLES
  etl,       \* the current version of the trace file
  host,      \* what this host offers
  auto,      \* _AUTO_CACHED
  loader,    \* the running load
  dir,       \* the export directory
  trace,     \* [load -> the TraceData object it made]
  registry,  \* _traces: [version, which the trace id names -> load, or 0]
  tool       \* [Tool -> the trace it waits for, and whether it is blocked]

vars == <<etl, host, auto, loader, dir, trace, registry, tool>>

-----------------------------------------------------------------------------
Load    == 1 .. MaxLoads
Version == 1 .. Versions

\* Tables in raw_csv, and event classes on attributes: dumper_df comes first.
Table == {"cpu_sampling", "stacks"}
Class == {"SampledProfile", "CSwitch"}
Name  == Table \cup Class

Source  == [by : {"native", "xperf"}, etl : Version]
Nothing == [by |-> "none", etl |-> 0]
Data    == [Name -> Source \cup {Nothing}]
NoData  == [n \in Name |-> Nothing]

Present(data) == {n \in Name : data[n] # Nothing}

\* The pipeline whose data a mode shows: the sidecar and the in-process
\* consumer share one cache format.
Family(mode) == IF mode = "xperf" THEN "xperf" ELSE "native"

Manifest == [by : {"native", "xperf"}, etl : Version, stream : BOOLEAN, lists : SUBSET Name]
NoManifest == [by |-> "none", etl |-> 0, stream |-> FALSE, lists |-> {}]

\* html: the version of stack-butterfly.html, 0 if there is none; texts: some
\* text of an xperf export is there; touched: the version that was current when
\* the directory last changed.
Directory == [file : Data, html : 0 .. Versions, texts : BOOLEAN,
              manifest : Manifest \cup {NoManifest}, touched : Version]
EmptyDir == [file |-> NoData, html |-> 0, texts |-> FALSE, manifest |-> NoManifest, touched |-> 1]

\* A pre-manifest cache of xperf.
OldCache == [EmptyDir EXCEPT
  !.file = [n \in Name |-> IF n \in Table THEN [by |-> "xperf", etl |-> 1] ELSE Nothing],
  !.html = 1, !.texts = TRUE]

Thread == {"off", "extracting", "storing", "aggregating", "closing", "done", "dead"}
Running(i) == trace[i].thread \in {"extracting", "storing", "aggregating", "closing"}

NoTrace == [mode |-> "xperf", etl |-> 1, data |-> NoData, stream |-> FALSE,
            thread |-> "off", ready |-> FALSE, error |-> FALSE]

NoWait == [for |-> 0, blocked |-> FALSE]

Idle == [pc |-> "idle", load |-> 0, arg |-> "auto", force |-> FALSE, mode |-> "xperf",
         cached |-> FALSE, reply |-> "none"]

Init ==
  /\ etl = 1
  /\ host \in {u[1] : u \in Uses}
  /\ auto = "none"
  /\ loader = Idle
  /\ dir \in {EmptyDir} \cup (IF OldCaches THEN {OldCache} ELSE {})
  /\ trace = [i \in Load |-> NoTrace]
  /\ registry = [v \in Version |-> 0]
  /\ tool = [t \in Tool |-> NoWait]

Registered == {registry[v] : v \in Version} \ {0}

Quiet == loader.pc = "idle" /\ \A i \in Load : ~Running(i)

At(pc) == [loader EXCEPT !.pc = pc]
Answered(reply) == [loader EXCEPT !.pc = "idle", !.cached = FALSE, !.reply = reply]

Goto(pc) == loader' = At(pc)
Answer(reply) == loader' = Answered(reply)

-----------------------------------------------------------------------------
(* The cache *)

Listed(m, names) == \A n \in m.lists \cap names : dir.file[n] # Nothing

\* Mutant: any manifest of the mode will do.
CacheHitOfMode(mode) ==
  dir.manifest.by = Family(mode) /\ Listed(dir.manifest, Name)

\* _load_from_cache: a manifest must be of the mode, of this version of the
\* trace file, and what it lists must be there.  Without one the directory
\* may still be an old cache of xperf, if it is not older than the file.
CacheHit(mode) ==
  LET m == dir.manifest IN
  \/ /\ m.by = "native" /\ Family(mode) = "native" /\ m.etl = etl
     /\ Listed(m, Name)
     /\ m.stream \/ Class \subseteq m.lists
  \/ /\ m.by = "xperf" /\ mode = "xperf" /\ m.etl = etl
     /\ Listed(m, Table) /\ "cpu_sampling" \in m.lists
  \/ /\ m.by = "none" /\ mode = "xperf" /\ dir.texts
     /\ etl <= dir.touched
     /\ dir.file["cpu_sampling"] # Nothing

\* The tables a cache hit puts into raw_csv.
CachedTables ==
  [n \in Name |->
     IF n \in Table /\ (dir.manifest.by = "none" \/ n \in dir.manifest.lists)
       THEN dir.file[n] ELSE Nothing]

\* _cached_dumper_paths_for_trace
RehydrationNames(mode, version) ==
  LET m == dir.manifest IN
  CASE m.by = "none" -> IF mode = "xperf" /\ dir.texts THEN Class ELSE {}
    [] m.by = "native" -> IF Family(mode) = "native" /\ m.etl = version /\ Listed(m, Name)
                             /\ Class \subseteq m.lists
                            THEN Class ELSE {}
    [] m.by = "xperf" -> IF mode = "xperf" /\ m.etl = version THEN m.lists \cap Class ELSE {}

\* _write_cache_manifest: stems are the event classes that may be listed.  It
\* writes nothing unless what the mode requires is on disk.
WithManifest(d, mode, data, stems) ==
  LET tables == {n \in Table : data[n] # Nothing /\ d.file[n] # Nothing}
      events == {c \in stems : d.file[c] # Nothing}
      complete == IF mode = "native" THEN events = Class ELSE "cpu_sampling" \in tables
  IN IF complete
       THEN [d EXCEPT !.manifest = [by |-> Family(mode), etl |-> etl, stream |-> FALSE,
                                    lists |-> tables \cup events]]
       ELSE d

-----------------------------------------------------------------------------
(* The loader *)

\* load_trace: modes that cannot be used, time limits for pipelines that have
\* none, and a missing xperf are answered at once.
Call(arg, limited) ==
  LET m == Guarded(arg, host, ResolveMode(arg, host, auto))
      refused == \/ m = "refused"
                 \/ m = "native" /\ limited
                 \/ m = "xperf" /\ ~host.xperf
  IN /\ loader.pc = "idle" /\ loader.load < MaxLoads
     /\ <<host, arg>> \in Uses
     /\ auto' = Remembered(arg, host, auto)
     /\ \E force \in BOOLEAN :
          IF refused
            THEN UNCHANGED loader
            ELSE loader' = [pc |-> "begin", load |-> loader.load + 1, arg |-> arg,
                            force |-> force, mode |-> m, cached |-> FALSE, reply |-> "none"]
     /\ UNCHANGED <<etl, host, dir, trace, registry, tool>>

\* The job writes its marker into the export directory before the loader
\* looks at it; a forced load empties the directory.
Begin ==
  /\ loader.pc = "begin"
  /\ dir' = IF loader.force THEN [EmptyDir EXCEPT !.touched = etl]
                            ELSE [dir EXCEPT !.touched = etl]
  /\ loader' = [loader EXCEPT !.pc = "probe", !.force = FALSE]
  /\ UNCHANGED <<etl, host, auto, trace, registry, tool>>

\* How a mode extracts when the cache does not serve it.
Dispatch(mode) ==
  CASE mode = "dotnet" \/ (mode = "native" /\ host.worker) -> "worker"
    [] mode = "native" /\ ~host.worker -> "inprocess"
    [] mode = "xperf" -> "export"

Probe ==
  /\ loader.pc = "probe"
  /\ IF CacheHit(loader.mode)
       THEN loader' = [loader EXCEPT !.pc = "restore", !.cached = TRUE]
       ELSE Goto(Dispatch(loader.mode))
  /\ UNCHANGED <<etl, host, auto, dir, trace, registry, tool>>

\* The supervised worker puts a complete cache in place of the directory, as
\* Extraction promises, flat or as an event store.
WorkerSucceeds ==
  /\ loader.pc = "worker"
  /\ \E stream \in BOOLEAN :
       dir' = [file |-> [n \in Name |-> [by |-> "native", etl |-> etl]],
               html |-> 0, texts |-> FALSE,
               manifest |-> [by |-> "native", etl |-> etl, stream |-> stream, lists |-> Name],
               touched |-> etl]
  /\ Goto("reload")
  /\ UNCHANGED <<etl, host, auto, trace, registry, tool>>

\* A failed worker leaves the directory as it was, or, if it fails between the
\* removal and the rename, no directory.
WorkerFails ==
  /\ Faults /\ loader.pc = "worker"
  /\ dir' \in {dir, [EmptyDir EXCEPT !.touched = etl]}
  /\ Goto("fallback")
  /\ UNCHANGED <<etl, host, auto, trace, registry, tool>>

\* The promoted cache must load; one that does not is removed.
Reload ==
  /\ loader.pc = "reload"
  /\ IF CacheHit(loader.mode)
       THEN loader' = [loader EXCEPT !.pc = "restore", !.cached = TRUE] /\ UNCHANGED dir
       ELSE Goto("fallback") /\ dir' = [EmptyDir EXCEPT !.touched = etl]
  /\ UNCHANGED <<etl, host, auto, trace, registry, tool>>

Forced == Candidate(loader.arg, host) = loader.mode

\* The next mode of the chain, "none" at its end.
NextMode ==
  CASE Forced -> "none"
    [] ~Forced /\ loader.mode = "dotnet" /\ host.worker -> "native"
    [] ~Forced /\ (loader.mode # "dotnet" \/ ~host.worker) ->
         IF host.xperf THEN "xperf" ELSE "none"

\* Mutant: a forced mode falls back like any other.
FallbackAlways ==
  /\ loader.pc = "fallback"
  /\ IF host.xperf
       THEN loader' = [loader EXCEPT !.pc = "probe", !.mode = "xperf"]
       ELSE Answer("failed")
  /\ UNCHANGED <<etl, host, auto, dir, trace, registry, tool>>

\* A failed worker: a forced mode gives up, the others go on with the next
\* mode, whose cache is probed first.
Fallback ==
  /\ loader.pc = "fallback"
  /\ IF NextMode = "none"
       THEN Answer("failed")
       ELSE loader' = [loader EXCEPT !.pc = "probe", !.mode = NextMode]
  /\ UNCHANGED <<etl, host, auto, dir, trace, registry, tool>>

\* The object a load registers; it replaces the one of an earlier load.
Register(i, data, stream, next) ==
  /\ trace' = [trace EXCEPT ![i] = [NoTrace EXCEPT
                 !.mode = loader.mode, !.etl = etl, !.data = data, !.stream = stream]]
  /\ registry' = [registry EXCEPT ![etl] = i]
  /\ loader' = next

\* _refresh_stack_cache_from_html: the butterfly of xperf, if there is one,
\* replaces the stacks of whatever was loaded.
Refreshed(data) ==
  IF dir.html = 0 THEN data
  ELSE [data EXCEPT !["stacks"] = [by |-> "xperf", etl |-> dir.html]]

\* _register_cached_trace.  An event store of the current manifest needs no
\* dumper, nor does a cache of the sidecar.
Restore ==
  LET i == loader.load
      data == Refreshed(CachedTables)
      stream == dir.manifest.by = "native" /\ dir.manifest.stream
  IN /\ loader.pc = "restore"
     /\ dir' = [dir EXCEPT !.file["stacks"] = IF dir.html = 0 THEN @ ELSE data["stacks"]]
     /\ CASE loader.mode = "xperf" -> Register(i, data, FALSE, At("stamp"))
          [] loader.mode # "xperf" /\ (stream \/ loader.mode = "dotnet") ->
               Register(i, data, stream, Answered("loaded"))
          [] loader.mode = "native" /\ ~stream -> Register(i, data, FALSE, At("dump"))
     /\ UNCHANGED <<etl, host, auto, tool>>

\* The in-process pipeline registers an empty trace and lets its dumper
\* thread decode everything.
RegisterInProcess ==
  /\ loader.pc = "inprocess"
  /\ Register(loader.load, NoData, FALSE, At("dump"))
  /\ UNCHANGED <<etl, host, auto, dir, tool>>

\* export_all_profiles: the exports fail one by one, unnoticed; what an
\* earlier load left stays on disk.
Export ==
  /\ loader.pc = "export"
  /\ \E done \in IF Faults THEN SUBSET Table ELSE {Table} :
       LET new == [by |-> "xperf", etl |-> etl]
           d == [dir EXCEPT
                   !.file = [n \in Name |-> IF n \in done THEN new ELSE dir.file[n]],
                   !.html = IF "stacks" \in done THEN etl ELSE @,
                   !.texts = @ \/ done # {}]
           data == [n \in Name |->
                      CASE n \in done -> new
                        [] n = "stacks" /\ n \notin done /\ d.html # 0 ->
                             [by |-> "xperf", etl |-> d.html]
                        [] OTHER -> Nothing]
       IN /\ dir' = [d EXCEPT !.file["stacks"] = IF d.html = 0 THEN @ ELSE data["stacks"]]
          /\ Register(loader.load, data, FALSE, At("stamp"))
  /\ UNCHANGED <<etl, host, auto, tool>>

ExportFails ==
  /\ Faults /\ loader.pc = "export"
  /\ Answer("failed")
  /\ UNCHANGED <<etl, host, auto, dir, trace, registry, tool>>

\* The manifest of an xperf load is written before its dumper starts, with no
\* event class in it.
Stamp ==
  /\ loader.pc = "stamp"
  /\ dir' = WithManifest(dir, "xperf", trace[loader.load].data, {})
  /\ Goto("dump")
  /\ UNCHANGED <<etl, host, auto, trace, registry, tool>>

\* Mutant: a class that is not on disk counts as rehydrated.
StartDumperHollow ==
  LET i == loader.load
  IN /\ loader.pc = "dump"
     /\ trace' = [trace EXCEPT ![i].thread = "done", ![i].ready = TRUE]
     /\ IF loader.mode = "native" THEN Goto("await") ELSE Answer("loaded")
     /\ UNCHANGED <<etl, host, auto, dir, registry, tool>>

\* _start_background_dumper: classes on disk are read back; if any is missing
\* a thread extracts the missing ones.
StartDumper ==
  LET i == loader.load
      back == {c \in RehydrationNames(trace[i].mode, trace[i].etl) : dir.file[c] # Nothing}
      data == [n \in Name |-> IF n \in back THEN dir.file[n] ELSE trace[i].data[n]]
      whole == Class \subseteq Present(data)
  IN /\ loader.pc = "dump"
     /\ trace' = [trace EXCEPT ![i].data = data,
                              ![i].ready = whole,
                              ![i].thread = IF whole THEN "off" ELSE "extracting"]
     /\ IF loader.mode = "native" THEN Goto("await") ELSE Answer("loaded")
     /\ UNCHANGED <<etl, host, auto, dir, registry, tool>>

\* wait_for_dumper returns at once if dumper_df is there or no thread was
\* started; otherwise it blocks until the thread signals.
NoBlock(i) == trace[i].data["SampledProfile"] # Nothing \/ trace[i].thread = "off"

AwaitBlocks ==
  /\ loader.pc = "await" /\ ~NoBlock(loader.load)
  /\ Goto("blocked")
  /\ UNCHANGED <<etl, host, auto, dir, trace, registry, tool>>

Waited(i) ==
  \/ loader.pc = "await" /\ NoBlock(i)
  \/ loader.pc = "blocked" /\ trace[i].ready

\* Mutant: a failed extraction is not noticed.
AwaitTrusting ==
  LET i == loader.load
  IN /\ Waited(i)
     /\ dir' = WithManifest(dir, "native", trace[i].data, Class)
     /\ Answer("loaded")
     /\ UNCHANGED <<etl, host, auto, trace, registry, tool>>

\* The native pipelines wait for their dumper.  After an error the trace is
\* taken out of the registry and the manifest removed (_native_load_failed);
\* otherwise missing tables are made up from the samples, and the in-process
\* pipeline writes its manifest.
Await ==
  LET i == loader.load
      samples == trace[i].data["SampledProfile"]
      data == [trace[i].data EXCEPT !["cpu_sampling"] = IF @ = Nothing THEN samples ELSE @]
      d == IF trace[i].data["cpu_sampling"] = Nothing /\ samples # Nothing
             THEN [dir EXCEPT !.file["cpu_sampling"] = samples] ELSE dir
  IN /\ Waited(i)
     /\ IF trace[i].error
          THEN /\ registry' = [registry EXCEPT ![trace[i].etl] = 0]
               /\ dir' = [dir EXCEPT !.manifest = NoManifest]
               /\ Answer("failed")
               /\ UNCHANGED trace
          ELSE /\ trace' = [trace EXCEPT ![i].data = data]
               /\ dir' = IF loader.cached THEN d ELSE WithManifest(d, "native", data, Class)
               /\ Answer("loaded")
               /\ UNCHANGED registry
     /\ UNCHANGED <<etl, host, auto, tool>>

-----------------------------------------------------------------------------
(* The dumper threads *)

Missing(i) == Class \ Present(trace[i].data)
Own(i) == [by |-> Family(trace[i].mode), etl |-> trace[i].etl]

ToThread(i, thread) == trace' = [trace EXCEPT ![i].thread = thread]

\* Mutant: the event is set only after a success.
ExtractFailsSilently(i) ==
  /\ Faults /\ trace[i].thread = "extracting"
  /\ trace' = [trace EXCEPT ![i].error = TRUE, ![i].thread = "done"]
  /\ UNCHANGED <<etl, host, auto, loader, dir, registry, tool>>

ExtractFails(i) ==
  /\ Faults /\ trace[i].thread = "extracting"
  /\ trace' = [trace EXCEPT ![i].error = TRUE, ![i].ready = TRUE, ![i].thread = "done"]
  /\ UNCHANGED <<etl, host, auto, loader, dir, registry, tool>>

\* The extraction has succeeded: one class after the other is put on its
\* attribute and on disk, SampledProfile first.
Store(i) ==
  LET c == IF "SampledProfile" \in Missing(i) THEN "SampledProfile" ELSE "CSwitch"
      rest == Missing(i) \ {c}
  IN /\ trace[i].thread \in {"extracting", "storing"}
     /\ Prompt => ~(loader.pc = "await" /\ loader.load = i)
     /\ trace' = [trace EXCEPT
          ![i].data[c] = Own(i),
          ![i].thread = CASE rest # {} -> "storing"
                          [] rest = {} /\ trace[i].mode = "native" -> "aggregating"
                          [] rest = {} /\ trace[i].mode # "native" -> "closing"]
     /\ dir' = [dir EXCEPT !.file[c] = Own(i)]
     /\ UNCHANGED <<etl, host, auto, loader, registry, tool>>

\* _run_native_aggregators: each table is made and kept, or its failure is
\* swallowed.
Aggregate(i) ==
  /\ trace[i].thread = "aggregating"
  /\ \E made \in IF Faults THEN SUBSET Table ELSE {Table} :
       /\ trace' = [trace EXCEPT
            ![i].data = [n \in Name |-> IF n \in made THEN Own(i) ELSE @[n]],
            ![i].thread = "closing"]
       /\ dir' = [dir EXCEPT !.file = [n \in Name |-> IF n \in made THEN Own(i) ELSE @[n]]]
  /\ UNCHANGED <<etl, host, auto, loader, registry, tool>>

\* The end of _extract: the manifest, with every class that is on disk, then
\* the event.
Close(i) ==
  /\ trace[i].thread = "closing"
  /\ dir' = WithManifest(dir, trace[i].mode, trace[i].data, Class)
  /\ trace' = [trace EXCEPT ![i].thread = "done", ![i].ready = TRUE]
  /\ UNCHANGED <<etl, host, auto, loader, registry, tool>>

-----------------------------------------------------------------------------
(* Tools and users *)

\* A tool looks the trace up and calls wait_for_dumper.
Query(t) ==
  /\ tool[t].for = 0
  /\ \E i \in Registered : tool' = [tool EXCEPT ![t].for = i]
  /\ UNCHANGED <<etl, host, auto, loader, dir, trace, registry>>

QueryBlocks(t) ==
  /\ tool[t].for # 0 /\ ~tool[t].blocked /\ ~NoBlock(tool[t].for)
  /\ tool' = [tool EXCEPT ![t].blocked = TRUE]
  /\ UNCHANGED <<etl, host, auto, loader, dir, trace, registry>>

\* The wait ends and the tool reads what it is after.
ReadTables(t) ==
  /\ tool[t].for # 0
  /\ IF tool[t].blocked THEN trace[tool[t].for].ready ELSE NoBlock(tool[t].for)
  /\ tool' = [tool EXCEPT ![t] = NoWait]
  /\ UNCHANGED <<etl, host, auto, loader, dir, trace, registry>>

\* A tool adds a table of its own to raw_csv while the dumper iterates over it
\* to write the manifest: the iteration fails inside the finally clause, and
\* the event is never set.
CacheTable ==
  /\ \E i \in Registered : trace[i].thread = "closing" /\ ToThread(i, "dead")
  /\ UNCHANGED <<etl, host, auto, loader, dir, registry, tool>>

Unload ==
  /\ \E i \in Registered : registry' = [registry EXCEPT ![trace[i].etl] = 0]
  /\ UNCHANGED <<etl, host, auto, loader, dir, trace, tool>>

ReplaceTrace ==
  /\ etl < Versions
  /\ loader.pc = "idle" /\ (Overlap \/ Quiet)
  /\ etl' = etl + 1
  /\ UNCHANGED <<host, auto, loader, dir, trace, registry, tool>>

-----------------------------------------------------------------------------
Loader ==
  \/ \E arg \in Request, limited \in BOOLEAN : Call(arg, limited)
  \/ Begin \/ Probe \/ WorkerSucceeds \/ WorkerFails \/ Reload \/ Fallback
  \/ Restore \/ RegisterInProcess \/ Export \/ ExportFails \/ Stamp
  \/ StartDumper \/ AwaitBlocks \/ Await

Dumper(i) == ExtractFails(i) \/ Store(i) \/ Aggregate(i) \/ Close(i)

Next ==
  \/ Loader
  \/ \E i \in Load : Dumper(i)
  \/ \E t \in Tool : Query(t) \/ QueryBlocks(t) \/ ReadTables(t)
  \/ CacheTable \/ Unload \/ ReplaceTrace

Spec == Init /\ [][Next]_vars

\* The loader's job thread and the dumper threads run on, and a released wait
\* returns.  Calls, queries and unloads are the user's.
Steps == Begin \/ Probe \/ WorkerSucceeds \/ WorkerFails \/ Reload \/ Fallback
  \/ Restore \/ RegisterInProcess \/ Export \/ ExportFails \/ Stamp
  \/ StartDumper \/ AwaitBlocks \/ Await

Fairness ==
  /\ WF_vars(Steps)
  /\ \A i \in Load : WF_vars(Dumper(i))
  /\ \A t \in Tool : WF_vars(QueryBlocks(t) \/ ReadTables(t))

FairSpec == Spec /\ Fairness

-----------------------------------------------------------------------------
LoaderPc == {"idle", "begin", "probe", "worker", "reload", "fallback", "inprocess",
             "export", "restore", "stamp", "dump", "await", "blocked"}

TraceData == [mode : Mode, etl : Version, data : Data, stream : BOOLEAN, thread : Thread,
              ready : BOOLEAN, error : BOOLEAN]

LoaderData == [pc : LoaderPc, load : 0 .. MaxLoads, arg : Request, force : BOOLEAN,
               mode : Mode, cached : BOOLEAN, reply : {"none", "failed", "loaded"}]

TypeOK ==
  /\ etl \in Version /\ host \in Host /\ auto \in Mode \cup {"none"}
  /\ loader \in LoaderData
  /\ dir \in Directory
  /\ trace \in [Load -> TraceData]
  /\ registry \in [Version -> 0 .. MaxLoads]
  /\ tool \in [Tool -> [for : 0 .. MaxLoads, blocked : BOOLEAN]]

\* "Explicit wins over graceful degradation": a load that was asked for one
\* pipeline, by argument or variable, never answers with another's data.
ForcedModeKept ==
  loader.reply = "loaded" /\ Candidate(loader.arg, host) \in Mode
    => trace[loader.load].mode = Candidate(loader.arg, host)

\* A native load that failed is not left in the registry, although its trace
\* was registered before anything was decoded.
FailureUnregistered ==
  \A i \in Load :
    trace[i].error /\ trace[i].mode = "native" /\ loader.pc = "idle" => i \notin Registered

\* A dumper that ended without an error, or that had nothing to do, leaves the
\* trace with every event class.
DumperCovers ==
  \A i \in Load :
    trace[i].ready /\ ~trace[i].error => Class \subseteq Present(trace[i].data)

\* What a trace of the native pipelines shows, but for the stacks, was decoded
\* from the version of the file the trace is of, whatever loads of any mode,
\* failures and replacements of the file came before.
OwnVersion ==
  \A i \in Load : \A n \in Present(trace[i].data) \ {"stacks"} :
    trace[i].mode # "xperf" => trace[i].data[n].etl = trace[i].etl

\* Every load ends with an answer, and every tool that waits for a dumper goes
\* on, unless the dumper thread died while it wrote its manifest.
WaitsEnd ==
  /\ loader.pc # "idle" ~> loader.pc = "idle" \/ trace[loader.load].thread = "dead"
  /\ \A t \in Tool : tool[t].for # 0 ~> tool[t].for = 0 \/ trace[tool[t].for].thread = "dead"

\* "Block until the background dumper extraction completes, then return the
\* DataFrame" (trace_state.py:150): the wait returns.
WaitsReturn == \A t \in Tool : tool[t].for # 0 ~> tool[t].for = 0

-----------------------------------------------------------------------------
(* What TypeOK, ForcedModeKept, FailureUnregistered and DumperCovers rest on *)

\* The trace of a load that has not come to register it does not exist.
Registering == loader.pc \in {"begin", "probe", "worker", "reload", "fallback",
                              "inprocess", "export", "restore"}
Fresh ==
  \A i \in Load :
    i > loader.load \/ (i = loader.load /\ Registering)
      => trace[i] = NoTrace /\ i \notin Registered

\* A registered trace has the version of the id it is registered under.
AtHome == \A v \in Version : registry[v] # 0 => trace[registry[v]].etl = v

\* A load does what it was asked for, and an answer ends it.
OnChain ==
  /\ loader.pc # "idle" => loader.load # 0 /\ loader.reply = "none"
  /\ loader.reply = "loaded" => loader.load # 0
  /\ loader.pc # "idle" /\ Candidate(loader.arg, host) \in Mode
       => loader.mode = Candidate(loader.arg, host)
  /\ loader.pc \in {"stamp", "dump", "await", "blocked"}
       => trace[loader.load].mode = loader.mode
  /\ loader.pc \in {"stamp", "dump"} =>
       /\ trace[loader.load].thread = "off" /\ ~trace[loader.load].error
       /\ loader.mode = "native" => Class \cap Present(trace[loader.load].data) = {}

\* A native load waits while its thread may still fail, and for its failure.
Waiting(i) == loader.load = i /\ loader.pc \in {"await", "blocked"}
LoaderWaits ==
  \A i \in Load : trace[i].mode = "native" =>
    /\ trace[i].thread = "extracting"
         => Waiting(i) /\ trace[i].data["SampledProfile"] = Nothing
    /\ trace[i].error => trace[i].thread = "done" /\ (i \in Registered => Waiting(i))
    /\ trace[i].error /\ Waiting(i) => trace[i].data["SampledProfile"] = Nothing

\* Past the last class to store, every class is there.
AllStored ==
  \A i \in Load :
    trace[i].thread \in {"aggregating", "closing"} \/ (trace[i].ready /\ ~trace[i].error)
      => Class \subseteq Present(trace[i].data)

IInv == TypeOK /\ Fresh /\ AtHome /\ OnChain /\ LoaderWaits /\ AllStored /\ ForcedModeKept

-----------------------------------------------------------------------------
(* What OwnVersion rests on, where the trace file is replaced only in       *)
(* between and loaders are prompt.                                          *)

\* Nothing is of a version to come; what still runs is of the current one.
UpToDate ==
  /\ dir.manifest.etl <= etl
  /\ \A i \in Load : trace[i].etl <= etl /\ (Running(i) => trace[i].etl = etl)
  /\ loader.pc \in {"stamp", "dump", "await", "blocked"} => trace[loader.load].etl = etl

\* Which modes come to which program point, and which traces have threads.
InMode ==
  /\ loader.pc \in {"export", "stamp"} => loader.mode = "xperf"
  /\ loader.pc \in {"inprocess", "await", "blocked"} => loader.mode = "native"
  /\ loader.pc = "dump" => loader.mode # "dotnet"
  /\ \A i \in Load : trace[i].thread # "off" => trace[i].mode # "dotnet"

\* A thread signals when it ends, and the native loader sees it to the end.
SeenToEnd ==
  /\ \A i \in Load : Running(i) => ~trace[i].ready
  /\ \A i \in Load : trace[i].mode = "native" /\ Running(i) => Waiting(i)
  /\ loader.pc \in {"await", "blocked"} /\ trace[loader.load].thread = "off"
       => trace[loader.load].ready
  /\ loader.pc = "await" =>
       \/ trace[loader.load].thread \in {"off", "extracting"}
       \/ trace[loader.load].thread = "done" /\ trace[loader.load].error

OfNow(n) == dir.file[n] = Nothing \/ dir.file[n].etl = etl

\* No file is older than a native manifest of the current version, once the load
\* that writes it is over; the load that reads one finds it still so.
ManifestOfNow ==
  (\/ loader.pc = "restore" /\ loader.mode # "xperf"
   \/ dir.manifest.by = "native" /\ dir.manifest.etl = etl /\ loader.pc \notin {"await", "blocked"})
    => \A n \in Name \ {"stacks"} : OfNow(n)

\* Nor is a file of what a native trace of the current version shows.
ShownOfNow ==
  \A i \in Load : \A n \in Present(trace[i].data) \ {"stacks"} :
    trace[i].mode # "xperf" /\ trace[i].etl = etl => OfNow(n)

OwnInv == UpToDate /\ InMode /\ SeenToEnd /\ ManifestOfNow /\ ShownOfNow /\ OwnVersion
=============================================================================
