-------------------------- MODULE AggregationWorker --------------------------
(***************************************************************************)
(* What becomes of a sidecar's files on their way into the cache           *)
(* (native/aggregation_worker.py): the run reads them into frames, names   *)
(* the processes of the context switches, replaces the raw DPC rows by a   *)
(* histogram, and writes the final manifest, by which the cache loader     *)
(* (tools/trace_mgmt.py) accepts or rejects the whole.                     *)
(*                                                                         *)
(* The sidecar writes each group of rows twice: all of them into one       *)
(* combined file, and those of each kind into a file of its own.  A row is *)
(* its kind.  The context switches are one row, whose process the thread   *)
(* rows tell and whose name the process rows tell.                         *)
(***************************************************************************)
EXTENDS Naturals, FiniteSets, FiniteSetsExt

CONSTANTS
  Traces,        \* the traces: [Kind -> number of its rows]
  DpcTextLimit,  \* dpc_rows beyond which the histogram is left to the tools
  MaxUnread,     \* bound: files of the sidecar that cannot be read
  MaxFailures    \* bound: writes and aggregators that fail

ASSUME AggregationLimits ==
  /\ DpcTextLimit \in Nat
  /\ MaxUnread \in Nat
  /\ MaxFailures \in Nat

VARIABLES
  trace,     \* the rows of the trace
  held,      \* [File -> what the staging directory holds under that name]
  frame,     \* [Kind -> rows of raw_csv under its name, counted by kind]
  switch,    \* what the frame of switches tells: [pid, name]
  table,     \* the histogram that is raw_csv["dpc_isr"], or NoRows
  stored,    \* datasets_written
  listed,    \* the datasets of the final manifest: [name, kind]
  step,      \* where the run, and then the loader, stands
  failures   \* writes and aggregators that failed

aggregationVars == <<trace, held, frame, switch, table, stored, listed, step, failures>>

Dpc     == {"DPC", "ISR"}     \* ThreadedDPC and TimerDPC are treated as ISR is
DiskIo  == {"Read", "Write"}  \* and FlushBuffers as Write
Process == {"Process/DCStart", "Process/Start"}
Thread  == {"Thread/DCStart", "Thread/End"}
Kind    == Dpc \union DiskIo \union Process \union Thread

\* _SIDECAR_AUX_STEMS: the combined files, and the kind under whose name each
\* of them is read.  There is none of threads.
Combined == {"dpc_isr", "diskio", "process"}
KindsOf  == [dpc_isr |-> Dpc, diskio |-> DiskIo, process |-> Process]
HostOf   == [dpc_isr |-> "DPC", diskio |-> "Read", process |-> "Process/DCStart"]

\* _DUMPER_EVENT_CLASSES: the files that the loader streams, and requires.
Dumper == Kind \union {"cswitch_events"}
File   == Dumper \union Combined \union {"cpu_sampling"}

ASSUME TracesAssumption == Traces \subseteq [Kind -> Nat]

NoRows == [k \in Kind |-> 0]
RowsOf(kinds) == [k \in Kind |-> IF k \in kinds THEN trace[k] ELSE 0]
Amount(rows) == MapThenSumSet(LAMBDA k : rows[k], Kind)

\* ParquetEmitter.WriteAllAsync: a group without rows has no files; one with
\* rows has those of all its kinds, empty or not.
Emitted ==
  LET present == {g \in {Dpc, DiskIo, Process, Thread} : \E k \in g : trace[k] > 0}
  IN (UNION present) \union {c \in Combined : KindsOf[c] \in present} \union {"cswitch_events"}

AggregationInit ==
  /\ trace \in Traces
  /\ \E unread \in SUBSET Emitted :
       /\ Cardinality(unread) <= MaxUnread
       /\ held = [f \in File |-> IF f \in unread THEN "torn"
                                 ELSE IF f \in Emitted THEN "rows" ELSE "absent"]
  /\ frame = [k \in Kind |-> NoRows]
  /\ switch = [pid |-> FALSE, name |-> FALSE]
  /\ table = NoRows
  /\ stored = {} /\ listed = {}
  /\ step = "read"
  /\ failures = 0

Then(from, to) == step = from /\ step' = to

Fails == failures < MaxFailures /\ failures' = failures + 1

\* to_parquet: a write that fails leaves the old file, a torn one, or none.
Written(f) == held' = [held EXCEPT ![f] = "derived"] /\ UNCHANGED failures
Spoilt(f)  == Fails /\ \E left \in {held[f], "torn", "absent"} : held' = [held EXCEPT ![f] = left]
WriteNothing == UNCHANGED <<held, failures>>

\* No staging directory, no manifest of the sidecar, or an unreadable one.
RefuseRun ==
  /\ Then("read", "failed") /\ Fails
  /\ UNCHANGED <<trace, held, frame, switch, table, stored, listed>>

Hosted(k) == {c \in Combined : HostOf[c] = k /\ held[c] = "rows"}
AllOf(cs) == RowsOf(UNION {KindsOf[c] : c \in cs})

\* Mutant: the combined file stays where it was put.
FrameCombinedFirst(k) ==
  IF Hosted(k) # {} THEN AllOf(Hosted(k))
  ELSE IF held[k] = "rows" THEN RowsOf({k}) ELSE NoRows

\* _build_trace_from_staging: the combined frame takes the name of its host;
\* the file of a kind takes its name back if it can be read and has rows.
FrameOf(k) ==
  IF held[k] = "rows" /\ trace[k] > 0 THEN RowsOf({k}) ELSE AllOf(Hosted(k))

ReadStaging ==
  /\ Then("read", "switches")
  /\ frame' = [k \in Kind |-> FrameOf(k)]
  /\ WriteNothing /\ UNCHANGED <<trace, switch, table, stored, listed>>

Some(kinds) == \E k \in kinds : frame[k] # NoRows

\* _run_native_aggregators: the threads tell the process of a switch, the
\* processes its name; the file is replaced if there are rows of either.
NameSwitches ==
  /\ Then("switches", "samples")
  /\ IF held["cswitch_events"] = "rows" /\ (Some(Thread) \/ Some(Process))
       THEN /\ switch' = [pid |-> Some(Thread), name |-> Some(Thread) /\ Some(Process)]
            /\ Written("cswitch_events") \/ Spoilt("cswitch_events")
       ELSE WriteNothing /\ UNCHANGED switch
  /\ UNCHANGED <<trace, frame, table, stored, listed>>

\* cpu_sampling stands for every table the sidecar has no file of.  It is not
\* there if there are no samples or the aggregator fails.
AggregateSamples ==
  /\ step = "samples"
  /\ \/ step' = "dpc" /\ (Written("cpu_sampling") \/ Spoilt("cpu_sampling"))
     \/ step' = "dpc without samples" /\ WriteNothing
  /\ UNCHANGED <<trace, frame, switch, table, stored, listed>>

\* _gather_dpc_events: the frames of all kinds, one after the other.
Gathered(one, other) == [k \in Kind |-> frame[one][k] + frame[other][k]]

\* The histogram; none for the largest traces, nor if the aggregator fails.
AggregateDpc ==
  /\ \/ Then("dpc", "persist samples") \/ Then("dpc without samples", "persist dpc")
  /\ LET rows == Gathered("DPC", "ISR")
     IN IF rows # NoRows /\ Amount(rows) <= DpcTextLimit
          THEN \/ table' = rows /\ (Written("dpc_isr") \/ Spoilt("dpc_isr"))
               \/ Fails /\ UNCHANGED <<held, table>>
          ELSE WriteNothing /\ UNCHANGED table
  /\ UNCHANGED <<trace, frame, switch, stored, listed>>

\* _persist_aggregator_outputs writes the tables once more and keeps the names
\* of those that it could write.
Persist(f) ==
  \/ Written(f) /\ stored' = stored \union {f}
  \/ Spoilt(f) /\ UNCHANGED stored

PersistSamples ==
  /\ Then("persist samples", "persist dpc")
  /\ Persist("cpu_sampling")
  /\ UNCHANGED <<trace, frame, switch, table, listed>>

PersistDpc ==
  /\ Then("persist dpc", "manifest")
  /\ IF table = NoRows THEN WriteNothing /\ UNCHANGED stored ELSE Persist("dpc_isr")
  /\ UNCHANGED <<trace, frame, switch, table, listed>>

\* The summary of the disks is a text under the name of a combined file.
Texts == IF Some(DiskIo) THEN {"diskio"} ELSE {}

\* Mutant: a text is registered whatever has its name.
TextEntriesAlways(names) == {[name |-> n, kind |-> "text"] : n \in Texts}

TextEntries(names) == {[name |-> n, kind |-> "text"] : n \in Texts \ names}

\* _rewrite_manifest: the sidecar's datasets, those of the loader's streams as
\* such; an empty file for each stream that the sidecar has none of, unless it
\* cannot be written; the new tables; and the texts whose names are free.
Registered(lost) ==
  LET streams == Dumper \ lost
      tables  == (Emitted \intersect Combined) \union {f \in stored : held[f] # "absent"}
  IN {[name |-> f, kind |-> "dumper-parquet"] : f \in streams}
       \union {[name |-> f, kind |-> "parquet"] : f \in tables}
       \union TextEntries(streams \union (Emitted \intersect Combined))

\* write_manifest refuses a name that is there twice and a file that is not.
Writable(entries) ==
  /\ \A d, e \in entries : d.name = e.name => d = e
  /\ \A e \in entries : e.kind # "text" => held'[e.name] # "absent"

RewriteManifest ==
  /\ step = "manifest"
  /\ \E lost \in SUBSET (Dumper \ Emitted) :
       /\ failures + Cardinality(lost) <= MaxFailures
       /\ failures' = failures + Cardinality(lost)
       /\ held' = [f \in File |-> IF f \in (Dumper \ Emitted) \ lost THEN "rows" ELSE held[f]]
       /\ listed' = Registered(lost)
       /\ step' = IF Writable(listed') THEN "ok" ELSE "failed"
  /\ UNCHANGED <<trace, frame, switch, table, stored>>

NamesOf(kinds) == {e.name : e \in {d \in listed : d.kind \in kinds}}

\* _load_native_v2_from_cache: every stream is there, and every table is read.
Accepts ==
  /\ Dumper \subseteq NamesOf({"dumper-parquet"})
  /\ \A f \in NamesOf({"parquet"}) : held[f] # "torn"

OpenCache ==
  /\ step = "ok"
  /\ step' = IF Accepts THEN "open" ELSE "rejected"
  /\ UNCHANGED <<trace, held, frame, switch, table, stored, listed, failures>>

AggregationNext ==
  \/ RefuseRun \/ ReadStaging \/ NameSwitches \/ AggregateSamples \/ AggregateDpc
  \/ PersistSamples \/ PersistDpc \/ RewriteManifest \/ OpenCache

AggregationSpec == AggregationInit /\ [][AggregationNext]_aggregationVars

(***************************************************************************)
(* What the tools say of an open cache                                     *)
(***************************************************************************)

\* get_dpc_summary: the histogram, or one of the rows if these are still there.
DpcAnswer == IF held["dpc_isr"] = "derived" THEN table
             ELSE IF held["dpc_isr"] = "rows" THEN RowsOf(Dpc) ELSE NoRows

\* get_diskio_summary: a text of that name, or the rows of the combined file by
\* the kind that they carry themselves.
DiskAnswer == IF "diskio" \in NamesOf({"text"}) THEN Gathered("Read", "Write")
              ELSE IF held["diskio"] = "rows" THEN RowsOf(DiskIo) ELSE NoRows

SwitchAnswer == IF held["cswitch_events"] = "derived" THEN switch
                ELSE [pid |-> FALSE, name |-> FALSE]

(***************************************************************************)
(* Properties                                                              *)
(***************************************************************************)

\* A run ends in a cache that opens (run_aggregation_worker,
\* _load_native_v2_from_cache), although the sidecar leaves out the files of what
\* the trace does not have and the run puts tables and texts in the place of some:
\* a run that fails has met a failure, a cache that is turned away has a table
\* that nobody can read or lacks a stream, and one that opens has neither.
CacheOpens ==
  LET damaged == \/ \E c \in Combined : held[c] = "torn"
                 \/ \E f \in Dumper : held[f] = "absent"
  IN /\ step = "failed" => failures > 0
     /\ step = "rejected" => damaged \/ held["cpu_sampling"] = "torn"
     /\ step = "open" => ~damaged

\* Every row of the trace is counted once (get_dpc_summary, get_diskio_summary),
\* whichever files could be read, and a switch has the process and the name that
\* some file tells.  The histogram of a trace without plain DPC rows, or with a
\* file of a kind that cannot be read, is left out: there the combined frame
\* stays beside those of the other kinds, or a kind is missing.  So are names
\* where a file of processes cannot be read.
AnswersExact ==
  step = "open" =>
    /\ DiskAnswer = RowsOf(DiskIo)
    /\ \/ DpcAnswer = RowsOf(Dpc)
       \/ held["dpc_isr"] = "derived" /\ (trace["DPC"] = 0 \/ \E k \in Dpc : held[k] = "torn")
    /\ LET told(kinds) == \E k \in kinds : trace[k] > 0 /\ held[k] # "torn"
           writable == failures = 0 /\ held["cswitch_events"] # "torn"
       IN writable /\ (\A k \in Process : held[k] # "torn") =>
            SwitchAnswer = [pid |-> told(Thread), name |-> told(Thread) /\ told(Process)]

(***************************************************************************)
(* Inductive invariants                                                    *)
(***************************************************************************)

BeforeManifest ==
  {"read", "switches", "samples", "dpc", "dpc without samples", "persist samples",
   "persist dpc", "manifest"}

AggregationTypeOK ==
  /\ trace \in [Kind -> Nat]
  /\ held \in [File -> {"rows", "torn", "absent", "derived"}]
  /\ frame \in [Kind -> [Kind -> Nat]]
  /\ switch \in [pid : BOOLEAN, name : BOOLEAN]
  /\ table \in [Kind -> Nat]
  /\ stored \subseteq {"cpu_sampling", "dpc_isr"}
  /\ \A e \in listed : e.name \in File /\ e.kind \in {"dumper-parquet", "parquet", "text"}
  /\ step \in BeforeManifest \union {"ok", "failed", "open", "rejected"}
  /\ failures \in Nat

\* What becomes of the sidecar's files: only those of the switches and the
\* combined one of DPCs are ever written over, and only a failure leaves them
\* absent; a stream the sidecar has none of is absent until the manifest is made.
FilesKept ==
  /\ \A k \in Kind \intersect Emitted : held[k] \in {"rows", "torn"}
  /\ \A k \in Kind \ Emitted :
       held[k] = "absent" \/ (step \notin BeforeManifest /\ held[k] = "rows")
  /\ held["cswitch_events"] = "absent" => failures > 0
  /\ \A c \in {"diskio", "process"} :
       IF c \in Emitted THEN held[c] \in {"rows", "torn"} ELSE held[c] = "absent"
  /\ IF "dpc_isr" \in Emitted THEN held["dpc_isr"] = "absent" => failures > 0
                              ELSE held["dpc_isr"] = "absent"
  /\ step = "failed" => failures > 0

\* The frames are what the files say: that of DPCs was read before the
\* histogram took the place of the combined file.
Framed ==
  IF step = "read" THEN \A k \in Kind : frame[k] = NoRows
  ELSE step # "failed" =>
    /\ \A k \in Kind \ {"DPC"} : frame[k] = FrameOf(k)
    /\ frame["DPC"] # NoRows => \E k \in Dpc : trace[k] > 0
    /\ held["DPC"] = "rows" /\ trace["DPC"] > 0 => frame["DPC"] = RowsOf({"DPC"})

Tabled ==
  /\ table # NoRows => table = Gathered("DPC", "ISR")
  /\ held["dpc_isr"] = "derived" \/ "dpc_isr" \in stored => table # NoRows
  /\ step = "read" => table = NoRows

SwitchesNamed ==
  IF step \in {"read", "switches"} THEN held["cswitch_events"] \in {"rows", "torn"}
  ELSE step # "failed" =>
    LET named == [pid |-> Some(Thread), name |-> Some(Thread) /\ Some(Process)]
    IN /\ held["cswitch_events"] = "derived" => switch = named
       /\ held["cswitch_events"] = "rows" =>
            failures > 0 \/ named = [pid |-> FALSE, name |-> FALSE]

\* What a manifest lists: every stream that is there, every combined file, and no
\* text in the place of one.
Listed ==
  step \in {"ok", "open", "rejected"} =>
    /\ NamesOf({"dumper-parquet"}) = {f \in Dumper : held[f] # "absent"}
    /\ NamesOf({"parquet"}) \subseteq Combined \union {"cpu_sampling"}
    /\ \A c \in Combined \intersect Emitted : c \in NamesOf({"parquet"}) /\ held[c] # "absent"
    /\ "diskio" \notin NamesOf({"text"})

Opened ==
  /\ step = "open" => Accepts
  /\ step = "rejected" => ~Accepts

AggregationInv ==
  /\ AggregationTypeOK /\ FilesKept /\ Framed /\ Tabled /\ SwitchesNamed /\ Listed /\ Opened
=============================================================================
