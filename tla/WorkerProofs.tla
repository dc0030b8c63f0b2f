----------------------------- MODULE WorkerProofs -----------------------------
(***************************************************************************)
(* The processes that the server starts.  For any number of resolvers and  *)
(* any length of the executable, only another thread at the temporary file *)
(* can spoil a download of the sidecar.  For every trace, and whatever     *)
(* cannot be read or written, the cache that a run of the aggregation      *)
(* worker leaves opens unless it met a failure, and what the tools say of  *)
(* it counts every row once.  For any number of attempts and replacements  *)
(* of the trace file, the supervisor promotes only what was finished,      *)
(* leaves nothing behind, and implements Extraction.                       *)
(***************************************************************************)
EXTENDS SidecarBootstrap, AggregationWorker, WorkerSupervisor, FiniteSetTheorems, TLAPS

-----------------------------------------------------------------------------
(* The sidecar *)

\* Whoever writes has a file, with what it wrote in it unless another touched it;
\* and who has written or verified it has all of it, unless another touched it.
WriterHasFile == \A r \in Resolver : at[r] = "write" => partial # Absent
WriterHasBlocks ==
  \A r \in Resolver : at[r] = "write" /\ ~touched[r] => 1 .. written[r] \subseteq partial
InstallerHasAll ==
  \A r \in Resolver : at[r] \in {"verify", "install"} /\ ~touched[r] => partial = Whole

BootInv == BootTypeOK /\ WriterHasFile /\ WriterHasBlocks /\ InstallerHasAll

LEMMA BootInitInv == BootInit => BootInv
  BY BlocksAssumption DEF BootInit, BootInv, BootTypeOK, WriterHasFile, WriterHasBlocks,
     InstallerHasAll, Settings, Stops, Answers, Absent, Whole

\* Steps of one resolver that leave the files and who touched them alone, and do
\* not enter the download, its check or its installation, keep the invariant.
LEMMA StepsAside ==
  ASSUME BootInv, NEW r \in Resolver, NEW to \in {"idle", "connect", "undo", "runs"},
         NEW what \in Answers,
         at' = [at EXCEPT ![r] = to], answer' = [answer EXCEPT ![r] = what] \/ answer' = answer,
         UNCHANGED <<setting, binary, partial, written, touched>>
  PROVE  BootInv'
<1>1. BootTypeOK'
  BY DEF BootInv, BootTypeOK, Stops
<1>2. \A q \in Resolver : at'[q] \in {"write", "verify", "install"} => at'[q] = at[q]
  BY DEF BootInv, BootTypeOK
<1>3. WriterHasFile' /\ WriterHasBlocks' /\ InstallerHasAll'
  BY <1>2 DEF BootInv, WriterHasFile, WriterHasBlocks, InstallerHasAll, Absent, Whole
<1> QED BY <1>1, <1>3 DEF BootInv

LEMMA BootStepInv == BootInv /\ [BootNext]_bootVars => BootInv'
<1> SUFFICES ASSUME BootInv, [BootNext]_bootVars PROVE BootInv'
  OBVIOUS
<1>1. ASSUME NEW r \in Resolver, ReturnNamed(r) PROVE BootInv'
  BY <1>1 DEF ReturnNamed, Answered, files, BootInv, BootTypeOK, WriterHasFile,
     WriterHasBlocks, InstallerHasAll, Absent, Whole, Answers
<1>2. ASSUME NEW r \in Resolver, ReturnCached(r) PROVE BootInv'
  BY <1>2, StepsAside DEF ReturnCached, Goto, Answered, files, Answers
<1>3. ASSUME NEW r \in Resolver, Refuse(r) PROVE BootInv'
  BY <1>3 DEF Refuse, Answered, files, BootInv, BootTypeOK, WriterHasFile,
     WriterHasBlocks, InstallerHasAll, Absent, Whole, Answers
<1>4. ASSUME NEW r \in Resolver, StartFetch(r) PROVE BootInv'
  BY <1>4, StepsAside DEF StartFetch, Goto, Answered, files, Answers
<1>5. ASSUME NEW r \in Resolver, OpenPartial(r) PROVE BootInv'
  <2>1. BootTypeOK'
    BY <1>5, BlocksAssumption
    DEF OpenPartial, Goto, Touch, BootInv, BootTypeOK, Stops, Whole, Absent
  <2>2. WriterHasFile'
    BY <1>5 DEF OpenPartial, WriterHasFile, Absent
  <2>3. \A q \in Resolver : ~touched'[q] => q = r
    BY <1>5 DEF OpenPartial, Touch, BootInv, BootTypeOK
  <2>4. at'[r] = "write" /\ written'[r] = 0 /\ 1 .. 0 = {}
    BY <1>5 DEF OpenPartial, Goto, BootInv, BootTypeOK
  <2>5. WriterHasBlocks' /\ InstallerHasAll'
    BY <2>3, <2>4 DEF WriterHasBlocks, InstallerHasAll
  <2> QED BY <2>1, <2>2, <2>5 DEF BootInv
<1>6. ASSUME NEW r \in Resolver, WriteBlock(r) PROVE BootInv'
  <2>1. partial \in SUBSET Whole /\ written[r] + 1 \in Whole /\ written[r] \in Nat
    BY <1>6, BlocksAssumption DEF WriteBlock, BootInv, BootTypeOK, WriterHasFile, Whole
  <2>2. partial' = partial \union {written[r] + 1} /\ partial' \in SUBSET Whole
    BY <1>6, <2>1 DEF WriteBlock
  <2>3. BootTypeOK'
    BY <1>6, <2>1, <2>2 DEF WriteBlock, BootInv, BootTypeOK, Whole
  <2>4. WriterHasFile'
    BY <1>6, <2>2, BlocksAssumption DEF WriteBlock, WriterHasFile, Whole, Absent
  <2>5. ASSUME NEW q \in Resolver, at'[q] = "write", ~touched'[q]
        PROVE  1 .. written'[q] \subseteq partial'
    <3>1. 1 .. written[q] \subseteq partial
      BY <1>6, <2>5 DEF WriteBlock, BootInv, WriterHasBlocks
    <3>2. CASE q = r
      <4>1. written'[q] = written[q] + 1
        BY <1>6, <3>2 DEF WriteBlock, BootInv, BootTypeOK
      <4>2. 1 .. (written[q] + 1) = (1 .. written[q]) \union {written[q] + 1}
        BY <2>1, <3>2
      <4> QED BY <3>1, <3>2, <4>1, <4>2, <2>2
    <3>3. CASE q # r
      <4>1. written'[q] = written[q]
        BY <1>6, <3>3 DEF WriteBlock, BootInv, BootTypeOK
      <4> QED BY <3>1, <4>1, <2>2
    <3> QED BY <3>2, <3>3
  <2>6. InstallerHasAll'
    BY <1>6, <2>2 DEF WriteBlock, BootInv, InstallerHasAll, Whole
  <2> QED BY <2>3, <2>4, <2>5, <2>6 DEF BootInv, WriterHasBlocks
<1>7. ASSUME NEW r \in Resolver, CompleteFetch(r) PROVE BootInv'
  <2>1. BootTypeOK' /\ WriterHasFile' /\ WriterHasBlocks'
    BY <1>7 DEF CompleteFetch, Goto, files, BootInv, BootTypeOK, WriterHasFile,
       WriterHasBlocks, Stops, Whole, Absent
  <2>2. ~touched[r] => partial = Whole
    BY <1>7 DEF CompleteFetch, Goto, BootInv, BootTypeOK, WriterHasFile, WriterHasBlocks, Whole
  <2>3. InstallerHasAll'
    BY <1>7, <2>2 DEF CompleteFetch, Goto, files, BootInv, BootTypeOK, InstallerHasAll, Whole
  <2> QED BY <2>1, <2>3 DEF BootInv
<1>8. ASSUME NEW r \in Resolver, BreakFetch(r) PROVE BootInv'
  BY <1>8, StepsAside DEF BreakFetch, Answered, files, Answers
<1>9. ASSUME NEW r \in Resolver, Undo(r) PROVE BootInv'
  <2>1. CASE Held(r)
    BY <1>9, <2>1, StepsAside DEF Undo, Goto, Answered, Answers
  <2>2. CASE ~Held(r)
    <3>1. \A q \in Resolver : at'[q] # "write"
      BY <1>9, <2>2 DEF Undo, Goto, Held, HeldBy, BootInv, BootTypeOK
    <3>2. \A q \in Resolver : at'[q] \in {"verify", "install"} => touched'[q]
      BY <1>9, <2>2 DEF Undo, Goto, Touch, BootInv, BootTypeOK
    <3>3. BootTypeOK'
      BY <1>9, <2>2 DEF Undo, Goto, Touch, BootInv, BootTypeOK, Stops
    <3> QED BY <3>1, <3>2, <3>3 DEF BootInv, WriterHasFile, WriterHasBlocks, InstallerHasAll
  <2> QED BY <2>1, <2>2
<1>10. ASSUME NEW r \in Resolver, SkipVerify(r) PROVE BootInv'
  BY <1>10 DEF SkipVerify, Goto, files, BootInv, BootTypeOK, WriterHasFile,
     WriterHasBlocks, InstallerHasAll, Stops, Whole, Absent
<1>11. ASSUME NEW r \in Resolver, Verify(r) PROVE BootInv'
  <2>1. CASE partial = Whole
    BY <1>11, <2>1 DEF Verify, files, BootInv, BootTypeOK, WriterHasFile,
       WriterHasBlocks, InstallerHasAll, Stops, Whole, Absent
  <2>2. CASE partial # Whole
    BY <1>11, <2>2, StepsAside DEF Verify, Answered, files, Answers
  <2> QED BY <2>1, <2>2
<1>12. ASSUME NEW r \in Resolver, Install(r) PROVE BootInv'
  <2>1. \A q \in Resolver : at'[q] # "write"
    BY <1>12 DEF Install, Held, HeldBy, BootInv, BootTypeOK
  <2>2. \A q \in Resolver : at'[q] \in {"verify", "install"} => touched'[q]
    BY <1>12 DEF Install, Touch, BootInv, BootTypeOK
  <2>3. BootTypeOK'
    BY <1>12 DEF Install, Answered, Touch, BootInv, BootTypeOK, Stops, Answers
  <2> QED BY <2>1, <2>2, <2>3 DEF BootInv, WriterHasFile, WriterHasBlocks, InstallerHasAll
<1>13. ASSUME NEW r \in Resolver, FailInstall(r) PROVE BootInv'
  BY <1>13, StepsAside DEF FailInstall, Goto, Answered, files, Answers
<1>14. ASSUME NEW r \in Resolver, Leave(r) PROVE BootInv'
  BY <1>14, StepsAside DEF Leave, Goto, files, Answers
<1>15. ASSUME NEW r \in Resolver, Dies(r) PROVE BootInv'
  BY <1>15, StepsAside DEF Dies, Answered, files, Answers
<1>16. CASE UNCHANGED bootVars
  BY <1>16 DEF bootVars, files, BootInv, BootTypeOK, WriterHasFile, WriterHasBlocks,
     InstallerHasAll, Absent, Whole
<1> QED
  BY <1>1, <1>2, <1>3, <1>4, <1>5, <1>6, <1>7, <1>8, <1>9, <1>10, <1>11, <1>12, <1>13,
     <1>14, <1>15, <1>16 DEF BootNext

\* The temporary file has what its writers wrote (_fetch_sidecar), in every
\* reachable state.
THEOREM BootInvariance == BootSpec => []BootInv
<1>1. BootInit => BootInv
  BY BootInitInv
<1>2. BootInv /\ [BootNext]_bootVars => BootInv'
  BY BootStepInv
<1> QED BY <1>1, <1>2, PTL DEF BootSpec

\* One step of _fetch_sidecar: what is installed, and who may raise an OSError.
LEMMA BootStepSpoilt ==
  ASSUME BootInv, BootNext, NEW r \in Resolver
  PROVE  /\ binary' # binary /\ at'[r] # at[r] => binary' = Whole \/ touched[r]
         /\ answer'[r] = "OSError" /\ answer[r] # "OSError" => touched[r] \/ Held(r) \/ InUse
<1> Whole # Absent
  BY BlocksAssumption DEF Whole, Absent
<1>1. PICK q \in Resolver :
        \/ ReturnNamed(q) \/ ReturnCached(q) \/ Refuse(q) \/ StartFetch(q)
        \/ OpenPartial(q) \/ WriteBlock(q) \/ CompleteFetch(q) \/ BreakFetch(q) \/ Undo(q)
        \/ SkipVerify(q) \/ Verify(q) \/ Install(q) \/ FailInstall(q)
        \/ Leave(q) \/ Dies(q)
  BY DEF BootNext
<1>2. CASE Install(q)
  <2>1. binary' = partial /\ (at'[r] # at[r] => r = q) /\ at[q] = "install"
    BY <1>2 DEF Install, BootInv, BootTypeOK
  <2>2. answer'[r] = "OSError" => answer[r] = "OSError"
    BY <1>2 DEF Install, Answered, BootInv, BootTypeOK
  <2> QED BY <2>1, <2>2 DEF BootInv, InstallerHasAll
<1>3. CASE Undo(q)
  BY <1>3 DEF Undo, Answered, BootInv, BootTypeOK
<1>4. CASE Verify(q)
  BY <1>4 DEF Verify, Answered, files, BootInv, BootTypeOK, InstallerHasAll
<1>5. CASE FailInstall(q)
  BY <1>5 DEF FailInstall, Goto, Answered, files, BootInv, BootTypeOK, InstallerHasAll
<1>6. CASE ReturnNamed(q) \/ ReturnCached(q) \/ Refuse(q) \/ StartFetch(q)
  BY <1>6 DEF ReturnNamed, ReturnCached, Refuse, StartFetch, Answered, files, BootInv, BootTypeOK
<1>7. CASE OpenPartial(q) \/ WriteBlock(q) \/ CompleteFetch(q) \/ SkipVerify(q) \/ Leave(q)
  BY <1>7 DEF OpenPartial, WriteBlock, CompleteFetch, SkipVerify, Leave, files
<1>8. CASE BreakFetch(q) \/ Dies(q)
  BY <1>8 DEF BreakFetch, Dies, Answered, files, BootInv, BootTypeOK
<1> QED BY <1>1, <1>2, <1>3, <1>4, <1>5, <1>6, <1>7, <1>8

\* SpoiltByOthersOnly (_fetch_sidecar), for any threads and any executable.
THEOREM BootSpoiltByOthersOnly == BootSpec => SpoiltByOthersOnly
<1> DEFINE Step ==
      \A r \in Resolver :
        /\ binary' # binary /\ at'[r] # at[r] => binary' = Whole \/ touched[r]
        /\ answer'[r] = "OSError" /\ answer[r] # "OSError" => touched[r] \/ Held(r) \/ InUse
<1>1. BootInv /\ [BootNext]_bootVars => [Step]_bootVars
  BY BootStepSpoilt
<1>2. BootSpec => []BootInv
  BY BootInvariance
<1> QED BY <1>1, <1>2, PTL DEF BootSpec, SpoiltByOthersOnly

-----------------------------------------------------------------------------
(* The aggregation worker: names *)

Has(kinds) == \E k \in kinds : trace[k] > 0

LEMMA NamesApart ==
  /\ Dpc \subseteq Kind /\ DiskIo \subseteq Kind /\ Process \subseteq Kind /\ Thread \subseteq Kind
  /\ Kind \subseteq Dumper /\ Dumper \subseteq File /\ Combined \subseteq File
  /\ "cswitch_events" \in Dumper \ Kind /\ "cpu_sampling" \in File \ (Dumper \union Combined)
  /\ Dumper \intersect Combined = {}
  /\ File = Dumper \union Combined \union {"cpu_sampling"}
  /\ Dumper = Kind \union {"cswitch_events"}
  BY DEF Dpc, DiskIo, Process, Thread, Kind, Dumper, File, Combined

\* A group of kinds has all of its files or none.
LEMMA EmittedIs ==
  /\ \A k \in Dpc : k \in Emitted <=> Has(Dpc)
  /\ \A k \in DiskIo : k \in Emitted <=> Has(DiskIo)
  /\ \A k \in Process : k \in Emitted <=> Has(Process)
  /\ \A k \in Thread : k \in Emitted <=> Has(Thread)
  /\ "dpc_isr" \in Emitted <=> Has(Dpc)
  /\ "diskio" \in Emitted <=> Has(DiskIo)
  /\ "process" \in Emitted <=> Has(Process)
  /\ "cswitch_events" \in Emitted /\ "cpu_sampling" \notin Emitted
  /\ Emitted \subseteq File
  <1> DEFINE present == {g \in {Dpc, DiskIo, Process, Thread} : Has(g)}
             combined == {c \in Combined : KindsOf[c] \in present}
  <1>1. Emitted = (UNION present) \union combined \union {"cswitch_events"}
    BY DEF Emitted, Has
  <1>2. \A g : g \in present <=> (g = Dpc \/ g = DiskIo \/ g = Process \/ g = Thread) /\ Has(g)
    OBVIOUS
  <1>3. \A f : f \in UNION present <=>
          \/ f \in Dpc /\ Has(Dpc)
          \/ f \in DiskIo /\ Has(DiskIo)
          \/ f \in Process /\ Has(Process)
          \/ f \in Thread /\ Has(Thread)
    <2> HIDE DEF present
    <2> QED BY <1>2
  <1>4. KindsOf["dpc_isr"] = Dpc /\ KindsOf["diskio"] = DiskIo /\ KindsOf["process"] = Process
    BY DEF KindsOf
  <1>5. Dpc # DiskIo /\ Dpc # Process /\ DiskIo # Process
    BY DEF Dpc, DiskIo, Process
  <1>6. \A f : f \in combined <=>
          \/ f = "dpc_isr" /\ Has(Dpc)
          \/ f = "diskio" /\ Has(DiskIo)
          \/ f = "process" /\ Has(Process)
    <2>1. (Dpc \in present <=> Has(Dpc)) /\ (DiskIo \in present <=> Has(DiskIo))
          /\ (Process \in present <=> Has(Process))
      OBVIOUS
    <2> HIDE DEF present
    <2> QED BY <1>4, <2>1 DEF Combined
  <1>7. \A f : f \in Emitted <=> f \in UNION present \/ f \in combined \/ f = "cswitch_events"
    BY <1>1
  <1> HIDE DEF present, combined
  <1>8. \A f : f \in Emitted <=>
          \/ f \in Dpc /\ Has(Dpc)
          \/ f \in DiskIo /\ Has(DiskIo)
          \/ f \in Process /\ Has(Process)
          \/ f \in Thread /\ Has(Thread)
          \/ f = "dpc_isr" /\ Has(Dpc)
          \/ f = "diskio" /\ Has(DiskIo)
          \/ f = "process" /\ Has(Process)
          \/ f = "cswitch_events"
    BY <1>3, <1>6, <1>7
  <1> QED BY <1>8 DEF Dpc, DiskIo, Process, Thread, Kind, Dumper, File, Combined

LEMMA EmittedSame ==
  ASSUME trace' = trace
  PROVE  Emitted' = Emitted /\ \A kinds : RowsOf(kinds)' = RowsOf(kinds)
  BY DEF Emitted, RowsOf

\* What a write does to the file it is for.
LEMMA WrittenOrSpoilt ==
  ASSUME AggregationTypeOK, NEW f \in File, Written(f) \/ Spoilt(f)
  PROVE  /\ held' \in [File -> {"rows", "torn", "absent", "derived"}]
         /\ \A g \in File \ {f} : held'[g] = held[g]
         /\ failures' \in Nat /\ failures' >= failures
         /\ held'[f] # "derived" => failures' > 0 /\ held'[f] \in {held[f], "torn", "absent"}
         /\ held'[f] = "derived" \/ held'[f] \in {held[f], "torn", "absent"}
         /\ Spoilt(f) => failures' > 0
  BY SMTT(30) DEF Written, Spoilt, Fails, AggregationTypeOK

LEMMA RowTypes ==
  ASSUME AggregationTypeOK
  PROVE  /\ NoRows \in [Kind -> Nat]
         /\ \A kinds : RowsOf(kinds) \in [Kind -> Nat]
         /\ \A k \in Kind : FrameOf(k) \in [Kind -> Nat]
         /\ \A j, k \in Kind : Gathered(j, k) \in [Kind -> Nat]
  <1>1. NoRows \in [Kind -> Nat]
    BY DEF NoRows
  <1>2. ASSUME NEW kinds PROVE RowsOf(kinds) \in [Kind -> Nat]
    BY DEF RowsOf, AggregationTypeOK
  <1>3. \A k \in Kind : FrameOf(k) \in [Kind -> Nat]
    BY <1>2 DEF FrameOf, AllOf
  <1>4. \A j, k \in Kind : Gathered(j, k) \in [Kind -> Nat]
    BY DEF Gathered, AggregationTypeOK
  <1> QED BY <1>1, <1>2, <1>3, <1>4

-----------------------------------------------------------------------------
(* The aggregation worker: the initial state *)

LEMMA AggregationInitInv == AggregationInit => AggregationInv
  <1> SUFFICES ASSUME AggregationInit PROVE AggregationInv
    OBVIOUS
  <1>1. PICK unread \in SUBSET Emitted :
          held = [f \in File |-> IF f \in unread THEN "torn"
                                 ELSE IF f \in Emitted THEN "rows" ELSE "absent"]
    BY DEF AggregationInit
  <1>2. \A f \in File : /\ f \in Emitted => held[f] \in {"rows", "torn"}
                        /\ f \notin Emitted => held[f] = "absent"
    BY <1>1
  <1>3. /\ step = "read" /\ failures = 0 /\ listed = {} /\ stored = {} /\ table = NoRows
        /\ frame = [k \in Kind |-> NoRows] /\ switch = [pid |-> FALSE, name |-> FALSE]
        /\ trace \in [Kind -> Nat]
    BY TracesAssumption DEF AggregationInit
  <1>4. AggregationTypeOK
    <2>1. held \in [File -> {"rows", "torn", "absent", "derived"}]
      BY <1>1
    <2> QED BY <1>3, <2>1 DEF AggregationTypeOK, BeforeManifest, NoRows
  <1>5. FilesKept
    <2>1. "cswitch_events" \in Emitted
      BY EmittedIs
    <2> QED BY <1>2, <1>3, <2>1, NamesApart DEF FilesKept, BeforeManifest, Combined
  <1>6. Framed /\ Tabled
    <2>1. held["dpc_isr"] # "derived"
      BY <1>2, NamesApart DEF Combined
    <2> QED BY <1>3, <2>1 DEF Framed, Tabled
  <1>7. SwitchesNamed
    <2>1. "cswitch_events" \in Emitted /\ "cswitch_events" \in File
      BY EmittedIs
    <2> QED BY <1>2, <1>3, <2>1 DEF SwitchesNamed
  <1>8. Listed /\ Opened
    BY <1>3 DEF Listed, Opened
  <1> QED BY <1>4, <1>5, <1>6, <1>7, <1>8 DEF AggregationInv

-----------------------------------------------------------------------------
(* The manifest *)

LEMMA TextIsNoStream ==
  ASSUME AggregationTypeOK, FilesKept, Framed, step \notin {"read", "failed"}
  PROVE  Some(DiskIo) => "diskio" \in Emitted
  <1> SUFFICES ASSUME ~Has(DiskIo) PROVE ~Some(DiskIo)
    BY EmittedIs
  <1>1. held["diskio"] = "absent"
    BY EmittedIs DEF FilesKept
  <1>2. \A k \in DiskIo : trace[k] = 0
    BY NamesApart DEF Has, AggregationTypeOK
  <1>3. ASSUME NEW k \in DiskIo PROVE frame[k] = NoRows
    <2>1. frame[k] = FrameOf(k)
      <3>1. k \in Kind \ {"DPC"}
        BY DEF DiskIo, Dpc, Kind
      <3> QED BY <3>1 DEF Framed
    <2>2. Hosted(k) = {}
      BY <1>1 DEF Hosted, HostOf, Combined, DiskIo
    <2>3. AllOf({}) = NoRows
      BY DEF AllOf, RowsOf, NoRows
    <2> QED BY <1>2, <2>1, <2>2, <2>3 DEF FrameOf
  <1> QED BY <1>3 DEF Some

LEMMA DumperIsFinite == IsFiniteSet(Dumper)
  <1>1. Dumper = {"DPC"} \union {"ISR"} \union {"Read"} \union {"Write"}
                 \union {"Process/DCStart"} \union {"Process/Start"}
                 \union {"Thread/DCStart"} \union {"Thread/End"} \union {"cswitch_events"}
    BY DEF Dumper, Kind, Dpc, DiskIo, Process, Thread
  <1> QED BY <1>1, FS_Singleton, FS_Union

\* What RewriteManifest does to the files and the list.
LEMMA RewriteFacts ==
  ASSUME AggregationTypeOK, FilesKept, Framed, RewriteManifest
  PROVE  /\ failures' \in Nat /\ failures' >= failures
         /\ held' \in [File -> {"rows", "torn", "absent", "derived"}]
         /\ \A f \in File : held'[f] # held[f] => f \in Dumper \ Emitted /\ held'[f] = "rows"
         /\ \A f \in Dumper \ Emitted : held'[f] \in {"absent", "rows"}
         /\ \A e \in listed' : e.name \in File /\ e.kind \in {"dumper-parquet", "parquet", "text"}
         /\ failures' = 0 => step' = "ok"
         /\ step' \in {"ok", "failed"}
         /\ step' = "ok" => Listed'
  <1>1. PICK lost \in SUBSET (Dumper \ Emitted) :
          /\ failures' = failures + Cardinality(lost)
          /\ held' = [f \in File |-> IF f \in (Dumper \ Emitted) \ lost THEN "rows" ELSE held[f]]
          /\ listed' = Registered(lost)
          /\ step' = IF Writable(listed') THEN "ok" ELSE "failed"
    BY DEF RewriteManifest
  <1>2. failures' \in Nat /\ failures' >= failures
    <2>1. IsFiniteSet(lost)
      <3>1. lost \subseteq Dumper
        OBVIOUS
      <3> QED BY <3>1, DumperIsFinite, FS_Subset
    <2>2. Cardinality(lost) \in Nat
      BY <2>1, FS_CardinalityType
    <2> QED BY <1>1, <2>2 DEF AggregationTypeOK
  <1>3. held' \in [File -> {"rows", "torn", "absent", "derived"}]
    BY <1>1 DEF AggregationTypeOK
  <1>4. \A f \in Dumper \ Emitted : held[f] = "absent"
    <2>1. "cswitch_events" \in Emitted
      BY EmittedIs
    <2>2. step \in BeforeManifest
      BY DEF RewriteManifest, BeforeManifest
    <2> QED BY <2>1, <2>2, NamesApart DEF FilesKept
  <1>5. \A f \in File : held'[f] # held[f] => f \in Dumper \ Emitted /\ held'[f] = "rows"
    BY <1>1
  <1>6. \A f \in Dumper \ Emitted : held'[f] = IF f \in lost THEN "absent" ELSE "rows"
    BY <1>1, <1>4, NamesApart
  <1> DEFINE streams == Dumper \ lost
             tables == (Emitted \intersect Combined) \union {f \in stored : held[f] # "absent"}
             texts == Texts \ (streams \union (Emitted \intersect Combined))
  <1>7. listed' = {[name |-> f, kind |-> "dumper-parquet"] : f \in streams}
                    \union {[name |-> f, kind |-> "parquet"] : f \in tables}
                    \union {[name |-> n, kind |-> "text"] : n \in texts}
    BY <1>1 DEF Registered, TextEntries
  <1>8. /\ streams \subseteq Dumper /\ tables \subseteq Combined \union {"cpu_sampling"}
        /\ texts = {}
    <2>1. texts = {}
      <3>1. step \notin {"read", "failed"}
        BY DEF RewriteManifest
      <3>2. Some(DiskIo) => "diskio" \in Emitted \intersect Combined
        BY <3>1, TextIsNoStream DEF Combined
      <3> QED BY <3>2 DEF Texts
    <2> QED BY <2>1 DEF AggregationTypeOK, Combined
  <1> HIDE DEF streams, tables, texts
  <1>9. \A e : e \in listed' <=> \/ e.name \in streams /\ e = [name |-> e.name, kind |-> "dumper-parquet"]
                                 \/ e.name \in tables /\ e = [name |-> e.name, kind |-> "parquet"]
    BY <1>7, <1>8
  <1>10. \A d, e \in listed' : d.name = e.name => d = e
    <2>1. streams \intersect tables = {}
      BY <1>8, NamesApart
    <2> QED BY <1>9, <2>1
  <1>11. \A e \in listed' : e.name \in File /\ e.kind \in {"dumper-parquet", "parquet", "text"}
    BY <1>8, <1>9, NamesApart
  <1>12. ASSUME failures' = 0 PROVE step' = "ok"
    <2>1. failures = 0
      BY <1>2, <1>12 DEF AggregationTypeOK
    <2>2. \A f \in streams : held'[f] # "absent"
      <3>1. \A f \in Dumper \intersect Emitted : held[f] # "absent"
        BY <2>1, NamesApart DEF FilesKept
      <3>2. \A f \in Dumper \intersect Emitted : held'[f] # "absent"
        BY <1>5, <3>1, NamesApart
      <3> QED BY <1>6, <3>2 DEF streams
    <2>3. \A f \in tables : held'[f] # "absent"
      <3>1. \A f \in Emitted \intersect Combined : held[f] # "absent"
        BY <2>1 DEF FilesKept, Combined
      <3>2. \A f \in tables : held[f] # "absent" /\ f \in File
        BY <1>8, <3>1, NamesApart DEF tables
      <3> QED BY <1>5, <3>2
    <2>4. \A e \in listed' : held'[e.name] # "absent"
      BY <1>9, <2>2, <2>3
    <2>5. Writable(listed')
      BY <1>10, <2>4 DEF Writable
    <2> QED BY <1>1, <2>5
  <1>13. ASSUME step' = "ok" PROVE Listed'
    <2>1. \A e \in listed' : e.kind # "text" => held'[e.name] # "absent"
      BY <1>1, <1>13 DEF Writable
    <2>2. /\ NamesOf({"dumper-parquet"})' = streams
          /\ NamesOf({"parquet"})' = tables
          /\ NamesOf({"text"})' = {}
      <3> DEFINE named(kinds) == {e.name : e \in {d \in listed' : d.kind \in kinds}}
      <3>1. \A f \in streams : [name |-> f, kind |-> "dumper-parquet"] \in listed'
        BY <1>7
      <3>2. \A f \in tables : [name |-> f, kind |-> "parquet"] \in listed'
        BY <1>7
      <3>3. \A e \in listed' : \/ e.name \in streams /\ e.kind = "dumper-parquet"
                               \/ e.name \in tables /\ e.kind = "parquet"
        BY <1>9
      <3>4. named({"dumper-parquet"}) = streams
        <4>1. ASSUME NEW f \in streams PROVE f \in named({"dumper-parquet"})
          <5> DEFINE e == [name |-> f, kind |-> "dumper-parquet"]
          <5>1. e \in listed' /\ e.name = f /\ e.kind = "dumper-parquet"
            BY <3>1
          <5> HIDE DEF e
          <5> QED BY <5>1
        <4>2. ASSUME NEW f \in named({"dumper-parquet"}) PROVE f \in streams
          BY <3>3
        <4> QED BY <4>1, <4>2
      <3>5. named({"parquet"}) = tables
        <4>1. ASSUME NEW f \in tables PROVE f \in named({"parquet"})
          <5> DEFINE e == [name |-> f, kind |-> "parquet"]
          <5>1. e \in listed' /\ e.name = f /\ e.kind = "parquet"
            BY <3>2
          <5> HIDE DEF e
          <5> QED BY <5>1
        <4>2. ASSUME NEW f \in named({"parquet"}) PROVE f \in tables
          BY <3>3
        <4> QED BY <4>1, <4>2
      <3>6. named({"text"}) = {}
        BY <3>3
      <3> QED BY <3>4, <3>5, <3>6 DEF NamesOf
    <2>3. streams = {f \in Dumper : held'[f] # "absent"}
      <3>1. \A f \in streams : held'[f] # "absent"
        <4> SUFFICES ASSUME NEW f \in streams PROVE held'[f] # "absent"
          OBVIOUS
        <4>1. [name |-> f, kind |-> "dumper-parquet"] \in listed'
          BY <1>7
        <4> QED BY <2>1, <4>1
      <3>2. \A f \in lost : held'[f] = "absent"
        BY <1>6
      <3> QED BY <3>1, <3>2 DEF streams
    <2>4. \A c \in Combined \intersect Emitted : c \in tables /\ held'[c] # "absent"
      <3> SUFFICES ASSUME NEW c \in Combined \intersect Emitted PROVE c \in tables /\ held'[c] # "absent"
        OBVIOUS
      <3>1. c \in tables
        BY DEF tables
      <3>2. [name |-> c, kind |-> "parquet"] \in listed'
        BY <1>7, <3>1
      <3> QED BY <2>1, <3>1, <3>2
    <2>5. Emitted' = Emitted
      <3>1. trace' = trace
        BY DEF RewriteManifest
      <3> QED BY <3>1, EmittedSame
    <2> QED BY <1>8, <2>2, <2>3, <2>4, <2>5 DEF Listed
  <1> QED BY <1>1, <1>2, <1>3, <1>5, <1>6, <1>11, <1>12, <1>13

-----------------------------------------------------------------------------
(* Types and files *)

\* Only one action makes the histogram.
LEMMA TableStep ==
  ASSUME AggregationNext
  PROVE  table' = table \/ (AggregateDpc /\ table' = Gathered("DPC", "ISR") /\ table' # NoRows)
  BY DEF AggregationNext, RefuseRun, ReadStaging, NameSwitches, AggregateSamples,
         AggregateDpc, PersistSamples, PersistDpc, RewriteManifest, OpenCache

\* There is no histogram of a trace without DPCs.
LEMMA NothingGathered ==
  ASSUME AggregationTypeOK, Framed, ~Has(Dpc), step \notin {"read", "failed"}
  PROVE  Gathered("DPC", "ISR") = NoRows
  <1>1. frame["DPC"] = NoRows
    BY DEF Framed, Has
  <1>2. frame["ISR"] = NoRows
    <2>1. "ISR" \in Kind \ {"DPC"} /\ "ISR" \in Dpc
      BY DEF Kind, Dpc
    <2>2. frame["ISR"] = FrameOf("ISR")
      BY <2>1 DEF Framed
    <2>3. HostOf["dpc_isr"] = "DPC" /\ HostOf["diskio"] = "Read" /\ HostOf["process"] = "Process/DCStart"
      BY DEF HostOf
    <2>4. Hosted("ISR") = {}
      BY <2>3 DEF Hosted, Combined
    <2>5. AllOf({}) = NoRows
      BY DEF AllOf, RowsOf, NoRows
    <2> QED BY <2>1, <2>2, <2>4, <2>5 DEF FrameOf, Has
  <1>3. \A k \in Kind : NoRows[k] = 0
    BY DEF NoRows
  <1>4. \A k \in Kind : frame["DPC"][k] + frame["ISR"][k] = 0
    BY <1>1, <1>2, <1>3
  <1> QED BY <1>4 DEF Gathered, NoRows

\* What any step but the manifest does to the files: the switches are written
\* over when they are named, and the combined DPC rows by their histogram.
LEMMA FilesWritten ==
  ASSUME AggregationInv, AggregationNext, ~RewriteManifest
  PROVE  /\ trace' = trace /\ listed' = listed
         /\ failures' \in Nat /\ failures' >= failures
         /\ held' \in [File -> {"rows", "torn", "absent", "derived"}]
         /\ \A f \in File \ {"cswitch_events", "dpc_isr", "cpu_sampling"} : held'[f] = held[f]
         /\ held'["cswitch_events"] # held["cswitch_events"] =>
              /\ step = "switches" /\ held["cswitch_events"] = "rows"
              /\ held'["cswitch_events"] = "absent" => failures' > 0
         /\ held'["dpc_isr"] # held["dpc_isr"] =>
              /\ step \in {"dpc", "dpc without samples", "persist dpc"} /\ table' # NoRows
              /\ held'["dpc_isr"] = "absent" => failures' > 0
         /\ held'["dpc_isr"] = "derived" => held["dpc_isr"] = "derived" \/ table' # NoRows
  <1>0. AggregationTypeOK /\ failures \in Nat
        /\ "cswitch_events" \in File /\ "dpc_isr" \in File /\ "cpu_sampling" \in File
    BY NamesApart DEF AggregationInv, AggregationTypeOK, Combined
  <1>1. CASE RefuseRun
    BY <1>0, <1>1 DEF RefuseRun, Then, Fails, AggregationTypeOK
  <1>2. CASE ReadStaging
    BY <1>0, <1>2 DEF ReadStaging, Then, WriteNothing, AggregationTypeOK
  <1>3. CASE NameSwitches
    <2>1. CASE Written("cswitch_events") \/ Spoilt("cswitch_events")
      <3>1. step = "switches" /\ UNCHANGED <<trace, listed, table>>
        BY <1>3 DEF NameSwitches, Then
      <3>2. held["cswitch_events"] = "rows" \/ (WriteNothing /\ held' = held)
        BY <1>3 DEF NameSwitches, WriteNothing
      <3> QED BY <1>0, <2>1, <3>1, <3>2, WrittenOrSpoilt
    <2>2. CASE WriteNothing
      BY <1>0, <1>3, <2>2 DEF NameSwitches, Then, WriteNothing, AggregationTypeOK
    <2> QED BY <1>3, <2>1, <2>2 DEF NameSwitches
  <1>4. CASE AggregateSamples \/ PersistSamples
    <2>1. UNCHANGED <<trace, listed, table>> /\ step # "manifest"
      BY <1>4 DEF AggregateSamples, PersistSamples, Then
    <2>2. CASE Written("cpu_sampling") \/ Spoilt("cpu_sampling")
      BY <1>0, <2>1, <2>2, WrittenOrSpoilt
    <2>3. CASE WriteNothing
      BY <1>0, <2>1, <2>3 DEF WriteNothing, AggregationTypeOK
    <2> QED BY <1>4, <2>2, <2>3 DEF AggregateSamples, PersistSamples, Persist
  <1>5. CASE AggregateDpc
    <2>1. UNCHANGED <<trace, listed>> /\ step \in {"dpc", "dpc without samples"}
      BY <1>5 DEF AggregateDpc, Then
    <2>2. CASE table' # NoRows /\ (Written("dpc_isr") \/ Spoilt("dpc_isr"))
      BY <1>0, <2>1, <2>2, WrittenOrSpoilt
    <2>3. CASE failures' \in Nat /\ failures' >= failures /\ held' = held
      BY <1>0, <2>1, <2>3 DEF AggregationTypeOK
    <2>4. \/ table' # NoRows /\ (Written("dpc_isr") \/ Spoilt("dpc_isr"))
          \/ Fails /\ held' = held
          \/ WriteNothing
      BY <1>5 DEF AggregateDpc
    <2>5. (Fails /\ held' = held) \/ WriteNothing => failures' \in Nat /\ failures' >= failures /\ held' = held
      BY <1>0 DEF Fails, WriteNothing
    <2> QED BY <2>2, <2>3, <2>4, <2>5
  <1>6. CASE PersistDpc
    <2>1. UNCHANGED <<trace, listed, table>> /\ step = "persist dpc"
      BY <1>6 DEF PersistDpc, Then
    <2>2. CASE table # NoRows /\ (Written("dpc_isr") \/ Spoilt("dpc_isr"))
      BY <1>0, <2>1, <2>2, WrittenOrSpoilt
    <2>3. CASE WriteNothing
      <3>1. held' = held /\ failures' = failures
        BY <2>3 DEF WriteNothing
      <3>2. held' \in [File -> {"rows", "torn", "absent", "derived"}]
        BY <1>0, <3>1 DEF AggregationTypeOK
      <3>3. failures' \in Nat /\ failures' >= failures
        BY <1>0, <3>1
      <3> QED BY <2>1, <3>1, <3>2, <3>3
    <2> QED BY <1>6, <2>2, <2>3 DEF PersistDpc, Persist
  <1>7. CASE OpenCache
    BY <1>0, <1>7 DEF OpenCache, AggregationTypeOK
  <1> QED BY <1>1, <1>2, <1>3, <1>4, <1>5, <1>6, <1>7 DEF AggregationNext

LEMMA AggregationTypeStep ==
  ASSUME AggregationInv, AggregationNext
  PROVE  AggregationTypeOK'
  <1>0. AggregationTypeOK
    BY DEF AggregationInv
  <1>1. trace' \in [Kind -> Nat]
    <2>1. trace' = trace
      BY DEF AggregationNext, RefuseRun, ReadStaging, NameSwitches, AggregateSamples, AggregateDpc,
             PersistSamples, PersistDpc, RewriteManifest, OpenCache
    <2> QED BY <1>0, <2>1 DEF AggregationTypeOK
  <1>2. held' \in [File -> {"rows", "torn", "absent", "derived"}] /\ failures' \in Nat
        /\ \A e \in listed' : e.name \in File /\ e.kind \in {"dumper-parquet", "parquet", "text"}
    <2>1. CASE RewriteManifest
      BY <2>1, RewriteFacts DEF AggregationInv
    <2>2. CASE ~RewriteManifest
      <3>1. listed' = listed
        BY <2>2 DEF AggregationNext, RefuseRun, ReadStaging, NameSwitches, AggregateSamples, AggregateDpc,
               PersistSamples, PersistDpc, OpenCache
      <3> QED BY <1>0, <2>2, <3>1, FilesWritten DEF AggregationTypeOK
    <2> QED BY <2>1, <2>2
  <1>3. frame' \in [Kind -> [Kind -> Nat]]
    <2>1. CASE ReadStaging
      BY <1>0, <2>1, RowTypes DEF ReadStaging
    <2>2. CASE ~ReadStaging
      <3>1. frame' = frame
        BY <2>2 DEF AggregationNext, RefuseRun, NameSwitches, AggregateSamples, AggregateDpc,
               PersistSamples, PersistDpc, RewriteManifest, OpenCache
      <3> QED BY <1>0, <3>1 DEF AggregationTypeOK
    <2> QED BY <2>1, <2>2
  <1>4. switch' \in [pid : BOOLEAN, name : BOOLEAN]
    <2>1. CASE NameSwitches
      <3>1. Some(Thread) \in BOOLEAN /\ (Some(Thread) /\ Some(Process)) \in BOOLEAN
        BY DEF Some
      <3>2. \/ switch' = [pid |-> Some(Thread), name |-> Some(Thread) /\ Some(Process)]
            \/ switch' = switch
        BY <2>1 DEF NameSwitches
      <3>3. switch \in [pid : BOOLEAN, name : BOOLEAN]
        BY <1>0 DEF AggregationTypeOK
      <3>4. \A p, n \in BOOLEAN : [pid |-> p, name |-> n] \in [pid : BOOLEAN, name : BOOLEAN]
        OBVIOUS
      <3>5. [pid |-> Some(Thread), name |-> Some(Thread) /\ Some(Process)] \in [pid : BOOLEAN, name : BOOLEAN]
        BY <3>1, <3>4, Zenon
      <3> QED BY <3>2, <3>3, <3>5, Zenon
    <2>2. CASE ~NameSwitches
      <3>1. switch' = switch
        BY <2>2 DEF AggregationNext, RefuseRun, ReadStaging, AggregateSamples, AggregateDpc,
               PersistSamples, PersistDpc, RewriteManifest, OpenCache
      <3> QED BY <1>0, <3>1 DEF AggregationTypeOK
    <2> QED BY <2>1, <2>2
  <1>5. table' \in [Kind -> Nat]
    <2>1. CASE AggregateDpc
      <3>1. table' = table \/ table' = Gathered("DPC", "ISR")
        BY <2>1 DEF AggregateDpc
      <3>2. "DPC" \in Kind /\ "ISR" \in Kind
        BY DEF Kind, Dpc
      <3> QED BY <1>0, <3>1, <3>2, RowTypes DEF AggregationTypeOK
    <2>2. CASE ~AggregateDpc
      <3>1. table' = table
        BY <2>2 DEF AggregationNext, RefuseRun, ReadStaging, NameSwitches, AggregateSamples,
               PersistSamples, PersistDpc, RewriteManifest, OpenCache
      <3> QED BY <1>0, <3>1 DEF AggregationTypeOK
    <2> QED BY <2>1, <2>2
  <1>6. stored' \subseteq {"cpu_sampling", "dpc_isr"}
    BY <1>0 DEF AggregationNext, RefuseRun, ReadStaging, NameSwitches, AggregateSamples, AggregateDpc,
       PersistSamples, PersistDpc, Persist, RewriteManifest, OpenCache, AggregationTypeOK
  <1>7. step' \in BeforeManifest \union {"ok", "failed", "open", "rejected"}
    BY <1>0 DEF AggregationNext, RefuseRun, ReadStaging, NameSwitches, AggregateSamples, AggregateDpc,
       PersistSamples, PersistDpc, Then, RewriteManifest, OpenCache, AggregationTypeOK, BeforeManifest
  <1> QED BY <1>1, <1>2, <1>3, <1>4, <1>5, <1>6, <1>7 DEF AggregationTypeOK

LEMMA FilesStep ==
  ASSUME AggregationInv, AggregationNext
  PROVE  FilesKept'
  <1>0. AggregationTypeOK /\ FilesKept /\ Framed /\ Tabled
    BY DEF AggregationInv
  <1>1. trace' = trace /\ Emitted' = Emitted
    BY EmittedSame DEF AggregationNext, RefuseRun, ReadStaging, NameSwitches, AggregateSamples,
       AggregateDpc, PersistSamples, PersistDpc, RewriteManifest, OpenCache
  <1>2. CASE RewriteManifest
    <2>1. /\ failures' \in Nat /\ failures' >= failures /\ failures \in Nat
          /\ \A f \in File : held'[f] # held[f] => f \in Dumper \ Emitted /\ held'[f] = "rows"
          /\ \A f \in Dumper \ Emitted : held'[f] \in {"absent", "rows"}
          /\ failures' = 0 => step' = "ok"
          /\ step' \in {"ok", "failed"}
      BY <1>0, <1>2, RewriteFacts DEF AggregationTypeOK
    <2>2. \A f \in Combined \union (Dumper \intersect Emitted) : held'[f] = held[f]
      BY <2>1, NamesApart
    <2>3. \A k \in Kind \intersect Emitted : held'[k] \in {"rows", "torn"}
      BY <1>0, <2>2, NamesApart DEF FilesKept
    <2>4. \A k \in Kind \ Emitted : held'[k] = "absent" \/ (step' \notin BeforeManifest /\ held'[k] = "rows")
      BY <2>1, NamesApart DEF BeforeManifest
    <2>5. held'["cswitch_events"] = held["cswitch_events"]
      BY <2>2, NamesApart, EmittedIs
    <2> QED BY <1>0, <1>1, <2>1, <2>2, <2>3, <2>4, <2>5 DEF FilesKept, Combined
  <1>3. CASE ~RewriteManifest
    <2>1. /\ failures' \in Nat /\ failures' >= failures /\ failures \in Nat
          /\ \A f \in File \ {"cswitch_events", "dpc_isr", "cpu_sampling"} : held'[f] = held[f]
          /\ held'["cswitch_events"] # held["cswitch_events"] /\ held'["cswitch_events"] = "absent"
               => failures' > 0
          /\ held'["dpc_isr"] # held["dpc_isr"] =>
               /\ step \in {"dpc", "dpc without samples", "persist dpc"} /\ table' # NoRows
               /\ held'["dpc_isr"] = "absent" => failures' > 0
      BY <1>0, <1>3, FilesWritten DEF AggregationTypeOK
    <2>2. \A f \in Kind \union {"diskio", "process"} : held'[f] = held[f]
      BY <2>1, NamesApart, ZenonT(40) DEF Kind, Dpc, DiskIo, Process, Thread, Combined
    <2>3. step \in BeforeManifest \/ step' \notin BeforeManifest
      BY <1>3 DEF AggregationNext, RefuseRun, ReadStaging, NameSwitches, AggregateSamples,
         AggregateDpc, PersistSamples, PersistDpc, OpenCache, Then, BeforeManifest
    <2>4. step' = "failed" => failures' > 0
      <3>1. CASE RefuseRun
        BY <2>1, <3>1 DEF RefuseRun, Fails
      <3>2. CASE ~RefuseRun
        BY <1>3, <3>2 DEF AggregationNext, ReadStaging, NameSwitches, AggregateSamples,
           AggregateDpc, PersistSamples, PersistDpc, OpenCache, Then
      <3> QED BY <3>1, <3>2
    <2>5. "dpc_isr" \notin Emitted => held'["dpc_isr"] = held["dpc_isr"]
      <3> SUFFICES ASSUME ~Has(Dpc), step \in {"dpc", "dpc without samples", "persist dpc"}
                   PROVE  table' = NoRows
        BY <2>1, EmittedIs
      <3>1. Gathered("DPC", "ISR") = NoRows /\ table = NoRows
        BY <1>0, NothingGathered DEF Tabled
      <3> QED BY <1>3, <3>1, TableStep
    <2>6. \A k \in Kind \intersect Emitted : held'[k] \in {"rows", "torn"}
      BY <1>0, <2>2 DEF FilesKept
    <2>7. \A k \in Kind \ Emitted : held'[k] = "absent" \/ (step' \notin BeforeManifest /\ held'[k] = "rows")
      BY <1>0, <2>2, <2>3 DEF FilesKept
    <2>8. held'["cswitch_events"] = "absent" => failures' > 0
      <3>1. held["cswitch_events"] = "absent" => failures > 0
        BY <1>0 DEF FilesKept
      <3>2. failures \in Nat /\ failures' \in Nat /\ failures' >= failures
        BY <2>1
      <3>5. failures > 0 => failures' > 0
        BY <3>2
      <3>3. CASE held'["cswitch_events"] = held["cswitch_events"]
        BY <3>1, <3>3, <3>5
      <3>4. CASE held'["cswitch_events"] # held["cswitch_events"]
        BY <2>1, <3>4
      <3> QED BY <3>3, <3>4
    <2>9. \A c \in {"diskio", "process"} :
            IF c \in Emitted THEN held'[c] \in {"rows", "torn"} ELSE held'[c] = "absent"
      BY <1>0, <2>2 DEF FilesKept
    <2>10. IF "dpc_isr" \in Emitted THEN held'["dpc_isr"] = "absent" => failures' > 0
                                    ELSE held'["dpc_isr"] = "absent"
      <3>1. IF "dpc_isr" \in Emitted THEN held["dpc_isr"] = "absent" => failures > 0
                                     ELSE held["dpc_isr"] = "absent"
        BY <1>0 DEF FilesKept
      <3>2. CASE "dpc_isr" \in Emitted
        <4>1. failures \in Nat /\ failures' \in Nat /\ failures' >= failures
          BY <2>1
        <4>4. failures > 0 => failures' > 0
          BY <4>1
        <4>2. CASE held'["dpc_isr"] = held["dpc_isr"]
          BY <3>1, <3>2, <4>2, <4>4
        <4>3. CASE held'["dpc_isr"] # held["dpc_isr"]
          BY <2>1, <3>2, <4>3
        <4> QED BY <4>2, <4>3
      <3>3. CASE "dpc_isr" \notin Emitted
        BY <2>5, <3>1, <3>3
      <3> QED BY <3>2, <3>3
    <2> QED BY <1>1, <2>4, <2>6, <2>7, <2>8, <2>9, <2>10 DEF FilesKept
  <1> QED BY <1>2, <1>3

-----------------------------------------------------------------------------
(* Frames and the histogram *)

LEMMA OnlyReadingFrames ==
  ASSUME AggregationNext, ~RefuseRun, ~ReadStaging
  PROVE  frame' = frame /\ trace' = trace /\ step \notin {"read", "failed"} /\ step' # "read"
  BY DEF AggregationNext, NameSwitches, AggregateSamples, AggregateDpc, PersistSamples,
         PersistDpc, RewriteManifest, OpenCache, Then

\* Only the frames that bear the name of a combined file's host depend on one.
LEMMA HostedBy ==
  /\ \A k \in Kind \ {"DPC"} : Hosted(k) \subseteq {"diskio", "process"}
  /\ Hosted("DPC") \subseteq {"dpc_isr"}
  /\ Hosted("Process/DCStart") \subseteq {"process"}
  /\ \A k \in Thread \union {"ISR", "Process/Start"} : Hosted(k) = {}
  <1>1. HostOf["dpc_isr"] = "DPC" /\ HostOf["diskio"] = "Read" /\ HostOf["process"] = "Process/DCStart"
    BY DEF HostOf
  <1> QED BY <1>1 DEF Hosted, Combined, Thread

LEMMA FrameSame ==
  ASSUME trace' = trace, NEW k \in Kind \ {"DPC"},
         held'["diskio"] = held["diskio"], held'["process"] = held["process"],
         held'[k] = held[k] \/ ~(trace[k] > 0)
  PROVE  FrameOf(k)' = FrameOf(k)
  <1>1. RowsOf({k})' = RowsOf({k}) /\ \A cs : AllOf(cs)' = AllOf(cs)
    BY DEF AllOf, RowsOf
  <1>2. Hosted(k)' = Hosted(k)
    <2>1. HostOf["dpc_isr"] = "DPC"
      BY DEF HostOf
    <2> QED BY <2>1 DEF Hosted, Combined
  <1>3. (held'[k] = "rows" /\ trace'[k] > 0) <=> (held[k] = "rows" /\ trace[k] > 0)
    OBVIOUS
  <1> QED BY <1>1, <1>2, <1>3 DEF FrameOf

\* A kind of which the trace has rows has a file.
LEMMA RowsHaveFiles ==
  ASSUME NEW k \in Kind, trace[k] > 0
  PROVE  k \in Emitted
  BY EmittedIs DEF Has, Kind

LEMMA FramedStep ==
  ASSUME AggregationInv, AggregationNext
  PROVE  Framed'
  <1>0. AggregationTypeOK /\ FilesKept /\ Framed
    BY DEF AggregationInv
  <1>1. CASE RefuseRun
    BY <1>1 DEF RefuseRun, Then, Framed
  <1>2. CASE ReadStaging
    <2>1. /\ trace' = trace /\ held' = held /\ step' = "switches"
          /\ \A k \in Kind : frame'[k] = FrameOf(k)
      BY <1>2 DEF ReadStaging, WriteNothing, Then
    <2>2. \A k \in Kind \ {"DPC"} : FrameOf(k)' = FrameOf(k)
      BY <2>1, FrameSame
    <2>3. "DPC" \in Kind /\ "DPC" \in Dpc
      BY DEF Kind, Dpc
    <2>4. ASSUME frame'["DPC"] # NoRows PROVE \E k \in Dpc : trace'[k] > 0
      <3> SUFFICES ASSUME ~Has(Dpc) PROVE FALSE
        BY <2>1 DEF Has
      <3>1. held["dpc_isr"] = "absent"
        BY <1>0, EmittedIs DEF FilesKept
      <3>2. Hosted("DPC") = {}
        BY <3>1, HostedBy DEF Hosted
      <3>3. AllOf({}) = NoRows
        BY DEF AllOf, RowsOf, NoRows
      <3> QED BY <2>1, <2>3, <2>4, <3>2, <3>3 DEF FrameOf, Has
    <2>5. held'["DPC"] = "rows" /\ trace'["DPC"] > 0 => frame'["DPC"] = RowsOf({"DPC"})'
      BY <2>1, <2>3 DEF FrameOf, RowsOf
    <2> QED BY <2>1, <2>2, <2>4, <2>5 DEF Framed
  <1>3. CASE ~RefuseRun /\ ~ReadStaging
    <2>1. frame' = frame /\ trace' = trace /\ step \notin {"read", "failed"} /\ step' # "read"
      BY <1>3, OnlyReadingFrames
    <2>2. /\ held'["diskio"] = held["diskio"] /\ held'["process"] = held["process"]
          /\ \A k \in Kind : held'[k] = held[k] \/ ~(trace[k] > 0)
      <3>1. CASE RewriteManifest
        <4>1. \A f \in File : held'[f] # held[f] => f \in Dumper \ Emitted
          BY <1>0, <3>1, RewriteFacts
        <4>2. \A k \in Kind : held'[k] = held[k] \/ ~(trace[k] > 0)
          BY <4>1, RowsHaveFiles, NamesApart
        <4> QED BY <4>1, <4>2, NamesApart DEF Combined
      <3>2. CASE ~RewriteManifest
        <4>1. \A f \in File \ {"cswitch_events", "dpc_isr", "cpu_sampling"} : held'[f] = held[f]
          BY <3>2, FilesWritten
        <4> QED BY <4>1, NamesApart DEF Combined
      <3> QED BY <3>1, <3>2
    <2>3. \A k \in Kind \ {"DPC"} : FrameOf(k)' = FrameOf(k)
      BY <2>1, <2>2, FrameSame
    <2>4. "DPC" \in Kind
      BY DEF Kind, Dpc
    <2>5. held'["DPC"] = "rows" /\ trace'["DPC"] > 0 => frame'["DPC"] = RowsOf({"DPC"})'
      <3>1. RowsOf({"DPC"})' = RowsOf({"DPC"})
        BY <2>1, EmittedSame
      <3> QED BY <1>0, <2>1, <2>2, <2>4, <3>1 DEF Framed
    <2>6. frame'["DPC"] # NoRows => \E k \in Dpc : trace'[k] > 0
      BY <1>0, <2>1 DEF Framed
    <2>7. \A k \in Kind \ {"DPC"} : frame'[k] = FrameOf(k)'
      BY <1>0, <2>1, <2>3 DEF Framed
    <2> QED BY <2>1, <2>5, <2>6, <2>7 DEF Framed
  <1> QED BY <1>1, <1>2, <1>3

LEMMA TabledStep ==
  ASSUME AggregationInv, AggregationNext
  PROVE  Tabled'
  <1>0. AggregationTypeOK /\ FilesKept /\ Framed /\ Tabled
    BY DEF AggregationInv
  <1>1. step' # "read"
    BY DEF AggregationNext, RefuseRun, ReadStaging, NameSwitches, AggregateSamples, AggregateDpc,
       PersistSamples, PersistDpc, RewriteManifest, OpenCache, Then
  <1>2. table' # NoRows => table' = Gathered("DPC", "ISR")'
    <2>1. CASE frame' = frame
      <3>1. Gathered("DPC", "ISR")' = Gathered("DPC", "ISR")
        BY <2>1 DEF Gathered
      <3> QED BY <1>0, <3>1, TableStep DEF Tabled
    <2>2. CASE RefuseRun \/ ReadStaging
      <3>1. step = "read" /\ table' = table
        BY <2>2 DEF RefuseRun, ReadStaging, Then
      <3> QED BY <1>0, <3>1 DEF Tabled
    <2> QED BY <2>1, <2>2, OnlyReadingFrames
  <1>3. held'["dpc_isr"] = "derived" => held["dpc_isr"] = "derived" \/ table' # NoRows
    <2>1. CASE RewriteManifest
      <3>1. \A f \in File : held'[f] # held[f] => f \in Dumper \ Emitted
        BY <1>0, <2>1, RewriteFacts
      <3> QED BY <3>1, NamesApart DEF Combined
    <2> QED BY <2>1, FilesWritten
  <1>4. "dpc_isr" \in stored' => "dpc_isr" \in stored \/ table' # NoRows
    <2>1. CASE PersistDpc
      BY <2>1 DEF PersistDpc, Persist
    <2>2. CASE PersistSamples
      <3>1. stored' = stored \/ stored' = stored \union {"cpu_sampling"}
        BY <2>2 DEF PersistSamples, Persist
      <3> QED BY <3>1
    <2>3. CASE ~PersistDpc /\ ~PersistSamples
      BY <2>3 DEF AggregationNext, RefuseRun, ReadStaging, NameSwitches, AggregateSamples, AggregateDpc,
         RewriteManifest, OpenCache
    <2> QED BY <2>1, <2>2, <2>3
  <1>5. table # NoRows => table' # NoRows
    BY TableStep
  <1> QED BY <1>0, <1>1, <1>2, <1>3, <1>4, <1>5 DEF Tabled

-----------------------------------------------------------------------------
(* Switches *)

LEMMA SwitchesStep ==
  ASSUME AggregationInv, AggregationNext
  PROVE  SwitchesNamed'
  <1>0. AggregationTypeOK /\ FilesKept /\ Framed /\ SwitchesNamed
    BY DEF AggregationInv
  <1> DEFINE named == [pid |-> Some(Thread), name |-> Some(Thread) /\ Some(Process)]
             none == [pid |-> FALSE, name |-> FALSE]
             cs == held["cswitch_events"]
  <1>1. CASE RefuseRun
    BY <1>1 DEF RefuseRun, Then, SwitchesNamed
  <1>2. CASE ReadStaging
    BY <1>0, <1>2 DEF ReadStaging, Then, WriteNothing, SwitchesNamed
  <1>3. ASSUME ~RefuseRun, ~ReadStaging PROVE named' = named
    <2>1. frame' = frame
      BY <1>3, OnlyReadingFrames
    <2>2. \A kinds : Some(kinds)' = Some(kinds)
      BY <2>1 DEF Some
    <2> QED BY <2>2
  <1>4. CASE NameSwitches
    <2>1. step = "switches" /\ step' = "samples" /\ ~RefuseRun /\ ~ReadStaging /\ cs \in {"rows", "torn"}
      BY <1>0, <1>4 DEF NameSwitches, RefuseRun, ReadStaging, Then, SwitchesNamed
    <2>2. CASE cs = "rows" /\ (Some(Thread) \/ Some(Process))
      <3>1. switch' = named /\ (Written("cswitch_events") \/ Spoilt("cswitch_events"))
        BY <1>4, <2>2 DEF NameSwitches
      <3>2. cs' # "derived" => failures' > 0
        BY <1>0, <3>1, WrittenOrSpoilt, NamesApart
      <3> HIDE DEF named
      <3>3. cs' = "derived" => switch' = named'
        BY <1>3, <2>1, <3>1
      <3>4. cs' = "rows" => failures' > 0 \/ named' = none
        BY <3>2
      <3> QED BY <2>1, <3>3, <3>4 DEF SwitchesNamed, named
    <2>3. CASE ~(cs = "rows" /\ (Some(Thread) \/ Some(Process)))
      <3>1. cs' = cs
        BY <1>4, <2>3 DEF NameSwitches, WriteNothing
      <3>2. cs = "rows" => named = none
        <4>1. cs = "rows" => Some(Thread) = FALSE /\ (Some(Thread) /\ Some(Process)) = FALSE
          BY <2>3 DEF Some
        <4> QED BY <4>1, Zenon
      <3> HIDE DEF named
      <3>3. named' = named
        BY <1>3, <2>1
      <3> QED BY <2>1, <3>1, <3>2, <3>3 DEF SwitchesNamed, named
    <2> QED BY <2>2, <2>3
  <1>5. CASE ~RefuseRun /\ ~ReadStaging /\ ~NameSwitches
    <2>1. /\ switch' = switch /\ step \notin {"read", "switches", "failed"}
          /\ step' \notin {"read", "switches"}
      BY <1>5 DEF AggregationNext, AggregateSamples, AggregateDpc, PersistSamples, PersistDpc,
         RewriteManifest, OpenCache, Then
    <2>2. cs' = cs /\ failures \in Nat /\ failures' \in Nat /\ failures' >= failures
      <3>1. CASE RewriteManifest
        <4>1. \A f \in File : held'[f] # held[f] => f \in Dumper \ Emitted
          BY <1>0, <3>1, RewriteFacts
        <4>2. failures' \in Nat /\ failures' >= failures
          BY <1>0, <3>1, RewriteFacts
        <4> QED BY <1>0, <4>1, <4>2, NamesApart, EmittedIs DEF AggregationTypeOK
      <3>2. CASE ~RewriteManifest
        <4>1. failures' \in Nat /\ failures' >= failures
              /\ (held'["cswitch_events"] # held["cswitch_events"] => step = "switches")
          BY <3>2, FilesWritten
        <4> QED BY <1>0, <2>1, <4>1 DEF AggregationTypeOK
      <3> QED BY <3>1, <3>2
    <2>3. failures > 0 => failures' > 0
      BY <2>2
    <2>4. (cs = "derived" => switch = named) /\ (cs = "rows" => failures > 0 \/ named = none)
      BY <1>0, <2>1 DEF SwitchesNamed
    <2> HIDE DEF named
    <2>5. named' = named
      BY <1>3, <1>5
    <2>6. (cs' = "derived" => switch' = named') /\ (cs' = "rows" => failures' > 0 \/ named' = none)
      BY <2>1, <2>2, <2>3, <2>4, <2>5
    <2> QED BY <2>1, <2>6 DEF SwitchesNamed, named
  <1> QED BY <1>1, <1>2, <1>4, <1>5

-----------------------------------------------------------------------------
(* The manifest and the loader *)

LEMMA ManifestSteps ==
  ASSUME AggregationInv, AggregationNext, step' \in {"ok", "open", "rejected"}
  PROVE  (RewriteManifest /\ step' = "ok") \/ (OpenCache /\ step = "ok")
  BY DEF AggregationNext, RefuseRun, ReadStaging, NameSwitches, AggregateSamples, AggregateDpc,
         PersistSamples, PersistDpc, RewriteManifest, OpenCache, Then

LEMMA ListedStep ==
  ASSUME AggregationInv, AggregationNext
  PROVE  Listed' /\ Opened'
  <1>0. AggregationTypeOK /\ FilesKept /\ Framed /\ Listed
    BY DEF AggregationInv
  <1>1. CASE step' \notin {"ok", "open", "rejected"}
    BY <1>1 DEF Listed, Opened
  <1>2. CASE RewriteManifest /\ step' = "ok"
    BY <1>0, <1>2, RewriteFacts DEF Opened
  <1>3. CASE OpenCache /\ step = "ok"
    <2>1. /\ trace' = trace /\ held' = held /\ listed' = listed
          /\ step' = IF Accepts THEN "open" ELSE "rejected"
      BY <1>3 DEF OpenCache
    <2>2. Accepts' = Accepts /\ \A kinds : NamesOf(kinds)' = NamesOf(kinds)
      BY <2>1 DEF Accepts, NamesOf
    <2>3. Emitted' = Emitted
      BY <2>1, EmittedSame
    <2>4. Listed'
      BY <1>0, <1>3, <2>1, <2>2, <2>3 DEF Listed
    <2> QED BY <2>1, <2>2, <2>4 DEF Opened
  <1> QED BY <1>1, <1>2, <1>3, ManifestSteps

-----------------------------------------------------------------------------
(* The theorems *)

LEMMA AggregationStays ==
  ASSUME AggregationInv, UNCHANGED aggregationVars
  PROVE  AggregationInv'
  BY DEF aggregationVars, AggregationInv, AggregationTypeOK, FilesKept, Framed, Tabled,
         SwitchesNamed, Listed, Opened, Accepts, NamesOf, Some, Gathered, FrameOf, AllOf,
         Hosted, RowsOf, Emitted

\* The invariant of the run and of the loader after it: what each file may have
\* become, what the frames and the histogram were made of, and what the manifest lists.
THEOREM InductiveAggregation == AggregationSpec => []AggregationInv
  <1>1. AggregationInv /\ [AggregationNext]_aggregationVars => AggregationInv'
    <2> SUFFICES ASSUME AggregationInv, [AggregationNext]_aggregationVars PROVE AggregationInv'
      OBVIOUS
    <2>1. CASE AggregationNext
      BY <2>1, AggregationTypeStep, FilesStep, FramedStep, TabledStep, SwitchesStep, ListedStep
         DEF AggregationInv
    <2>2. CASE UNCHANGED aggregationVars
      BY <2>2, AggregationStays
    <2> QED BY <2>1, <2>2
  <1> QED BY <1>1, AggregationInitInv, PTL DEF AggregationSpec

LEMMA OpensUnlessDamaged == AggregationInv => CacheOpens
  <1> SUFFICES ASSUME AggregationInv PROVE CacheOpens
    OBVIOUS
  <1>0. FilesKept /\ Listed /\ Opened
    BY DEF AggregationInv
  <1>1. step = "failed" => failures > 0
    BY <1>0 DEF FilesKept
  <1>2. ASSUME step = "rejected"
        PROVE  \/ \E c \in Combined : held[c] = "torn"
               \/ \E f \in Dumper : held[f] = "absent"
               \/ held["cpu_sampling"] = "torn"
    <2>1. ~Accepts /\ NamesOf({"dumper-parquet"}) = {f \in Dumper : held[f] # "absent"}
          /\ NamesOf({"parquet"}) \subseteq Combined \union {"cpu_sampling"}
      BY <1>0, <1>2 DEF Listed, Opened
    <2> QED BY <2>1 DEF Accepts
  <1>3. ASSUME step = "open"
        PROVE  (\A c \in Combined : held[c] # "torn") /\ (\A f \in Dumper : held[f] # "absent")
    <2>1. Accepts /\ NamesOf({"dumper-parquet"}) = {f \in Dumper : held[f] # "absent"}
          /\ \A c \in Combined \intersect Emitted : c \in NamesOf({"parquet"})
      BY <1>0, <1>3 DEF Listed, Opened
    <2>2. \A f \in Dumper : held[f] # "absent"
      BY <2>1 DEF Accepts
    <2>3. ASSUME NEW c \in Combined PROVE held[c] # "torn"
      <3>1. CASE c \in Emitted
        BY <2>1, <3>1 DEF Accepts
      <3>2. CASE c \notin Emitted
        <4>1. c = "dpc_isr" \/ c \in {"diskio", "process"}
          BY DEF Combined
        <4> QED BY <1>0, <3>2, <4>1 DEF FilesKept
      <3> QED BY <3>1, <3>2
    <2> QED BY <2>2, <2>3
  <1> QED BY <1>1, <1>2, <1>3 DEF CacheOpens

\* A run of the aggregation worker that meets no failure leaves a cache, and the
\* loader opens it unless a table cannot be read or a stream is missing, whatever
\* the sidecar left out (run_aggregation_worker, _load_native_v2_from_cache).
THEOREM CachesOpen == AggregationSpec => []CacheOpens
  BY InductiveAggregation, OpensUnlessDamaged, PTL

LEMMA RowsOfNone ==
  ASSUME AggregationTypeOK, NEW kinds, kinds \subseteq Kind, ~Has(kinds)
  PROVE  RowsOf(kinds) = NoRows
  BY DEF RowsOf, NoRows, Has, AggregationTypeOK

\* The rows of disks, and the histogram where it is answered.
LEMMA DisksAndDpcs ==
  ASSUME AggregationInv, step = "open"
  PROVE  /\ DiskAnswer = RowsOf(DiskIo)
         /\ \/ DpcAnswer = RowsOf(Dpc)
            \/ held["dpc_isr"] = "derived" /\ (trace["DPC"] = 0 \/ \E k \in Dpc : held[k] = "torn")
  <1>0. /\ AggregationTypeOK /\ FilesKept /\ Framed /\ Tabled /\ Listed
        /\ \A c \in Combined : held[c] # "torn"
    BY OpensUnlessDamaged DEF AggregationInv, CacheOpens
  <1>1. DiskAnswer = RowsOf(DiskIo)
    <2>1. "diskio" \notin NamesOf({"text"})
      BY <1>0 DEF Listed
    <2>2. CASE "diskio" \in Emitted
      <3>1. held["diskio"] = "rows"
        BY <1>0, <2>2 DEF FilesKept, Combined
      <3> QED BY <2>1, <3>1 DEF DiskAnswer
    <2>3. CASE "diskio" \notin Emitted
      <3>1. held["diskio"] = "absent"
        BY <1>0, <2>3 DEF FilesKept
      <3>2. RowsOf(DiskIo) = NoRows
        BY <1>0, <2>3, RowsOfNone, EmittedIs, NamesApart
      <3> QED BY <2>1, <3>1, <3>2 DEF DiskAnswer
    <2> QED BY <2>2, <2>3
  <1>2. held["dpc_isr"] \in {"rows", "absent", "derived"}
    BY <1>0, NamesApart DEF Combined, AggregationTypeOK
  <1>3. CASE held["dpc_isr"] = "rows"
    BY <1>1, <1>3 DEF DpcAnswer
  <1>4. CASE held["dpc_isr"] = "absent"
    <2>1. "dpc_isr" \notin Emitted
      BY <1>0, <1>4 DEF Listed, Combined
    <2>2. RowsOf(Dpc) = NoRows
      BY <1>0, <2>1, RowsOfNone, EmittedIs, NamesApart
    <2> QED BY <1>1, <1>4, <2>2 DEF DpcAnswer
  <1>5. CASE held["dpc_isr"] = "derived"
    <2> SUFFICES ASSUME trace["DPC"] # 0, \A k \in Dpc : held[k] # "torn"
                 PROVE  table = RowsOf(Dpc)
      BY <1>1, <1>5 DEF DpcAnswer
    <2>1. "DPC" \in Kind /\ "ISR" \in Kind \ {"DPC"} /\ Dpc = {"DPC", "ISR"}
      BY DEF Kind, Dpc
    <2>2. trace["DPC"] > 0
      BY <1>0, <2>1 DEF AggregationTypeOK
    <2>3. \A k \in Dpc : held[k] = "rows"
      <3>1. \A k \in Dpc : k \in Emitted
        BY <2>1, <2>2, EmittedIs DEF Has
      <3> QED BY <1>0, <3>1, NamesApart DEF FilesKept
    <2>4. table = Gathered("DPC", "ISR")
      BY <1>0, <1>5 DEF Tabled
    <2>5. frame["DPC"] = RowsOf({"DPC"})
      BY <1>0, <2>1, <2>2, <2>3 DEF Framed
    <2>6. frame["ISR"] = RowsOf({"ISR"})
      <3>1. frame["ISR"] = FrameOf("ISR")
        BY <1>0, <2>1 DEF Framed
      <3>2. CASE trace["ISR"] > 0
        BY <2>1, <2>3, <3>1, <3>2 DEF FrameOf
      <3>3. CASE ~(trace["ISR"] > 0)
        <4>1. Hosted("ISR") = {}
          BY HostedBy
        <4>2. AllOf({}) = NoRows
          BY DEF AllOf, RowsOf, NoRows
        <4>3. RowsOf({"ISR"}) = NoRows
          BY <1>0, <2>1, <3>3, RowsOfNone DEF Has
        <4> QED BY <3>1, <3>3, <4>1, <4>2, <4>3 DEF FrameOf
      <3> QED BY <3>2, <3>3
    <2>7. \A k \in Kind : frame["DPC"][k] + frame["ISR"][k] = RowsOf(Dpc)[k]
      BY <1>0, <2>1, <2>5, <2>6 DEF RowsOf, AggregationTypeOK
    <2> QED BY <2>4, <2>7 DEF Gathered, RowsOf
  <1> QED BY <1>2, <1>3, <1>4, <1>5

\* A kind of threads or processes gives rise to rows as its files tell them.
LEMMA SomeAreTold ==
  ASSUME AggregationInv, step = "open"
  PROVE  LET told(kinds) == \E k \in kinds : trace[k] > 0 /\ held[k] # "torn"
         IN /\ Some(Thread) <=> told(Thread)
            /\ (\A k \in Process : held[k] # "torn") => (Some(Process) <=> told(Process))
  <1> DEFINE told(kinds) == \E k \in kinds : trace[k] > 0 /\ held[k] # "torn"
  <1>0. /\ AggregationTypeOK /\ FilesKept /\ Framed
        /\ \A c \in Combined : held[c] # "torn"
    BY OpensUnlessDamaged DEF AggregationInv, CacheOpens
  <1>1. Thread \union Process \subseteq Kind \ {"DPC"}
    BY DEF Thread, Process, Kind, Dpc
  <1>2. ASSUME NEW k \in Kind, trace[k] > 0 PROVE held[k] # "torn" <=> held[k] = "rows"
    BY <1>0, <1>2, RowsHaveFiles DEF FilesKept
  <1>3. \A k \in Thread \union Process : frame[k] = FrameOf(k)
    BY <1>0, <1>1 DEF Framed
  <1>4. ASSUME NEW k \in Kind, trace[k] > 0 PROVE RowsOf({k}) # NoRows
    <2>1. RowsOf({k})[k] = trace[k] /\ NoRows[k] = 0 /\ trace[k] # 0
      BY <1>0, <1>4 DEF RowsOf, NoRows, AggregationTypeOK
    <2> QED BY <2>1
  <1>5. AllOf({}) = NoRows
    BY DEF AllOf, RowsOf, NoRows
  <1>6. \A k \in Thread \union Process : held[k] = "rows" /\ trace[k] > 0 => frame[k] # NoRows
    BY <1>1, <1>3, <1>4 DEF FrameOf
  <1>7. \A k \in Thread : frame[k] # NoRows => held[k] = "rows" /\ trace[k] > 0
    BY <1>3, <1>5, HostedBy DEF FrameOf
  <1>8. \A kinds : told(kinds) /\ kinds \subseteq Thread \union Process => Some(kinds)
    BY <1>1, <1>2, <1>6 DEF Some
  <1>9. Some(Thread) => told(Thread)
    BY <1>7 DEF Some
  <1>10. ASSUME \A k \in Process : held[k] # "torn", Some(Process) PROVE told(Process)
    <2>1. PICK k \in Process : frame[k] # NoRows
      BY <1>10 DEF Some
    <2>2. CASE held[k] = "rows" /\ trace[k] > 0
      BY <2>2
    <2>3. CASE ~(held[k] = "rows" /\ trace[k] > 0)
      <3>1. AllOf(Hosted(k)) # NoRows
        BY <1>3, <2>1, <2>3 DEF FrameOf
      <3>2. Hosted(k) # {}
        BY <1>5, <3>1
      <3>3. "process" \in Hosted(k)
        BY <3>2, HostedBy DEF Process
      <3>4. "process" \in Emitted
        BY <1>0, <3>3 DEF Hosted, FilesKept
      <3>5. Has(Process)
        BY <3>4, EmittedIs
      <3> QED BY <1>10, <3>5 DEF Has
    <2> QED BY <2>2, <2>3
  <1> HIDE DEF told
  <1>11. Some(Thread) <=> told(Thread)
    BY <1>8, <1>9
  <1>12. (\A k \in Process : held[k] # "torn") => (Some(Process) <=> told(Process))
    BY <1>8, <1>10
  <1> QED BY <1>11, <1>12 DEF told

LEMMA OpenAnswers == AggregationInv => AnswersExact
  <1> SUFFICES ASSUME AggregationInv, step = "open" PROVE AnswersExact
    BY DEF AnswersExact
  <1>0. /\ AggregationTypeOK /\ FilesKept /\ SwitchesNamed
    BY DEF AggregationInv
  <1> DEFINE told(kinds) == \E k \in kinds : trace[k] > 0 /\ held[k] # "torn"
             named == [pid |-> Some(Thread), name |-> Some(Thread) /\ Some(Process)]
             asTold == [pid |-> told(Thread), name |-> told(Thread) /\ told(Process)]
             none == [pid |-> FALSE, name |-> FALSE]
  <1>1. ASSUME failures = 0, held["cswitch_events"] # "torn", \A k \in Process : held[k] # "torn"
        PROVE  SwitchAnswer = asTold
    <2>1. (Some(Thread) <=> told(Thread)) /\ (Some(Process) <=> told(Process))
      BY <1>1, SomeAreTold
    <2>2. Some(Thread) = told(Thread) /\ (Some(Thread) /\ Some(Process)) = (told(Thread) /\ told(Process))
      BY <2>1 DEF Some
    <2>3. named = asTold
      BY <2>2, Zenon
    <2>4. held["cswitch_events"] \in {"rows", "derived"}
      <3>1. held["cswitch_events"] # "absent"
        BY <1>0, <1>1 DEF FilesKept
      <3> QED BY <1>0, <1>1, <3>1, NamesApart DEF AggregationTypeOK
    <2>5. /\ held["cswitch_events"] = "derived" => switch = named
          /\ held["cswitch_events"] = "rows" => named = none
      BY <1>0, <1>1 DEF SwitchesNamed
    <2> HIDE DEF named, asTold
    <2> QED BY <2>3, <2>4, <2>5 DEF SwitchAnswer
  <1> QED BY <1>1, DisksAndDpcs DEF AnswersExact

\* In a cache that is open every row is counted once, whichever files could be read,
\* and a switch is of the process that some file tells (get_dpc_summary,
\* get_diskio_summary); but for the histogram of a trace that has no plain DPC rows.
THEOREM AnswersAreExact == AggregationSpec => []AnswersExact
  BY InductiveAggregation, OpenAnswers, PTL

-----------------------------------------------------------------------------
(* The supervisor *)

USE TriesAssumption

LEMMA InitInv == Init => IInv
<1> SUFFICES ASSUME Init PROVE IInv
  OBVIOUS
<1>1. TypeOK
  <2>1. /\ etl \in 0 .. MaxEdits /\ decoded \in 0 .. MaxEdits /\ stamped \in 0 .. MaxEdits
        /\ tries \in Nat
    BY DEF Init
  <2> QED BY <2>1 DEF Init, TypeOK, FailureKind, Line
<1>2. Watched /\ Dated /\ Settled
  BY DEF Init, Watched, Dated, Settled
<1> QED BY <1>1, <1>2 DEF IInv

\* Up to the verdict on the process.
LEMMA WatchInv ==
  ASSUME IInv,
         Prepare \/ Launch \/ Isolate \/ Drain \/ Poll \/ Terminate \/ Join \/ Decide
  PROVE  IInv'
<1> USE DEF IInv, TypeOK, Watched, Dated, Settled, FailureKind, Line, Alive, Fail,
            childVars, lineVars, dirVars, etlVars
<1>1. CASE Prepare
  BY <1>1 DEF Prepare
<1>2. CASE Launch
  BY <1>2 DEF Launch
<1>3. CASE Isolate
  BY <1>3 DEF Isolate
<1>4. CASE Drain
  BY <1>4 DEF Drain, Drained
<1>5. CASE Poll
  BY <1>5 DEF Poll
<1>6. CASE Terminate
  BY <1>6 DEF Terminate
<1>7. CASE Join
  BY <1>7 DEF Join
<1>8. CASE Decide
  BY <1>8 DEF Decide, Decision, Drained
<1> QED BY <1>1, <1>2, <1>3, <1>4, <1>5, <1>6, <1>7, <1>8

\* From the verdict on the process to the end.
LEMMA PromoteInv ==
  ASSUME IInv,
         Validate \/ Aggregate \/ Finalize \/ Clear \/ Rename \/ Cleanup \/ Die
  PROVE  IInv'
<1> USE DEF IInv, TypeOK, Watched, Dated, Settled, FailureKind, Line, Fail,
            childVars, lineVars, dirVars, etlVars
<1>1. CASE Validate
  BY <1>1 DEF Validate, Valid
<1>2. CASE Aggregate
  BY <1>2 DEF Aggregate
<1>3. CASE Finalize
  <2>1. CASE sup' = "clear" /\ tries' = 0 /\ UNCHANGED verdict
    BY <1>3, <2>1 DEF Finalize
  <2>2. CASE Fail("promotion")
    BY <1>3, <2>2 DEF Finalize
  <2> QED BY <1>3, <2>1, <2>2 DEF Finalize
<1>4. CASE Clear
  BY <1>4 DEF Clear
<1>5. CASE Rename
  BY <1>5 DEF Rename
<1>6. CASE Cleanup
  BY <1>6 DEF Cleanup
<1>7. CASE Die
  BY <1>7 DEF Die, Ended, Alive
<1> QED BY <1>1, <1>2, <1>3, <1>4, <1>5, <1>6, <1>7

\* The reader, the child, time, and what others do to the files.
LEMMA OthersInv ==
  ASSUME IInv,
         ReaderStep \/ ChildStep \/ TimeUp \/ Silence \/ ReplaceTrace \/ WriteMarker
  PROVE  IInv'
<1> USE DEF IInv, TypeOK, Watched, Dated, Settled, Line, supVars,
            childVars, lineVars, dirVars, etlVars
<1>1. CASE ReadLine
  BY <1>1 DEF ReadLine
<1>2. CASE EndOfFile
  BY <1>2 DEF EndOfFile
<1>3. CASE Beat
  BY <1>3 DEF Beat
<1>4. CASE FinishDecoding
  BY <1>4 DEF FinishDecoding
<1>5. CASE FinishWriting
  BY <1>5 DEF FinishWriting
<1>6. CASE ReportFailure
  BY <1>6 DEF ReportFailure
<1>7. CASE Exit
  BY <1>7 DEF Exit
<1>8. CASE CrashOrFreeze
  BY <1>8 DEF CrashOrFreeze, Alive
<1>9. CASE TimeUp
  BY <1>9 DEF TimeUp
<1>10. CASE Silence
  BY <1>10 DEF Silence
<1>11. CASE ReplaceTrace
  BY <1>11 DEF ReplaceTrace
<1>12. CASE WriteMarker
  BY <1>12 DEF WriteMarker
<1> QED
  BY <1>1, <1>2, <1>3, <1>4, <1>5, <1>6, <1>7, <1>8, <1>9, <1>10, <1>11, <1>12
  DEF ReaderStep, ChildStep

LEMMA NextInv == IInv /\ [Next]_vars => IInv'
<1> SUFFICES ASSUME IInv, [Next]_vars PROVE IInv'
  OBVIOUS
<1>1. CASE SupervisorStep \/ Die
  BY <1>1, WatchInv, PromoteInv DEF SupervisorStep
<1>2. CASE ReaderStep \/ ChildStep \/ TimeUp \/ Silence \/ ReplaceTrace \/ WriteMarker
  BY <1>2, OthersInv
<1>3. CASE UNCHANGED vars
  BY <1>3 DEF vars, supVars, childVars, lineVars, dirVars, etlVars,
              IInv, TypeOK, Watched, Dated, Settled
<1> QED BY <1>1, <1>2, <1>3 DEF Next, Terminated

\* The strengthened invariant holds of every run.
THEOREM Inductive == Spec => []IInv
BY InitInv, NextInv, PTL DEF Spec

\* Variables keep their types, and the attempts of a promotion their limits
\* (_PROMOTE_RMTREE_RETRIES, _PROMOTE_RENAME_RETRIES).
THEOREM TypeCorrect == Spec => []TypeOK
BY Inductive, PTL DEF IInv

\* Whatever races between child, reader, clock and supervisor, only a finished
\* cache whose child reported success and is gone, and whose manifest is not
\* older than its events, is moved onto the export directory (run_native_worker_extraction, run_dotnet_worker_extraction).
THEOREM FinishedPromoted == Spec => []OnlyFinishedPromoted
<1>1. IInv => OnlyFinishedPromoted
  BY DEF IInv, Watched, Dated, OnlyFinishedPromoted
<1> QED BY <1>1, Inductive, PTL

-----------------------------------------------------------------------------
(* What a run leaves behind, and that no result is lost. *)

LEMMA WatchReaped ==
  ASSUME IInv, Reaped, Reported,
         Prepare \/ Launch \/ Isolate \/ Drain \/ Poll \/ Terminate \/ Join \/ Decide
  PROVE  Reaped' /\ Reported'
<1> USE DEF TypeOK, Watched, Reaped, Reported, Line, Alive, Fail,
            childVars, lineVars, dirVars, etlVars
<1>0. TypeOK /\ Watched
  BY DEF IInv
<1>1. CASE Prepare
  BY <1>0, <1>1 DEF Prepare
<1>2. CASE Launch
  BY <1>0, <1>2 DEF Launch
<1>3. CASE Isolate
  BY <1>0, <1>3 DEF Isolate
<1>4. CASE Drain
  BY <1>0, <1>4 DEF Drain, Drained
<1>5. CASE Poll
  BY <1>0, <1>5 DEF Poll
<1>6. CASE Terminate
  BY <1>0, <1>6 DEF Terminate
<1>7. CASE Join
  BY <1>0, <1>7 DEF Join
<1>8. CASE Decide
  BY <1>0, <1>8 DEF Decide, Drained
<1> QED BY <1>1, <1>2, <1>3, <1>4, <1>5, <1>6, <1>7, <1>8

LEMMA PromoteReaped ==
  ASSUME IInv, Reaped, Reported,
         Validate \/ Aggregate \/ Finalize \/ Clear \/ Rename \/ Cleanup \/ Die
  PROVE  Reaped' /\ Reported'
<1> USE DEF TypeOK, Watched, Reaped, Reported, Alive, Fail,
            childVars, lineVars, dirVars, etlVars
<1>0. TypeOK /\ Watched
  BY DEF IInv
<1>1. CASE Validate
  BY <1>0, <1>1 DEF Validate
<1>2. CASE Aggregate
  BY <1>0, <1>2 DEF Aggregate
<1>3. CASE Finalize
  BY <1>0, <1>3 DEF Finalize
<1>4. CASE Clear
  BY <1>0, <1>4 DEF Clear
<1>5. CASE Rename
  BY <1>0, <1>5 DEF Rename
<1>6. CASE Cleanup
  BY <1>0, <1>6 DEF Cleanup
<1>7. CASE Die
  BY <1>0, <1>7 DEF Die, Ended
<1> QED BY <1>1, <1>2, <1>3, <1>4, <1>5, <1>6, <1>7

LEMMA OthersReaped ==
  ASSUME IInv, Reaped, Reported,
         ReaderStep \/ ChildStep \/ TimeUp \/ Silence \/ ReplaceTrace \/ WriteMarker
  PROVE  Reaped' /\ Reported'
<1> USE DEF TypeOK, Reaped, Reported, Alive, Line, supVars,
            childVars, lineVars, dirVars, etlVars
<1>0. TypeOK
  BY DEF IInv
<1>1. CASE ReadLine
  BY <1>0, <1>1 DEF ReadLine
<1>2. CASE EndOfFile
  BY <1>0, <1>2 DEF EndOfFile
<1>3. CASE Beat
  BY <1>0, <1>3 DEF Beat, Beating
<1>4. CASE FinishDecoding
  BY <1>0, <1>4 DEF FinishDecoding
<1>5. CASE FinishWriting
  BY <1>0, <1>5 DEF FinishWriting
<1>6. CASE ReportFailure
  BY <1>0, <1>6 DEF ReportFailure
<1>7. CASE Exit
  BY <1>0, <1>7 DEF Exit
<1>8. CASE CrashOrFreeze
  BY <1>0, <1>8 DEF CrashOrFreeze
<1>9. CASE TimeUp
  BY <1>0, <1>9 DEF TimeUp
<1>10. CASE Silence
  BY <1>0, <1>10 DEF Silence
<1>11. CASE ReplaceTrace
  BY <1>0, <1>11 DEF ReplaceTrace
<1>12. CASE WriteMarker
  BY <1>0, <1>12 DEF WriteMarker, Ended
<1> QED
  BY <1>1, <1>2, <1>3, <1>4, <1>5, <1>6, <1>7, <1>8, <1>9, <1>10, <1>11, <1>12
  DEF ReaderStep, ChildStep

\* What the verdict, the clean-up and the way of the result line rest on, whatever
\* child, reader and clock do (run_worker_process, run_dotnet_process).
THEOREM InductiveReaped == Spec => [](IInv /\ Reaped /\ Reported)
<1>1. Init => Reaped /\ Reported
  BY DEF Init, Reaped, Reported
<1>2. IInv /\ Reaped /\ Reported /\ [Next]_vars => (IInv /\ Reaped /\ Reported)'
  <2> SUFFICES ASSUME IInv, Reaped, Reported, [Next]_vars
               PROVE  (IInv /\ Reaped /\ Reported)'
    OBVIOUS
  <2>1. CASE SupervisorStep \/ Die
    BY <2>1, WatchReaped, PromoteReaped, NextInv DEF SupervisorStep
  <2>2. CASE ReaderStep \/ ChildStep \/ TimeUp \/ Silence \/ ReplaceTrace \/ WriteMarker
    BY <2>2, OthersReaped, NextInv
  <2>3. CASE UNCHANGED vars
    BY <2>3, NextInv DEF vars, supVars, childVars, lineVars, dirVars, etlVars,
                         Reaped, Reported, Alive
  <2> QED BY <2>1, <2>2, <2>3 DEF Next, Terminated
<1> QED BY <1>1, <1>2, InitInv, PTL DEF Spec

\* A run that has returned leaves no running child, and a failed native run no
\* staging directory, unless the child survives terminate and kill.
THEOREM LeavesNothing == Spec => []NothingLeft
<1>1. Reaped => NothingLeft
  BY DEF Reaped, NothingLeft
<1> QED BY <1>1, InductiveReaped, PTL

\* Whenever the reader reached the end of the pipe, a child that reported
\* success and exited with 0 is not called a crash.
THEOREM NoResultLost == Spec => ResultNotLost
<1>1. IInv /\ Reaped /\ Reported /\ [Next]_vars =>
        (verdict' \in {"crash", "no-result"} /\ verdict' # verdict /\ rc = "zero"
           => reader # "ended")
  <2> SUFFICES ASSUME IInv, Reported, [Next]_vars,
                      verdict' \in {"crash", "no-result"}, verdict' # verdict, rc = "zero",
                      reader = "ended"
               PROVE  FALSE
    OBVIOUS
  <2>1. Drained = "ok"
    BY DEF Reported, Drained
  <2>2. Decide
    BY DEF Next, Terminated, SupervisorStep, ReaderStep, ChildStep, Prepare, Launch, Isolate,
           Drain, Poll, Terminate, Join, Validate, Aggregate, Finalize, Clear, Rename, Cleanup,
           Die, ReadLine, EndOfFile, Beat, FinishDecoding, FinishWriting, ReportFailure, Exit,
           CrashOrFreeze, TimeUp, Silence, ReplaceTrace, WriteMarker, Fail, vars, supVars
  <2>3. Decision(Drained) \notin {"crash", "no-result"}
    <3>1. failure \in {"none", "isolation", "timeout", "stale-heartbeat"}
      BY DEF Reported
    <3> HIDE DEF Drained
    <3> QED BY <2>1, <3>1 DEF Decision, IInv, TypeOK
  <2>4. verdict' = verdict \/ verdict' = Decision(Drained)
    BY <2>2 DEF Decide, Fail
  <2> QED BY <2>3, <2>4
<1> QED BY <1>1, InductiveReaped, PTL DEF ResultNotLost, Spec

-----------------------------------------------------------------------------
(* Every step is one of Extraction's, or changes nothing it speaks of. *)

LEMMA InitImplements == Init => E!Init
BY DEF Init, E!Init, stageOf, cacheOf

\* What Extraction sees does not change.
LEMMA Stutters ==
  ASSUME UNCHANGED <<verdict, cacheOf>>,
         (sup = "dead") <=> (sup' = "dead"),
         (sup \in {"finalize", "clear", "rename"}) <=> (sup' \in {"finalize", "clear", "rename"})
  PROVE  UNCHANGED E!vars
BY DEF stageOf, E!vars

\* A run that gives up before it removed anything.
LEMMA FailImplements ==
  ASSUME IInv, NEW kind \in FailureKind, Fail(kind), verdict = "none", sup # "dead",
         cacheOf' = cacheOf
  PROVE  E!Fail
BY DEF Fail, E!Fail, stageOf, FailureKind

LEMMA WatchImplements ==
  ASSUME IInv,
         Prepare \/ Launch \/ Isolate \/ Drain \/ Poll \/ Terminate \/ Join \/ Decide
  PROVE  [E!Next]_(E!vars)
<1> USE DEF childVars, lineVars, dirVars, etlVars, cacheOf
<1>0. verdict = "none" /\ sup \notin {"finalize", "clear", "rename", "dead"} /\ export' = export
  BY DEF IInv, Settled, Prepare, Launch, Isolate, Drain, Poll, Terminate, Join, Decide
<1>1. CASE verdict' = verdict
  <2>1. sup' \notin {"finalize", "clear", "rename", "dead"}
    BY <1>0, <1>1 DEF Prepare, Launch, Isolate, Drain, Poll, Terminate, Join, Decide, Fail,
                      IInv, TypeOK, FailureKind
  <2> QED BY <1>0, <1>1, <2>1, Stutters
<1>2. CASE verdict' # verdict
  <2>1. \E kind \in FailureKind : Fail(kind)
    BY <1>0, <1>2 DEF Prepare, Launch, Isolate, Drain, Poll, Terminate, Join, Decide,
                      Decision, IInv, TypeOK, FailureKind
  <2> QED BY <1>0, <2>1, FailImplements DEF E!Next
<1> QED BY <1>1, <1>2

LEMMA PromoteImplements ==
  ASSUME IInv,
         Validate \/ Aggregate \/ Finalize \/ Clear \/ Rename \/ Cleanup \/ Die
  PROVE  [E!Next]_(E!vars)
<1> USE DEF childVars, lineVars, dirVars, etlVars
<1>1. CASE Validate \/ Aggregate
  <2>1. verdict = "none" /\ sup \in {"validate", "aggregate"} /\ cacheOf' = cacheOf
    BY <1>1 DEF Validate, Aggregate, IInv, Settled, cacheOf
  <2>2. CASE \E kind \in FailureKind : Fail(kind)
    BY <2>1, <2>2, FailImplements DEF E!Next
  <2>3. CASE ~ \E kind \in FailureKind : Fail(kind)
    <3>1. verdict' = verdict /\ sup' \in {"finalize", "aggregate"}
      BY <1>1, <2>3 DEF Validate, Aggregate, FailureKind
    <3> QED BY <2>1, <3>1 DEF E!Next, E!Ready, E!vars, stageOf
  <2> QED BY <2>2, <2>3
<1>2. CASE Finalize
  <2>1. verdict = "none" /\ sup = "finalize" /\ cacheOf' = cacheOf
    BY <1>2 DEF Finalize, IInv, Settled, cacheOf
  <2>2. CASE Fail("promotion")
    BY <2>1, <2>2, FailImplements DEF E!Next, FailureKind
  <2>3. CASE sup' = "clear" /\ UNCHANGED verdict
    BY <2>1, <2>3, Stutters
  <2> QED BY <1>2, <2>2, <2>3 DEF Finalize
<1>3. CASE Clear
  <2>1. verdict = "none" /\ sup = "clear" /\ export # "new"
    BY <1>3 DEF Clear, IInv, Settled
  <2>2. cacheOf' = cacheOf \/ (cacheOf = "old" /\ cacheOf' = "none")
    BY <1>3, <2>1 DEF Clear, cacheOf
  <2>3. CASE Fail("promotion")
    BY <2>1, <2>2, <2>3 DEF Fail, E!Next, E!Fail, stageOf
  <2>4. CASE sup' \in {"clear", "rename"} /\ UNCHANGED verdict
    BY <2>1, <2>2, <2>4 DEF E!Next, E!Remove, E!vars, stageOf
  <2> QED BY <1>3, <2>1, <2>3, <2>4 DEF Clear
<1>4. CASE Rename
  <2>1. verdict = "none" /\ sup = "rename" /\ export # "new"
    BY <1>4 DEF Rename, IInv, Settled
  <2>2. CASE Fail("promotion") /\ UNCHANGED export
    BY <2>1, <2>2, FailImplements DEF E!Next, FailureKind, cacheOf
  <2>3. CASE sup' = "rename" /\ UNCHANGED <<verdict, export>>
    BY <2>1, <2>3, Stutters DEF cacheOf
  <2>4. CASE export = "absent" /\ export' = "new" /\ verdict' = "ok"
    BY <2>1, <2>4 DEF E!Next, E!Install, stageOf, cacheOf
  <2> QED BY <1>4, <2>1, <2>2, <2>3, <2>4 DEF Rename
<1>5. CASE Cleanup
  BY <1>5, Stutters DEF Cleanup, cacheOf
<1>6. CASE Die
  <2>1. UNCHANGED <<verdict, cacheOf>> /\ sup \notin {"returned", "dead"} /\ sup' = "dead"
    BY <1>6 DEF Die, Ended, cacheOf
  <2>2. CASE verdict = "none"
    BY <2>1, <2>2 DEF E!Next, E!Die, stageOf
  <2>3. CASE verdict # "none"
    BY <2>1, <2>3 DEF E!vars, stageOf, IInv, Settled
  <2> QED BY <2>2, <2>3
<1> QED BY <1>1, <1>2, <1>3, <1>4, <1>5, <1>6

LEMMA OthersImplement ==
  ASSUME ReaderStep \/ ChildStep \/ TimeUp \/ Silence \/ ReplaceTrace \/ WriteMarker
  PROVE  UNCHANGED E!vars
<1>1. UNCHANGED <<sup, verdict, cacheOf>>
  BY DEF ReaderStep, ChildStep, ReadLine, EndOfFile, Beat, FinishDecoding, FinishWriting,
         ReportFailure, Exit, CrashOrFreeze, TimeUp, Silence, ReplaceTrace, WriteMarker,
         supVars, lineVars, dirVars, childVars, etlVars, cacheOf
<1> QED BY <1>1, Stutters

\* Both extractions implement Extraction: until a complete, validated cache
\* stands ready the old one is not touched, and "ok" comes with the new one.
THEOREM ImplementsExtraction == Spec => Implements
<1>1. IInv /\ [Next]_vars => [E!Next]_(E!vars)
  <2> SUFFICES ASSUME IInv, [Next]_vars PROVE [E!Next]_(E!vars)
    OBVIOUS
  <2>1. CASE SupervisorStep \/ Die
    BY <2>1, WatchImplements, PromoteImplements DEF SupervisorStep
  <2>2. CASE ReaderStep \/ ChildStep \/ TimeUp \/ Silence \/ ReplaceTrace \/ WriteMarker
    BY <2>2, OthersImplement
  <2>3. CASE UNCHANGED vars
    BY <2>3, Stutters DEF vars, supVars, dirVars, cacheOf
  <2> QED BY <2>1, <2>2, <2>3 DEF Next, Terminated
<1> QED BY <1>1, InitImplements, Inductive, PTL DEF Spec, Implements, E!Spec
=============================================================================
