-------------------------- MODULE LoadPipelineProofs --------------------------
(* Type correctness, forced modes, failed loads and the cover of the dumpers, *)
(* for any number of loads, of versions of the trace file and of waiting      *)
(* tools, on any hosts, with and without the assumptions Prompt and Overlap.  *)
EXTENDS LoadPipeline, TLAPS

USE ConstantsAssumption

-----------------------------------------------------------------------------
(* The choice of a mode *)

LEMMA CandidateType ==
  ASSUME NEW arg \in Request, NEW h \in Host
  PROVE  Candidate(arg, h) \in Request
BY DEF Candidate, Request, Host

LEMMA GuardedType ==
  ASSUME NEW arg \in Request, NEW h \in Host, NEW earlier \in Mode \cup {"none"}
  PROVE  /\ Guarded(arg, h, ResolveMode(arg, h, earlier)) \in Mode \cup {"refused"}
         /\ Remembered(arg, h, earlier) \in Mode \cup {"none"}
<1>1. Candidate(arg, h) \in Request
  BY CandidateType
<1>2. h.sidecar \in BOOLEAN /\ h.native \in BOOLEAN /\ h.big \in BOOLEAN
  BY DEF Host
<1>3. AutoMode(h) \in Mode
  BY <1>2 DEF AutoMode, Mode
<1>4. ResolveMode(arg, h, earlier) \in Mode \cup {"refused"}
  BY <1>1, <1>2, <1>3 DEF ResolveMode, Request, Mode
<1>5. Guarded(arg, h, ResolveMode(arg, h, earlier)) \in Mode \cup {"refused"}
  BY <1>1, <1>2, <1>4 DEF Guarded, Mode
<1>6. Remembered(arg, h, earlier) \in Mode \cup {"none"}
  BY <1>3 DEF Remembered, ResolveMode
<1> QED BY <1>5, <1>6

\* Unless it is refused, a mode that was asked for is the mode that is used.
LEMMA GuardedForced ==
  ASSUME NEW arg \in Request, NEW h \in Host, NEW earlier \in Mode \cup {"none"},
         Candidate(arg, h) \in Mode,
         Guarded(arg, h, ResolveMode(arg, h, earlier)) # "refused"
  PROVE  Guarded(arg, h, ResolveMode(arg, h, earlier)) = Candidate(arg, h)
<1>1. h.sidecar \in BOOLEAN /\ h.native \in BOOLEAN /\ h.big \in BOOLEAN
  BY DEF Host
<1>2. ResolveMode(arg, h, earlier) \in {Candidate(arg, h), "refused"}
  BY <1>1 DEF ResolveMode, Mode
<1> QED BY <1>1, <1>2 DEF Guarded, Mode

-----------------------------------------------------------------------------
(* Datasets and directories *)

LEMMA FamilyType == ASSUME NEW mode \in Mode PROVE Family(mode) \in {"native", "xperf"}
BY DEF Family

LEMMA NothingIsNoSource == \A s \in Source : s # Nothing
BY DEF Source, Nothing

LEMMA NoDataType == NoData \in Data /\ Class \cap Present(NoData) = {}
BY DEF NoData, Data, Present

LEMMA EmptyDirType ==
  ASSUME NEW v \in Version
  PROVE  /\ EmptyDir \in Directory
         /\ [EmptyDir EXCEPT !.touched = v] \in Directory
<1>1. 1 \in Version /\ 0 \in 0 .. Versions
  BY DEF Version
<1> QED BY <1>1, NoDataType DEF EmptyDir, Directory

LEMMA OldCacheType == OldCache \in Directory
<1>1. 1 \in Version /\ 1 \in 0 .. Versions
  BY DEF Version
<1>2. [by |-> "xperf", etl |-> 1] \in Source
  BY <1>1 DEF Source
<1>3. [n \in Name |-> IF n \in Table THEN [by |-> "xperf", etl |-> 1] ELSE Nothing] \in Data
  BY <1>2 DEF Data
<1>4. EmptyDir \in Directory
  BY <1>1, EmptyDirType
<1> QED BY <1>1, <1>3, <1>4 DEF OldCache, Directory

\* Changing the files of a directory, and its manifest.
LEMMA FilesChanged ==
  ASSUME NEW d \in Directory, NEW files \in Data
  PROVE  [d EXCEPT !.file = files] \in Directory
BY DEF Directory

LEMMA WithManifestType ==
  ASSUME NEW d \in Directory, NEW mode \in Mode, NEW data, NEW stems \in SUBSET Class,
         etl \in Version
  PROVE  WithManifest(d, mode, data, stems) \in Directory
<1> DEFINE tables == {n \in Table : data[n] # Nothing /\ d.file[n] # Nothing}
           events == {c \in stems : d.file[c] # Nothing}
           m == [by |-> Family(mode), etl |-> etl, stream |-> FALSE, lists |-> tables \cup events]
<1>1. tables \cup events \in SUBSET Name
  BY DEF Name
<1>2. m \in Manifest
  BY <1>1, FamilyType DEF Manifest
<1>3. [d EXCEPT !.manifest = m] \in Directory
  BY <1>2 DEF Directory
<1> QED BY <1>3 DEF WithManifest

\* The butterfly touches no event class.
LEMMA RefreshedType ==
  ASSUME NEW data \in Data, dir \in Directory
  PROVE  /\ Refreshed(data) \in Data
         /\ Class \cap Present(Refreshed(data)) = Class \cap Present(data)
<1>1. CASE dir.html = 0
  BY <1>1 DEF Refreshed
<1>2. CASE dir.html # 0
  <2>1. dir.html \in Version
    BY <1>2 DEF Directory, Version
  <2>2. [by |-> "xperf", etl |-> dir.html] \in Source
    BY <2>1 DEF Source
  <2>3. "stacks" \in Name /\ "stacks" \notin Class /\ Class \subseteq Name
    BY DEF Name, Table, Class
  <2> QED BY <1>2, <2>2, <2>3 DEF Refreshed, Data, Present
<1> QED BY <1>1, <1>2

LEMMA CachedTablesType ==
  ASSUME dir \in Directory
  PROVE  CachedTables \in Data /\ Class \cap Present(CachedTables) = {}
<1>1. dir.file \in Data
  BY DEF Directory
<1>2. Class \cap Table = {}
  BY DEF Class, Table
<1> QED BY <1>1, <1>2 DEF CachedTables, Data, Present

-----------------------------------------------------------------------------
(* Steps of the loader *)

LEMMA NoTraceType == NoTrace \in TraceData
<1>1. 1 \in Version
  BY DEF Version
<1> QED BY <1>1, NoDataType DEF NoTrace, TraceData, Mode, Thread

LEMMA InitInv == Init => IInv
<1> SUFFICES ASSUME Init PROVE IInv
  OBVIOUS
<1>1. etl \in Version /\ 0 \in 0 .. MaxLoads
  BY DEF Init, Version
<1>2. host \in Host
  BY DEF Init
<1>3. dir \in Directory
  BY <1>1, EmptyDirType, OldCacheType DEF Init
<1>4. loader \in LoaderData
  BY <1>1 DEF Init, Idle, LoaderData, LoaderPc, Request, Mode
<1>5. trace \in [Load -> TraceData] /\ \A i \in Load : trace[i] = NoTrace
  BY NoTraceType DEF Init
<1>6. registry \in [Version -> 0 .. MaxLoads] /\ \A v \in Version : registry[v] = 0
  BY <1>1 DEF Init
<1>7. tool \in [Tool -> [for : 0 .. MaxLoads, blocked : BOOLEAN]]
  BY <1>1 DEF Init, NoWait
<1>8. TypeOK
  BY <1>1, <1>2, <1>3, <1>4, <1>5, <1>6, <1>7 DEF Init, TypeOK
<1>9. loader.pc = "idle" /\ loader.reply = "none"
  BY DEF Init, Idle
<1>10. Fresh /\ AtHome /\ OnChain /\ ForcedModeKept
  BY <1>5, <1>6, <1>9 DEF Fresh, AtHome, OnChain, ForcedModeKept, Registered
<1>11. LoaderWaits /\ AllStored
  BY <1>5 DEF LoaderWaits, AllStored, NoTrace
<1> QED BY <1>8, <1>10, <1>11 DEF IInv

LEMMA LoadRange == ASSUME TypeOK, loader.load # 0 PROVE loader.load \in Load
BY DEF TypeOK, LoaderData, Load

\* A step of a load that has registered nothing yet.
LEMMA BeforeRegistration ==
  ASSUME IInv, Registering, UNCHANGED <<etl, host, auto, trace, registry, tool>>,
         dir' \in Directory, loader' \in LoaderData,
         loader'.load = loader.load, loader'.arg = loader.arg,
         \/ Registering' /\ loader'.reply = "none"
         \/ loader'.pc = "idle" /\ loader'.reply = "failed",
         Candidate(loader.arg, host) \in Mode => loader'.mode = loader.mode
  PROVE  IInv'
<1> USE DEF IInv
<1>0. loader.pc \notin {"idle", "stamp", "dump", "await", "blocked"}
  BY DEF Registering
<1>1. loader'.pc \notin {"stamp", "dump", "await", "blocked"} /\ loader'.reply # "loaded"
  BY DEF Registering
<1>2. TypeOK'
  BY DEF TypeOK, Load, Version
<1>3. Fresh' /\ AtHome'
  BY DEF Fresh, AtHome, Registering, Registered, Load, Version
<1>4. OnChain' /\ ForcedModeKept'
  BY <1>0, <1>1 DEF OnChain, ForcedModeKept, Registering
<1>5. LoaderWaits' /\ AllStored'
  BY <1>0, <1>1 DEF LoaderWaits, AllStored, Waiting, Present, Registered, Load, Version, Class
<1> QED BY <1>2, <1>3, <1>4, <1>5

LEMMA CallInv ==
  ASSUME IInv, NEW arg \in Request, NEW limited \in BOOLEAN, Call(arg, limited)
  PROVE  IInv'
<1> USE DEF IInv
<1> DEFINE m == Guarded(arg, host, ResolveMode(arg, host, auto))
<1>0. host \in Host /\ auto \in Mode \cup {"none"} /\ loader \in LoaderData
  BY DEF TypeOK
<1>1. m \in Mode \cup {"refused"} /\ auto' \in Mode \cup {"none"}
  BY <1>0, GuardedType DEF Call
<1>2. UNCHANGED <<etl, host, dir, trace, registry, tool>> /\ loader.pc = "idle"
  BY DEF Call
<1>3. CASE UNCHANGED loader
  <2>1. TypeOK'
    BY <1>1, <1>2, <1>3 DEF TypeOK, Load, Version
  <2>2. Fresh' /\ AtHome' /\ OnChain' /\ ForcedModeKept'
    BY <1>2, <1>3 DEF Fresh, AtHome, OnChain, ForcedModeKept, Registering, Registered
  <2>3. LoaderWaits' /\ AllStored'
    BY <1>2, <1>3 DEF LoaderWaits, AllStored, Waiting, Present, Registered
  <2> QED BY <2>1, <2>2, <2>3
<1>4. CASE \E force \in BOOLEAN :
             /\ m # "refused" /\ loader.load < MaxLoads
             /\ loader' = [pc |-> "begin", load |-> loader.load + 1, arg |-> arg,
                           force |-> force, mode |-> m, cached |-> FALSE, reply |-> "none"]
  <2>1. loader' \in LoaderData
    BY <1>0, <1>1, <1>4 DEF LoaderData, LoaderPc
  <2>2. /\ loader'.load = loader.load + 1 /\ loader'.pc = "begin" /\ loader'.reply = "none"
        /\ loader'.arg = arg /\ loader'.mode = m
    BY <1>4
  <2>3. TypeOK'
    BY <1>1, <1>2, <2>1 DEF TypeOK, Load, Version
  <2>4. loader.load \in Nat
    BY <1>0 DEF LoaderData
  <2>5. Fresh' /\ AtHome'
    BY <1>2, <2>2, <2>4 DEF Fresh, AtHome, Registering, Registered, Load
  <2>6. OnChain' /\ ForcedModeKept'
    BY <1>0, <1>2, <1>4, <2>2, <2>4, GuardedForced DEF OnChain, ForcedModeKept
  <2>7. LoaderWaits' /\ AllStored'
    BY <1>2, <2>2 DEF LoaderWaits, AllStored, Waiting, Present, Registered
  <2> QED BY <2>3, <2>5, <2>6, <2>7
<1> QED BY <1>3, <1>4 DEF Call

\* Up to registration a load only moves on, empties the directory or gives up.
LEMMA EarlyInv ==
  ASSUME IInv,
         Begin \/ Probe \/ WorkerSucceeds \/ WorkerFails \/ Reload \/ Fallback \/ ExportFails
  PROVE  IInv'
<1>0. /\ loader \in LoaderData /\ dir \in Directory /\ host \in Host /\ etl \in Version
      /\ etl \in 0 .. Versions /\ 0 \in 0 .. Versions
  BY DEF IInv, TypeOK, Version
<1>1. Registering /\ loader.reply = "none"
  BY DEF IInv, OnChain, Registering, Begin, Probe, WorkerSucceeds, WorkerFails, Reload,
         Fallback, ExportFails
<1>2. UNCHANGED <<etl, host, auto, trace, registry, tool>>
  BY DEF Begin, Probe, WorkerSucceeds, WorkerFails, Reload, Fallback, ExportFails
<1>3. [EmptyDir EXCEPT !.touched = etl] \in Directory /\ [dir EXCEPT !.touched = etl] \in Directory
  BY <1>0, EmptyDirType DEF Directory
<1>4. /\ loader' \in LoaderData /\ loader'.load = loader.load /\ loader'.arg = loader.arg
      /\ \/ Registering' /\ loader'.reply = "none"
         \/ loader'.pc = "idle" /\ loader'.reply = "failed"
      /\ Candidate(loader.arg, host) \in Mode => loader'.mode = loader.mode
  <2>1. CASE Begin
    BY <1>0, <1>1, <2>1 DEF Begin, LoaderData, LoaderPc, Registering
  <2>2. CASE Probe
    <3>1. loader.mode \in Mode /\ host.worker \in BOOLEAN
      BY <1>0 DEF Host, LoaderData
    <3>2. Dispatch(loader.mode) \in {"worker", "inprocess", "export"}
      BY <3>1 DEF Dispatch, Mode
    <3>3. \/ loader' = [loader EXCEPT !.pc = "restore", !.cached = TRUE]
          \/ loader' = [loader EXCEPT !.pc = Dispatch(loader.mode)]
      BY <2>2 DEF Probe, Goto, At
    <3> QED BY <1>0, <1>1, <3>2, <3>3 DEF LoaderData, LoaderPc, Registering
  <2>3. CASE WorkerSucceeds \/ WorkerFails
    BY <1>0, <1>1, <2>3 DEF WorkerSucceeds, WorkerFails, Goto, At, LoaderData, LoaderPc, Registering
  <2>4. CASE Reload
    BY <1>0, <1>1, <2>4, ZenonT(40) DEF Reload, Goto, At, LoaderData, LoaderPc, Registering
  <2>5. CASE Fallback
    <3>1. host.worker \in BOOLEAN /\ host.xperf \in BOOLEAN /\ loader.mode \in Mode
      BY <1>0 DEF Host, LoaderData
    <3>2. NextMode \in Mode \cup {"none"} /\ (Forced => NextMode = "none")
      BY <3>1 DEF NextMode, Mode
    <3>3. Candidate(loader.arg, host) \in Mode => Forced
      BY <2>5 DEF IInv, OnChain, Fallback, Forced
    <3>4. CASE NextMode = "none"
      BY <1>0, <1>1, <2>5, <3>4, ZenonT(40)
      DEF Fallback, Answer, Answered, LoaderData, LoaderPc, Registering
    <3>5. CASE NextMode # "none"
      <4>1. NextMode \in Mode /\ Candidate(loader.arg, host) \notin Mode
        BY <3>2, <3>3, <3>5
      <4>2. loader' = [loader EXCEPT !.pc = "probe", !.mode = NextMode]
        BY <2>5, <3>5 DEF Fallback
      <4> QED BY <1>0, <1>1, <4>1, <4>2 DEF LoaderData, LoaderPc, Registering
    <3> QED BY <3>4, <3>5
  <2>6. CASE ExportFails
    BY <1>0, <1>1, <2>6 DEF ExportFails, Answer, Answered, LoaderData, LoaderPc, Registering
  <2> QED BY <2>1, <2>2, <2>3, <2>4, <2>5, <2>6
<1>5. dir' \in Directory
  <2>1. CASE Begin
    BY <1>3, <2>1 DEF Begin
  <2>2. CASE WorkerSucceeds
    <3>1. PICK stream \in BOOLEAN :
            dir' = [file |-> [n \in Name |-> [by |-> "native", etl |-> etl]],
                    html |-> 0, texts |-> FALSE,
                    manifest |-> [by |-> "native", etl |-> etl, stream |-> stream, lists |-> Name],
                    touched |-> etl]
      BY <2>2 DEF WorkerSucceeds
    <3>2. [n \in Name |-> [by |-> "native", etl |-> etl]] \in Data
      BY <1>0 DEF Data, Source
    <3>3. [by |-> "native", etl |-> etl, stream |-> stream, lists |-> Name] \in Manifest
      BY <1>0 DEF Manifest
    <3> QED BY <1>0, <3>1, <3>2, <3>3 DEF Directory
  <2>3. CASE WorkerFails \/ Reload
    BY <1>0, <1>3, <2>3 DEF WorkerFails, Reload
  <2>4. CASE Probe \/ Fallback \/ ExportFails
    BY <1>0, <2>4 DEF Probe, Fallback, ExportFails
  <2> QED BY <2>1, <2>2, <2>3, <2>4
<1> QED BY <1>1, <1>2, <1>4, <1>5, BeforeRegistration

\* A load registers its trace, which has no event class yet.
LEMMA RegisterInv ==
  ASSUME IInv, Registering, UNCHANGED <<etl, host, auto, tool>>, dir' \in Directory,
         NEW data \in Data, Class \cap Present(data) = {}, NEW stream \in BOOLEAN,
         NEW next, next \in {At("stamp"), At("dump"), Answered("loaded")},
         Register(loader.load, data, stream, next)
  PROVE  IInv'
<1> USE DEF IInv
<1> DEFINE i == loader.load
           r == [NoTrace EXCEPT !.mode = loader.mode, !.etl = etl,
                                !.data = data, !.stream = stream]
<1>0. /\ loader \in LoaderData /\ etl \in Version /\ loader.reply = "none" /\ loader.pc # "idle"
      /\ i \in Load
  BY LoadRange DEF TypeOK, OnChain, Registering
<1>1. /\ r \in TraceData /\ r.mode = loader.mode /\ r.etl = etl /\ r.data = data
      /\ r.thread = "off" /\ ~r.ready /\ ~r.error
  BY <1>0 DEF NoTrace, TraceData, Thread, LoaderData
<1> HIDE DEF r
<1>2. trace' = [trace EXCEPT ![i] = r] /\ registry' = [registry EXCEPT ![etl] = i]
  BY DEF Register, r
<1>3. /\ loader' \in LoaderData /\ loader'.load = i /\ loader'.arg = loader.arg
      /\ loader'.mode = loader.mode
      /\ \/ loader'.pc \in {"stamp", "dump"} /\ loader'.reply = "none"
         \/ loader'.pc = "idle" /\ loader'.reply = "loaded"
  BY <1>0 DEF Register, At, Answered, LoaderData, LoaderPc
<1>4. trace \in [Load -> TraceData] /\ registry \in [Version -> 0 .. MaxLoads]
  BY DEF TypeOK
<1>5. /\ trace' \in [Load -> TraceData] /\ trace'[i] = r
      /\ \A j \in Load \ {i} : trace'[j] = trace[j]
  BY <1>0, <1>1, <1>2, <1>4
<1>6. /\ registry' \in [Version -> 0 .. MaxLoads] /\ registry'[etl] = i
      /\ \A v \in Version \ {etl} : registry'[v] = registry[v]
  BY <1>0, <1>2, <1>4 DEF Load
<1>7. TypeOK'
  BY <1>3, <1>5, <1>6 DEF TypeOK, Load, Version
<1>8. i \notin Registered /\ i # 0
  BY <1>0 DEF Fresh, Load
<1>9. \A j \in Load \ {i} : j \in Registered' => j \in Registered
  BY <1>6 DEF Registered, Version
<1>10. Fresh'
  <2>1. ~Registering'
    BY <1>3 DEF Registering
  <2> QED BY <1>0, <1>3, <1>5, <1>9, <2>1 DEF Fresh, Load
<1>11. AtHome'
  <2> SUFFICES ASSUME NEW v \in Version, registry'[v] # 0 PROVE trace'[registry'[v]].etl = v
    BY DEF AtHome, Version
  <2>1. CASE v = etl
    BY <1>1, <1>5, <1>6, <2>1
  <2>2. CASE v # etl
    <3>1. registry'[v] = registry[v] /\ registry[v] # i /\ registry[v] \in Load
      BY <1>4, <1>6, <1>8, <2>2 DEF Registered, Load
    <3> QED BY <1>5, <3>1 DEF AtHome
  <2> QED BY <2>1, <2>2
<1>12. OnChain'
  BY <1>0, <1>1, <1>3, <1>5 DEF OnChain, Load, Present
<1>13. ForcedModeKept'
  BY <1>0, <1>1, <1>3, <1>5 DEF OnChain, ForcedModeKept, Load
<1>14. LoaderWaits' /\ AllStored'
  <2>1. \A j \in Load : ~Waiting(j) /\ ~Waiting(j)'
    BY <1>3 DEF Waiting, Registering
  <2> QED BY <1>1, <1>5, <1>9, <2>1 DEF LoaderWaits, AllStored, Present, Load
<1> QED BY <1>7, <1>10, <1>11, <1>12, <1>13, <1>14

LEMMA RegistrationInv ==
  ASSUME IInv, Restore \/ RegisterInProcess \/ Export
  PROVE  IInv'
<1>0. /\ loader \in LoaderData /\ dir \in Directory /\ dir.file \in Data
      /\ etl \in Version /\ etl \in 0 .. Versions
  BY DEF IInv, TypeOK, Version, Directory
<1>1. Registering /\ UNCHANGED <<etl, host, auto, tool>>
  BY DEF Registering, Restore, RegisterInProcess, Export
<1>2. CASE Restore
  <2> DEFINE data == Refreshed(CachedTables)
             stream == dir.manifest.by = "native" /\ dir.manifest.stream
  <2>1. data \in Data /\ Class \cap Present(data) = {}
    BY <1>0, CachedTablesType, RefreshedType
  <2>2. dir' \in Directory
    <3>1. data["stacks"] \in Source \cup {Nothing}
      BY <2>1 DEF Data, Name, Table
    <3>2. dir' = [dir EXCEPT !.file = [dir.file EXCEPT !["stacks"] =
                    IF dir.html = 0 THEN @ ELSE data["stacks"]]]
      BY <1>2 DEF Restore
    <3>3. [dir.file EXCEPT !["stacks"] = IF dir.html = 0 THEN @ ELSE data["stacks"]] \in Data
      BY <1>0, <3>1 DEF Data
    <3> QED BY <1>0, <3>2, <3>3, FilesChanged
  <2>3. stream \in BOOLEAN
    OBVIOUS
  <2>4. \E s \in BOOLEAN, next \in {At("stamp"), At("dump"), Answered("loaded")} :
          Register(loader.load, data, s, next)
    <3>1. loader.mode \in Mode
      BY <1>0 DEF LoaderData
    <3> QED BY <1>2, <2>3, <3>1 DEF Restore, Mode
  <2> QED BY <1>1, <2>1, <2>2, <2>4, RegisterInv
<1>3. CASE RegisterInProcess
  BY <1>0, <1>1, <1>3, NoDataType, RegisterInv DEF RegisterInProcess
<1>4. CASE Export
  <2> DEFINE new == [by |-> "xperf", etl |-> etl]
             d(done) == [dir EXCEPT
                           !.file = [n \in Name |-> IF n \in done THEN new ELSE dir.file[n]],
                           !.html = IF "stacks" \in done THEN etl ELSE @,
                           !.texts = @ \/ done # {}]
             data(done) == [n \in Name |->
                              CASE n \in done -> new
                                [] n = "stacks" /\ n \notin done /\ d(done).html # 0 ->
                                     [by |-> "xperf", etl |-> d(done).html]
                                [] OTHER -> Nothing]
  <2>1. PICK done \in IF Faults THEN SUBSET Table ELSE {Table} :
          /\ dir' = [d(done) EXCEPT !.file["stacks"] =
                       IF d(done).html = 0 THEN @ ELSE data(done)["stacks"]]
          /\ Register(loader.load, data(done), FALSE, At("stamp"))
    BY <1>4, Zenon DEF Export
  <2>2. done \in SUBSET Table
    BY <2>1
  <2>3. new \in Source
    BY <1>0 DEF Source
  <2>4. [n \in Name |-> IF n \in done THEN new ELSE dir.file[n]] \in Data
    BY <1>0, <2>3 DEF Data
  <2>5. d(done) \in Directory /\ d(done).file \in Data /\ d(done).html \in 0 .. Versions
    BY <1>0, <2>4 DEF Directory
  <2> HIDE DEF d
  <2>6. data(done) \in Data
    <3>1. ASSUME d(done).html # 0 PROVE [by |-> "xperf", etl |-> d(done).html] \in Source
      BY <2>5, <3>1 DEF Source, Version
    <3> QED BY <2>3, <3>1 DEF Data
  <2>7. Class \cap Present(data(done)) = {}
    BY <2>2 DEF Present, Class, Table, Name
  <2> HIDE DEF data
  <2>8. dir' \in Directory
    <3>1. data(done)["stacks"] \in Source \cup {Nothing}
      BY <2>6 DEF Data, Name, Table
    <3>2. [d(done).file EXCEPT !["stacks"] =
             IF d(done).html = 0 THEN @ ELSE data(done)["stacks"]] \in Data
      BY <2>5, <3>1 DEF Data
    <3> QED BY <2>1, <2>5, <3>2, FilesChanged
  <2> QED BY <1>1, <2>1, <2>6, <2>7, <2>8, RegisterInv
<1> QED BY <1>2, <1>3, <1>4

-----------------------------------------------------------------------------
(* Steps on a trace that is there *)

\* One trace changes, and the registry not.
LEMMA TraceStep ==
  ASSUME IInv, UNCHANGED <<etl, host, auto, registry, tool>>, dir' \in Directory,
         NEW i \in Load, NEW r \in TraceData, trace' = [trace EXCEPT ![i] = r],
         trace[i] # NoTrace \/ (i = loader.load /\ ~Registering),
         r.mode = trace[i].mode, r.etl = trace[i].etl,
         loader' \in LoaderData, loader'.load = loader.load, loader'.arg = loader.arg,
         loader'.mode = loader.mode, Registering' <=> Registering,
         OnChain',
         loader'.reply = "loaded" => loader.reply = "loaded" \/ loader.pc # "idle",
         loader'.reply = "loaded" /\ loader.reply # "loaded"
           => i = loader.load /\ r.mode = loader.mode,
         r.mode = "native" /\ r.thread = "extracting"
           => /\ i = loader.load /\ loader'.pc \in {"await", "blocked"}
              /\ r.data["SampledProfile"] = Nothing,
         r.mode = "native" /\ r.error
           => /\ r.thread = "done"
              /\ i \in Registered => i = loader.load /\ loader'.pc \in {"await", "blocked"},
         r.mode = "native" /\ r.error /\ i = loader.load /\ loader'.pc \in {"await", "blocked"}
           => r.data["SampledProfile"] = Nothing,
         loader'.pc \in {"await", "blocked"} /\ i # loader.load
           => loader.pc \in {"await", "blocked"},
         loader.pc \in {"await", "blocked"} /\ i # loader.load
           => loader'.pc \in {"await", "blocked"},
         r.thread \in {"aggregating", "closing"} \/ (r.ready /\ ~r.error)
           => Class \subseteq Present(r.data)
  PROVE  IInv'
<1> USE DEF IInv
<1>1. trace \in [Load -> TraceData] /\ registry \in [Version -> 0 .. MaxLoads]
  BY DEF TypeOK
<1>2. /\ trace' \in [Load -> TraceData] /\ trace'[i] = r
      /\ \A j \in Load \ {i} : trace'[j] = trace[j]
  BY <1>1
<1>3. TypeOK'
  BY <1>2 DEF TypeOK, Load, Version
<1>4. Registered' = Registered
  BY DEF Registered, Version
<1>5. Fresh'
  BY <1>2, <1>4 DEF Fresh, Load
<1>6. AtHome'
  <2> SUFFICES ASSUME NEW v \in Version, registry[v] # 0 PROVE trace'[registry[v]].etl = v
    BY DEF AtHome, Version
  <2>1. registry[v] \in Load
    BY <1>1 DEF Load
  <2> QED BY <1>2, <2>1 DEF AtHome
<1>7. ForcedModeKept'
  <2> SUFFICES ASSUME loader'.reply = "loaded", Candidate(loader.arg, host) \in Mode
               PROVE  trace'[loader.load].mode = Candidate(loader.arg, host)
    BY DEF ForcedModeKept
  <2>1. loader.load \in Load
    BY LoadRange DEF OnChain
  <2>2. trace'[loader.load].mode = trace[loader.load].mode
    BY <1>2, <2>1
  <2>3. CASE loader.reply = "loaded"
    BY <2>2, <2>3 DEF ForcedModeKept
  <2>4. CASE loader.reply # "loaded"
    BY <1>2, <2>1, <2>4 DEF OnChain
  <2> QED BY <2>3, <2>4
<1>8. LoaderWaits'
  BY <1>2, <1>4 DEF LoaderWaits, Waiting, Load
<1>9. AllStored'
  BY <1>2 DEF AllStored, Present, Load
<1> QED BY <1>3, <1>5, <1>6, <1>7, <1>8, <1>9

\* A load that has registered its trace.
LEMMA RegisteredLoad ==
  ASSUME IInv, loader.pc \in {"stamp", "dump", "await", "blocked"}
  PROVE  /\ loader \in LoaderData /\ loader.load \in Load /\ ~Registering
         /\ loader.reply = "none" /\ loader.mode \in Mode
         /\ trace[loader.load] \in TraceData /\ trace[loader.load].mode = loader.mode
         /\ trace = [trace EXCEPT ![loader.load] = trace[loader.load]]
         /\ dir \in Directory /\ etl \in Version
<1>1. loader.load \in Load /\ loader.reply = "none"
  BY LoadRange DEF IInv, OnChain
<1>2. trace \in [Load -> TraceData] /\ loader \in LoaderData
  BY DEF IInv, TypeOK
<1> QED BY <1>1, <1>2 DEF IInv, TypeOK, OnChain, Registering, LoaderData

LEMMA StampInv == ASSUME IInv, Stamp PROVE IInv'
<1> DEFINE i == loader.load
           r == trace[i]
<1>1. loader.pc = "stamp" /\ UNCHANGED <<etl, host, auto, trace, registry, tool>>
  BY DEF Stamp
<1>2. /\ loader \in LoaderData /\ i \in Load /\ ~Registering /\ loader.reply = "none"
      /\ r \in TraceData /\ r.mode = loader.mode /\ trace' = [trace EXCEPT ![i] = r]
      /\ dir \in Directory /\ etl \in Version
  BY <1>1, RegisteredLoad
<1>3. dir' \in Directory
  BY <1>2, WithManifestType DEF Stamp, Mode
<1>4. loader' = [loader EXCEPT !.pc = "dump"]
  BY DEF Stamp, Goto, At
<1>5. /\ loader' \in LoaderData /\ loader'.pc = "dump" /\ loader'.load = i
      /\ loader'.arg = loader.arg /\ loader'.mode = loader.mode /\ loader'.reply = "none"
      /\ ~Registering'
  BY <1>2, <1>4 DEF LoaderData, LoaderPc, Registering
<1>6. OnChain'
  BY <1>1, <1>2, <1>5 DEF IInv, OnChain, Present
<1>7. r.thread = "off" /\ ~r.error
  BY <1>1 DEF IInv, OnChain
<1>8. r.ready => Class \subseteq Present(r.data)
  BY <1>2, <1>7 DEF IInv, AllStored
<1> QED BY <1>1, <1>2, <1>3, <1>5, <1>6, <1>7, <1>8, TraceStep

LEMMA StartDumperInv == ASSUME IInv, StartDumper PROVE IInv'
<1> DEFINE i == loader.load
           back == {c \in RehydrationNames(trace[i].mode, trace[i].etl) : dir.file[c] # Nothing}
           data == [n \in Name |-> IF n \in back THEN dir.file[n] ELSE trace[i].data[n]]
           whole == Class \subseteq Present(data)
           r == [trace[i] EXCEPT !.data = data, !.ready = whole,
                                 !.thread = IF whole THEN "off" ELSE "extracting"]
<1>1. loader.pc = "dump" /\ UNCHANGED <<etl, host, auto, dir, registry, tool>>
  BY DEF StartDumper
<1>2. /\ loader \in LoaderData /\ i \in Load /\ ~Registering /\ loader.reply = "none"
      /\ trace[i] \in TraceData /\ trace[i].mode = loader.mode /\ loader.mode \in Mode
      /\ dir \in Directory /\ etl \in Version
  BY <1>1, RegisteredLoad
<1>3. trace[i].data \in Data /\ dir.file \in Data
  BY <1>2 DEF TraceData, Directory
<1>4. data \in Data /\ whole \in BOOLEAN
  BY <1>3 DEF Data
<1>5. trace[i].mode = "native" => whole \/ data["SampledProfile"] = Nothing
  <2> SUFFICES ASSUME trace[i].mode = "native" PROVE whole \/ data["SampledProfile"] = Nothing
    OBVIOUS
  <2>1. Class \subseteq Name /\ "SampledProfile" \in Class
    BY DEF Class, Name
  <2>2. dir.manifest \in Manifest \cup {NoManifest}
    BY <1>2 DEF Directory
  <2>3. \/ RehydrationNames("native", trace[i].etl) = {}
        \/ /\ RehydrationNames("native", trace[i].etl) = Class
           /\ Listed(dir.manifest, Name) /\ Class \subseteq dir.manifest.lists
    BY <2>2 DEF RehydrationNames, Family, Manifest, NoManifest
  <2>4. CASE RehydrationNames("native", trace[i].etl) = {}
    <3>1. trace[i].data["SampledProfile"] = Nothing
      BY <1>1, <1>2, <2>1 DEF IInv, OnChain, Present
    <3> QED BY <2>1, <2>4, <3>1
  <2>5. CASE /\ RehydrationNames("native", trace[i].etl) = Class
             /\ Listed(dir.manifest, Name) /\ Class \subseteq dir.manifest.lists
    <3>1. \A c \in Class : dir.file[c] # Nothing
      BY <2>1, <2>5 DEF Listed
    <3>2. back = Class
      BY <2>5, <3>1
    <3> QED BY <2>1, <3>1, <3>2 DEF Present
  <2> QED BY <2>3, <2>4, <2>5
<1>6. ~trace[i].error
  BY <1>1 DEF IInv, OnChain
<1> HIDE DEF data, whole
<1>7. /\ r \in TraceData /\ r.mode = loader.mode /\ r.etl = trace[i].etl /\ ~r.error
      /\ r.ready = whole /\ r.thread = IF whole THEN "off" ELSE "extracting"
      /\ r.data = data
  BY <1>2, <1>4, <1>6 DEF TraceData, Thread
<1>8. /\ trace' = [trace EXCEPT ![i] = r]
      /\ loader' = IF loader.mode = "native" THEN At("await") ELSE Answered("loaded")
  BY <1>2 DEF StartDumper, data, whole, Goto, Answer, IInv, TypeOK
<1> HIDE DEF r
<1>9. /\ loader' \in LoaderData /\ loader'.load = i /\ loader'.arg = loader.arg
      /\ loader'.mode = loader.mode /\ ~Registering'
      /\ \/ loader.mode = "native" /\ loader'.pc = "await" /\ loader'.reply = "none"
         \/ loader.mode # "native" /\ loader'.pc = "idle" /\ loader'.reply = "loaded"
  BY <1>2, <1>8 DEF At, Answered, LoaderData, LoaderPc, Registering
<1>10. trace'[i] = r
  BY <1>2, <1>8 DEF IInv, TypeOK
<1>11. OnChain'
  BY <1>1, <1>2, <1>7, <1>9, <1>10 DEF IInv, OnChain, Load
<1>12. r.mode = "native" /\ r.thread = "extracting"
         => loader'.pc = "await" /\ r.data["SampledProfile"] = Nothing
  BY <1>2, <1>5, <1>7, <1>9
<1>13. r.thread \in {"aggregating", "closing"} \/ (r.ready /\ ~r.error)
         => Class \subseteq Present(r.data)
  BY <1>7 DEF whole
<1> QED
  BY <1>1, <1>2, <1>7, <1>8, <1>9, <1>11, <1>12, <1>13, TraceStep

LEMMA AwaitBlocksInv == ASSUME IInv, AwaitBlocks PROVE IInv'
<1> DEFINE i == loader.load
           r == trace[i]
<1>1. loader.pc = "await" /\ UNCHANGED <<etl, host, auto, dir, trace, registry, tool>>
  BY DEF AwaitBlocks
<1>2. /\ loader \in LoaderData /\ i \in Load /\ ~Registering /\ loader.reply = "none"
      /\ r \in TraceData /\ r.mode = loader.mode /\ trace' = [trace EXCEPT ![i] = r]
      /\ dir' \in Directory
  BY <1>1, RegisteredLoad
<1>3. loader' = [loader EXCEPT !.pc = "blocked"]
  BY DEF AwaitBlocks, Goto, At
<1>4. /\ loader' \in LoaderData /\ loader'.pc = "blocked" /\ loader'.load = i
      /\ loader'.arg = loader.arg /\ loader'.mode = loader.mode /\ loader'.reply = "none"
      /\ ~Registering'
  BY <1>2, <1>3 DEF LoaderData, LoaderPc, Registering
<1>5. OnChain'
  BY <1>1, <1>2, <1>4 DEF IInv, OnChain
<1>6. /\ r.mode = "native" /\ r.thread = "extracting" => r.data["SampledProfile"] = Nothing
      /\ r.mode = "native" /\ r.error
           => r.thread = "done" /\ r.data["SampledProfile"] = Nothing
      /\ r.thread \in {"aggregating", "closing"} \/ (r.ready /\ ~r.error)
           => Class \subseteq Present(r.data)
  BY <1>1, <1>2 DEF IInv, LoaderWaits, AllStored, Waiting
<1> QED BY <1>1, <1>2, <1>4, <1>5, <1>6, TraceStep

LEMMA AwaitInv == ASSUME IInv, Await PROVE IInv'
<1> DEFINE i == loader.load
           samples == trace[i].data["SampledProfile"]
           data == [trace[i].data EXCEPT !["cpu_sampling"] = IF @ = Nothing THEN samples ELSE @]
           d == IF trace[i].data["cpu_sampling"] = Nothing /\ samples # Nothing
                  THEN [dir EXCEPT !.file["cpu_sampling"] = samples] ELSE dir
           r == [trace[i] EXCEPT !.data = data]
<1>1. /\ loader.pc \in {"await", "blocked"} /\ Waited(i)
      /\ UNCHANGED <<etl, host, auto, tool>>
  BY DEF Await, Waited
<1>2. /\ loader \in LoaderData /\ i \in Load /\ ~Registering /\ loader.reply = "none"
      /\ trace[i] \in TraceData /\ trace[i].mode = loader.mode
      /\ dir \in Directory /\ etl \in Version
  BY <1>1, RegisteredLoad
<1>3. trace \in [Load -> TraceData] /\ registry \in [Version -> 0 .. MaxLoads]
  BY DEF IInv, TypeOK
<1>4. CASE trace[i].error
  <2>1. /\ registry' = [registry EXCEPT ![trace[i].etl] = 0] /\ trace' = trace
        /\ dir' = [dir EXCEPT !.manifest = NoManifest]
        /\ loader' = Answered("failed")
    BY <1>4 DEF Await, Answer
  <2>2. dir' \in Directory
    BY <1>2, <2>1 DEF Directory
  <2>3. /\ loader' \in LoaderData /\ loader'.load = i /\ loader'.arg = loader.arg
        /\ loader'.pc = "idle" /\ loader'.reply = "failed" /\ ~Registering'
    BY <1>2, <2>1 DEF Answered, LoaderData, LoaderPc, Registering
  <2>4. /\ registry' \in [Version -> 0 .. MaxLoads]
        /\ \A v \in Version : registry'[v] = IF v = trace[i].etl THEN 0 ELSE registry[v]
    <3>1. 0 \in 0 .. MaxLoads
      OBVIOUS
    <3> QED BY <1>3, <2>1, <3>1
  <2>5. TypeOK'
    BY <1>1, <2>1, <2>2, <2>3, <2>4 DEF IInv, TypeOK, Load, Version
  <2>6. \A j \in Load : j \in Registered' => j \in Registered /\ j # i
    BY <2>4 DEF IInv, AtHome, Registered, Version, Load
  <2>7. Fresh' /\ AtHome'
    BY <1>2, <2>1, <2>3, <2>4, <2>6 DEF IInv, Fresh, AtHome, Load, Version
  <2>8. OnChain' /\ ForcedModeKept'
    BY <2>3 DEF OnChain, ForcedModeKept
  <2>9. LoaderWaits'
    <3>1. (\A j \in Load \ {i} : ~Waiting(j)) /\ (\A j \in Load : ~Waiting(j)')
      BY <2>3 DEF Waiting
    <3>2. trace[i].mode = "native" => trace[i].thread # "extracting"
      BY <1>2, <1>4 DEF IInv, LoaderWaits
    <3> QED BY <2>1, <2>6, <3>1, <3>2 DEF IInv, LoaderWaits, Load
  <2>10. AllStored'
    BY <2>1 DEF IInv, AllStored, Present
  <2> QED BY <2>5, <2>7, <2>8, <2>9, <2>10 DEF IInv
<1>5. CASE ~trace[i].error
  <2>1. /\ trace' = [trace EXCEPT ![i] = r] /\ UNCHANGED registry
        /\ loader' = Answered("loaded")
        /\ dir' = IF loader.cached THEN d ELSE WithManifest(d, "native", data, Class)
    BY <1>2, <1>3, <1>5 DEF Await, Answer
  <2>2. "cpu_sampling" \in Name \ Class /\ "SampledProfile" \in Name /\ Class \subseteq Name
    BY DEF Name, Table, Class
  <2>3. trace[i].data \in Data /\ samples \in Source \cup {Nothing} /\ dir.file \in Data
    BY <1>2, <2>2 DEF TraceData, Data, Directory
  <2>4. data \in Data /\ data["SampledProfile"] = samples
        /\ Class \cap Present(data) = Class \cap Present(trace[i].data)
    BY <2>2, <2>3 DEF Data, Present
  <2>5. d \in Directory
    <3>1. [dir.file EXCEPT !["cpu_sampling"] = samples] \in Data
      BY <2>3 DEF Data
    <3> QED BY <1>2, <3>1, FilesChanged
  <2>6. dir' \in Directory
    BY <1>2, <2>1, <2>5, WithManifestType DEF Mode
  <2>7. /\ loader' \in LoaderData /\ loader'.load = i /\ loader'.arg = loader.arg
        /\ loader'.mode = loader.mode /\ loader'.pc = "idle" /\ loader'.reply = "loaded"
        /\ ~Registering'
    BY <1>2, <2>1 DEF Answered, LoaderData, LoaderPc, Registering
  <2> HIDE DEF data, d
  <2>8. /\ r \in TraceData /\ r.mode = trace[i].mode /\ r.etl = trace[i].etl /\ r.data = data
        /\ r.thread = trace[i].thread /\ r.ready = trace[i].ready /\ ~r.error
    BY <1>2, <1>5, <2>4 DEF TraceData
  <2>9. OnChain'
    BY <1>2, <2>7 DEF OnChain, Load
  <2>10. r.mode = "native" => r.thread # "extracting"
    <3>1. "SampledProfile" \in Class /\ "SampledProfile" \in Name
      BY DEF Class, Name
    <3> QED
      BY <1>1, <1>2, <1>5, <2>8, <3>1
      DEF IInv, LoaderWaits, AllStored, Waited, NoBlock, Present
  <2>11. r.thread \in {"aggregating", "closing"} \/ (r.ready /\ ~r.error)
           => Class \subseteq Present(r.data)
    BY <1>2, <1>5, <2>4, <2>8 DEF IInv, AllStored
  <2> QED
    BY <1>1, <1>2, <2>1, <2>6, <2>7, <2>8, <2>9, <2>10, <2>11, TraceStep
<1> QED BY <1>4, <1>5

-----------------------------------------------------------------------------
(* Steps of the dumper threads and of the users *)

\* A started thread changes its trace; an error is new only after its
\* extraction, and once nothing is missing every class is there.
LEMMA ThreadStep ==
  ASSUME IInv, UNCHANGED <<etl, host, auto, loader, registry, tool>>, dir' \in Directory,
         NEW i \in Load, trace[i].thread # "off",
         NEW r \in TraceData, trace' = [trace EXCEPT ![i] = r],
         r.mode = trace[i].mode, r.etl = trace[i].etl, r.thread # "extracting",
         \/ trace[i].thread # "done" /\ (r.error <=> trace[i].error)
         \/ trace[i].thread = "extracting" /\ r.thread = "done" /\ r.data = trace[i].data,
         r.thread \in {"aggregating", "closing"} \/ (r.ready /\ ~r.error)
           => Class \subseteq Present(r.data)
  PROVE  IInv'
<1> USE DEF IInv
<1>1. trace \in [Load -> TraceData] /\ loader \in LoaderData
  BY DEF TypeOK
<1>2. /\ trace'[i] = r /\ \A j \in Load \ {i} : trace'[j] = trace[j]
  BY <1>1
<1>3. trace[i] # NoTrace
  BY DEF NoTrace
<1>4. OnChain'
  <2>1. loader.pc \in {"stamp", "dump"} => loader.load # i
    BY DEF OnChain
  <2>2. loader.load # 0 => trace'[loader.load].mode = trace[loader.load].mode
    BY <1>2, LoadRange
  <2>3. loader.load # 0 /\ loader.load # i => trace'[loader.load] = trace[loader.load]
    BY <1>2, LoadRange
  <2> QED BY <2>1, <2>2, <2>3 DEF OnChain, Present
<1>5. r.mode = "native" /\ r.error =>
        /\ r.thread = "done"
        /\ i \in Registered => i = loader.load /\ loader'.pc \in {"await", "blocked"}
        /\ i = loader.load /\ loader'.pc \in {"await", "blocked"}
             => r.data["SampledProfile"] = Nothing
  BY DEF LoaderWaits, Waiting
<1>6. Registering' <=> Registering
  BY DEF Registering
<1> HIDE DEF IInv
<1> QED BY <1>1, <1>3, <1>4, <1>5, <1>6, TraceStep

LEMMA OwnType ==
  ASSUME TypeOK, NEW i \in Load
  PROVE  /\ Own(i) \in Source /\ Own(i) # Nothing
         /\ trace[i] \in TraceData /\ trace[i].data \in Data
         /\ dir \in Directory /\ dir.file \in Data /\ etl \in Version
<1>1. trace[i] \in TraceData /\ dir \in Directory
  BY DEF TypeOK
<1> QED
  BY <1>1, FamilyType, NothingIsNoSource DEF TypeOK, TraceData, Own, Source, Directory

LEMMA StoreInv == ASSUME IInv, NEW i \in Load, Store(i) PROVE IInv'
<1> DEFINE c == IF "SampledProfile" \in Missing(i) THEN "SampledProfile" ELSE "CSwitch"
           rest == Missing(i) \ {c}
           data == [trace[i].data EXCEPT ![c] = Own(i)]
           thread == CASE rest # {} -> "storing"
                       [] rest = {} /\ trace[i].mode = "native" -> "aggregating"
                       [] rest = {} /\ trace[i].mode # "native" -> "closing"
           r == [trace[i] EXCEPT !.data = data, !.thread = thread]
<1>1. /\ Own(i) \in Source /\ Own(i) # Nothing
      /\ trace[i] \in TraceData /\ trace[i].data \in Data
      /\ dir \in Directory /\ dir.file \in Data
  BY OwnType DEF IInv
<1>2. c \in Class /\ c \in Name /\ Class \subseteq Name
  BY DEF Class, Name
<1>3. data \in Data /\ Present(data) = Present(trace[i].data) \cup {c}
  BY <1>1, <1>2 DEF Data, Present
<1>4. thread \in {"storing", "aggregating", "closing"} /\ (thread # "storing" => rest = {})
  OBVIOUS
<1>5. thread # "storing" => Class \subseteq Present(data)
  BY <1>3, <1>4 DEF Missing
<1>6. dir' \in Directory
  <2>1. [dir.file EXCEPT ![c] = Own(i)] \in Data
    BY <1>1 DEF Data
  <2>2. dir' = [dir EXCEPT !.file = [dir.file EXCEPT ![c] = Own(i)]]
    BY DEF Store
  <2> QED BY <1>1, <2>1, <2>2, FilesChanged
<1>7. trace' = [trace EXCEPT ![i] = r]
  BY DEF Store, IInv, TypeOK, TraceData
<1>8. trace[i].ready /\ ~trace[i].error => Class \subseteq Present(trace[i].data)
  BY DEF IInv, AllStored
<1>9. /\ trace[i].thread \in {"extracting", "storing"}
      /\ UNCHANGED <<etl, host, auto, loader, registry, tool>>
  BY DEF Store
<1> HIDE DEF data, thread, c
<1>10. /\ r \in TraceData /\ r.mode = trace[i].mode /\ r.etl = trace[i].etl
       /\ r.thread = thread /\ r.data = data
       /\ r.ready = trace[i].ready /\ r.error = trace[i].error
  BY <1>1, <1>3, <1>4 DEF TraceData, Thread
<1> HIDE DEF r
<1>11. r.thread \in {"aggregating", "closing"} \/ (r.ready /\ ~r.error)
         => Class \subseteq Present(r.data)
  BY <1>3, <1>5, <1>8, <1>10
<1> QED BY <1>4, <1>6, <1>7, <1>9, <1>10, <1>11, ThreadStep

LEMMA AggregateInv == ASSUME IInv, NEW i \in Load, Aggregate(i) PROVE IInv'
<1>1. /\ Own(i) \in Source /\ Own(i) # Nothing
      /\ trace[i] \in TraceData /\ trace[i].data \in Data
      /\ dir \in Directory /\ dir.file \in Data
  BY OwnType DEF IInv
<1>2. PICK made \in IF Faults THEN SUBSET Table ELSE {Table} :
        /\ trace' = [trace EXCEPT
             ![i].data = [n \in Name |-> IF n \in made THEN Own(i) ELSE @[n]],
             ![i].thread = "closing"]
        /\ dir' = [dir EXCEPT !.file = [n \in Name |-> IF n \in made THEN Own(i) ELSE @[n]]]
  BY Zenon DEF Aggregate
<1> DEFINE data == [n \in Name |-> IF n \in made THEN Own(i) ELSE trace[i].data[n]]
           files == [n \in Name |-> IF n \in made THEN Own(i) ELSE dir.file[n]]
           r == [trace[i] EXCEPT !.data = data, !.thread = "closing"]
<1>3. data \in Data /\ files \in Data /\ Present(trace[i].data) \subseteq Present(data)
  BY <1>1 DEF Data, Present
<1>4. dir' = [dir EXCEPT !.file = files]
  BY <1>2
<1>5. dir' \in Directory
  BY <1>1, <1>3, <1>4, FilesChanged
<1>6. trace' = [trace EXCEPT ![i] = r]
  BY <1>2 DEF IInv, TypeOK, TraceData
<1>7. /\ trace[i].thread = "aggregating"
      /\ UNCHANGED <<etl, host, auto, loader, registry, tool>>
  BY DEF Aggregate
<1>8. Class \subseteq Present(trace[i].data)
  BY <1>7 DEF IInv, AllStored
<1> HIDE DEF data
<1>9. /\ r \in TraceData /\ r.mode = trace[i].mode /\ r.etl = trace[i].etl
      /\ r.thread = "closing" /\ r.data = data /\ r.error = trace[i].error
  BY <1>1, <1>3 DEF TraceData, Thread
<1> HIDE DEF r
<1> QED BY <1>3, <1>5, <1>6, <1>7, <1>8, <1>9, ThreadStep

LEMMA EndInv ==
  ASSUME IInv, NEW i \in Load,
         ExtractFails(i) \/ Close(i)
           \/ (trace[i].thread = "closing" /\ ToThread(i, "dead")
                 /\ UNCHANGED <<etl, host, auto, loader, dir, registry, tool>>)
  PROVE  IInv'
<1>1. trace[i] \in TraceData /\ dir \in Directory /\ etl \in Version
  BY OwnType DEF IInv
<1>2. trace[i].thread \in {"aggregating", "closing"} \/ (trace[i].ready /\ ~trace[i].error)
        => Class \subseteq Present(trace[i].data)
  BY DEF IInv, AllStored
<1>3. CASE ExtractFails(i)
  <2> DEFINE r == [trace[i] EXCEPT !.error = TRUE, !.ready = TRUE, !.thread = "done"]
  <2>1. trace' = [trace EXCEPT ![i] = r]
    BY <1>3 DEF ExtractFails, IInv, TypeOK, TraceData
  <2>2. /\ r \in TraceData /\ r.mode = trace[i].mode /\ r.etl = trace[i].etl
        /\ r.thread = "done" /\ r.data = trace[i].data /\ r.error
    BY <1>1 DEF TraceData, Thread
  <2> HIDE DEF r
  <2> QED BY <1>1, <1>3, <2>1, <2>2, ThreadStep DEF ExtractFails
<1>4. CASE Close(i)
  <2> DEFINE r == [trace[i] EXCEPT !.thread = "done", !.ready = TRUE]
  <2>1. trace' = [trace EXCEPT ![i] = r]
    BY <1>4 DEF Close, IInv, TypeOK, TraceData
  <2>2. /\ r \in TraceData /\ r.mode = trace[i].mode /\ r.etl = trace[i].etl
        /\ r.thread = "done" /\ r.data = trace[i].data /\ r.error = trace[i].error
    BY <1>1 DEF TraceData, Thread
  <2>3. dir' \in Directory
    BY <1>1, <1>4, WithManifestType DEF Close, TraceData
  <2> HIDE DEF r
  <2> QED BY <1>2, <1>4, <2>1, <2>2, <2>3, ThreadStep DEF Close
<1>5. CASE /\ trace[i].thread = "closing" /\ ToThread(i, "dead")
           /\ UNCHANGED <<etl, host, auto, loader, dir, registry, tool>>
  <2> DEFINE r == [trace[i] EXCEPT !.thread = "dead"]
  <2>1. trace' = [trace EXCEPT ![i] = r]
    BY <1>5 DEF ToThread, IInv, TypeOK, TraceData
  <2>2. /\ r \in TraceData /\ r.mode = trace[i].mode /\ r.etl = trace[i].etl
        /\ r.thread = "dead" /\ r.data = trace[i].data /\ r.error = trace[i].error
    BY <1>1 DEF TraceData, Thread
  <2> HIDE DEF r
  <2> QED BY <1>1, <1>2, <1>5, <2>1, <2>2, ThreadStep
<1> QED BY <1>3, <1>4, <1>5

LEMMA UsersInv ==
  ASSUME IInv,
         \/ \E t \in Tool : Query(t) \/ QueryBlocks(t) \/ ReadTables(t)
         \/ CacheTable \/ Unload \/ ReplaceTrace
  PROVE  IInv'
<1> USE DEF IInv
<1>0. \A v \in Version : registry[v] \in 0 .. MaxLoads
  BY DEF TypeOK
<1>1. Registered \subseteq Load
  BY <1>0 DEF Registered, Load
<1>2. CASE \E t \in Tool : Query(t) \/ QueryBlocks(t) \/ ReadTables(t)
  <2>1. UNCHANGED <<etl, host, auto, loader, dir, trace, registry>>
    BY <1>2 DEF Query, QueryBlocks, ReadTables
  <2>2. tool' \in [Tool -> [for : 0 .. MaxLoads, blocked : BOOLEAN]]
    <3>1. PICK t \in Tool : Query(t) \/ QueryBlocks(t) \/ ReadTables(t)
      BY <1>2
    <3>2. tool \in [Tool -> [for : 0 .. MaxLoads, blocked : BOOLEAN]]
      BY DEF TypeOK
    <3>3. CASE Query(t)
      <4>1. PICK i \in Registered : tool' = [tool EXCEPT ![t].for = i]
        BY <3>3 DEF Query
      <4>2. i \in 0 .. MaxLoads
        BY <1>1, <4>1 DEF Load
      <4> QED BY <3>2, <4>1, <4>2
    <3>4. CASE QueryBlocks(t)
      BY <3>2, <3>4 DEF QueryBlocks
    <3>5. CASE ReadTables(t)
      <4>1. 0 \in 0 .. MaxLoads
        OBVIOUS
      <4> QED BY <3>2, <3>5, <4>1 DEF ReadTables, NoWait
    <3> QED BY <3>1, <3>3, <3>4, <3>5
  <2>3. TypeOK'
    BY <2>1, <2>2 DEF TypeOK, Load, Version
  <2> QED
    BY <2>1, <2>3 DEF Fresh, AtHome, OnChain, ForcedModeKept, LoaderWaits, AllStored,
                      Waiting, Registering, Registered, Present
<1>3. CASE CacheTable
  BY <1>1, <1>3, EndInv DEF CacheTable
<1>4. CASE Unload
  <2>1. PICK i \in Registered : registry' = [registry EXCEPT ![trace[i].etl] = 0]
    BY <1>4 DEF Unload
  <2>2. UNCHANGED <<etl, host, auto, loader, dir, trace, tool>>
    BY <1>4 DEF Unload
  <2>3. /\ registry' \in [Version -> 0 .. MaxLoads]
        /\ \A v \in Version : registry'[v] \in {registry[v], 0}
    <3>1. registry \in [Version -> 0 .. MaxLoads] /\ 0 \in 0 .. MaxLoads
      BY DEF TypeOK
    <3> QED BY <2>1, <3>1
  <2>4. Registered' \subseteq Registered
    BY <2>3 DEF Registered, Version
  <2>5. TypeOK'
    BY <2>2, <2>3 DEF TypeOK, Load, Version
  <2>6. Fresh' /\ AtHome'
    BY <2>2, <2>3, <2>4 DEF Fresh, AtHome, Registering, Load, Version
  <2>7. OnChain' /\ ForcedModeKept' /\ AllStored'
    BY <2>2 DEF OnChain, ForcedModeKept, AllStored, Present
  <2>8. LoaderWaits'
    BY <2>2, <2>4 DEF LoaderWaits, Waiting
  <2> QED BY <2>5, <2>6, <2>7, <2>8
<1>5. CASE ReplaceTrace
  <2>1. etl' \in Version /\ UNCHANGED <<host, auto, loader, dir, trace, registry, tool>>
    BY <1>5 DEF ReplaceTrace, TypeOK, Version
  <2>2. TypeOK'
    BY <2>1 DEF TypeOK, Load, Version
  <2> QED
    BY <2>1, <2>2 DEF Fresh, AtHome, OnChain, ForcedModeKept, LoaderWaits, AllStored,
                      Waiting, Registering, Registered, Present
<1> QED BY <1>2, <1>3, <1>4, <1>5

-----------------------------------------------------------------------------
LEMMA NextInv == IInv /\ [Next]_vars => IInv'
<1> SUFFICES ASSUME IInv, [Next]_vars PROVE IInv'
  OBVIOUS
<1>1. CASE Loader
  BY <1>1, CallInv, EarlyInv, RegistrationInv, StampInv, StartDumperInv, AwaitBlocksInv, AwaitInv
  DEF Loader
<1>2. CASE \E i \in Load : Dumper(i)
  BY <1>2, StoreInv, AggregateInv, EndInv DEF Dumper
<1>3. CASE \/ \E t \in Tool : Query(t) \/ QueryBlocks(t) \/ ReadTables(t)
           \/ CacheTable \/ Unload \/ ReplaceTrace
  BY <1>3, UsersInv
<1>4. CASE UNCHANGED vars
  BY <1>4 DEF vars, IInv, TypeOK, Fresh, AtHome, OnChain, ForcedModeKept, LoaderWaits, AllStored,
              Waiting, Registering, Registered, Present
<1> QED BY <1>1, <1>2, <1>3, <1>4 DEF Next

\* The strengthened invariant holds of every run.
THEOREM Inductive == Spec => []IInv
BY InitInv, NextInv, PTL DEF Spec

\* Every variable keeps its type: whatever combination of caches, hosts,
\* fallbacks and failures, a dataset is one of a pipeline and of a version of
\* the file (_load_trace_blocking and what it calls).
THEOREM TypeCorrect == Spec => []TypeOK
BY Inductive, PTL DEF IInv

\* A load that was asked for one pipeline, by argument or by ETW_MCP_MODE,
\* answers with a trace of that pipeline or not at all (resolve_mode,
\* apply_native_size_guardrail, the fallbacks of _load_trace_blocking).
THEOREM ForcedKept == Spec => []ForcedModeKept
BY Inductive, PTL DEF IInv

\* When no load is under way, no native trace whose dumper failed is in the
\* registry (_native_load_failed).
THEOREM FailedUnregistered == Spec => []FailureUnregistered
<1>1. IInv => FailureUnregistered
  BY DEF IInv, LoaderWaits, Waiting, FailureUnregistered
<1> QED BY <1>1, Inductive, PTL

\* A dumper that signals without an error has covered every event class
\* (_start_background_dumper).
THEOREM AllCovered == Spec => []DumperCovers
<1>1. IInv => DumperCovers
  BY DEF IInv, AllStored, DumperCovers
<1> QED BY <1>1, Inductive, PTL
-----------------------------------------------------------------------------
(* Native traces are of the version of the file they are named after, where *)
(* the file is replaced only in between and loaders are prompt.              *)

\* Steps that write no file but of the current version, and change no trace.
LEMMA OwnFiles ==
  ASSUME OwnInv, UNCHANGED <<etl, trace>>,
         \A n \in Name \ {"stacks"} : OfNow(n) => OfNow(n)'
  PROVE  OwnVersion' /\ ShownOfNow'
BY DEF OwnInv, OwnVersion, ShownOfNow, Present

\* Steps that change one trace, of the current version, as well.
LEMMA OwnTrace ==
  ASSUME IInv, OwnInv, UNCHANGED etl,
         \A n \in Name \ {"stacks"} : OfNow(n) => OfNow(n)',
         NEW i \in Load, NEW r, trace' = [trace EXCEPT ![i] = r], r.etl = etl,
         r.mode # "xperf" =>
           \A n \in Present(r.data) \ {"stacks"} : r.data[n].etl = etl /\ OfNow(n)'
  PROVE  /\ trace'[i] = r /\ \A j \in Load \ {i} : trace'[j] = trace[j]
         /\ OwnVersion' /\ ShownOfNow'
<1>1. trace'[i] = r /\ \A j \in Load \ {i} : trace'[j] = trace[j]
  BY DEF IInv, TypeOK
<1>2. \A n \in Name \ {"stacks"} : OfNow(n) => OfNow(n)'
  OBVIOUS
<1>3. OwnVersion'
  BY <1>1 DEF OwnInv, OwnVersion, Present
<1>4. ShownOfNow'
  <2> SUFFICES ASSUME NEW j \in Load, NEW n \in Name \ {"stacks"},
                      trace'[j].data[n] # Nothing, trace'[j].mode # "xperf", trace'[j].etl = etl
               PROVE  OfNow(n)'
    BY DEF ShownOfNow, Present
  <2>1. CASE j = i
    BY <1>1, <2>1 DEF Present
  <2>2. CASE j # i
    BY <1>1, <1>2, <2>2 DEF OwnInv, ShownOfNow, Present
  <2> QED BY <2>1, <2>2
<1> QED BY <1>1, <1>3, <1>4

LEMMA OwnInit == Init => OwnInv
<1> SUFFICES ASSUME Init PROVE OwnInv
  OBVIOUS
<1>1. \A i \in Load : trace[i] = NoTrace
  BY DEF Init
<1>2. loader.pc = "idle" /\ etl = 1
  BY DEF Init, Idle
<1>3. dir.manifest = NoManifest
  <2>1. dir = EmptyDir \/ dir = OldCache
    BY DEF Init
  <2>2. EmptyDir.manifest = NoManifest
    BY DEF EmptyDir
  <2>3. OldCache.manifest = EmptyDir.manifest
    BY DEF OldCache, EmptyDir
  <2> QED BY <2>1, <2>2, <2>3
<1>4. UpToDate /\ InMode /\ SeenToEnd
  BY <1>1, <1>2, <1>3 DEF UpToDate, InMode, SeenToEnd, NoTrace, NoManifest, Running
<1>5. ManifestOfNow /\ ShownOfNow /\ OwnVersion
  BY <1>1, <1>2, <1>3
  DEF ManifestOfNow, ShownOfNow, OwnVersion, NoManifest, NoTrace, NoData, Present
<1> QED BY <1>4, <1>5 DEF OwnInv

\* A hit of a native mode is a hit of a native manifest of the current version.
LEMMA HitIsOfNow ==
  ASSUME NEW mode \in Mode, CacheHit(mode), mode # "xperf"
  PROVE  dir.manifest.by = "native" /\ dir.manifest.etl = etl
BY DEF CacheHit, Mode

\* Up to registration nothing is read but through a manifest, and nothing
\* written but by the worker.
LEMMA OwnEarly ==
  ASSUME IInv, OwnInv,
         \/ \E arg \in Request, limited \in BOOLEAN : Call(arg, limited)
         \/ Begin \/ Probe \/ WorkerSucceeds \/ WorkerFails \/ Reload \/ Fallback \/ ExportFails
  PROVE  OwnInv'
<1>0. /\ loader.mode \in Mode /\ host.worker \in BOOLEAN /\ etl \in Nat
      /\ dir.file \in Data
  BY DEF IInv, TypeOK, LoaderData, Host, Version, Directory
<1>1. UNCHANGED <<etl, trace>>
  BY DEF Call, Begin, Probe, WorkerSucceeds, WorkerFails, Reload, Fallback, ExportFails
<1>2. loader.pc \in {"idle", "begin", "probe", "worker", "reload", "fallback", "export"}
  BY DEF Call, Begin, Probe, WorkerSucceeds, WorkerFails, Reload, Fallback, ExportFails
<1>3. \/ dir'.file = dir.file /\ dir'.manifest = dir.manifest
      \/ dir'.file = NoData /\ dir'.manifest = NoManifest
      \/ /\ dir'.file = [n \in Name |-> [by |-> "native", etl |-> etl]]
         /\ dir'.manifest.etl = etl
  <2>1. CASE WorkerSucceeds
    <3>1. PICK stream \in BOOLEAN :
            dir' = [file |-> [n \in Name |-> [by |-> "native", etl |-> etl]],
                    html |-> 0, texts |-> FALSE,
                    manifest |-> [by |-> "native", etl |-> etl, stream |-> stream, lists |-> Name],
                    touched |-> etl]
      BY <2>1 DEF WorkerSucceeds
    <3> QED BY <3>1
  <2>2. CASE Begin \/ WorkerFails \/ Reload
    <3>1. dir \in Directory
      BY DEF IInv, TypeOK
    <3> QED BY <2>2, <3>1 DEF Begin, WorkerFails, Reload, EmptyDir, Directory
  <2>3. CASE \/ \E arg \in Request, limited \in BOOLEAN : Call(arg, limited)
             \/ Probe \/ Fallback \/ ExportFails
    BY <2>3 DEF Call, Probe, Fallback, ExportFails
  <2> QED BY <2>1, <2>2, <2>3
<1>4. \/ /\ loader'.pc \in {"idle", "begin", "probe", "worker", "reload", "fallback"}
      \/ loader'.pc = "export" /\ loader'.mode = "xperf"
      \/ loader'.pc = "inprocess" /\ loader'.mode = "native"
      \/ /\ loader'.pc = "restore" /\ UNCHANGED dir
         /\ loader'.mode # "xperf" => dir.manifest.by = "native" /\ dir.manifest.etl = etl
  <2>0. loader \in LoaderData
    BY DEF IInv, TypeOK
  <2>1. CASE \E arg \in Request, limited \in BOOLEAN : Call(arg, limited)
    <3>1. loader'.pc = "begin" \/ UNCHANGED loader
      BY <2>1 DEF Call
    <3> QED BY <2>1, <3>1 DEF Call
  <2>2. CASE Probe
    <3>1. CASE CacheHit(loader.mode)
      BY <1>0, <2>0, <2>2, <3>1, HitIsOfNow DEF Probe, LoaderData
    <3>2. CASE ~CacheHit(loader.mode)
      <4>1. loader' = [loader EXCEPT !.pc = Dispatch(loader.mode)]
        BY <2>2, <3>2 DEF Probe, Goto, At
      <4>2. \/ Dispatch(loader.mode) = "worker"
            \/ Dispatch(loader.mode) = "inprocess" /\ loader.mode = "native"
            \/ Dispatch(loader.mode) = "export" /\ loader.mode = "xperf"
        BY <1>0 DEF Dispatch, Mode
      <4> QED BY <2>0, <4>1, <4>2 DEF LoaderData
    <3> QED BY <3>1, <3>2
  <2>3. CASE Reload
    <3>1. CASE CacheHit(loader.mode)
      BY <1>0, <2>0, <2>3, <3>1, HitIsOfNow DEF Reload, LoaderData
    <3>2. CASE ~CacheHit(loader.mode)
      BY <2>0, <2>3, <3>2 DEF Reload, Goto, At, LoaderData
    <3> QED BY <3>1, <3>2
  <2>4. CASE Fallback
    BY <2>0, <2>4 DEF Fallback, Answer, Answered, LoaderData
  <2>5. CASE Begin \/ WorkerSucceeds \/ WorkerFails \/ ExportFails
    BY <2>0, <2>5
    DEF Begin, WorkerSucceeds, WorkerFails, ExportFails, Goto, At, Answer, Answered, LoaderData
  <2> QED BY <2>1, <2>2, <2>3, <2>4, <2>5
<1>5. \A n \in Name : OfNow(n) => OfNow(n)'
  BY <1>1, <1>3 DEF OfNow, NoData
<1>6. OwnVersion' /\ ShownOfNow'
  BY <1>1, <1>5, OwnFiles
<1>7. UpToDate'
  BY <1>0, <1>1, <1>3, <1>4 DEF OwnInv, UpToDate, Running, NoManifest
<1>8. InMode'
  BY <1>1, <1>4 DEF OwnInv, InMode
<1>9. SeenToEnd'
  <2>1. \A i \in Load : ~(trace[i].mode = "native" /\ Running(i))
    BY <1>2 DEF OwnInv, SeenToEnd, Waiting
  <2> QED BY <1>1, <1>4, <2>1 DEF OwnInv, SeenToEnd, Running
<1>10. ManifestOfNow'
  <2>1. CASE dir'.file = dir.file /\ dir'.manifest = dir.manifest
    BY <1>1, <1>2, <1>4, <2>1 DEF OwnInv, ManifestOfNow, OfNow
  <2>2. CASE dir'.file = NoData /\ dir'.manifest = NoManifest
    BY <2>2 DEF ManifestOfNow, OfNow, NoData
  <2>3. CASE dir'.file = [n \in Name |-> [by |-> "native", etl |-> etl]]
    BY <1>1, <2>3 DEF ManifestOfNow, OfNow
  <2> QED BY <1>3, <2>1, <2>2, <2>3
<1> QED BY <1>6, <1>7, <1>8, <1>9, <1>10 DEF OwnInv

\* The event classes and the samples are all there is but the stacks.
LEMMA NamesButStacks ==
  /\ Class \subseteq Name \ {"stacks"}
  /\ Name \ {"stacks"} = Class \cup {"cpu_sampling"}
  /\ "SampledProfile" \in Class /\ "cpu_sampling" \in Name /\ "stacks" \in Name
BY DEF Name, Class, Table

\* A load registers a trace of the current version, whose data is of it.
LEMMA OwnRegister ==
  ASSUME IInv, OwnInv, UNCHANGED <<etl, dir.manifest>>,
         loader.pc \in {"restore", "inprocess", "export"},
         \A n \in Name \ {"stacks"} : OfNow(n) => OfNow(n)',
         NEW data \in Data, NEW stream \in BOOLEAN,
         loader.mode # "xperf" =>
           \A n \in Present(data) \ {"stacks"} : data[n].etl = etl /\ OfNow(n)',
         NEW next,
         \/ next = At("stamp") /\ loader.mode = "xperf"
         \/ next = At("dump") /\ loader.mode = "native"
         \/ next = Answered("loaded"),
         Register(loader.load, data, stream, next)
  PROVE  OwnInv'
<1> DEFINE i == loader.load
           r == [NoTrace EXCEPT !.mode = loader.mode, !.etl = etl,
                                !.data = data, !.stream = stream]
<1>0. /\ loader \in LoaderData /\ i \in Load /\ etl \in Nat /\ loader.pc # "idle"
  BY LoadRange DEF IInv, TypeOK, OnChain, Version
<1>1. /\ r.mode = loader.mode /\ r.etl = etl /\ r.data = data /\ r.thread = "off" /\ ~r.ready
  BY DEF NoTrace
<1>2. trace' = [trace EXCEPT ![i] = r]
  BY DEF Register
<1> HIDE DEF r
<1>3. /\ trace'[i] = r /\ \A j \in Load \ {i} : trace'[j] = trace[j]
      /\ OwnVersion' /\ ShownOfNow'
  BY <1>0, <1>1, <1>2, OwnTrace
<1>4. /\ loader'.load = i /\ loader'.mode = loader.mode
      /\ \/ loader'.pc = "stamp" /\ loader.mode = "xperf"
         \/ loader'.pc = "dump" /\ loader.mode = "native"
         \/ loader'.pc = "idle"
  BY <1>0 DEF Register, At, Answered, LoaderData
<1>5. UpToDate'
  BY <1>0, <1>1, <1>3, <1>4 DEF OwnInv, UpToDate, Running
<1>6. InMode'
  BY <1>1, <1>3, <1>4 DEF OwnInv, InMode
<1>7. SeenToEnd'
  BY <1>1, <1>3, <1>4 DEF OwnInv, SeenToEnd, Running, Waiting
<1>8. ManifestOfNow'
  BY <1>4 DEF OwnInv, ManifestOfNow
<1> QED BY <1>3, <1>5, <1>6, <1>7, <1>8 DEF OwnInv

LEMMA OwnRegistration ==
  ASSUME IInv, OwnInv, Restore \/ RegisterInProcess \/ Export
  PROVE  OwnInv'
<1>0. /\ loader.mode \in Mode /\ dir \in Directory /\ dir.file \in Data
      /\ etl \in Version /\ etl \in 0 .. Versions
  BY DEF IInv, TypeOK, Version, Directory, LoaderData
<1>01. UNCHANGED <<etl, host, auto, tool>>
  <2>1. Restore \/ RegisterInProcess => UNCHANGED <<etl, host, auto, tool>>
    BY DEF Restore, RegisterInProcess
  <2>2. Export => UNCHANGED <<etl, host, auto, tool>>
    BY Zenon DEF Export
  <2> QED BY <2>1, <2>2
<1>1. CASE Restore
  <2> DEFINE data == Refreshed(CachedTables)
             stream == dir.manifest.by = "native" /\ dir.manifest.stream
  <2>1. data \in Data /\ stream \in BOOLEAN
    BY <1>0, <1>01, CachedTablesType, RefreshedType
  <2>2. /\ dir'.manifest = dir.manifest
        /\ \A n \in Name \ {"stacks"} : dir'.file[n] = dir.file[n]
    BY <1>0, <1>01, <1>1 DEF Restore, Directory, Data
  <2>3. \A n \in Present(data) \ {"stacks"} : n \in Name /\ data[n] = dir.file[n] /\ data[n] # Nothing
    BY <1>0, <1>01, CachedTablesType DEF Refreshed, CachedTables, Present, Data
  <2>4. loader.mode # "xperf" => \A n \in Name \ {"stacks"} : OfNow(n)
    BY <1>1 DEF Restore, OwnInv, ManifestOfNow
  <2>5. \A n \in Name \ {"stacks"} : OfNow(n) => OfNow(n)'
    BY <1>0, <1>01, <2>2 DEF OfNow
  <2>6. loader.mode # "xperf" =>
          \A n \in Present(data) \ {"stacks"} : data[n].etl = etl /\ OfNow(n)'
    BY <2>3, <2>4, <2>5 DEF OfNow
  <2>7. \E s \in BOOLEAN, next \in {At("stamp"), At("dump"), Answered("loaded")} :
          /\ \/ next = At("stamp") /\ loader.mode = "xperf"
             \/ next = At("dump") /\ loader.mode = "native"
             \/ next = Answered("loaded")
          /\ Register(loader.load, data, s, next)
    BY <1>0, <1>01, <1>1, <2>1 DEF Restore, Mode
  <2>8. loader.pc = "restore"
    BY <1>1 DEF Restore
  <2> HIDE DEF data
  <2> QED BY <1>0, <1>01, <2>1, <2>2, <2>5, <2>6, <2>7, <2>8, OwnRegister
<1>2. CASE RegisterInProcess
  <2>1. loader.mode = "native" /\ loader.pc = "inprocess" /\ UNCHANGED dir
    BY <1>2 DEF RegisterInProcess, OwnInv, InMode
  <2>2. \A n \in Present(NoData) \ {"stacks"} : NoData[n].etl = etl /\ OfNow(n)'
    BY DEF Present, NoData
  <2>3. \A n \in Name \ {"stacks"} : OfNow(n) => OfNow(n)'
    BY <1>0, <1>01, <2>1 DEF OfNow
  <2> QED BY <1>0, <1>01, <1>2, <2>1, <2>2, <2>3, NoDataType, OwnRegister DEF RegisterInProcess
<1>3. CASE Export
  <2> DEFINE new == [by |-> "xperf", etl |-> etl]
             d(done) == [dir EXCEPT
                           !.file = [n \in Name |-> IF n \in done THEN new ELSE dir.file[n]],
                           !.html = IF "stacks" \in done THEN etl ELSE @,
                           !.texts = @ \/ done # {}]
             data(done) == [n \in Name |->
                              CASE n \in done -> new
                                [] n = "stacks" /\ n \notin done /\ d(done).html # 0 ->
                                     [by |-> "xperf", etl |-> d(done).html]
                                [] OTHER -> Nothing]
  <2>1. PICK done \in IF Faults THEN SUBSET Table ELSE {Table} :
          /\ dir' = [d(done) EXCEPT !.file["stacks"] =
                       IF d(done).html = 0 THEN @ ELSE data(done)["stacks"]]
          /\ Register(loader.load, data(done), FALSE, At("stamp"))
    BY <1>3, Zenon DEF Export
  <2>2. new \in Source
    BY <1>0 DEF Source
  <2>3. d(done).html \in 0 .. Versions
    BY <1>0 DEF Directory
  <2>4. d(done) \in Directory
    <3>1. [n \in Name |-> IF n \in done THEN new ELSE dir.file[n]] \in Data
      BY <1>0, <2>2 DEF Data
    <3> QED BY <1>0, <2>3, <3>1 DEF Directory
  <2>5. /\ d(done).manifest = dir.manifest
        /\ \A n \in Name : d(done).file[n] = IF n \in done THEN new ELSE dir.file[n]
    BY <1>0 DEF Directory
  <2> HIDE DEF d
  <2>6. data(done) \in Data
    <3>1. ASSUME d(done).html # 0 PROVE [by |-> "xperf", etl |-> d(done).html] \in Source
      BY <2>3, <3>1 DEF Source, Version
    <3> QED BY <2>2, <3>1 DEF Data
  <2> HIDE DEF data
  <2>7. /\ dir'.manifest = dir.manifest
        /\ \A n \in Name \ {"stacks"} : dir'.file[n] = IF n \in done THEN new ELSE dir.file[n]
    BY <2>1, <2>4, <2>5 DEF Directory, Data
  <2>8. \A n \in Name \ {"stacks"} : OfNow(n) => OfNow(n)'
    BY <1>0, <1>01, <2>7 DEF OfNow
  <2>9. loader.mode = "xperf" /\ loader.pc = "export"
    <3>1. loader.pc = "export"
      BY <1>3, Zenon DEF Export
    <3> QED BY <3>1 DEF OwnInv, InMode
  <2> QED BY <1>0, <1>01, <2>1, <2>6, <2>7, <2>8, <2>9, OwnRegister
<1> QED BY <1>1, <1>2, <1>3

\* A manifest of xperf says nothing of the native pipelines.
LEMMA OwnStamp == ASSUME IInv, OwnInv, Stamp PROVE OwnInv'
<1>0. /\ loader \in LoaderData /\ dir \in Directory /\ etl \in Nat /\ loader.mode = "xperf"
      /\ UNCHANGED <<etl, trace>> /\ loader.pc = "stamp"
  BY DEF IInv, TypeOK, Version, OwnInv, InMode, Stamp
<1>1. /\ dir'.file = dir.file
      /\ \/ dir'.manifest = dir.manifest
         \/ dir'.manifest.by = "xperf" /\ dir'.manifest.etl = etl
  BY <1>0 DEF Stamp, WithManifest, Family, Directory
<1>2. loader'.pc = "dump" /\ loader'.load = loader.load /\ loader'.mode = loader.mode
  BY <1>0 DEF Stamp, Goto, At, LoaderData
<1>3. OwnVersion' /\ ShownOfNow'
  BY <1>0, <1>1, OwnFiles DEF OfNow
<1>4. UpToDate'
  BY <1>0, <1>1, <1>2 DEF OwnInv, UpToDate, Running
<1>5. InMode' /\ SeenToEnd'
  BY <1>0, <1>2 DEF OwnInv, InMode, SeenToEnd, Running, Waiting
<1>6. ManifestOfNow'
  BY <1>0, <1>1, <1>2 DEF OwnInv, ManifestOfNow, OfNow
<1> QED BY <1>3, <1>4, <1>5, <1>6 DEF OwnInv

\* What a native load reads back is under a native manifest of the version.
LEMMA OwnStartDumper == ASSUME IInv, OwnInv, StartDumper PROVE OwnInv'
<1> DEFINE i == loader.load
           back == {c \in RehydrationNames(trace[i].mode, trace[i].etl) : dir.file[c] # Nothing}
           data == [n \in Name |-> IF n \in back THEN dir.file[n] ELSE trace[i].data[n]]
           whole == Class \subseteq Present(data)
           r == [trace[i] EXCEPT !.data = data, !.ready = whole,
                                 !.thread = IF whole THEN "off" ELSE "extracting"]
<1>1. loader.pc = "dump" /\ UNCHANGED <<etl, host, auto, dir, registry, tool>>
  BY DEF StartDumper
<1>2. /\ loader \in LoaderData /\ i \in Load
      /\ trace[i] \in TraceData /\ trace[i].mode = loader.mode /\ loader.mode \in Mode
      /\ dir \in Directory /\ etl \in Nat
  BY <1>1, RegisteredLoad DEF Version
<1>3. trace[i].etl = etl /\ loader.mode # "dotnet"
  BY <1>1 DEF OwnInv, UpToDate, InMode
<1>4. trace[i].mode # "xperf" => \A n \in back : n \in Class /\ OfNow(n)
  <2> SUFFICES ASSUME trace[i].mode # "xperf", NEW n \in back PROVE n \in Class /\ OfNow(n)
    OBVIOUS
  <2>1. trace[i].mode = "native"
    BY <1>2, <1>3 DEF Mode
  <2>2. dir.manifest \in Manifest \cup {NoManifest}
    BY <1>2 DEF Directory
  <2>3. n \in RehydrationNames("native", etl)
    BY <1>3, <2>1
  <2>4. dir.manifest.by = "native" /\ dir.manifest.etl = etl /\ n \in Class
    BY <2>2, <2>3 DEF RehydrationNames, Family, Manifest, NoManifest
  <2> QED BY <1>1, <2>4, NamesButStacks DEF OwnInv, ManifestOfNow
<1>5. trace[i].mode # "xperf" =>
        \A n \in Present(data) \ {"stacks"} : data[n].etl = etl /\ OfNow(n)
  <2> SUFFICES ASSUME trace[i].mode # "xperf", NEW n \in Name \ {"stacks"}, data[n] # Nothing
               PROVE  data[n].etl = etl /\ OfNow(n)
    BY DEF Present
  <2>1. CASE n \in back
    BY <1>4, <2>1 DEF OfNow
  <2>2. CASE n \notin back
    BY <1>2, <1>3, <2>2 DEF OwnInv, OwnVersion, ShownOfNow, Present
  <2> QED BY <2>1, <2>2
<1>6. \A n \in Name : OfNow(n)' <=> OfNow(n)
  BY <1>1 DEF OfNow
<1> HIDE DEF data, whole
<1>7. /\ r.mode = loader.mode /\ r.etl = etl /\ r.data = data /\ r.ready = whole
      /\ r.thread = IF whole THEN "off" ELSE "extracting"
  BY <1>2, <1>3 DEF TraceData
<1>8. /\ trace' = [trace EXCEPT ![i] = r]
      /\ loader' = IF loader.mode = "native" THEN At("await") ELSE Answered("loaded")
  BY <1>2 DEF StartDumper, data, whole, Goto, Answer, IInv, TypeOK
<1> HIDE DEF r
<1>9. /\ loader'.load = i /\ loader'.mode = loader.mode
      /\ loader'.pc = IF loader.mode = "native" THEN "await" ELSE "idle"
  BY <1>2, <1>8 DEF At, Answered, LoaderData
<1>10. /\ trace'[i] = r /\ \A j \in Load \ {i} : trace'[j] = trace[j]
       /\ OwnVersion' /\ ShownOfNow'
  <2>1. r.mode # "xperf" =>
          \A n \in Present(r.data) \ {"stacks"} : r.data[n].etl = etl /\ OfNow(n)'
    BY <1>2, <1>5, <1>6, <1>7 DEF Present
  <2>2. \A n \in Name \ {"stacks"} : OfNow(n) => OfNow(n)'
    BY <1>6
  <2> QED BY <1>1, <1>2, <1>7, <1>8, <2>1, <2>2, OwnTrace
<1>11. UpToDate'
  BY <1>1, <1>2, <1>7, <1>9, <1>10 DEF OwnInv, UpToDate, Running
<1>12. InMode'
  BY <1>3, <1>7, <1>9, <1>10 DEF OwnInv, InMode
<1>13. SeenToEnd'
  BY <1>1, <1>7, <1>9, <1>10 DEF OwnInv, SeenToEnd, Running, Waiting
<1>14. ManifestOfNow'
  BY <1>1, <1>6, <1>9 DEF OwnInv, ManifestOfNow
<1> QED BY <1>10, <1>11, <1>12, <1>13, <1>14 DEF OwnInv

LEMMA OwnAwaitBlocks == ASSUME IInv, OwnInv, AwaitBlocks PROVE OwnInv'
<1>1. loader.pc = "await" /\ UNCHANGED <<etl, host, auto, dir, trace, registry, tool>>
  BY DEF AwaitBlocks
<1>2. loader'.pc = "blocked" /\ loader'.load = loader.load /\ loader'.mode = loader.mode
  BY DEF AwaitBlocks, Goto, At, IInv, TypeOK, LoaderData
<1>3. OwnVersion' /\ ShownOfNow'
  BY <1>1, OwnFiles DEF OfNow
<1>4. UpToDate' /\ InMode' /\ SeenToEnd' /\ ManifestOfNow'
  BY <1>1, <1>2
  DEF OwnInv, UpToDate, InMode, SeenToEnd, ManifestOfNow, OfNow, Running, Waiting
<1> QED BY <1>3, <1>4 DEF OwnInv

\* When its wait returns without an error, a native load has every class, all of
\* them and the samples on disk of the version it is of.
LEMMA OwnAwait == ASSUME IInv, OwnInv, Await PROVE OwnInv'
<1> DEFINE i == loader.load
           samples == trace[i].data["SampledProfile"]
           data == [trace[i].data EXCEPT !["cpu_sampling"] = IF @ = Nothing THEN samples ELSE @]
           d == IF trace[i].data["cpu_sampling"] = Nothing /\ samples # Nothing
                  THEN [dir EXCEPT !.file["cpu_sampling"] = samples] ELSE dir
           r == [trace[i] EXCEPT !.data = data]
<1>1. /\ loader.pc \in {"await", "blocked"} /\ Waited(i)
      /\ UNCHANGED <<etl, host, auto, tool>>
  BY DEF Await, Waited
<1>2. /\ loader \in LoaderData /\ i \in Load
      /\ trace[i] \in TraceData /\ trace[i].mode = loader.mode
      /\ dir \in Directory /\ etl \in Nat
  BY <1>1, RegisteredLoad DEF Version
<1>3. trace[i].etl = etl /\ loader.mode = "native"
  BY <1>1 DEF OwnInv, UpToDate, InMode
<1>4. \A j \in Load \ {i} : ~(trace[j].mode = "native" /\ Running(j))
  BY DEF OwnInv, SeenToEnd, Waiting
<1>5. CASE trace[i].error
  <2>1. /\ UNCHANGED <<etl, trace>> /\ dir' = [dir EXCEPT !.manifest = NoManifest]
        /\ loader' = Answered("failed")
    BY <1>1, <1>5 DEF Await, Answer
  <2>2. dir'.file = dir.file /\ dir'.manifest = NoManifest /\ loader'.pc = "idle"
    BY <1>2, <2>1 DEF Directory, Answered, LoaderData
  <2>3. OwnVersion' /\ ShownOfNow'
    BY <2>1, <2>2, OwnFiles DEF OfNow
  <2>4. ~Running(i)
    BY <1>2, <1>3, <1>5 DEF IInv, LoaderWaits, Running
  <2>5. UpToDate' /\ InMode' /\ SeenToEnd' /\ ManifestOfNow'
    BY <1>2, <1>4, <2>1, <2>2, <2>4
    DEF OwnInv, UpToDate, InMode, SeenToEnd, ManifestOfNow, NoManifest, Running
  <2> QED BY <2>3, <2>5 DEF OwnInv
<1>6. CASE ~trace[i].error
  <2>1. /\ trace' = [trace EXCEPT ![i] = r] /\ loader' = Answered("loaded")
        /\ dir' = IF loader.cached THEN d ELSE WithManifest(d, "native", data, Class)
    BY <1>2, <1>6 DEF Await, Answer, IInv, TypeOK
  <2>2. Class \subseteq Present(trace[i].data) /\ ~Running(i)
    <3>1. trace[i].thread = "off" => trace[i].ready
      BY <1>1 DEF OwnInv, SeenToEnd
    <3>2. loader.pc = "await" =>
            trace[i].thread = "off" \/ trace[i].data["SampledProfile"] = Nothing
      BY <1>2, <1>3, <1>6 DEF OwnInv, SeenToEnd, IInv, LoaderWaits
    <3>3. trace[i].ready
      BY <1>1, <3>1, <3>2 DEF Waited, NoBlock
    <3> QED BY <1>2, <1>6, <3>3 DEF IInv, AllStored, OwnInv, SeenToEnd
  <2>3. trace[i].data \in Data /\ samples # Nothing /\ dir.file \in Data
    BY <1>2, <2>2, NamesButStacks DEF TraceData, Directory, Present
  <2>4. \A n \in Present(trace[i].data) \ {"stacks"} : trace[i].data[n].etl = etl /\ OfNow(n)
    BY <1>2, <1>3 DEF OwnInv, OwnVersion, ShownOfNow
  <2>5. samples.etl = etl
    BY <2>2, <2>4, NamesButStacks
  <2>6. d.manifest = dir.manifest
        /\ \A n \in Name : d.file[n] = IF n = "cpu_sampling" /\ trace[i].data[n] = Nothing
                                         THEN samples ELSE dir.file[n]
    BY <1>2, <2>3, NamesButStacks DEF Directory, Data
  <2>7. \A n \in Name \ {"stacks"} : d.file[n] = Nothing \/ d.file[n].etl = etl
    <3> SUFFICES ASSUME NEW n \in Name \ {"stacks"}
                 PROVE  d.file[n] = Nothing \/ d.file[n].etl = etl
      OBVIOUS
    <3>1. CASE trace[i].data[n] # Nothing
      BY <2>4, <2>6, <3>1 DEF Present, OfNow
    <3>2. CASE trace[i].data[n] = Nothing
      <4>1. n = "cpu_sampling"
        BY <2>2, <3>2, NamesButStacks DEF Present
      <4> QED BY <2>5, <2>6, <3>2, <4>1
    <3> QED BY <3>1, <3>2
  <2>8. \A n \in Name : data[n] = IF n = "cpu_sampling" /\ trace[i].data[n] = Nothing
                                    THEN samples ELSE trace[i].data[n]
    BY <2>3 DEF Data
  <2>9. \A n \in Present(data) \ {"stacks"} : data[n].etl = etl
    BY <2>4, <2>5, <2>8 DEF Present
  <2>10. d \in Directory
    <3>1. samples \in Source \cup {Nothing}
      BY <2>3, NamesButStacks DEF Data
    <3>2. [dir.file EXCEPT !["cpu_sampling"] = samples] \in Data
      BY <2>3, <3>1 DEF Data
    <3> QED BY <1>2, <3>2, FilesChanged
  <2> HIDE DEF d, data
  <2>11. /\ dir'.file = d.file
         /\ dir'.manifest = dir.manifest \/ dir'.manifest.etl = etl
    BY <2>1, <2>6, <2>10 DEF WithManifest, Directory
  <2>12. \A n \in Name \ {"stacks"} : OfNow(n)'
    BY <1>1, <2>7, <2>11 DEF OfNow
  <2>13. /\ r.mode = "native" /\ r.etl = etl /\ r.data = data
         /\ r.thread = trace[i].thread /\ r.ready = trace[i].ready
    BY <1>2, <1>3 DEF TraceData
  <2> HIDE DEF r
  <2>14. /\ trace'[i] = r /\ \A j \in Load \ {i} : trace'[j] = trace[j]
         /\ OwnVersion' /\ ShownOfNow'
    <3>1. \A n \in Present(r.data) \ {"stacks"} : r.data[n].etl = etl /\ OfNow(n)'
      BY <2>9, <2>12, <2>13 DEF Present
    <3> QED BY <1>1, <1>2, <2>1, <2>12, <2>13, <3>1, OwnTrace
  <2>15. loader'.pc = "idle"
    BY <1>2, <2>1 DEF Answered, LoaderData
  <2>16. UpToDate'
    BY <1>1, <1>2, <2>11, <2>13, <2>14, <2>15 DEF OwnInv, UpToDate, Running
  <2>17. InMode'
    BY <1>3, <2>13, <2>14, <2>15 DEF OwnInv, InMode
  <2>18. SeenToEnd'
    BY <1>4, <2>2, <2>13, <2>14, <2>15 DEF OwnInv, SeenToEnd, Running
  <2>19. ManifestOfNow'
    BY <2>12 DEF ManifestOfNow
  <2> QED BY <2>14, <2>16, <2>17, <2>18, <2>19 DEF OwnInv
<1> QED BY <1>5, <1>6

\* A thread that runs is of the current version, and so is what it writes.
LEMMA OwnThread ==
  ASSUME IInv, OwnInv, UNCHANGED <<etl, loader>>,
         NEW i \in Load, Running(i), NEW r, trace' = [trace EXCEPT ![i] = r],
         r.mode = trace[i].mode, r.etl = etl,
         \/ r.thread \in {"storing", "aggregating", "closing"} /\ ~r.ready
         \/ r.thread \in {"done", "dead"},
         loader.pc = "await" /\ loader.load = i => r.thread = "done" /\ r.error,
         \A n \in Name \ {"stacks"} : OfNow(n) => OfNow(n)',
         \A n \in Present(r.data) \ {"stacks"} :
           r.mode # "xperf" => r.data[n].etl = etl /\ OfNow(n)',
         \/ dir'.manifest = dir.manifest
         \/ dir'.manifest.etl = etl /\ (r.mode = "xperf" => dir'.manifest.by = "xperf")
  PROVE  OwnInv'
<1>0. /\ loader \in LoaderData /\ etl \in Nat /\ trace[i].thread # "off"
      /\ trace[i].mode # "dotnet" /\ trace[i].mode \in Mode
  BY DEF IInv, TypeOK, Version, Running, OwnInv, InMode, TraceData
<1>1. /\ trace'[i] = r /\ \A j \in Load \ {i} : trace'[j] = trace[j]
      /\ OwnVersion' /\ ShownOfNow'
  BY OwnTrace
<1>2. UpToDate'
  <2>1. loader.pc \in {"stamp", "dump", "await", "blocked"} => loader.load \in Load
    BY RegisteredLoad
  <2> QED BY <1>0, <1>1, <2>1 DEF OwnInv, UpToDate, Running
<1>3. InMode'
  BY <1>0, <1>1 DEF OwnInv, InMode
<1>4. SeenToEnd'
  <2>1. \A j \in Load : (Running(j)' => Running(j)) /\ (Waiting(j)' <=> Waiting(j))
    BY <1>1 DEF Running, Waiting
  <2>2. loader.pc \in {"await", "blocked"} => loader.load \in Load
    BY RegisteredLoad
  <2>3. \A j \in Load : Running(j)' => ~trace'[j].ready
    BY <1>1 DEF OwnInv, SeenToEnd, Running
  <2> QED BY <1>1, <2>1, <2>2, <2>3 DEF OwnInv, SeenToEnd
<1>5. ManifestOfNow'
  <2>1. trace[i].mode = "native" => loader.pc \in {"await", "blocked"}
    BY DEF OwnInv, SeenToEnd, Waiting
  <2> QED BY <1>0, <2>1 DEF OwnInv, ManifestOfNow, Mode
<1> QED BY <1>1, <1>2, <1>3, <1>4, <1>5 DEF OwnInv

LEMMA OwnStore == ASSUME IInv, OwnInv, Prompt, NEW i \in Load, Store(i) PROVE OwnInv'
<1> DEFINE c == IF "SampledProfile" \in Missing(i) THEN "SampledProfile" ELSE "CSwitch"
           rest == Missing(i) \ {c}
           data == [trace[i].data EXCEPT ![c] = Own(i)]
           thread == CASE rest # {} -> "storing"
                       [] rest = {} /\ trace[i].mode = "native" -> "aggregating"
                       [] rest = {} /\ trace[i].mode # "native" -> "closing"
           r == [trace[i] EXCEPT !.data = data, !.thread = thread]
<1>1. /\ Own(i) \in Source /\ trace[i] \in TraceData /\ trace[i].data \in Data
      /\ dir \in Directory /\ dir.file \in Data
  BY OwnType DEF IInv
<1>2. /\ trace[i].thread \in {"extracting", "storing"}
      /\ ~(loader.pc = "await" /\ loader.load = i)
      /\ UNCHANGED <<etl, host, auto, loader, registry, tool>>
  BY DEF Store
<1>3. Running(i) /\ ~trace[i].ready /\ trace[i].etl = etl
  BY <1>2 DEF Running, OwnInv, SeenToEnd, UpToDate
<1>4. Own(i).etl = etl
  BY <1>3 DEF Own
<1>5. c \in Name
  BY DEF Class, Name
<1>6. \A n \in Name : data[n] = IF n = c THEN Own(i) ELSE trace[i].data[n]
  BY <1>1, <1>5 DEF Data
<1>7. /\ dir'.manifest = dir.manifest
      /\ \A n \in Name : dir'.file[n] = IF n = c THEN Own(i) ELSE dir.file[n]
  BY <1>1, <1>5 DEF Store, Directory, Data
<1>8. trace' = [trace EXCEPT ![i] = r]
  BY DEF Store, IInv, TypeOK, TraceData
<1>9. thread \in {"storing", "aggregating", "closing"}
  OBVIOUS
<1> HIDE DEF data, thread, c
<1>10. /\ r.mode = trace[i].mode /\ r.etl = etl /\ r.data = data /\ r.thread = thread
       /\ r.ready = trace[i].ready
  BY <1>1, <1>3 DEF TraceData
<1> HIDE DEF r
<1>11. \A n \in Name \ {"stacks"} : OfNow(n) => OfNow(n)'
  BY <1>2, <1>4, <1>7 DEF OfNow
<1>12. \A n \in Present(r.data) \ {"stacks"} :
         r.mode # "xperf" => r.data[n].etl = etl /\ OfNow(n)'
  <2> SUFFICES ASSUME NEW n \in Name \ {"stacks"}, data[n] # Nothing, trace[i].mode # "xperf"
               PROVE  data[n].etl = etl /\ OfNow(n)'
    BY <1>10 DEF Present
  <2>1. CASE n = c
    BY <1>2, <1>4, <1>6, <1>7, <2>1 DEF OfNow
  <2>2. CASE n # c
    BY <1>3, <1>6, <1>11, <2>2 DEF OwnInv, OwnVersion, ShownOfNow, Present
  <2> QED BY <2>1, <2>2
<1> QED BY <1>2, <1>3, <1>7, <1>8, <1>9, <1>10, <1>11, <1>12, OwnThread

LEMMA OwnAggregate == ASSUME IInv, OwnInv, NEW i \in Load, Aggregate(i) PROVE OwnInv'
<1>1. /\ Own(i) \in Source /\ trace[i] \in TraceData /\ trace[i].data \in Data
      /\ dir \in Directory /\ dir.file \in Data
  BY OwnType DEF IInv
<1>2. PICK made \in IF Faults THEN SUBSET Table ELSE {Table} :
        /\ trace' = [trace EXCEPT
             ![i].data = [n \in Name |-> IF n \in made THEN Own(i) ELSE @[n]],
             ![i].thread = "closing"]
        /\ dir' = [dir EXCEPT !.file = [n \in Name |-> IF n \in made THEN Own(i) ELSE @[n]]]
  BY Zenon DEF Aggregate
<1> DEFINE data == [n \in Name |-> IF n \in made THEN Own(i) ELSE trace[i].data[n]]
           r == [trace[i] EXCEPT !.data = data, !.thread = "closing"]
<1>3. trace[i].thread = "aggregating" /\ UNCHANGED <<etl, host, auto, loader, registry, tool>>
  BY DEF Aggregate
<1>4. Running(i) /\ ~trace[i].ready /\ trace[i].etl = etl
  BY <1>3 DEF Running, OwnInv, SeenToEnd, UpToDate
<1>5. Own(i).etl = etl
  BY <1>4 DEF Own
<1>6. /\ dir'.manifest = dir.manifest
      /\ \A n \in Name : dir'.file[n] = IF n \in made THEN Own(i) ELSE dir.file[n]
  BY <1>1, <1>2 DEF Directory
<1>7. trace' = [trace EXCEPT ![i] = r]
  BY <1>2 DEF IInv, TypeOK, TraceData
<1>8. /\ r.mode = trace[i].mode /\ r.etl = etl /\ r.data = data /\ r.thread = "closing"
      /\ r.ready = trace[i].ready
  BY <1>1, <1>4 DEF TraceData
<1>9. ~(loader.pc = "await" /\ loader.load = i)
  BY <1>3 DEF OwnInv, SeenToEnd
<1>10. \A n \in Name \ {"stacks"} : OfNow(n) => OfNow(n)'
  BY <1>3, <1>5, <1>6 DEF OfNow
<1>11. \A n \in Present(r.data) \ {"stacks"} :
         r.mode # "xperf" => r.data[n].etl = etl /\ OfNow(n)'
  <2> SUFFICES ASSUME NEW n \in Name \ {"stacks"}, data[n] # Nothing, trace[i].mode # "xperf"
               PROVE  data[n].etl = etl /\ OfNow(n)'
    BY <1>8 DEF Present
  <2>1. CASE n \in made
    BY <1>3, <1>5, <1>6, <2>1 DEF OfNow
  <2>2. CASE n \notin made
    BY <1>4, <1>10, <2>2 DEF OwnInv, OwnVersion, ShownOfNow, Present
  <2> QED BY <2>1, <2>2
<1> HIDE DEF r
<1> QED BY <1>3, <1>4, <1>6, <1>7, <1>8, <1>9, <1>10, <1>11, OwnThread

LEMMA OwnEnd ==
  ASSUME IInv, OwnInv, NEW i \in Load,
         ExtractFails(i) \/ Close(i)
           \/ (trace[i].thread = "closing" /\ ToThread(i, "dead")
                 /\ UNCHANGED <<etl, host, auto, loader, dir, registry, tool>>)
  PROVE  OwnInv'
<1>1. trace[i] \in TraceData /\ dir \in Directory /\ UNCHANGED <<etl, loader>>
  BY OwnType DEF IInv, ExtractFails, Close
<1>2. Running(i)
  BY DEF Running, ExtractFails, Close
<1>3. ~trace[i].ready /\ trace[i].etl = etl
  BY <1>2 DEF OwnInv, SeenToEnd, UpToDate
<1>4. \E r : /\ trace' = [trace EXCEPT ![i] = r]
             /\ r.mode = trace[i].mode /\ r.etl = etl /\ r.data = trace[i].data
             /\ r.thread \in {"done", "dead"}
             /\ r.error \/ trace[i].thread = "closing"
             /\ r.error => r.thread = "done" \/ trace[i].thread = "closing"
  <2>1. CASE ExtractFails(i)
    <3> DEFINE r == [trace[i] EXCEPT !.error = TRUE, !.ready = TRUE, !.thread = "done"]
    <3>1. trace' = [trace EXCEPT ![i] = r]
      BY <2>1 DEF ExtractFails, IInv, TypeOK, TraceData
    <3>2. /\ r.mode = trace[i].mode /\ r.etl = etl /\ r.data = trace[i].data
          /\ r.thread = "done" /\ r.error
      BY <1>1, <1>3 DEF TraceData
    <3> QED BY <3>1, <3>2
  <2>2. CASE Close(i)
    <3> DEFINE r == [trace[i] EXCEPT !.thread = "done", !.ready = TRUE]
    <3>1. trace' = [trace EXCEPT ![i] = r] /\ trace[i].thread = "closing"
      BY <2>2 DEF Close, IInv, TypeOK, TraceData
    <3>2. /\ r.mode = trace[i].mode /\ r.etl = etl /\ r.data = trace[i].data
          /\ r.thread = "done"
      BY <1>1, <1>3 DEF TraceData
    <3> QED BY <3>1, <3>2
  <2>3. CASE trace[i].thread = "closing" /\ ToThread(i, "dead")
    <3> DEFINE r == [trace[i] EXCEPT !.thread = "dead"]
    <3>1. trace' = [trace EXCEPT ![i] = r]
      BY <2>3 DEF ToThread, IInv, TypeOK, TraceData
    <3>2. /\ r.mode = trace[i].mode /\ r.etl = etl /\ r.data = trace[i].data
          /\ r.thread = "dead"
      BY <1>1, <1>3 DEF TraceData
    <3> QED BY <2>3, <3>1, <3>2
  <2> QED BY <2>1, <2>2, <2>3
<1>5. /\ dir'.file = dir.file
      /\ \/ dir'.manifest = dir.manifest
         \/ /\ dir'.manifest.etl = etl
            /\ trace[i].mode = "xperf" => dir'.manifest.by = "xperf"
  <2>1. Close(i) => dir' = WithManifest(dir, trace[i].mode, trace[i].data, Class)
    BY DEF Close
  <2>2. ~Close(i) => UNCHANGED dir
    BY DEF ExtractFails
  <2> QED BY <1>1, <2>1, <2>2 DEF WithManifest, Family, Directory
<1>6. ~(loader.pc = "await" /\ loader.load = i) \/ trace[i].thread # "closing"
  BY DEF OwnInv, SeenToEnd
<1>7. \A n \in Name \ {"stacks"} : OfNow(n) => OfNow(n)'
  BY <1>1, <1>5 DEF OfNow
<1>8. trace[i].mode # "xperf" =>
        \A n \in Present(trace[i].data) \ {"stacks"} : trace[i].data[n].etl = etl /\ OfNow(n)'
  BY <1>3, <1>7 DEF OwnInv, OwnVersion, ShownOfNow, Present
<1>9. PICK r : /\ trace' = [trace EXCEPT ![i] = r]
               /\ r.mode = trace[i].mode /\ r.etl = etl /\ r.data = trace[i].data
               /\ r.thread \in {"done", "dead"}
               /\ r.error \/ trace[i].thread = "closing"
               /\ r.error => r.thread = "done" \/ trace[i].thread = "closing"
  BY <1>4
<1> QED BY <1>1, <1>2, <1>5, <1>6, <1>7, <1>8, <1>9, OwnThread

LEMMA OwnUsers ==
  ASSUME IInv, OwnInv, ~Overlap,
         \/ \E t \in Tool : Query(t) \/ QueryBlocks(t) \/ ReadTables(t)
         \/ CacheTable \/ Unload \/ ReplaceTrace
  PROVE  OwnInv'
<1>1. CASE (\E t \in Tool : Query(t) \/ QueryBlocks(t) \/ ReadTables(t)) \/ Unload
  <2>1. UNCHANGED <<etl, host, auto, loader, dir, trace>>
    BY <1>1 DEF Query, QueryBlocks, ReadTables, Unload
  <2> QED
    BY <2>1 DEF OwnInv, UpToDate, InMode, SeenToEnd, ManifestOfNow, ShownOfNow, OwnVersion,
                OfNow, Present, Running, Waiting
<1>2. CASE CacheTable
  <2>1. Registered \subseteq Load
    BY DEF IInv, TypeOK, Registered, Load
  <2> QED BY <1>2, <2>1, OwnEnd DEF CacheTable
<1>3. CASE ReplaceTrace
  <2>1. /\ UNCHANGED <<host, auto, loader, dir, trace>> /\ etl' = etl + 1 /\ etl \in Nat
        /\ loader.pc = "idle" /\ \A i \in Load : ~Running(i)
    BY <1>3 DEF ReplaceTrace, Quiet, IInv, TypeOK, Version
  <2>2. dir.manifest.etl \in Nat /\ dir.manifest.etl <= etl
    BY DEF OwnInv, UpToDate, IInv, TypeOK, Directory, Manifest, NoManifest, Version
  <2>3. \A i \in Load : trace[i].etl \in Nat /\ trace[i].etl <= etl
    BY DEF OwnInv, UpToDate, IInv, TypeOK, TraceData, Version
  <2>4. UpToDate'
    BY <2>1, <2>2, <2>3 DEF UpToDate, Running
  <2>5. InMode' /\ SeenToEnd' /\ OwnVersion'
    BY <2>1 DEF OwnInv, InMode, SeenToEnd, OwnVersion, Running, Present, Waiting
  <2>6. ManifestOfNow' /\ ShownOfNow'
    BY <2>1, <2>2, <2>3 DEF ManifestOfNow, ShownOfNow
  <2> QED BY <2>4, <2>5, <2>6 DEF OwnInv
<1> QED BY <1>1, <1>2, <1>3

LEMMA OwnNext ==
  ASSUME Prompt, ~Overlap
  PROVE  IInv /\ OwnInv /\ [Next]_vars => OwnInv'
<1> SUFFICES ASSUME IInv, OwnInv, [Next]_vars PROVE OwnInv'
  OBVIOUS
<1>1. CASE Loader
  BY <1>1, OwnEarly, OwnRegistration, OwnStamp, OwnStartDumper, OwnAwaitBlocks, OwnAwait
  DEF Loader
<1>2. CASE \E i \in Load : Dumper(i)
  BY <1>2, OwnStore, OwnAggregate, OwnEnd DEF Dumper
<1>3. CASE \/ \E t \in Tool : Query(t) \/ QueryBlocks(t) \/ ReadTables(t)
           \/ CacheTable \/ Unload \/ ReplaceTrace
  BY <1>3, OwnUsers
<1>4. CASE UNCHANGED vars
  BY <1>4 DEF vars, OwnInv, UpToDate, InMode, SeenToEnd, ManifestOfNow, ShownOfNow,
              OwnVersion, OfNow, Present, Running, Waiting
<1> QED BY <1>1, <1>2, <1>3, <1>4 DEF Next

\* Whatever loads of any mode, hits, failures, fallbacks and replacements of the
\* trace file came before, a trace of the native pipelines shows tables and
\* classes of the version of the file it is named after, so long as the file
\* is replaced only while nothing runs and a loader reaches its wait before
\* its thread has decoded (_load_from_cache, _cached_dumper_paths_for_trace,
\* _start_background_dumper, _write_cache_manifest).
THEOREM NativeIsOfItsFile == Prompt /\ ~Overlap => (Spec => []OwnVersion)
<1> SUFFICES ASSUME Prompt, ~Overlap PROVE Spec => []OwnVersion
  OBVIOUS
<1>1. IInv /\ OwnInv /\ [Next]_vars => OwnInv'
  BY OwnNext
<1>2. OwnInv => OwnVersion
  BY DEF OwnInv
<1> QED BY <1>1, <1>2, OwnInit, Inductive, PTL DEF Spec
=============================================================================
