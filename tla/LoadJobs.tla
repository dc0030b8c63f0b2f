------------------------------ MODULE LoadJobs ------------------------------
(***************************************************************************)
(* Background trace loading: load_jobs.py (LoadJob, its heartbeat thread   *)
(* and the job table) with the tools that drive it in trace_mgmt.py        *)
(* (load_trace, get_load_status, the worker path of _load_trace_blocking)  *)
(* and the promotion step of worker_supervisor.py.                         *)
(*                                                                         *)
(* Every actor works on one version of one ETL file, hence one trace id    *)
(* and one export directory.  Several server processes share that          *)
(* directory; each has a job table of its own, a pool of tool calls, one   *)
(* loader thread per job and one heartbeat thread per job.                 *)
(*                                                                         *)
(* A tool call that may start a load takes a ticket; if it starts one, the *)
(* ticket is the job's name.  Tickets bound the model and nothing else.    *)
(***************************************************************************)
EXTENDS Naturals

CONSTANTS
  Proc,          \* server processes
  Caller,        \* tool-call slots, each belonging to one process
  ProcOf,        \* ProcOf[c] is the process of slot c
  Poller,        \* slots that may call get_load_status as well
  MaxCalls,      \* number of load_trace calls in a behaviour
  ForceArgs,     \* the values of force the calls pass: a subset of BOOLEAN
  Kinds,         \* subset of {"async", "blocking"}: values of async_load
  WorkerFaults,  \* may the extraction worker fail?
  DiskFaults,    \* may writes of extracting.json and failed.json fail?
  Crashes,       \* may a server process die?
  Timely         \* does a running heartbeat refresh its marker in time?

ASSUME ConstantsAssumption ==
  /\ Proc # {}
  /\ ProcOf \in [Caller -> Proc]
  /\ Poller \subseteq Caller
  /\ MaxCalls \in Nat
  /\ ForceArgs \subseteq BOOLEAN
  /\ Kinds \subseteq {"async", "blocking"}
  /\ {WorkerFaults, DiskFaults, Crashes, Timely} \subseteq BOOLEAN

VARIABLES
  alive,      \* [Proc -> BOOLEAN]: is the process running?
  loaded,     \* [Proc -> BOOLEAN]: is the trace in the process's registry?
  current,    \* [Proc -> job]: the table _jobs, at this trace id
  calls,      \* tickets taken so far
  owner,      \* [Job -> Proc]: where the job was started
  kind,       \* [Job -> Kinds]: a LoadJob, or the body of a blocking call
  reclaim,    \* [Job -> BOOLEAN]: the closure's reclaim_stale_cache
  force,      \* [Job -> BOOLEAN]: the call's force argument
  pc,         \* [Job -> where its loader thread stands]
  status,     \* [Job -> LoadJob.status]
  done,       \* [Job -> LoadJob._done]
  stop,       \* [Job -> LoadJob._stop_heartbeat]
  hb,         \* [Job -> where its heartbeat thread stands]
  marker,     \* extracting.json
  failed,     \* does failed.json exist?
  cacheDir,   \* the export directory
  cpc,        \* [Caller -> where the tool call stands]
  target,     \* [Caller -> the job it waits for, or its ticket]
  sawStale,   \* [Caller -> did it read a stale marker?]
  reply       \* [Caller -> the last answer it returned]

procVars == <<alive, loaded, current, calls>>
jobArgs  == <<owner, kind, reclaim, force>>
jobVars  == <<pc, status, done, stop, hb>>
diskVars == <<marker, failed, cacheDir>>
callVars == <<cpc, target, sawStale, reply>>
vars == <<procVars, jobArgs, jobVars, diskVars, callVars>>

-----------------------------------------------------------------------------
Job   == 1 .. MaxCalls
NoJob == 0

\* Where a loader thread stands, in the order it passes through.
Extracting == {"begin", "reclaim", "reclaimed", "force", "forceRmdir",
               "probe", "extract", "clear", "rmdir", "rename", "promoted"}
Settling   == {"loaded", "fail", "exc", "unlinkFailed", "unlinkMarker", "exit"}
Phase      == {"free", "unstarted", "ended"} \cup Extracting \cup Settling

Status  == {"extracting", "ready", "failed"}
Answer  == Status \cup {"none", "reused", "not_found", "error"}
Marker  == [job : Job, status : Status, fresh : BOOLEAN]
NoMarker == [job |-> NoJob, status |-> "none", fresh |-> FALSE]

\* load_jobs.marker_is_fresh: recent heartbeat, and the writer's pid is alive.
MarkerIsFresh ==
  /\ marker # NoMarker
  /\ marker.fresh
  /\ alive[owner[marker.job]]

\* LoadJob.write_marker through write_json_atomic, which makes the directory.
WriteMarker(j) ==
  /\ marker' = [job |-> j, status |-> status[j], fresh |-> TRUE]
  /\ cacheDir' = IF cacheDir = "absent" THEN "present" ELSE cacheDir
  /\ UNCHANGED failed

\* shutil.rmtree, first half: everything below the directory is unlinked.
EmptyCacheDir ==
  /\ marker' = NoMarker
  /\ failed' = FALSE
  /\ cacheDir' = "present"

\* shutil.rmtree, second half: os.rmdir needs a directory with nothing in it.
CacheDirIsEmpty == cacheDir = "present" /\ marker = NoMarker /\ ~failed

\* Mutant: a job counts as finished as soon as its status is settled.
ActiveJobByStatus(p) == current[p] # NoJob /\ status[current[p]] = "extracting"

\* _jobs[trace_id] exists and its thread has not finished (active_job).
ActiveJob(p) == current[p] # NoJob /\ ~done[current[p]]

Goto(j, from, to) == pc[j] = from /\ pc' = [pc EXCEPT ![j] = to]

-----------------------------------------------------------------------------
Init ==
  /\ alive = [p \in Proc |-> TRUE]
  /\ loaded = [p \in Proc |-> FALSE]
  /\ current = [p \in Proc |-> NoJob]
  /\ calls = 0
  /\ owner = [j \in Job |-> CHOOSE p \in Proc : TRUE]
  /\ kind = [j \in Job |-> "async"]
  /\ reclaim = [j \in Job |-> FALSE]
  /\ force = [j \in Job |-> FALSE]
  /\ pc = [j \in Job |-> "free"]
  /\ status = [j \in Job |-> "extracting"]
  /\ done = [j \in Job |-> FALSE]
  /\ stop = [j \in Job |-> FALSE]
  /\ hb = [j \in Job |-> "off"]
  /\ marker = NoMarker
  /\ failed = FALSE
  /\ cacheDir = "absent"
  /\ cpc = [c \in Caller |-> "idle"]
  /\ target = [c \in Caller |-> NoJob]
  /\ sawStale = [c \in Caller |-> FALSE]
  /\ reply = [c \in Caller |-> "none"]

-----------------------------------------------------------------------------
(* load_trace *)

\* The call returns; nothing of its local state survives.
Answered(c, answer) ==
  /\ cpc' = [cpc EXCEPT ![c] = "idle"]
  /\ target' = [target EXCEPT ![c] = NoJob]
  /\ sawStale' = [sawStale EXCEPT ![c] = FALSE]
  /\ reply' = [reply EXCEPT ![c] = answer]

\* load_trace(async_load=True) up to active_job: wait for a running job, or
\* go on to read the marker.
CallLoad(c) ==
  LET p == ProcOf[c] IN
  /\ alive[p] /\ cpc[c] = "idle" /\ calls < MaxCalls /\ "async" \in Kinds
  /\ calls' = calls + 1
  /\ \E f \in ForceArgs : force' = [force EXCEPT ![calls + 1] = f]
  /\ owner' = [owner EXCEPT ![calls + 1] = p]
  /\ kind' = [kind EXCEPT ![calls + 1] = "async"]
  /\ IF ActiveJob(p)
       THEN /\ cpc' = [cpc EXCEPT ![c] = "waiting"]
            /\ target' = [target EXCEPT ![c] = current[p]]
       ELSE /\ cpc' = [cpc EXCEPT ![c] = "readMarker"]
            /\ target' = [target EXCEPT ![c] = calls + 1]
  /\ UNCHANGED <<alive, loaded, current, reclaim, sawStale, reply>>
  /\ UNCHANGED <<jobVars, diskVars>>

\* load_trace(async_load=False): no job, no marker, the loader runs in the call.
CallBlockingLoad(c) ==
  LET p == ProcOf[c] j == calls + 1 IN
  /\ alive[p] /\ cpc[c] = "idle" /\ calls < MaxCalls /\ "blocking" \in Kinds
  /\ calls' = j
  /\ \E f \in ForceArgs : force' = [force EXCEPT ![j] = f]
  /\ owner' = [owner EXCEPT ![j] = p]
  /\ kind' = [kind EXCEPT ![j] = "blocking"]
  /\ Goto(j, "free", "force")
  /\ cpc' = [cpc EXCEPT ![c] = "blocked"]
  /\ target' = [target EXCEPT ![c] = j]
  /\ UNCHANGED <<alive, loaded, current, reclaim, sawStale, reply>>
  /\ UNCHANGED <<status, done, stop, hb, diskVars>>

\* The marker decides: a fresh one answers the call, a stale one is remembered.
ReadMarker(c) ==
  /\ alive[ProcOf[c]] /\ cpc[c] = "readMarker"
  /\ \/ /\ MarkerIsFresh
        /\ Answered(c, "reused")
     \/ /\ ~MarkerIsFresh
        /\ cpc' = [cpc EXCEPT ![c] = "start"]
        /\ sawStale' = [sawStale EXCEPT ![c] = marker # NoMarker]
        /\ UNCHANGED <<target, reply>>
  /\ UNCHANGED <<procVars, jobArgs, jobVars, diskVars>>

\* start_job finds a job that is not done and returns it; the stale marker the
\* caller saw is forgotten with its loader closure.
JoinJob(c) ==
  LET p == ProcOf[c] IN
  /\ alive[p] /\ cpc[c] = "start" /\ ActiveJob(p)
  /\ cpc' = [cpc EXCEPT ![c] = "waiting"]
  /\ target' = [target EXCEPT ![c] = current[p]]
  /\ UNCHANGED <<procVars, jobArgs, jobVars, diskVars, sawStale, reply>>

\* start_job under _jobs_lock: the job enters the table, then LoadJob.start
\* writes the marker and starts the thread.
StartJob(c) ==
  LET p == ProcOf[c] j == target[c] IN
  /\ alive[p] /\ cpc[c] = "start" /\ ~ActiveJob(p)
  /\ current' = [current EXCEPT ![p] = j]
  /\ reclaim' = [reclaim EXCEPT ![j] = sawStale[c]]
  /\ Goto(j, "free", "begin")
  /\ WriteMarker(j)
  /\ cpc' = [cpc EXCEPT ![c] = "waiting"]
  /\ UNCHANGED <<alive, loaded, calls, owner, kind, force>>
  /\ UNCHANGED <<status, done, stop, hb, target, sawStale, reply>>

\* start_job when write_marker raises: the exception leaves the tool with the
\* job already in the table and no thread behind it.
StartJobRaises(c) ==
  LET p == ProcOf[c] j == target[c] IN
  /\ DiskFaults
  /\ alive[p] /\ cpc[c] = "start" /\ ~ActiveJob(p)
  /\ current' = [current EXCEPT ![p] = j]
  /\ reclaim' = [reclaim EXCEPT ![j] = sawStale[c]]
  /\ Goto(j, "free", "unstarted")
  /\ Answered(c, "error")
  /\ UNCHANGED <<alive, loaded, calls, owner, kind, force>>
  /\ UNCHANGED <<status, done, stop, hb, diskVars>>

\* job.wait returns True: the answer is the job's result.
WaitDone(c) ==
  /\ alive[ProcOf[c]] /\ cpc[c] = "waiting" /\ done[target[c]]
  /\ Answered(c, status[target[c]])
  /\ UNCHANGED <<procVars, jobArgs, jobVars, diskVars>>

\* The inline wait budget runs out first.
WaitTimeout(c) ==
  /\ alive[ProcOf[c]] /\ cpc[c] = "waiting" /\ ~done[target[c]]
  /\ Answered(c, "extracting")
  /\ UNCHANGED <<procVars, jobArgs, jobVars, diskVars>>

\* _load_trace_blocking returns to a blocking call, or raises out of it.
BlockingReturn(c) ==
  LET j == target[c] IN
  /\ alive[ProcOf[c]] /\ cpc[c] = "blocked"
  /\ pc[j] \in {"loaded", "fail", "exc"}
  /\ pc' = [pc EXCEPT ![j] = "ended"]
  /\ Answered(c, CASE pc[j] = "loaded" -> "ready"
                   [] pc[j] = "fail"   -> "failed"
                   [] OTHER            -> "error")
  /\ UNCHANGED <<procVars, jobArgs, status, done, stop, hb, diskVars>>

-----------------------------------------------------------------------------
(* get_load_status(etl_path=...): the registry and the job table, then the  *)
(* files, one at a time.                                                    *)

PollMemory(c) ==
  LET p == ProcOf[c] IN
  /\ alive[p] /\ cpc[c] = "idle" /\ c \in Poller
  /\ \/ loaded[p] /\ Answered(c, "ready")
     \/ ~loaded[p] /\ current[p] # NoJob /\ Answered(c, status[current[p]])
     \/ /\ ~loaded[p] /\ current[p] = NoJob
        /\ cpc' = [cpc EXCEPT ![c] = "pollFailed"]
        /\ UNCHANGED <<target, sawStale, reply>>
  /\ UNCHANGED <<procVars, jobArgs, jobVars, diskVars>>

\* The query finds nothing here and goes on to the next file.
PollOn(c, from, to) ==
  /\ cpc[c] = from
  /\ cpc' = [cpc EXCEPT ![c] = to]
  /\ UNCHANGED <<target, sawStale, reply>>

PollFailed(c) ==
  /\ alive[ProcOf[c]] /\ cpc[c] = "pollFailed"
  /\ IF failed THEN Answered(c, "failed") ELSE PollOn(c, "pollFailed", "pollMarker")
  /\ UNCHANGED <<procVars, jobArgs, jobVars, diskVars>>

\* Mutant: a stale marker is polled again instead of being reported.
PollMarkerRetrying(c) ==
  /\ alive[ProcOf[c]] /\ cpc[c] = "pollMarker"
  /\ IF marker # NoMarker
     THEN IF MarkerIsFresh THEN Answered(c, "extracting")
                           ELSE PollOn(c, "pollMarker", "pollFailed")
     ELSE PollOn(c, "pollMarker", "pollCache")
  /\ UNCHANGED <<procVars, jobArgs, jobVars, diskVars>>

PollMarker(c) ==
  /\ alive[ProcOf[c]] /\ cpc[c] = "pollMarker"
  /\ IF marker # NoMarker
     THEN Answered(c, IF MarkerIsFresh THEN "extracting" ELSE "failed")
     ELSE PollOn(c, "pollMarker", "pollCache")
  /\ UNCHANGED <<procVars, jobArgs, jobVars, diskVars>>

PollCache(c) ==
  /\ alive[ProcOf[c]] /\ cpc[c] = "pollCache"
  /\ Answered(c, IF cacheDir = "complete" THEN "ready" ELSE "not_found")
  /\ UNCHANGED <<procVars, jobArgs, jobVars, diskVars>>

\* unload_trace
Unload(c) ==
  LET p == ProcOf[c] IN
  /\ alive[p] /\ cpc[c] = "idle" /\ loaded[p]
  /\ loaded' = [loaded EXCEPT ![p] = FALSE]
  /\ UNCHANGED <<alive, current, calls, jobArgs, jobVars, diskVars, callVars>>

-----------------------------------------------------------------------------
(* The loader thread: LoadJob._run, _loader, _load_trace_blocking *)

RunsOn(j) == alive[owner[j]]
OnlyPc == UNCHANGED <<procVars, jobArgs, status, done, stop, hb, callVars>>

\* Mutant: the first progress write is outside the try of _run.
BeginUnguarded(j) ==
  /\ RunsOn(j)
  /\ hb' = [hb EXCEPT ![j] = "sleep"]
  /\ \/ /\ Goto(j, "begin", IF reclaim[j] THEN "reclaim" ELSE "force")
        /\ WriteMarker(j)
     \/ DiskFaults /\ Goto(j, "begin", "exit") /\ UNCHANGED diskVars
  /\ UNCHANGED <<procVars, jobArgs, status, done, stop, callVars>>

\* _run starts the heartbeat and records the first progress; a write that
\* fails here is an exception of the job.
Begin(j) ==
  /\ RunsOn(j)
  /\ hb' = [hb EXCEPT ![j] = "sleep"]
  /\ \/ /\ Goto(j, "begin", IF reclaim[j] THEN "reclaim" ELSE "force")
        /\ WriteMarker(j)
     \/ /\ DiskFaults
        /\ Goto(j, "begin", "exc")
        /\ UNCHANGED diskVars
  /\ UNCHANGED <<procVars, jobArgs, status, done, stop, callVars>>

\* reclaim_cache_dir: rmtree(ignore_errors=True) of the whole directory.
Reclaim(j) ==
  /\ RunsOn(j)
  /\ Goto(j, "reclaim", "reclaimed")
  /\ marker' = NoMarker /\ failed' = FALSE /\ cacheDir' = "absent"
  /\ OnlyPc

\* The reclaiming-stale-cache progress event puts the marker back.
AfterReclaim(j) ==
  /\ RunsOn(j)
  /\ \/ Goto(j, "reclaimed", "force") /\ WriteMarker(j)
     \/ DiskFaults /\ Goto(j, "reclaimed", "exc") /\ UNCHANGED diskVars
  /\ OnlyPc

\* if force and export_dir.exists(): shutil.rmtree(export_dir)
ForceClear(j) ==
  /\ RunsOn(j)
  /\ IF force[j] /\ cacheDir # "absent"
     THEN Goto(j, "force", "forceRmdir") /\ EmptyCacheDir
     ELSE Goto(j, "force", "probe") /\ UNCHANGED diskVars
  /\ OnlyPc

\* A directory that is not empty any more, or gone, raises out of the loader.
ForceRmdir(j) ==
  /\ RunsOn(j)
  /\ IF CacheDirIsEmpty
     THEN /\ Goto(j, "forceRmdir", "probe")
          /\ cacheDir' = "absent"
          /\ UNCHANGED <<marker, failed>>
     ELSE Goto(j, "forceRmdir", "exc") /\ UNCHANGED diskVars
  /\ OnlyPc

\* register_trace, and the successful summary the loader returns.
Register(j, from) ==
  /\ Goto(j, from, "loaded")
  /\ loaded' = [loaded EXCEPT ![owner[j]] = TRUE]
  /\ UNCHANGED <<alive, current, calls, jobArgs, status, done, stop, hb, callVars>>

\* _load_from_cache: a finalized cache is registered without an extraction.
Probe(j) ==
  /\ RunsOn(j)
  /\ IF cacheDir = "complete"
     THEN Register(j, "probe")
     ELSE Goto(j, "probe", "extract") /\ OnlyPc
  /\ UNCHANGED diskVars

\* A progress line of the worker; _handle_stdout_line swallows its failures.
Progress(j) ==
  /\ RunsOn(j) /\ pc[j] = "extract" /\ kind[j] = "async"
  /\ WriteMarker(j)
  /\ UNCHANGED pc /\ OnlyPc

\* The worker succeeds, its staging cache validates, and the finalizing
\* progress event is written just before the promotion.
ExtractOk(j) ==
  /\ RunsOn(j)
  /\ Goto(j, "extract", "clear")
  /\ IF kind[j] = "async" THEN WriteMarker(j) ELSE UNCHANGED diskVars
  /\ OnlyPc

\* Any failure of run_*_worker_extraction under a forced mode.
ExtractFails(j) ==
  /\ WorkerFaults /\ RunsOn(j)
  /\ Goto(j, "extract", "fail")
  /\ UNCHANGED diskVars /\ OnlyPc

\* _promote_staging_cache: if export_dir.exists(): _rmtree_with_retry
PromoteClear(j) ==
  /\ RunsOn(j)
  /\ IF cacheDir = "absent"
     THEN Goto(j, "clear", "rename") /\ UNCHANGED diskVars
     ELSE Goto(j, "clear", "rmdir") /\ EmptyCacheDir
  /\ OnlyPc

PromoteRmdir(j) ==
  /\ RunsOn(j)
  /\ IF CacheDirIsEmpty
     THEN /\ Goto(j, "rmdir", "rename")
          /\ cacheDir' = "absent"
          /\ UNCHANGED <<marker, failed>>
     ELSE Goto(j, "rmdir", "fail") /\ UNCHANGED diskVars
  /\ OnlyPc

\* staging_dir.rename(export_dir): an existing target is an error that is not
\* a PermissionError, so it is not retried.
PromoteRename(j) ==
  /\ RunsOn(j)
  /\ IF cacheDir = "absent"
     THEN /\ Goto(j, "rename", "promoted")
          /\ cacheDir' = "complete"
          /\ UNCHANGED <<marker, failed>>
     ELSE Goto(j, "rename", "fail") /\ UNCHANGED diskVars
  /\ OnlyPc

\* _load_from_cache of what was promoted; a cache that cannot be loaded is
\* removed and reported as a failure.
LoadPromoted(j) ==
  /\ RunsOn(j)
  /\ IF cacheDir = "complete"
     THEN Register(j, "promoted") /\ UNCHANGED diskVars
     ELSE /\ Goto(j, "promoted", "fail")
          /\ marker' = NoMarker /\ failed' = FALSE /\ cacheDir' = "absent"
          /\ OnlyPc

-----------------------------------------------------------------------------
(* The end of _run.  job._lock is held from the settling step until the     *)
(* loader reaches "exit"; the heartbeat needs it to write.                  *)

Settle(j, s) ==
  /\ RunsOn(j) /\ kind[j] = "async"
  /\ stop' = [stop EXCEPT ![j] = TRUE]
  /\ status' = [status EXCEPT ![j] = s]
  /\ UNCHANGED <<procVars, jobArgs, done, hb, callVars>>

\* Both files are unlinked in one try: a failure leaves the rest in place.
SettleReady(j) ==
  /\ Settle(j, "ready")
  /\ \/ Goto(j, "loaded", "unlinkFailed") /\ marker' = NoMarker
     \/ DiskFaults /\ Goto(j, "loaded", "exit") /\ UNCHANGED marker
  /\ UNCHANGED <<failed, cacheDir>>

UnlinkFailed(j) ==
  /\ RunsOn(j)
  /\ Goto(j, "unlinkFailed", "exit")
  /\ failed' = FALSE \/ (DiskFaults /\ UNCHANGED failed)
  /\ UNCHANGED <<marker, cacheDir>> /\ OnlyPc

\* The loader returned something else than a summary: failed.json first.  If
\* writing it raises, the except clause of _run tries once more.
SettleFailed(j) ==
  /\ Settle(j, "failed")
  /\ \/ /\ pc[j] \in {"fail", "exc"}
        /\ pc' = [pc EXCEPT ![j] = "unlinkMarker"]
        /\ failed' = TRUE
        /\ cacheDir' = IF cacheDir = "absent" THEN "present" ELSE cacheDir
        /\ UNCHANGED marker
     \/ /\ DiskFaults
        /\ \/ Goto(j, "fail", "exc")
           \/ Goto(j, "exc", "exit")
        /\ UNCHANGED diskVars

\* Mutant: the failure path cleans up both files, as the success path does.
UnlinkBoth(j) ==
  /\ RunsOn(j)
  /\ Goto(j, "unlinkMarker", "exit")
  /\ marker' = NoMarker /\ failed' = FALSE
  /\ UNCHANGED cacheDir /\ OnlyPc

UnlinkMarker(j) ==
  /\ RunsOn(j)
  /\ Goto(j, "unlinkMarker", "exit")
  /\ marker' = NoMarker \/ (DiskFaults /\ UNCHANGED marker)
  /\ UNCHANGED <<failed, cacheDir>> /\ OnlyPc

\* Mutant: _done is set on success only, not in a finally.
ExitOnSuccess(j) ==
  /\ RunsOn(j)
  /\ Goto(j, "exit", "ended")
  /\ done' = [done EXCEPT ![j] = status[j] = "ready"]
  /\ stop' = [stop EXCEPT ![j] = TRUE]
  /\ UNCHANGED <<procVars, jobArgs, status, hb, diskVars, callVars>>

\* finally: self._stop_heartbeat.set(); self._done.set()
Exit(j) ==
  /\ RunsOn(j)
  /\ Goto(j, "exit", "ended")
  /\ done' = [done EXCEPT ![j] = TRUE]
  /\ stop' = [stop EXCEPT ![j] = TRUE]
  /\ UNCHANGED <<procVars, jobArgs, status, hb, diskVars, callVars>>

-----------------------------------------------------------------------------
(* LoadJob._heartbeat_loop *)

\* job._lock is held by the loader thread.
LockHeld(j) == pc[j] \in {"unlinkFailed", "unlinkMarker"}

\* Mutant: the heartbeat loop does not look at _stop_heartbeat.
HeartbeatNeverStops(j) ==
  /\ RunsOn(j) /\ hb[j] = "sleep"
  /\ hb' = [hb EXCEPT ![j] = "beat"]
  /\ UNCHANGED <<procVars, jobArgs, pc, status, done, stop, diskVars, callVars>>

\* _stop_heartbeat.wait(interval) times out: a beat is due.
HeartbeatWakes(j) ==
  /\ RunsOn(j) /\ hb[j] = "sleep" /\ ~stop[j]
  /\ hb' = [hb EXCEPT ![j] = "beat"]
  /\ UNCHANGED <<procVars, jobArgs, pc, status, done, stop, diskVars, callVars>>

\* The beat takes the lock and writes the marker; failures are swallowed.
HeartbeatWrites(j) ==
  /\ RunsOn(j) /\ hb[j] = "beat" /\ ~LockHeld(j)
  /\ hb' = [hb EXCEPT ![j] = "sleep"]
  /\ WriteMarker(j) \/ (DiskFaults /\ UNCHANGED diskVars)
  /\ UNCHANGED <<procVars, jobArgs, pc, status, done, stop, callVars>>

HeartbeatEnds(j) ==
  /\ RunsOn(j) /\ hb[j] = "sleep" /\ stop[j]
  /\ hb' = [hb EXCEPT ![j] = "ended"]
  /\ UNCHANGED <<procVars, jobArgs, pc, status, done, stop, diskVars, callVars>>

-----------------------------------------------------------------------------
(* The environment *)

\* A thread of the marker's writer is due to refresh it.
Beating(j) == alive[owner[j]] /\ (pc[j] = "begin" \/ hb[j] \in {"sleep", "beat"})

\* ETW_MCP_LOAD_STALE_SECONDS pass without a heartbeat.
Expire ==
  /\ marker # NoMarker /\ marker.fresh
  /\ Timely => ~Beating(marker.job)
  /\ marker' = [marker EXCEPT !.fresh = FALSE]
  /\ UNCHANGED <<procVars, jobArgs, jobVars, failed, cacheDir, callVars>>

\* The process dies, and with it every daemon thread it runs.
Crash(p) ==
  /\ Crashes /\ alive[p]
  /\ alive' = [alive EXCEPT ![p] = FALSE]
  /\ loaded' = [loaded EXCEPT ![p] = FALSE]
  /\ UNCHANGED <<current, calls, jobArgs, jobVars, diskVars, callVars>>

\* Nothing left to do: every call has been made and answered, every thread
\* has ended.
Quiescent ==
  /\ \A c \in Caller : ~alive[ProcOf[c]] \/ (cpc[c] = "idle" /\ calls = MaxCalls)
  /\ \A j \in Job : ~alive[owner[j]] \/ ( /\ pc[j] \in {"free", "unstarted", "ended"}
                                          /\ hb[j] \in {"off", "ended"} )
  /\ UNCHANGED vars

LoaderStep(j) ==
  \/ Begin(j) \/ Reclaim(j) \/ AfterReclaim(j) \/ ForceClear(j) \/ ForceRmdir(j)
  \/ Probe(j) \/ ExtractOk(j) \/ ExtractFails(j)
  \/ PromoteClear(j) \/ PromoteRmdir(j) \/ PromoteRename(j) \/ LoadPromoted(j)
  \/ SettleReady(j) \/ UnlinkFailed(j) \/ SettleFailed(j) \/ UnlinkMarker(j)
  \/ Exit(j)

HeartbeatStep(j) == HeartbeatWrites(j) \/ HeartbeatEnds(j)

LoadCallStep(c) ==
  \/ ReadMarker(c) \/ JoinJob(c) \/ StartJob(c) \/ StartJobRaises(c)
  \/ WaitDone(c) \/ WaitTimeout(c) \/ BlockingReturn(c)

PollStep(c) == PollFailed(c) \/ PollMarker(c) \/ PollCache(c)

Next ==
  \/ \E c \in Caller : \/ CallLoad(c) \/ CallBlockingLoad(c) \/ LoadCallStep(c)
                       \/ PollMemory(c) \/ PollStep(c) \/ Unload(c)
  \/ \E j \in Job : LoaderStep(j) \/ Progress(j) \/ HeartbeatWakes(j) \/ HeartbeatStep(j)
  \/ \E p \in Proc : Crash(p)
  \/ Expire
  \/ Quiescent

Spec == Init /\ [][Next]_vars

\* Threads of a live process keep running, a call that has begun goes on, and
\* time passes.  Users owe nothing; a heartbeat may always be early or late.
Fairness ==
  /\ \A j \in Job : WF_vars(LoaderStep(j)) /\ WF_vars(HeartbeatStep(j))
  /\ \A c \in Caller : WF_vars(LoadCallStep(c)) /\ WF_vars(PollStep(c))
  /\ WF_vars(Expire)

FairSpec == Spec /\ Fairness
-----------------------------------------------------------------------------
(* Properties *)

TypeOK ==
  /\ alive \in [Proc -> BOOLEAN]
  /\ loaded \in [Proc -> BOOLEAN]
  /\ current \in [Proc -> Job \cup {NoJob}]
  /\ calls \in 0 .. MaxCalls
  /\ owner \in [Job -> Proc]
  /\ kind \in [Job -> {"async", "blocking"}]
  /\ reclaim \in [Job -> BOOLEAN]
  /\ force \in [Job -> BOOLEAN]
  /\ pc \in [Job -> Phase]
  /\ status \in [Job -> Status]
  /\ done \in [Job -> BOOLEAN]
  /\ stop \in [Job -> BOOLEAN]
  /\ hb \in [Job -> {"off", "sleep", "beat", "ended"}]
  /\ marker \in Marker \cup {NoMarker}
  /\ failed \in BOOLEAN
  /\ cacheDir \in {"absent", "present", "complete"}
  /\ cpc \in [Caller -> {"idle", "readMarker", "start", "waiting", "blocked",
                          "pollFailed", "pollMarker", "pollCache"}]
  /\ target \in [Caller -> Job \cup {NoJob}]
  /\ sawStale \in [Caller -> BOOLEAN]
  /\ reply \in [Caller -> Answer]

\* A job whose thread has been started and has not come to its end.
Threaded(j) == pc[j] \in Extracting \cup Settling /\ kind[j] = "async"

\* Within one process no two background loaders of this trace exist at once,
\* whatever calls raced through active_job, the marker and start_job, and
\* however a finishing job overlaps a new call: the table entry is replaced
\* only after _done is set, at the very end of _run.
OneLoadPerServer ==
  \A i, j \in Job : Threaded(i) /\ Threaded(j) /\ owner[i] = owner[j] => i = j

\* What makes it so.  A ticket in use was taken and belongs to its caller's
\* process; tickets not taken yet name no job; the job of a running loader is
\* the one in its process's table and not done; settled phases are settled.
TicketsTaken ==
  /\ \A c \in Caller : cpc[c] \in {"readMarker", "start"}
       => target[c] \in 1 .. calls /\ owner[target[c]] = ProcOf[c]
  /\ \A c \in Caller : cpc[c] = "waiting" => target[c] \in Job
  /\ \A j \in Job : j > calls => pc[j] = "free"

LoaderInTable ==
  \A j \in Job : Threaded(j) => current[owner[j]] = j /\ ~done[j]

SettledBeforeDone ==
  \A j \in Job : /\ pc[j] = "free" => ~done[j]
                 /\ done[j] \/ pc[j] \in {"unlinkFailed", "unlinkMarker", "exit"}
                      => status[j] # "extracting"

IInv == TypeOK /\ TicketsTaken /\ LoaderInTable /\ SettledBeforeDone

\* A caller released by job.wait never reads an unsettled job: _done comes
\* after status and result on every path through _run, those on which writing
\* failed.json raises included.
DoneIsSettled ==
  \A j \in Job : done[j] => status[j] # "extracting"

\* If files can be written, a marker that says "extracting" and belongs to a
\* live process is backed by a job that has not finished: what a late beat
\* leaves behind after the job ended says "ready" or "failed".
SettledMarkerIsLabelled ==
  marker # NoMarker /\ marker.status = "extracting" /\ alive[owner[marker.job]]
    => pc[marker.job] \notin {"exit", "ended"}

\* When every background load that ran has ended and none succeeded, the last
\* failure can still be read from disk by any process.
FailureIsRecorded ==
  (\A j \in Job : /\ kind[j] = "async"
                  /\ pc[j] \in {"free", "ended"}
                  /\ status[j] # "ready")
    => ((\E j \in Job : pc[j] = "ended") => failed)

\* What the two marker files say of jobs that have ended is so, whatever beats,
\* crashes and loads of other servers went over them.
EndedJobsAreTold == SettledMarkerIsLabelled /\ FailureIsRecorded

\* What makes it so when files can be written.  Only background jobs write the
\* marker, a status is settled where the loader thread settles it, and a marker
\* of an unsettled job is not left behind.
OnlyJobsWrite ==
  /\ \A j \in Job : hb[j] \in {"sleep", "beat"} \/ pc[j] \in {"begin", "reclaim", "reclaimed"}
       => kind[j] = "async" /\ pc[j] # "free"
  /\ \A c \in Caller : /\ cpc[c] \in {"readMarker", "start"} => kind[target[c]] = "async"
                       /\ cpc[c] = "blocked" => target[c] \in 1 .. calls /\ kind[target[c]] = "blocking"
  /\ \A j \in Job : j > calls => kind[j] = "async"
  /\ marker # NoMarker => kind[marker.job] = "async" /\ pc[marker.job] # "free"

StatusOfPhase ==
  \A j \in Job : /\ status[j] = "ready" => pc[j] \in {"unlinkFailed", "exit", "ended"}
                 /\ pc[j] = "unlinkFailed" => status[j] = "ready"
                 /\ pc[j] \in {"unlinkMarker", "exit", "ended"} /\ kind[j] = "async"
                      => status[j] # "extracting"

NoStaleMarker ==
  marker # NoMarker /\ marker.status = "extracting"
    => pc[marker.job] \notin {"unlinkFailed", "exit", "ended"}

\* A failure is on disk until another load removes it, which then has an end of
\* its own to report.
FailureHandedOn ==
  (\A j \in Job : kind[j] = "async" /\ status[j] # "ready")
    => ((\E j \in Job : pc[j] \in {"unlinkMarker", "exit", "ended"})
          => failed \/ \E j \in Job : pc[j] \in Extracting \cup {"loaded", "fail", "exc"})

ToldInv == OnlyJobsWrite /\ StatusOfPhase /\ NoStaleMarker /\ FailureHandedOn

\* A load_trace or get_load_status call always returns while its server lives.
CallsAnswered ==
  \A c \in Caller : cpc[c] # "idle" ~> (cpc[c] = "idle" \/ ~alive[ProcOf[c]])

\* A job in the table finishes, unless its server dies first.
JobsSettle ==
  \A p \in Proc, j \in Job :
    current[p] = j ~> (done[j] \/ ~alive[p])

\* Once nothing is loading any more, the marker cannot stay fresh: whatever a
\* crash, a lost unlink or a late beat leaves behind stops blocking loads.
MarkerReleased == <>[](~MarkerIsFresh)
=============================================================================
