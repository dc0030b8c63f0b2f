--------------------------- MODULE WorkerSupervisor ---------------------------
(***************************************************************************)
(* One extraction in a supervised child process (worker_supervisor.py):    *)
(* run_native_worker_extraction with run_worker_process, or                *)
(* run_dotnet_worker_extraction with run_dotnet_process.  The child        *)
(* (worker.py or the sidecar's Program.cs) fills a staging directory and   *)
(* writes lines to a pipe; a reader thread moves them to a queue; the      *)
(* supervisor drains the queue, watches the clock and the exit code,       *)
(* decides a verdict, validates what was staged, and promotes it.          *)
(*                                                                         *)
(* Lines of one kind are interchangeable: a child writes at most one       *)
(* result line, and of the others only the fact that they came counts.     *)
(***************************************************************************)
EXTENDS Integers

CONSTANTS
  RemoveTries,  \* _PROMOTE_RMTREE_RETRIES
  RenameTries,  \* _PROMOTE_RENAME_RETRIES
  MaxEdits      \* bound: how often the trace file is replaced meanwhile

ASSUME TriesAssumption ==
  /\ RemoveTries \in Nat \ {0}
  /\ RenameTries \in Nat \ {0}
  /\ MaxEdits \in Nat

VARIABLES
  worker,    \* which of the two extractions this is
  sup,       \* where the supervisor stands
  failure,   \* failure_kind decided while the child ran, or "none"
  payload,   \* result_payload: the ok of the result line that was drained
  late,      \* has the wall-clock limit passed?
  silent,    \* has no line been drained for stale_heartbeat_seconds?
  tries,     \* failed attempts of the current promotion step
  verdict,   \* "none", "ok" or the failure_kind of the NativeWorkerResult
  isolated,  \* is the child in a job object that dies with the server?
  child,     \* what the child does
  rc,        \* its exit code
  pipe,      \* kinds of lines it wrote and nobody read
  queue,     \* kinds of lines read and not drained
  reader,    \* the stdout reader thread
  staging,   \* what the staging directory holds
  export,    \* what the export directory holds
  etl,       \* version of the trace file
  decoded,   \* version the staged events were decoded from
  stamped    \* version the staged manifest names

supVars == <<sup, failure, payload, late, silent, tries, verdict, isolated>>
childVars == <<child, rc>>
lineVars == <<pipe, queue, reader>>
dirVars == <<staging, export>>
etlVars == <<etl, decoded, stamped>>
vars == <<worker, supVars, childVars, lineVars, dirVars, etlVars>>

-----------------------------------------------------------------------------
Line == {"beat", "ok", "fail"}

FailureKind ==
  {"launch", "isolation", "timeout", "stale-heartbeat", "worker-error", "crash",
   "no-result", "invalid-cache", "aggregation", "promotion", "supervisor"}

\* "stuck" is a child that outlived terminate and kill.
Alive == child \in {"decoding", "writing", "done", "failed", "frozen"}

\* The native worker's heartbeat thread runs to its end, the sidecar's only
\* around source.Process().
Beating ==
  \/ child = "decoding"
  \/ worker = "native" /\ child \in {"writing", "done", "failed"}

Init ==
  /\ worker \in {"native", "dotnet"}
  /\ sup = "prepare" /\ failure = "none" /\ payload = "none"
  /\ late = FALSE /\ silent = FALSE /\ tries = 0
  /\ verdict = "none" /\ isolated = FALSE
  /\ child = "none" /\ rc = "none"
  /\ pipe = {} /\ queue = {} /\ reader = "off"
  /\ staging = "absent" /\ export \in {"absent", "present", "old"}
  /\ etl = 0 /\ decoded = 0 /\ stamped = 0

-----------------------------------------------------------------------------
(* The supervisor *)

\* A NativeWorkerResult with ok=False: the native worker's staging directory
\* is removed, the sidecar's is left for inspection.
Fail(kind) ==
  /\ verdict' = kind
  /\ sup' = IF worker = "native" THEN "cleanup" ELSE "returned"

\* Mutant: the export directory is emptied before the child starts.
PrepareClearing ==
  /\ sup = "prepare"
  /\ sup' = "launch" /\ staging' = "request" /\ export' = "absent"
  /\ UNCHANGED <<worker, failure, payload, late, silent, tries, verdict, isolated>>
  /\ UNCHANGED <<childVars, lineVars, etlVars>>

\* The staging directory and request.json are made.
Prepare ==
  /\ sup = "prepare"
  /\ \/ sup' = "launch" /\ staging' = "request" /\ UNCHANGED verdict
     \/ Fail("supervisor") /\ staging' \in {"absent", "request"}
  /\ UNCHANGED <<worker, failure, payload, late, silent, tries, isolated, export>>
  /\ UNCHANGED <<childVars, lineVars, etlVars>>

\* Popen.  The native worker is then put into a job object.
Launch ==
  /\ sup = "launch"
  /\ \/ /\ child' = "decoding"
        /\ IF worker = "native" THEN sup' = "isolate" /\ reader' = "off"
                                ELSE sup' = "drain" /\ reader' = "reading"
        /\ UNCHANGED verdict
     \/ Fail("launch") /\ UNCHANGED <<child, reader>>
  /\ UNCHANGED <<worker, failure, payload, late, silent, tries, isolated>>
  /\ UNCHANGED <<rc, pipe, queue, dirVars, etlVars>>

\* _assign_windows_job, or no job object at all (other hosts, or disabled).
Isolate ==
  /\ sup = "isolate"
  /\ \/ sup' = "drain" /\ reader' = "reading" /\ isolated' \in BOOLEAN /\ UNCHANGED failure
     \/ sup' = "terminate" /\ failure' = "isolation" /\ UNCHANGED <<reader, isolated>>
  /\ UNCHANGED <<worker, payload, late, silent, tries, verdict>>
  /\ UNCHANGED <<childVars, pipe, queue, dirVars, etlVars>>

\* result_payload after the queue was emptied.
Drained == IF queue \cap {"ok", "fail"} = {} THEN payload
           ELSE IF "ok" \in queue THEN "ok" ELSE "fail"

\* The inner loop of the watch: every line counts as a sign of life.
Drain ==
  /\ sup = "drain"
  /\ payload' = Drained
  /\ silent' = (silent /\ queue = {})
  /\ queue' = {}
  /\ sup' = "poll"
  /\ UNCHANGED <<worker, failure, late, tries, verdict, isolated>>
  /\ UNCHANGED <<childVars, pipe, reader, dirVars, etlVars>>

\* Mutant: no time-out ends the watch.
PollForever ==
  /\ sup = "poll"
  /\ sup' = IF ~Alive THEN "join" ELSE "drain"
  /\ UNCHANGED failure
  /\ UNCHANGED <<worker, payload, late, silent, tries, verdict, isolated>>
  /\ UNCHANGED <<childVars, lineVars, dirVars, etlVars>>

\* proc.poll(), then the clock: exit before time-out before silence.
Poll ==
  /\ sup = "poll"
  /\ \/ ~Alive /\ sup' = "join" /\ UNCHANGED failure
     \/ Alive /\ late /\ sup' = "terminate" /\ failure' = "timeout"
     \/ Alive /\ ~late /\ silent /\ sup' = "terminate" /\ failure' = "stale-heartbeat"
     \/ Alive /\ ~late /\ ~silent /\ sup' = "drain" /\ UNCHANGED failure
  /\ UNCHANGED <<worker, payload, late, silent, tries, verdict, isolated>>
  /\ UNCHANGED <<childVars, lineVars, dirVars, etlVars>>

\* Mutant: a child that ignores terminate is not killed.
TerminateGently ==
  /\ sup = "terminate"
  /\ UNCHANGED childVars
  /\ IF failure = "isolation" THEN Fail("isolation") ELSE sup' = "join" /\ UNCHANGED verdict
  /\ UNCHANGED <<worker, failure, payload, late, silent, tries, isolated>>
  /\ UNCHANGED <<lineVars, dirVars, etlVars>>

\* _terminate_process: terminate, wait, kill, wait, and give up.  It does
\* nothing to a child that has exited meanwhile.
Terminate ==
  /\ sup = "terminate"
  /\ \/ Alive /\ child' = "dead" /\ rc' = "nonzero"
     \/ Alive /\ child' = "stuck" /\ UNCHANGED rc
     \/ ~Alive /\ UNCHANGED childVars
  /\ IF failure = "isolation" THEN Fail("isolation") ELSE sup' = "join" /\ UNCHANGED verdict
  /\ UNCHANGED <<worker, failure, payload, late, silent, tries, isolated>>
  /\ UNCHANGED <<lineVars, dirVars, etlVars>>

\* stdout_thread.join(timeout=1.0): the reader has ended, or is given up.
Join ==
  /\ sup = "join"
  /\ sup' = "verdict"
  /\ UNCHANGED <<worker, failure, payload, late, silent, tries, verdict, isolated>>
  /\ UNCHANGED <<childVars, lineVars, dirVars, etlVars>>

\* The verdict from time-out, result line and exit code, in this order.  The
\* sidecar's exit code does not count.
Decision(result) ==
  IF failure # "none" THEN failure
  ELSE IF result = "ok" /\ (worker = "dotnet" \/ rc = "zero") THEN "ok"
  ELSE IF result = "fail" THEN "worker-error"
  ELSE IF worker = "native" THEN "crash" ELSE "no-result"

\* Mutant: what the reader queued since the last round is not looked at.
DecideUndrained ==
  /\ sup = "verdict"
  /\ payload' = payload /\ queue' = {}
  /\ IF Decision(payload) = "ok" THEN sup' = "validate" /\ UNCHANGED verdict
                                 ELSE Fail(Decision(payload))
  /\ UNCHANGED <<worker, failure, late, silent, tries, isolated>>
  /\ UNCHANGED <<childVars, pipe, reader, dirVars, etlVars>>

\* The last drain, the verdict on the process, and the end of a failed run.
Decide ==
  /\ sup = "verdict"
  /\ payload' = Drained /\ queue' = {}
  /\ IF Decision(Drained) = "ok" THEN sup' = "validate" /\ UNCHANGED verdict
                                 ELSE Fail(Decision(Drained))
  /\ UNCHANGED <<worker, failure, late, silent, tries, isolated>>
  /\ UNCHANGED <<childVars, pipe, reader, dirVars, etlVars>>

\* validate_manifest: what is staged has a manifest that is complete, or from
\* the sidecar not yet complete, and names the trace file as it is now.
Valid ==
  /\ staging = "complete" \/ (worker = "dotnet" /\ staging = "raw")
  /\ stamped = etl

Validate ==
  /\ sup = "validate"
  /\ IF ~Valid THEN Fail("invalid-cache")
     ELSE /\ sup' = IF worker = "native" THEN "finalize" ELSE "aggregate"
          /\ UNCHANGED verdict
  /\ UNCHANGED <<worker, failure, payload, late, silent, tries, isolated>>
  /\ UNCHANGED <<childVars, lineVars, dirVars, etlVars>>

\* Mutant: an aggregation that failed does not end the run.
AggregateBestEffort ==
  /\ sup = "aggregate"
  /\ sup' = "finalize" /\ staging' \in {"raw", "complete"} /\ stamped' = etl
  /\ UNCHANGED <<worker, failure, payload, late, silent, tries, verdict, isolated>>
  /\ UNCHANGED <<childVars, lineVars, export, etl, decoded>>

\* The progress callback, then run_aggregation_worker, which writes the final
\* manifest with the identity the trace file has at that moment.
Aggregate ==
  /\ sup = "aggregate"
  /\ \/ /\ sup' = "finalize" /\ staging' = "complete" /\ stamped' = etl
        /\ UNCHANGED verdict
     \/ \E kind \in {"supervisor", "aggregation"} :
          Fail(kind) /\ UNCHANGED <<staging, stamped>>
  /\ UNCHANGED <<worker, failure, payload, late, silent, tries, isolated>>
  /\ UNCHANGED <<childVars, lineVars, export, etl, decoded>>

\* The "finalizing" progress callback, which may raise.
Finalize ==
  /\ sup = "finalize"
  /\ \/ sup' = "clear" /\ tries' = 0 /\ UNCHANGED verdict
     \/ Fail("promotion") /\ UNCHANGED tries
  /\ UNCHANGED <<worker, failure, payload, late, silent, isolated>>
  /\ UNCHANGED <<childVars, lineVars, dirVars, etlVars>>

\* _rmtree_with_retry: success, a PermissionError to be retried while attempts
\* are left, or another error.  A failed attempt may have removed files.
Clear ==
  /\ sup = "clear"
  /\ \/ /\ sup' = "rename" /\ tries' = 0
        /\ export' = "absent"
        /\ UNCHANGED verdict
     \/ /\ export # "absent"
        /\ export' \in {export, IF export = "old" THEN "broken" ELSE export}
        /\ \/ tries + 1 < RemoveTries /\ tries' = tries + 1 /\ UNCHANGED <<sup, verdict>>
           \/ Fail("promotion") /\ UNCHANGED tries
  /\ UNCHANGED <<worker, failure, payload, late, silent, isolated, staging>>
  /\ UNCHANGED <<childVars, lineVars, etlVars>>

\* staging_dir.rename(export_dir): a PermissionError is retried, an export
\* directory that came back is an error at once.
Rename ==
  /\ sup = "rename"
  /\ \/ /\ export = "absent" /\ export' = "new" /\ staging' = "absent"
        /\ verdict' = "ok" /\ sup' = "returned" /\ UNCHANGED tries
     \/ /\ tries + 1 < RenameTries /\ tries' = tries + 1
        /\ UNCHANGED <<dirVars, sup, verdict>>
     \/ /\ export # "absent" \/ tries + 1 >= RenameTries
        /\ Fail("promotion") /\ UNCHANGED <<dirVars, tries>>
  /\ UNCHANGED <<worker, failure, payload, late, silent, isolated>>
  /\ UNCHANGED <<childVars, lineVars, etlVars>>

\* _remove_dir: files a surviving child has open make it fail, silently.
Cleanup ==
  /\ sup = "cleanup"
  /\ sup' = "returned"
  /\ \/ staging' = "absent"
     \/ child = "stuck" /\ UNCHANGED staging
  /\ UNCHANGED <<worker, failure, payload, late, silent, tries, verdict, isolated>>
  /\ UNCHANGED <<childVars, lineVars, export, etlVars>>

Ended == sup \in {"returned", "dead"}

\* The server dies: the kernel closes the job object.
Die ==
  /\ ~Ended
  /\ sup' = "dead"
  /\ IF isolated /\ Alive THEN child' = "dead" /\ rc' = "nonzero" ELSE UNCHANGED childVars
  /\ UNCHANGED <<worker, failure, payload, late, silent, tries, verdict, isolated>>
  /\ UNCHANGED <<lineVars, dirVars, etlVars>>

-----------------------------------------------------------------------------
(* The reader thread *)

ReadLine ==
  /\ reader = "reading" /\ sup # "dead"
  /\ \E line \in pipe : pipe' = pipe \ {line} /\ queue' = queue \cup {line}
  /\ UNCHANGED <<worker, supVars, childVars, reader, dirVars, etlVars>>

\* End of file: the child's end of the pipe is closed.
EndOfFile ==
  /\ reader = "reading" /\ sup # "dead" /\ pipe = {} /\ child = "dead"
  /\ reader' = "ended"
  /\ UNCHANGED <<worker, supVars, childVars, pipe, queue, dirVars, etlVars>>

-----------------------------------------------------------------------------
(* The child *)

\* Heartbeat and progress lines.
Beat ==
  /\ Beating
  /\ pipe' = pipe \cup {"beat"}
  /\ UNCHANGED <<worker, supVars, childVars, queue, reader, dirVars, etlVars>>

\* source.Process() or ProcessTrace has returned.  Until then the trace file is
\* open, and is not replaced.
FinishDecoding ==
  /\ child = "decoding"
  /\ child' = "writing" /\ staging' = "partial" /\ decoded' = etl
  /\ UNCHANGED <<worker, supVars, rc, lineVars, export, etl, stamped>>

\* The manifest comes last and names the trace file as it is now; only the
\* native worker's is complete.  The result line follows.
FinishWriting ==
  /\ child = "writing"
  /\ child' = "done" /\ stamped' = etl
  /\ staging' = IF worker = "native" THEN "complete" ELSE "raw"
  /\ pipe' = pipe \cup {"ok"}
  /\ UNCHANGED <<worker, supVars, rc, queue, reader, export, etl, decoded>>

\* An exception in the child becomes a result line with ok = false.
ReportFailure ==
  /\ child \in {"decoding", "writing"}
  /\ child' = "failed"
  /\ pipe' = pipe \cup {"fail"}
  /\ UNCHANGED <<worker, supVars, rc, queue, reader, dirVars, etlVars>>

Exit ==
  /\ child \in {"done", "failed"}
  /\ child' = "dead"
  /\ rc' = IF child = "done" THEN "zero" ELSE "nonzero"
  /\ UNCHANGED <<worker, supVars, lineVars, dirVars, etlVars>>

\* The child is killed by the system, or hangs with all its threads.
CrashOrFreeze ==
  /\ Alive
  /\ \/ child' = "dead" /\ rc' = "nonzero"
     \/ child # "frozen" /\ child' = "frozen" /\ UNCHANGED rc
  /\ UNCHANGED <<worker, supVars, lineVars, dirVars, etlVars>>

-----------------------------------------------------------------------------
(* Time, the trace file, and the load job around the extraction *)

Watching == sup \in {"drain", "poll"}

\* timeout_seconds have passed.
TimeUp ==
  /\ Watching /\ ~late
  /\ late' = TRUE
  /\ UNCHANGED <<worker, sup, failure, payload, silent, tries, verdict, isolated>>
  /\ UNCHANGED <<childVars, lineVars, dirVars, etlVars>>

\* stale_heartbeat_seconds have passed without a line.  Beats come every few
\* seconds and are read at once, so a beating child is never this silent.
Silence ==
  /\ Watching /\ ~silent /\ ~Beating /\ pipe = {} /\ queue = {}
  /\ silent' = TRUE
  /\ UNCHANGED <<worker, sup, failure, payload, late, tries, verdict, isolated>>
  /\ UNCHANGED <<childVars, lineVars, dirVars, etlVars>>

\* The trace file is replaced by another one of the same name.
ReplaceTrace ==
  /\ etl < MaxEdits /\ child # "decoding"
  /\ etl' = etl + 1
  /\ UNCHANGED <<worker, supVars, childVars, lineVars, dirVars, decoded, stamped>>

\* The load job's heartbeat makes the export directory again to write
\* extracting.json (load_jobs.py).
WriteMarker ==
  /\ ~Ended /\ export = "absent"
  /\ export' = "present"
  /\ UNCHANGED <<worker, supVars, childVars, lineVars, staging, etlVars>>

-----------------------------------------------------------------------------
SupervisorStep ==
  \/ Prepare \/ Launch \/ Isolate \/ Drain \/ Poll \/ Terminate \/ Join \/ Decide
  \/ Validate \/ Aggregate \/ Finalize \/ Clear \/ Rename \/ Cleanup

ReaderStep == ReadLine \/ EndOfFile

ChildStep ==
  Beat \/ FinishDecoding \/ FinishWriting \/ ReportFailure \/ Exit \/ CrashOrFreeze

Terminated == Ended /\ UNCHANGED vars

Next ==
  \/ SupervisorStep \/ ReaderStep \/ ChildStep \/ Die
  \/ TimeUp \/ Silence \/ ReplaceTrace \/ WriteMarker \/ Terminated

Spec == Init /\ [][Next]_vars

\* The supervisor's thread runs and the wall clock advances.  Nothing is
\* assumed of the child, of the reader or of silence.
FairSpec == Spec /\ WF_vars(SupervisorStep) /\ WF_vars(TimeUp)

-----------------------------------------------------------------------------
(* Properties *)

TypeOK ==
  /\ worker \in {"native", "dotnet"}
  /\ sup \in {"prepare", "launch", "isolate", "drain", "poll", "terminate", "join",
              "verdict", "validate", "aggregate", "finalize", "clear", "rename",
              "cleanup", "returned", "dead"}
  /\ failure \in FailureKind \cup {"none"}
  /\ payload \in {"none", "ok", "fail"}
  /\ late \in BOOLEAN /\ silent \in BOOLEAN /\ isolated \in BOOLEAN
  /\ tries \in Nat
  /\ sup = "clear" => tries < RemoveTries
  /\ sup = "rename" => tries < RenameTries
  /\ verdict \in FailureKind \cup {"none", "ok"}
  /\ child \in {"none", "decoding", "writing", "done", "failed", "frozen", "dead", "stuck"}
  /\ rc \in {"none", "zero", "nonzero"}
  /\ pipe \subseteq Line /\ queue \subseteq Line
  /\ reader \in {"off", "reading", "ended"}
  /\ staging \in {"absent", "request", "partial", "raw", "complete"}
  /\ export \in {"absent", "present", "old", "broken", "new"}
  /\ etl \in 0 .. MaxEdits /\ decoded \in 0 .. MaxEdits /\ stamped \in 0 .. MaxEdits

\* What moves onto the export directory is a finished cache that its child
\* reported as good, and nobody writes into it any more: verdict, validation
\* and aggregation let nothing else pass, whatever raced.  Its manifest names no
\* earlier version of the trace file than the one that was decoded.
OnlyFinishedPromoted ==
  sup \in {"clear", "rename"} =>
    /\ staging = "complete" /\ payload = "ok" /\ child = "dead"
    /\ decoded <= stamped

\* What makes it so.  Until the watch ends, no failure is decided and the child
\* is there; if it ends without one, the child has exited; after validation
\* nobody is left who could change what is staged.
Watched ==
  /\ sup \in {"prepare", "launch", "isolate", "drain", "poll"} => failure = "none"
  /\ sup \in {"isolate", "drain", "poll"} => child \notin {"none", "stuck"}
  /\ sup = "terminate" => failure # "none"
  /\ sup \in {"join", "verdict"} /\ failure = "none" => child = "dead"
  /\ sup \in {"validate", "aggregate", "finalize", "clear", "rename"}
       => payload = "ok" /\ child = "dead"
  /\ sup \in {"finalize", "clear", "rename"} => staging = "complete"

\* A manifest is written after the events were decoded, with the identity the
\* trace file has then.
Dated ==
  /\ decoded <= etl
  /\ staging \in {"raw", "complete"} => decoded <= stamped

\* A verdict ends the run, and the new cache is there only with the verdict "ok".
Settled ==
  /\ verdict # "none" => sup \in {"cleanup", "returned", "dead"}
  /\ verdict = "ok" => sup = "returned"
  /\ export = "new" => verdict = "ok"

IInv == TypeOK /\ Watched /\ Dated /\ Settled

\* Once the watch is over no child runs, and a native run that returns has
\* removed or promoted its staging directory.
Reaped ==
  /\ sup \in {"prepare", "launch"} => child = "none"
  /\ sup \in {"join", "verdict", "validate", "aggregate", "finalize", "clear", "rename",
              "cleanup", "returned"} => ~Alive
  /\ sup = "returned" /\ worker = "native" => staging = "absent" \/ child = "stuck"

\* A result line is written once, at the end, and stays in the pipe, in the
\* queue or in result_payload; the reader ends only after it read everything.
Reported ==
  /\ child \in {"none", "decoding", "writing"} =>
       payload = "none" /\ {"ok", "fail"} \cap (pipe \cup queue) = {}
  /\ child = "done" \/ rc = "zero" =>
       /\ payload # "fail" /\ "fail" \notin pipe \cup queue
       /\ payload = "ok" \/ "ok" \in pipe \cup queue
  /\ reader = "ended" => pipe = {} /\ child = "dead"
  /\ rc = "zero" => child = "dead"
  /\ failure \in {"none", "isolation", "timeout", "stale-heartbeat"}

\* An extraction that has returned leaves no running child behind, and a failed
\* native one no staging directory, unless the child cannot be killed.
NothingLeft ==
  sup = "returned" =>
    /\ ~Alive
    /\ worker = "native" => staging = "absent" \/ child = "stuck"

\* A child that reported success and exited with 0 is not called a crash: the
\* exit that ends the watch may overtake the result line in the queue, and the
\* last drain makes up for it unless the reader could not keep up.
ResultNotLost ==
  [][verdict' \in {"crash", "no-result"} /\ verdict' # verdict /\ rc = "zero"
       => reader # "ended"]_vars

\* The extraction always returns, also when the child hangs, beats for ever,
\* keeps the pipe open or cannot be killed.
Returns == <>Ended

-----------------------------------------------------------------------------
(* The extraction as its caller sees it *)

stageOf ==
  CASE verdict = "ok"                          -> "ok"
    [] verdict \notin {"none", "ok"}           -> "failed"
    [] verdict = "none" /\ sup = "dead"        -> "dead"
    [] verdict = "none" /\ sup \in {"finalize", "clear", "rename"} -> "promoting"
    [] OTHER                                   -> "extracting"

cacheOf == IF export \in {"old", "new"} THEN export ELSE "none"

E == INSTANCE Extraction WITH stage <- stageOf, cache <- cacheOf

\* run_native_worker_extraction and run_dotnet_worker_extraction implement
\* Extraction: a failing run never touches the old cache before a complete,
\* validated one stands ready, and "ok" and the new cache come together.
Implements == E!Spec

===============================================================================
