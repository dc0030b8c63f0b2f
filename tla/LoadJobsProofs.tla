--------------------------- MODULE LoadJobsProofs ---------------------------
(***************************************************************************)
(* Proofs about LoadJobs, for every number of servers, tool calls and      *)
(* tickets, with every kind of fault switched on or off.                   *)
(***************************************************************************)
EXTENDS LoadJobs, TLAPS

USE ConstantsAssumption

\* The loader threads that move from one program point to another one.
LEMMA GotoType ==
  ASSUME TypeOK, NEW j \in Job, NEW from, NEW to \in Phase, Goto(j, from, to)
  PROVE  pc' \in [Job -> Phase]
BY DEF TypeOK, Goto

LEMMA WriteMarkerType ==
  ASSUME TypeOK, NEW j \in Job, WriteMarker(j)
  PROVE  /\ marker' \in Marker \cup {NoMarker}
         /\ cacheDir' \in {"absent", "present", "complete"}
         /\ failed' \in BOOLEAN
BY DEF TypeOK, WriteMarker, Marker

LEMMA AnsweredType ==
  ASSUME TypeOK, NEW c \in Caller, NEW answer \in Answer, Answered(c, answer)
  PROVE  /\ cpc' \in [Caller -> {"idle", "readMarker", "start", "waiting", "blocked",
                                "pollFailed", "pollMarker", "pollCache"}]
         /\ target' \in [Caller -> Job \cup {NoJob}]
         /\ sawStale' \in [Caller -> BOOLEAN]
         /\ reply' \in [Caller -> Answer]
BY DEF TypeOK, Answered

\* Tool calls.
LEMMA CallType ==
  ASSUME TypeOK, TicketsTaken, NEW c \in Caller,
         CallLoad(c) \/ CallBlockingLoad(c) \/ LoadCallStep(c)
           \/ PollMemory(c) \/ PollStep(c) \/ Unload(c)
  PROVE  TypeOK'
<1> USE DEF jobArgs, jobVars, diskVars
<1>1. CASE CallLoad(c)
  <2>1. calls + 1 \in Job /\ ProcOf[c] \in Proc /\ calls' \in 0 .. MaxCalls
    BY <1>1 DEF CallLoad, TypeOK, Job
  <2>2. /\ owner' \in [Job -> Proc]
        /\ kind' \in [Job -> {"async", "blocking"}]
        /\ force' \in [Job -> BOOLEAN]
    BY <1>1, <2>1 DEF CallLoad, TypeOK
  <2>3. /\ target' \in [Caller -> Job \cup {NoJob}]
        /\ cpc' \in [Caller -> {"idle", "readMarker", "start", "waiting", "blocked",
                                "pollFailed", "pollMarker", "pollCache"}]
    <3>1. CASE ActiveJob(ProcOf[c])
      BY <1>1, <2>1, <3>1 DEF CallLoad, TypeOK
    <3>2. CASE ~ActiveJob(ProcOf[c])
      <4>1. /\ cpc' = [cpc EXCEPT ![c] = "readMarker"]
            /\ target' = [target EXCEPT ![c] = calls + 1]
        BY <1>1, <3>2 DEF CallLoad
      <4> QED BY <2>1, <4>1 DEF TypeOK
    <3> QED BY <3>1, <3>2
  <2> QED BY <1>1, <2>1, <2>2, <2>3 DEF CallLoad, TypeOK
<1>2. CASE CallBlockingLoad(c)
  BY <1>2 DEF CallBlockingLoad, TypeOK, Job, NoJob, Goto, Phase, Extracting
<1>3. CASE ReadMarker(c)
  <2>1. CASE Answered(c, "reused")
    BY <1>3, <2>1, AnsweredType DEF ReadMarker, TypeOK, Answer, procVars
  <2>2. CASE ~Answered(c, "reused")
    <3>1. /\ cpc' = [cpc EXCEPT ![c] = "start"]
          /\ sawStale' = [sawStale EXCEPT ![c] = (marker # NoMarker)]
          /\ UNCHANGED <<target, reply>>
          /\ UNCHANGED <<procVars, jobArgs, jobVars, diskVars>>
      BY <1>3, <2>2 DEF ReadMarker
    <3> QED BY <3>1 DEF TypeOK, procVars
  <2> QED BY <2>1, <2>2
<1>4. CASE JoinJob(c)
  BY <1>4 DEF JoinJob, TypeOK, procVars
<1>5. CASE StartJob(c)
  <2>1. target[c] \in Job
    BY <1>5 DEF StartJob, TypeOK, TicketsTaken, Job
  <2> QED BY <1>5, <2>1, WriteMarkerType DEF StartJob, TypeOK, Goto, Phase, Extracting
<1>6. CASE StartJobRaises(c)
  BY <1>6, AnsweredType DEF StartJobRaises, TypeOK, Goto, Phase, Answer
<1>7. CASE WaitDone(c)
  <2>1. status[target[c]] \in Answer
    BY <1>7 DEF WaitDone, TypeOK, TicketsTaken, Answer
  <2> QED BY <1>7, <2>1, AnsweredType DEF WaitDone, TypeOK, procVars
<1>8. CASE WaitTimeout(c)
  BY <1>8, AnsweredType DEF WaitTimeout, TypeOK, Answer, Status, procVars
<1>9. CASE BlockingReturn(c)
  <2> DEFINE answer == CASE pc[target[c]] = "loaded" -> "ready"
                         [] pc[target[c]] = "fail"   -> "failed"
                         [] OTHER                    -> "error"
  <2>1. answer \in Answer
    BY DEF Answer, Status
  <2>2. Answered(c, answer)
    BY <1>9 DEF BlockingReturn
  <2>3. pc' \in [Job -> Phase]
    BY <1>9 DEF BlockingReturn, TypeOK, Phase
  <2> HIDE DEF answer
  <2> QED BY <1>9, <2>1, <2>2, <2>3, AnsweredType DEF BlockingReturn, TypeOK, procVars
<1>10. CASE PollMemory(c)
  <2>1. CASE Answered(c, "ready")
    BY <1>10, <2>1, AnsweredType DEF PollMemory, TypeOK, procVars, Answer, Status
  <2>2. CASE current[ProcOf[c]] # NoJob /\ Answered(c, status[current[ProcOf[c]]])
    <3>1. status[current[ProcOf[c]]] \in Answer
      BY <2>2 DEF TypeOK, Answer
    <3> QED BY <1>10, <2>2, <3>1, AnsweredType DEF PollMemory, TypeOK, procVars
  <2>3. CASE cpc' = [cpc EXCEPT ![c] = "pollFailed"]
    BY <1>10, <2>3 DEF PollMemory, TypeOK, procVars, Answered
  <2> QED BY <1>10, <2>1, <2>2, <2>3 DEF PollMemory
<1>11. CASE PollStep(c)
  BY <1>11, AnsweredType DEF PollStep, PollFailed, PollMarker, PollCache, PollOn,
     TypeOK, Answer, Status, procVars
<1>12. CASE Unload(c)
  BY <1>12 DEF Unload, TypeOK, callVars
<1> QED
  BY <1>1, <1>2, <1>3, <1>4, <1>5, <1>6, <1>7, <1>8, <1>9, <1>10, <1>11, <1>12
  DEF LoadCallStep

LEMMA RegisterType ==
  ASSUME TypeOK, NEW j \in Job, NEW from, Register(j, from), UNCHANGED diskVars
  PROVE  TypeOK'
<1>1. pc' \in [Job -> Phase]
  BY GotoType DEF Register, Phase, Settling
<1>2. loaded' \in [Proc -> BOOLEAN]
  BY DEF Register, TypeOK
<1> QED BY <1>1, <1>2 DEF Register, TypeOK, jobArgs, diskVars, callVars

\* Loader threads.
LEMMA LoaderType ==
  ASSUME TypeOK, NEW j \in Job, LoaderStep(j) \/ Progress(j)
  PROVE  TypeOK'
<1> USE GotoType, WriteMarkerType
    DEF TypeOK, OnlyPc, procVars, jobArgs, diskVars, callVars, Phase, Extracting, Settling
<1>1. CASE Begin(j)
  BY <1>1 DEF Begin
<1>2. CASE Reclaim(j)
  BY <1>2 DEF Reclaim
<1>3. CASE AfterReclaim(j)
  BY <1>3 DEF AfterReclaim
<1>4. CASE ForceClear(j)
  BY <1>4 DEF ForceClear, EmptyCacheDir
<1>5. CASE ForceRmdir(j)
  BY <1>5 DEF ForceRmdir
<1>6. CASE Probe(j)
  <2>1. CASE cacheDir = "complete"
    BY <1>6, <2>1, RegisterType DEF Probe
  <2>2. CASE cacheDir # "complete"
    BY <1>6, <2>2 DEF Probe
  <2> QED BY <2>1, <2>2
<1>7. CASE ExtractOk(j)
  BY <1>7 DEF ExtractOk
<1>8. CASE ExtractFails(j)
  BY <1>8 DEF ExtractFails
<1>9. CASE PromoteClear(j)
  BY <1>9 DEF PromoteClear, EmptyCacheDir
<1>10. CASE PromoteRmdir(j)
  BY <1>10 DEF PromoteRmdir
<1>11. CASE PromoteRename(j)
  BY <1>11 DEF PromoteRename
<1>12. CASE LoadPromoted(j)
  <2>1. CASE cacheDir = "complete"
    BY <1>12, <2>1, RegisterType DEF LoadPromoted
  <2>2. CASE cacheDir # "complete"
    <3>1. pc' \in [Job -> Phase]
      BY <1>12, <2>2 DEF LoadPromoted
    <3>2. marker' = NoMarker /\ failed' = FALSE /\ cacheDir' = "absent" /\ OnlyPc
      BY <1>12, <2>2 DEF LoadPromoted
    <3> QED BY <3>1, <3>2
  <2> QED BY <2>1, <2>2
<1>13. CASE SettleReady(j)
  BY <1>13 DEF SettleReady, Settle, Status
<1>14. CASE UnlinkFailed(j)
  BY <1>14 DEF UnlinkFailed
<1>15. CASE SettleFailed(j)
  <2>1. pc' \in [Job -> Phase]
    BY <1>15 DEF SettleFailed, Goto
  <2>2. /\ stop' \in [Job -> BOOLEAN]
        /\ status' \in [Job -> Status]
    BY <1>15 DEF SettleFailed, Settle, Status
  <2>3. /\ marker' \in Marker \cup {NoMarker}
        /\ cacheDir' \in {"absent", "present", "complete"}
        /\ failed' \in BOOLEAN
    BY <1>15 DEF SettleFailed
  <2> QED BY <1>15, <2>1, <2>2, <2>3 DEF SettleFailed, Settle
<1>16. CASE UnlinkMarker(j)
  BY <1>16 DEF UnlinkMarker
<1>17. CASE Exit(j)
  BY <1>17 DEF Exit
<1>18. CASE Progress(j)
  BY <1>18 DEF Progress
<1> QED
  BY <1>1, <1>2, <1>3, <1>4, <1>5, <1>6, <1>7, <1>8, <1>9, <1>10, <1>11, <1>12,
     <1>13, <1>14, <1>15, <1>16, <1>17, <1>18 DEF LoaderStep

\* Heartbeats and the environment.
LEMMA OtherType ==
  ASSUME TypeOK,
         \/ \E j \in Job : HeartbeatWakes(j) \/ HeartbeatStep(j)
         \/ \E p \in Proc : Crash(p)
         \/ Expire
         \/ UNCHANGED vars
  PROVE  TypeOK'
<1> USE DEF TypeOK, procVars, jobArgs, jobVars, diskVars, callVars
<1>1. ASSUME NEW j \in Job, HeartbeatWakes(j)  PROVE TypeOK'
  BY <1>1 DEF HeartbeatWakes
<1>2. ASSUME NEW j \in Job, HeartbeatStep(j)  PROVE TypeOK'
  BY <1>2, WriteMarkerType DEF HeartbeatStep, HeartbeatWrites, HeartbeatEnds
<1>3. ASSUME NEW p \in Proc, Crash(p)  PROVE TypeOK'
  BY <1>3 DEF Crash
<1>4. CASE Expire
  <2>1. marker' \in Marker
    BY <1>4 DEF Expire, Marker
  <2> QED BY <1>4, <2>1 DEF Expire
<1>5. CASE UNCHANGED vars
  BY <1>5 DEF vars
<1> QED BY <1>1, <1>2, <1>3, <1>4, <1>5

LEMMA TypeStep == TypeOK /\ TicketsTaken /\ [Next]_vars => TypeOK'
BY CallType, LoaderType, OtherType DEF Next, Quiescent

-----------------------------------------------------------------------------
(* The bookkeeping of jobs. *)

\* What a call does to its own variables disturbs the tickets only.
LEMMA CallerKeepsTable ==
  ASSUME IInv, NEW c \in Caller,
         UNCHANGED <<calls, current, owner, kind, pc, status, done>>,
         \A d \in Caller \ {c} : cpc'[d] = cpc[d] /\ target'[d] = target[d],
         cpc'[c] \notin {"readMarker", "start", "waiting"}
           \/ (cpc'[c] = "start" /\ cpc[c] = "readMarker" /\ target'[c] = target[c])
           \/ (cpc'[c] = "waiting" /\ target'[c] \in Job)
  PROVE  (TicketsTaken /\ LoaderInTable /\ SettledBeforeDone)'
<1>1. TicketsTaken'
  <2>1. ASSUME NEW d \in Caller, cpc'[d] \in {"readMarker", "start"}
        PROVE  target'[d] \in 1 .. calls' /\ owner'[target'[d]] = ProcOf[d]
    BY <2>1 DEF IInv, TicketsTaken
  <2>2. ASSUME NEW d \in Caller, cpc'[d] = "waiting"
        PROVE  target'[d] \in Job
    BY <2>2 DEF IInv, TicketsTaken
  <2>3. \A j \in Job : j > calls' => pc'[j] = "free"
    BY DEF IInv, TicketsTaken
  <2> QED BY <2>1, <2>2, <2>3 DEF TicketsTaken, Job
<1>2. LoaderInTable'
  BY DEF IInv, LoaderInTable, Threaded
<1>3. SettledBeforeDone'
  BY DEF IInv, SettledBeforeDone
<1> QED BY <1>1, <1>2, <1>3

\* A call that returns satisfies the premises about its variables.
LEMMA AnsweredCaller ==
  ASSUME IInv, NEW c \in Caller, NEW answer, Answered(c, answer)
  PROVE  /\ \A d \in Caller \ {c} : cpc'[d] = cpc[d] /\ target'[d] = target[d]
         /\ cpc'[c] = "idle"
BY DEF IInv, TypeOK, Answered

\* A tool call keeps the tickets and the job table in order.  A call that puts
\* a job in the table found no job there that was still running; a call that
\* takes a ticket takes one that names no job yet.
LEMMA CallKeepsTable ==
  ASSUME IInv, NEW c \in Caller,
         CallLoad(c) \/ CallBlockingLoad(c) \/ LoadCallStep(c)
           \/ PollMemory(c) \/ PollStep(c) \/ Unload(c)
  PROVE  (TicketsTaken /\ LoaderInTable /\ SettledBeforeDone)'
<1>1. CASE CallLoad(c)
  <2> DEFINE p == ProcOf[c]
  <2>1. /\ calls + 1 \in Job /\ calls \in Nat /\ calls' = calls + 1
        /\ owner' = [owner EXCEPT ![calls + 1] = p]
        /\ kind' = [kind EXCEPT ![calls + 1] = "async"]
        /\ UNCHANGED <<current, pc, status, done>>
        /\ p \in Proc
    BY <1>1 DEF CallLoad, IInv, TypeOK, Job, jobVars
  <2>2. pc[calls + 1] = "free"
    BY <2>1 DEF IInv, TicketsTaken
  <2>3. /\ \A d \in Caller \ {c} : cpc'[d] = cpc[d] /\ target'[d] = target[d]
        /\ \/ cpc'[c] = "waiting" /\ target'[c] \in Job
           \/ cpc'[c] = "readMarker" /\ target'[c] = calls + 1
    <3>1. CASE ActiveJob(p)
      <4>1. /\ cpc' = [cpc EXCEPT ![c] = "waiting"]
            /\ target' = [target EXCEPT ![c] = current[p]]
        BY <1>1, <3>1 DEF CallLoad
      <4>2. current[p] \in Job
        BY <2>1, <3>1 DEF ActiveJob, IInv, TypeOK
      <4> QED BY <4>1, <4>2 DEF IInv, TypeOK
    <3>2. CASE ~ActiveJob(p)
      <4>1. /\ cpc' = [cpc EXCEPT ![c] = "readMarker"]
            /\ target' = [target EXCEPT ![c] = calls + 1]
        BY <1>1, <3>2 DEF CallLoad
      <4> QED BY <4>1 DEF IInv, TypeOK
    <3> QED BY <3>1, <3>2
  <2>4. TicketsTaken'
    <3>1. ASSUME NEW d \in Caller, cpc'[d] \in {"readMarker", "start"}
          PROVE  target'[d] \in 1 .. calls' /\ owner'[target'[d]] = ProcOf[d]
      <4>1. CASE d = c
        BY <2>1, <2>3, <3>1, <4>1 DEF IInv, TypeOK
      <4>2. CASE d # c
        <5>1. target[d] \in 1 .. calls /\ owner[target[d]] = ProcOf[d] /\ target'[d] = target[d]
          BY <2>3, <3>1, <4>2 DEF IInv, TicketsTaken
        <5> QED BY <2>1, <5>1 DEF IInv, TypeOK, Job
      <4> QED BY <4>1, <4>2
    <3>2. \A d \in Caller : cpc'[d] = "waiting" => target'[d] \in Job
      BY <2>3 DEF IInv, TicketsTaken
    <3>3. \A j \in Job : j > calls' => pc'[j] = "free"
      BY <2>1 DEF IInv, TicketsTaken, Job
    <3> QED BY <3>1, <3>2, <3>3 DEF TicketsTaken, Job
  <2>5. LoaderInTable'
    <3>1. ASSUME NEW j \in Job, Threaded(j)'  PROVE current'[owner'[j]] = j /\ ~done'[j]
      <4>1. j # calls + 1
        BY <2>1, <2>2, <3>1 DEF Threaded, Extracting, Settling
      <4>2. Threaded(j) /\ owner'[j] = owner[j]
        BY <2>1, <3>1, <4>1 DEF Threaded, IInv, TypeOK
      <4> QED BY <2>1, <4>2 DEF IInv, LoaderInTable
    <3> QED BY <3>1 DEF LoaderInTable, Job
  <2>6. SettledBeforeDone'
    BY <2>1 DEF IInv, SettledBeforeDone
  <2> QED BY <2>4, <2>5, <2>6
<1>2. CASE CallBlockingLoad(c)
  BY <1>2 DEF CallBlockingLoad, Goto, IInv, TypeOK, TicketsTaken, LoaderInTable,
     SettledBeforeDone, Threaded, Extracting, Settling, Job, NoJob
<1>3. CASE ReadMarker(c)
  <2>1. UNCHANGED <<calls, current, owner, kind, pc, status, done>>
    BY <1>3 DEF ReadMarker, procVars, jobArgs, jobVars
  <2>2. CASE Answered(c, "reused")
    BY <2>1, <2>2, AnsweredCaller, CallerKeepsTable
  <2>3. CASE cpc' = [cpc EXCEPT ![c] = "start"] /\ UNCHANGED target
    <3>1. cpc[c] = "readMarker"
      BY <1>3 DEF ReadMarker
    <3>2. \A d \in Caller \ {c} : cpc'[d] = cpc[d] /\ target'[d] = target[d]
      BY <2>3 DEF IInv, TypeOK
    <3>3. cpc'[c] = "start"
      BY <2>3 DEF IInv, TypeOK
    <3> QED BY <2>1, <2>3, <3>1, <3>2, <3>3, CallerKeepsTable
  <2> QED BY <1>3, <2>2, <2>3 DEF ReadMarker
<1>4. CASE JoinJob(c)
  BY <1>4 DEF JoinJob, ActiveJob, procVars, jobArgs, jobVars, IInv, TypeOK, TicketsTaken,
     LoaderInTable, SettledBeforeDone, Threaded, Extracting, Settling, Job, NoJob
<1>5. CASE StartJob(c)
  BY <1>5 DEF StartJob, ActiveJob, Goto, IInv, TypeOK, TicketsTaken, LoaderInTable,
     SettledBeforeDone, Threaded, Extracting, Settling, Job, NoJob
<1>6. CASE StartJobRaises(c)
  BY <1>6 DEF StartJobRaises, ActiveJob, Goto, Answered, IInv, TypeOK, TicketsTaken,
     LoaderInTable, SettledBeforeDone, Threaded, Extracting, Settling, Job, NoJob
<1>7. CASE WaitDone(c) \/ WaitTimeout(c)
  <2>1. UNCHANGED <<calls, current, owner, kind, pc, status, done>>
    BY <1>7 DEF WaitDone, WaitTimeout, procVars, jobArgs, jobVars
  <2>2. Answered(c, status[target[c]]) \/ Answered(c, "extracting")
    BY <1>7 DEF WaitDone, WaitTimeout
  <2>3. /\ \A d \in Caller \ {c} : cpc'[d] = cpc[d] /\ target'[d] = target[d]
        /\ cpc'[c] = "idle"
    BY <2>2, AnsweredCaller
  <2> QED BY <2>1, <2>3, CallerKeepsTable
<1>8. CASE BlockingReturn(c)
  BY <1>8 DEF BlockingReturn, Answered, procVars, jobArgs, IInv, TypeOK, TicketsTaken,
     LoaderInTable, SettledBeforeDone, Threaded, Extracting, Settling, Job, NoJob
<1>9. CASE PollMemory(c) \/ PollStep(c)
  <2>1. UNCHANGED <<calls, current, owner, kind, pc, status, done>>
    BY <1>9 DEF PollMemory, PollStep, PollFailed, PollMarker, PollCache, procVars,
       jobArgs, jobVars
  <2>2. \/ \E answer : Answered(c, answer)
        \/ /\ \E to \in {"pollFailed", "pollMarker", "pollCache"} :
                cpc' = [cpc EXCEPT ![c] = to]
           /\ UNCHANGED target
    BY <1>9 DEF PollMemory, PollStep, PollFailed, PollMarker, PollCache, PollOn
  <2>3. CASE \E answer : Answered(c, answer)
    BY <2>1, <2>3, AnsweredCaller, CallerKeepsTable
  <2>4. CASE /\ \E to \in {"pollFailed", "pollMarker", "pollCache"} :
                  cpc' = [cpc EXCEPT ![c] = to]
             /\ UNCHANGED target
    <3>1. /\ \A d \in Caller \ {c} : cpc'[d] = cpc[d] /\ target'[d] = target[d]
          /\ cpc'[c] \notin {"readMarker", "start", "waiting"}
      BY <2>4 DEF IInv, TypeOK
    <3> QED BY <2>1, <3>1, CallerKeepsTable
  <2> QED BY <2>2, <2>3, <2>4
<1>10. CASE Unload(c)
  BY <1>10 DEF Unload, jobArgs, jobVars, callVars, IInv, TypeOK, TicketsTaken, LoaderInTable,
     SettledBeforeDone, Threaded, Extracting, Settling, Job, NoJob
<1> QED
  BY <1>1, <1>2, <1>3, <1>4, <1>5, <1>6, <1>7, <1>8, <1>9, <1>10 DEF LoadCallStep

\* A loader thread moves only itself.  It is in the table as long as it runs;
\* it is done when it has ended, and its status is settled by then.
LEMMA LoaderKeepsTable ==
  ASSUME IInv, NEW j \in Job, LoaderStep(j) \/ Progress(j)
  PROVE  (TicketsTaken /\ LoaderInTable /\ SettledBeforeDone)'
<1> USE DEF IInv, TypeOK, TicketsTaken, LoaderInTable, SettledBeforeDone, Threaded,
        Extracting, Settling, OnlyPc, procVars, jobArgs, callVars, Goto
<1>1. CASE Begin(j)
  BY <1>1 DEF Begin
<1>2. CASE Reclaim(j)
  BY <1>2 DEF Reclaim
<1>3. CASE AfterReclaim(j)
  BY <1>3 DEF AfterReclaim
<1>4. CASE ForceClear(j)
  BY <1>4 DEF ForceClear
<1>5. CASE ForceRmdir(j)
  BY <1>5 DEF ForceRmdir
<1>6. CASE Probe(j)
  BY <1>6 DEF Probe, Register
<1>7. CASE ExtractOk(j)
  BY <1>7 DEF ExtractOk
<1>8. CASE ExtractFails(j)
  BY <1>8 DEF ExtractFails
<1>9. CASE PromoteClear(j)
  BY <1>9 DEF PromoteClear
<1>10. CASE PromoteRmdir(j)
  BY <1>10 DEF PromoteRmdir
<1>11. CASE PromoteRename(j)
  BY <1>11 DEF PromoteRename
<1>12. CASE LoadPromoted(j)
  BY <1>12 DEF LoadPromoted, Register
<1>13. CASE SettleReady(j)
  BY <1>13 DEF SettleReady, Settle
<1>14. CASE UnlinkFailed(j)
  BY <1>14 DEF UnlinkFailed
<1>15. CASE SettleFailed(j)
  BY <1>15 DEF SettleFailed, Settle
<1>16. CASE UnlinkMarker(j)
  BY <1>16 DEF UnlinkMarker
<1>17. CASE Exit(j)
  BY <1>17 DEF Exit
<1>18. CASE Progress(j)
  BY <1>18 DEF Progress
<1> QED
  BY <1>1, <1>2, <1>3, <1>4, <1>5, <1>6, <1>7, <1>8, <1>9, <1>10, <1>11, <1>12, <1>13, <1>14, <1>15, <1>16, <1>17, <1>18 DEF LoaderStep

\* Heartbeats, crashes and the passing of time do not touch the table.
LEMMA OtherKeepsTable ==
  ASSUME IInv,
         \/ \E j \in Job : HeartbeatWakes(j) \/ HeartbeatStep(j)
         \/ \E p \in Proc : Crash(p)
         \/ Expire
         \/ UNCHANGED vars
  PROVE  (TicketsTaken /\ LoaderInTable /\ SettledBeforeDone)'
<1>1. UNCHANGED <<calls, current, owner, kind, pc, status, done, cpc, target>>
  BY DEF HeartbeatWakes, HeartbeatStep, HeartbeatWrites, HeartbeatEnds, Crash, Expire,
     vars, procVars, jobArgs, jobVars, callVars
<1> QED
  BY <1>1 DEF IInv, TicketsTaken, LoaderInTable, SettledBeforeDone, Threaded

-----------------------------------------------------------------------------
(* The theorems. *)

LEMMA InitInv == Init => IInv
<1> SUFFICES ASSUME Init PROVE IInv
  OBVIOUS
<1>1. (CHOOSE p \in Proc : TRUE) \in Proc
  OBVIOUS
<1>2. TypeOK
  <2>1. owner \in [Job -> Proc]
    BY <1>1 DEF Init
  <2>2. /\ current \in [Proc -> Job \cup {NoJob}]
        /\ target \in [Caller -> Job \cup {NoJob}]
        /\ reply \in [Caller -> Answer]
        /\ calls \in 0 .. MaxCalls
    BY DEF Init, Answer
  <2>3. pc \in [Job -> Phase] /\ status \in [Job -> Status]
    BY DEF Init, Phase, Status
  <2> QED BY <2>1, <2>2, <2>3 DEF Init, TypeOK
<1>3. TicketsTaken /\ LoaderInTable /\ SettledBeforeDone
  BY DEF Init, TicketsTaken, LoaderInTable, SettledBeforeDone, Threaded, Extracting, Settling
<1> QED BY <1>2, <1>3 DEF IInv

LEMMA NextInv == IInv /\ [Next]_vars => IInv'
<1> SUFFICES ASSUME IInv, [Next]_vars PROVE IInv'
  OBVIOUS
<1>1. TypeOK'
  BY TypeStep DEF IInv
<1>2. (TicketsTaken /\ LoaderInTable /\ SettledBeforeDone)'
  BY CallKeepsTable, LoaderKeepsTable, OtherKeepsTable DEF Next, Quiescent
<1> QED BY <1>1, <1>2 DEF IInv

\* The job table, the tickets and the phases of the loader threads stay
\* consistent, whatever calls, failures, late heartbeats and crashes do.
THEOREM Inductive == Spec => []IInv
BY InitInv, NextInv, PTL DEF Spec

\* Every variable keeps its type: in particular status never leaves the values
\* LoadJob documents, and the marker always names a job (load_jobs.py).
THEOREM TypeCorrect == Spec => []TypeOK
<1>1. IInv => TypeOK
  BY DEF IInv
<1> QED BY <1>1, Inductive, PTL

\* start_job and _run together never let two background loaders of one trace
\* overlap in one server process.
THEOREM OneLoad == Spec => []OneLoadPerServer
<1>1. IInv => OneLoadPerServer
  BY DEF IInv, LoaderInTable, OneLoadPerServer
<1> QED BY <1>1, Inductive, PTL

\* A caller that job.wait releases never answers from an unsettled job.
THEOREM DoneSettled == Spec => []DoneIsSettled
<1>1. IInv => DoneIsSettled
  BY DEF IInv, SettledBeforeDone, DoneIsSettled
<1> QED BY <1>1, Inductive, PTL

-----------------------------------------------------------------------------
(* What the files say of jobs that have ended. *)

\* What a call does to its own variables.
LEMMA CallerKeepsTold ==
  ASSUME IInv, ToldInv, NEW c \in Caller,
         UNCHANGED <<calls, kind, pc, status, hb, marker, failed>>,
         \A d \in Caller \ {c} : cpc'[d] = cpc[d] /\ target'[d] = target[d],
         cpc'[c] \notin {"readMarker", "start", "blocked"}
           \/ (cpc'[c] = "start" /\ cpc[c] = "readMarker" /\ target'[c] = target[c])
  PROVE  ToldInv'
<1>1. OnlyJobsWrite'
  BY DEF ToldInv, OnlyJobsWrite
<1>2. (StatusOfPhase /\ NoStaleMarker /\ FailureHandedOn)'
  BY DEF ToldInv, StatusOfPhase, NoStaleMarker, FailureHandedOn
<1> QED BY <1>1, <1>2 DEF ToldInv

\* A step of a thread leaves the tickets alone: what it has to show of the rest.
LEMMA ThreadKeepsWriters ==
  ASSUME IInv, ToldInv, NEW j \in Job, UNCHANGED <<calls, kind, cpc, target>>,
         \A i \in Job \ {j} : pc'[i] = pc[i] /\ hb'[i] = hb[i],
         pc'[j] # "free",
         hb'[j] \in {"sleep", "beat"} \/ pc'[j] \in {"begin", "reclaim", "reclaimed"}
           => kind[j] = "async",
         marker' # NoMarker => \/ marker # NoMarker /\ marker'.job = marker.job
                               \/ marker'.job = j /\ kind[j] = "async"
  PROVE  OnlyJobsWrite'
<1>1. marker # NoMarker => marker.job \in Job
  BY DEF IInv, TypeOK, Marker, NoMarker
<1>2. marker' # NoMarker => kind'[marker'.job] = "async" /\ pc'[marker'.job] # "free"
  BY <1>1 DEF ToldInv, OnlyJobsWrite
<1>3. \A i \in Job : hb'[i] \in {"sleep", "beat"} \/ pc'[i] \in {"begin", "reclaim", "reclaimed"}
        => kind'[i] = "async" /\ pc'[i] # "free"
  BY DEF ToldInv, OnlyJobsWrite
<1>4. /\ \A c \in Caller : /\ cpc'[c] \in {"readMarker", "start"} => kind'[target'[c]] = "async"
                           /\ cpc'[c] = "blocked" => target'[c] \in 1 .. calls' /\ kind'[target'[c]] = "blocking"
      /\ \A i \in Job : i > calls' => kind'[i] = "async"
  BY DEF ToldInv, OnlyJobsWrite
<1> QED BY <1>2, <1>3, <1>4 DEF OnlyJobsWrite

LEMMA CallKeepsTold ==
  ASSUME IInv, ToldInv, ~DiskFaults, NEW c \in Caller,
         CallLoad(c) \/ CallBlockingLoad(c) \/ LoadCallStep(c)
           \/ PollMemory(c) \/ PollStep(c) \/ Unload(c)
  PROVE  ToldInv'
<1>1. CASE CallLoad(c)
  <2>1. /\ calls + 1 \in Job /\ calls \in Nat /\ calls' = calls + 1
        /\ kind' = [kind EXCEPT ![calls + 1] = "async"]
        /\ UNCHANGED <<pc, status, hb, marker, failed>>
    BY <1>1 DEF CallLoad, IInv, TypeOK, Job, jobVars, diskVars
  <2>2. kind' = kind
    BY <2>1 DEF IInv, TypeOK, ToldInv, OnlyJobsWrite
  <2>3. /\ \A d \in Caller \ {c} : cpc'[d] = cpc[d] /\ target'[d] = target[d]
        /\ \/ cpc'[c] = "waiting"
           \/ cpc'[c] = "readMarker" /\ target'[c] = calls + 1
    <3>1. CASE ActiveJob(ProcOf[c])
      <4>1. /\ cpc' = [cpc EXCEPT ![c] = "waiting"]
            /\ target' = [target EXCEPT ![c] = current[ProcOf[c]]]
        BY <1>1, <3>1 DEF CallLoad
      <4> QED BY <4>1 DEF IInv, TypeOK
    <3>2. CASE ~ActiveJob(ProcOf[c])
      <4>1. /\ cpc' = [cpc EXCEPT ![c] = "readMarker"]
            /\ target' = [target EXCEPT ![c] = calls + 1]
        BY <1>1, <3>2 DEF CallLoad
      <4> QED BY <4>1 DEF IInv, TypeOK
    <3> QED BY <3>1, <3>2
  <2>4. OnlyJobsWrite'
    <3>1. kind[calls + 1] = "async"
      BY <2>1 DEF ToldInv, OnlyJobsWrite
    <3>2. \A d \in Caller : cpc'[d] \in {"readMarker", "start"} => kind'[target'[d]] = "async"
      BY <2>2, <2>3, <3>1 DEF ToldInv, OnlyJobsWrite
    <3>3. \A d \in Caller : cpc'[d] = "blocked" => target'[d] \in 1 .. calls' /\ kind'[target'[d]] = "blocking"
      BY <2>1, <2>2, <2>3 DEF ToldInv, OnlyJobsWrite
    <3>4. \A i \in Job : i > calls' => kind'[i] = "async"
      BY <2>1, <2>2 DEF ToldInv, OnlyJobsWrite, Job
    <3> QED BY <2>1, <2>2, <3>2, <3>3, <3>4 DEF ToldInv, OnlyJobsWrite
  <2>5. (StatusOfPhase /\ NoStaleMarker /\ FailureHandedOn)'
    BY <2>1, <2>2 DEF ToldInv, StatusOfPhase, NoStaleMarker, FailureHandedOn
  <2> QED BY <2>4, <2>5 DEF ToldInv
<1>2. CASE CallBlockingLoad(c)
  <2> DEFINE j == calls + 1
  <2>1. /\ j \in Job /\ calls \in Nat /\ calls' = j
        /\ kind' = [kind EXCEPT ![j] = "blocking"]
        /\ pc[j] = "free" /\ pc' = [pc EXCEPT ![j] = "force"]
        /\ cpc' = [cpc EXCEPT ![c] = "blocked"]
        /\ target' = [target EXCEPT ![c] = j]
        /\ UNCHANGED <<status, hb, marker, failed>>
    BY <1>2 DEF CallBlockingLoad, Goto, IInv, TypeOK, Job, diskVars
  <2>2. kind'[j] = "blocking" /\ \A i \in Job \ {j} : kind'[i] = kind[i] /\ pc'[i] = pc[i]
    BY <2>1 DEF IInv, TypeOK
  <2>3. OnlyJobsWrite'
    <3>1. hb[j] \notin {"sleep", "beat"} /\ pc'[j] = "force"
      BY <2>1 DEF IInv, TypeOK, ToldInv, OnlyJobsWrite
    <3>2. \A d \in Caller : cpc'[d] \in {"readMarker", "start"} =>
            d # c /\ target'[d] \in 1 .. calls /\ kind[target'[d]] = "async"
      BY <2>1 DEF IInv, TypeOK, TicketsTaken, ToldInv, OnlyJobsWrite
    <3>3. \A d \in Caller : cpc'[d] \in {"readMarker", "start"} => kind'[target'[d]] = "async"
      BY <2>1, <2>2, <3>2 DEF Job
    <3>4. \A d \in Caller : cpc'[d] = "blocked" => target'[d] \in 1 .. calls' /\ kind'[target'[d]] = "blocking"
      BY <2>1, <2>2 DEF IInv, TypeOK, ToldInv, OnlyJobsWrite, Job
    <3>5. \A i \in Job : i > calls' => kind'[i] = "async"
      BY <2>1, <2>2 DEF ToldInv, OnlyJobsWrite, Job
    <3>6. marker # NoMarker => marker.job \in Job
      BY DEF IInv, TypeOK, Marker, NoMarker
    <3>7. marker # NoMarker => kind'[marker.job] = "async" /\ pc'[marker.job] # "free"
      BY <2>1, <2>2, <3>6 DEF ToldInv, OnlyJobsWrite
    <3> QED BY <2>1, <2>2, <3>1, <3>3, <3>4, <3>5, <3>7 DEF ToldInv, OnlyJobsWrite
  <2>4. StatusOfPhase'
    BY <2>1, <2>2 DEF IInv, TypeOK, ToldInv, StatusOfPhase
  <2>5. NoStaleMarker'
    BY <2>1 DEF IInv, TypeOK, ToldInv, NoStaleMarker
  <2>6. FailureHandedOn'
    BY <2>1, <2>2 DEF FailureHandedOn
  <2> QED BY <2>3, <2>4, <2>5, <2>6 DEF ToldInv
<1>3. CASE ReadMarker(c)
  <2>1. UNCHANGED <<calls, kind, pc, status, hb, marker, failed>>
    BY <1>3 DEF ReadMarker, procVars, jobArgs, jobVars, diskVars
  <2>2. CASE Answered(c, "reused")
    BY <2>1, <2>2, AnsweredCaller, CallerKeepsTold
  <2>3. CASE cpc' = [cpc EXCEPT ![c] = "start"] /\ UNCHANGED target
    <3>1. cpc[c] = "readMarker"
      BY <1>3 DEF ReadMarker
    <3>2. cpc'[c] = "start" /\ \A d \in Caller \ {c} : cpc'[d] = cpc[d] /\ target'[d] = target[d]
      BY <2>3 DEF IInv, TypeOK
    <3> QED BY <2>1, <2>3, <3>1, <3>2, CallerKeepsTold
  <2> QED BY <1>3, <2>2, <2>3 DEF ReadMarker
<1>4. CASE JoinJob(c)
  <2>1. UNCHANGED <<calls, kind, pc, status, hb, marker, failed>>
    BY <1>4 DEF JoinJob, procVars, jobArgs, jobVars, diskVars
  <2>2. cpc'[c] = "waiting" /\ \A d \in Caller \ {c} : cpc'[d] = cpc[d] /\ target'[d] = target[d]
    BY <1>4 DEF JoinJob, IInv, TypeOK
  <2> QED BY <2>1, <2>2, CallerKeepsTold
<1>5. CASE StartJob(c)
  <2> DEFINE j == target[c]
  <2>1. /\ j \in Job /\ cpc[c] = "start"
        /\ pc[j] = "free" /\ pc' = [pc EXCEPT ![j] = "begin"]
        /\ marker' = [job |-> j, status |-> status[j], fresh |-> TRUE]
        /\ cpc' = [cpc EXCEPT ![c] = "waiting"]
        /\ UNCHANGED <<calls, kind, status, hb, target, failed>>
    BY <1>5 DEF StartJob, Goto, WriteMarker, IInv, TypeOK, TicketsTaken, Job
  <2>2. kind[j] = "async"
    BY <2>1 DEF ToldInv, OnlyJobsWrite
  <2>3. OnlyJobsWrite'
    BY <2>1, <2>2 DEF IInv, TypeOK, ToldInv, OnlyJobsWrite
  <2>4. StatusOfPhase'
    BY <2>1 DEF IInv, TypeOK, ToldInv, StatusOfPhase
  <2>5. NoStaleMarker'
    BY <2>1 DEF IInv, TypeOK, NoStaleMarker
  <2>6. FailureHandedOn'
    <3>1. pc'[j] \in Extracting
      BY <2>1 DEF IInv, TypeOK, Extracting
    <3> QED BY <2>1, <3>1 DEF FailureHandedOn
  <2> QED BY <2>3, <2>4, <2>5, <2>6 DEF ToldInv
<1>6. CASE StartJobRaises(c)
  BY <1>6 DEF StartJobRaises
<1>7. CASE WaitDone(c) \/ WaitTimeout(c)
  <2>1. UNCHANGED <<calls, kind, pc, status, hb, marker, failed>>
    BY <1>7 DEF WaitDone, WaitTimeout, procVars, jobArgs, jobVars, diskVars
  <2>2. Answered(c, status[target[c]]) \/ Answered(c, "extracting")
    BY <1>7 DEF WaitDone, WaitTimeout
  <2>3. /\ \A d \in Caller \ {c} : cpc'[d] = cpc[d] /\ target'[d] = target[d]
        /\ cpc'[c] = "idle"
    BY <2>2, AnsweredCaller
  <2> QED BY <2>1, <2>3, CallerKeepsTold
<1>8. CASE BlockingReturn(c)
  <2> DEFINE j == target[c]
  <2>1. /\ cpc[c] = "blocked" /\ pc[j] \in {"loaded", "fail", "exc"}
        /\ pc' = [pc EXCEPT ![j] = "ended"]
        /\ UNCHANGED <<calls, kind, status, hb, marker, failed>>
    BY <1>8 DEF BlockingReturn, procVars, jobArgs, diskVars
  <2>2. /\ \A d \in Caller \ {c} : cpc'[d] = cpc[d] /\ target'[d] = target[d]
        /\ cpc'[c] = "idle"
    <3>1. \E answer : Answered(c, answer)
      BY <1>8 DEF BlockingReturn
    <3> QED BY <3>1, AnsweredCaller
  <2>3. j \in Job /\ kind[j] = "blocking"
    BY <2>1 DEF IInv, TypeOK, ToldInv, OnlyJobsWrite, Job
  <2>4. pc'[j] = "ended" /\ \A i \in Job \ {j} : pc'[i] = pc[i]
    BY <2>1, <2>3 DEF IInv, TypeOK
  <2>5. marker # NoMarker => marker.job \in Job /\ marker.job # j
    BY <2>3 DEF IInv, TypeOK, Marker, NoMarker, ToldInv, OnlyJobsWrite
  <2>6. OnlyJobsWrite'
    BY <2>1, <2>2, <2>3, <2>4, <2>5 DEF ToldInv, OnlyJobsWrite
  <2>7. StatusOfPhase'
    BY <2>1, <2>3, <2>4 DEF ToldInv, StatusOfPhase
  <2>8. NoStaleMarker'
    BY <2>1, <2>4, <2>5 DEF ToldInv, NoStaleMarker
  <2>9. FailureHandedOn'
    BY <2>1, <2>3 DEF FailureHandedOn
  <2> QED BY <2>6, <2>7, <2>8, <2>9 DEF ToldInv
<1>9. CASE PollMemory(c) \/ PollStep(c)
  <2>1. UNCHANGED <<calls, kind, pc, status, hb, marker, failed>>
    BY <1>9 DEF PollMemory, PollStep, PollFailed, PollMarker, PollCache, procVars,
       jobArgs, jobVars, diskVars
  <2>2. \/ \E answer : Answered(c, answer)
        \/ /\ \E to \in {"pollFailed", "pollMarker", "pollCache"} :
                cpc' = [cpc EXCEPT ![c] = to]
           /\ UNCHANGED target
    BY <1>9 DEF PollMemory, PollStep, PollFailed, PollMarker, PollCache, PollOn
  <2>3. CASE \E answer : Answered(c, answer)
    BY <2>1, <2>3, AnsweredCaller, CallerKeepsTold
  <2>4. CASE /\ \E to \in {"pollFailed", "pollMarker", "pollCache"} :
                  cpc' = [cpc EXCEPT ![c] = to]
             /\ UNCHANGED target
    <3>1. /\ \A d \in Caller \ {c} : cpc'[d] = cpc[d] /\ target'[d] = target[d]
          /\ cpc'[c] \notin {"readMarker", "start", "blocked"}
      BY <2>4 DEF IInv, TypeOK
    <3> QED BY <2>1, <3>1, CallerKeepsTold
  <2> QED BY <2>2, <2>3, <2>4
<1>10. CASE Unload(c)
  BY <1>10 DEF Unload, jobArgs, jobVars, callVars, diskVars, ToldInv, OnlyJobsWrite,
     StatusOfPhase, NoStaleMarker, FailureHandedOn
<1> QED
  BY <1>1, <1>2, <1>3, <1>4, <1>5, <1>6, <1>7, <1>8, <1>9, <1>10 DEF LoadCallStep


\* A loader that has not come to its end is the one that will report.
LEMMA RunningKeepsTold ==
  ASSUME IInv, ToldInv, NEW j \in Job, UNCHANGED <<calls, kind, cpc, target, status>>,
         NEW to \in Extracting \cup {"loaded", "fail", "exc"},
         pc[j] \in Extracting, pc' = [pc EXCEPT ![j] = to],
         \A i \in Job \ {j} : hb'[i] = hb[i],
         hb'[j] = hb[j] \/ kind[j] = "async",
         to \in {"begin", "reclaim", "reclaimed"} => kind[j] = "async",
         \/ marker' = NoMarker
         \/ marker' = marker
         \/ marker'.job = j /\ kind[j] = "async"
  PROVE  ToldInv'
<1>1. /\ \A i \in Job \ {j} : pc'[i] = pc[i]
      /\ pc'[j] = to
      /\ pc'[j] \notin {"free", "unlinkFailed", "unlinkMarker", "exit", "ended"}
  BY DEF IInv, TypeOK, Extracting
<1>2. marker # NoMarker => marker.job \in Job
  BY DEF IInv, TypeOK, Marker, NoMarker
<1>3. OnlyJobsWrite'
  <2>1. hb'[j] \in {"sleep", "beat"} \/ pc'[j] \in {"begin", "reclaim", "reclaimed"}
          => kind[j] = "async"
    BY <1>1 DEF ToldInv, OnlyJobsWrite
  <2>2. \A i \in Job \ {j} : pc'[i] = pc[i] /\ hb'[i] = hb[i]
    BY <1>1
  <2>3. marker' # NoMarker => \/ marker # NoMarker /\ marker'.job = marker.job
                              \/ marker'.job = j /\ kind[j] = "async"
    OBVIOUS
  <2> QED BY <1>1, <2>1, <2>2, <2>3, ThreadKeepsWriters
<1>4. StatusOfPhase'
  <2>1. status[j] # "ready"
    BY DEF ToldInv, StatusOfPhase, Extracting
  <2> QED BY <1>1, <2>1 DEF ToldInv, StatusOfPhase
<1>5. NoStaleMarker'
  BY <1>1, <1>2 DEF ToldInv, NoStaleMarker
<1>6. FailureHandedOn'
  BY <1>1 DEF FailureHandedOn
<1> QED BY <1>3, <1>4, <1>5, <1>6 DEF ToldInv

LEMMA RunningSteps ==
  ASSUME IInv, ToldInv, ~DiskFaults, NEW j \in Job,
         \/ Begin(j) \/ Reclaim(j) \/ AfterReclaim(j) \/ ForceClear(j) \/ ForceRmdir(j)
         \/ Probe(j) \/ ExtractOk(j) \/ ExtractFails(j) \/ PromoteClear(j) \/ PromoteRmdir(j)
         \/ PromoteRename(j) \/ LoadPromoted(j) \/ Progress(j)
  PROVE  ToldInv'
<1> DEFINE Moves(from, to) ==
      /\ pc[j] = from /\ pc' = [pc EXCEPT ![j] = to]
      /\ from \in Extracting /\ to \in Extracting \cup {"loaded", "fail", "exc"}
      /\ to \in {"begin", "reclaim", "reclaimed"} => from \in {"begin", "reclaim"}
<1>1. \E from, to : Moves(from, to)
  <2>1. CASE Progress(j)
    <3>1. pc[j] = "extract" /\ pc' = pc
      BY <2>1 DEF Progress
    <3>2. pc' = [pc EXCEPT ![j] = "extract"]
      BY <3>1 DEF IInv, TypeOK
    <3> QED BY <3>1, <3>2 DEF Extracting
  <2>2. CASE ~Progress(j)
    BY <2>2 DEF Begin, Reclaim, AfterReclaim, ForceClear, ForceRmdir, Probe, Register, ExtractOk,
       ExtractFails, PromoteClear, PromoteRmdir, PromoteRename, LoadPromoted, Goto, Extracting
  <2> QED BY <2>1, <2>2
<1>2. UNCHANGED <<calls, kind, cpc, target, status>>
  BY DEF Begin, Reclaim, AfterReclaim, ForceClear, ForceRmdir, Probe, Register, ExtractOk,
     ExtractFails, PromoteClear, PromoteRmdir, PromoteRename, LoadPromoted, Progress, OnlyPc,
     procVars, jobArgs, callVars
<1>3. pc[j] \in {"begin", "reclaim", "reclaimed"} => kind[j] = "async"
  BY DEF ToldInv, OnlyJobsWrite
<1>4. hb' = hb \/ (pc[j] = "begin" /\ hb' = [hb EXCEPT ![j] = "sleep"])
  BY DEF Begin, Reclaim, AfterReclaim, ForceClear, ForceRmdir, Probe, Register, ExtractOk,
     ExtractFails, PromoteClear, PromoteRmdir, PromoteRename, LoadPromoted, Progress, OnlyPc, Goto
<1>5. \/ marker' = NoMarker
      \/ marker' = marker
      \/ WriteMarker(j) /\ (pc[j] \in {"begin", "reclaimed"} \/ kind[j] = "async")
  BY DEF Begin, Reclaim, AfterReclaim, ForceClear, ForceRmdir, Probe, Register, ExtractOk,
     ExtractFails, PromoteClear, PromoteRmdir, PromoteRename, LoadPromoted, Progress, OnlyPc, Goto,
     EmptyCacheDir, diskVars
<1>6. \/ marker' = NoMarker
      \/ marker' = marker
      \/ marker'.job = j /\ kind[j] = "async"
  BY <1>3, <1>5 DEF WriteMarker
<1>7. (\A i \in Job \ {j} : hb'[i] = hb[i]) /\ (hb'[j] = hb[j] \/ kind[j] = "async")
  BY <1>3, <1>4 DEF IInv, TypeOK
<1>8. PICK from, to : Moves(from, to)
  BY <1>1
<1> QED BY <1>2, <1>3, <1>6, <1>7, <1>8, RunningKeepsTold

LEMMA SettlingKeepsTold ==
  ASSUME IInv, ToldInv, ~DiskFaults, NEW j \in Job,
         SettleReady(j) \/ UnlinkFailed(j) \/ SettleFailed(j) \/ UnlinkMarker(j) \/ Exit(j)
  PROVE  ToldInv'
<1>1. /\ UNCHANGED <<calls, kind, cpc, target, hb>>
      /\ \E to \in {"unlinkFailed", "unlinkMarker", "exit", "ended"} : pc' = [pc EXCEPT ![j] = to]
      /\ marker' = NoMarker \/ marker' = marker
  BY DEF SettleReady, UnlinkFailed, SettleFailed, UnlinkMarker, Exit, Settle, OnlyPc, Goto,
     procVars, jobArgs, callVars, diskVars
<1>2. (\A i \in Job \ {j} : pc'[i] = pc[i]) /\ pc'[j] \in {"unlinkFailed", "unlinkMarker", "exit", "ended"}
  BY <1>1 DEF IInv, TypeOK
<1>3. OnlyJobsWrite'
  <2>1. hb'[j] \in {"sleep", "beat"} \/ pc'[j] \in {"begin", "reclaim", "reclaimed"} => kind[j] = "async"
    BY <1>1, <1>2 DEF ToldInv, OnlyJobsWrite
  <2>2. \A i \in Job \ {j} : pc'[i] = pc[i] /\ hb'[i] = hb[i]
    BY <1>1, <1>2
  <2>3. marker' # NoMarker => marker # NoMarker /\ marker'.job = marker.job
    BY <1>1
  <2> QED BY <1>1, <1>2, <2>1, <2>2, <2>3, ThreadKeepsWriters
<1>4. marker # NoMarker => marker.job \in Job
  BY DEF IInv, TypeOK, Marker, NoMarker
<1>5. CASE SettleReady(j)
  <2>1. /\ pc[j] = "loaded" /\ pc'[j] = "unlinkFailed" /\ marker' = NoMarker
        /\ status' = [status EXCEPT ![j] = "ready"]
    BY <1>5 DEF SettleReady, Settle, Goto, IInv, TypeOK
  <2>2. status'[j] = "ready" /\ \A i \in Job \ {j} : status'[i] = status[i]
    BY <2>1 DEF IInv, TypeOK
  <2>3. StatusOfPhase'
    BY <1>1, <1>2, <2>1, <2>2 DEF ToldInv, StatusOfPhase
  <2>4. NoStaleMarker' /\ FailureHandedOn'
    BY <2>1, <2>2 DEF NoStaleMarker, FailureHandedOn
  <2> QED BY <1>3, <2>3, <2>4 DEF ToldInv
<1>6. CASE UnlinkFailed(j)
  <2>1. pc[j] = "unlinkFailed" /\ pc'[j] = "exit" /\ marker' = marker /\ status' = status
    BY <1>6 DEF UnlinkFailed, Goto, OnlyPc, IInv, TypeOK
  <2>2. status[j] = "ready"
    BY <2>1 DEF ToldInv, StatusOfPhase
  <2>3. StatusOfPhase'
    BY <1>1, <1>2, <2>1, <2>2 DEF ToldInv, StatusOfPhase
  <2>4. NoStaleMarker'
    BY <1>2, <1>4, <2>1 DEF ToldInv, NoStaleMarker
  <2>5. FailureHandedOn'
    BY <2>1, <2>2 DEF FailureHandedOn
  <2> QED BY <1>3, <2>3, <2>4, <2>5 DEF ToldInv
<1>7. CASE SettleFailed(j)
  <2>1. /\ pc[j] \in {"fail", "exc"} /\ pc'[j] = "unlinkMarker" /\ marker' = marker
        /\ status' = [status EXCEPT ![j] = "failed"] /\ failed' = TRUE
    BY <1>7 DEF SettleFailed, Settle, IInv, TypeOK
  <2>2. status'[j] = "failed" /\ \A i \in Job \ {j} : status'[i] = status[i]
    BY <2>1 DEF IInv, TypeOK
  <2>3. StatusOfPhase'
    BY <1>1, <1>2, <2>1, <2>2 DEF ToldInv, StatusOfPhase
  <2>4. NoStaleMarker'
    BY <1>2, <1>4, <2>1 DEF ToldInv, NoStaleMarker
  <2>5. FailureHandedOn'
    BY <2>1 DEF FailureHandedOn
  <2> QED BY <1>3, <2>3, <2>4, <2>5 DEF ToldInv
<1>8. CASE UnlinkMarker(j)
  <2>1. pc[j] = "unlinkMarker" /\ pc'[j] = "exit" /\ marker' = NoMarker /\ UNCHANGED <<status, failed>>
    BY <1>8 DEF UnlinkMarker, Goto, OnlyPc, IInv, TypeOK
  <2>2. StatusOfPhase'
    BY <1>1, <1>2, <2>1 DEF ToldInv, StatusOfPhase, IInv, SettledBeforeDone
  <2>3. NoStaleMarker'
    BY <2>1 DEF NoStaleMarker
  <2>4. FailureHandedOn'
    BY <1>1, <1>2, <2>1 DEF ToldInv, FailureHandedOn, Extracting
  <2> QED BY <1>3, <2>2, <2>3, <2>4 DEF ToldInv
<1>9. CASE Exit(j)
  <2>1. pc[j] = "exit" /\ pc'[j] = "ended" /\ UNCHANGED <<marker, status, failed>>
    BY <1>9 DEF Exit, Goto, diskVars, IInv, TypeOK
  <2>2. StatusOfPhase'
    BY <1>1, <1>2, <2>1 DEF ToldInv, StatusOfPhase
  <2>3. NoStaleMarker'
    BY <1>2, <1>4, <2>1 DEF ToldInv, NoStaleMarker
  <2>4. FailureHandedOn'
    BY <1>1, <1>2, <2>1 DEF ToldInv, FailureHandedOn, Extracting
  <2> QED BY <1>3, <2>2, <2>3, <2>4 DEF ToldInv
<1> QED BY <1>5, <1>6, <1>7, <1>8, <1>9

\* A late beat writes what the job has come to.
LEMMA OtherKeepsTold ==
  ASSUME IInv, ToldInv,
         \/ \E j \in Job : HeartbeatWakes(j) \/ HeartbeatStep(j)
         \/ \E p \in Proc : Crash(p)
         \/ Expire
         \/ UNCHANGED vars
  PROVE  ToldInv'
<1>1. UNCHANGED <<calls, kind, pc, status, cpc, target>>
  BY DEF HeartbeatWakes, HeartbeatStep, HeartbeatWrites, HeartbeatEnds, Crash, Expire,
     vars, procVars, jobArgs, jobVars, callVars
<1>2. failed' = failed
  BY DEF HeartbeatWakes, HeartbeatStep, HeartbeatWrites, HeartbeatEnds, Crash, Expire,
     vars, WriteMarker, diskVars
<1>3. StatusOfPhase' /\ FailureHandedOn'
  BY <1>1, <1>2 DEF ToldInv, StatusOfPhase, FailureHandedOn
<1>4. ASSUME marker' = marker, hb' = hb PROVE ToldInv'
  BY <1>1, <1>3, <1>4 DEF ToldInv, OnlyJobsWrite, NoStaleMarker
<1>5. ASSUME NEW j \in Job, HeartbeatWakes(j) \/ HeartbeatStep(j) PROVE ToldInv'
  <2>1. /\ hb[j] \in {"sleep", "beat"}
        /\ \E to \in {"sleep", "beat", "ended"} : hb' = [hb EXCEPT ![j] = to]
    BY <1>5 DEF HeartbeatWakes, HeartbeatStep, HeartbeatWrites, HeartbeatEnds
  <2>2. kind[j] = "async" /\ pc[j] # "free" /\ \A i \in Job \ {j} : hb'[i] = hb[i]
    BY <2>1 DEF ToldInv, OnlyJobsWrite, IInv, TypeOK
  <2>3. marker' = marker \/ (marker' = [job |-> j, status |-> status[j], fresh |-> TRUE] /\ ~LockHeld(j))
    BY <1>5 DEF HeartbeatWakes, HeartbeatStep, HeartbeatWrites, HeartbeatEnds, WriteMarker, diskVars
  <2>4. OnlyJobsWrite'
    BY <1>1, <2>2, <2>3, ThreadKeepsWriters
  <2>5. NoStaleMarker'
    BY <1>1, <2>2, <2>3 DEF ToldInv, NoStaleMarker, StatusOfPhase
  <2> QED BY <1>3, <2>4, <2>5 DEF ToldInv
<1>6. CASE \E p \in Proc : Crash(p)
  BY <1>4, <1>6 DEF Crash, jobVars, diskVars
<1>7. CASE Expire
  <2>1. hb' = hb /\ marker # NoMarker /\ marker' = [marker EXCEPT !.fresh = FALSE]
    BY <1>7 DEF Expire, jobVars
  <2>2. marker \in Marker
    BY <2>1 DEF IInv, TypeOK
  <2>3. marker'.job = marker.job /\ marker'.status = marker.status
    BY <2>1, <2>2 DEF Marker
  <2>4. OnlyJobsWrite' /\ NoStaleMarker'
    BY <1>1, <2>1, <2>3 DEF ToldInv, OnlyJobsWrite, NoStaleMarker
  <2> QED BY <1>3, <2>4 DEF ToldInv
<1>8. CASE UNCHANGED vars
  BY <1>4, <1>8 DEF vars, jobVars, diskVars
<1> QED BY <1>5, <1>6, <1>7, <1>8

\* Where files can be written, what the marker and failed.json say of jobs that have
\* ended is so: for any number of servers over one directory, whatever crashes,
\* whichever beats come late and whichever loads remove each other's files.
THEOREM EndedAreTold == ~DiskFaults => (Spec => []EndedJobsAreTold)
<1> SUFFICES ASSUME ~DiskFaults PROVE Spec => []EndedJobsAreTold
  OBVIOUS
<1>1. Init => ToldInv
  BY DEF Init, ToldInv, OnlyJobsWrite, StatusOfPhase, NoStaleMarker, FailureHandedOn
<1>2. IInv /\ ToldInv /\ [Next]_vars => ToldInv'
  <2> SUFFICES ASSUME IInv, ToldInv, [Next]_vars PROVE ToldInv'
    OBVIOUS
  <2> QED BY CallKeepsTold, RunningSteps, SettlingKeepsTold, OtherKeepsTold
          DEF Next, LoaderStep, Quiescent
<1>3. IInv /\ ToldInv => EndedJobsAreTold
  <2> SUFFICES ASSUME IInv, ToldInv PROVE EndedJobsAreTold
    OBVIOUS
  <2>1. SettledMarkerIsLabelled
    BY DEF ToldInv, NoStaleMarker, SettledMarkerIsLabelled
  <2>2. FailureIsRecorded
    BY DEF ToldInv, FailureHandedOn, FailureIsRecorded, Extracting
  <2> QED BY <2>1, <2>2 DEF EndedJobsAreTold
<1> QED BY <1>1, <1>2, <1>3, InitInv, NextInv, PTL DEF Spec

=============================================================================
