------------------------------ MODULE AppLayer ------------------------------
(***************************************************************************)
(* The HTTP.sys and MsQuic tools (tools/app_layer.py).  The environment is *)
(* the traced machine: requests and connections go through their lives     *)
(* while time passes and each step leaves an event, some of which are not  *)
(* in the trace (it began later, or lost them).  Then a tool is asked.     *)
(***************************************************************************)
EXTENDS ToolData, RowSequences

CONSTANTS
  Requests, Groups,                 \* request ids (0 is skipped) and URL groups
  Connections, QuicProcesses,
  QuicPackets,                      \* packets that may come: [number, cpu]
  CidHash,                          \* hash of the CID of each connection
  AckDelays,
  AppAsks,                          \* [tool, of]: of a group or process, or None
  AppRowLimit,                      \* _APP_EVENT_ROW_LIMIT
  MaxClock, MaxAppEvents,           \* of HTTP and of QUIC
  MaxMissing

ASSUME AppLayerAssumption ==
  /\ Requests = 1 .. Cardinality(Requests)
  /\ Connections = 1 .. Cardinality(Connections)
  /\ Groups \subseteq Nat \ {0} /\ AckDelays \subseteq Nat
  /\ QuicPackets \subseteq [number : Nat, cpu : Nat]
  /\ CidHash \in [Connections -> Nat]
  /\ \A ask \in AppAsks : ask.tool \in {"requests", "depth", "connections", "cids", "acks"}
  /\ None \notin Nat

VARIABLES
  appClock,   \* microseconds since the trace started
  appLog,     \* every event: [class, id, ts, data, missing]
  appAnswer

appVars == <<appClock, appLog, appAnswer>>

AppInit == appClock = 1 /\ appLog = << >> /\ appAnswer = None

(***************************************************************************)
(* The traced machine                                                      *)
(***************************************************************************)

\* What an event may follow in the life of its request or connection.  A
\* response may be sent in parts, or without a delivery to the URL group.
QuicOpen == {"created", "packet", "sent", "ack"}
Follows ==
  [recv |-> {"new"}, deliver |-> {"recv"}, send |-> {"recv", "deliver", "send"},
   close |-> {"recv", "deliver", "send"},
   created |-> {"new"}, packet |-> QuicOpen, sent |-> QuicOpen, ack |-> QuicOpen,
   closed |-> QuicOpen]
HttpClasses == {"recv", "deliver", "send", "close"}

EventsOf(id) == {n \in DOMAIN appLog : appLog[n].id = id}
Reached(id) == IF EventsOf(id) = {} THEN "new" ELSE appLog[Max(EventsOf(id))].class

\* A request keeps its group, a connection its process.
Details(class, id) ==
  CASE class \in {"recv", "deliver"} -> {g \in Groups : \A n \in EventsOf(id) : appLog[n].data = g}
    [] class = "packet" -> QuicPackets
    [] class = "ack" -> AckDelays
    [] class = "created" -> QuicProcesses
    [] OTHER -> {None}

MissingEvents == {n \in DOMAIN appLog : appLog[n].missing}

Subject(class) == IF class \in HttpClasses THEN "http" ELSE "quic"

\* One trace is of HTTP requests or of QUIC connections; ids come in order.
Happens(class, id, missing) ==
  /\ appAnswer = None /\ Len(appLog) < MaxAppEvents[Subject(class)]
  /\ appLog # << >> => Subject(Head(appLog).class) = Subject(class)
  /\ id \in IF class \in HttpClasses THEN Requests ELSE Connections
  /\ Reached(id) \in Follows[class] /\ (id > 1 => Reached(id - 1) # "new")
  /\ missing => Cardinality(MissingEvents) < MaxMissing
  /\ \E data \in Details(class, id) :
       appLog' = Append(appLog, [class |-> class, id |-> id, ts |-> appClock, data |-> data,
                                 missing |-> missing])
  /\ UNCHANGED <<appClock, appAnswer>>

AppTimePasses ==
  /\ appAnswer = None /\ appLog # << >>
  /\ appClock < MaxClock[Subject(Head(appLog).class)]
  /\ appClock' = appClock + 1
  /\ UNCHANGED <<appLog, appAnswer>>

(***************************************************************************)
(* Rows (_iter_limited_records)                                            *)
(***************************************************************************)

EventRows(class) == {n \in DOMAIN appLog : appLog[n].class = class /\ ~appLog[n].missing}
EventRowsOf(class, id) == {n \in EventRows(class) : appLog[n].id = id}
Ids(class) == {appLog[n].id : n \in EventRows(class)}

TooMany(classes) == \E c \in classes : Cardinality(EventRows(c)) > AppRowLimit

\* The earliest row, as a response may have many.
LatestTime(class, id) ==
  IF EventRowsOf(class, id) = {} THEN None ELSE Max({appLog[n].ts : n \in EventRowsOf(class, id)})
FirstTime(class, id) ==
  IF EventRowsOf(class, id) = {} THEN None ELSE Min({appLog[n].ts : n \in EventRowsOf(class, id)})

\* An event before the one it is measured from measures nothing.
Elapsed(from, to) ==
  IF from = None \/ to = None THEN None ELSE IF to >= from THEN to - from ELSE 0

(***************************************************************************)
(* get_http_requests                                                       *)
(***************************************************************************)

RequestRow(r) ==
  [sent |-> Elapsed(r.ts, FirstTime("send", r.id)),
   served |-> Elapsed(FirstTime("deliver", r.id), FirstTime("send", r.id)),
   closed |-> Elapsed(r.ts, FirstTime("close", r.id))]

\* A request without a status that was not closed later is called in flight.
InFlight(table) ==
  Cardinality({id \in DOMAIN table : table[id].sent = None /\ table[id].closed \in {None, 0}})

HttpRequests(ask) ==
  LET mine == {n \in EventRows("recv") : ask.of \in {None, appLog[n].data}}
      table == [id \in {appLog[n].id : n \in mine} |->
                  RequestRow(appLog[CHOOSE n \in mine : appLog[n].id = id])]
  IN IF TooMany(HttpClasses) \/ mine = {} THEN [ask |-> ask, table |-> None]
     ELSE [ask |-> ask, table |-> table, inFlight |-> InFlight(table)]

(***************************************************************************)
(* get_http_queue_depth                                                    *)
(***************************************************************************)

\* Send completes a request, Close only one that has no Send.
CompletedAt(id) ==
  IF EventRowsOf("send", id) # {} THEN FirstTime("send", id) ELSE FirstTime("close", id)

Delivered(g) == {id \in Ids("deliver") : \E n \in EventRowsOf("deliver", id) : appLog[n].data = g}

Steps(g) ==
  {[ts |-> FirstTime("deliver", id), delta |-> 1, id |-> id] : id \in Delivered(g)}
    \union
  {[ts |-> CompletedAt(id), delta |-> -1, id |-> id] :
     id \in {i \in Delivered(g) : CompletedAt(i) # None}}

\* At one time deliveries come first.
StepBefore(a, b) ==
  \/ a.ts < b.ts
  \/ a.ts = b.ts /\ (a.delta > b.delta \/ (a.delta = b.delta /\ a.id < b.id))

StepsInOrder(g) == SetInOrder(Steps(g), {p \in Steps(g) \X Steps(g) : StepBefore(p[1], p[2])})

WalkStep(w, step) ==
  LET depth == Max({0, w.depth + step.delta})
  IN [depth |-> depth, peak |-> Max({w.peak, depth}),
      area |-> w.area + w.depth * (step.ts - w.ts), ts |-> step.ts]

Walk(steps) ==
  LET walk[k \in 0 .. Len(steps)] ==
        IF k = 0 THEN [depth |-> 0, peak |-> 0, area |-> 0, ts |-> steps[1].ts]
        ELSE WalkStep(walk[k - 1], steps[k])
  IN walk[Len(steps)]

DepthOf(g) ==
  LET steps == StepsInOrder(g)
      walk == Walk(steps)
  IN [peak |-> walk.peak, area |-> walk.area, span |-> Last(steps).ts - Head(steps).ts,
      completions |-> Cardinality({s \in Steps(g) : s.delta = -1})]

\* Without a delivery there is no answer, whatever else is there.
HttpQueueDepth(ask) ==
  IF EventRows("deliver") = {} \/ TooMany({"deliver", "send", "close"}) THEN [ask |-> ask, table |-> None]
  ELSE [ask |-> ask, table |-> [g \in {appLog[n].data : n \in EventRows("deliver")} |-> DepthOf(g)]]

(***************************************************************************)
(* get_quic_connections, get_quic_cid_distribution, get_quic_ack_delays    *)
(***************************************************************************)

\* With a filter only connections whose creation shows the process count.
OfTheProcess(ask, classes) ==
  LET named == {id \in Ids("created") : \E n \in EventRowsOf("created", id) : appLog[n].data = ask.of}
  IN IF ask.of # None THEN named ELSE UNION {Ids(c) : c \in classes}

Numbers(id) == {appLog[n].data.number : n \in EventRowsOf("packet", id)}

ConnectionRow(id) ==
  [lifetime |-> LET l == Elapsed(FirstTime("created", id), FirstTime("closed", id))
                IN IF l = None THEN 0 ELSE l,
   received |-> Cardinality(EventRowsOf("packet", id)), sent |-> Cardinality(EventRowsOf("sent", id)),
   lost |-> IF Numbers(id) = {} THEN 0
            ELSE Max(Numbers(id)) - Min(Numbers(id)) + 1 - Cardinality(Numbers(id))]

QuicConnections(ask) ==
  LET classes == {"created", "closed", "packet", "sent"}
      mine == OfTheProcess(ask, classes)
  IN IF TooMany(classes) \/ mine = {} THEN [ask |-> ask, table |-> None]
     ELSE [ask |-> ask, table |-> [id \in mine |-> ConnectionRow(id)]]

CpusOf(ids) == UNION {{appLog[n].data.cpu : n \in EventRowsOf("packet", id)} : id \in ids}

CpuCount == Max({0} \union CpusOf(Ids("packet"))) + 1

\* A connection whose creation was not seen has no CID.
BucketOf(id) == IF id \in Ids("created") THEN CidHash[id] % CpuCount ELSE -1

CidDistribution(ask) ==
  LET ids == Ids("created") \union Ids("packet")
      In(b) == {id \in ids : BucketOf(id) = b}
  IN IF TooMany({"created", "packet"}) \/ ids = {} THEN [ask |-> ask, table |-> None]
     ELSE [ask |-> ask, table |-> [b \in {BucketOf(id) : id \in ids} |->
                                     [connections |-> In(b), cpus |-> CpusOf(In(b))]]]

\* Nearest rank: the ceil(q * len)-th smallest delay; q is in thousandths.
SmallerDelay(m, n) ==
  appLog[m].data < appLog[n].data \/ (appLog[m].data = appLog[n].data /\ m < n)
Shares == {500, 990, 999}
RankOf(count, q) == Max({1, (q * count + 999) \div 1000})
NearestRank(acks, q) ==
  LET ordered == SetInOrder(acks, {p \in acks \X acks : SmallerDelay(p[1], p[2])})
  IN appLog[ordered[RankOf(Cardinality(acks), q)]].data

AckPercentiles(ask) ==
  LET mine == OfTheProcess(ask, {"ack"}) \intersect Ids("ack")
  IN IF TooMany({"created", "ack"}) \/ mine = {} THEN [ask |-> ask, table |-> None]
     ELSE [ask |-> ask, table |-> [id \in mine |->
             [q \in Shares |-> NearestRank(EventRowsOf("ack", id), q)]]]

AskApp(ask) ==
  /\ appAnswer = None /\ appLog # << >>
  /\ (Subject(Head(appLog).class) = "http") = (ask.tool \in {"requests", "depth"})
  /\ appAnswer' = CASE ask.tool = "requests" -> HttpRequests(ask)
                    [] ask.tool = "depth" -> HttpQueueDepth(ask)
                    [] ask.tool = "connections" -> QuicConnections(ask)
                    [] ask.tool = "cids" -> CidDistribution(ask)
                    [] ask.tool = "acks" -> AckPercentiles(ask)
  /\ UNCHANGED <<appClock, appLog>>

AppNext ==
  \/ \E class \in DOMAIN Follows, id \in Requests \union Connections, missing \in BOOLEAN :
       Happens(class, id, missing)
  \/ AppTimePasses
  \/ \E ask \in AppAsks : AskApp(ask)

AppSpec == AppInit /\ [][AppNext]_appVars

(***************************************************************************)
(* Properties                                                              *)
(***************************************************************************)

AppAnswered(tool) == appAnswer # None /\ appAnswer.ask.tool = tool /\ appAnswer.table # None

\* When it happened on the traced machine, first; None if it did not.
Happened(class, id) ==
  LET mine == {n \in EventsOf(id) : appLog[n].class = class}
  IN IF mine = {} THEN None ELSE appLog[Min(mine)].ts

Complete(id) == \A n \in EventsOf(id) : ~appLog[n].missing

\* The request's response began, or it was closed without one.
Answered(id) == IF Happened("send", id) # None THEN Happened("send", id) ELSE Happened("close", id)
WaitsAt(id, t) == Happened("deliver", id) <= t /\ (Answered(id) = None \/ t <= Answered(id))

\* get_http_requests against the lives of the requests: one all of whose events are
\* in the trace has its true latencies however many parts its response has, and is
\* called in flight only while it is unanswered.
RequestsExact ==
  AppAnswered("requests") =>
    /\ \A id \in DOMAIN appAnswer.table : Complete(id) =>
         appAnswer.table[id] =
           [sent |-> Elapsed(Happened("recv", id), Happened("send", id)),
            served |-> Elapsed(Happened("deliver", id), Happened("send", id)),
            closed |-> Elapsed(Happened("recv", id), Happened("close", id))]
    /\ MissingEvents = {} /\ appAnswer.ask.of = None =>
         LET flying == {id \in Requests : Happened("recv", id) # None /\ Answered(id) = None}
             atOnce == {id \in Requests : /\ Happened("send", id) = None
                                          /\ Happened("close", id) # None
                                          /\ Happened("close", id) = Happened("recv", id)}
         IN appAnswer.inFlight = Cardinality(flying \union atOnce)

\* get_http_queue_depth: in a URL group whose delivered requests are all complete the
\* peak depth is the largest number that waited at one time, the area under the
\* depth the time they waited together, and each is completed at most once.
DepthExact ==
  AppAnswered("depth") =>
    \A g \in DOMAIN appAnswer.table :
      LET row == appAnswer.table[g]
          ids == Delivered(g)
          ends == {Answered(id) : id \in ids} \ {None}
          until == Max({Happened("deliver", id) : id \in ids} \union ends)
          Waited(id) == (IF Answered(id) = None THEN until ELSE Answered(id)) - Happened("deliver", id)
      IN (\A id \in ids : Complete(id)) =>
           /\ row.peak = Max({Cardinality({id \in ids : WaitsAt(id, t)}) : t \in 1 .. appClock})
           /\ row.area = SumOver(ids, Waited)
           /\ row.completions = Cardinality({id \in ids : Answered(id) # None})

OfProcessTruly(id, process) ==
  \E n \in EventsOf(id) : appLog[n].class = "created" /\ process \in {None, appLog[n].data}

\* The QUIC tools by connection: a process filter keeps connections of the process
\* only, and all whose creation the trace has, with all their packets, wherever the
\* trace begins.
ConnectionsExact ==
  /\ AppAnswered("connections") \/ AppAnswered("acks") =>
       LET ids == DOMAIN appAnswer.table
       IN /\ \A id \in ids : OfProcessTruly(id, appAnswer.ask.of)
          /\ {id \in Ids("created") : /\ OfProcessTruly(id, appAnswer.ask.of)
                                      /\ AppAnswered("connections") \/ id \in Ids("ack")} \subseteq ids
  /\ AppAnswered("connections") =>
       LET table == appAnswer.table
           Counted(id) == table[id].received + table[id].sent
       IN \A id \in DOMAIN table :
            /\ Counted(id) = Cardinality({n \in EventsOf(id) : /\ appLog[n].class \in {"packet", "sent"}
                                                               /\ ~appLog[n].missing})
            /\ Complete(id) /\ Happened("closed", id) # None =>
                 table[id].lifetime = Happened("closed", id) - Happened("created", id)

\* get_quic_cid_distribution: every connection is in one bucket, the CIDs of one hash
\* in the same, and the processors of a bucket are among those counted.
CidsExact ==
  AppAnswered("cids") =>
    LET table == appAnswer.table
    IN /\ \A b, c \in DOMAIN table : b # c => table[b].connections \intersect table[c].connections = {}
       /\ \A b \in DOMAIN table : b < CpuCount /\ table[b].cpus \subseteq 0 .. CpuCount - 1
       /\ \A i, j \in Ids("created") : CidHash[i] = CidHash[j] =>
            \A b \in DOMAIN table : i \in table[b].connections <=> j \in table[b].connections

\* get_quic_ack_delays: a percentile is the least delay that as large a share of the
\* ACKs did not exceed.
AcksExact ==
  AppAnswered("acks") =>
    \A id \in DOMAIN appAnswer.table : \A q \in Shares :
      LET rows == EventRowsOf("ack", id)
          p == appAnswer.table[id][q]
          NotAbove(d) == 1000 * Cardinality({n \in rows : appLog[n].data <= d})
      IN NotAbove(p) >= q * Cardinality(rows) /\ NotAbove(p - 1) < q * Cardinality(rows)

\* What the tools of HTTP.sys and of MsQuic say of requests and connections, from
\* event tables that may have holes, is so (app_layer.py).
AppLayersExact == RequestsExact /\ DepthExact /\ ConnectionsExact /\ CidsExact /\ AcksExact
=============================================================================
