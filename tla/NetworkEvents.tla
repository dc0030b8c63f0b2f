--------------------------- MODULE NetworkEvents ---------------------------
(***************************************************************************)
(* The TCP, UDP and AFD tools (tools/network_events.py and                 *)
(* network_events_extra.py) and the enrichment they read through           *)
(* (native/aggregators/network.py): most TCP rows carry only the id of a   *)
(* connection, and rows written from a DPC no process; what they lack is   *)
(* filled in from other rows of the same id.  The traced machine is the    *)
(* environment: connections live while time passes and leave rows, the     *)
(* trace may begin at any point of their lives, and ids are used again.    *)
(***************************************************************************)
EXTENDS ToolData, RowSequences

CONSTANTS
  Links,              \* TCP connections, UDP flows or sockets, 1 .. n by age
  IdOf,               \* ConnId or SocketHandle of each; equal when used again
  OwnerOf, ThreadOf,  \* the process and thread of each
  OpenedBy,           \* "connect" or "accept"
  RowBatches,         \* batch sizes of the event store
  BatchWindow,        \* _AFD_BATCH_WINDOW_US
  NetAsks,            \* [tool, process]
  MaxNetClock, MaxNetRows

ASSUME NetworkEventsAssumption ==
  /\ Links = 1 .. Cardinality(Links)
  /\ IdOf \in [Links -> Nat \ {0}] /\ OwnerOf \in [Links -> Nat \ {0}]
  /\ ThreadOf \in [Links -> Nat] /\ OpenedBy \in [Links -> {"connect", "accept"}]
  /\ RowBatches \subseteq Nat \ {0} /\ BatchWindow \in Nat

VARIABLES
  layer,      \* "tcp", "udp" or "afd"
  inMemory,   \* the tables are frames of the trace, not the event store
  netClock,
  netLog,     \* rows: [class, link, ts, owned]
  netAnswer

netVars == <<layer, inMemory, netClock, netLog, netAnswer>>

NetInit ==
  /\ layer \in {"tcp", "udp", "afd"} /\ inMemory \in BOOLEAN
  /\ inMemory => layer = "tcp"   \* filling in twice changes nothing for the others
  /\ netClock = 0 /\ netLog = << >> /\ netAnswer = None

(***************************************************************************)
(* The traced machine                                                      *)
(***************************************************************************)

RowsOfLink(l) == {n \in DOMAIN netLog : netLog[n].link = l}
RowsIn(l, classes) == {n \in RowsOfLink(l) : netLog[n].class \in classes}

Opening == {"connect", "accept"}
NetClasses ==
  [tcp |-> Opening \union {"recv", "send", "retransmit"}, udp |-> {"recv", "send"},
   afd |-> Opening \union {"recv", "send", "close"}]

\* Opened first and closed last; an id is used again when its user is gone.
InItsLife(l, class) ==
  /\ class \in Opening => class = OpenedBy[l] /\ RowsOfLink(l) = {}
  /\ RowsIn(l, {"close"}) = {}
  /\ \A m \in Links : m > l /\ IdOf[m] = IdOf[l] => RowsOfLink(m) = {}

\* Rows that show the 5-tuple (native/manifest.py); those written from a DPC do
\* not show the process.
Shows(class) == layer = "udp" \/ class \in Opening \union {"retransmit"}

Leaves(l, class, owned) ==
  /\ netAnswer = None /\ Len(netLog) < MaxNetRows
  /\ class \in NetClasses[layer] /\ InItsLife(l, class)
  /\ class \in Opening => owned
  /\ netLog' = Append(netLog, [class |-> class, link |-> l, ts |-> netClock, owned |-> owned])
  /\ UNCHANGED <<layer, inMemory, netClock, netAnswer>>

NetTimePasses ==
  /\ netAnswer = None /\ netClock < MaxNetClock
  /\ netClock' = netClock + 1
  /\ UNCHANGED <<layer, inMemory, netLog, netAnswer>>

(***************************************************************************)
(* Enrichment (native/aggregators/network.py)                              *)
(***************************************************************************)

\* Process 0 and an absent 5-tuple are what the tools call unknown.
Written(r) ==
  [class |-> r.class, id |-> IF layer = "udp" THEN 0 ELSE IdOf[r.link], ts |-> r.ts,
   tuple |-> IF Shows(r.class) THEN r.link ELSE None,
   pid |-> IF r.owned THEN OwnerOf[r.link] ELSE 0, tid |-> ThreadOf[r.link]]

\* The tables that tell, in the order they are read: a later row overwrites.
StoreOrderOfEstablished ==
  [tcp |-> <<"connect", "accept">>, udp |-> << >>, afd |-> <<"accept", "connect", "recv", "send">>]
StoreOrder ==
  [tcp |-> <<"retransmit", "connect", "accept">>, udp |-> << >>,
   afd |-> <<"accept", "connect", "recv", "send">>]
MemoryOrder == [StoreOrder EXCEPT !.tcp = <<"connect", "accept", "retransmit">>]

InOrder(rows, order) ==
  FlattenSeq([i \in DOMAIN order |-> SelectSeq(rows, LAMBDA r : r.class = order[i])])

TupleFor(id, tellers) ==
  LET told == SelectSeq(tellers, LAMBDA r : r.id = id /\ r.tuple # None)
  IN IF told = << >> THEN None ELSE Last(told).tuple
PidFor(id, tellers) ==
  LET told == SelectSeq(tellers, LAMBDA r : r.id = id /\ r.pid # 0)
  IN IF told = << >> THEN 0 ELSE Last(told).pid

\* _enrich_by_id: only what a row lacks is filled in.
FilledFrom(rows, tellers) ==
  [n \in DOMAIN rows |->
     LET r == rows[n]
     IN IF r.id = 0 THEN r
        ELSE [r EXCEPT !.tuple = IF @ = None THEN TupleFor(r.id, tellers) ELSE @,
                       !.pid = IF @ = 0 THEN PidFor(r.id, tellers) ELSE @]]

\* Frames of the trace are filled in once in place, TCP ones from rows with a
\* 5-tuple, and, like the store, as they are read.
Enriched ==
  LET rows == [n \in DOMAIN netLog |-> Written(netLog[n])]
      tellers == SelectSeq(InOrder(rows, MemoryOrder[layer]), LAMBDA r : layer = "tcp" => r.tuple # None)
      once == IF inMemory THEN FilledFrom(rows, tellers) ELSE rows
  IN FilledFrom(once, InOrder(once, StoreOrder[layer]))

TableOf(class) ==
  LET rows == Enriched IN Select(rows, {r \in ToSet(rows) : r.class = class})

Asked(rows, ask) == Select(rows, {r \in ToSet(rows) : ask.process \in {None, r.pid}})

CountIn(class, rows, P(_)) ==
  Cardinality({n \in DOMAIN rows : rows[n].class = class /\ P(rows[n])})

Times(rows, P(_)) == {rows[n].ts : n \in {m \in DOMAIN rows : P(rows[m])}}

(***************************************************************************)
(* The tools                                                               *)
(***************************************************************************)

ByTuple(rows) ==
  LET Row(t) == LET Mine(r) == r.tuple = t
                IN [recv |-> CountIn("recv", rows, Mine), send |-> CountIn("send", rows, Mine),
                    retransmits |-> CountIn("retransmit", rows, Mine),
                    span |-> Max(Times(rows, Mine)) - Min(Times(rows, Mine))]
  IN [t \in {r.tuple : r \in ToSet(rows)} |-> Row(t)]

\* get_connection_summary
Summary(ask) ==
  ByTuple(Asked(SelectSeq(Enriched, LAMBDA r : r.class \in {"recv", "send", "retransmit"}), ask))

\* get_udp_flow_summary
Flows(ask) == ByTuple(Asked(Enriched, ask))

\* get_tcp_retransmits: of connections that have some, out of all their packets.
Retransmits(ask) ==
  LET all == Summary(ask)
  IN [t \in {u \in DOMAIN all : all[u].retransmits > 0} |->
        [retransmits |-> all[t].retransmits, of |-> all[t].recv + all[t].send + all[t].retransmits]]

\* get_per_process_socket_throughput: packets and time range of each direction.
Throughput(ask) ==
  LET rows == SelectSeq(Enriched, LAMBDA r : r.class \in {"recv", "send"})
      Row(p, d) == LET Mine(r) == r.pid = p /\ r.class = d
                   IN [packets |-> CountIn(d, rows, Mine),
                       span |-> IF Times(rows, Mine) = {} THEN 0
                                ELSE Max(Times(rows, Mine)) - Min(Times(rows, Mine))]
  IN [p \in {r.pid : r \in ToSet(rows)} |-> [d \in {"recv", "send"} |-> Row(p, d)]]

\* sort_values of a batch, by process, thread and time; the batches in turn.
ByThread(rows, size) ==
  LET Batch(n) == (n - 1) \div size
      Later(m, n) == rows[m].ts < rows[n].ts \/ (rows[m].ts = rows[n].ts /\ m < n)
      Comes(m, n) ==
        \/ Batch(m) < Batch(n)
        \/ /\ Batch(m) = Batch(n)
           /\ \/ rows[m].pid < rows[n].pid
              \/ /\ rows[m].pid = rows[n].pid
                 /\ rows[m].tid < rows[n].tid \/ (rows[m].tid = rows[n].tid /\ Later(m, n))
      places == [n \in DOMAIN rows |-> n]
  IN Arranged(places, {c \in (DOMAIN rows) \X (DOMAIN rows) : Comes(c[1], c[2])})

\* _compute_event_latencies_from_batches: the last time of a thread is kept from
\* one row, and one batch, to the next.
NoGaps == [last |-> << >>, gaps |-> << >>]

Gap(g, r) == [pid |-> r.pid, tid |-> r.tid, gap |-> r.ts - g.last[<<r.pid, r.tid>>]]
NowLast(g, r) ==
  LET key == <<r.pid, r.tid>>
  IN [k \in DOMAIN g.last \union {key} |-> IF k = key THEN r.ts ELSE g.last[k]]

GapRow(g, r) ==
  [last |-> NowLast(g, r),
   gaps |-> IF <<r.pid, r.tid>> \in DOMAIN g.last /\ Gap(g, r).gap >= 0
            THEN Append(g.gaps, Gap(g, r)) ELSE g.gaps]

GapsInAnew(rows, size) ==
  LET order == ByThread(rows, size)
      upTo[n \in 0 .. Len(rows)] ==
        IF n = 0 THEN NoGaps
        ELSE GapRow([upTo[n - 1] EXCEPT !.last = IF (n - 1) % size = 0 THEN << >> ELSE @], rows[order[n]])
  IN upTo[Len(rows)].gaps
GapsIn(rows, size) ==
  LET order == ByThread(rows, size)
      upTo[n \in 0 .. Len(rows)] ==
        IF n = 0 THEN NoGaps ELSE GapRow(upTo[n - 1], rows[order[n]])
  IN upTo[Len(rows)].gaps

\* get_connect_latency, get_accept_latency; filtered after the gaps are taken.
Latencies(class, size, ask) == Asked(GapsIn(TableOf(class), size), ask)

\* get_afd_batching: receives of a socket on a thread, apart by more than a gap.
Completions(ask) ==
  LET rows == Asked(TableOf("recv"), ask)
      At(k) == SortSeq(SelectSeq(rows, LAMBDA r : <<r.id, r.tid>> = k), LAMBDA a, b : a.ts < b.ts)
      Row(s) == [events |-> Len(s),
                 batches |-> 1 + Cardinality({n \in 2 .. Len(s) : s[n].ts - s[n - 1].ts > BatchWindow})]
  IN [k \in {<<r.id, r.tid>> : r \in ToSet(rows)} |-> Row(At(k))]

\* get_socket_lifecycle: by process and handle; the earliest opening, the latest
\* close, "open" without one and "?" when that was before.
Lifecycle(ask) ==
  LET rows == Asked(Enriched, ask)
      Row(k) ==
        LET Opens(r) == r.class \in Opening /\ <<r.pid, r.id>> = k
            Closes(r) == r.class = "close" /\ <<r.pid, r.id>> = k
            Mine(r) == <<r.pid, r.id>> = k
            opened == Times(rows, Opens)
            closed == Times(rows, Closes)
        IN [duration |-> CASE closed = {} -> "open"
                           [] closed # {} /\ opened # {} /\ Max(closed) >= Min(opened) ->
                                ToString(Max(closed) - Min(opened))
                           [] OTHER -> "?",
            recv |-> CountIn("recv", rows, Mine), send |-> CountIn("send", rows, Mine)]
  IN [k \in {<<r.pid, r.id>> : r \in ToSet(rows)} |-> Row(k)]

NetReply(ask, size) ==
  CASE ask.tool = "summary" -> Summary(ask)
    [] ask.tool = "flows" -> Flows(ask)
    [] ask.tool = "retransmits" -> Retransmits(ask)
    [] ask.tool = "throughput" -> Throughput(ask)
    [] ask.tool \in Opening -> Latencies(ask.tool, size, ask)
    [] ask.tool = "batching" -> Completions(ask)
    [] ask.tool = "lifecycle" -> Lifecycle(ask)

NetTools ==
  [tcp |-> Opening \union {"summary", "retransmits", "throughput"}, udp |-> {"flows", "throughput"},
   afd |-> Opening \union {"batching", "lifecycle"}]

AskNetwork(ask, size) ==
  /\ netAnswer = None /\ netLog # << >>
  /\ ask.tool \in NetTools[layer]
  /\ netAnswer' = [ask |-> ask, table |-> NetReply(ask, size)]
  /\ UNCHANGED <<layer, inMemory, netClock, netLog>>

NetNext ==
  \/ \E l \in Links, owned \in BOOLEAN, class \in UNION {NetClasses[y] : y \in DOMAIN NetClasses} :
       Leaves(l, class, owned)
  \/ NetTimePasses
  \/ \E ask \in NetAsks, size \in RowBatches : AskNetwork(ask, size)

NetSpec == NetInit /\ [][NetNext]_netVars

(***************************************************************************)
(* Properties                                                              *)
(***************************************************************************)

NetAnswered(tools) == netAnswer # None /\ netAnswer.ask.tool \in tools

\* No other connection in the trace has the id.
Alone(l) == \A m \in Links \ {l} : IdOf[m] = IdOf[l] => RowsOfLink(m) = {}

Placed(l) == \E n \in RowsOfLink(l) : Shows(netLog[n].class)
SpanOf(l, classes) ==
  LET ts == {netLog[n].ts : n \in RowsIn(l, classes)} IN IF ts = {} THEN 0 ELSE Max(ts) - Min(ts)
Packets == {"recv", "send", "retransmit"}

\* The summaries by 5-tuple and by process: a connection whose 5-tuple is in any
\* of its rows has all its packets and its whole time range in its own line,
\* whichever row told it and when, wherever the tables are kept; a connection
\* nothing tells of is in the unknown line; and however ids are used again no
\* packet is lost or counted twice.
PacketsAttributed ==
  /\ NetAnswered({"summary", "flows"}) /\ netAnswer.ask.process = None =>
       LET table == netAnswer.table
       IN /\ \A l \in Links : Alone(l) /\ Placed(l) /\ RowsIn(l, Packets) # {} =>
               /\ l \in DOMAIN table
               /\ table[l] = [recv |-> Cardinality(RowsIn(l, {"recv"})),
                              send |-> Cardinality(RowsIn(l, {"send"})),
                              retransmits |-> Cardinality(RowsIn(l, {"retransmit"})),
                              span |-> SpanOf(l, Packets)]
          /\ \A l \in DOMAIN table \ {None} : RowsIn(l, {"recv", "send"}) # {} \/ Placed(l)
          /\ SumOver(DOMAIN table, LAMBDA t : table[t].recv + table[t].send + table[t].retransmits)
               = Cardinality({n \in DOMAIN netLog : netLog[n].class \in Packets})
  /\ NetAnswered({"retransmits"}) =>
       \A l \in Links : Alone(l) /\ RowsIn(l, {"retransmit"}) # {} =>
         /\ l \in DOMAIN netAnswer.table
         /\ netAnswer.table[l].of = Cardinality(RowsIn(l, Packets))
  /\ NetAnswered({"throughput"}) =>
       LET table == netAnswer.table
           Of(p, d) == {n \in DOMAIN netLog : netLog[n].class = d /\ OwnerOf[netLog[n].link] = p}
           known == \A n \in DOMAIN netLog : netLog[n].class \in {"recv", "send"} =>
                      netLog[n].owned \/ (layer = "tcp" /\ RowsIn(netLog[n].link, Opening) # {})
       IN known /\ (\A l \in Links : Alone(l)) =>
            \A p \in DOMAIN table : \A d \in {"recv", "send"} :
              table[p][d].packets = Cardinality(Of(p, d))

\* The places of the rows of a class that a thread left, in the order of the log.
LeftBy(log, class, p, t) ==
  Select([n \in DOMAIN log |-> n],
         {n \in DOMAIN log : /\ log[n].class = class /\ OwnerOf[log[n].link] = p
                             /\ ThreadOf[log[n].link] = t})

\* The rows of the table are the gaps from each row asked for to the next one of
\* its thread, and no others.
GapsBetween(log, table, ask) ==
  /\ \A g \in ToSet(table) : LeftBy(log, ask.tool, g.pid, g.tid) # << >> /\ ask.process \in {None, g.pid}
  /\ \A l \in Links : ask.process \in {None, OwnerOf[l]} =>
       LET left == LeftBy(log, ask.tool, OwnerOf[l], ThreadOf[l])
           gaps == Select(table, {g \in ToSet(table) : g.pid = OwnerOf[l] /\ g.tid = ThreadOf[l]})
       IN left # << >> =>
            /\ Len(gaps) = Len(left) - 1
            /\ \A n \in DOMAIN gaps : gaps[n].gap = log[left[n + 1]].ts - log[left[n]].ts

\* The gaps between the connects (or accepts) of the threads, in batches of any
\* size, each sorted by itself.
GapsExact == NetAnswered(Opening) => GapsBetween(netLog, netAnswer.table, netAnswer.ask)

\* get_socket_lifecycle and get_afd_batching: a socket whose handle is not used
\* again and whose process any of its transfers tells has one line, with the
\* time from its opening to its close and all its transfers, also those written
\* from a DPC; and no receive is in two batches or in none.
SocketsExact ==
  /\ NetAnswered({"lifecycle"}) =>
       \A l \in Links :
         LET key == <<OwnerOf[l], IdOf[l]>>
             table == netAnswer.table
             opened == RowsIn(l, Opening)
             closed == RowsIn(l, {"close"})
         IN /\ Alone(l) /\ netAnswer.ask.process \in {None, OwnerOf[l]}
            /\ \E n \in RowsIn(l, Opening \union {"recv", "send"}) : netLog[n].owned
            => /\ key \in DOMAIN table
               /\ <<0, IdOf[l]>> \notin DOMAIN table
               /\ table[key].recv = Cardinality(RowsIn(l, {"recv"}))
               /\ table[key].send = Cardinality(RowsIn(l, {"send"}))
               /\ table[key].duration = CASE closed = {} -> "open"
                                          [] closed # {} /\ opened = {} -> "?"
                                          [] OTHER -> ToString(netLog[Max(closed)].ts - netLog[Min(opened)].ts)
  /\ NetAnswered({"batching"}) =>
       \A k \in DOMAIN netAnswer.table :
         LET row == netAnswer.table[k]
             ts == {netLog[n].ts : n \in {m \in DOMAIN netLog : /\ netLog[m].class = "recv"
                                            /\ <<IdOf[netLog[m].link], ThreadOf[netLog[m].link]>> = k}}
         IN /\ row.batches <= row.events
            /\ netAnswer.ask.process = None =>
                 row.batches = 1 + Cardinality({s \in ts : s # Min(ts) /\
                                                 \A u \in ts : u < s => s - u > BatchWindow})

\* Packets by connection and by process, and the sockets they went through, agree
\* with the trace (network.py, network_events_extra.py).
TrafficExact == PacketsAttributed /\ SocketsExact
=============================================================================
