--------------------------- MODULE PacketCapture ---------------------------
(***************************************************************************)
(* The packet tools (tools/packet_capture.py).  A trace taken with pktmon   *)
(* is converted by pktmon.exe to a text file and a PCAPNG file, which are   *)
(* joined to a table; all of them are kept beside the trace under its       *)
(* identity (size and time of change).  The rows of a capture are what the  *)
(* traced machine let the tools see, so they are the environment's: they    *)
(* appear one by one, and then a tool is asked.                             *)
(***************************************************************************)
EXTENDS ToolData, RowSequences

CONSTANTS
  PacketKeys, FlowOf,   \* what identifies a packet on the wire, and its 5-tuple
  PacketTimes,          \* times rows may have, in microseconds
  MatchGap,             \* _MATCH_WINDOW_US
  LayerGap,             \* _PKTMON_LAYER_WINDOW_US
  LastStage,            \* the last index of _PKTMON_TX_PATH and _PKTMON_RX_PATH
  PacketBatches,        \* batch sizes of the event store
  MaxRows,              \* bound on the rows of each source
  MaxPackets, MaxVersions, MaxCalls

ASSUME PacketCaptureAssumption ==
  /\ PacketTimes \subseteq Nat /\ MatchGap \in Nat /\ LayerGap \in Nat
  /\ LastStage \in Nat \ {0} /\ PacketBatches \subseteq Nat \ {0}
  /\ None \notin Nat \union [of : Nat, whole : BOOLEAN]

VARIABLES
  source,   \* "memory", "store", "layers" (a table converted before), "pktmon"
  etl,      \* version of the trace file: its identity
  disk,     \* [content, stamp] of each kept file: text, pcap, table
  call,     \* the call that converts: [at, file, wants], or None
  calls,    \* number of calls so far
  got,      \* what the last call returned: [of, whole], or None
  spoiled,  \* the trace file was replaced under a call
  seen,     \* rows of the capture: [ts, dir, key, stage, packet]
  packetAnswer

fileVars == <<etl, disk, call, calls, got, spoiled>>
captureVars == <<source, fileVars, seen, packetAnswer>>

KeptFiles == {"text", "pcap", "table"}
NoFile == [content |-> None, stamp |-> None]

CaptureInit ==
  /\ source \in {"memory", "store", "layers", "pktmon"}
  /\ etl = 1 /\ disk = [f \in KeptFiles |-> NoFile]
  /\ call = None /\ calls = 0 /\ got = None /\ spoiled = FALSE
  /\ seen = << >> /\ packetAnswer = None

(***************************************************************************)
(* Conversion (_ensure_pktmon_text, _ensure_pktmon_pcapng,                 *)
(* _pktmon_packet_capture_df)                                              *)
(***************************************************************************)

\* A kept file is used when the trace is still the one it is stamped with.
CurrentWhenPresent(f) == disk[f].content # None
Current(f) == disk[f].content # None /\ disk[f].stamp = etl

Content(whole) == [of |-> etl, whole |-> whole]

At(step, f) == call # None /\ call.at = step /\ call.file = f
GoesTo(step, f) == call' = [call EXCEPT !.at = step, !.file = f]
Keeps(f, content) == disk' = [disk EXCEPT ![f].content = content]
Completed(f) == [of |-> disk[f].content.of, whole |-> TRUE]
Ends(result) == call' = None /\ got' = result

\* A call looks for the table first; the summary only needs the text.
CallBegins(wants) ==
  /\ source = "pktmon" /\ call = None /\ calls < MaxCalls
  /\ calls' = calls + 1 /\ got' = None
  /\ call' = [at |-> "find", file |-> IF wants = "table" THEN "table" ELSE "text",
              wants |-> wants]
  /\ UNCHANGED <<source, etl, disk, spoiled, seen, packetAnswer>>

FindsTable ==
  /\ At("find", "table")
  /\ IF Current("table") THEN Ends(disk["table"].content)
     ELSE GoesTo("find", "text") /\ UNCHANGED got
  /\ UNCHANGED <<source, etl, disk, calls, spoiled, seen, packetAnswer>>

GoesOn(f) == IF f = "text" /\ call.wants = "table" THEN GoesTo("find", "pcap")
             ELSE GoesTo("join", "table")

FindsFile(f) ==
  /\ At("find", f)
  /\ IF Current(f) THEN GoesOn(f) /\ UNCHANGED disk
     ELSE GoesTo("unstamp", f) /\ Keeps(f, None)
  /\ UNCHANGED <<source, etl, calls, got, spoiled, seen, packetAnswer>>

\* The stale stamp goes after the stale file; then pktmon writes.
Unstamps(f) ==
  /\ At("unstamp", f)
  /\ disk' = [disk EXCEPT ![f] = [content |-> Content(FALSE), stamp |-> None]]
  /\ GoesTo("convert", f)
  /\ UNCHANGED <<source, etl, calls, got, spoiled, seen, packetAnswer>>

Converted(f) ==
  /\ At("convert", f)
  /\ Keeps(f, Completed(f)) /\ GoesTo("stamp", f)
  /\ UNCHANGED <<source, etl, calls, got, spoiled, seen, packetAnswer>>

\* pktmon fails or is stopped after two minutes: what it wrote stays, unstamped.
ConversionFails(f) ==
  /\ At("convert", f)
  /\ \E rest \in {None, disk[f].content} : Keeps(f, rest)
  /\ Ends(None)
  /\ UNCHANGED <<source, etl, calls, spoiled, seen, packetAnswer>>

Stamps(f) ==
  /\ At("stamp", f)
  /\ disk' = [disk EXCEPT ![f].stamp = etl]
  /\ IF f = "table" THEN Ends(disk["table"].content) ELSE GoesOn(f) /\ UNCHANGED got
  /\ UNCHANGED <<source, etl, calls, spoiled, seen, packetAnswer>>

\* The two files must have as many packets, of the same sizes; parts of them
\* have not.  The table is written over the old one.
Joins ==
  LET text == disk["text"].content  pcap == disk["pcap"].content
  IN /\ At("join", "table")
     /\ \/ call.wants = "summary" /\ Ends(text) /\ UNCHANGED disk
        \/ call.wants = "table" /\ text # pcap /\ Ends(None) /\ UNCHANGED disk
        \/ /\ call.wants = "table" /\ text = pcap
           /\ Keeps("table", [text EXCEPT !.whole = FALSE]) /\ GoesTo("write", "table")
           /\ UNCHANGED got
     /\ UNCHANGED <<source, etl, calls, spoiled, seen, packetAnswer>>

WritesTable ==
  /\ At("write", "table")
  /\ Keeps("table", disk["text"].content) /\ GoesTo("stamp", "table")
  /\ UNCHANGED <<source, etl, calls, got, spoiled, seen, packetAnswer>>

\* The server ends at any point; pktmon, if it was running, goes on to its end.
ServerEnds ==
  /\ call # None /\ Ends(None)
  /\ \/ UNCHANGED disk
     \/ \E f \in {"text", "pcap"} : /\ At("convert", f)
                                    /\ Keeps(f, Completed(f))
  /\ UNCHANGED <<source, etl, calls, spoiled, seen, packetAnswer>>

TraceIsReplaced ==
  /\ source = "pktmon" /\ etl < MaxVersions
  /\ etl' = etl + 1 /\ got' = None /\ spoiled' = (spoiled \/ call # None)
  /\ UNCHANGED <<source, disk, call, calls, seen, packetAnswer>>

(***************************************************************************)
(* Rows                                                                    *)
(***************************************************************************)

PacketRowsOf(packet) == {n \in DOMAIN seen : seen[n].packet = packet}

NotEarlier(row) == \A n \in DOMAIN seen : row.ts >= seen[n].ts

\* NDIS rows may be in any order in the store; in memory they are sorted, rows
\* of one time in any order.
Observes(row) ==
  /\ source \in {"memory", "store"}
  /\ row.stage = 0 /\ row.packet = 0
  /\ source = "memory" => NotEarlier(row)

\* A packet appears at later stages of its path later, not at all of them; its
\* appearances within a microsecond may be told in any order.
Appears(row) ==
  LET mine == PacketRowsOf(row.packet)
  IN /\ source = "layers"
     /\ row.packet # 0
     /\ NotEarlier(row)
     /\ row.packet > 1 => PacketRowsOf(row.packet - 1) # {}
     /\ \A n \in mine : /\ seen[n].dir = row.dir /\ seen[n].key = row.key
                        /\ seen[n].stage # row.stage
                        /\ (seen[n].stage < row.stage \/ seen[n].ts = row.ts)

RowIsSeen(row) ==
  /\ packetAnswer = None /\ Len(seen) < MaxRows[source]
  /\ Observes(row) \/ Appears(row)
  /\ seen' = Append(seen, row)
  /\ UNCHANGED <<source, fileVars, packetAnswer>>

\* Rows as a tool reads them: of pktmon's those at the first stage.
Captured == Select(seen, {r \in ToSet(seen) : r.stage = 0})

\* The batches come one after the other, each sorted by itself; rows of one time
\* stay in the order they have.
SortedInBatches(rows, size) ==
  LET places == [n \in DOMAIN rows |-> n]
      Batch(n) == (n - 1) \div size
      comes == {c \in (DOMAIN rows) \X (DOMAIN rows) :
                  \/ Batch(c[1]) < Batch(c[2])
                  \/ /\ Batch(c[1]) = Batch(c[2])
                     /\ \/ rows[c[1]].ts < rows[c[2]].ts
                        \/ rows[c[1]].ts = rows[c[2]].ts /\ c[1] < c[2]}
      order == Arranged(places, comes)
  IN [n \in DOMAIN rows |-> rows[order[n]]]

ByTime(rows) == SortedInBatches(rows, Len(rows) + 1)

\* sort_by_time: what is in memory is sorted as a whole.
CapturedByTime(size) == SortedInBatches(Captured, IF source = "store" THEN size ELSE Len(seen) + 1)

(***************************************************************************)
(* Pairs of Send and Recv (get_send_recv_latency)                          *)
(***************************************************************************)

\* Sends are rows by number: pending by key, and in the expiry heap.
NoPairs == [pending |-> [k \in PacketKeys |-> << >>], heap |-> {}, pairs |-> << >>]

DropOlder(queue, ts, rows) == From(queue, {n \in DOMAIN rows : rows[n].ts >= ts})

Expired(p, now, rows) == {n \in p.heap : rows[n].ts + MatchGap < now}

Evicted(p, now, rows) ==
  LET gone == Expired(p, now, rows)
      keys == {rows[n].key : n \in gone}
  IN [p EXCEPT !.heap = @ \ gone,
               !.pending = [k \in PacketKeys |->
                  IF k \in keys THEN DropOlder(@[k], now - MatchGap, rows) ELSE @[k]]]

SendWaits(p, n, rows) ==
  [p EXCEPT !.pending[rows[n].key] = Append(@, n), !.heap = @ \union {n}]

\* The oldest send in reach is taken, also one from the future, which is lost.
TakesSend(p, n, rows) ==
  LET key == rows[n].key
      queue == DropOlder(p.pending[key], rows[n].ts - MatchGap, rows)
  IN IF queue = << >> THEN [p EXCEPT !.pending[key] = queue]
     ELSE [p EXCEPT !.pending[key] = Tail(queue),
                    !.pairs = IF rows[Head(queue)].ts > rows[n].ts THEN @
                              ELSE Append(@, <<Head(queue), n>>)]

PairRow(p, n, rows) ==
  LET e == Evicted(p, rows[n].ts, rows)
  IN IF rows[n].dir = "send" THEN SendWaits(e, n, rows) ELSE TakesSend(e, n, rows)

PairsIn(rows) ==
  LET after[n \in 0 .. Len(rows)] == IF n = 0 THEN NoPairs ELSE PairRow(after[n - 1], n, rows)
  IN after[Len(rows)].pairs

(***************************************************************************)
(* Journeys through the layers (_group_pktmon_journeys)                    *)
(***************************************************************************)

Fingerprint(r) == <<r.dir, r.key>>

\* Journeys are sequences of rows.  A row joins one of its fingerprint that is at
\* an earlier stage and not too long ago; of several the farthest, then latest.
WithinGap(before, after) == after.ts - before.ts <= LayerGap
InsideGap(j, r) ==
  Fingerprint(Last(j)) = Fingerprint(r) /\ r.stage > Last(j).stage /\ r.ts - Last(j).ts < LayerGap
MayJoin(j, r) ==
  /\ Fingerprint(Last(j)) = Fingerprint(r)
  /\ r.stage > Last(j).stage /\ WithinGap(Last(j), r)

Farther(a, b) == a.stage > b.stage \/ (a.stage = b.stage /\ a.ts >= b.ts)

JourneyRow(js, r) ==
  LET open == {n \in DOMAIN js : MayJoin(js[n], r)}
      best == {n \in open : \A m \in open : Farther(Last(js[n]), Last(js[m]))}
  IN IF open = {} THEN Append(js, <<r>>) ELSE [js EXCEPT ![Min(best)] = Append(@, r)]

JourneysOf(rows) ==
  LET after[n \in 0 .. Len(rows)] == IF n = 0 THEN << >> ELSE JourneyRow(after[n - 1], rows[n])
  IN after[Len(rows)]

JourneysIn(dirs) == JourneysOf(Select(ByTime(seen), {r \in ToSet(seen) : r.dir \in dirs}))

CompleteJourney(j) == Head(j).stage = 0 /\ Last(j).stage = LastStage

\* Samples of each hop (_layer_latency_tables).
HopsIn(js) ==
  LET hops == {h \in (DOMAIN js) \X (1 .. LastStage) : h[2] < Len(js[h[1]])}
      Of(h) == <<js[h[1]][h[2]].dir, js[h[1]][h[2]].stage, js[h[1]][h[2] + 1].stage>>
      Gap(h) == js[h[1]][h[2] + 1].ts - js[h[1]][h[2]].ts
  IN [k \in {Of(h) : h \in hops} |->
        LET mine == {h \in hops : Of(h) = k}
        IN [samples |-> Cardinality(mine), max |-> Max({Gap(h) : h \in mine})]]

(***************************************************************************)
(* The tools                                                               *)
(***************************************************************************)

CountRows(P(_)) == Cardinality({n \in DOMAIN seen : seen[n].stage = 0 /\ P(seen[n])})

\* get_packet_capture_summary: packets of each flow, by direction.
SummaryOf ==
  [f \in {FlowOf[r.key] : r \in {s \in ToSet(seen) : s.stage = 0}} |->
     [d \in {"send", "recv"} |-> CountRows(LAMBDA r : FlowOf[r.key] = f /\ r.dir = d)]]

\* get_packet_timeline: a flow's packets of both directions, by time.
TimelineOf(f) == ByTime(Select(Captured, {r \in ToSet(seen) : FlowOf[r.key] = f}))

\* decode_packet: the first of the rows that are nearest.
Away(r, ts) == IF r.ts < ts THEN ts - r.ts ELSE r.ts - ts
NearestTo(ts, rows) ==
  rows[Min({n \in DOMAIN rows : \A m \in DOMAIN rows : Away(rows[n], ts) <= Away(rows[m], ts)})]

AskPackets(answer) ==
  /\ packetAnswer = None /\ seen # << >>
  /\ packetAnswer' = answer
  /\ UNCHANGED <<source, fileVars, seen>>

AskPairs(size) ==
  LET rows == CapturedByTime(size)
  IN AskPackets([tool |-> "pairs", rows |-> rows, pairs |-> PairsIn(rows)])

AskLayers(dirs) ==
  /\ source = "layers"
  /\ LET js == JourneysIn(dirs)
     IN AskPackets([tool |-> "layers", dirs |-> dirs, journeys |-> js, hops |-> HopsIn(js),
                    complete |-> {n \in DOMAIN js : CompleteJourney(js[n])}])

AskOverview ==
  AskPackets([tool |-> "overview", summary |-> SummaryOf,
              timeline |-> [f \in {FlowOf[k] : k \in PacketKeys} |-> TimelineOf(f)]])

AskDecode(ts) ==
  /\ Captured # << >>
  /\ AskPackets([tool |-> "decode", nearest |-> NearestTo(ts, Captured)])

PacketRows ==
  [ts : PacketTimes, dir : {"send", "recv"}, key : PacketKeys, stage : 0 .. LastStage,
   packet : 0 .. MaxPackets]

CaptureNext ==
  \/ \E wants \in {"table", "summary"} : CallBegins(wants)
  \/ FindsTable
  \/ \E f \in {"text", "pcap"} : FindsFile(f) \/ Unstamps(f) \/ Converted(f) \/ ConversionFails(f)
  \/ \E f \in KeptFiles : Stamps(f)
  \/ Joins \/ WritesTable \/ ServerEnds \/ TraceIsReplaced
  \/ \E row \in PacketRows : RowIsSeen(row)
  \/ \E size \in PacketBatches : AskPairs(size)
  \/ \E dirs \in {{"send"}, {"recv"}, {"send", "recv"}} : AskLayers(dirs)
  \/ AskOverview
  \/ \E ts \in PacketTimes : AskDecode(ts)

CaptureSpec == CaptureInit /\ [][CaptureNext]_captureVars

(***************************************************************************)
(* Properties                                                              *)
(***************************************************************************)

\* What a call returns is of the whole trace, and of the trace as it is, after
\* any failures, time-outs and restarts of earlier calls; unless the trace file
\* was replaced while a call worked on it, which then stamps the old contents.
TableIsOfTrace == got # None /\ ~spoiled => got = [of |-> etl, whole |-> TRUE]

InTimeOrder(rows) == \A i, j \in DOMAIN rows : i < j => rows[i].ts <= rows[j].ts
Sent(pair) == pair[1]
Received(pair) == pair[2]

Reach(s, r, rows) ==
  /\ s < r /\ rows[s].dir = "send" /\ rows[r].dir = "recv"
  /\ rows[s].key = rows[r].key /\ rows[r].ts - rows[s].ts <= MatchGap

Fits(pair, rows) ==
  /\ rows[Sent(pair)].dir = "send" /\ rows[Received(pair)].dir = "recv"
  /\ rows[Sent(pair)].key = rows[Received(pair)].key
  /\ rows[Received(pair)].ts - rows[Sent(pair)].ts \in 0 .. MatchGap

Matched(rows, pairs) ==
  /\ \A p \in ToSet(pairs) : Fits(p, rows)
  /\ \A p, q \in ToSet(pairs) : Sent(p) = Sent(q) \/ Received(p) = Received(q) => p = q
  /\ Cardinality(ToSet(pairs)) = Len(pairs)
  /\ InTimeOrder(rows) =>
       /\ \A p, q \in ToSet(pairs) :
            rows[Sent(p)].key = rows[Sent(q)].key /\ Sent(p) < Sent(q) => Received(p) < Received(q)
       /\ \A s, r \in DOMAIN rows : Reach(s, r, rows) =>
            \E p \in ToSet(pairs) : Sent(p) = s \/ (Received(p) = r /\ Sent(p) < s)

\* Pairs of get_send_recv_latency: one packet, within the window, no row twice.
\* When the rows come in time order they are paired first in, first out, and a
\* receive is only left alone, or paired with a later send, when no send that
\* was left is in reach.
PairsExact ==
  packetAnswer # None /\ packetAnswer.tool = "pairs" =>
  Matched(packetAnswer.rows, packetAnswer.pairs)

Rows(packet) == {r \in ToSet(seen) : r.packet = packet}

\* Packets of one fingerprint follow each other: the first is through, or long
\* ago, when the second begins; and no two of their rows have one time.
Apart2(p, q) ==
  \/ \A a \in Rows(p), b \in Rows(q) : Fingerprint(a) # Fingerprint(b)
  \/ /\ \A a \in Rows(p), b \in Rows(q) : a.ts < b.ts
     /\ \/ \A a \in Rows(p), b \in Rows(q) : ~WithinGap(a, b)
        \/ \E r \in Rows(p) : r.stage = LastStage
Untangled ==
  LET packets == {r.packet : r \in ToSet(seen)}
  IN /\ \A p, q \in packets : p < q => Apart2(p, q)
     /\ \A p \in packets : \A a, b \in Rows(p) : a = b \/ a.ts # b.ts

\* Each of the rows asked for is in one journey, at one place.
Partitioned(js, asked) ==
  /\ UNION {ToSet(js[n]) : n \in DOMAIN js} = asked
  /\ \A n, m \in DOMAIN js : \A i \in DOMAIN js[n], j \in DOMAIN js[m] :
       js[n][i] = js[m][j] => n = m /\ i = j

GoForward(js) ==
  \A n \in DOMAIN js : \A i, j \in DOMAIN js[n] :
    j = i + 1 => /\ js[n][i].stage < js[n][j].stage
                 /\ js[n][j].ts - js[n][i].ts \in 0 .. LayerGap

OnePacketEach(js) == \A n \in DOMAIN js : \A a, b \in ToSet(js[n]) : a.packet = b.packet

NearTogether(js, asked) ==
  \A a, b \in asked : a.packet = b.packet /\ a.ts < b.ts /\ b.ts - a.ts <= LayerGap =>
    \E n \in DOMAIN js : {a, b} \subseteq ToSet(js[n])

\* Journeys of get_pktmon_layer_latency: each appearance is in one journey, which
\* goes forward through the layers with no gap over the window.  Packets that
\* can be told apart have journeys of their own, cut only at longer gaps.
JourneysExact ==
  packetAnswer # None /\ packetAnswer.tool = "layers" =>
  LET js == packetAnswer.journeys
      asked == {r \in ToSet(seen) : r.dir \in packetAnswer.dirs}
  IN /\ Partitioned(js, asked) /\ GoForward(js)
     /\ Untangled => OnePacketEach(js) /\ NearTogether(js, asked)

\* Packets are followed from sender to receiver and down the stack as they went
\* (get_send_recv_latency, get_pktmon_layer_latency).
PathsExact == PairsExact /\ JourneysExact

(***************************************************************************)
(* What TableIsOfTrace rests on                                            *)
(***************************************************************************)

Now == [of |-> etl, whole |-> TRUE]

FileShape ==
  /\ disk = [f \in KeptFiles |-> [content |-> disk[f].content, stamp |-> disk[f].stamp]]
  /\ call # None =>
       /\ call = [at |-> call.at, file |-> call.file, wants |-> call.wants]
       /\ call.at \in {"find", "unstamp", "convert", "stamp", "join", "write"}
       /\ call.file \in KeptFiles /\ call.wants \in {"table", "summary"}

\* No stamp is of a version to come.
Dated ==
  /\ etl \in Nat
  /\ \A f \in KeptFiles : disk[f].stamp = None \/ disk[f].stamp \in 0 .. etl

\* What carries the stamp of the trace as it is, is what it should be, with or
\* without a call under way.
StampsAreTrue == \A f \in KeptFiles : disk[f].stamp = etl => disk[f].content = Now

\* The file a call works on is not stamped, the text it goes on with is, and the
\* old table, which it is about to write over, is not of this trace.
CallKnows ==
  /\ call.file # "table" /\ call.at \in {"unstamp", "convert", "stamp"} => disk[call.file].stamp # etl
  /\ call.at = "convert" => disk[call.file].content = [of |-> etl, whole |-> FALSE]
  /\ call.at = "stamp" => disk[call.file].content = Now
  /\ call.file = "pcap" \/ call.at \in {"join", "write"} => disk["text"].stamp = etl
  /\ call.at \in {"join", "write"} => call.file = "table"
  /\ call.at \in {"unstamp", "convert"} => call.file # "table"
  /\ call.at = "write" \/ (call.file = "table" /\ call.at = "stamp") => call.wants = "table"
  /\ call.wants = "table" => (call.at = "find" /\ call.file = "table") \/ disk["table"].stamp # etl

KeptInv ==
  /\ FileShape /\ Dated
  /\ ~spoiled => StampsAreTrue /\ (call # None => CallKnows) /\ TableIsOfTrace
=============================================================================
