----------------------------- MODULE ThreadCpu -----------------------------
(***************************************************************************)
(* CPU time from context switches (tools/thread_cpu_precise.py) and the    *)
(* count of switches that get_lock_contention falls back to                *)
(* (tools/context_switch.py).  The scheduler of the traced machine is the  *)
(* environment: it switches threads on its CPUs while time passes and the  *)
(* trace records the switches, some of which are lost.  Then the trace is  *)
(* closed in the shape one of the extractors gives it, and the tools are   *)
(* asked.  A second is one tick of the traced machine's time and Frequency *)
(* units of the tools' time.                                               *)
(***************************************************************************)
EXTENDS ToolData

CONSTANTS
  Cpus, Threads, ProcessOf,    \* thread 0 is the idle thread
  Offs,                        \* how a thread leaves a CPU: [state, reason]
  Frequency, Origin,           \* QPC ticks a second and at the start of the trace
  Shapes,                      \* [sidecar, states, timed, clocked, kept]: see below
  CpuAsks,                     \* queries: [tool, cpus, tid, from, to, by, process]
  MaxTick, MaxSwitches, MaxLost

ASSUME ThreadCpuAssumption ==
  /\ Threads \subseteq Nat \ {0}
  /\ Frequency \in Nat \ {0} /\ Origin \in Nat
  /\ Offs \subseteq [state : {"waiting", "ready"}, reason : {"wait", "preempt", "none"}]

VARIABLES
  tick,      \* seconds since the trace started
  onCpu,     \* the thread on each CPU
  log,       \* every switch that happened, in order; lost ones did not reach the trace
  shape,     \* of the closed trace
  held,      \* raw_csv["cswitch"] holds the frame
  cpuAnswer  \* the last answer

cpuVars == <<tick, onCpu, log, shape, held, cpuAnswer>>

CpuInit ==
  /\ tick = 0 /\ onCpu = [c \in Cpus |-> 0] /\ log = << >>
  /\ shape = None /\ held = FALSE /\ cpuAnswer = None

(***************************************************************************)
(* The traced machine                                                      *)
(***************************************************************************)

LostSwitches == {n \in DOMAIN log : log[n].lost}

Switch(c, t, off, lost) ==
  /\ shape = None /\ Len(log) < MaxSwitches
  /\ t # onCpu[c] /\ (t = 0 \/ \A d \in Cpus : onCpu[d] # t)
  /\ off.state = "ready" \/ onCpu[c] # 0
  /\ lost => Cardinality(LostSwitches) < MaxLost
  /\ onCpu' = [onCpu EXCEPT ![c] = t]
  /\ log' = Append(log, [ts |-> tick, cpu |-> c, new |-> t, old |-> onCpu[c], off |-> off,
                         lost |-> lost])
  /\ UNCHANGED <<tick, shape, held, cpuAnswer>>

Passes ==
  /\ shape = None /\ tick < MaxTick
  /\ tick' = tick + 1
  /\ UNCHANGED <<onCpu, log, shape, held, cpuAnswer>>

\* The sidecar keeps QPC ticks and the number of each event, the in-process
\* extractor microseconds from the start of the trace; an older sidecar has no
\* OldThreadState.  The duration (timed) and the frequency (clocked) may be
\* unknown; the rows are in memory, in a parquet file, or in one that is damaged.
Close(s) ==
  /\ shape = None /\ tick > 0
  /\ shape' = s
  /\ UNCHANGED <<tick, onCpu, log, held, cpuAnswer>>

(***************************************************************************)
(* The frame (_get_cswitch_df, _get_precise_cswitch_df)                    *)
(***************************************************************************)

Recorded == SelectSeq(log, LAMBDA r : ~r.lost)

\* An empty frame and one that cannot be read are as good as none.
Loaded == IF held \/ shape.kept \in {"memory", "parquet"} THEN Recorded ELSE << >>

OnAsked(r, ask) == ask.cpus = {} \/ r.cpu \in ask.cpus

AskedRows(ask) == SelectSeq(Loaded, LAMBDA r : OnAsked(r, ask))

TimeStamp(r) == IF shape.sidecar THEN Origin + Frequency * r.ts ELSE r.ts

Seen(t, rows) == \E r \in ToSet(rows) : r.new = t

\* A thread's process is the one it was first switched in with; the in-process
\* decoder knows no process of the thread that leaves.
PidOf(t, rows) == IF Seen(t, rows) \/ shape.sidecar THEN ProcessOf[t] ELSE 0

(***************************************************************************)
(* Time (_normalize_timestamps, and the window)                            *)
(***************************************************************************)

Earliest(rows) == Min({TimeStamp(r) : r \in ToSet(rows)})
Latest(rows) == Max({TimeStamp(r) : r \in ToSet(rows)})
Span(rows) == Latest(rows) - Earliest(rows)
Apart(a, b) == IF a < b THEN b - a ELSE a - b

\* Which unit fits the duration better; without one, whether the origin is far.
IsQpc(rows) ==
  /\ shape.clocked /\ Span(rows) > 0
  /\ IF shape.timed
     THEN Apart(Span(rows), tick * Frequency) < Apart(Span(rows) * Frequency, tick * Frequency)
     ELSE Earliest(rows) > Frequency

\* Microseconds count from the start of the trace, QPC ticks from the first row.
Seconds(r, rows) ==
  IF IsQpc(rows) THEN TimeStamp(r) - Earliest(rows) ELSE TimeStamp(r) * Frequency

Total(rows) ==
  IF shape.timed THEN tick * Frequency
  ELSE IF IsQpc(rows) THEN Span(rows) ELSE Latest(rows) * Frequency

\* An empty window is widened to the end; 1e-9 seconds are nothing here.
Window(ask, rows) ==
  LET from == IF ask.from = None THEN 0 ELSE ask.from * Frequency
      to == IF ask.to = None THEN Total(rows) ELSE ask.to * Frequency
  IN [from |-> from, to |-> IF to > from THEN to ELSE Max({Total(rows), from})]

Clip(s, w) == Max({w.from, Min({s, w.to})})

(***************************************************************************)
(* Intervals of a thread (compute_thread_cpu_precise)                      *)
(***************************************************************************)

Sides(t, rows) ==
  {[ts |-> Seconds(rows[n], rows), side |-> "in", n |-> n] :
     n \in {m \in DOMAIN rows : rows[m].new = t}}
    \union
  {[ts |-> Seconds(rows[n], rows), side |-> "out", n |-> n] :
     n \in {m \in DOMAIN rows : rows[m].old = t}}

\* Rows of one time are in the order of their numbers, or ins before outs.
Rank(e) == IF e.side = "in" THEN 0 ELSE 1
PrecedesIgnoringNumbers(a, b) ==
  \/ a.ts < b.ts
  \/ a.ts = b.ts /\ (IF a.side = b.side THEN a.n < b.n ELSE Rank(a) < Rank(b))
Precedes(a, b) ==
  \/ a.ts < b.ts
  \/ /\ a.ts = b.ts
     /\ IF shape.sidecar \/ a.side = b.side THEN a.n < b.n ELSE Rank(a) < Rank(b)

Events(t, rows) == SetToSortSeq(Sides(t, rows), Precedes)

\* By state, or by reason when no row of the frame has a state.
IsWait(e, rows) ==
  /\ e.side = "out"
  /\ IF shape.states THEN rows[e.n].off.state = "waiting" ELSE rows[e.n].off.reason = "wait"

Kind(e, rows) == IF e.side = "in" THEN "run" ELSE IF IsWait(e, rows) THEN "wait" ELSE "other"

\* What a thread did last goes on to the end of the window.
Next_(events, n, w) == IF n < Len(events) THEN events[n + 1].ts ELSE w.to

Duration(events, n, w) == Clip(Next_(events, n, w), w) - Clip(events[n].ts, w)

Negative(events, n, w) == Next_(events, n, w) < events[n].ts

TimeIn(kind, events, rows, w) ==
  LET mine == {n \in DOMAIN events : Kind(events[n], rows) = kind /\ ~Negative(events, n, w)}
  IN MapThenSumSet(LAMBDA n : Duration(events, n, w), mine)

Inside(ts, w) == w.from <= ts /\ ts <= w.to

SwitchIns(events, w) == {n \in DOMAIN events : events[n].side = "in" /\ Inside(events[n].ts, w)}

\* A wake-up counts in the window whenever the wait began.
Wakes(events, rows, w) == {n \in SwitchIns(events, w) : n > 1 /\ IsWait(events[n - 1], rows)}

\* The percentiles are of waits that begin and end in the window.
WholeWaits(events, rows, w) ==
  {n \in Wakes(events, rows, w) : events[n - 1].ts >= w.from}

Stats(t, rows, w) ==
  LET events == Events(t, rows)
  IN [running |-> TimeIn("run", events, rows, w), waiting |-> TimeIn("wait", events, rows, w),
      other |-> TimeIn("other", events, rows, w), ins |-> Cardinality(SwitchIns(events, w)),
      wakes |-> Cardinality(Wakes(events, rows, w)),
      waits |-> MapThenSumSet(LAMBDA n : events[n].ts - events[n - 1].ts,
                              WholeWaits(events, rows, w))]

NoStats == [running |-> 0, waiting |-> 0, other |-> 0, ins |-> 0, wakes |-> 0, waits |-> 0]
PlusStats(s, u) == [f \in DOMAIN s |-> s[f] + u[f]]

Grouped(threads, by, rows, w) ==
  IF by = "thread" THEN [t \in threads |-> Stats(t, rows, w)]
  ELSE [p \in {PidOf(t, rows) : t \in threads} |->
          FoldSet(LAMBDA t, s : PlusStats(s, Stats(t, rows, w)), NoStats,
                  {t \in threads : PidOf(t, rows) = p})]

Present(ask, rows) ==
  {t \in Threads : Sides(t, rows) # {} /\ ask.tid \in {None, t}}

\* Rows of other processes are dropped last.
OfProcess(table, ask, rows) ==
  Restrict(table, {k \in DOMAIN table :
    ask.process = None \/ ask.process = IF ask.by = "thread" THEN PidOf(k, rows) ELSE k})

LostIntervals(threads, rows, w) ==
  MapThenSumSet(LAMBDA t : LET events == Events(t, rows)
                           IN Cardinality({n \in DOMAIN events : Negative(events, n, w)}), threads)

(***************************************************************************)
(* The tools                                                               *)
(***************************************************************************)

\* get_thread_cpu_precise: no data, no such thread, or the table.
Precise(ask) ==
  LET rows == AskedRows(ask)
      threads == Present(ask, rows)
      w == Window(ask, rows)
  IN /\ shape # None /\ cpuAnswer = None /\ ask.tool = "precise"
     /\ cpuAnswer' =
          IF rows = << >> \/ threads = {} THEN [ask |-> ask, table |-> None]
          ELSE [ask |-> ask, window |-> w, lost |-> LostIntervals(threads, rows, w),
                table |-> OfProcess(Grouped(threads, ask.by, rows, w), ask, rows)]
     /\ UNCHANGED <<tick, onCpu, log, shape, held>>

\* The filter compares the column as it is with seconds (apply_filters).
InColumn(r, ask) ==
  /\ ask.from = None \/ TimeStamp(r) >= ask.from
  /\ ask.to = None \/ TimeStamp(r) <= ask.to

\* get_lock_contention of a trace without readying stacks counts the switches of
\* each process; what it loaded stays in raw_csv.  Without rows it runs xperf,
\* which has none either.
Contention(ask) ==
  LET rows == SelectSeq(AskedRows(ask), LAMBDA r : InColumn(r, ask))
      pids == {IF r.new = 0 THEN 0 ELSE ProcessOf[r.new] : r \in ToSet(rows)}
      Into(p) == {n \in DOMAIN rows : p = IF rows[n].new = 0 THEN 0 ELSE ProcessOf[rows[n].new]}
  IN /\ shape # None /\ cpuAnswer = None /\ ask.tool = "contention"
     /\ held' = (held \/ Loaded # << >>)
     /\ cpuAnswer' = [ask |-> ask, table |-> IF rows = << >> THEN None
                                             ELSE [p \in pids |-> Cardinality(Into(p))]]
     /\ UNCHANGED <<tick, onCpu, log, shape>>

AskAgain ==
  /\ cpuAnswer # None /\ cpuAnswer.ask.tool = "contention"
  /\ cpuAnswer' = None
  /\ UNCHANGED <<tick, onCpu, log, shape, held>>

CpuNext ==
  \/ \E c \in Cpus, t \in Threads \union {0}, off \in Offs, lost \in BOOLEAN : Switch(c, t, off, lost)
  \/ Passes
  \/ \E s \in Shapes : Close(s)
  \/ \E ask \in CpuAsks : Precise(ask) \/ Contention(ask)
  \/ AskAgain

CpuSpec == CpuInit /\ [][CpuNext]_cpuVars

(***************************************************************************)
(* Properties                                                              *)
(***************************************************************************)

\* What a thread did in the second from k, by the log of the machine itself.
Doing(t, k, cpus) ==
  LET mine == {n \in DOMAIN log : log[n].ts <= k /\ t \in {log[n].new, log[n].old}}
      l == log[Max(mine)]
  IN CASE mine = {} -> "unseen"
       [] mine # {} /\ l.new = t -> IF cpus = {} \/ l.cpu \in cpus THEN "run" ELSE "elsewhere"
       [] OTHER -> IF l.off.state = "waiting" THEN "wait" ELSE "other"

\* The window of an answer begins with the first row of a sidecar's frame.
Shift(rows) == IF shape.sidecar THEN (Earliest(rows) - Origin) \div Frequency ELSE 0

TrueTime(t, kind, ask, w, rows) ==
  Frequency * Cardinality({k \in 0 .. 2 * MaxTick :
                             /\ w.from <= (k - Shift(rows)) * Frequency
                             /\ (k - Shift(rows)) * Frequency < w.to
                             /\ Doing(t, k, ask.cpus) = kind})

TrueIns(t, ask, w, rows) ==
  {n \in DOMAIN log : /\ log[n].new = t /\ OnAsked(log[n], ask)
                      /\ Inside((log[n].ts - Shift(rows)) * Frequency, w)}

\* The switch that took the thread off before it came back.
Left(t, n) == {m \in 1 .. n - 1 : log[m].old = t /\ \A i \in m + 1 .. n - 1 : log[i].old # t}
TrueWakes(t, ask, w, rows) ==
  {n \in TrueIns(t, ask, w, rows) : \E m \in Left(t, n) : log[m].off.state = "waiting"}

\* Without numbers, a thread that leaves and returns in one tick cannot be told
\* from one that comes and goes.
Collapses(t) ==
  ~shape.sidecar /\ \E n \in DOMAIN log : \E m \in Left(t, n) : log[n].new = t /\ log[m].ts = log[n].ts

Classified == shape.states \/ \A n \in DOMAIN log : (log[n].off.state = "waiting") = (log[n].off.reason = "wait")

Members(ask, key, rows) ==
  {t \in Present(ask, rows) : key = IF ask.by = "thread" THEN t ELSE PidOf(t, rows)}

\* The table of get_thread_cpu_precise against what the machine did: a trace
\* without lost switches, whose unit is recognised, gives every thread (or
\* process) the time it ran on the CPUs asked about, its switch-ins, and, over
\* all CPUs, its waiting time, other time and wake-ups, whatever the order of
\* switches within a tick, the migrations and the bounds of the window.  Lost
\* switches blur the kinds but never count a moment of a thread twice or not.
CpuTimesExact ==
  cpuAnswer # None /\ cpuAnswer.ask.tool = "precise" /\ cpuAnswer.table # None =>
  LET ask == cpuAnswer.ask
      rows == AskedRows(ask)
      w == cpuAnswer.window
  IN \A key \in DOMAIN cpuAnswer.table :
       LET row == cpuAnswer.table[key]
           mine == Members(ask, key, rows)
       IN /\ row.running + row.waiting + row.other =
               SumOver(mine, LAMBDA t : w.to - Clip(Events(t, rows)[1].ts, w))
          /\ LostSwitches = {} /\ IsQpc(rows) = shape.sidecar /\ (\A t \in mine : ~Collapses(t)) =>
               /\ row.running = SumOver(mine, LAMBDA t : TrueTime(t, "run", ask, w, rows))
               /\ row.ins = SumOver(mine, LAMBDA t : Cardinality(TrueIns(t, ask, w, rows)))
               /\ ask.cpus = {} /\ Classified =>
                    /\ row.waiting = SumOver(mine, LAMBDA t : TrueTime(t, "wait", ask, w, rows))
                    /\ row.other = SumOver(mine, LAMBDA t : TrueTime(t, "other", ask, w, rows))
                    /\ row.wakes = SumOver(mine, LAMBDA t : Cardinality(TrueWakes(t, ask, w, rows)))
=============================================================================
