--------------------------- MODULE NativeExtract ---------------------------
(***************************************************************************)
(* The streaming extraction of the native pipeline                         *)
(* (native/extract.py, extract_events_to_store): ProcessTrace calls back   *)
(* once per event (native/consumer.py); rows that may still get a stack    *)
(* wait in a bounded buffer keyed by time and thread until a StackWalk     *)
(* event names them; everything else goes to the writer of EventStore at   *)
(* once.  Then the scheduler accessors (native/accessors.py) join          *)
(* ReadyThread rows with the switch that follows them by streaming both    *)
(* classes out of the committed store.                                     *)
(***************************************************************************)
EXTENDS EventStore

CONSTANTS
  Inputs,       \* events the trace may hold: [class, qpc, cpu, tid, about]:
                \* tid is that of the event header, about the thread that is
                \* made ready or switched in; the class
                \* "walk" is a StackWalk, "header" the EventTrace/Header,
                \* "other" one that is not decoded or not asked for
  Stackable,    \* _STACKABLE_CLASSES
  Capacity,     \* _PENDING_STACK_CAPACITY
  Window,       \* max_window_us, in ticks
  Filters,      \* filters that readers use: [cpus, from, to]
  BatchSizes,   \* sizes the accessors may read batches in
  MaxEvents,    \* bound: events of a trace
  MaxFaults     \* bound: writes that fail

ASSUME ExtractAssumption ==
  /\ Stackable \subseteq Classes
  /\ Capacity \in Nat \ {0}
  /\ Window \in Nat
  /\ MaxEvents \in Nat
  /\ MaxFaults \in Nat
  /\ None \notin Int
  /\ BatchSizes \subseteq Nat \ {0}
  /\ \A f \in Filters : f.from \in Int \union {None} /\ f.to \in Int \union {None}
  /\ \A e \in Inputs : /\ e.class \in Classes \union {"walk", "header", "other"}
                        /\ e.qpc \in Nat /\ e.tid # None

VARIABLES
  phase,        \* what the worker is doing
  stacks,       \* capture_stacks
  pending,      \* the OrderedDict of rows waiting for a stack, oldest first
  count,        \* event_sequence: events delivered so far
  now,          \* time of the last one
  headerQpc,    \* header_origin_qpc
  minQpc,       \* min_seen_qpc
  failed,       \* EtwConsumer.last_exception is set
  faults,       \* writes that failed
  accepted,     \* what was decoded and asked for: [class, row], in order
  memory,       \* extract_events, the in-memory extraction, over the same events
  join          \* the merge join of the accessors

extractVars == <<phase, stacks, pending, count, now, headerQpc, minQpc, failed,
                 faults, accepted, memory, join>>
vars == <<storeVars, extractVars>>

NoJoin == [size |-> 0, ready |-> << >>, switch |-> << >>, waiting |-> << >>, out |-> << >>]

Init ==
  /\ StoreInit
  /\ phase = "reading"
  /\ stacks \in BOOLEAN
  /\ pending = << >>
  /\ count = 0
  /\ now = 0
  /\ headerQpc = None
  /\ minQpc = None
  /\ failed = FALSE
  /\ faults = 0
  /\ accepted = << >>
  /\ memory = [pending |-> << >>, stacked |-> {}]
  /\ join = NoJoin

(***************************************************************************)
(* One event (on_event)                                                    *)
(***************************************************************************)

\* Events arrive in time order as long as no callback has raised; qpc is the
\* time of the event itself, and for a StackWalk that of the event it is about.
Delivered(e) ==
  /\ phase = "reading" /\ ~failed
  /\ count < MaxEvents
  /\ count' = count + 1
  /\ IF e.class = "walk"
       THEN e.qpc <= now /\ UNCHANGED now
       ELSE e.qpc >= now /\ now' = e.qpc

Row(e) == [seq |-> count + 1, qpc |-> e.qpc, cpu |-> e.cpu, tid |-> e.tid,
           about |-> e.about, stack |-> None]

Earlier(old, t) == IF old = None \/ t < old THEN t ELSE old

\* store_writer.append with the bookkeeping of _append_store; an exception
\* ends the callback and is kept for the end of ProcessTrace.
Store(c, row, works) ==
  /\ AppendRow(c, row, works)
  /\ minQpc' = Earlier(minQpc, row.qpc)
  /\ ~works => faults < MaxFaults /\ PartDue(Append(buffer[c], row))
  /\ faults' = IF works THEN faults ELSE faults + 1
  /\ failed' = ~works

StoreNothing ==
  UNCHANGED <<buffer, parts, nextPart, staging, minQpc, faults, failed>>

\* Where in a queue the rows of an event's time and thread are, of its time.
SameKey(queue, e) == {i \in DOMAIN queue : queue[i].row.qpc = e.qpc /\ queue[i].row.tid = e.tid}
SameTime(queue, e) == {i \in DOMAIN queue : queue[i].row.qpc = e.qpc}

Earliest(places) == {i \in places : \A j \in places : i <= j}

\* A StackWalk names its event by time and thread; on a miss any waiting row
\* of that time is taken, the oldest first.
Match(queue, e) ==
  Earliest(IF SameKey(queue, e) # {} THEN SameKey(queue, e) ELSE SameTime(queue, e))

\* extract_events does the same with references to rows it has already filed:
\* a row of the same key takes the place of the older one in the buffer.
MemoryStackWalk(e) ==
  IF Match(memory.pending, e) = {} THEN UNCHANGED memory
  ELSE \E at \in Match(memory.pending, e) :
         memory' = [pending |-> RemoveAt(memory.pending, at),
                    stacked |-> memory.stacked \union {<<memory.pending[at].row.seq, e.tid>>}]

\* Mutant: popitem() without last=False evicts the newest row.
MemoryStackableNewestOut(e) ==
  memory' = IF Len(memory.pending) = Capacity THEN memory
            ELSE [memory EXCEPT !.pending = Append(@, [class |-> e.class, row |-> Row(e)])]

MemoryStackable(e) ==
  LET same == SameKey(memory.pending, e)
      entry == [class |-> e.class, row |-> Row(e)]
      queue == IF same = {} THEN Append(memory.pending, entry)
               ELSE [i \in DOMAIN memory.pending |->
                       IF i \in same THEN entry ELSE memory.pending[i]]
  IN memory' = [pending |-> IF Len(queue) > Capacity THEN Tail(queue) ELSE queue,
                stacked |-> memory.stacked]

OnStackWalk(e) ==
  /\ e.class = "walk"
  /\ Delivered(e)
  /\ MemoryStackWalk(e)
  /\ IF stacks /\ Match(pending, e) # {}
       THEN \E at \in Match(pending, e), works \in BOOLEAN :
              /\ pending' = RemoveAt(pending, at)
              /\ Store(pending[at].class, [pending[at].row EXCEPT !.stack = e.tid], works)
       ELSE StoreNothing /\ UNCHANGED pending
  /\ UNCHANGED <<final, phase, stacks, headerQpc, accepted, join>>

OnHeader(e) ==
  /\ e.class = "header"
  /\ Delivered(e)
  /\ headerQpc' = Earlier(headerQpc, e.qpc)
  /\ StoreNothing
  /\ UNCHANGED <<final, phase, stacks, pending, accepted, memory, join>>

\* Mutant: a row of the same key is replaced without being written.
OnStackableReplacing(e) ==
  /\ e.class \in Stackable
  /\ Delivered(e)
  /\ accepted' = Append(accepted, [class |-> e.class, row |-> Row(e)])
  /\ MemoryStackable(e)
  /\ LET same == SameKey(pending, e)
         entry == [class |-> e.class, row |-> Row(e)]
     IN IF same = {} /\ Len(pending) = Capacity
          THEN \E works \in BOOLEAN :
                 /\ Store(pending[1].class, pending[1].row, works)
                 /\ pending' = Append(Tail(pending), entry)
          ELSE /\ StoreNothing
               /\ pending' = IF same = {} THEN Append(pending, entry)
                             ELSE [i \in DOMAIN pending |->
                                     IF i \in same THEN entry ELSE pending[i]]
  /\ UNCHANGED <<final, phase, stacks, headerQpc, join>>

\* A row that may get a stack.  A waiting row of the same key is written
\* first, then the oldest ones as long as the buffer is over its capacity: at
\* most one row leaves, because at most one came in.
OnStackable(e) ==
  /\ e.class \in Stackable
  /\ Delivered(e)
  /\ accepted' = Append(accepted, [class |-> e.class, row |-> Row(e)])
  /\ MemoryStackable(e)
  /\ LET same == SameKey(pending, e)
         entry == [class |-> e.class, row |-> Row(e)]
         full == same = {} /\ Len(pending) = Capacity
     IN IF same # {} \/ full
          THEN \E out \in IF full THEN {1} ELSE Earliest(same), works \in BOOLEAN :
                 /\ Store(pending[out].class, pending[out].row, works)
                 /\ pending' = IF works \/ full
                                 THEN Append(RemoveAt(pending, out), entry)
                                 ELSE RemoveAt(pending, out)
          ELSE StoreNothing /\ pending' = Append(pending, entry)
  /\ UNCHANGED <<final, phase, stacks, headerQpc, join>>

\* No decoder, not asked for, unreadable: nothing but the counters moves.
OnOther(e) ==
  /\ e.class = "other"
  /\ Delivered(e)
  /\ StoreNothing
  /\ UNCHANGED <<final, phase, stacks, pending, headerQpc, accepted, memory, join>>

OnPlain(e) ==
  /\ e.class \in Classes \ Stackable
  /\ Delivered(e)
  /\ accepted' = Append(accepted, [class |-> e.class, row |-> Row(e)])
  /\ \E works \in BOOLEAN : Store(e.class, Row(e), works)
  /\ UNCHANGED <<final, phase, stacks, pending, headerQpc, memory, join>>

(***************************************************************************)
(* After ProcessTrace                                                      *)
(***************************************************************************)

\* EtwConsumer.run raises what a callback raised; nothing is committed.
EndOfTrace ==
  /\ phase = "reading"
  /\ phase' = IF failed THEN "raised" ELSE "draining"
  /\ UNCHANGED <<storeVars, stacks, pending, count, now, headerQpc, minQpc, failed,
                 faults, accepted, memory, join>>

\* while pending: _flush_oldest_pending().
Drain ==
  /\ phase = "draining"
  /\ IF pending # << >>
       THEN \E works \in BOOLEAN :
              /\ Store(pending[1].class, pending[1].row, works)
              /\ pending' = Tail(pending)
              /\ phase' = IF works THEN phase ELSE "raised"
       ELSE /\ phase' = "closing"
            /\ StoreNothing /\ UNCHANGED pending
  /\ UNCHANGED <<final, stacks, count, now, headerQpc, accepted, memory, join>>

\* commit closes the writers one after the other.
CloseWriter ==
  /\ phase = "closing"
  /\ \E c \in Classes :
       /\ buffer[c] # << >>
       /\ \E works \in BOOLEAN :
            /\ ~works => faults < MaxFaults
            /\ faults' = IF works THEN faults ELSE faults + 1
            /\ failed' = ~works
            /\ Flush(c, buffer[c], works)
            /\ phase' = IF works THEN phase ELSE "raised"
  /\ UNCHANGED <<final, stacks, pending, count, now, headerQpc, minQpc, accepted, memory, join>>

Origin == IF headerQpc # None THEN headerQpc ELSE IF minQpc # None THEN minQpc ELSE 0

CommitManifest ==
  /\ phase = "closing"
  /\ \A c \in Classes : buffer[c] = << >>
  /\ WriteManifest(Origin)
  /\ phase' = "manifest"
  /\ UNCHANGED <<stacks, pending, count, now, headerQpc, minQpc, failed, faults, accepted, memory, join>>

CommitPromote ==
  /\ phase = "manifest"
  /\ Promote
  /\ phase' = "committed"
  /\ UNCHANGED <<stacks, pending, count, now, headerQpc, minQpc, failed, faults, accepted, memory, join>>

\* The worker process is killed (cancelled, timed out) between any two steps.
Killed ==
  /\ phase \in {"reading", "draining", "closing", "manifest"}
  /\ phase' = "dead"
  /\ UNCHANGED <<storeVars, stacks, pending, count, now, headerQpc, minQpc, failed,
                 faults, accepted, memory, join>>

(***************************************************************************)
(* iter_readythread_cswitch_waits over the committed store                 *)
(***************************************************************************)

NoFilter == [cpus |-> {}, from |-> None, to |-> None]

\* By time, then by the number of the event (_sort_by_event_time).
Before(a, b) == a.qpc < b.qpc \/ (a.qpc = b.qpc /\ a.seq < b.seq)

SortByEventTime(rows) == Arranged(rows, {p \in Range(rows) \X Range(rows) : Before(p[1], p[2])})

\* _iter_scheduler_rows: every batch is sorted by time, batches are not
\* sorted against each other.
Streamed(c, size) ==
  LET batches == Batches(final, c, NoFilter, size)
  IN FlattenSeq([k \in DOMAIN batches |-> SortByEventTime(batches[k])])

StartJoin(size) ==
  /\ {"ready", "switch"} \subseteq Classes
  /\ phase = "committed"
  /\ phase' = "joining"
  /\ join' = [NoJoin EXCEPT !.size = size,
                            !.ready = Streamed("ready", size),
                            !.switch = Streamed("switch", size)]
  /\ UNCHANGED <<storeVars, stacks, pending, count, now, headerQpc, minQpc, failed, faults, accepted, memory>>

\* Mutant: a switch at the time of the wake-up is taken first.
ReadyFirstStrictly ==
  /\ join.ready # << >>
  /\ join.switch # << >> => join.ready[1].qpc < join.switch[1].qpc

ReadyFirst ==
  /\ join.ready # << >>
  /\ join.switch # << >> => join.ready[1].qpc <= join.switch[1].qpc

AfterReady(j) == [j EXCEPT !.ready = Tail(@), !.waiting = Append(@, j.ready[1])]

TakeReady ==
  /\ phase = "joining" /\ ReadyFirst
  /\ join' = AfterReady(join)
  /\ UNCHANGED <<storeVars, phase, stacks, pending, count, now, headerQpc, minQpc,
                 failed, faults, accepted, memory>>

\* The rows of the switched-in thread that waited too long are dropped from
\* the front of its queue; then those at or before the switch are joined to
\* it, up to the first that is not.
AfterSwitch(j) ==
  LET s == j.switch[1]
      recent == {r \in Range(j.waiting) : s.qpc - r.qpc <= Window}
      late == {r \in Range(j.waiting) : r.qpc > s.qpc}
      own == {r \in Range(j.waiting) : r.about = s.about}
      young == From(Select(j.waiting, own), recent)
      due == Select(Until(young, late), recent)
  IN [j EXCEPT !.switch = Tail(@),
               !.waiting = From(young, late) \o Select(@, Range(@) \ own),
               !.out = @ \o [i \in DOMAIN due |-> [ready |-> due[i], switch |-> s]]]

TakeSwitch ==
  /\ phase = "joining" /\ ~ReadyFirst /\ join.switch # << >>
  /\ join' = AfterSwitch(join)
  /\ UNCHANGED <<storeVars, phase, stacks, pending, count, now, headerQpc, minQpc,
                 failed, faults, accepted, memory>>

EndJoin ==
  /\ phase = "joining" /\ join.ready = << >> /\ join.switch = << >>
  /\ phase' = "joined"
  /\ UNCHANGED <<storeVars, stacks, pending, count, now, headerQpc, minQpc, failed,
                 faults, accepted, memory, join>>

Next ==
  \/ \E e \in Inputs : OnStackWalk(e) \/ OnHeader(e) \/ OnStackable(e)
                       \/ OnOther(e) \/ OnPlain(e)
  \/ EndOfTrace
  \/ Drain
  \/ CloseWriter
  \/ CommitManifest
  \/ CommitPromote
  \/ Killed
  \/ \E size \in BatchSizes : StartJoin(size)
  \/ TakeReady
  \/ TakeSwitch
  \/ EndJoin

Spec == Init /\ [][Next]_vars

(***************************************************************************)
(* Properties                                                              *)
(***************************************************************************)

Entries(c) == {a \in Range(accepted) : a.class = c}

\* The rows of class c that wait in a queue for a stack, and those in part files.
Waiting(queue, c) == [i \in {i \in DOMAIN queue : queue[i].class = c} |-> queue[i].row]
FilesOf(c) == staging.files[c] \union final.files[c]

Seqs(rows) == {rows[i].seq : i \in DOMAIN rows}
Distinct(rows) == \A i, j \in DOMAIN rows : rows[i].seq = rows[j].seq => i = j

\* The rows numbered S are each in one place of one of these: rows that wait, a
\* row buffer, files.
Placed(waiting, buffered, files, S) ==
  /\ Distinct(waiting) /\ Distinct(buffered) /\ \A f \in files : Distinct(f.rows)
  /\ Seqs(waiting) \intersect Seqs(buffered) = {}
  /\ \A f \in files : Seqs(f.rows) \intersect (Seqs(waiting) \union Seqs(buffered)) = {}
  /\ \A f, g \in files : f # g => Seqs(f.rows) \intersect Seqs(g.rows) = {}
  /\ S = Seqs(waiting) \union Seqs(buffered) \union (UNION {Seqs(f.rows) : f \in files})

\* No row is lost or written twice on its way through the stack buffer, the
\* row buffer and the part files, evictions and displaced keys included, as
\* long as every write works: each decoded row is in exactly one place.
RowsOnce ==
  ~failed =>
    \A c \in Classes :
      Placed(Waiting(pending, c), buffer[c], FilesOf(c), {a.row.seq : a \in Entries(c)})

\* What a filter asks for, in exact time: the event's distance from the origin
\* of the trace in seconds, and its CPU.
Asked(row, f, origin) ==
  /\ f.from # None => (row.qpc - origin) * Den >= f.from * Freq
  /\ f.to # None => (row.qpc - origin) * Den <= f.to * Freq
  /\ f.cpus # {} => row.cpu \in f.cpus

\* A scan of a committed store gives exactly the decoded rows that the filter
\* asks for: skipping parts by their QPC range drops none of them although
\* rows are written out of time order, and rounding the bounds to ticks keeps
\* none that is outside.  Read batch by batch, the rows are the same.
ScanExact ==
  phase = "committed" =>
    \A c \in Classes, f \in Filters :
      LET rows == Scan(final, c, f)
          asked == {a \in Entries(c) : Asked(a.row, f, final.manifest.origin)}
      IN /\ {row.seq : row \in Range(rows)} = {a.row.seq : a \in asked}
         /\ Len(rows) = Cardinality(asked)
         /\ \A size \in BatchSizes : FlattenSeq(Batches(final, c, f, size)) = rows

\* A generation directory is complete the moment it is visible: a reader that
\* finds it can open it, whenever the writer failed or was killed.
VisibleIsValid == final.exists => Valid(final) /\ ~failed

Files(c) == UNION {Range(file.rows) : file \in final.files[c]}

\* The two extractions of the native pipeline, which keep their waiting rows
\* in different ways, give every row the same stack when no two rows share
\* time and thread, evictions included.
SameStacks ==
  LET keys == [i \in DOMAIN accepted |-> <<accepted[i].row.qpc, accepted[i].row.tid>>]
  IN final.exists /\ stacks /\ IsInjective(keys) =>
       memory.stacked = {<<row.seq, row.stack>> : row \in
                           {r \in UNION {Files(c) : c \in Stackable} : r.stack # None}}

\* The first switch to the thread that was made ready, in time.
Switched(r) ==
  LET to == {a.row : a \in {b \in Entries("switch") : b.row.about = r.about /\ b.row.qpc >= r.qpc}}
  IN {s \in to : \A t \in to : s = t \/ Before(s, t)}

Waits ==
  {w \in {a.row : a \in Entries("ready")} \X {a.row : a \in Entries("switch")} :
     w[2] \in Switched(w[1]) /\ w[2].qpc - w[1].qpc <= Window}

Joined == {<<w.ready.seq, w.switch.seq>> : w \in Range(join.out)}

\* The rows were read in the order of their events.
InTimeOrder(rows) == \A i, j \in DOMAIN rows : i < j => Before(rows[i], rows[j])

\* Each wait that the join reports is one: a wake-up of a thread and a later
\* switch to it within the window, no wake-up counted twice -- also where the
\* rows come out of order.  Where the store gives both classes in event order
\* across batches, the join finds every wait: each wake-up with the first switch
\* that follows it.
JoinExact ==
  /\ \A w \in Range(join.out) :
       /\ w.ready.about = w.switch.about
       /\ w.switch.qpc - w.ready.qpc \in 0..Window
  /\ \A i, j \in DOMAIN join.out :
       join.out[i].ready.seq = join.out[j].ready.seq => i = j
  /\ LET inOrder == \A c \in {"ready", "switch"} : InTimeOrder(Streamed(c, join.size))
     IN phase = "joined" /\ inOrder => Joined = {<<w[1].seq, w[2].seq>> : w \in Waits}

(***************************************************************************)
(* Inductive invariants of the writer                                      *)
(***************************************************************************)

IsSeq(s) == s \in Seq(Range(s))

IsDir(dir) == DOMAIN dir = {"exists", "files", "sealed", "manifest"} /\ DOMAIN dir.files = Classes

Shape ==
  /\ DOMAIN buffer = Classes /\ DOMAIN parts = Classes /\ DOMAIN nextPart = Classes
  /\ \A c \in Classes : IsSeq(buffer[c]) /\ IsSeq(parts[c]) /\ nextPart[c] \in Nat
  /\ IsDir(staging) /\ IsDir(final)

\* A file was written for every part that is listed, and every file is listed.
Recorded ==
  staging.exists =>
    \A c \in Classes :
      /\ \A i \in DOMAIN parts[c] :
           \E file \in staging.files[c] :
             file.index = parts[c][i].index /\ Len(file.rows) = parts[c][i].count
      /\ \A file \in staging.files[c] :
           \E i \in DOMAIN parts[c] : file.index = parts[c][i].index

\* How far the generation is: written, sealed by the manifest of what was
\* written, or visible; and a failed write is never followed by a manifest.
Generation ==
  /\ phase \in {"reading", "raised", "draining", "closing", "manifest",
                "committed", "joining", "joined", "dead"}
  /\ phase \in {"reading", "raised", "draining", "closing"} => staging.exists /\ ~staging.sealed
  /\ phase = "manifest" => staging.exists /\ staging.sealed
  /\ staging.sealed => staging.manifest = Manifest(staging.manifest.origin)
  /\ final.exists <=> phase \in {"committed", "joining", "joined"}
  /\ IF final.exists THEN staging = NoDir ELSE final = NoDir
  /\ failed => phase \in {"reading", "raised", "dead"}

Visible == Shape /\ Recorded /\ Generation /\ VisibleIsValid

\* What waits is as it was decoded, and what was decoded is numbered by its event.
Numbered ==
  /\ count \in Nat
  /\ IsSeq(pending) /\ IsSeq(accepted)
  /\ \A i \in DOMAIN pending :
       /\ pending[i].class \in Stackable /\ pending[i].row.stack = None
       /\ DOMAIN pending[i].row = {"seq", "qpc", "cpu", "tid", "about", "stack"}
       /\ \E j \in DOMAIN accepted : accepted[j] = pending[i]
  /\ \A i \in DOMAIN accepted : accepted[i].row.seq \in 1 .. count

\* The rows of a class in its buffer or its files.
Stored(c) == Range(buffer[c]) \union (UNION {Range(file.rows) : file \in FilesOf(c)})

Stacked(rows) == {<<row.seq, row.stack>> : row \in {r \in rows : r.stack # None}}

OwnKeys == IsInjective([i \in DOMAIN accepted |-> <<accepted[i].row.qpc, accepted[i].row.tid>>])

\* The two extractions go through the trace side by side.
Alike ==
  ~failed /\ stacks /\ OwnKeys =>
    /\ phase = "reading" => memory.pending = pending
    /\ memory.stacked = Stacked(UNION {Stored(c) : c \in Stackable})

\* What is left is written before the manifest.
Drained ==
  phase \in {"manifest", "committed", "joining", "joined"} =>
    \A c \in Classes : buffer[c] = << >>

Bounded == Len(pending) <= Capacity

\* What was decoded has one number each, and nothing waits once it was drained.
Decoded ==
  /\ \A i, j \in DOMAIN accepted : accepted[i].row.seq = accepted[j].row.seq => i = j
  /\ \A i \in DOMAIN accepted : accepted[i].row.qpc \in Nat /\ accepted[i].row.stack = None
  /\ headerQpc \in Nat \union {None} /\ minQpc \in Nat \union {None}
  /\ phase \in {"closing", "manifest", "committed", "joining", "joined"} => pending = << >>

\* A row as it was decoded, whatever stack it was given.
SameEvent(row, of) == row.seq = of.seq /\ row.qpc = of.qpc /\ row.cpu = of.cpu /\ row.about = of.about

OfEvents(rows, c) == \A row \in rows : \E a \in Entries(c) : SameEvent(row, a.row)

\* A part file is found by its number, and no row of it is outside the times
\* that the manifest gives for it.
Numbering(listed, files, next) ==
  /\ \A i \in DOMAIN listed : listed[i].index \in Nat /\ listed[i].index < next
  /\ \A i, j \in DOMAIN listed : listed[i].index = listed[j].index => i = j
  /\ \A f \in files : f.index \in Nat /\ f.index < next /\ IsSeq(f.rows)
  /\ \A f, g \in files : f.index = g.index => f = g
  /\ \A i \in DOMAIN listed, f \in files :
       f.index = listed[i].index =>
         /\ listed[i].min \in Nat /\ listed[i].max \in Nat
         /\ \A row \in Range(f.rows) : listed[i].min <= row.qpc /\ row.qpc <= listed[i].max

Located ==
  \A c \in Classes :
    /\ OfEvents(Stored(c), c)
    /\ Numbering(parts[c], FilesOf(c), nextPart[c])

\* What can be seen has the manifest of what was written.
Manifested ==
  /\ staging.sealed => staging.manifest.origin \in Nat
  /\ final.exists => final.manifest = Manifest(final.manifest.origin) /\ final.manifest.origin \in Nat

\* A join of the rows R with the switches S reports each wait once: no row is in
\* two of the places it goes through.
MergedOnce(R, S, j) ==
  /\ DOMAIN j = DOMAIN NoJoin
  /\ j.ready \in Seq(R) /\ j.waiting \in Seq(R) /\ j.switch \in Seq(S) /\ IsSeq(j.out)
  /\ \A w \in Range(j.out) :
       /\ w.ready \in R /\ w.switch \in S /\ w.ready.about = w.switch.about
       /\ w.switch.qpc - w.ready.qpc \in 0..Window
  /\ Distinct([i \in DOMAIN j.out |-> j.out[i].ready] \o j.waiting \o j.ready)

\* t is the first of the switches S to the thread that r made ready.
FirstSwitch(S, r, t) ==
  LET to == {u \in S : u.about = r.about /\ u.qpc >= r.qpc}
  IN t \in to /\ \A u \in to : u = t \/ Before(t, u)

\* Where both come in order, the switches that were taken are before all that is
\* to come, no row waits that one of them answers, and the rows that were taken
\* are joined with the first switch unless it comes too late.
MergedAll(R, S, j) ==
  LET taken == S \ Range(j.switch)
  IN /\ InTimeOrder(j.ready) /\ InTimeOrder(j.switch)
     /\ \A r \in Range(j.waiting), t \in Range(j.switch) : r.qpc <= t.qpc
     /\ \A t \in taken :
          /\ \A u \in Range(j.switch) : Before(t, u)
          /\ \A r \in Range(j.ready) : t.qpc < r.qpc
          /\ \A r \in Range(j.waiting) : t.about # r.about \/ t.qpc < r.qpc
     /\ \A w \in Range(j.out) : FirstSwitch(S, w.ready, w.switch)
     /\ \A r \in R \ (Range(j.ready) \union Range(j.waiting)), t \in S :
          FirstSwitch(S, r, t) /\ t.qpc - r.qpc <= Window =>
            \E w \in Range(j.out) : w.ready = r /\ w.switch = t

Merged ==
  IF phase \in {"joining", "joined"}
    THEN /\ {"ready", "switch"} \subseteq Classes /\ join.size \in BatchSizes
         /\ MergedOnce(Stored("ready"), Stored("switch"), join)
         /\ (\A c \in {"ready", "switch"} : InTimeOrder(Streamed(c, join.size))) =>
              MergedAll(Stored("ready"), Stored("switch"), join)
         /\ phase = "joined" => join.ready = << >> /\ join.switch = << >>
    ELSE join.out = << >>

\* A buffer that is due is written at once, and each part has its own number.
InParts ==
  \A c \in Classes :
    /\ buffer[c] = << >> \/ ~PartDue(buffer[c])
    /\ Len(parts[c]) <= nextPart[c]

TypeOK ==
  /\ phase \in {"reading", "raised", "draining", "closing", "manifest",
                "committed", "joining", "joined", "dead"}
  /\ count \in Nat
  /\ Len(pending) <= Capacity
  /\ \A p \in Range(pending) : p.class \in Stackable /\ p.row.stack = None
  /\ \A c \in Classes : buffer[c] # << >> => Len(buffer[c]) < MaxRows
  /\ \A c \in Classes : nextPart[c] \in Nat /\ Len(parts[c]) <= nextPart[c]

\* The inductive invariant of the writer.
WriterInv == Numbered /\ Bounded /\ InParts /\ Visible /\ RowsOnce /\ Drained /\ Alike
=============================================================================
