------------------------------ MODULE ChunkSink ------------------------------
(***************************************************************************)
(* The streaming strategy of the .NET sidecar: StreamingChunkSink.cs with  *)
(* the callbacks that feed it (ExtractRunner.cs), PendingStackBuffer and   *)
(* CompleteAllStreamingAsync (EventCollector.cs), WriteAllAsync            *)
(* (EventStoreEmitter.cs) and the phases of Program.cs.                    *)
(*                                                                         *)
(* One callback thread decodes the trace and appends rows to one sink per  *)
(* event class.  A full batch goes through a bounded queue to the sink's   *)
(* own consumer task, which writes it as the next part.  Rows of some      *)
(* classes get a call stack from a later event.                            *)
(*                                                                         *)
(* Sinks are numbered in the order in which they are completed; rows are   *)
(* numbered by EventSequence.                                              *)
(***************************************************************************)
EXTENDS Integers, Sequences

CONSTANTS
  SinkCount,        \* number of event classes
  Stackable,        \* the sinks whose rows wait for a stack
  ChunkSize,        \* rows per part
  QueueCapacity,    \* bounded capacity of each BlockingCollection
  PendingCapacity,  \* capacity of PendingStackBuffer
  MaxRows,          \* number of rows in the trace, at most
  WriteFaults       \* may a consumer's directory or part write throw?

Sink == 1 .. SinkCount
Row  == 1 .. MaxRows

ASSUME ConstantsAssumption ==
  /\ MaxRows \in Nat
  /\ {SinkCount, ChunkSize, QueueCapacity, PendingCapacity} \subseteq Nat \ {0}
  /\ Stackable \subseteq Sink
  /\ WriteFaults \in BOOLEAN

VARIABLES
  phase,     \* the phase of Program.cs, and how it ended
  step,      \* where the main thread stands within a callback or a completion
  at,        \* the sink it works on
  hand,      \* the batch it is adding to the queue of that sink
  sequence,  \* EventSequence: rows made so far
  sinkOf,    \* [Row -> the sink it was added to]
  current,   \* [Sink -> _current]
  queue,     \* [Sink -> _queue]
  closed,    \* [Sink -> CompleteAdding was called]
  consumer,  \* [Sink -> where its consumer task stands]
  writing,   \* [Sink -> the batch its consumer has taken]
  parts,     \* [Sink -> the parts written, each a batch]
  pending,   \* rows waiting for a stack, oldest first
  hasStack   \* [Row -> was its Stack set?]

mainVars == <<phase, step, at, hand>>
rowVars == <<sequence, sinkOf, pending, hasStack>>
sinkVars == <<current, queue, closed, consumer, writing, parts>>
vars == <<mainVars, rowVars, sinkVars>>

-----------------------------------------------------------------------------
Phase == {"decoding", "draining", "ok", "failed"}
Step  == {"idle", "ship", "register", "await"}
Consumer == {"starting", "taking", "writing", "ended", "faulted"}

Exited == phase \in {"ok", "failed"}

RangeOf(seq) == {seq[i] : i \in 1 .. Len(seq)}

Init ==
  /\ phase = "decoding" /\ step = "idle" /\ at = 1 /\ hand = <<>>
  /\ sequence = 0
  /\ sinkOf = [r \in Row |-> 0]
  /\ pending = <<>>
  /\ hasStack = [r \in Row |-> FALSE]
  /\ current = [s \in Sink |-> <<>>]
  /\ queue = [s \in Sink |-> <<>>]
  /\ closed = [s \in Sink |-> FALSE]
  /\ consumer = [s \in Sink |-> "starting"]
  /\ writing = [s \in Sink |-> <<>>]
  /\ parts = [s \in Sink |-> <<>>]

-----------------------------------------------------------------------------
(* The callback thread *)

AfterAdd(s) == IF s \in Stackable THEN "register" ELSE "idle"

\* StreamingChunkSink.Add: ShipCurrent takes a full batch out of _current
\* before the queue accepts it.
SinkAdd(s, r) ==
  LET batch == Append(current[s], r) IN
  IF Len(batch) >= ChunkSize
    THEN /\ hand' = batch
         /\ current' = [current EXCEPT ![s] = <<>>]
         /\ step' = "ship"
    ELSE /\ current' = [current EXCEPT ![s] = batch]
         /\ step' = AfterAdd(s)
         /\ UNCHANGED hand

\* A callback builds a row and adds it to the buffer of its class.
AddRow(s) ==
  LET r == sequence + 1 IN
  /\ phase = "decoding" /\ step = "idle" /\ sequence < MaxRows
  /\ sequence' = r
  /\ sinkOf' = [sinkOf EXCEPT ![r] = s]
  /\ at' = s
  /\ SinkAdd(s, r)
  /\ UNCHANGED <<phase, pending, hasStack, queue, closed, consumer, writing, parts>>

\* Mutant: the queue has no bound.
EnqueueUnbounded ==
  /\ ~Exited /\ step = "ship"
  /\ queue' = [queue EXCEPT ![at] = Append(@, hand)]
  /\ hand' = <<>>
  /\ IF phase = "decoding"
       THEN step' = AfterAdd(at) /\ UNCHANGED closed
       ELSE step' = "await" /\ closed' = [closed EXCEPT ![at] = TRUE]
  /\ UNCHANGED <<phase, at, rowVars, current, consumer, writing, parts>>

\* BlockingCollection.Add: the thread waits for a free place in the queue.  In
\* a callback it goes on to the rest of the callback, in CompleteAsync to
\* CompleteAdding.
Enqueue ==
  /\ ~Exited /\ step = "ship"
  /\ Len(queue[at]) < QueueCapacity
  /\ queue' = [queue EXCEPT ![at] = Append(@, hand)]
  /\ hand' = <<>>
  /\ IF phase = "decoding"
       THEN step' = AfterAdd(at) /\ UNCHANGED closed
       ELSE step' = "await" /\ closed' = [closed EXCEPT ![at] = TRUE]
  /\ UNCHANGED <<phase, at, rowVars, current, consumer, writing, parts>>

\* Pending.Add, after the row went into the sink: the oldest entry makes room.
Register ==
  /\ step = "register"
  /\ pending' = Append(IF Len(pending) >= PendingCapacity THEN Tail(pending) ELSE pending,
                       sequence)
  /\ step' = "idle"
  /\ UNCHANGED <<phase, at, hand, sequence, sinkOf, hasStack, sinkVars>>

\* StackWalk: TryPair finds a pending row and runs its setter.
StackWalk ==
  /\ phase = "decoding" /\ step = "idle"
  /\ \E i \in 1 .. Len(pending) :
       /\ hasStack' = [hasStack EXCEPT ![pending[i]] = TRUE]
       /\ pending' = SubSeq(pending, 1, i - 1) \o SubSeq(pending, i + 1, Len(pending))
  /\ UNCHANGED <<mainVars, sequence, sinkOf, sinkVars>>

-----------------------------------------------------------------------------
(* Completion: the sinks one after the other, then the sub-manifest *)

\* Mutant: a sink whose last batch is empty is awaited without CompleteAdding.
CompleteWithoutClosing(s) ==
  /\ step' = IF current[s] = <<>> THEN "await" ELSE "ship"
  /\ hand' = current[s]
  /\ current' = [current EXCEPT ![s] = <<>>]
  /\ at' = s
  /\ UNCHANGED <<rowVars, queue, closed, consumer, writing, parts>>

\* CompleteAsync of sink s up to the await: the last batch has to go through
\* the queue as well.
Complete(s) ==
  /\ step' = IF current[s] = <<>> THEN "await" ELSE "ship"
  /\ closed' = [closed EXCEPT ![s] = current[s] = <<>>]
  /\ hand' = current[s]
  /\ current' = [current EXCEPT ![s] = <<>>]
  /\ at' = s
  /\ UNCHANGED <<rowVars, queue, consumer, writing, parts>>

\* source.Process() returns and the drain begins.
EndOfTrace ==
  /\ phase = "decoding" /\ step = "idle"
  /\ phase' = "draining"
  /\ Complete(1)

\* The awaited consumer task ended: on to the next sink.
NextSink ==
  /\ phase = "draining" /\ step = "await" /\ consumer[at] = "ended" /\ at < SinkCount
  /\ UNCHANGED phase
  /\ Complete(at + 1)

\* Mutant: the manifest is written once every queue is closed and empty.
WriteManifestEarly ==
  /\ phase = "draining" /\ step = "await" /\ queue[at] = <<>> /\ at = SinkCount
  /\ phase' = "ok"
  /\ UNCHANGED <<step, at, hand, rowVars, sinkVars>>

\* Every sink is complete: the sub-manifest is written, the result line says ok.
WriteManifest ==
  /\ phase = "draining" /\ step = "await" /\ consumer[at] = "ended" /\ at = SinkCount
  /\ phase' = "ok"
  /\ UNCHANGED <<step, at, hand, rowVars, sinkVars>>

\* The await rethrows the exception of the consumer: "parquet-error", exit 1.
Fail ==
  /\ phase = "draining" /\ step = "await" /\ consumer[at] = "faulted"
  /\ phase' = "failed"
  /\ UNCHANGED <<step, at, hand, rowVars, sinkVars>>

-----------------------------------------------------------------------------
(* ConsumeAsync, one task per sink *)

ConsumerGoto(s, from, to) ==
  /\ ~Exited
  /\ consumer[s] = from
  /\ consumer' = [consumer EXCEPT ![s] = to]
  /\ UNCHANGED <<mainVars, rowVars, current, closed>>

CreateDirectory(s) ==
  /\ ConsumerGoto(s, "starting", "taking")
  /\ UNCHANGED <<queue, writing, parts>>

\* Mutant: the part is recorded when it is taken, and again when it is written.
TakeRecording(s) ==
  /\ queue[s] # <<>>
  /\ ConsumerGoto(s, "taking", "writing")
  /\ writing' = [writing EXCEPT ![s] = Head(queue[s])]
  /\ queue' = [queue EXCEPT ![s] = Tail(@)]
  /\ parts' = [parts EXCEPT ![s] = Append(@, Head(queue[s]))]

Take(s) ==
  /\ queue[s] # <<>>
  /\ ConsumerGoto(s, "taking", "writing")
  /\ writing' = [writing EXCEPT ![s] = Head(queue[s])]
  /\ queue' = [queue EXCEPT ![s] = Tail(@)]
  /\ UNCHANGED parts

\* The part file, its entry in the summary, and batch.Clear().
WritePart(s) ==
  /\ ConsumerGoto(s, "writing", "taking")
  /\ parts' = [parts EXCEPT ![s] = Append(@, writing[s])]
  /\ writing' = [writing EXCEPT ![s] = <<>>]
  /\ UNCHANGED queue

\* GetConsumingEnumerable ends when the queue is empty and closed.
EndConsumer(s) ==
  /\ queue[s] = <<>> /\ closed[s]
  /\ ConsumerGoto(s, "taking", "ended")
  /\ UNCHANGED <<queue, writing, parts>>

\* An exception ends the task and is kept until someone awaits it.
Fault(s) ==
  /\ WriteFaults
  /\ ConsumerGoto(s, "starting", "faulted") \/ ConsumerGoto(s, "writing", "faulted")
  /\ UNCHANGED <<queue, writing, parts>>

Consume(s) == CreateDirectory(s) \/ Take(s) \/ WritePart(s) \/ EndConsumer(s)

MainStep == Enqueue \/ Register \/ EndOfTrace \/ NextSink \/ WriteManifest \/ Fail

Next ==
  \/ \E s \in Sink : AddRow(s)
  \/ StackWalk
  \/ MainStep
  \/ \E s \in Sink : Consume(s) \/ Fault(s)

Spec == Init /\ [][Next]_vars

\* The trace is finite, the main thread and the thread pool run; nothing makes
\* a write throw.
FairSpec ==
  /\ Spec
  /\ WF_vars(MainStep)
  /\ \A s \in Sink : WF_vars(Consume(s))

-----------------------------------------------------------------------------
(* Properties *)

TypeOK ==
  /\ phase \in Phase /\ step \in Step /\ at \in Sink
  /\ hand \in Seq(Row)
  /\ sequence \in 0 .. MaxRows
  /\ sinkOf \in [Row -> 0 .. SinkCount]
  /\ current \in [Sink -> Seq(Row)]
  /\ queue \in [Sink -> Seq(Seq(Row))]
  /\ closed \in [Sink -> BOOLEAN]
  /\ consumer \in [Sink -> Consumer]
  /\ writing \in [Sink -> Seq(Row)]
  /\ parts \in [Sink -> Seq(Seq(Row))]
  /\ pending \in Seq(Row) /\ Len(pending) <= PendingCapacity
  /\ hasStack \in [Row -> BOOLEAN]

\* A batch as a list of none or one batches.
Batch(seq) == IF seq = <<>> THEN <<>> ELSE <<seq>>

\* Everything that was added to sink s, in the order in which it is or will
\* be written.
Batches(s) ==
  parts[s] \o Batch(writing[s]) \o queue[s]
    \o Batch(IF at = s THEN hand ELSE <<>>) \o Batch(current[s])

Position(batches) == UNION {{i} \X DOMAIN batches[i] : i \in DOMAIN batches}
Before(p, q) == p[1] < q[1] \/ (p[1] = q[1] /\ p[2] < q[2])

\* No row is lost, duplicated, put into another class or reordered between
\* the callback and the parts, whatever the queue, the consumer and a failing
\* write do.  The rows that wait for a stack are of the classes that take one,
\* and have none yet.
RowsConserved ==
  /\ \A s \in Sink :
       LET batches == Batches(s)
           positions == Position(batches)
       IN /\ {batches[p[1]][p[2]] : p \in positions} = {r \in Row : sinkOf[r] = s}
          /\ \A p, q \in positions :
               Before(p, q) => batches[p[1]][p[2]] < batches[q[1]][q[2]]
  /\ \A r \in RangeOf(pending) : sinkOf[r] \in Stackable /\ ~hasStack[r]

\* The sidecar reports success only when every row of every class is in a part
\* on disk: no consumer was still writing and none had failed.
ManifestComplete ==
  phase = "ok" =>
    \A s \in Sink, r \in Row :
      sinkOf[r] = s => \E i \in 1 .. Len(parts[s]) : r \in RangeOf(parts[s][i])

\* "Memory budget per class: chunkSize x (queueCapacity + 2) rows"
\* (StreamingChunkSink.cs:15): at most that many batches of a class are in
\* memory, in the hands of the callback thread or of the consumer included,
\* and none is longer than a chunk; no more rows than the limit wait for stacks.
HeldBatches(s) ==
  Len(queue[s]) + (IF writing[s] # <<>> THEN 1 ELSE 0)
    + (IF at = s /\ hand # <<>> THEN 1 ELSE 0) + (IF current[s] # <<>> THEN 1 ELSE 0)

MemoryBound ==
  /\ \A s \in Sink :
       /\ HeldBatches(s) <= QueueCapacity + 2
       /\ Len(current[s]) <= ChunkSize
       /\ Len(writing[s]) <= ChunkSize
       /\ Len(hand) <= ChunkSize
       /\ \A i \in 1 .. Len(queue[s]) : Len(queue[s][i]) <= ChunkSize
  /\ Len(pending) <= PendingCapacity

\* What makes it so: the main thread has a batch in hand only while it waits
\* for a place in the queue of a sink whose _current was just replaced,
\* and a callback in progress has made a row.
BatchSizes ==
  \A s \in Sink :
    /\ Len(current[s]) < ChunkSize
    /\ Len(writing[s]) <= ChunkSize
    /\ \A i \in 1 .. Len(queue[s]) : Len(queue[s][i]) <= ChunkSize
    /\ Len(queue[s]) <= QueueCapacity

MainThread ==
  /\ Len(hand) <= ChunkSize
  /\ step # "ship" => hand = <<>>
  /\ step = "ship" => current[at] = <<>>
  /\ phase = "decoding" /\ step # "idle" => sequence > 0
  /\ step = "register" => phase = "decoding"

IInv == TypeOK /\ BatchSizes /\ MainThread

\* Why no row is lost.  No empty batch travels, and a consumer holds a batch
\* from the moment it takes it until it has written it.
Filled ==
  /\ step = "ship" => hand # <<>>
  /\ \A s \in Sink :
       /\ \A i \in 1 .. Len(queue[s]) : queue[s][i] # <<>>
       /\ consumer[s] = "writing" => writing[s] # <<>>
       /\ writing[s] # <<>> => consumer[s] \in {"writing", "faulted"}

\* A row above the EventSequence has not been made.
Unmade == \A r \in Row : r > sequence => sinkOf[r] = 0 /\ ~hasStack[r]

\* The batches hold the rows that class maps to s, and no others, in their order.
Holds(batches, class, s) ==
  /\ \A i \in 1 .. Len(batches) : \A j \in 1 .. Len(batches[i]) : class[batches[i][j]] = s
  /\ \A r \in Row : class[r] = s =>
       \E i \in 1 .. Len(batches) : \E j \in 1 .. Len(batches[i]) : batches[i][j] = r
  /\ \A i, k \in 1 .. Len(batches) :
       \A j \in 1 .. Len(batches[i]), l \in 1 .. Len(batches[k]) :
         i < k \/ (i = k /\ j < l) => batches[i][j] < batches[k][l]

\* The rows that wait for a stack are in the order in which they were made;
\* the row of a callback in progress does not wait yet.
Waiting ==
  /\ \A i \in 1 .. Len(pending) :
       /\ pending[i] <= sequence
       /\ sinkOf[pending[i]] \in Stackable /\ ~hasStack[pending[i]]
  /\ \A i, j \in 1 .. Len(pending) : i < j => pending[i] < pending[j]
  /\ phase = "decoding" /\ step \in {"ship", "register"} =>
       /\ sinkOf[sequence] = at /\ ~hasStack[sequence]
       /\ \A i \in 1 .. Len(pending) : pending[i] < sequence
  /\ step = "register" => at \in Stackable

\* A closed sink has nothing left outside its queue, an ended consumer left
\* nothing in it, and the completion goes past no sink whose consumer runs.
Completion ==
  /\ \A s \in Sink :
       /\ closed[s] => phase # "decoding" /\ current[s] = <<>> /\ (at = s => step = "await")
       /\ consumer[s] = "ended" => closed[s] /\ queue[s] = <<>>
  /\ phase \in {"draining", "ok"} => \A s \in 1 .. at - 1 : consumer[s] = "ended"
  /\ phase = "ok" => at = SinkCount /\ consumer[at] = "ended"

Conserving == Filled /\ Unmade /\ Waiting /\ Completion
Held == \A s \in Sink : Holds(Batches(s), sinkOf, s)

\* Unless a write fails, the extraction ends and reports success: back pressure
\* never turns into a deadlock between the callback thread and the consumers,
\* in the drain of the last batches included.
EndsOk == <>(phase = "ok" \/ \E s \in Sink : consumer[s] = "faulted")
===============================================================================
