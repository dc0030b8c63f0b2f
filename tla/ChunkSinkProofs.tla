--------------------------- MODULE ChunkSinkProofs ---------------------------
(***************************************************************************)
(* Type correctness of ChunkSink, the memory bound of its sinks, and that  *)
(* no row is lost on its way into a part, for any number of sinks and rows *)
(* and any capacities.                                                     *)
(***************************************************************************)
EXTENDS ChunkSink, SequenceTheorems, TLAPS

LEMMA ConstantTypes ==
  /\ MaxRows \in Nat /\ SinkCount \in Nat /\ 1 \in Sink
  /\ ChunkSize \in Nat /\ ChunkSize >= 1
  /\ QueueCapacity \in Nat /\ QueueCapacity >= 1
  /\ PendingCapacity \in Nat /\ PendingCapacity >= 1
  BY ConstantsAssumption DEF Sink

\* Facts about sequences that the leaves below use.
LEMMA AppendFacts ==
  ASSUME NEW S, NEW q \in Seq(S), NEW e \in S
  PROVE /\ Append(q, e) \in Seq(S) /\ Len(Append(q, e)) = Len(q) + 1
        /\ \A i \in 1 .. Len(q) : Append(q, e)[i] = q[i]
        /\ Append(q, e)[Len(q) + 1] = e
        /\ Len(q) \in Nat
  OBVIOUS

LEMMA TailFacts ==
  ASSUME NEW S, NEW q \in Seq(S), q # <<>>
  PROVE /\ Head(q) \in S /\ Head(q) = q[1]
        /\ Tail(q) \in Seq(S) /\ Len(Tail(q)) = Len(q) - 1
        /\ \A i \in 1 .. Len(q) - 1 : Tail(q)[i] = q[i + 1]
        /\ Len(q) \in Nat /\ Len(q) >= 1
  OBVIOUS

LEMMA EmptyFacts == ASSUME NEW S PROVE <<>> \in Seq(S) /\ Len(<<>>) = 0
  OBVIOUS

-----------------------------------------------------------------------------
(* The initial state *)

LEMMA InitInv == Init => IInv
  <1> SUFFICES ASSUME Init PROVE IInv
    OBVIOUS
  <1> USE ConstantTypes
  <1>1. TypeOK
    BY DEF Init, TypeOK, Sink, Row, Phase, Step, Consumer
  <1>2. BatchSizes /\ MainThread
    BY DEF Init, BatchSizes, MainThread, Sink
  <1> QED BY <1>1, <1>2 DEF IInv

-----------------------------------------------------------------------------
(* The main thread *)

LEMMA AddRowInv == ASSUME IInv, NEW s \in Sink, AddRow(s) PROVE IInv'
  <1> USE ConstantTypes
  <1> DEFINE r == sequence + 1
             batch == Append(current[s], r)
  <1>0. current[s] \in Seq(Row) /\ Len(current[s]) < ChunkSize /\ hand = <<>>
    BY DEF IInv, TypeOK, BatchSizes, MainThread, AddRow
  <1>1. r \in Row /\ sequence \in Nat /\ r <= MaxRows
    BY DEF IInv, TypeOK, AddRow, Row
  <1>2. batch \in Seq(Row) /\ Len(batch) <= ChunkSize /\ Len(batch) \in Nat
    BY <1>0, <1>1, AppendFacts
  <1>3. /\ current' \in [Sink -> Seq(Row)] /\ hand' \in Seq(Row) /\ step' \in Step
        /\ Len(hand') <= ChunkSize
        /\ \A t \in Sink : Len(current'[t]) < ChunkSize
        /\ step' # "ship" => hand' = <<>>
        /\ step' = "ship" => current'[s] = <<>>
        /\ step' # "await"
    <2>1. CASE Len(batch) >= ChunkSize
      <3>1. hand' = batch /\ current' = [current EXCEPT ![s] = <<>>] /\ step' = "ship"
        BY <2>1 DEF AddRow, SinkAdd
      <3>2. current' \in [Sink -> Seq(Row)]
            /\ \A t \in Sink : current'[t] = IF t = s THEN <<>> ELSE current[t]
        BY <3>1, EmptyFacts DEF IInv, TypeOK
      <3>3. \A t \in Sink : Len(current'[t]) < ChunkSize
        BY <3>2 DEF IInv, BatchSizes
      <3> QED BY <1>2, <3>1, <3>2, <3>3 DEF Step
    <2>2. CASE ~(Len(batch) >= ChunkSize)
      <3>1. /\ hand' = hand /\ current' = [current EXCEPT ![s] = batch]
            /\ step' \in {"idle", "register"}
        BY <2>2 DEF AddRow, SinkAdd, AfterAdd
      <3>2. current' \in [Sink -> Seq(Row)]
            /\ \A t \in Sink : current'[t] = IF t = s THEN batch ELSE current[t]
        BY <1>2, <3>1 DEF IInv, TypeOK
      <3> HIDE DEF batch
      <3>0. \A t \in Sink : Len(current[t]) < ChunkSize
        BY DEF IInv, BatchSizes
      <3>3. \A t \in Sink : Len(current'[t]) < ChunkSize
        BY <1>2, <2>2, <3>0, <3>2
      <3>4. hand' = <<>> /\ hand' \in Seq(Row) /\ Len(hand') <= ChunkSize
        BY <1>0, <3>1, EmptyFacts
      <3> QED BY <3>1, <3>2, <3>3, <3>4 DEF Step
    <2> QED BY <2>1, <2>2
  <1>4. /\ sequence' \in 0 .. MaxRows /\ sequence' > 0 /\ at' = s
        /\ sinkOf' \in [Row -> 0 .. SinkCount] /\ phase = "decoding"
    <2>1. s \in 0 .. SinkCount
      BY DEF Sink
    <2>2. sequence' = r /\ at' = s /\ sinkOf' = [sinkOf EXCEPT ![r] = s] /\ phase = "decoding"
      BY DEF AddRow
    <2> QED BY <1>1, <2>1, <2>2 DEF IInv, TypeOK
  <1>5. TypeOK'
    BY <1>3, <1>4 DEF IInv, TypeOK, AddRow
  <1>6. BatchSizes' /\ MainThread'
    BY <1>3, <1>4 DEF IInv, BatchSizes, MainThread, AddRow
  <1> QED BY <1>5, <1>6 DEF IInv

LEMMA EnqueueInv == ASSUME IInv, Enqueue PROVE IInv'
  <1> USE ConstantTypes
  <1>1. /\ queue' \in [Sink -> Seq(Seq(Row))]
        /\ \A t \in Sink : /\ Len(queue'[t]) <= QueueCapacity
                           /\ \A i \in 1 .. Len(queue'[t]) : Len(queue'[t][i]) <= ChunkSize
    <2>1. queue' = [queue EXCEPT ![at] = Append(queue[at], hand)] /\ hand \in Seq(Row)
          /\ Len(hand) <= ChunkSize /\ at \in Sink /\ Len(queue[at]) < QueueCapacity
      BY DEF Enqueue, IInv, TypeOK, MainThread
    <2> DEFINE q == queue[at]
    <2>2. q \in Seq(Seq(Row)) /\ \A i \in 1 .. Len(q) : Len(q[i]) <= ChunkSize
      BY <2>1 DEF IInv, TypeOK, BatchSizes
    <2> HIDE DEF q
    <2>3. Append(q, hand) \in Seq(Seq(Row)) /\ Len(Append(q, hand)) = Len(q) + 1
          /\ \A i \in 1 .. Len(q) + 1 : Append(q, hand)[i] = IF i <= Len(q) THEN q[i] ELSE hand
      BY <2>1, <2>2
    <2>4. \A i \in 1 .. Len(q) + 1 : Len(Append(q, hand)[i]) <= ChunkSize
      BY <2>1, <2>2, <2>3
    <2>5. Len(q) + 1 <= QueueCapacity
      BY <2>1, <2>2 DEF q
    <2>6. \A t \in Sink : queue'[t] = IF t = at THEN Append(q, hand) ELSE queue[t]
      BY <2>1 DEF q, IInv, TypeOK
    <2>7. queue' \in [Sink -> Seq(Seq(Row))]
      BY <2>1, <2>3 DEF q, IInv, TypeOK
    <2> QED BY <2>3, <2>4, <2>5, <2>6, <2>7 DEF IInv, BatchSizes
  <1>2. /\ step' \in {"idle", "register", "await"} /\ hand' = <<>>
        /\ closed' \in [Sink -> BOOLEAN]
        /\ phase = "decoding" => sequence > 0
        /\ step' = "register" => phase = "decoding"
    BY DEF IInv, TypeOK, MainThread, Enqueue, AfterAdd
  <1>3. TypeOK'
    BY <1>1, <1>2, EmptyFacts DEF IInv, TypeOK, Enqueue, rowVars, Step
  <1>4. BatchSizes' /\ MainThread'
    BY <1>1, <1>2, EmptyFacts DEF IInv, BatchSizes, MainThread, Enqueue, rowVars
  <1> QED BY <1>3, <1>4 DEF IInv

LEMMA RegisterInv == ASSUME IInv, Register PROVE IInv'
  <1> USE ConstantTypes
  <1>0. sequence \in Row
    BY DEF IInv, TypeOK, MainThread, Register, Row
  <1>1. pending' \in Seq(Row) /\ Len(pending') <= PendingCapacity
    <2>1. CASE Len(pending) >= PendingCapacity
      <3>1. pending # <<>>
        BY <2>1, EmptyFacts DEF IInv, TypeOK
      <3> QED BY <1>0, <2>1, <3>1, TailFacts, AppendFacts DEF IInv, TypeOK, Register
    <2>2. CASE ~(Len(pending) >= PendingCapacity)
      BY <1>0, <2>2, AppendFacts DEF IInv, TypeOK, Register
    <2> QED BY <2>1, <2>2
  <1> QED BY <1>1 DEF IInv, TypeOK, BatchSizes, MainThread, Register, sinkVars, Step

LEMMA StackWalkInv == ASSUME IInv, StackWalk PROVE IInv'
  <1> USE ConstantTypes
  <1>1. PICK i \in 1 .. Len(pending) :
          /\ hasStack' = [hasStack EXCEPT ![pending[i]] = TRUE]
          /\ pending' = SubSeq(pending, 1, i - 1) \o SubSeq(pending, i + 1, Len(pending))
    BY DEF StackWalk
  <1>2. pending \in Seq(Row) /\ Len(pending) \in Nat /\ Len(pending) <= PendingCapacity
    BY DEF IInv, TypeOK
  <1>3. pending' \in Seq(Row) /\ Len(pending') <= PendingCapacity
    <2>1. /\ SubSeq(pending, 1, i - 1) \in Seq(Row)
          /\ Len(SubSeq(pending, 1, i - 1)) = i - 1
      BY <1>2
    <2>2. /\ SubSeq(pending, i + 1, Len(pending)) \in Seq(Row)
          /\ Len(SubSeq(pending, i + 1, Len(pending))) = Len(pending) - i
      BY <1>2
    <2> DEFINE a == SubSeq(pending, 1, i - 1)
               b == SubSeq(pending, i + 1, Len(pending))
    <2>3. i \in Int /\ Len(pending) \in Int
      BY <1>2
    <2>4. a \in Seq(Row) /\ b \in Seq(Row) /\ Len(a) = i - 1 /\ Len(b) = Len(pending) - i
      BY <2>1, <2>2
    <2> HIDE DEF a, b
    <2>5. a \in Seq(Row) /\ b \in Seq(Row) /\ Len(a) + Len(b) = Len(pending) - 1
      BY <2>3, <2>4
    <2>6. a \o b \in Seq(Row) /\ Len(a \o b) = Len(a) + Len(b)
      BY <2>5
    <2>7. pending' = a \o b
      BY <1>1 DEF a, b
    <2> QED BY <1>2, <2>5, <2>6, <2>7
  <1>4. hasStack' \in [Row -> BOOLEAN]
    BY <1>1 DEF IInv, TypeOK
  <1> QED BY <1>3, <1>4 DEF IInv, TypeOK, BatchSizes, MainThread, StackWalk, mainVars, sinkVars

LEMMA CompleteInv ==
  ASSUME IInv, NEW s \in Sink, Complete(s), phase' = "draining"
  PROVE IInv'
  <1> USE ConstantTypes
  <1>1. hand' \in Seq(Row) /\ Len(hand') <= ChunkSize /\ at' = s /\ step' \in Step
    BY DEF IInv, TypeOK, BatchSizes, Complete, Step
  <1>2. /\ current' \in [Sink -> Seq(Row)] /\ current'[s] = <<>>
        /\ \A t \in Sink : Len(current'[t]) < ChunkSize
    <2>1. current' \in [Sink -> Seq(Row)]
          /\ \A t \in Sink : current'[t] = IF t = s THEN <<>> ELSE current[t]
      BY EmptyFacts DEF IInv, TypeOK, Complete
    <2>2. \A t \in Sink : Len(current[t]) < ChunkSize
      BY DEF IInv, BatchSizes
    <2>3. \A t \in Sink : Len(current'[t]) < ChunkSize
      BY <2>1, <2>2, EmptyFacts
    <2> QED BY <2>1, <2>3
  <1>3. closed' \in [Sink -> BOOLEAN]
    BY DEF IInv, TypeOK, Complete
  <1>4. (step' # "ship" => hand' = <<>>) /\ step' # "register"
    BY DEF Complete
  <1>5. TypeOK'
    BY <1>1, <1>2, <1>3 DEF IInv, TypeOK, Complete, rowVars, Phase
  <1>6. BatchSizes' /\ MainThread'
    BY <1>1, <1>2, <1>4 DEF IInv, BatchSizes, MainThread, Complete
  <1> QED BY <1>5, <1>6 DEF IInv

-----------------------------------------------------------------------------
(* The consumers *)

LEMMA TakeInv == ASSUME IInv, NEW s \in Sink, Take(s) PROVE IInv'
  <1> USE ConstantTypes
  <1>1. /\ queue[s] \in Seq(Seq(Row)) /\ queue[s] # <<>>
        /\ Len(queue[s]) <= QueueCapacity
        /\ \A i \in 1 .. Len(queue[s]) : Len(queue[s][i]) <= ChunkSize
    BY DEF IInv, TypeOK, BatchSizes, Take
  <1>2. /\ Head(queue[s]) \in Seq(Row) /\ Len(Head(queue[s])) <= ChunkSize
        /\ Tail(queue[s]) \in Seq(Seq(Row)) /\ Len(Tail(queue[s])) <= QueueCapacity
        /\ \A i \in 1 .. Len(Tail(queue[s])) : Len(Tail(queue[s])[i]) <= ChunkSize
    BY <1>1
  <1>3. /\ queue' \in [Sink -> Seq(Seq(Row))] /\ writing' \in [Sink -> Seq(Row)]
        /\ \A t \in Sink : /\ Len(queue'[t]) <= QueueCapacity
                           /\ \A i \in 1 .. Len(queue'[t]) : Len(queue'[t][i]) <= ChunkSize
                           /\ Len(writing'[t]) <= ChunkSize
    BY <1>2 DEF IInv, TypeOK, BatchSizes, Take
  <1>4. consumer' \in [Sink -> Consumer]
    BY DEF IInv, TypeOK, Take, ConsumerGoto, Consumer
  <1> QED BY <1>3, <1>4 DEF IInv, TypeOK, BatchSizes, MainThread, Take, ConsumerGoto,
                            mainVars, rowVars

LEMMA WritePartInv == ASSUME IInv, NEW s \in Sink, WritePart(s) PROVE IInv'
  <1> USE ConstantTypes
  <1>1. parts' \in [Sink -> Seq(Seq(Row))] /\ writing' \in [Sink -> Seq(Row)]
    BY SMTT(30) DEF IInv, TypeOK, WritePart
  <1>2. \A t \in Sink : Len(writing'[t]) <= ChunkSize
    BY EmptyFacts DEF IInv, TypeOK, BatchSizes, WritePart
  <1>3. consumer' \in [Sink -> Consumer]
    BY DEF IInv, TypeOK, WritePart, ConsumerGoto, Consumer
  <1> QED BY <1>1, <1>2, <1>3 DEF IInv, TypeOK, BatchSizes, MainThread, WritePart,
                                  ConsumerGoto, mainVars, rowVars

LEMMA ConsumerMoves ==
  ASSUME IInv, NEW s \in Sink, CreateDirectory(s) \/ EndConsumer(s) \/ Fault(s)
  PROVE IInv'
  <1>1. consumer' \in [Sink -> Consumer]
    BY DEF IInv, TypeOK, CreateDirectory, EndConsumer, Fault, ConsumerGoto, Consumer
  <1> QED BY <1>1 DEF IInv, TypeOK, BatchSizes, MainThread, CreateDirectory, EndConsumer,
                      Fault, ConsumerGoto, mainVars, rowVars

-----------------------------------------------------------------------------
(* The invariant *)

LEMMA NextInv == IInv /\ [Next]_vars => IInv'
  <1> SUFFICES ASSUME IInv, [Next]_vars PROVE IInv'
    OBVIOUS
  <1>1. ASSUME NEW s \in Sink, AddRow(s) PROVE IInv'
    BY <1>1, AddRowInv
  <1>2. CASE StackWalk
    BY <1>2, StackWalkInv
  <1>3. CASE MainStep
    <2>1. CASE Enqueue
      BY <2>1, EnqueueInv
    <2>2. CASE Register
      BY <2>2, RegisterInv
    <2>3. CASE EndOfTrace
      <3>1. Complete(1) /\ phase' = "draining" /\ 1 \in Sink
        BY <2>3, ConstantTypes DEF EndOfTrace
      <3> QED BY <3>1, CompleteInv
    <2>4. CASE NextSink
      <3>1. Complete(at + 1) /\ phase' = "draining"
        BY <2>4 DEF NextSink
      <3>2. at + 1 \in Sink
        BY <2>4, ConstantTypes DEF NextSink, IInv, TypeOK, Sink
      <3> QED BY <3>1, <3>2, CompleteInv
    <2>5. CASE WriteManifest \/ Fail
      BY <2>5 DEF WriteManifest, Fail, IInv, TypeOK, BatchSizes, MainThread, Phase,
                  rowVars, sinkVars
    <2> QED BY <1>3, <2>1, <2>2, <2>3, <2>4, <2>5 DEF MainStep
  <1>4. ASSUME NEW s \in Sink, Consume(s) \/ Fault(s) PROVE IInv'
    BY <1>4, TakeInv, WritePartInv, ConsumerMoves DEF Consume
  <1>5. CASE UNCHANGED vars
    BY <1>5 DEF vars, mainVars, rowVars, sinkVars, IInv, TypeOK, BatchSizes, MainThread
  <1> QED BY <1>1, <1>2, <1>3, <1>4, <1>5 DEF Next

\* The inductive invariant holds in every reachable state.
THEOREM Inductive == Spec => []IInv
  BY InitInv, NextInv, PTL DEF Spec

\* The types of the sinks, whatever the capacities: in particular the pending
\* buffer never outgrows its capacity.
THEOREM TypeCorrect == Spec => []TypeOK
  <1>1. IInv => TypeOK
    BY DEF IInv
  <1> QED BY <1>1, Inductive, PTL

\* The documented memory budget holds for every class: back pressure bounds
\* what a slow or dead consumer can pile up.
THEOREM BoundedMemory == Spec => []MemoryBound
  <1>1. IInv => MemoryBound
    <2>0. IInv => Len(pending) <= PendingCapacity
      BY DEF IInv, TypeOK
    <2> SUFFICES ASSUME IInv, NEW s \in Sink
                 PROVE /\ HeldBatches(s) <= QueueCapacity + 2
                       /\ Len(current[s]) <= ChunkSize
                       /\ Len(writing[s]) <= ChunkSize
                       /\ Len(hand) <= ChunkSize
                       /\ \A i \in 1 .. Len(queue[s]) : Len(queue[s][i]) <= ChunkSize
      BY <2>0 DEF MemoryBound
    <2>1. Len(queue[s]) \in Nat /\ Len(queue[s]) <= QueueCapacity
      BY DEF IInv, TypeOK, BatchSizes
    <2>2. at = s /\ hand # <<>> => current[s] = <<>>
      BY DEF IInv, MainThread
    <2>3. HeldBatches(s) <= QueueCapacity + 2
      <3> DEFINE w == IF writing[s] # <<>> THEN 1 ELSE 0
                 h == IF at = s /\ hand # <<>> THEN 1 ELSE 0
                 c == IF current[s] # <<>> THEN 1 ELSE 0
      <3>1. w \in 0 .. 1 /\ h + c \in 0 .. 1 /\ h \in 0 .. 1 /\ c \in 0 .. 1
        BY <2>2
      <3>2. HeldBatches(s) = Len(queue[s]) + w + h + c
        BY DEF HeldBatches
      <3> HIDE DEF w, h, c
      <3> QED BY <2>1, <3>1, <3>2, ConstantTypes
    <2>4. Len(current[s]) \in Nat /\ Len(current[s]) <= ChunkSize
      BY ConstantTypes, SMTT(30) DEF IInv, TypeOK, BatchSizes
    <2> QED BY <2>3, <2>4 DEF IInv, BatchSizes, MainThread
  <1> QED BY <1>1, Inductive, PTL

-----------------------------------------------------------------------------
(* Facts about lists of batches *)

\* A step of the main thread or of a consumer moves a batch one place along.
LEMMA MoveIntoQueue ==
  ASSUME NEW S, NEW p \in Seq(S), NEW q \in Seq(S), NEW c \in Seq(S), NEW e \in S
  PROVE  p \o q \o <<e>> \o c = p \o Append(q, e) \o <<>> \o c
  <1>1. <<e>> \in Seq(S) /\ q \o <<e>> = Append(q, e) /\ Append(q, e) \in Seq(S)
    BY AppendIsConcat, AppendProperties
  <1>2. (p \o q) \o <<e>> = p \o Append(q, e)
    <2>1. ASSUME NEW last \in Seq(S) PROVE (p \o q) \o last = p \o (q \o last)
      BY ConcatAssociative
    <2> QED BY <1>1, <2>1
  <1>3. p \o Append(q, e) \in Seq(S)
    BY <1>1, ConcatProperties
  <1>4. (p \o Append(q, e)) \o <<>> = p \o Append(q, e)
    BY <1>3, ConcatEmptySeq
  <1> QED BY <1>2, <1>4

LEMMA MoveOutOfQueue ==
  ASSUME NEW S, NEW p \in Seq(S), NEW q \in Seq(S), q # <<>>
  PROVE  p \o <<>> \o q = p \o <<Head(q)>> \o Tail(q)
  <1>1. Head(q) \in S /\ Tail(q) \in Seq(S) /\ <<Head(q)>> \in Seq(S)
    BY HeadTailProperties
  <1>2. q = <<Head(q)>> \o Tail(q)
    <2> DEFINE h == <<Head(q)>>
    <2>1. /\ h \o Tail(q) \in Seq(S) /\ Len(h \o Tail(q)) = Len(h) + Len(Tail(q))
          /\ \A i \in 1 .. Len(h) + Len(Tail(q)) :
               (h \o Tail(q))[i] = IF i <= Len(h) THEN h[i] ELSE Tail(q)[i - Len(h)]
      BY <1>1, ConcatProperties
    <2>2. Len(h) = 1 /\ h[1] = q[1]
      OBVIOUS
    <2>3. Len(Tail(q)) = Len(q) - 1 /\ Len(q) \in Nat
          /\ \A i \in 1 .. Len(q) - 1 : Tail(q)[i] = q[i + 1]
      BY TailFacts
    <2> HIDE DEF h
    <2>4. Len(h \o Tail(q)) = Len(q)
      BY <2>1, <2>2, <2>3
    <2>5. \A i \in 1 .. Len(q) : (h \o Tail(q))[i] = q[i]
      BY <2>1, <2>2, <2>3
    <2>6. h \o Tail(q) = q
      BY <2>1, <2>4, <2>5, SeqEqual
    <2> QED BY <2>6 DEF h
  <1>3. p \o <<>> = p
    BY ConcatEmptySeq
  <1>4. p \o (<<Head(q)>> \o Tail(q)) = (p \o <<Head(q)>>) \o Tail(q)
    BY <1>1, ConcatAssociative
  <1> QED BY <1>2, <1>3, <1>4

LEMMA BatchType == \A b \in Seq(Row) : Batch(b) \in Seq(Seq(Row))
  BY EmptyFacts DEF Batch

\* The batches of sink s before the two that the main thread may still change.
Sent(s) == parts[s] \o Batch(writing[s]) \o queue[s]
InHand(s) == Batch(IF at = s THEN hand ELSE <<>>)

LEMMA BatchesType ==
  ASSUME TypeOK, NEW s \in Sink
  PROVE  /\ parts[s] \in Seq(Seq(Row)) /\ Batch(writing[s]) \in Seq(Seq(Row))
         /\ queue[s] \in Seq(Seq(Row)) /\ Sent(s) \in Seq(Seq(Row))
         /\ InHand(s) \in Seq(Seq(Row)) /\ Batch(current[s]) \in Seq(Seq(Row))
         /\ Batches(s) = Sent(s) \o InHand(s) \o Batch(current[s])
         /\ Batches(s) \in Seq(Seq(Row))
  <1>1. /\ parts[s] \in Seq(Seq(Row)) /\ queue[s] \in Seq(Seq(Row))
        /\ writing[s] \in Seq(Row) /\ current[s] \in Seq(Row)
        /\ (IF at = s THEN hand ELSE <<>>) \in Seq(Row)
    BY EmptyFacts DEF TypeOK
  <1>2. /\ Batch(writing[s]) \in Seq(Seq(Row)) /\ InHand(s) \in Seq(Seq(Row))
        /\ Batch(current[s]) \in Seq(Seq(Row))
    BY <1>1, BatchType DEF InHand
  <1>3. Sent(s) \in Seq(Seq(Row))
    BY <1>1, <1>2, ConcatProperties DEF Sent
  <1>4. Batches(s) = Sent(s) \o InHand(s) \o Batch(current[s])
    BY DEF Batches, Sent, InHand
  <1>5. Sent(s) \o InHand(s) \in Seq(Seq(Row))
    BY <1>2, <1>3, ConcatProperties
  <1>6. Batches(s) \in Seq(Seq(Row))
    BY <1>2, <1>4, <1>5, ConcatProperties
  <1> QED BY <1>1, <1>2, <1>3, <1>4, <1>6

-----------------------------------------------------------------------------
(* Every row is held, by the batches of its own sink and in order *)

\* A step that makes no row and leaves the batches of a sink what they were.
LEMMA HeldUnchanged ==
  ASSUME Held, UNCHANGED sinkOf, \A s \in Sink : Batches(s)' = Batches(s)
  PROVE  Held'
  <1> SUFFICES ASSUME NEW s \in Sink PROVE Holds(Batches(s)', sinkOf', s)
    BY DEF Held
  <1> QED BY DEF Held

LEMMA EnqueueBatches ==
  ASSUME IInv, Filled, Enqueue, NEW s \in Sink
  PROVE  Batches(s)' = Batches(s)
  <1>1. /\ parts' = parts /\ writing' = writing /\ current' = current /\ at' = at
        /\ step = "ship" /\ hand # <<>> /\ hand' = <<>> /\ hand \in Seq(Row) /\ at \in Sink
        /\ queue' = [queue EXCEPT ![at] = Append(queue[at], hand)]
        /\ queue \in [Sink -> Seq(Seq(Row))]
    BY DEF IInv, TypeOK, Filled, Enqueue
  <1>2. CASE s # at
    BY <1>1, <1>2 DEF Batches
  <1>3. CASE s = at
    <2> DEFINE p == parts[s] \o Batch(writing[s])
               q == queue[s]
               c == Batch(current[s])
    <2>1. p \in Seq(Seq(Row)) /\ q \in Seq(Seq(Row)) /\ c \in Seq(Seq(Row))
      BY BatchesType, ConcatProperties DEF IInv
    <2>2. Batches(s) = p \o q \o <<hand>> \o c
      BY <1>1, <1>3 DEF Batches, Batch
    <2>3. Batches(s)' = p \o Append(q, hand) \o <<>> \o c
      <3>1. queue'[s] = Append(q, hand)
        BY <1>1, <1>3
      <3>2. Batch(IF at' = s THEN hand' ELSE <<>>) = <<>>
        BY <1>1 DEF Batch
      <3> QED BY <1>1, <3>1, <3>2 DEF Batches
    <2>4. p \o q \o <<hand>> \o c = p \o Append(q, hand) \o <<>> \o c
      <3> HIDE DEF p, q, c
      <3>1. ASSUME NEW S, p \in Seq(S), q \in Seq(S), c \in Seq(S), NEW e \in S
            PROVE  p \o q \o <<e>> \o c = p \o Append(q, e) \o <<>> \o c
        BY <3>1, MoveIntoQueue, SMTT(30)
      <3> QED BY <1>1, <2>1, <3>1
    <2> QED BY <2>2, <2>3, <2>4
  <1> QED BY <1>2, <1>3

LEMMA TakeBatches ==
  ASSUME IInv, Filled, NEW t \in Sink, Take(t), NEW s \in Sink
  PROVE  Batches(s)' = Batches(s)
  <1>1. /\ parts' = parts /\ current' = current /\ at' = at /\ hand' = hand
        /\ queue[t] # <<>> /\ queue[t] \in Seq(Seq(Row))
        /\ queue' = [queue EXCEPT ![t] = Tail(queue[t])]
        /\ writing' = [writing EXCEPT ![t] = Head(queue[t])]
        /\ queue \in [Sink -> Seq(Seq(Row))] /\ writing \in [Sink -> Seq(Row)]
        /\ writing[t] = <<>>
    BY DEF IInv, TypeOK, Filled, Take, ConsumerGoto, mainVars
  <1>2. CASE s # t
    BY <1>1, <1>2 DEF Batches
  <1>3. CASE s = t
    <2> DEFINE p == parts[s]
               q == queue[s]
               c == Batch(IF at = s THEN hand ELSE <<>>) \o Batch(current[s])
    <2>1. p \in Seq(Seq(Row)) /\ q \in Seq(Seq(Row)) /\ q # <<>>
      BY <1>1, <1>3, BatchesType DEF IInv
    <2>2. Head(q) # <<>>
      <3>1. 1 \in 1 .. Len(q) /\ Head(q) = q[1]
        BY <2>1, TailFacts
      <3> QED BY <3>1 DEF Filled
    <2>3. Batch(writing[s]) = <<>> /\ Batch(writing'[s]) = <<Head(q)>> /\ queue'[s] = Tail(q)
      BY <1>1, <1>3, <2>2 DEF Batch
    <2>4. p \o Batch(writing[s]) \o q = p \o Batch(writing'[s]) \o queue'[s]
      <3> HIDE DEF p, q
      <3> QED BY <2>1, <2>3, MoveOutOfQueue
    <2>5. Batches(s) = (p \o Batch(writing[s]) \o q)
                          \o Batch(IF at = s THEN hand ELSE <<>>) \o Batch(current[s])
      BY DEF Batches
    <2>6. Batches(s)' = (p \o Batch(writing'[s]) \o queue'[s])
                          \o Batch(IF at = s THEN hand ELSE <<>>) \o Batch(current[s])
      BY <1>1 DEF Batches
    <2> QED BY <2>4, <2>5, <2>6
  <1> QED BY <1>2, <1>3

LEMMA WritePartBatches ==
  ASSUME IInv, Filled, NEW t \in Sink, WritePart(t), NEW s \in Sink
  PROVE  Batches(s)' = Batches(s)
  <1>1. /\ queue' = queue /\ current' = current /\ at' = at /\ hand' = hand
        /\ parts' = [parts EXCEPT ![t] = Append(parts[t], writing[t])]
        /\ writing' = [writing EXCEPT ![t] = <<>>]
        /\ parts \in [Sink -> Seq(Seq(Row))] /\ writing \in [Sink -> Seq(Row)]
        /\ writing[t] # <<>>
    BY DEF IInv, TypeOK, Filled, WritePart, ConsumerGoto, mainVars
  <1>2. CASE s # t
    BY <1>1, <1>2 DEF Batches
  <1>3. CASE s = t
    <2>1. parts[s] \in Seq(Seq(Row)) /\ writing[s] \in Seq(Row)
      BY <1>1
    <2>2. Batch(writing[s]) = <<writing[s]>> /\ Batch(writing'[s]) = <<>>
          /\ parts'[s] = Append(parts[s], writing[s])
      BY <1>1, <1>3 DEF Batch
    <2>3. parts[s] \o Batch(writing[s]) = parts'[s] \o Batch(writing'[s])
      <3>1. parts[s] \o <<writing[s]>> = Append(parts[s], writing[s])
            /\ Append(parts[s], writing[s]) \in Seq(Seq(Row))
        BY <2>1, AppendIsConcat, AppendProperties
      <3>2. Append(parts[s], writing[s]) \o <<>> = Append(parts[s], writing[s])
        BY <3>1, ConcatEmptySeq
      <3> QED BY <2>2, <3>1, <3>2
    <2> QED BY <1>1, <2>3 DEF Batches
  <1> QED BY <1>2, <1>3

LEMMA CompleteBatches ==
  ASSUME IInv, step # "ship", NEW t \in Sink, Complete(t), NEW s \in Sink
  PROVE  Batches(s)' = Batches(s)
  <1>1. /\ parts' = parts /\ queue' = queue /\ writing' = writing /\ at' = t
        /\ hand = <<>> /\ hand' = current[t]
        /\ current' = [current EXCEPT ![t] = <<>>]
        /\ current \in [Sink -> Seq(Row)]
    BY DEF IInv, TypeOK, MainThread, Complete
  <1>2. InHand(s) = <<>>
    BY <1>1 DEF InHand, Batch
  <1>3. Sent(s)' = Sent(s)
    BY <1>1 DEF Sent
  <1>4. InHand(s)' \o Batch(current[s])' = InHand(s) \o Batch(current[s])
    <2>0. Batch(current[s]) \in Seq(Seq(Row))
      BY BatchesType DEF IInv
    <2>1. CASE s = t
      <3>1. InHand(s)' = Batch(current[s]) /\ Batch(current[s])' = <<>>
        BY <1>1, <2>1 DEF InHand, Batch
      <3> QED BY <1>2, <2>0, <3>1, ConcatEmptySeq
    <2>2. CASE s # t
      <3>1. InHand(s)' = <<>> /\ Batch(current[s])' = Batch(current[s])
        BY <1>1, <2>2 DEF InHand, Batch
      <3> QED BY <1>2, <3>1
    <2> QED BY <2>1, <2>2
  <1>5. Batches(s) = Sent(s) \o (InHand(s) \o Batch(current[s]))
    <2>1. /\ Sent(s) \in Seq(Seq(Row)) /\ InHand(s) \in Seq(Seq(Row))
          /\ Batch(current[s]) \in Seq(Seq(Row))
      BY BatchesType DEF IInv
    <2>2. Batches(s) = (Sent(s) \o InHand(s)) \o Batch(current[s])
      BY DEF Batches, Sent, InHand
    <2> QED BY <2>1, <2>2, ConcatAssociative, SMTT(30)
  <1>6. Batches(s)' = Sent(s)' \o (InHand(s)' \o Batch(current[s])')
    <2>1. /\ Sent(s)' \in Seq(Seq(Row)) /\ InHand(s)' \in Seq(Seq(Row))
          /\ Batch(current[s])' \in Seq(Seq(Row))
      <3>1. hand' \in Seq(Row) /\ current'[s] \in Seq(Row)
        BY <1>1, EmptyFacts
      <3>2. (IF at' = s THEN hand' ELSE <<>>) \in Seq(Row)
        BY <3>1, EmptyFacts
      <3> QED BY <1>3, <3>1, <3>2, BatchesType, BatchType DEF IInv, InHand
    <2>2. Batches(s)' = (Sent(s)' \o InHand(s)') \o Batch(current[s])'
      BY DEF Batches, Sent, InHand
    <2> QED BY <2>1, <2>2, ConcatAssociative, SMTT(30)
  <1> QED BY <1>3, <1>4, <1>5, <1>6

\* Appending a new row to the last batch, which may be empty.
LEMMA AddToLast ==
  ASSUME NEW x \in Seq(Seq(Row)), NEW cur \in Seq(Row), NEW s \in Sink, NEW r \in Row,
         NEW old \in [Row -> 0 .. SinkCount], NEW new, new = [old EXCEPT ![r] = s],
         \A q \in Row : old[q] = s => q < r,
         Holds(x \o Batch(cur), old, s)
  PROVE  Holds(x \o <<Append(cur, r)>>, new, s)
  <1> DEFINE batch == Append(cur, r)
             n == Len(x) + 1
             b == x \o Batch(cur)
             b2 == x \o <<batch>>
  <1>1. /\ batch \in Seq(Row) /\ Len(batch) = Len(cur) + 1 /\ Len(cur) \in Nat
        /\ \A j \in 1 .. Len(cur) : batch[j] = cur[j] /\ cur[j] \in Row
        /\ batch[Len(cur) + 1] = r
    BY AppendFacts
  <1>2. n \in Nat /\ n >= 1
    OBVIOUS
  <1>3. /\ Len(b2) = n /\ b2[n] = batch
        /\ \A i \in 1 .. n - 1 : b2[i] = x[i]
    BY <1>1
  <1>4. /\ \A i \in 1 .. n - 1 : i \in 1 .. Len(b) /\ b[i] = x[i]
        /\ \A i \in 1 .. Len(b) : i <= n /\ (i = n => b[n] = cur)
        /\ cur # <<>> => n \in 1 .. Len(b) /\ b[n] = cur
    <2>1. CASE cur = <<>>
      <3>1. b = x
        BY <2>1, ConcatEmptySeq DEF Batch
      <3> QED BY <2>1, <3>1
    <2>2. CASE cur # <<>>
      <3>1. b = x \o <<cur>>
        BY <2>2 DEF Batch
      <3> QED BY <3>1
    <2> QED BY <2>1, <2>2
  <1>5. \A i \in 1 .. Len(b), j \in Nat : j \in 1 .. Len(b[i]) =>
          /\ b[i][j] \in Row /\ old[b[i][j]] = s /\ b[i][j] < r
    <2>1. b \in Seq(Seq(Row))
      BY BatchType, ConcatProperties
    <2>2. \A i \in 1 .. Len(b), j \in Nat : j \in 1 .. Len(b[i]) => b[i][j] \in Row
      <3> HIDE DEF b
      <3> QED BY <2>1
    <2> QED BY <2>2 DEF Holds
  <1>6. \A q \in Row : new[q] = IF q = r THEN s ELSE old[q]
    OBVIOUS
  <1>7. \A j \in 1 .. Len(cur) : cur # <<>>
    OBVIOUS
  <1> HIDE DEF batch, b, b2, n
  \* The place of every row of the new list in the old one.
  <1>8. \A i \in 1 .. n, j \in Nat : j \in 1 .. Len(b2[i]) =>
          \/ i = n /\ j = Len(cur) + 1 /\ b2[i][j] = r
          \/ i \in 1 .. Len(b) /\ j \in 1 .. Len(b[i]) /\ b2[i][j] = b[i][j]
    <2> SUFFICES ASSUME NEW i \in 1 .. n, NEW j \in Nat, j \in 1 .. Len(b2[i])
                 PROVE  \/ i = n /\ j = Len(cur) + 1 /\ b2[i][j] = r
                        \/ i \in 1 .. Len(b) /\ j \in 1 .. Len(b[i]) /\ b2[i][j] = b[i][j]
      OBVIOUS
    <2>1. CASE i < n
      <3>1. i \in 1 .. n - 1
        BY <1>2, <2>1
      <3> QED BY <1>3, <1>4, <3>1
    <2>2. CASE i = n
      <3>1. j \in 1 .. Len(cur) + 1
        BY <1>1, <1>3, <2>2
      <3> QED BY <1>1, <1>3, <1>4, <1>7, <2>2, <3>1, SMTT(30)
    <2> QED BY <1>2, <2>1, <2>2
  <1>9. \A i \in 1 .. Len(b), j \in Nat : j \in 1 .. Len(b[i]) =>
          i \in 1 .. n /\ j \in 1 .. Len(b2[i]) /\ b2[i][j] = b[i][j]
    <2> SUFFICES ASSUME NEW i \in 1 .. Len(b), NEW j \in Nat, j \in 1 .. Len(b[i])
                 PROVE  i \in 1 .. n /\ j \in 1 .. Len(b2[i]) /\ b2[i][j] = b[i][j]
      OBVIOUS
    <2>1. CASE i = n
      BY <1>1, <1>2, <1>3, <1>4, <2>1, SMTT(30)
    <2>2. CASE i # n
      <3>1. i \in 1 .. n - 1
        BY <1>2, <1>4, <2>2
      <3> QED BY <1>3, <1>4, <3>1
    <2> QED BY <2>1, <2>2
  <1>10. ASSUME NEW i \in 1 .. n, NEW j \in Nat, j \in 1 .. Len(b2[i])
         PROVE  new[b2[i][j]] = s
    <2>1. CASE b2[i][j] = r
      BY <1>6, <2>1
    <2>2. CASE i \in 1 .. Len(b) /\ j \in 1 .. Len(b[i]) /\ b2[i][j] = b[i][j]
      <3>1. b2[i][j] \in Row /\ old[b2[i][j]] = s
        BY <1>5, <2>2
      <3> QED BY <1>6, <3>1
    <2> QED BY <1>8, <1>10, <2>1, <2>2
  <1>11. ASSUME NEW q \in Row, new[q] = s
         PROVE  \E i \in 1 .. n, j \in Nat : j \in 1 .. Len(b2[i]) /\ b2[i][j] = q
    <2>1. CASE q = r
      <3>1. n \in 1 .. n /\ Len(cur) + 1 \in 1 .. Len(b2[n]) /\ b2[n][Len(cur) + 1] = q
        BY <1>1, <1>2, <1>3, <2>1
      <3> QED BY <1>1, <3>1
    <2>2. CASE q # r
      <3>1. old[q] = s
        BY <1>6, <1>11, <2>2
      <3>2. \E i \in 1 .. Len(b), j \in Nat : j \in 1 .. Len(b[i]) /\ b[i][j] = q
        BY <3>1 DEF Holds, b
      <3> QED BY <1>9, <3>2
    <2> QED BY <2>1, <2>2
  <1>12. ASSUME NEW i \in 1 .. n, NEW k \in 1 .. n, NEW j \in Nat, NEW l \in Nat,
                j \in 1 .. Len(b2[i]), l \in 1 .. Len(b2[k]), i < k \/ (i = k /\ j < l)
         PROVE  b2[i][j] < b2[k][l]
    <2>1. ~(i = n /\ j = Len(cur) + 1)
      BY <1>1, <1>2, <1>3, <1>12
    <2>2. i \in 1 .. Len(b) /\ j \in 1 .. Len(b[i]) /\ b2[i][j] = b[i][j]
      BY <1>8, <1>12, <2>1
    <2>3. CASE k = n /\ l = Len(cur) + 1 /\ b2[k][l] = r
      BY <1>5, <2>2, <2>3
    <2>4. CASE k \in 1 .. Len(b) /\ l \in 1 .. Len(b[k]) /\ b2[k][l] = b[k][l]
      BY <1>12, <2>2, <2>4 DEF Holds, b
    <2> QED BY <1>8, <1>12, <2>3, <2>4
  <1>13. Holds(b2, new, s)
    BY <1>3, <1>10, <1>11, <1>12, SMTT(30) DEF Holds
  <1> QED BY <1>13 DEF b2, batch

\* A new row goes to the end of its own sink and of no other.
LEMMA AddRowHeld == ASSUME IInv, Unmade, Held, NEW s \in Sink, AddRow(s) PROVE Held'
  <1> USE ConstantTypes
  <1> DEFINE r == sequence + 1
             cur == current[s]
  <1>1. /\ r \in Row /\ cur \in Seq(Row) /\ hand = <<>> /\ at' = s
        /\ parts' = parts /\ writing' = writing /\ queue' = queue
        /\ sinkOf \in [Row -> 0 .. SinkCount] /\ sinkOf' = [sinkOf EXCEPT ![r] = s]
        /\ current \in [Sink -> Seq(Row)]
    <2>1. r \in Row
      BY DEF IInv, TypeOK, AddRow, Row
    <2> QED BY <2>1 DEF IInv, TypeOK, MainThread, AddRow
  <1>2. \A t \in Sink : InHand(t) = <<>> /\ Sent(t)' = Sent(t)
    BY <1>1 DEF InHand, Batch, Sent
  <1> SUFFICES ASSUME NEW t \in Sink PROVE Holds(Batches(t)', sinkOf', t)
    BY DEF Held
  <1>3. Holds(Batches(t), sinkOf, t) /\ sinkOf[r] = 0
    <2>1. r > sequence
      BY DEF IInv, TypeOK
    <2> QED BY <1>1, <2>1 DEF Held, Unmade
  <1>4. Batches(t) = Sent(t) \o Batch(current[t])
    <2>1. Sent(t) \o <<>> = Sent(t)
      BY BatchesType, ConcatEmptySeq DEF IInv
    <2>2. Batches(t) = Sent(t) \o InHand(t) \o Batch(current[t])
      BY DEF Batches, Sent, InHand
    <2> QED BY <1>2, <2>1, <2>2
  <1>5. Batches(t)' = Sent(t) \o InHand(t)' \o Batch(current[t])'
    <2>1. Batches(t)' = Sent(t)' \o InHand(t)' \o Batch(current[t])'
      BY DEF Batches, Sent, InHand
    <2> QED BY <1>2, <2>1
  <1>6. CASE t = s
    <2> DEFINE batch == Append(cur, r)
    <2>1. batch # <<>> /\ batch \in Seq(Row)
      <3>1. ASSUME NEW q \in Seq(Row), NEW e \in Row
            PROVE  Append(q, e) # <<>> /\ Append(q, e) \in Seq(Row)
        BY AppendProperties
      <3> QED BY <1>1, <3>1
    <2>2. \/ hand' = batch /\ current'[s] = <<>>
          \/ hand' = <<>> /\ current'[s] = batch
      BY <1>1 DEF AddRow, SinkAdd
    <2>3. Sent(s) \in Seq(Seq(Row)) /\ <<batch>> \in Seq(Seq(Row))
      BY <2>1, BatchesType DEF IInv
    <2>4. Batches(t)' = Sent(t) \o <<batch>>
      <3> HIDE DEF batch
      <3>1. CASE hand' = batch /\ current'[s] = <<>>
        <4>1. InHand(t)' = <<batch>> /\ Batch(current[t])' = <<>>
          BY <1>1, <1>6, <2>1, <3>1 DEF InHand, Batch
        <4>2. Sent(t) \o <<batch>> \in Seq(Seq(Row))
          BY <1>6, <2>3, ConcatProperties
        <4> QED BY <1>5, <4>1, <4>2, ConcatEmptySeq
      <3>2. CASE hand' = <<>> /\ current'[s] = batch
        <4>1. InHand(t)' = <<>> /\ Batch(current[t])' = <<batch>>
          BY <1>1, <1>6, <2>1, <3>2 DEF InHand, Batch
        <4>2. Sent(t) \o <<>> = Sent(t)
          BY <1>6, <2>3, ConcatEmptySeq
        <4> QED BY <1>5, <4>1, <4>2
      <3> QED BY <2>2, <3>1, <3>2
    <2>5. \A q \in Row : sinkOf[q] = s => q < r
      <3>1. \A q \in Row : q > sequence => sinkOf[q] = 0
        BY DEF Unmade
      <3> QED BY <3>1 DEF IInv, TypeOK, Sink, Row
    <2>6. Holds(Sent(s) \o Batch(cur), sinkOf, s)
      BY <1>3, <1>4, <1>6
    <2>7. Holds(Sent(s) \o <<batch>>, sinkOf', s)
      <3> HIDE DEF r, cur
      <3> QED BY <1>1, <2>3, <2>5, <2>6, AddToLast
    <2> QED BY <1>6, <2>4, <2>7
  <1>7. CASE t # s
    <2>1. InHand(t)' = <<>> /\ current'[t] = current[t]
      BY <1>1, <1>7 DEF InHand, Batch, AddRow, SinkAdd
    <2>2. Batches(t)' = Batches(t)
      <3>1. Sent(t) \o <<>> = Sent(t)
        BY BatchesType, ConcatEmptySeq DEF IInv
      <3> QED BY <1>4, <1>5, <2>1, <3>1
    <2>3. \A q \in Row : sinkOf'[q] = t <=> sinkOf[q] = t
      BY <1>1, <1>3, <1>7 DEF Sink
    <2>4. /\ Batches(t) \in Seq(Seq(Row))
          /\ \A i \in 1 .. Len(Batches(t)), j \in Nat :
               j \in 1 .. Len(Batches(t)[i]) => Batches(t)[i][j] \in Row
      <3>1. Batches(t) \in Seq(Seq(Row))
        BY BatchesType DEF IInv
      <3>2. ASSUME NEW b \in Seq(Seq(Row)), NEW i \in 1 .. Len(b), NEW j \in Nat,
                   j \in 1 .. Len(b[i])
            PROVE  b[i][j] \in Row
        BY <3>2
      <3> QED BY <3>1, <3>2
    <2> DEFINE b == Batches(t)
    <2>5. Holds(b, sinkOf, t) /\ Batches(t)' = b
      BY <1>3, <2>2
    <2>6. \A i \in 1 .. Len(b), j \in Nat : j \in 1 .. Len(b[i]) => b[i][j] \in Row
      BY <2>4
    <2> HIDE DEF b
    <2>7. \A i \in 1 .. Len(b) : \A j \in 1 .. Len(b[i]) : sinkOf'[b[i][j]] = t
      BY <2>3, <2>5, <2>6 DEF Holds
    <2>8. \A q \in Row : sinkOf'[q] = t =>
            \E i \in 1 .. Len(b) : \E j \in 1 .. Len(b[i]) : b[i][j] = q
      BY <2>3, <2>5 DEF Holds
    <2>9. Holds(b, sinkOf', t)
      BY <2>5, <2>7, <2>8 DEF Holds
    <2> QED BY <2>5, <2>9
  <1> QED BY <1>6, <1>7

\* No step loses, doubles, moves or reorders a row.
LEMMA NextHeld == ASSUME IInv, Filled, Unmade, Held, [Next]_vars PROVE Held'
  <1>1. ASSUME NEW s \in Sink, AddRow(s) PROVE Held'
    BY <1>1, AddRowHeld
  <1>2. CASE StackWalk \/ Register \/ WriteManifest \/ Fail \/ UNCHANGED vars
    <2>1. sinkOf' = sinkOf /\ \A s \in Sink : Batches(s)' = Batches(s)
      BY <1>2 DEF StackWalk, Register, WriteManifest, Fail, vars, mainVars, rowVars, sinkVars,
                  Batches
    <2> QED BY <2>1, HeldUnchanged
  <1>3. CASE Enqueue
    <2>1. sinkOf' = sinkOf
      BY <1>3 DEF Enqueue, rowVars
    <2> QED BY <1>3, <2>1, EnqueueBatches, HeldUnchanged
  <1>4. CASE EndOfTrace
    <2>1. Complete(1) /\ step # "ship" /\ 1 \in Sink /\ sinkOf' = sinkOf
      BY <1>4, ConstantTypes DEF EndOfTrace, Complete, rowVars
    <2> QED BY <2>1, CompleteBatches, HeldUnchanged
  <1>5. CASE NextSink
    <2>1. Complete(at + 1) /\ step # "ship" /\ sinkOf' = sinkOf
      BY <1>5 DEF NextSink, Complete, rowVars
    <2>2. at + 1 \in Sink
      BY <1>5, ConstantTypes DEF NextSink, IInv, TypeOK, Sink
    <2> QED BY <2>1, <2>2, CompleteBatches, HeldUnchanged
  <1>6. ASSUME NEW t \in Sink, Consume(t) \/ Fault(t) PROVE Held'
    <2>0. sinkOf' = sinkOf
      BY <1>6 DEF Consume, CreateDirectory, Take, WritePart, EndConsumer, Fault, ConsumerGoto,
                  rowVars
    <2>1. CASE Take(t)
      BY <2>0, <2>1, TakeBatches, HeldUnchanged
    <2>2. CASE WritePart(t)
      BY <2>0, <2>2, WritePartBatches, HeldUnchanged
    <2>3. CASE CreateDirectory(t) \/ EndConsumer(t) \/ Fault(t)
      <3>1. \A s \in Sink : Batches(s)' = Batches(s)
        BY <2>3 DEF CreateDirectory, EndConsumer, Fault, ConsumerGoto, mainVars, Batches
      <3> QED BY <2>0, <3>1, HeldUnchanged
    <2> QED BY <1>6, <2>1, <2>2, <2>3 DEF Consume
  <1> QED BY <1>1, <1>2, <1>3, <1>4, <1>5, <1>6 DEF Next, MainStep

-----------------------------------------------------------------------------
(* The other parts of the invariant *)

LEMMA NextFilled == ASSUME IInv, Filled, [Next]_vars PROVE Filled'
  <1> USE ConstantTypes
  <1>1. ASSUME NEW s \in Sink, AddRow(s) PROVE Filled'
    <2>1. queue' = queue /\ consumer' = consumer /\ writing' = writing
      BY <1>1 DEF AddRow
    <2>2. step' = "ship" => hand' # <<>>
      <3>1. current[s] \in Seq(Row) /\ sequence + 1 \in Row
        BY <1>1 DEF IInv, TypeOK, AddRow, Row
      <3>2. Len(Append(current[s], sequence + 1)) >= ChunkSize
              => Append(current[s], sequence + 1) # <<>>
        BY <3>1, AppendFacts
      <3> QED BY <1>1, <3>2 DEF AddRow, SinkAdd, AfterAdd
    <2> QED BY <2>1, <2>2 DEF Filled
  <1>2. CASE StackWalk \/ Register \/ WriteManifest \/ Fail \/ UNCHANGED vars
    BY <1>2 DEF StackWalk, Register, WriteManifest, Fail, vars, mainVars, rowVars, sinkVars,
                Filled
  <1>3. CASE Enqueue
    <2>1. /\ queue' = [queue EXCEPT ![at] = Append(queue[at], hand)]
          /\ at \in Sink /\ hand \in Seq(Row) /\ hand # <<>> /\ step' # "ship"
          /\ consumer' = consumer /\ writing' = writing
      BY <1>3 DEF Enqueue, IInv, TypeOK, Filled, AfterAdd
    <2>2. ASSUME NEW s \in Sink, NEW i \in 1 .. Len(queue'[s]) PROVE queue'[s][i] # <<>>
      <3>1. queue[s] \in Seq(Seq(Row)) /\ \A k \in 1 .. Len(queue[s]) : queue[s][k] # <<>>
        BY DEF IInv, TypeOK, Filled
      <3>2. CASE s = at
        <4>1. queue'[s] = Append(queue[s], hand)
          BY <2>1, <3>2 DEF IInv, TypeOK
        <4> QED BY <2>1, <2>2, <3>1, <4>1, AppendFacts
      <3>3. CASE s # at
        <4>1. queue'[s] = queue[s]
          BY <2>1, <3>3 DEF IInv, TypeOK
        <4> QED BY <2>2, <3>1, <4>1
      <3> QED BY <3>2, <3>3
    <2> QED BY <2>1, <2>2 DEF Filled
  <1>4. CASE EndOfTrace \/ NextSink
    <2>1. \E s \in Sink : Complete(s)
      BY <1>4 DEF EndOfTrace, NextSink, IInv, TypeOK, Sink
    <2> QED BY <2>1 DEF Complete, Filled
  <1>5. ASSUME NEW s \in Sink, Consume(s) \/ Fault(s) PROVE Filled'
    <2>0. /\ step' = step /\ hand' = hand
          /\ consumer \in [Sink -> Consumer] /\ writing \in [Sink -> Seq(Row)]
          /\ queue \in [Sink -> Seq(Seq(Row))]
      BY <1>5 DEF Consume, CreateDirectory, Take, WritePart, EndConsumer, Fault, ConsumerGoto,
                  mainVars, IInv, TypeOK
    <2>1. CASE Take(s)
      <3>1. /\ consumer' = [consumer EXCEPT ![s] = "writing"]
            /\ writing' = [writing EXCEPT ![s] = Head(queue[s])]
            /\ queue' = [queue EXCEPT ![s] = Tail(queue[s])]
            /\ queue[s] \in Seq(Seq(Row)) /\ queue[s] # <<>>
        BY <2>0, <2>1 DEF Take, ConsumerGoto
      <3>2. /\ Head(queue[s]) # <<>>
            /\ \A i \in 1 .. Len(Tail(queue[s])) : Tail(queue[s])[i] # <<>>
        <4>1. /\ Head(queue[s]) = queue[s][1] /\ Len(queue[s]) \in Nat /\ Len(queue[s]) >= 1
              /\ Len(Tail(queue[s])) = Len(queue[s]) - 1
              /\ \A i \in 1 .. Len(queue[s]) - 1 : Tail(queue[s])[i] = queue[s][i + 1]
          BY <3>1, TailFacts
        <4>2. \A i \in 1 .. Len(queue[s]) : queue[s][i] # <<>>
          BY DEF Filled
        <4> QED BY <4>1, <4>2
      <3> QED BY <2>0, <3>1, <3>2 DEF Filled
    <2>2. CASE WritePart(s)
      BY <2>0, <2>2 DEF WritePart, ConsumerGoto, Filled
    <2>3. CASE CreateDirectory(s) \/ EndConsumer(s) \/ Fault(s)
      BY <2>0, <2>3 DEF CreateDirectory, EndConsumer, Fault, ConsumerGoto, Filled
    <2> QED BY <1>5, <2>1, <2>2, <2>3 DEF Consume
  <1> QED BY <1>1, <1>2, <1>3, <1>4, <1>5 DEF Next, MainStep

LEMMA NextUnmade == ASSUME IInv, Unmade, Waiting, [Next]_vars PROVE Unmade'
  <1>1. ASSUME NEW s \in Sink, AddRow(s) PROVE Unmade'
    BY <1>1 DEF AddRow, Unmade, IInv, TypeOK, Row
  <1>2. CASE StackWalk
    <2>1. PICK i \in 1 .. Len(pending) : hasStack' = [hasStack EXCEPT ![pending[i]] = TRUE]
      BY <1>2 DEF StackWalk
    <2>2. pending[i] <= sequence /\ sequence' = sequence /\ sinkOf' = sinkOf
      BY <1>2 DEF Waiting, StackWalk
    <2> QED BY <2>1, <2>2 DEF Unmade, IInv, TypeOK, Row
  <1>3. CASE MainStep \/ UNCHANGED vars
    BY <1>3 DEF MainStep, Enqueue, Register, EndOfTrace, NextSink, Complete, WriteManifest, Fail,
                vars, rowVars, Unmade
  <1>4. ASSUME NEW s \in Sink, Consume(s) \/ Fault(s) PROVE Unmade'
    BY <1>4 DEF Consume, CreateDirectory, Take, WritePart, EndConsumer, Fault, ConsumerGoto,
                rowVars, Unmade
  <1> QED BY <1>1, <1>2, <1>3, <1>4 DEF Next

LEMMA NextWaiting == ASSUME IInv, Unmade, Waiting, [Next]_vars PROVE Waiting'
  <1> USE ConstantTypes
  <1>0. /\ pending \in Seq(Row) /\ Len(pending) \in Nat /\ sequence \in Nat
        /\ \A i \in 1 .. Len(pending) : pending[i] \in Row
    BY DEF IInv, TypeOK
  <1>1. ASSUME NEW s \in Sink, AddRow(s) PROVE Waiting'
    <2> DEFINE r == sequence + 1
    <2>1. /\ r \in Row /\ sequence' = r /\ pending' = pending /\ hasStack' = hasStack
          /\ at' = s /\ sinkOf' = [sinkOf EXCEPT ![r] = s]
          /\ sinkOf \in [Row -> 0 .. SinkCount]
      <3>1. r \in Row
        BY <1>1 DEF IInv, TypeOK, AddRow, Row
      <3> QED BY <1>1, <3>1 DEF AddRow, IInv, TypeOK
    <2>2. \A i \in 1 .. Len(pending) : pending[i] < r
      BY <1>0 DEF Waiting, Row
    <2>3. ~hasStack[r] /\ sinkOf'[r] = s
      BY <1>0, <2>1 DEF Unmade
    <2>4. \A i \in 1 .. Len(pending) : sinkOf'[pending[i]] = sinkOf[pending[i]]
      BY <1>0, <2>1, <2>2 DEF Row
    <2>5. step' = "register" => s \in Stackable
      BY <1>1 DEF AddRow, SinkAdd, AfterAdd
    <2>6. \A i \in 1 .. Len(pending) :
            /\ pending'[i] <= sequence'
            /\ sinkOf'[pending'[i]] \in Stackable /\ ~hasStack'[pending'[i]]
      BY <1>0, <2>1, <2>2, <2>4, SMTT(30) DEF Waiting, Row
    <2> QED BY <2>1, <2>2, <2>3, <2>5, <2>6 DEF Waiting
  <1>2. CASE StackWalk
    <2>1. PICK i \in 1 .. Len(pending) :
            /\ hasStack' = [hasStack EXCEPT ![pending[i]] = TRUE]
            /\ pending' = SubSeq(pending, 1, i - 1) \o SubSeq(pending, i + 1, Len(pending))
      BY <1>2 DEF StackWalk
    <2>2. /\ step = "idle" /\ step' = step /\ phase' = phase /\ at' = at
          /\ sequence' = sequence /\ sinkOf' = sinkOf
      BY <1>2 DEF StackWalk, mainVars
    <2> DEFINE n == Len(pending)
               a == SubSeq(pending, 1, i - 1)
               b == SubSeq(pending, i + 1, n)
    <2>3. /\ a \in Seq(Row) /\ Len(a) = i - 1 /\ \A k \in 1 .. i - 1 : a[k] = pending[k]
          /\ b \in Seq(Row) /\ Len(b) = n - i /\ \A k \in 1 .. n - i : b[k] = pending[i + k]
      BY <1>0
    <2>4. n \in Nat /\ i \in 1 .. n
      BY <1>0
    <2> HIDE DEF a, b, n
    <2>5. /\ Len(a \o b) = n - 1
          /\ \A k \in 1 .. n - 1 : (a \o b)[k] = pending[IF k < i THEN k ELSE k + 1]
      <3>1. Len(a \o b) = Len(a) + Len(b)
            /\ \A k \in 1 .. Len(a) + Len(b) : (a \o b)[k] = IF k <= Len(a) THEN a[k]
                                                              ELSE b[k - Len(a)]
        BY <2>3, ConcatProperties
      <3> QED BY <2>3, <2>4, <3>1, SMTT(30)
    <2>6. Len(pending') = n - 1
          /\ \A k \in 1 .. n - 1 : pending'[k] = pending[IF k < i THEN k ELSE k + 1]
      BY <2>1, <2>5 DEF a, b, n
    <2>7. /\ \A k \in 1 .. n : /\ pending[k] <= sequence /\ pending[k] \in Row
                               /\ sinkOf[pending[k]] \in Stackable /\ ~hasStack[pending[k]]
          /\ \A k, l \in 1 .. n : k < l => pending[k] < pending[l]
      BY <1>0 DEF Waiting, n
    <2>8. ASSUME NEW k \in 1 .. n, k # i PROVE ~hasStack'[pending[k]]
      <3>1. pending[k] # pending[i]
        BY <2>4, <2>7, <2>8 DEF Row
      <3> QED BY <2>1, <2>7, <3>1 DEF IInv, TypeOK
    <2>9. ASSUME NEW k \in 1 .. n - 1
          PROVE  \E m \in 1 .. n : m # i /\ pending'[k] = pending[m]
      <3>1. (IF k < i THEN k ELSE k + 1) \in 1 .. n \ {i}
        BY <2>4
      <3> QED BY <2>6, <3>1
    <2>10. \A k \in 1 .. Len(pending') :
             /\ pending'[k] <= sequence'
             /\ sinkOf'[pending'[k]] \in Stackable /\ ~hasStack'[pending'[k]]
      BY <2>2, <2>6, <2>7, <2>8, <2>9
    <2>11. ASSUME NEW k \in 1 .. n - 1, NEW l \in 1 .. n - 1, k < l
           PROVE  pending'[k] < pending'[l]
      <3> DEFINE u == IF k < i THEN k ELSE k + 1
                 v == IF l < i THEN l ELSE l + 1
      <3>1. u \in 1 .. n /\ v \in 1 .. n /\ u < v
        BY <2>4, <2>11
      <3>2. pending'[k] = pending[u] /\ pending'[l] = pending[v]
        BY <2>6
      <3> HIDE DEF u, v
      <3> QED BY <2>7, <3>1, <3>2
    <2> QED BY <2>2, <2>6, <2>10, <2>11 DEF Waiting
  <1>3. CASE Register
    <2> DEFINE rest == IF Len(pending) >= PendingCapacity THEN Tail(pending) ELSE pending
    <2>1. /\ pending' = Append(rest, sequence) /\ step' = "idle"
          /\ phase = "decoding" /\ at \in Stackable /\ sequence \in Row
          /\ sinkOf[sequence] = at /\ ~hasStack[sequence]
          /\ \A i \in 1 .. Len(pending) : pending[i] < sequence
          /\ sequence' = sequence /\ sinkOf' = sinkOf /\ hasStack' = hasStack
      BY <1>0, <1>3 DEF Register, Waiting, IInv, TypeOK, MainThread, Row
    <2>2. PICK d \in {0, 1} :
            /\ rest \in Seq(Row) /\ Len(rest) = Len(pending) - d
            /\ \A i \in 1 .. Len(rest) : i + d \in 1 .. Len(pending) /\ rest[i] = pending[i + d]
      <3>1. CASE Len(pending) >= PendingCapacity
        <4>1. pending # <<>>
          BY <1>0, <3>1, EmptyFacts
        <4>2. rest = Tail(pending)
          BY <3>1
        <4>3. /\ rest \in Seq(Row) /\ Len(rest) = Len(pending) - 1
              /\ \A i \in 1 .. Len(rest) : i + 1 \in 1 .. Len(pending) /\ rest[i] = pending[i + 1]
          BY <1>0, <4>1, <4>2, TailFacts
        <4> QED BY <4>3
      <3>2. CASE ~(Len(pending) >= PendingCapacity)
        <4>1. rest = pending
          BY <3>2
        <4> QED BY <1>0, <4>1
      <3> QED BY <3>1, <3>2
    <2> HIDE DEF rest
    <2>3. /\ \A i \in 1 .. Len(rest) : /\ rest[i] < sequence /\ rest[i] \in Row
                                       /\ sinkOf[rest[i]] \in Stackable /\ ~hasStack[rest[i]]
          /\ \A i, j \in 1 .. Len(rest) : i < j => rest[i] < rest[j]
      <3>1. ASSUME NEW i \in 1 .. Len(rest), NEW j \in 1 .. Len(rest), i < j
            PROVE  rest[i] < rest[j]
        <4>1. /\ i + d \in 1 .. Len(pending) /\ rest[i] = pending[i + d]
              /\ j + d \in 1 .. Len(pending) /\ rest[j] = pending[j + d]
          BY <2>2
        <4>2. i + d < j + d
          BY <2>2, <3>1
        <4> QED BY <4>1, <4>2 DEF Waiting
      <3>2. ASSUME NEW i \in 1 .. Len(rest)
            PROVE  /\ rest[i] < sequence /\ rest[i] \in Row
                   /\ sinkOf[rest[i]] \in Stackable /\ ~hasStack[rest[i]]
        BY <1>0, <2>1, <2>2 DEF Waiting
      <3> QED BY <3>1, <3>2
    <2>4. /\ Len(pending') = Len(rest) + 1 /\ Len(rest) \in Nat
          /\ \A i \in 1 .. Len(rest) : pending'[i] = rest[i]
          /\ pending'[Len(rest) + 1] = sequence
      BY <2>1, <2>2, AppendFacts
    <2>5. \A i \in 1 .. Len(pending') :
            /\ pending'[i] <= sequence'
            /\ sinkOf'[pending'[i]] \in Stackable /\ ~hasStack'[pending'[i]]
      <3> SUFFICES ASSUME NEW i \in 1 .. Len(rest) + 1
                   PROVE  /\ pending'[i] <= sequence
                          /\ sinkOf[pending'[i]] \in Stackable /\ ~hasStack[pending'[i]]
        BY <2>1, <2>4
      <3>1. CASE i = Len(rest) + 1
        BY <1>0, <2>1, <2>4, <3>1
      <3>2. CASE i \in 1 .. Len(rest)
        BY <1>0, <2>3, <2>4, <3>2 DEF Row
      <3> QED BY <2>4, <3>1, <3>2
    <2>6. ASSUME NEW i \in 1 .. Len(pending'), NEW j \in 1 .. Len(pending'), i < j
          PROVE  pending'[i] < pending'[j]
      <3>1. i \in 1 .. Len(rest) /\ pending'[i] = rest[i]
        BY <2>4, <2>6
      <3>2. CASE j = Len(rest) + 1
        BY <2>3, <2>4, <3>1, <3>2
      <3>3. CASE j \in 1 .. Len(rest)
        BY <2>3, <2>4, <2>6, <3>1, <3>3
      <3> QED BY <2>4, <3>2, <3>3
    <2> QED BY <2>1, <2>5, <2>6 DEF Waiting
  <1>4. CASE Enqueue
    <2>1. phase' = "decoding" /\ step' \in {"ship", "register"} => phase = "decoding"
      BY <1>4 DEF Enqueue
    <2>2. step' = "register" => at \in Stackable
      BY <1>4 DEF Enqueue, AfterAdd
    <2> QED BY <1>4, <2>1, <2>2 DEF Enqueue, rowVars, Waiting
  <1>5. CASE EndOfTrace \/ NextSink
    BY <1>5 DEF EndOfTrace, NextSink, Complete, rowVars, Waiting
  <1>6. CASE WriteManifest \/ Fail \/ UNCHANGED vars
    BY <1>6 DEF WriteManifest, Fail, vars, mainVars, rowVars, Waiting
  <1>7. ASSUME NEW s \in Sink, Consume(s) \/ Fault(s) PROVE Waiting'
    BY <1>7 DEF Consume, CreateDirectory, Take, WritePart, EndConsumer, Fault, ConsumerGoto,
                mainVars, rowVars, Waiting
  <1> QED BY <1>1, <1>2, <1>3, <1>4, <1>5, <1>6, <1>7 DEF Next, MainStep

LEMMA NextCompletion ==
  ASSUME IInv, IInv', Completion, [Next]_vars
  PROVE  Completion'
  <1> USE ConstantTypes
  <1>0. /\ at \in Sink /\ current \in [Sink -> Seq(Row)] /\ closed \in [Sink -> BOOLEAN]
        /\ consumer \in [Sink -> Consumer] /\ queue \in [Sink -> Seq(Seq(Row))]
    BY DEF IInv, TypeOK
  <1>1. ASSUME NEW s \in Sink, AddRow(s) PROVE Completion'
    BY <1>1 DEF AddRow, Completion
  <1>2. CASE StackWalk \/ UNCHANGED vars
    BY <1>2 DEF StackWalk, vars, mainVars, sinkVars, Completion
  <1>3. CASE Enqueue
    <2>1. /\ step = "ship" /\ ~closed[at] /\ current[at] = <<>> /\ phase \in {"decoding", "draining"}
          /\ phase' = phase /\ at' = at /\ current' = current /\ consumer' = consumer
          /\ queue' = [queue EXCEPT ![at] = Append(queue[at], hand)]
      BY <1>3, <1>0 DEF Enqueue, Completion, IInv, TypeOK, MainThread, Exited, Phase
    <2>2. /\ phase = "decoding" => closed' = closed
          /\ phase = "draining" => step' = "await" /\ closed' = [closed EXCEPT ![at] = TRUE]
      BY <1>3, <2>1 DEF Enqueue
    <2>3. consumer[at] # "ended"
      BY <1>0, <2>1 DEF Completion
    <2> QED BY <1>0, <2>1, <2>2, <2>3 DEF Completion
  <1>4. CASE Register
    <2>1. phase = "decoding"
      BY <1>4 DEF Register, IInv, MainThread
    <2> QED BY <1>4, <2>1 DEF Register, sinkVars, Completion
  <1>5. ASSUME NEW t \in Sink, Complete(t), phase' = "draining", step # "ship",
               \A s \in 1 .. t - 1 : consumer[s] = "ended"
        PROVE  Completion'
    <2>1. /\ at' = t /\ queue' = queue /\ consumer' = consumer
          /\ closed' = [closed EXCEPT ![t] = current[t] = <<>>]
          /\ current' = [current EXCEPT ![t] = <<>>]
          /\ step' = IF current[t] = <<>> THEN "await" ELSE "ship"
      BY <1>5 DEF Complete
    <2>2. ASSUME NEW s \in Sink
          PROVE  /\ closed'[s] => current'[s] = <<>> /\ (t = s => step' = "await")
                 /\ consumer[s] = "ended" => closed'[s] /\ queue[s] = <<>>
      <3>1. /\ closed[s] => current[s] = <<>>
            /\ consumer[s] = "ended" => closed[s] /\ queue[s] = <<>>
        BY DEF Completion
      <3>2. CASE s = t
        <4>1. closed'[s] = (current[s] = <<>>) /\ current'[s] = <<>>
          BY <1>0, <2>1, <3>2
        <4> QED BY <2>1, <3>1, <3>2, <4>1
      <3>3. CASE s # t
        <4>1. closed'[s] = closed[s] /\ current'[s] = current[s]
          BY <1>0, <2>1, <3>3
        <4> QED BY <3>1, <3>3, <4>1
      <3> QED BY <3>2, <3>3
    <2> QED BY <1>5, <2>1, <2>2 DEF Completion
  <1>6. CASE EndOfTrace
    <2>1. Complete(1) /\ phase' = "draining" /\ step # "ship" /\ 1 \in Sink
      BY <1>6 DEF EndOfTrace
    <2> QED BY <1>5, <2>1
  <1>7. CASE NextSink
    <2>1. /\ Complete(at + 1) /\ phase' = "draining" /\ phase = "draining" /\ step # "ship"
          /\ at + 1 \in Sink /\ consumer[at] = "ended"
      BY <1>0, <1>7 DEF NextSink, Sink
    <2>2. ASSUME NEW s \in 1 .. (at + 1) - 1 PROVE consumer[s] = "ended"
      <3>1. s = at \/ s \in 1 .. at - 1
        BY <1>0 DEF Sink
      <3> QED BY <2>1, <3>1 DEF Completion
    <2> QED BY <1>5, <2>1, <2>2
  <1>8. CASE WriteManifest \/ Fail
    BY <1>8 DEF WriteManifest, Fail, sinkVars, Completion
  <1>9. ASSUME NEW s \in Sink, Consume(s) \/ Fault(s) PROVE Completion'
    <2>1. /\ closed' = closed /\ current' = current /\ phase' = phase /\ step' = step
          /\ at' = at /\ phase \in {"decoding", "draining"} /\ consumer[s] # "ended"
          /\ \A t \in Sink : consumer[t] = "ended" => consumer'[t] = "ended"
          /\ \A t \in Sink : t # s => consumer'[t] = consumer[t] /\ queue'[t] = queue[t]
      BY <1>0, <1>9 DEF Consume, CreateDirectory, Take, WritePart, EndConsumer, Fault,
                        ConsumerGoto, mainVars, Exited, IInv, TypeOK, Phase
    <2>2. consumer'[s] = "ended" => closed[s] /\ queue'[s] = <<>>
      BY <1>0, <1>9 DEF Consume, CreateDirectory, Take, WritePart, EndConsumer, Fault,
                        ConsumerGoto
    <2>3. \A t \in 1 .. at - 1 : t \in Sink
      BY <1>0 DEF Sink
    <2> QED BY <2>1, <2>2, <2>3 DEF Completion
  <1> QED BY <1>1, <1>2, <1>3, <1>4, <1>6, <1>7, <1>8, <1>9 DEF Next, MainStep

-----------------------------------------------------------------------------
(* Conservation of the rows *)

LEMMA InitConserving == Init => Conserving /\ Held
  <1> SUFFICES ASSUME Init PROVE Conserving /\ Held
    OBVIOUS
  <1> USE ConstantTypes
  <1>1. Filled /\ Unmade /\ Waiting
    BY DEF Init, Filled, Unmade, Waiting
  <1>2. Completion
    BY DEF Init, Completion
  <1>3. Held
    <2> SUFFICES ASSUME NEW s \in Sink PROVE Holds(Batches(s), sinkOf, s)
      BY DEF Held
    <2>1. Batches(s) = <<>>
      <3>1. /\ parts[s] = <<>> /\ writing[s] = <<>> /\ queue[s] = <<>> /\ current[s] = <<>>
            /\ hand = <<>>
        BY DEF Init
      <3>2. <<>> \o <<>> = <<>>
        BY EmptyFacts, ConcatEmptySeq
      <3> QED BY <3>1, <3>2 DEF Batches, Batch
    <2>2. \A r \in Row : sinkOf[r] # s
      BY DEF Init, Sink
    <2> QED BY <2>1, <2>2 DEF Holds
  <1> QED BY <1>1, <1>2, <1>3 DEF Conserving

\* What the batches of the sinks hold, and what the rest of the argument needs,
\* is true in every reachable state.
THEOREM InductiveConserving == Spec => [](IInv /\ Conserving /\ Held)
  <1>1. IInv /\ Conserving /\ Held /\ [Next]_vars => (IInv /\ Conserving /\ Held)'
    <2> SUFFICES ASSUME IInv, Conserving, Held, [Next]_vars
                 PROVE  (IInv /\ Conserving /\ Held)'
      OBVIOUS
    <2>1. IInv'
      BY NextInv
    <2>2. Filled' /\ Unmade' /\ Waiting' /\ Completion'
      BY <2>1, NextFilled, NextUnmade, NextWaiting, NextCompletion DEF Conserving
    <2>3. Held'
      BY NextHeld DEF Conserving
    <2> QED BY <2>1, <2>2, <2>3 DEF Conserving
  <1> QED BY <1>1, InitInv, InitConserving, PTL DEF Spec

\* No row is lost, duplicated, put into another class or reordered between the
\* callback and the parts, whatever the queue, the consumers and a failing
\* write do, for any number of classes and rows and any capacities.
THEOREM RowsAreConserved == Spec => []RowsConserved
  <1>1. IInv /\ Conserving /\ Held => RowsConserved
    <2> SUFFICES ASSUME IInv, Conserving, Held PROVE RowsConserved
      OBVIOUS
    <2>1. \A r \in RangeOf(pending) : sinkOf[r] \in Stackable /\ ~hasStack[r]
      BY DEF Conserving, Waiting, RangeOf
    <2>2. ASSUME NEW s \in Sink, NEW b \in Seq(Seq(Row)), Holds(b, sinkOf, s)
          PROVE  /\ {b[p[1]][p[2]] : p \in Position(b)} = {r \in Row : sinkOf[r] = s}
                 /\ \A p, q \in Position(b) :
                      Before(p, q) => b[p[1]][p[2]] < b[q[1]][q[2]]
      <3>1. \A i \in 1 .. Len(b) : DOMAIN b[i] = 1 .. Len(b[i])
        OBVIOUS
      <3>2. \A i, j : <<i, j>> \in Position(b) <=> i \in 1 .. Len(b) /\ j \in 1 .. Len(b[i])
        BY <3>1 DEF Position
      <3>3. \A p \in Position(b) :
              p = <<p[1], p[2]>> /\ p[1] \in 1 .. Len(b) /\ p[2] \in 1 .. Len(b[p[1]])
        BY <3>1 DEF Position
      <3>4. \A i \in 1 .. Len(b) : \A j \in 1 .. Len(b[i]) : b[i][j] \in Row
        OBVIOUS
      <3>5. ASSUME NEW r \in Row, sinkOf[r] = s
            PROVE  \E p \in Position(b) : b[p[1]][p[2]] = r
        <4>1. PICK i \in 1 .. Len(b) : \E j \in 1 .. Len(b[i]) : b[i][j] = r
          BY <2>2, <3>5 DEF Holds
        <4>2. PICK j \in 1 .. Len(b[i]) : b[i][j] = r
          BY <4>1
        <4>3. <<i, j>> \in Position(b) /\ b[<<i, j>>[1]][<<i, j>>[2]] = r
          BY <3>2, <4>2
        <4> QED BY <4>3
      <3>6. \A p \in Position(b) : b[p[1]][p[2]] \in Row /\ sinkOf[b[p[1]][p[2]]] = s
        BY <2>2, <3>3, <3>4 DEF Holds
      <3>7. \A p, q \in Position(b) : Before(p, q) => b[p[1]][p[2]] < b[q[1]][q[2]]
        BY <2>2, <3>3 DEF Holds, Before
      <3>8. {b[p[1]][p[2]] : p \in Position(b)} \subseteq {r \in Row : sinkOf[r] = s}
        BY <3>6
      <3>9. {r \in Row : sinkOf[r] = s} \subseteq {b[p[1]][p[2]] : p \in Position(b)}
        BY <3>5
      <3> QED BY <3>7, <3>8, <3>9
    <2>3. \A s \in Sink : Batches(s) \in Seq(Seq(Row)) /\ Holds(Batches(s), sinkOf, s)
      BY BatchesType DEF IInv, Held
    <2> QED BY <2>1, <2>2, <2>3 DEF RowsConserved
  <1> QED BY <1>1, InductiveConserving, PTL

\* Success is reported only when every row of every class is in a part on disk.
THEOREM ManifestIsComplete == Spec => []ManifestComplete
  <1>1. IInv /\ Conserving /\ Held => ManifestComplete
    <2> SUFFICES ASSUME IInv, Conserving, Held, phase = "ok",
                        NEW s \in Sink, NEW r \in Row, sinkOf[r] = s
                 PROVE  \E i \in 1 .. Len(parts[s]) : r \in RangeOf(parts[s][i])
      BY DEF ManifestComplete
    <2>1. consumer[s] = "ended"
      <3>1. s = at \/ s \in 1 .. at - 1
        BY DEF Conserving, Completion, IInv, TypeOK, Sink
      <3> QED BY <3>1 DEF Conserving, Completion
    <2>2. closed[s] /\ queue[s] = <<>> /\ writing[s] = <<>>
      BY <2>1 DEF Conserving, Completion, Filled
    <2>3. current[s] = <<>> /\ (at = s => hand = <<>>)
      BY <2>2 DEF Conserving, Completion, IInv, MainThread
    <2>4. Batches(s) = parts[s]
      <3>1. Batches(s) = parts[s] \o <<>> \o <<>> \o <<>> \o <<>>
        BY <2>2, <2>3 DEF Batches, Batch
      <3>2. parts[s] \o <<>> = parts[s]
        BY BatchesType, ConcatEmptySeq DEF IInv
      <3> QED BY <3>1, <3>2
    <2>5. Holds(parts[s], sinkOf, s)
      BY <2>4 DEF Held
    <2> QED BY <2>5 DEF Holds, RangeOf
  <1> QED BY <1>1, InductiveConserving, PTL
=============================================================================
