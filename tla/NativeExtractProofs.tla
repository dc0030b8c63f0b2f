------------------------ MODULE NativeExtractProofs ------------------------
(***************************************************************************)
(* The writer of the native extraction, for any trace, any capacities and  *)
(* any writes that fail: a generation that can be seen is whole, every     *)
(* decoded row is in exactly one place, and both extractions of the native *)
(* pipeline pair the same rows and stacks.  And its readers: a scan of a   *)
(* committed store gives the rows its filter asks for, once each, and the  *)
(* join of the scheduler events reports each wait once, and all of them    *)
(* where rows come in order.                                               *)
(***************************************************************************)
EXTENDS NativeExtract, RowSequenceProofs

-----------------------------------------------------------------------------
(* Sequences *)

LEMMA SeqFacts ==
  ASSUME NEW s, IsSeq(s)
  PROVE  Len(s) \in Nat /\ DOMAIN s = 1 .. Len(s) /\ (s # << >> => Len(s) >= 1)
  <1>1. s \in Seq(Range(s))
    BY DEF IsSeq
  <1> HIDE DEF IsSeq
  <1>2. Len(s) \in Nat /\ DOMAIN s = 1 .. Len(s)
    BY <1>1, LenProperties
  <1>3. s # << >> => Len(s) >= 1
    BY <1>1, EmptySeq
  <1> QED BY <1>2, <1>3

LEMMA EmptyIsSeq == IsSeq(<< >>) /\ Len(<< >>) = 0 /\ DOMAIN << >> = {} /\ Range(<< >>) = {}
  BY EmptySeq DEF IsSeq, Range

LEMMA SeqIs ==
  ASSUME NEW S, NEW s \in Seq(S)
  PROVE  IsSeq(s)
  BY SeqOfRange DEF IsSeq

LEMMA AppendFacts ==
  ASSUME NEW s, NEW e, IsSeq(s)
  PROVE  /\ IsSeq(Append(s, e))
         /\ Len(Append(s, e)) = Len(s) + 1 /\ DOMAIN Append(s, e) = 1 .. Len(s) + 1
         /\ \A i \in DOMAIN s : Append(s, e)[i] = s[i]
         /\ Append(s, e)[Len(s) + 1] = e
         /\ Range(Append(s, e)) = Range(s) \union {e}
         /\ Append(s, e) # << >>
  <1> DEFINE S == Range(s) \union {e}
  <1>1. s \in Seq(Range(s)) /\ Range(s) \subseteq S
    BY DEF IsSeq
  <1>2. s \in Seq(S) /\ e \in S
    <2> HIDE DEF S
    <2>1. s \in Seq(S)
      BY <1>1, SeqMonotonic
    <2> QED BY <2>1 DEF S
  <1> HIDE DEF S
  <1>3. /\ Append(s, e) \in Seq(S) /\ Append(s, e) # << >>
        /\ Len(Append(s, e)) = Len(s) + 1
        /\ \A i \in 1 .. Len(s) : Append(s, e)[i] = s[i]
        /\ Append(s, e)[Len(s) + 1] = e
    BY <1>2, AppendProperties
  <1>4. IsSeq(Append(s, e)) /\ DOMAIN s = 1 .. Len(s) /\ Len(s) \in Nat
    BY <1>3, SeqIs, SeqFacts
  <1>5. DOMAIN Append(s, e) = 1 .. Len(s) + 1
    BY <1>3, <1>4, SeqFacts
  <1>6. Range(Append(s, e)) = Range(s) \union {e}
    BY <1>3, <1>4, <1>5 DEF Range
  <1> QED BY <1>3, <1>4, <1>5, <1>6

LEMMA RemoveFacts ==
  ASSUME NEW s, NEW at, IsSeq(s), at \in DOMAIN s
  PROVE  /\ IsSeq(RemoveAt(s, at))
         /\ Len(RemoveAt(s, at)) = Len(s) - 1
         /\ DOMAIN RemoveAt(s, at) = 1 .. Len(s) - 1
         /\ \A i \in 1 .. Len(s) - 1 :
              RemoveAt(s, at)[i] = IF i < at THEN s[i] ELSE s[i + 1]
  <1> DEFINE S == Range(s)
             a == SubSeq(s, 1, at - 1)
             b == SubSeq(s, at + 1, Len(s))
  <1>1. /\ s \in Seq(S) /\ DOMAIN s = 1 .. Len(s) /\ Len(s) \in Nat
        /\ at \in 1 .. Len(s) /\ \A i \in 1 .. Len(s) : s[i] \in S
    BY SeqFacts DEF IsSeq, Range
  <1> HIDE DEF S
  <1>2. /\ a \in Seq(S) /\ Len(a) = at - 1
        /\ \A i \in 1 .. at - 1 : a[i] = s[i]
    <2>1. at - 1 \in Int /\ \A i \in 1 .. at - 1 : s[i] \in S
      BY <1>1
    <2> QED BY <1>1, <2>1, SubSeqProperties
  <1>3. /\ b \in Seq(S) /\ Len(b) = Len(s) - at
        /\ \A i \in 1 .. Len(s) - at : b[i] = s[at + i]
    <2>1. at + 1 \in Int /\ Len(s) \in Int /\ \A i \in at + 1 .. Len(s) : s[i] \in S
      BY <1>1
    <2> QED BY <1>1, <2>1, SubSeqProperties, SMTT(30)
  <1> HIDE DEF a, b
  <1>4. /\ a \o b \in Seq(S) /\ Len(a \o b) = Len(a) + Len(b)
        /\ \A i \in 1 .. Len(a) + Len(b) :
             (a \o b)[i] = IF i <= Len(a) THEN a[i] ELSE b[i - Len(a)]
    BY <1>2, <1>3, ConcatProperties
  <1> DEFINE t == a \o b
  <1>5. RemoveAt(s, at) = t
    BY DEF RemoveAt, a, b
  <1>6. /\ t \in Seq(S) /\ Len(t) = Len(s) - 1
        /\ \A i \in 1 .. Len(s) - 1 : t[i] = IF i <= at - 1 THEN a[i] ELSE b[i - (at - 1)]
    BY <1>1, <1>2, <1>3, <1>4, SMTT(30)
  <1> HIDE DEF t
  <1>7. \A i \in 1 .. Len(s) - 1 : t[i] = IF i < at THEN s[i] ELSE s[i + 1]
    <2> SUFFICES ASSUME NEW i \in 1 .. Len(s) - 1 PROVE t[i] = IF i < at THEN s[i] ELSE s[i + 1]
      OBVIOUS
    <2>1. CASE i < at
      <3>1. i \in 1 .. at - 1 /\ i <= at - 1
        BY <1>1, <2>1
      <3> QED BY <1>2, <1>6, <2>1, <3>1
    <2>2. CASE ~(i < at)
      <3>1. ~(i <= at - 1) /\ i - (at - 1) \in 1 .. Len(s) - at /\ at + (i - (at - 1)) = i + 1
        BY <1>1, <2>2
      <3>2. t[i] = b[i - (at - 1)]
        BY <1>6, <3>1
      <3>3. b[i - (at - 1)] = s[at + (i - (at - 1))]
        BY <1>3, <3>1
      <3> QED BY <2>2, <3>1, <3>2, <3>3
    <2> QED BY <2>1, <2>2
  <1>8. IsSeq(t) /\ DOMAIN t = 1 .. Len(s) - 1
    BY <1>6, SeqIs, SeqFacts
  <1> QED BY <1>5, <1>6, <1>7, <1>8

LEMMA TailIsRemoveAt ==
  ASSUME NEW s, IsSeq(s), s # << >>
  PROVE  Tail(s) = RemoveAt(s, 1) /\ 1 \in DOMAIN s
  <1> DEFINE S == Range(s)
  <1>1. s \in Seq(S)
    BY DEF IsSeq
  <1>2. 1 \in DOMAIN s
    BY SeqFacts
  <1> HIDE DEF S
  <1>3. Tail(s) \in Seq(S) /\ Len(Tail(s)) = Len(s) - 1
        /\ \A i \in 1 .. Len(Tail(s)) : Tail(s)[i] = s[i + 1]
    BY <1>1, HeadTailProperties
  <1> DEFINE t == RemoveAt(s, 1)
  <1>4. /\ IsSeq(t) /\ Len(t) = Len(s) - 1
        /\ \A i \in 1 .. Len(s) - 1 : t[i] = IF i < 1 THEN s[i] ELSE s[i + 1]
    BY <1>2, RemoveFacts
  <1>5. Len(s) \in Nat
    BY SeqFacts
  <1>6. \A i \in 1 .. Len(s) - 1 : t[i] = s[i + 1]
    <2> HIDE DEF t
    <2> QED BY <1>4, <1>5
  <1>7. DOMAIN t = 1 .. Len(s) - 1 /\ t \in Seq(Range(t))
    <2> HIDE DEF t
    <2> QED BY <1>4, SeqFacts DEF IsSeq
  <1> DEFINE T == S \union Range(t)
  <1>8. t \in Seq(T) /\ Tail(s) \in Seq(T)
    <2> HIDE DEF t
    <2>1. S \subseteq T /\ Range(t) \subseteq T
      OBVIOUS
    <2> HIDE DEF T
    <2>2. t \in Seq(T)
      BY <1>7, <2>1, SeqMonotonic
    <2>3. Tail(s) \in Seq(T)
      BY <1>3, <2>1, SeqMonotonic
    <2> QED BY <2>2, <2>3
  <1>9. Tail(s) = t
    <2> HIDE DEF t, T
    <2>1. Len(Tail(s)) = Len(t) /\ \A i \in 1 .. Len(Tail(s)) : Tail(s)[i] = t[i]
      BY <1>3, <1>4, <1>6
    <2> QED BY <1>8, <2>1, SeqEqual
  <1> QED BY <1>2, <1>9

-----------------------------------------------------------------------------
(* A visible generation is whole *)

\* What one append, or the flush of a closed writer, does to a class.
LEMMA FlushShape ==
  ASSUME Shape, NEW c \in Classes, NEW rows, IsSeq(rows), NEW works \in BOOLEAN,
         Flush(c, rows, works)
  PROVE  /\ DOMAIN buffer' = Classes /\ DOMAIN parts' = Classes /\ DOMAIN nextPart' = Classes
         /\ \A d \in Classes : IsSeq(buffer'[d]) /\ IsSeq(parts'[d]) /\ nextPart'[d] \in Nat
         /\ IsDir(staging')
         /\ staging'.exists = staging.exists /\ staging'.sealed = staging.sealed
         /\ staging'.manifest = staging.manifest
         /\ \A d \in Classes \ {c} : /\ buffer'[d] = buffer[d] /\ parts'[d] = parts[d]
                                     /\ staging'.files[d] = staging.files[d]
         /\ rows # << >> => buffer'[c] = << >>
         /\ IF rows = << >> \/ ~works
              THEN parts' = parts /\ staging' = staging
              ELSE /\ parts'[c] = Append(parts[c], PartOf(nextPart[c], rows))
                   /\ staging'.files[c] =
                        staging.files[c] \union {[index |-> nextPart[c], rows |-> rows]}
  <1>1. CASE rows = << >>
    BY <1>1 DEF Flush, Shape
  <1> DEFINE part == PartOf(nextPart[c], rows)
             file == [index |-> nextPart[c], rows |-> rows]
  <1> HIDE DEF part, file
  <1>2. CASE rows # << >>
    <2>1. /\ buffer' = [buffer EXCEPT ![c] = << >>]
          /\ nextPart' = [nextPart EXCEPT ![c] = @ + 1]
      BY <1>2 DEF Flush
    <2>2. /\ DOMAIN buffer' = Classes /\ DOMAIN nextPart' = Classes /\ buffer'[c] = << >>
          /\ \A d \in Classes : IsSeq(buffer'[d]) /\ nextPart'[d] \in Nat
          /\ \A d \in Classes \ {c} : buffer'[d] = buffer[d]
      BY <2>1, EmptyIsSeq DEF Shape
    <2>3. CASE ~works
      BY <1>2, <2>2, <2>3 DEF Flush, Shape
    <2>4. CASE works
      <3>1. /\ parts' = [parts EXCEPT ![c] = Append(parts[c], part)]
            /\ staging' = [staging EXCEPT !.files = [staging.files EXCEPT ![c] = staging.files[c] \union {file}]]
        BY <1>2, <2>4 DEF Flush, part, file, Shape, IsDir
      <3>2. IsSeq(Append(parts[c], part))
        BY AppendFacts DEF Shape
      <3>3. /\ DOMAIN parts' = Classes /\ parts'[c] = Append(parts[c], part)
            /\ \A d \in Classes : IsSeq(parts'[d])
            /\ \A d \in Classes \ {c} : parts'[d] = parts[d]
        BY <3>1, <3>2 DEF Shape
      <3>4. /\ DOMAIN staging' = DOMAIN staging
            /\ staging'.exists = staging.exists /\ staging'.sealed = staging.sealed
            /\ staging'.manifest = staging.manifest
            /\ staging'.files = [staging.files EXCEPT ![c] = staging.files[c] \union {file}]
        BY <3>1 DEF Shape, IsDir
      <3>5. IsDir(staging') /\ staging'.files[c] = staging.files[c] \union {file}
            /\ \A d \in Classes \ {c} : staging'.files[d] = staging.files[d]
        BY <3>4 DEF Shape, IsDir
      <3> QED BY <1>2, <2>2, <2>4, <3>3, <3>4, <3>5 DEF part, file
    <2> QED BY <2>3, <2>4
  <1> QED BY <1>1, <1>2

LEMMA FlushRecorded ==
  ASSUME Shape, Recorded, NEW c \in Classes, NEW rows, IsSeq(rows), NEW works \in BOOLEAN,
         Flush(c, rows, works)
  PROVE  Recorded'
  <1> DEFINE part == PartOf(nextPart[c], rows)
             file == [index |-> nextPart[c], rows |-> rows]
  <1>1. file.index = part.index /\ Len(file.rows) = part.count
    BY DEF PartOf
  <1> HIDE DEF part, file
  <1>2. /\ staging'.exists = staging.exists
        /\ \A d \in Classes \ {c} : parts'[d] = parts[d] /\ staging'.files[d] = staging.files[d]
        /\ IF rows = << >> \/ ~works
             THEN parts' = parts /\ staging' = staging
             ELSE /\ parts'[c] = Append(parts[c], part)
                  /\ staging'.files[c] = staging.files[c] \union {file}
    BY FlushShape DEF part, file
  <1>3. CASE rows = << >> \/ ~works
    BY <1>2, <1>3 DEF Recorded
  <1>4. CASE rows # << >> /\ works
    <2>1. /\ DOMAIN parts'[c] = 1 .. Len(parts[c]) + 1 /\ DOMAIN parts[c] = 1 .. Len(parts[c])
          /\ Len(parts[c]) \in Nat
          /\ \A i \in DOMAIN parts[c] : parts'[c][i] = parts[c][i]
          /\ parts'[c][Len(parts[c]) + 1] = part
      <3>1. IsSeq(parts[c]) /\ parts'[c] = Append(parts[c], part)
        BY <1>2, <1>4 DEF Shape
      <3> QED BY <3>1, AppendFacts, SeqFacts
    <2> SUFFICES ASSUME staging.exists, NEW d \in Classes
                 PROVE  /\ \A i \in DOMAIN parts'[d] :
                             \E f \in staging'.files[d] :
                               f.index = parts'[d][i].index /\ Len(f.rows) = parts'[d][i].count
                        /\ \A f \in staging'.files[d] :
                             \E i \in DOMAIN parts'[d] : f.index = parts'[d][i].index
      BY <1>2 DEF Recorded
    <2>2. CASE d # c
      BY <1>2, <2>2 DEF Recorded
    <2>3. CASE d = c
      <3>1. ASSUME NEW i \in DOMAIN parts'[c]
            PROVE  \E f \in staging'.files[c] :
                     f.index = parts'[c][i].index /\ Len(f.rows) = parts'[c][i].count
        <4>1. CASE i \in DOMAIN parts[c]
          BY <1>2, <1>4, <2>1, <4>1 DEF Recorded
        <4>2. CASE i = Len(parts[c]) + 1
          BY <1>1, <1>2, <1>4, <2>1, <4>2
        <4> QED BY <2>1, <4>1, <4>2
      <3>2. ASSUME NEW f \in staging'.files[c]
            PROVE  \E i \in DOMAIN parts'[c] : f.index = parts'[c][i].index
        <4>1. CASE f \in staging.files[c]
          <5>1. PICK i \in DOMAIN parts[c] : f.index = parts[c][i].index
            BY <4>1 DEF Recorded
          <5>2. i \in DOMAIN parts'[c] /\ parts'[c][i] = parts[c][i]
            BY <2>1, <5>1
          <5> QED BY <5>1, <5>2
        <4>2. CASE f = file
          <5>1. Len(parts[c]) + 1 \in DOMAIN parts'[c]
            BY <2>1
          <5> QED BY <1>1, <2>1, <4>2, <5>1
        <4> QED BY <1>2, <1>4, <4>1, <4>2
      <3> QED BY <2>3, <3>1, <3>2
    <2> QED BY <2>2, <2>3
  <1> QED BY <1>3, <1>4

\* AppendRow is a longer buffer, or the flush of one.
LEMMA AppendRowCases ==
  ASSUME Shape, NEW c \in Classes, NEW row, NEW works \in BOOLEAN, AppendRow(c, row, works)
  PROVE  /\ IsSeq(Append(buffer[c], row)) /\ Append(buffer[c], row) # << >>
         /\ \/ Flush(c, Append(buffer[c], row), works)
            \/ /\ buffer' = [buffer EXCEPT ![c] = Append(buffer[c], row)]
               /\ UNCHANGED <<parts, nextPart, staging>>
  BY AppendFacts DEF AppendRow, Shape

LEMMA AppendRowShape ==
  ASSUME Shape, Recorded, NEW c \in Classes, NEW row, NEW works \in BOOLEAN,
         AppendRow(c, row, works), UNCHANGED final
  PROVE  /\ Shape' /\ Recorded'
         /\ staging'.exists = staging.exists /\ staging'.sealed = staging.sealed
  <1>0. IsSeq(Append(buffer[c], row))
    BY AppendRowCases
  <1>1. CASE Flush(c, Append(buffer[c], row), works)
    BY <1>0, <1>1, FlushShape, FlushRecorded DEF Shape
  <1>2. CASE /\ buffer' = [buffer EXCEPT ![c] = Append(buffer[c], row)]
             /\ UNCHANGED <<parts, nextPart, staging>>
    BY <1>0, <1>2 DEF Shape, Recorded
  <1> QED BY <1>1, <1>2, AppendRowCases

-----------------------------------------------------------------------------
(* What waits is as it was decoded *)

Fields == {"seq", "qpc", "cpu", "tid", "about", "stack"}

\* What a waiting row is, of a queue and what was accepted before.
AsDecoded(queue, before) ==
  \A i \in DOMAIN queue :
    /\ queue[i].class \in Stackable /\ queue[i].row.stack = None
    /\ DOMAIN queue[i].row = Fields
    /\ \E j \in DOMAIN before : before[j] = queue[i]

LEMMA NumberedIs ==
  Numbered <=> /\ count \in Nat /\ IsSeq(pending) /\ IsSeq(accepted)
               /\ AsDecoded(pending, accepted)
               /\ \A i \in DOMAIN accepted : accepted[i].row.seq \in 1 .. count
  BY DEF Numbered, AsDecoded, Fields

LEMMA WaitsRemoved ==
  ASSUME NEW queue, NEW before, NEW at, IsSeq(queue), at \in DOMAIN queue,
         AsDecoded(queue, before)
  PROVE  IsSeq(RemoveAt(queue, at)) /\ AsDecoded(RemoveAt(queue, at), before)
  <1> DEFINE q == RemoveAt(queue, at)
  <1>1. /\ IsSeq(q) /\ DOMAIN q = 1 .. Len(queue) - 1
        /\ \A i \in 1 .. Len(queue) - 1 : q[i] = IF i < at THEN queue[i] ELSE queue[i + 1]
        /\ DOMAIN queue = 1 .. Len(queue) /\ Len(queue) \in Nat
    BY RemoveFacts, SeqFacts
  <1> HIDE DEF q
  <1>2. \A i \in DOMAIN q : \E j \in DOMAIN queue : q[i] = queue[j]
    <2> SUFFICES ASSUME NEW i \in 1 .. Len(queue) - 1 PROVE \E j \in DOMAIN queue : q[i] = queue[j]
      BY <1>1
    <2>1. i \in DOMAIN queue /\ i + 1 \in DOMAIN queue
      BY <1>1
    <2> QED BY <1>1, <2>1
  <1>3. AsDecoded(q, before)
    BY <1>2 DEF AsDecoded
  <1> QED BY <1>1, <1>3 DEF q

LEMMA WaitsAppended ==
  ASSUME NEW queue, NEW before, NEW entry, IsSeq(queue), AsDecoded(queue, before),
         entry.class \in Stackable, entry.row.stack = None, DOMAIN entry.row = Fields,
         \E j \in DOMAIN before : before[j] = entry
  PROVE  IsSeq(Append(queue, entry)) /\ AsDecoded(Append(queue, entry), before)
  <1> DEFINE q == Append(queue, entry)
  <1>1. /\ IsSeq(q) /\ DOMAIN q = 1 .. Len(queue) + 1
        /\ \A i \in DOMAIN queue : q[i] = queue[i]
        /\ q[Len(queue) + 1] = entry
        /\ DOMAIN queue = 1 .. Len(queue) /\ Len(queue) \in Nat
    BY AppendFacts, SeqFacts
  <1> HIDE DEF q
  <1>2. \A i \in DOMAIN q : i \in DOMAIN queue \/ i = Len(queue) + 1
    BY <1>1
  <1>3. AsDecoded(q, before)
    BY <1>1, <1>2 DEF AsDecoded
  <1> QED BY <1>1, <1>3 DEF q

\* What is accepted stays so.
LEMMA AcceptedMore ==
  ASSUME Numbered, NEW entry, entry.row.seq = count + 1,
         count' = count + 1, accepted' = Append(accepted, entry)
  PROVE  /\ count' \in Nat /\ IsSeq(accepted')
         /\ \A i \in DOMAIN accepted' : accepted'[i].row.seq \in 1 .. count'
         /\ \E j \in DOMAIN accepted' : accepted'[j] = entry
         /\ \A queue : AsDecoded(queue, accepted) => AsDecoded(queue, accepted')
  <1>1. count \in Nat /\ IsSeq(accepted)
        /\ \A i \in DOMAIN accepted : accepted[i].row.seq \in 1 .. count
    BY DEF Numbered
  <1>2. /\ IsSeq(accepted') /\ DOMAIN accepted' = 1 .. Len(accepted) + 1
        /\ \A i \in DOMAIN accepted : accepted'[i] = accepted[i]
        /\ accepted'[Len(accepted) + 1] = entry
        /\ DOMAIN accepted = 1 .. Len(accepted) /\ Len(accepted) \in Nat
    BY <1>1, AppendFacts, SeqFacts
  <1>3. \A i \in DOMAIN accepted' : i \in DOMAIN accepted \/ i = Len(accepted) + 1
    BY <1>2
  <1>4. \A i \in DOMAIN accepted' : accepted'[i].row.seq \in 1 .. count'
    <2> SUFFICES ASSUME NEW i \in DOMAIN accepted' PROVE accepted'[i].row.seq \in 1 .. count'
      OBVIOUS
    <2>1. CASE i \in DOMAIN accepted
      BY <1>1, <1>2, <2>1
    <2>2. CASE i = Len(accepted) + 1
      BY <1>1, <1>2, <2>2
    <2> QED BY <1>3, <2>1, <2>2
  <1>5. \E j \in DOMAIN accepted' : accepted'[j] = entry
    <2>1. Len(accepted) + 1 \in DOMAIN accepted'
      BY <1>2
    <2> QED BY <1>2, <2>1
  <1>6. DOMAIN accepted \subseteq DOMAIN accepted'
    BY <1>2
  <1>7. \A queue : AsDecoded(queue, accepted) => AsDecoded(queue, accepted')
    BY <1>2, <1>6 DEF AsDecoded
  <1> QED BY <1>1, <1>2, <1>4, <1>5, <1>7

LEMMA EntryFacts ==
  ASSUME Numbered, NEW e \in Inputs
  PROVE  /\ Row(e).seq = count + 1 /\ Row(e).stack = None /\ Row(e).tid = e.tid /\ Row(e).qpc = e.qpc
         /\ DOMAIN Row(e) = Fields
  BY DEF Row, Fields

LEMMA MatchFacts ==
  ASSUME NEW queue, NEW e
  PROVE  Match(queue, e) \subseteq DOMAIN queue
  BY DEF Match, Earliest, SameKey, SameTime

\* Where a row leaves the queue to make room for another.
LEMMA StackableOut ==
  ASSUME Numbered, NEW e \in Inputs, OnStackable(e)
  PROVE  LET same == SameKey(pending, e)
             entry == [class |-> e.class, row |-> Row(e)]
             full == same = {} /\ Len(pending) = Capacity
         IN \/ /\ ~full /\ same = {}
               /\ StoreNothing /\ pending' = Append(pending, entry)
            \/ \E out \in DOMAIN pending, works \in BOOLEAN :
                 /\ full \/ same # {}
                 /\ out \in IF full THEN {1} ELSE Earliest(same)
                 /\ Store(pending[out].class, pending[out].row, works)
                 /\ pending' = IF works \/ full
                                 THEN Append(RemoveAt(pending, out), entry)
                                 ELSE RemoveAt(pending, out)
  <1> DEFINE same == SameKey(pending, e)
             entry == [class |-> e.class, row |-> Row(e)]
             full == same = {} /\ Len(pending) = Capacity
  <1>1. CASE same # {} \/ full
    <2>1. PICK out \in IF full THEN {1} ELSE Earliest(same) : \E works \in BOOLEAN :
                 /\ Store(pending[out].class, pending[out].row, works)
                 /\ pending' = IF works \/ full
                                 THEN Append(RemoveAt(pending, out), entry)
                                 ELSE RemoveAt(pending, out)
      BY <1>1 DEF OnStackable
    <2>2. out \in DOMAIN pending
      <3>1. CASE full
        <4>1. Len(pending) >= 1 /\ Len(pending) \in Nat /\ DOMAIN pending = 1 .. Len(pending)
          BY <3>1, SeqFacts, ExtractAssumption DEF Numbered
        <4> QED BY <2>1, <3>1, <4>1
      <3>2. CASE ~full
        BY <2>1, <3>2 DEF Earliest, SameKey
      <3> QED BY <3>1, <3>2
    <2> QED BY <1>1, <2>1, <2>2
  <1>2. CASE ~(same # {} \/ full)
    BY <1>2 DEF OnStackable
  <1> QED BY <1>1, <1>2

LEMMA NumberedStep == ASSUME Numbered, [Next]_vars PROVE Numbered'
  <1> USE NumberedIs
  <1>0. count \in Nat /\ IsSeq(pending) /\ AsDecoded(pending, accepted)
    OBVIOUS
  <1>1. ASSUME NEW e \in Inputs, OnStackWalk(e) PROVE Numbered'
    <2>1. count' = count + 1 /\ accepted' = accepted
      BY <1>1 DEF OnStackWalk, Delivered
    <2>2. \/ pending' = pending
          \/ \E at \in DOMAIN pending : pending' = RemoveAt(pending, at)
      BY <1>1, MatchFacts DEF OnStackWalk
    <2>3. IsSeq(pending') /\ AsDecoded(pending', accepted)
      BY <1>0, <2>2, WaitsRemoved
    <2> QED BY <2>1, <2>3, NumberedIs DEF Numbered, AsDecoded, Fields
  <1>2. ASSUME NEW e \in Inputs, OnHeader(e) \/ OnOther(e) PROVE Numbered'
    BY <1>2 DEF OnHeader, OnOther, Delivered, Numbered
  <1>3. ASSUME NEW e \in Inputs, OnStackable(e) PROVE Numbered'
    <2> DEFINE entry == [class |-> e.class, row |-> Row(e)]
    <2>1. count' = count + 1 /\ accepted' = Append(accepted, entry) /\ e.class \in Stackable
      BY <1>3 DEF OnStackable, Delivered
    <2>2. /\ entry.row.seq = count + 1 /\ entry.class \in Stackable
          /\ entry.row.stack = None /\ DOMAIN entry.row = Fields
      BY <2>1, EntryFacts
    <2>3. \/ pending' = Append(pending, entry)
          \/ \E out \in DOMAIN pending : pending' \in {Append(RemoveAt(pending, out), entry),
                                                       RemoveAt(pending, out)}
      BY <1>3, StackableOut
    <2> HIDE DEF entry
    <2>4. /\ count' \in Nat /\ IsSeq(accepted')
          /\ \A i \in DOMAIN accepted' : accepted'[i].row.seq \in 1 .. count'
          /\ \E j \in DOMAIN accepted' : accepted'[j] = entry
          /\ \A queue : AsDecoded(queue, accepted) => AsDecoded(queue, accepted')
      BY <2>1, <2>2, AcceptedMore
    <2>5. AsDecoded(pending, accepted')
      BY <1>0, <2>4
    <2>6. IsSeq(pending') /\ AsDecoded(pending', accepted')
      <3>1. CASE pending' = Append(pending, entry)
        BY <1>0, <2>2, <2>4, <2>5, <3>1, WaitsAppended
      <3>2. ASSUME NEW out \in DOMAIN pending, pending' = Append(RemoveAt(pending, out), entry)
            PROVE  IsSeq(pending') /\ AsDecoded(pending', accepted')
        <4>1. IsSeq(RemoveAt(pending, out)) /\ AsDecoded(RemoveAt(pending, out), accepted')
          BY <1>0, <2>5, WaitsRemoved
        <4> QED BY <2>2, <2>4, <3>2, <4>1, WaitsAppended
      <3>3. ASSUME NEW out \in DOMAIN pending, pending' = RemoveAt(pending, out)
            PROVE  IsSeq(pending') /\ AsDecoded(pending', accepted')
        BY <1>0, <2>5, <3>3, WaitsRemoved
      <3> QED BY <2>3, <3>1, <3>2, <3>3
    <2> QED BY <2>4, <2>6 DEF Numbered, AsDecoded, Fields
  <1>4. ASSUME NEW e \in Inputs, OnPlain(e) PROVE Numbered'
    <2> DEFINE entry == [class |-> e.class, row |-> Row(e)]
    <2>1. count' = count + 1 /\ accepted' = Append(accepted, entry) /\ pending' = pending
      BY <1>4 DEF OnPlain, Delivered
    <2>2. entry.row.seq = count + 1
      BY EntryFacts
    <2> HIDE DEF entry
    <2>3. /\ count' \in Nat /\ IsSeq(accepted')
          /\ \A i \in DOMAIN accepted' : accepted'[i].row.seq \in 1 .. count'
          /\ \A queue : AsDecoded(queue, accepted) => AsDecoded(queue, accepted')
      BY <2>1, <2>2, AcceptedMore
    <2> QED BY <1>0, <2>1, <2>3 DEF Numbered, AsDecoded, Fields
  <1>5. CASE Drain
    <2>1. count' = count /\ accepted' = accepted
      BY <1>5 DEF Drain
    <2>2. IsSeq(pending') /\ AsDecoded(pending', accepted)
      <3>1. CASE pending # << >>
        <4>1. pending' = RemoveAt(pending, 1) /\ 1 \in DOMAIN pending
          BY <1>0, <1>5, <3>1, TailIsRemoveAt DEF Drain
        <4> QED BY <1>0, <4>1, WaitsRemoved
      <3>2. CASE pending = << >>
        BY <1>0, <1>5, <3>2 DEF Drain
      <3> QED BY <3>1, <3>2
    <2> QED BY <2>1, <2>2 DEF Numbered, AsDecoded, Fields
  <1>6. CASE EndOfTrace \/ CloseWriter \/ CommitManifest \/ CommitPromote \/ Killed
    BY <1>6 DEF EndOfTrace, CloseWriter, CommitManifest, CommitPromote, Killed, Numbered
  <1>7. CASE (\E size \in BatchSizes : StartJoin(size)) \/ TakeReady \/ TakeSwitch \/ EndJoin
    BY <1>7 DEF StartJoin, TakeReady, TakeSwitch, EndJoin, Numbered
  <1>8. CASE UNCHANGED vars
    BY <1>8 DEF vars, extractVars, Numbered
  <1> QED BY <1>1, <1>2, <1>3, <1>4, <1>5, <1>6, <1>7, <1>8 DEF Next

LEMMA NumberedInit == Init => Numbered
  BY EmptyIsSeq DEF Init, Numbered

-----------------------------------------------------------------------------
(* Every step leaves a visible generation whole *)

LEMMA VisibleInit == Init => Visible
  <1> SUFFICES ASSUME Init PROVE Visible
    OBVIOUS
  <1>1. Shape
    BY EmptyIsSeq DEF Init, StoreInit, Shape, IsDir, NewDir, NoDir
  <1>2. Recorded
    BY EmptyIsSeq DEF Init, StoreInit, Recorded, NewDir
  <1>3. Generation /\ VisibleIsValid
    BY DEF Init, StoreInit, Generation, VisibleIsValid, NewDir, NoDir
  <1> QED BY <1>1, <1>2, <1>3 DEF Visible

\* As long as it writes, a writer only has to keep its books.
LEMMA WritingStep ==
  ASSUME Visible, Shape', Recorded', phase \in {"reading", "draining", "closing"},
         staging'.exists = staging.exists, staging'.sealed = staging.sealed, final' = final,
         phase' \in {"reading", "raised", "draining", "closing"},
         failed' => phase' \in {"reading", "raised"}
  PROVE  Visible'
  <1>1. staging'.exists /\ ~staging'.sealed /\ ~final'.exists /\ final' = NoDir
    BY DEF Visible, Generation
  <1>2. Generation'
    BY <1>1 DEF Generation
  <1> QED BY <1>1, <1>2 DEF Visible, VisibleIsValid

LEMMA StoreStep ==
  ASSUME Visible, NEW c \in Classes, NEW row, NEW works \in BOOLEAN,
         Store(c, row, works), UNCHANGED final,
         phase \in {"reading", "draining"}, phase' \in {"reading", "raised", "draining"},
         ~works => phase' \in {"reading", "raised"}
  PROVE  Visible'
  <1>1. AppendRow(c, row, works) /\ failed' = ~works
    BY DEF Store
  <1>2. /\ Shape' /\ Recorded'
        /\ staging'.exists = staging.exists /\ staging'.sealed = staging.sealed
    BY <1>1, AppendRowShape DEF Visible
  <1> QED BY <1>1, <1>2, WritingStep

LEMMA QuietStep ==
  ASSUME Visible, StoreNothing, UNCHANGED final, phase \in {"reading", "draining"},
         phase' \in {"reading", "draining", "closing"}, failed => phase' = "reading"
  PROVE  Visible'
  <1>1. Shape' /\ Recorded' /\ staging' = staging /\ failed' = failed
    BY DEF StoreNothing, Visible, Shape, Recorded
  <1> QED BY <1>1, WritingStep

LEMMA EventVisible ==
  ASSUME Visible, Numbered, NEW e \in Inputs,
         OnStackWalk(e) \/ OnHeader(e) \/ OnStackable(e) \/ OnOther(e) \/ OnPlain(e)
  PROVE  Visible'
  <1>0. phase = "reading" /\ phase' = phase /\ UNCHANGED final
    BY DEF OnStackWalk, OnHeader, OnStackable, OnOther, OnPlain, Delivered
  <1>1. \A i \in DOMAIN pending : pending[i].class \in Classes
    BY ExtractAssumption DEF Numbered
  <1>2. CASE OnStackWalk(e)
    <2>1. CASE StoreNothing
      BY <1>0, <2>1, QuietStep
    <2>2. CASE ~StoreNothing
      <3>1. PICK at \in Match(pending, e), works \in BOOLEAN :
              Store(pending[at].class, [pending[at].row EXCEPT !.stack = e.tid], works)
        BY <1>2, <2>2 DEF OnStackWalk
      <3>2. pending[at].class \in Classes
        BY <1>1, MatchFacts
      <3> QED BY <1>0, <3>1, <3>2, StoreStep
    <2> QED BY <2>1, <2>2
  <1>3. CASE OnHeader(e) \/ OnOther(e)
    <2>1. StoreNothing
      BY <1>3 DEF OnHeader, OnOther
    <2> QED BY <1>0, <2>1, QuietStep
  <1>4. CASE OnStackable(e)
    <2>1. CASE StoreNothing
      BY <1>0, <2>1, QuietStep
    <2>2. CASE ~StoreNothing
      <3>1. PICK out \in DOMAIN pending, works \in BOOLEAN :
              Store(pending[out].class, pending[out].row, works)
        BY <1>4, <2>2, StackableOut
      <3> QED BY <1>0, <1>1, <3>1, StoreStep
    <2> QED BY <2>1, <2>2
  <1>5. CASE OnPlain(e)
    <2>1. PICK works \in BOOLEAN : Store(e.class, Row(e), works)
      BY <1>5 DEF OnPlain
    <2>2. e.class \in Classes
      BY <1>5 DEF OnPlain
    <2> QED BY <1>0, <2>1, <2>2, StoreStep
  <1> QED BY <1>2, <1>3, <1>4, <1>5

LEMMA DrainVisible == ASSUME Visible, Numbered, Drain PROVE Visible'
  <1>0. phase = "draining" /\ UNCHANGED final /\ ~failed
    BY DEF Drain, Visible, Generation
  <1>1. CASE pending # << >>
    <2>1. PICK works \in BOOLEAN : /\ Store(pending[1].class, pending[1].row, works)
                                   /\ phase' = IF works THEN phase ELSE "raised"
      BY <1>1 DEF Drain
    <2>2. pending[1].class \in Classes
      BY <1>1, TailIsRemoveAt, ExtractAssumption DEF Numbered
    <2> QED BY <1>0, <2>1, <2>2, StoreStep
  <1>2. CASE pending = << >>
    <2>1. StoreNothing /\ phase' = "closing"
      BY <1>2 DEF Drain
    <2> QED BY <1>0, <2>1, QuietStep
  <1> QED BY <1>1, <1>2

LEMMA CloseVisible == ASSUME Visible, CloseWriter PROVE Visible'
  <1>1. PICK c \in Classes : \E works \in BOOLEAN :
               /\ Flush(c, buffer[c], works) /\ failed' = ~works
               /\ phase' = IF works THEN phase ELSE "raised"
    BY DEF CloseWriter
  <1>2. PICK works \in BOOLEAN :
               /\ Flush(c, buffer[c], works) /\ failed' = ~works
               /\ phase' = IF works THEN phase ELSE "raised"
    BY <1>1
  <1>3. IsSeq(buffer[c]) /\ Shape /\ Recorded /\ phase = "closing" /\ final' = final
    BY DEF Visible, Shape, CloseWriter
  <1>4. /\ Shape' /\ Recorded'
        /\ staging'.exists = staging.exists /\ staging'.sealed = staging.sealed
    BY <1>2, <1>3, FlushShape, FlushRecorded DEF Shape
  <1> QED BY <1>2, <1>3, <1>4, WritingStep

LEMMA CommitManifestVisible == ASSUME Visible, CommitManifest PROVE Visible'
  <1>1. /\ phase = "closing" /\ phase' = "manifest" /\ failed' = failed
        /\ staging' = [staging EXCEPT !.sealed = TRUE, !.manifest = Manifest(Origin)]
        /\ UNCHANGED <<buffer, parts, nextPart, final>>
    BY DEF CommitManifest, WriteManifest
  <1>2. /\ IsDir(staging') /\ staging'.sealed /\ staging'.manifest = Manifest(Origin)
        /\ staging'.exists = staging.exists /\ staging'.files = staging.files
    BY <1>1 DEF Visible, Shape, IsDir
  <1>3. Shape' /\ Recorded'
    BY <1>1, <1>2 DEF Visible, Shape, Recorded
  <1>4. staging'.manifest = [origin |-> staging'.manifest.origin, parts |-> parts',
                             count |-> [c \in Classes |-> DatasetRows(parts'[c])]]
    BY <1>1, <1>2 DEF Manifest
  <1>5. Generation' /\ VisibleIsValid'
    BY <1>1, <1>2, <1>4 DEF Visible, Generation, VisibleIsValid, Manifest
  <1> QED BY <1>3, <1>5 DEF Visible

LEMMA SealedIsValid ==
  ASSUME Visible, staging.exists, staging.sealed
  PROVE  Valid(staging)
  <1>1. staging.manifest = Manifest(staging.manifest.origin) /\ Recorded
    BY DEF Visible, Generation
  <1>2. /\ staging.manifest.parts = parts
        /\ staging.manifest.count = [c \in Classes |-> DatasetRows(parts[c])]
    BY <1>1 DEF Manifest
  <1>3. ASSUME NEW c \in Classes
        PROVE  /\ \A i \in DOMAIN staging.manifest.parts[c] :
                    \E file \in staging.files[c] :
                      /\ file.index = staging.manifest.parts[c][i].index
                      /\ Len(file.rows) = staging.manifest.parts[c][i].count
               /\ DatasetRows(staging.manifest.parts[c]) = staging.manifest.count[c]
               /\ {file.index : file \in staging.files[c]}
                    \subseteq {staging.manifest.parts[c][i].index :
                                 i \in DOMAIN staging.manifest.parts[c]}
    BY <1>1, <1>2 DEF Recorded
  <1> QED BY <1>3 DEF Valid

LEMMA CommitPromoteVisible == ASSUME Visible, CommitPromote PROVE Visible'
  <1>1. /\ phase = "manifest" /\ phase' = "committed" /\ failed' = failed
        /\ final' = staging /\ staging' = NoDir /\ UNCHANGED <<buffer, parts, nextPart>>
    BY DEF CommitPromote, Promote
  <1>2. staging.exists /\ staging.sealed /\ ~failed
    BY <1>1 DEF Visible, Generation
  <1>3. Valid(final')
    BY <1>1, <1>2, SealedIsValid
  <1>4. IsDir(NoDir) /\ ~NoDir.exists /\ ~NoDir.sealed
    BY DEF NoDir, NewDir, IsDir
  <1>5. Shape' /\ Recorded'
    BY <1>1, <1>4 DEF Visible, Shape, Recorded
  <1>6. Generation' /\ VisibleIsValid'
    <2>1. Valid(final)'
      BY <1>3 DEF Valid
    <2> QED BY <1>1, <1>2, <1>4, <2>1 DEF Generation, VisibleIsValid
  <1> QED BY <1>5, <1>6 DEF Visible

\* Nothing of the store moves, and the phase stays on its side of the commit.
LEMMA StillVisible ==
  ASSUME Visible, UNCHANGED storeVars, failed' = failed,
         \/ phase' = phase
         \/ phase = "reading" /\ phase' = IF failed THEN "raised" ELSE "draining"
         \/ phase \in {"reading", "draining", "closing", "manifest"} /\ phase' = "dead"
         \/ {phase, phase'} \subseteq {"committed", "joining", "joined"}
  PROVE  Visible'
  <1>1. UNCHANGED <<buffer, parts, nextPart, staging, final>>
    BY DEF storeVars
  <1>2. Shape' /\ Recorded' /\ VisibleIsValid'
    BY <1>1 DEF Visible, Shape, Recorded, VisibleIsValid
  <1>4. Generation'
    <2>1. staging'.sealed =>
            staging'.manifest = [origin |-> staging'.manifest.origin, parts |-> parts',
                                 count |-> [c \in Classes |-> DatasetRows(parts'[c])]]
      BY <1>1 DEF Visible, Generation, Manifest
    <2>2. CASE phase' = phase
      BY <1>1, <2>1, <2>2 DEF Visible, Generation, Manifest
    <2>3. CASE phase = "reading" /\ phase' = IF failed THEN "raised" ELSE "draining"
      BY <1>1, <2>1, <2>3 DEF Visible, Generation, Manifest
    <2>4. CASE phase \in {"reading", "draining", "closing", "manifest"} /\ phase' = "dead"
      BY <1>1, <2>1, <2>4 DEF Visible, Generation, Manifest
    <2>5. CASE {phase, phase'} \subseteq {"committed", "joining", "joined"}
      BY <1>1, <2>1, <2>5 DEF Visible, Generation, Manifest
    <2> QED BY <2>2, <2>3, <2>4, <2>5
  <1> QED BY <1>2, <1>4 DEF Visible

LEMMA VisibleStep == ASSUME Visible, Numbered, [Next]_vars PROVE Visible'
  <1>1. ASSUME NEW e \in Inputs,
               OnStackWalk(e) \/ OnHeader(e) \/ OnStackable(e) \/ OnOther(e) \/ OnPlain(e)
        PROVE  Visible'
    BY <1>1, EventVisible
  <1>2. CASE EndOfTrace
    BY <1>2, StillVisible DEF EndOfTrace
  <1>3. CASE Drain
    BY <1>3, DrainVisible
  <1>4. CASE CloseWriter
    BY <1>4, CloseVisible
  <1>5. CASE CommitManifest
    BY <1>5, CommitManifestVisible
  <1>6. CASE CommitPromote
    BY <1>6, CommitPromoteVisible
  <1>7. CASE Killed
    BY <1>7, StillVisible DEF Killed
  <1>8. CASE (\E size \in BatchSizes : StartJoin(size)) \/ TakeReady \/ TakeSwitch \/ EndJoin
    BY <1>8, StillVisible DEF StartJoin, TakeReady, TakeSwitch, EndJoin
  <1>9. CASE UNCHANGED vars
    BY <1>9, StillVisible DEF vars, extractVars
  <1> QED BY <1>1, <1>2, <1>3, <1>4, <1>5, <1>6, <1>7, <1>8, <1>9 DEF Next

-----------------------------------------------------------------------------
(* Rows that are in one place *)

LEMMA SeqsAppended ==
  ASSUME NEW rows, NEW row, IsSeq(rows)
  PROVE  /\ Seqs(Append(rows, row)) = Seqs(rows) \union {row.seq}
         /\ Distinct(rows) /\ row.seq \notin Seqs(rows) => Distinct(Append(rows, row))
  <1> DEFINE more == Append(rows, row)
  <1>1. /\ DOMAIN more = 1 .. Len(rows) + 1 /\ DOMAIN rows = 1 .. Len(rows) /\ Len(rows) \in Nat
        /\ \A i \in DOMAIN rows : more[i] = rows[i]
        /\ more[Len(rows) + 1] = row
    BY AppendFacts, SeqFacts
  <1> HIDE DEF more
  <1>2. \A i : i \in DOMAIN more <=> i \in DOMAIN rows \/ i = Len(rows) + 1
    BY <1>1
  <1>3. Seqs(more) = Seqs(rows) \union {row.seq}
    BY <1>1, <1>2 DEF Seqs
  <1>4. ASSUME Distinct(rows), row.seq \notin Seqs(rows)
        PROVE  Distinct(more)
    <2> SUFFICES ASSUME NEW i \in DOMAIN more, NEW j \in DOMAIN more, more[i].seq = more[j].seq
                 PROVE  i = j
      BY DEF Distinct
    <2>1. \A n \in DOMAIN rows : rows[n].seq \in Seqs(rows)
      BY DEF Seqs
    <2>2. CASE i \in DOMAIN rows /\ j \in DOMAIN rows
      BY <1>1, <1>4, <2>2 DEF Distinct
    <2>3. CASE i \in DOMAIN rows /\ j = Len(rows) + 1
      BY <1>1, <1>4, <2>1, <2>3
    <2>4. CASE i = Len(rows) + 1 /\ j \in DOMAIN rows
      BY <1>1, <1>4, <2>1, <2>4
    <2>5. CASE i = Len(rows) + 1 /\ j = Len(rows) + 1
      BY <2>5
    <2> QED BY <1>2, <2>2, <2>3, <2>4, <2>5
  <1> QED BY <1>3, <1>4 DEF more

LEMMA PlacedAppend ==
  ASSUME NEW W, NEW B, NEW F, NEW S, NEW row, IsSeq(B), Placed(W, B, F, S), row.seq \notin S
  PROVE  Placed(W, Append(B, row), F, S \union {row.seq})
  <1> DEFINE more == Append(B, row)
  <1>1. Seqs(more) = Seqs(B) \union {row.seq} /\ row.seq \notin Seqs(B) /\ Distinct(more)
    BY SeqsAppended DEF Placed
  <1> HIDE DEF more
  <1>2. row.seq \notin Seqs(W) /\ \A f \in F : row.seq \notin Seqs(f.rows)
    BY DEF Placed
  <1>3. /\ Seqs(W) \intersect Seqs(more) = {}
        /\ \A f \in F : Seqs(f.rows) \intersect (Seqs(W) \union Seqs(more)) = {}
    BY <1>1, <1>2 DEF Placed
  <1> QED BY <1>1, <1>3 DEF Placed, more

LEMMA PlacedFlush ==
  ASSUME NEW W, NEW B, NEW F, NEW S, NEW file, Placed(W, B, F, S), file.rows = B
  PROVE  Placed(W, << >>, F \union {file}, S)
  <1> DEFINE none == << >>
  <1>1. Seqs(none) = {} /\ Distinct(none)
    BY EmptyIsSeq DEF Seqs, Distinct
  <1> HIDE DEF none
  <1>2. \A f \in F \union {file} : f \in F \/ f = file
    OBVIOUS
  <1>3. Distinct(W) /\ \A f \in F \union {file} : Distinct(f.rows)
    BY DEF Placed
  <1>4. /\ Seqs(W) \intersect Seqs(none) = {}
        /\ \A f \in F \union {file} : Seqs(f.rows) \intersect (Seqs(W) \union Seqs(none)) = {}
    BY <1>1 DEF Placed
  <1>5. \A f, g \in F \union {file} : f # g => Seqs(f.rows) \intersect Seqs(g.rows) = {}
    BY <1>2 DEF Placed
  <1>6. S = Seqs(W) \union Seqs(none) \union (UNION {Seqs(f.rows) : f \in F \union {file}})
    BY <1>1 DEF Placed
  <1> QED BY <1>1, <1>3, <1>4, <1>5, <1>6 DEF Placed, none

LEMMA PlacedWait ==
  ASSUME NEW W, NEW V, NEW B, NEW F, NEW S, NEW q, Placed(W, B, F, S),
         Distinct(V), Seqs(V) = Seqs(W) \union {q}, q \notin S
  PROVE  Placed(V, B, F, S \union {q})
  <1>1. q \notin Seqs(B) /\ \A f \in F : q \notin Seqs(f.rows)
    BY DEF Placed
  <1> QED BY <1>1 DEF Placed

LEMMA PlacedLeave ==
  ASSUME NEW W, NEW V, NEW B, NEW F, NEW S, NEW q, Placed(W, B, F, S),
         Distinct(V), q \in Seqs(W), Seqs(V) = Seqs(W) \ {q}
  PROVE  Placed(V, B, F, S \ {q}) /\ q \in S
  <1>1. q \in S /\ q \notin Seqs(B) /\ \A f \in F : q \notin Seqs(f.rows)
    BY DEF Placed
  <1>2. S \ {q} = Seqs(V) \union Seqs(B) \union (UNION {Seqs(f.rows) : f \in F})
    BY <1>1 DEF Placed
  <1> QED BY <1>1, <1>2 DEF Placed

LEMMA PlacedSame ==
  ASSUME NEW W, NEW V, NEW B, NEW F, NEW S, Placed(W, B, F, S),
         Distinct(V), Seqs(V) = Seqs(W)
  PROVE  Placed(V, B, F, S)
  BY DEF Placed

\* The rows of a class that wait, when one leaves the queue and when one joins it.
LEMMA WaitingRemoved ==
  ASSUME NEW queue, NEW at, NEW c, IsSeq(queue), at \in DOMAIN queue,
         Distinct(Waiting(queue, c))
  PROVE  /\ Distinct(Waiting(RemoveAt(queue, at), c))
         /\ Seqs(Waiting(RemoveAt(queue, at), c)) =
              IF queue[at].class = c THEN Seqs(Waiting(queue, c)) \ {queue[at].row.seq}
                                     ELSE Seqs(Waiting(queue, c))
         /\ queue[at].class = c => queue[at].row.seq \in Seqs(Waiting(queue, c))
  <1> DEFINE q == RemoveAt(queue, at)
             from(i) == IF i < at THEN i ELSE i + 1
  <1>1. /\ DOMAIN q = 1 .. Len(queue) - 1 /\ DOMAIN queue = 1 .. Len(queue) /\ Len(queue) \in Nat
        /\ \A i \in 1 .. Len(queue) - 1 : q[i] = IF i < at THEN queue[i] ELSE queue[i + 1]
    BY RemoveFacts, SeqFacts
  <1> HIDE DEF q
  <1>2. \A i \in DOMAIN q : from(i) \in DOMAIN queue \ {at} /\ q[i] = queue[from(i)]
    BY <1>1
  <1>3. \A j \in DOMAIN queue \ {at} : \E i \in DOMAIN q : from(i) = j
    <2> SUFFICES ASSUME NEW j \in DOMAIN queue \ {at} PROVE \E i \in DOMAIN q : from(i) = j
      OBVIOUS
    <2>1. CASE j < at
      <3>1. j \in DOMAIN q /\ from(j) = j
        BY <1>1, <2>1
      <3> QED BY <3>1
    <2>2. CASE ~(j < at)
      <3>1. j - 1 \in DOMAIN q /\ from(j - 1) = j
        BY <1>1, <2>2
      <3> QED BY <3>1
    <2> QED BY <2>1, <2>2
  <1>4. \A i, j \in DOMAIN q : from(i) = from(j) => i = j
    BY <1>1
  <1> HIDE DEF from
  <1> DEFINE of(s) == {i \in DOMAIN s : s[i].class = c}
  <1>5. /\ DOMAIN Waiting(queue, c) = of(queue)
        /\ \A i \in of(queue) : Waiting(queue, c)[i] = queue[i].row
        /\ DOMAIN Waiting(q, c) = of(q)
        /\ \A i \in of(q) : Waiting(q, c)[i] = q[i].row
    BY DEF Waiting
  <1>6. Distinct(Waiting(q, c))
    <2> SUFFICES ASSUME NEW i \in of(q), NEW j \in of(q), q[i].row.seq = q[j].row.seq
                 PROVE  i = j
      BY <1>5 DEF Distinct
    <2>1. from(i) \in of(queue) /\ from(j) \in of(queue)
          /\ queue[from(i)].row.seq = queue[from(j)].row.seq
      BY <1>2
    <2>2. from(i) = from(j)
      BY <1>5, <2>1 DEF Distinct
    <2> QED BY <1>4, <2>2
  <1>7. Seqs(Waiting(queue, c)) = {queue[i].row.seq : i \in of(queue)}
        /\ Seqs(Waiting(q, c)) = {q[i].row.seq : i \in of(q)}
    BY <1>5 DEF Seqs
  <1>8. Seqs(Waiting(q, c)) = {queue[i].row.seq : i \in of(queue) \ {at}}
    <2>1. \A i \in of(q) : from(i) \in of(queue) \ {at} /\ q[i].row.seq = queue[from(i)].row.seq
      BY <1>2
    <2>2. \A j \in of(queue) \ {at} : \E i \in of(q) : q[i].row.seq = queue[j].row.seq
      BY <1>2, <1>3
    <2> QED BY <1>7, <2>1, <2>2
  <1>9. \A i, j \in of(queue) : queue[i].row.seq = queue[j].row.seq => i = j
    BY <1>5 DEF Distinct
  <1>10. CASE queue[at].class = c
    <2>1. at \in of(queue)
      BY <1>10
    <2>2. Seqs(Waiting(q, c)) = Seqs(Waiting(queue, c)) \ {queue[at].row.seq}
      BY <1>7, <1>8, <1>9, <2>1
    <2> QED BY <1>6, <1>7, <1>10, <2>1, <2>2 DEF q
  <1>11. CASE queue[at].class # c
    <2>1. of(queue) \ {at} = of(queue)
      BY <1>11
    <2> QED BY <1>6, <1>7, <1>8, <1>11, <2>1 DEF q
  <1> QED BY <1>10, <1>11

LEMMA WaitingAppended ==
  ASSUME NEW queue, NEW entry, NEW c, IsSeq(queue), Distinct(Waiting(queue, c)),
         entry.row.seq \notin Seqs(Waiting(queue, c))
  PROVE  /\ Distinct(Waiting(Append(queue, entry), c))
         /\ Seqs(Waiting(Append(queue, entry), c)) =
              IF entry.class = c THEN Seqs(Waiting(queue, c)) \union {entry.row.seq}
                                 ELSE Seqs(Waiting(queue, c))
  <1> DEFINE q == Append(queue, entry)
             n == Len(queue) + 1
             of(s) == {i \in DOMAIN s : s[i].class = c}
  <1>1. /\ DOMAIN q = 1 .. n /\ DOMAIN queue = 1 .. Len(queue) /\ Len(queue) \in Nat
        /\ \A i \in DOMAIN queue : q[i] = queue[i]
        /\ q[n] = entry
    BY AppendFacts, SeqFacts
  <1>2. \A i : i \in DOMAIN q <=> i \in DOMAIN queue \/ i = n
    <2> HIDE DEF q
    <2> QED BY <1>1
  <1>3. n \notin DOMAIN queue
    BY <1>1
  <1> HIDE DEF q, n
  <1>4. /\ DOMAIN Waiting(queue, c) = of(queue)
        /\ \A i \in of(queue) : Waiting(queue, c)[i] = queue[i].row
        /\ DOMAIN Waiting(q, c) = of(q)
        /\ \A i \in of(q) : Waiting(q, c)[i] = q[i].row
    BY DEF Waiting
  <1>5. Seqs(Waiting(queue, c)) = {queue[i].row.seq : i \in of(queue)}
        /\ Seqs(Waiting(q, c)) = {q[i].row.seq : i \in of(q)}
    BY <1>4 DEF Seqs
  <1>6. \A i, j \in of(queue) : queue[i].row.seq = queue[j].row.seq => i = j
    BY <1>4 DEF Distinct
  <1>7. \A i \in of(queue) : queue[i].row.seq # entry.row.seq
    BY <1>5
  <1>8. CASE entry.class = c
    <2>1. \A i : i \in of(q) <=> i \in of(queue) \/ i = n
      BY <1>1, <1>2, <1>8
    <2>2. \A i \in of(queue) : q[i] = queue[i]
      BY <1>1
    <2>3. Seqs(Waiting(q, c)) = Seqs(Waiting(queue, c)) \union {entry.row.seq}
      BY <1>1, <1>5, <2>1, <2>2
    <2>4. \A i, j \in of(q) : q[i].row.seq = q[j].row.seq => i = j
      BY <1>1, <1>6, <1>7, <2>1, <2>2
    <2>5. Distinct(Waiting(q, c))
      BY <1>4, <2>4 DEF Distinct
    <2> QED BY <1>8, <2>3, <2>5 DEF q
  <1>9. CASE entry.class # c
    <2>1. of(q) = of(queue)
      BY <1>1, <1>2, <1>9
    <2>2. \A i \in of(queue) : q[i] = queue[i]
      BY <1>1
    <2>3. Seqs(Waiting(q, c)) = Seqs(Waiting(queue, c))
      BY <1>5, <2>1, <2>2
    <2>4. Distinct(Waiting(q, c))
      BY <1>4, <1>6, <2>1, <2>2 DEF Distinct
    <2> QED BY <1>9, <2>3, <2>4 DEF q
  <1> QED BY <1>8, <1>9

-----------------------------------------------------------------------------
(* Every decoded row stays in one place *)

\* The numbers of the rows of a class among those that were accepted.
Numbers(before, c) == {a.row.seq : a \in {b \in Range(before) : b.class = c}}

LEMMA OnceIs ==
  RowsOnce <=>
    (~failed => \A c \in Classes :
                  Placed(Waiting(pending, c), buffer[c], FilesOf(c), Numbers(accepted, c)))
  BY DEF RowsOnce, Numbers, Entries

LEMMA NumbersAppended ==
  ASSUME NEW before, NEW entry, NEW c, IsSeq(before)
  PROVE  Numbers(Append(before, entry), c) =
           IF entry.class = c THEN Numbers(before, c) \union {entry.row.seq}
                              ELSE Numbers(before, c)
  <1>1. Range(Append(before, entry)) = Range(before) \union {entry}
    BY AppendFacts
  <1> QED BY <1>1 DEF Numbers

LEMMA NumbersOld ==
  ASSUME Numbered, NEW c
  PROVE  count + 1 \notin Numbers(accepted, c)
  <1> SUFFICES ASSUME NEW i \in DOMAIN accepted PROVE accepted[i].row.seq # count + 1
    BY DEF Numbers, Range
  <1> QED BY DEF Numbered

\* A row that was in none of the places of its class is written.
LEMMA PlacedStored ==
  ASSUME Shape, NEW k \in Classes, NEW row, AppendRow(k, row, TRUE), UNCHANGED final,
         NEW c \in Classes, NEW W, NEW S, Placed(W, buffer[c], FilesOf(c), S),
         c = k => row.seq \notin S
  PROVE  Placed(W, buffer'[c], FilesOf(c)', IF c = k THEN S \union {row.seq} ELSE S)
  <1> DEFINE rows == Append(buffer[k], row)
             file == [index |-> nextPart[k], rows |-> rows]
             F == FilesOf(c)
  <1>1. IsSeq(rows) /\ rows # << >> /\ IsSeq(buffer[c])
    BY AppendRowCases DEF Shape
  <1>2. CASE c = k
    <2>1. Placed(W, rows, F, S \union {row.seq})
      BY <1>1, <1>2, PlacedAppend
    <2>2. CASE Flush(k, rows, TRUE)
      <3> HIDE DEF rows
      <3>1. /\ buffer'[k] = << >>
            /\ staging'.files[k] = staging.files[k] \union {file}
        <4>1. TRUE \in BOOLEAN /\ ~(rows = << >> \/ ~TRUE)
          BY <1>1
        <4>2. /\ buffer'[k] = << >>
              /\ IF rows = << >> \/ ~TRUE
                   THEN parts' = parts /\ staging' = staging
                   ELSE /\ parts'[k] = Append(parts[k], PartOf(nextPart[k], rows))
                        /\ staging'.files[k] =
                             staging.files[k] \union {[index |-> nextPart[k], rows |-> rows]}
          BY <1>1, <2>2, <4>1, FlushShape, Zenon
        <4> QED BY <4>1, <4>2
      <3>2. FilesOf(c)' = F \union {file} /\ file.rows = rows
        BY <1>2, <3>1 DEF FilesOf
      <3> HIDE DEF file, F
      <3>3. Placed(W, << >>, F \union {file}, S \union {row.seq})
        BY <2>1, <3>2, PlacedFlush
      <3> QED BY <1>2, <3>1, <3>2, <3>3
    <2>3. CASE buffer' = [buffer EXCEPT ![k] = rows] /\ UNCHANGED <<parts, nextPart, staging>>
      <3> HIDE DEF rows
      <3>1. buffer'[c] = rows /\ FilesOf(c)' = F
        BY <1>2, <2>3 DEF FilesOf, Shape
      <3> QED BY <1>2, <2>1, <3>1
    <2> QED BY <2>2, <2>3, AppendRowCases
  <1>3. CASE c # k
    <2>1. buffer'[c] = buffer[c] /\ staging'.files[c] = staging.files[c]
      <3>1. CASE Flush(k, rows, TRUE)
        <4> HIDE DEF rows
        <4> QED BY <1>1, <1>3, <3>1, FlushShape
      <3>2. CASE buffer' = [buffer EXCEPT ![k] = rows] /\ UNCHANGED <<parts, nextPart, staging>>
        <4> HIDE DEF rows
        <4> QED BY <1>3, <3>2 DEF Shape
      <3> QED BY <3>1, <3>2, AppendRowCases
    <2>2. FilesOf(c)' = F
      BY <2>1 DEF FilesOf
    <2> QED BY <1>3, <2>1, <2>2
  <1> QED BY <1>2, <1>3

\* A row leaves the queue of those that wait and is written.
LEMMA MovedOn ==
  ASSUME Shape, Numbered, NEW at \in DOMAIN pending, NEW row, row.seq = pending[at].row.seq,
         AppendRow(pending[at].class, row, TRUE), UNCHANGED final,
         NEW c \in Classes, NEW S, Placed(Waiting(pending, c), buffer[c], FilesOf(c), S)
  PROVE  Placed(Waiting(RemoveAt(pending, at), c), buffer'[c], FilesOf(c)', S)
  <1> DEFINE k == pending[at].class
             W == Waiting(pending, c)
             V == Waiting(RemoveAt(pending, at), c)
             B == buffer[c]
             F == FilesOf(c)
  <1>1. k \in Classes /\ IsSeq(pending)
    BY ExtractAssumption DEF Numbered
  <1>2. Distinct(W)
    BY DEF Placed
  <1>3. /\ Distinct(V)
        /\ Seqs(V) = IF k = c THEN Seqs(W) \ {row.seq} ELSE Seqs(W)
        /\ k = c => row.seq \in Seqs(W)
    BY <1>1, <1>2, WaitingRemoved
  <1>4. Placed(W, B, F, S)
    OBVIOUS
  <1> HIDE DEF W, V, B, F
  <1>5. CASE k = c
    <2>1. Placed(V, B, F, S \ {row.seq}) /\ row.seq \in S
      BY <1>3, <1>4, <1>5, PlacedLeave
    <2> DEFINE T == S \ {row.seq}
    <2>2. row.seq \notin T /\ T \union {row.seq} = S /\ Placed(V, B, F, T)
      BY <2>1
    <2> HIDE DEF T, k
    <2>3. Placed(V, buffer'[c], FilesOf(c)', T \union {row.seq})
      <3>1. AppendRow(k, row, TRUE)
        BY DEF k
      <3> QED BY <1>1, <1>5, <2>2, <3>1, PlacedStored DEF B, F
    <2> QED BY <2>2, <2>3 DEF V
  <1>6. CASE k # c
    <2>1. Placed(V, B, F, S)
      BY <1>3, <1>4, <1>6, PlacedSame
    <2>2. AppendRow(k, row, TRUE)
      OBVIOUS
    <2> HIDE DEF k
    <2>3. Placed(V, buffer'[c], FilesOf(c)', S)
      BY <1>1, <1>6, <2>1, <2>2, PlacedStored DEF B, F
    <2> QED BY <2>3 DEF V
  <1> QED BY <1>5, <1>6

\* A new row joins the queue.
LEMMA PlacedQueued ==
  ASSUME Numbered, NEW queue, NEW entry, NEW c, NEW B, NEW F, IsSeq(queue),
         entry.row.seq = count + 1, Placed(Waiting(queue, c), B, F, Numbers(accepted, c))
  PROVE  Placed(Waiting(Append(queue, entry), c), B, F, Numbers(Append(accepted, entry), c))
  <1> DEFINE W == Waiting(queue, c)
             V == Waiting(Append(queue, entry), c)
             S == Numbers(accepted, c)
             q == entry.row.seq
  <1>1. q \notin S
    BY NumbersOld
  <1>2. Distinct(W) /\ q \notin Seqs(W)
    BY <1>1 DEF Placed
  <1>3. /\ Distinct(V)
        /\ Seqs(V) = IF entry.class = c THEN Seqs(W) \union {q} ELSE Seqs(W)
    BY <1>2, WaitingAppended
  <1>4. Numbers(Append(accepted, entry), c) = IF entry.class = c THEN S \union {q} ELSE S
    BY NumbersAppended DEF Numbered
  <1>5. Placed(W, B, F, S)
    OBVIOUS
  <1> HIDE DEF W, V, S, q
  <1>6. CASE entry.class = c
    <2>1. Placed(V, B, F, S \union {q})
      BY <1>1, <1>3, <1>5, <1>6, PlacedWait
    <2> QED BY <1>4, <1>6, <2>1 DEF V
  <1>7. CASE entry.class # c
    <2>1. Placed(V, B, F, S)
      BY <1>3, <1>5, <1>7, PlacedSame
    <2> QED BY <1>4, <1>7, <2>1 DEF V
  <1> QED BY <1>6, <1>7

LEMMA OnceInit == Init => RowsOnce
  <1> SUFFICES ASSUME Init PROVE RowsOnce
    OBVIOUS
  <1> DEFINE none == << >>
  <1>1. DOMAIN none = {} /\ Range(none) = {}
    BY EmptyIsSeq
  <1>2. \A c \in Classes : pending = none /\ buffer[c] = none /\ accepted = none
                           /\ FilesOf(c) = {}
    BY DEF Init, StoreInit, NewDir, NoDir, FilesOf
  <1> HIDE DEF none
  <1>3. \A c \in Classes : Placed(Waiting(none, c), none, {}, Numbers(none, c))
    <2> SUFFICES ASSUME NEW c \in Classes PROVE Placed(Waiting(none, c), none, {}, Numbers(none, c))
      OBVIOUS
    <2>1. DOMAIN Waiting(none, c) = {} /\ Numbers(none, c) = {}
      BY <1>1 DEF Waiting, Numbers
    <2>2. Seqs(Waiting(none, c)) = {} /\ Seqs(none) = {}
      BY <1>1, <2>1 DEF Seqs
    <2>3. Distinct(Waiting(none, c)) /\ Distinct(none)
      BY <1>1, <2>1 DEF Distinct
    <2> QED BY <2>1, <2>2, <2>3 DEF Placed
  <1> QED BY <1>2, <1>3, OnceIs

\* A step that writes has written where nothing failed.
LEMMA Written ==
  ASSUME NEW c, NEW row, NEW works \in BOOLEAN, Store(c, row, works), ~failed'
  PROVE  works /\ AppendRow(c, row, TRUE)
  BY DEF Store

LEMMA OnceStep ==
  ASSUME Numbered, Visible, RowsOnce, [Next]_vars
  PROVE  RowsOnce'
  <1> DEFINE Once(c) == Placed(Waiting(pending, c), buffer[c], FilesOf(c), Numbers(accepted, c))
             OnceNext(c) ==
               Placed(Waiting(pending', c), buffer'[c], FilesOf(c)', Numbers(accepted', c))
  <1>1. RowsOnce' <=> (~failed' => \A c \in Classes : OnceNext(c))
    <2>1. \A c \in Classes : OnceNext(c) <=>
            Placed(Waiting(pending', c), buffer'[c], FilesOf(c)', {a.row.seq : a \in Entries(c)'})
      BY DEF Numbers, Entries
    <2> QED BY <2>1 DEF RowsOnce
  <1> SUFFICES ASSUME ~failed' PROVE \A c \in Classes : OnceNext(c)
    BY <1>1
  <1>2. ~failed => \A c \in Classes : Once(c)
    BY OnceIs
  <1>3. Shape /\ IsSeq(pending) /\ IsSeq(accepted)
        /\ \A i \in DOMAIN pending : pending[i].class \in Classes
    BY ExtractAssumption DEF Visible, Numbered
  <1>4. StoreNothing /\ UNCHANGED final
          => failed' = failed /\ \A c \in Classes : buffer'[c] = buffer[c] /\ FilesOf(c)' = FilesOf(c)
    BY DEF StoreNothing, FilesOf
  <1>5. ASSUME NEW e \in Inputs, OnStackWalk(e) PROVE \A c \in Classes : OnceNext(c)
    <2>0. ~failed /\ UNCHANGED <<final, accepted>>
      BY <1>5 DEF OnStackWalk, Delivered
    <2>1. CASE StoreNothing /\ UNCHANGED pending
      BY <1>2, <1>4, <2>0, <2>1
    <2>2. CASE ~(StoreNothing /\ UNCHANGED pending)
      <3>1. PICK at \in Match(pending, e), works \in BOOLEAN :
              /\ pending' = RemoveAt(pending, at)
              /\ Store(pending[at].class, [pending[at].row EXCEPT !.stack = e.tid], works)
        BY <1>5, <2>2 DEF OnStackWalk
      <3> DEFINE row == [pending[at].row EXCEPT !.stack = e.tid]
      <3>2. at \in DOMAIN pending
        BY MatchFacts
      <3>3. row.seq = pending[at].row.seq
        BY <3>2 DEF Numbered
      <3> HIDE DEF row
      <3>4. AppendRow(pending[at].class, row, TRUE)
        BY <3>1, Written DEF row
      <3> SUFFICES ASSUME NEW c \in Classes PROVE OnceNext(c)
        OBVIOUS
      <3>5. Once(c)
        BY <1>2, <2>0
      <3>6. Placed(Waiting(RemoveAt(pending, at), c), buffer'[c], FilesOf(c)', Numbers(accepted, c))
        BY <1>3, <2>0, <3>2, <3>3, <3>4, <3>5, MovedOn
      <3> QED BY <2>0, <3>1, <3>6
    <2> QED BY <2>1, <2>2
  <1>6. ASSUME NEW e \in Inputs, OnHeader(e) \/ OnOther(e) PROVE \A c \in Classes : OnceNext(c)
    BY <1>2, <1>4, <1>6 DEF OnHeader, OnOther, Delivered
  <1>7. ASSUME NEW e \in Inputs, OnStackable(e) PROVE \A c \in Classes : OnceNext(c)
    <2> DEFINE entry == [class |-> e.class, row |-> Row(e)]
    <2>0. ~failed /\ UNCHANGED final /\ accepted' = Append(accepted, entry)
          /\ entry.row.seq = count + 1
      BY <1>7, EntryFacts DEF OnStackable, Delivered
    <2> SUFFICES ASSUME NEW c \in Classes PROVE OnceNext(c)
      OBVIOUS
    <2>1. Once(c)
      BY <1>2, <2>0
    <2>2. CASE StoreNothing /\ pending' = Append(pending, entry)
      <3> HIDE DEF entry
      <3>1. Placed(Waiting(Append(pending, entry), c), buffer[c], FilesOf(c),
                   Numbers(Append(accepted, entry), c))
        BY <1>3, <2>0, <2>1, PlacedQueued
      <3> QED BY <1>4, <2>0, <2>2, <3>1
    <2>3. CASE ~(StoreNothing /\ pending' = Append(pending, entry))
      <3>1. PICK out \in DOMAIN pending, works \in BOOLEAN :
              /\ Store(pending[out].class, pending[out].row, works)
              /\ works => pending' = Append(RemoveAt(pending, out), entry)
        BY <1>7, <2>3, StackableOut
      <3> HIDE DEF entry
      <3>2. works /\ AppendRow(pending[out].class, pending[out].row, TRUE)
        BY <3>1, Written
      <3> DEFINE left == RemoveAt(pending, out)
      <3>3. Placed(Waiting(left, c), buffer'[c], FilesOf(c)', Numbers(accepted, c))
        BY <1>3, <2>0, <2>1, <3>2, MovedOn
      <3>4. IsSeq(left)
        BY <1>3, RemoveFacts
      <3> HIDE DEF left
      <3>5. Placed(Waiting(Append(left, entry), c), buffer'[c], FilesOf(c)',
                   Numbers(Append(accepted, entry), c))
        BY <2>0, <3>3, <3>4, PlacedQueued
      <3> QED BY <2>0, <3>1, <3>2, <3>5 DEF left
    <2> QED BY <2>2, <2>3
  <1>8. ASSUME NEW e \in Inputs, OnPlain(e) PROVE \A c \in Classes : OnceNext(c)
    <2> DEFINE entry == [class |-> e.class, row |-> Row(e)]
    <2>0. ~failed /\ UNCHANGED <<final, pending>> /\ accepted' = Append(accepted, entry)
          /\ entry.row.seq = count + 1 /\ entry.row = Row(e) /\ entry.class = e.class
          /\ e.class \in Classes
      BY <1>8, EntryFacts DEF OnPlain, Delivered
    <2>1. PICK works \in BOOLEAN : Store(e.class, Row(e), works)
      BY <1>8 DEF OnPlain
    <2> HIDE DEF entry
    <2> DEFINE k == entry.class
               row == entry.row
    <2>2. AppendRow(k, row, TRUE) /\ k \in Classes /\ row.seq = count + 1
      BY <2>0, <2>1, Written
    <2> SUFFICES ASSUME NEW c \in Classes PROVE OnceNext(c)
      OBVIOUS
    <2> DEFINE S == Numbers(accepted, c)
               W == Waiting(pending, c)
    <2>3. Placed(W, buffer[c], FilesOf(c), S)
      BY <1>2, <2>0
    <2>4. row.seq \notin S
      BY <2>2, NumbersOld
    <2>5. Numbers(accepted', c) = IF c = k THEN S \union {row.seq} ELSE S
      BY <1>3, <2>0, NumbersAppended
    <2> HIDE DEF S, W, k, row
    <2>6. Placed(W, buffer'[c], FilesOf(c)', IF c = k THEN S \union {row.seq} ELSE S)
      BY <1>3, <2>0, <2>2, <2>3, <2>4, PlacedStored
    <2> QED BY <2>0, <2>5, <2>6 DEF W
  <1>9. CASE Drain
    <2>0. ~failed /\ UNCHANGED <<final, accepted>>
      BY <1>9 DEF Drain, Visible, Generation
    <2>1. CASE pending # << >>
      <3>1. PICK works \in BOOLEAN : Store(pending[1].class, pending[1].row, works)
        BY <1>9, <2>1 DEF Drain
      <3>2. pending' = RemoveAt(pending, 1) /\ 1 \in DOMAIN pending
        BY <1>3, <1>9, <2>1, TailIsRemoveAt DEF Drain
      <3>3. AppendRow(pending[1].class, pending[1].row, TRUE)
        BY <3>1, Written
      <3> SUFFICES ASSUME NEW c \in Classes PROVE OnceNext(c)
        OBVIOUS
      <3>4. Once(c)
        BY <1>2, <2>0
      <3>5. Placed(Waiting(RemoveAt(pending, 1), c), buffer'[c], FilesOf(c)', Numbers(accepted, c))
        BY <1>3, <2>0, <3>2, <3>3, <3>4, MovedOn
      <3> QED BY <2>0, <3>2, <3>5
    <2>2. CASE pending = << >>
      BY <1>2, <1>4, <1>9, <2>0, <2>2 DEF Drain
    <2> QED BY <2>1, <2>2
  <1>10. CASE CloseWriter
    <2>0. ~failed /\ UNCHANGED <<final, accepted, pending>>
      BY <1>10 DEF CloseWriter, Visible, Generation
    <2>1. PICK k \in Classes : buffer[k] # << >> /\ Flush(k, buffer[k], TRUE)
      BY <1>10 DEF CloseWriter
    <2> DEFINE file == [index |-> nextPart[k], rows |-> buffer[k]]
    <2>2. /\ TRUE \in BOOLEAN /\ IsSeq(buffer[k]) /\ ~(buffer[k] = << >> \/ ~TRUE)
      BY <1>3, <2>1 DEF Shape
    <2>3. /\ buffer'[k] = << >>
          /\ staging'.files[k] = staging.files[k] \union {file}
          /\ \A d \in Classes \ {k} : buffer'[d] = buffer[d] /\ staging'.files[d] = staging.files[d]
      <3> DEFINE rows == buffer[k]
      <3>1. IsSeq(rows) /\ ~(rows = << >> \/ ~TRUE) /\ Flush(k, rows, TRUE) /\ TRUE \in BOOLEAN
        BY <2>1, <2>2
      <3> HIDE DEF rows
      <3>2. /\ rows # << >> => buffer'[k] = << >>
            /\ \A d \in Classes \ {k} :
                 buffer'[d] = buffer[d] /\ parts'[d] = parts[d] /\ staging'.files[d] = staging.files[d]
            /\ IF rows = << >> \/ ~TRUE
                 THEN parts' = parts /\ staging' = staging
                 ELSE /\ parts'[k] = Append(parts[k], PartOf(nextPart[k], rows))
                      /\ staging'.files[k] =
                           staging.files[k] \union {[index |-> nextPart[k], rows |-> rows]}
        BY <1>3, <3>1, FlushShape, Zenon
      <3> QED BY <3>1, <3>2 DEF rows
    <2> SUFFICES ASSUME NEW c \in Classes PROVE OnceNext(c)
      OBVIOUS
    <2>4. Once(c)
      BY <1>2, <2>0
    <2>5. CASE c = k
      <3> DEFINE W == Waiting(pending, c)
                 S == Numbers(accepted, c)
      <3>1. FilesOf(c)' = FilesOf(c) \union {file} /\ file.rows = buffer[c]
        BY <2>0, <2>3, <2>5 DEF FilesOf
      <3>2. Placed(W, buffer[c], FilesOf(c), S)
        BY <2>4
      <3> HIDE DEF file, W, S
      <3>3. Placed(W, << >>, FilesOf(c) \union {file}, S)
        BY <3>1, <3>2, PlacedFlush
      <3> QED BY <2>0, <2>3, <2>5, <3>1, <3>3 DEF W, S
    <2>6. CASE c # k
      <3>1. FilesOf(c)' = FilesOf(c) /\ buffer'[c] = buffer[c]
        BY <2>0, <2>3, <2>6 DEF FilesOf
      <3> QED BY <2>0, <2>4, <3>1
    <2> QED BY <2>5, <2>6
  <1>11. CASE CommitManifest
    <2>1. /\ failed' = failed /\ UNCHANGED <<pending, accepted, buffer, final>>
          /\ staging' = [staging EXCEPT !.sealed = TRUE, !.manifest = Manifest(Origin)]
      BY <1>11 DEF CommitManifest, WriteManifest
    <2>2. staging'.files = staging.files
      BY <2>1 DEF Visible, Shape, IsDir
    <2>3. \A c \in Classes : FilesOf(c)' = FilesOf(c)
      BY <2>1, <2>2 DEF FilesOf
    <2> QED BY <1>2, <2>1, <2>3
  <1>12. CASE CommitPromote
    <2>1. /\ failed' = failed /\ UNCHANGED <<pending, accepted, buffer>>
          /\ final' = staging /\ staging' = NoDir /\ ~final.exists
      BY <1>12 DEF CommitPromote, Promote
    <2>2. final = NoDir
      BY <2>1 DEF Visible, Generation
    <2>3. \A c \in Classes : FilesOf(c)' = FilesOf(c)
      BY <2>1, <2>2 DEF FilesOf
    <2> QED BY <1>2, <2>1, <2>3
  <1>13. CASE EndOfTrace \/ Killed \/ TakeReady \/ TakeSwitch \/ EndJoin
              \/ (\E size \in BatchSizes : StartJoin(size)) \/ UNCHANGED vars
    <2>1. failed' = failed /\ UNCHANGED <<pending, accepted, buffer, staging, final>>
      BY <1>13 DEF EndOfTrace, Killed, TakeReady, TakeSwitch, EndJoin, StartJoin,
                   vars, extractVars, storeVars
    <2>2. \A c \in Classes : FilesOf(c)' = FilesOf(c)
      BY <2>1 DEF FilesOf
    <2> QED BY <1>2, <2>1, <2>2
  <1> QED BY <1>5, <1>6, <1>7, <1>8, <1>9, <1>10, <1>11, <1>12, <1>13 DEF Next

-----------------------------------------------------------------------------
(* The two extractions side by side *)

LEMMA BoundedStep == ASSUME Numbered, Bounded, [Next]_vars PROVE Bounded'
  <1>1. /\ IsSeq(pending) /\ Len(pending) \in Nat /\ Len(pending) <= Capacity
        /\ Capacity \in Nat /\ Capacity >= 1
    BY SeqFacts, ExtractAssumption DEF Numbered, Bounded
  <1>2. \A at \in DOMAIN pending :
          IsSeq(RemoveAt(pending, at)) /\ Len(RemoveAt(pending, at)) = Len(pending) - 1
    BY <1>1, RemoveFacts
  <1>3. ASSUME NEW e \in Inputs, OnStackWalk(e) PROVE Bounded'
    <2>1. \/ pending' = pending
          \/ \E at \in DOMAIN pending : pending' = RemoveAt(pending, at)
      BY <1>3, MatchFacts DEF OnStackWalk
    <2> QED BY <1>1, <1>2, <2>1 DEF Bounded
  <1>4. ASSUME NEW e \in Inputs, OnStackable(e) PROVE Bounded'
    <2> DEFINE entry == [class |-> e.class, row |-> Row(e)]
    <2>1. \/ Len(pending) # Capacity /\ pending' = Append(pending, entry)
          \/ \E out \in DOMAIN pending : pending' \in {Append(RemoveAt(pending, out), entry),
                                                       RemoveAt(pending, out)}
      BY <1>4, StackableOut
    <2> HIDE DEF entry
    <2>2. CASE Len(pending) # Capacity /\ pending' = Append(pending, entry)
      <3>1. Len(pending') = Len(pending) + 1
        BY <1>1, <2>2, AppendFacts
      <3> QED BY <1>1, <2>2, <3>1 DEF Bounded
    <2>3. ASSUME NEW out \in DOMAIN pending,
                 pending' \in {Append(RemoveAt(pending, out), entry), RemoveAt(pending, out)}
          PROVE  Bounded'
      <3> DEFINE left == RemoveAt(pending, out)
      <3>1. IsSeq(left) /\ Len(left) = Len(pending) - 1
        BY <1>2
      <3> HIDE DEF left
      <3>2. Len(Append(left, entry)) = Len(left) + 1
        BY <3>1, AppendFacts
      <3>3. pending' = Append(left, entry) \/ pending' = left
        BY <2>3 DEF left
      <3> QED BY <1>1, <3>1, <3>2, <3>3 DEF Bounded
    <2> QED BY <2>1, <2>2, <2>3
  <1>5. CASE Drain
    <2>1. CASE pending # << >>
      <3>1. pending' = RemoveAt(pending, 1) /\ 1 \in DOMAIN pending
        BY <1>1, <1>5, <2>1, TailIsRemoveAt DEF Drain
      <3> QED BY <1>1, <1>2, <3>1 DEF Bounded
    <2>2. CASE pending = << >>
      BY <1>1, <1>5, <2>2 DEF Drain, Bounded
    <2> QED BY <2>1, <2>2
  <1>6. CASE \/ \E e \in Inputs : OnHeader(e) \/ OnOther(e) \/ OnPlain(e)
             \/ EndOfTrace \/ CloseWriter \/ CommitManifest \/ CommitPromote \/ Killed
             \/ (\E size \in BatchSizes : StartJoin(size)) \/ TakeReady \/ TakeSwitch \/ EndJoin
             \/ UNCHANGED vars
    BY <1>1, <1>6 DEF OnHeader, OnOther, OnPlain, EndOfTrace, CloseWriter, CommitManifest,
       CommitPromote, Killed, StartJoin, TakeReady, TakeSwitch, EndJoin, vars, extractVars, Bounded
  <1> QED BY <1>3, <1>4, <1>5, <1>6 DEF Next

LEMMA DrainedStep == ASSUME Drained, [Next]_vars PROVE Drained'
  <1>1. CASE \E e \in Inputs : OnStackWalk(e) \/ OnHeader(e) \/ OnStackable(e)
                               \/ OnOther(e) \/ OnPlain(e)
    BY <1>1 DEF OnStackWalk, OnHeader, OnStackable, OnOther, OnPlain, Delivered, Drained
  <1>2. CASE EndOfTrace \/ Drain \/ CloseWriter \/ Killed
    BY <1>2 DEF EndOfTrace, Drain, CloseWriter, Killed, Drained
  <1>3. CASE CommitManifest
    BY <1>3 DEF CommitManifest, WriteManifest, Drained
  <1>4. CASE CommitPromote
    BY <1>4 DEF CommitPromote, Promote, Drained
  <1>5. CASE (\E size \in BatchSizes : StartJoin(size)) \/ TakeReady \/ TakeSwitch \/ EndJoin
    BY <1>5 DEF StartJoin, TakeReady, TakeSwitch, EndJoin, storeVars, Drained
  <1>6. CASE UNCHANGED vars
    BY <1>6 DEF vars, extractVars, storeVars, Drained
  <1> QED BY <1>1, <1>2, <1>3, <1>4, <1>5, <1>6 DEF Next

LEMMA KeysAre ==
  OwnKeys <=> \A i, j \in DOMAIN accepted :
                accepted[i].row.qpc = accepted[j].row.qpc /\ accepted[i].row.tid = accepted[j].row.tid
                  => i = j
  BY DEF OwnKeys, IsInjective

\* With one more row the keys are told apart only if they were before, and the
\* new row shares its key with none that waits.
LEMMA NewKey ==
  ASSUME Numbered, NEW entry, accepted' = Append(accepted, entry), OwnKeys'
  PROVE  /\ OwnKeys
         /\ \A i \in DOMAIN pending :
              ~(pending[i].row.qpc = entry.row.qpc /\ pending[i].row.tid = entry.row.tid)
  <1>1. /\ DOMAIN accepted' = 1 .. Len(accepted) + 1
        /\ \A i \in DOMAIN accepted : accepted'[i] = accepted[i]
        /\ accepted'[Len(accepted) + 1] = entry
        /\ DOMAIN accepted = 1 .. Len(accepted) /\ Len(accepted) \in Nat
    BY AppendFacts, SeqFacts DEF Numbered
  <1>2. \A i, j \in DOMAIN accepted' :
          accepted'[i].row.qpc = accepted'[j].row.qpc /\ accepted'[i].row.tid = accepted'[j].row.tid
            => i = j
    BY DEF OwnKeys, IsInjective
  <1>3. DOMAIN accepted \subseteq DOMAIN accepted' /\ Len(accepted) + 1 \in DOMAIN accepted'
        /\ Len(accepted) + 1 \notin DOMAIN accepted
    BY <1>1
  <1>4. OwnKeys
    BY <1>1, <1>2, <1>3, KeysAre
  <1>5. ASSUME NEW i \in DOMAIN pending,
               pending[i].row.qpc = entry.row.qpc, pending[i].row.tid = entry.row.tid
        PROVE  FALSE
    <2>1. PICK j \in DOMAIN accepted : accepted[j] = pending[i]
      BY DEF Numbered
    <2>2. accepted'[j] = pending[i] /\ j \in DOMAIN accepted'
      BY <1>1, <1>3, <2>1
    <2>3. j = Len(accepted) + 1
      BY <1>1, <1>2, <1>3, <1>5, <2>2
    <2> QED BY <1>3, <2>1, <2>3
  <1> QED BY <1>4, <1>5

LEMMA MatchUnique ==
  ASSUME NEW queue, NEW e, IsSeq(queue), NEW i \in Match(queue, e), NEW j \in Match(queue, e)
  PROVE  i = j
  <1>1. i \in DOMAIN queue /\ j \in DOMAIN queue
    BY MatchFacts
  <1>2. i \in Nat /\ j \in Nat
    BY <1>1, SeqFacts
  <1>3. i <= j /\ j <= i
    BY DEF Match, Earliest
  <1> QED BY <1>2, <1>3

\* What one write adds to the rows of a class.
LEMMA StoredRow ==
  ASSUME Shape, NEW k \in Classes, NEW row, AppendRow(k, row, TRUE), UNCHANGED final, NEW c \in Classes
  PROVE  Stored(c)' = IF c = k THEN Stored(c) \union {row} ELSE Stored(c)
  <1> DEFINE rows == Append(buffer[k], row)
             file == [index |-> nextPart[k], rows |-> rows]
  <1>1. IsSeq(rows) /\ rows # << >> /\ Range(rows) = Range(buffer[k]) \union {row}
    BY AppendRowCases, AppendFacts DEF Shape
  <1> HIDE DEF rows
  <1>2. CASE Flush(k, rows, TRUE)
    <2>1. TRUE \in BOOLEAN /\ ~(rows = << >> \/ ~TRUE)
      BY <1>1
    <2>2. /\ rows # << >> => buffer'[k] = << >>
          /\ \A d \in Classes \ {k} :
               buffer'[d] = buffer[d] /\ parts'[d] = parts[d] /\ staging'.files[d] = staging.files[d]
          /\ IF rows = << >> \/ ~TRUE
               THEN parts' = parts /\ staging' = staging
               ELSE /\ parts'[k] = Append(parts[k], PartOf(nextPart[k], rows))
                    /\ staging'.files[k] =
                         staging.files[k] \union {[index |-> nextPart[k], rows |-> rows]}
      BY <1>1, <1>2, <2>1, FlushShape, Zenon
    <2>3. /\ Range(buffer'[k]) = {} /\ staging'.files[k] = staging.files[k] \union {file}
          /\ file.rows = rows
      BY <2>1, <2>2, EmptyIsSeq
    <2> HIDE DEF file
    <2>4. CASE c = k
      BY <1>1, <2>3, <2>4 DEF Stored, FilesOf
    <2>5. CASE c # k
      BY <2>2, <2>5 DEF Stored, FilesOf
    <2> QED BY <2>4, <2>5
  <1>3. CASE buffer' = [buffer EXCEPT ![k] = rows] /\ UNCHANGED <<parts, nextPart, staging>>
    <2>1. FilesOf(c)' = FilesOf(c) /\ buffer'[c] = IF c = k THEN rows ELSE buffer[c]
      BY <1>3 DEF FilesOf, Shape
    <2> QED BY <1>1, <2>1 DEF Stored
  <1> QED BY <1>2, <1>3, AppendRowCases DEF rows

AllStored == UNION {Stored(c) : c \in Stackable}

LEMMA AllStoredRow ==
  ASSUME Shape, NEW k \in Classes, NEW row, AppendRow(k, row, TRUE), UNCHANGED final
  PROVE  AllStored' = IF k \in Stackable THEN AllStored \union {row} ELSE AllStored
  <1>1. \A c \in Stackable : Stored(c)' = IF c = k THEN Stored(c) \union {row} ELSE Stored(c)
    BY StoredRow, ExtractAssumption
  <1> QED BY <1>1 DEF AllStored

LEMMA StackedRow ==
  ASSUME NEW rows, NEW row
  PROVE  Stacked(rows \union {row}) =
           IF row.stack = None THEN Stacked(rows) ELSE Stacked(rows) \union {<<row.seq, row.stack>>}
  BY DEF Stacked

LEMMA AlikeIs ==
  Alike <=> (~failed /\ stacks /\ OwnKeys =>
               /\ phase = "reading" => memory.pending = pending
               /\ memory.stacked = Stacked(AllStored))
  BY DEF Alike, AllStored

\* To remove the oldest of a longer queue is to remove it before.
LEMMA TailOfAppend ==
  ASSUME NEW queue, NEW entry, IsSeq(queue), queue # << >>
  PROVE  Tail(Append(queue, entry)) = Append(RemoveAt(queue, 1), entry)
  <1>1. queue \in Seq(Range(queue))
    BY DEF IsSeq
  <1>2. Tail(Append(queue, entry)) = Append(Tail(queue), entry)
    BY <1>1, HeadTailAppend
  <1> QED BY <1>2, TailIsRemoveAt

LEMMA AlikeWalk ==
  ASSUME Numbered, Visible, Alike, NEW e \in Inputs, OnStackWalk(e)
  PROVE  Alike'
  <1>0. /\ ~failed /\ phase = "reading" /\ phase' = phase /\ UNCHANGED <<final, stacks, accepted>>
        /\ IsSeq(pending) /\ Shape
    BY DEF OnStackWalk, Delivered, Numbered, Visible
  <1> SUFFICES ASSUME ~failed', stacks', OwnKeys'
               PROVE  memory'.pending = pending' /\ memory'.stacked = Stacked(AllStored')
    BY <1>0 DEF Alike, AllStored
  <1>1. OwnKeys /\ stacks
    BY <1>0 DEF OwnKeys
  <1>2. memory.pending = pending /\ memory.stacked = Stacked(AllStored)
    BY <1>0, <1>1, AlikeIs
  <1>3. CASE Match(pending, e) = {}
    <2>1. StoreNothing /\ UNCHANGED <<pending, memory>>
      BY <1>2, <1>3 DEF OnStackWalk, MemoryStackWalk
    <2>2. AllStored' = AllStored
      BY <1>0, <2>1 DEF StoreNothing, AllStored, Stored, FilesOf
    <2> QED BY <1>2, <2>1, <2>2
  <1>4. CASE Match(pending, e) # {}
    <2>1. PICK at \in Match(pending, e), works \in BOOLEAN :
            /\ pending' = RemoveAt(pending, at)
            /\ Store(pending[at].class, [pending[at].row EXCEPT !.stack = e.tid], works)
      BY <1>1, <1>4 DEF OnStackWalk
    <2> DEFINE row == [pending[at].row EXCEPT !.stack = e.tid]
               k == pending[at].class
    <2>2. at \in DOMAIN pending
      BY MatchFacts
    <2>3. k \in Stackable /\ row.seq = pending[at].row.seq /\ row.stack = e.tid
      BY <2>2 DEF Numbered
    <2>4. e.tid # None /\ k \in Classes
      BY <2>3, ExtractAssumption
    <2>5. AppendRow(k, row, TRUE)
      BY <2>1, Written
    <2>6. PICK on \in Match(pending, e) :
            memory' = [pending |-> RemoveAt(pending, on),
                       stacked |-> memory.stacked \union {<<pending[on].row.seq, e.tid>>}]
      BY <1>2, <1>4 DEF OnStackWalk, MemoryStackWalk
    <2>7. on = at
      BY <1>0, MatchUnique
    <2>8. /\ memory'.pending = pending'
          /\ memory'.stacked = memory.stacked \union {<<row.seq, row.stack>>}
      BY <2>1, <2>3, <2>6, <2>7
    <2> HIDE DEF row, k
    <2>9. AllStored' = AllStored \union {row}
      BY <1>0, <2>3, <2>4, <2>5, AllStoredRow
    <2>10. Stacked(AllStored') = Stacked(AllStored) \union {<<row.seq, row.stack>>}
      <3>1. row.stack # None
        BY <2>3, <2>4
      <3> QED BY <2>9, <3>1, StackedRow
    <2> QED BY <1>2, <2>8, <2>10
  <1> QED BY <1>3, <1>4

LEMMA AlikeStackable ==
  ASSUME Numbered, Bounded, Visible, Alike, NEW e \in Inputs, OnStackable(e)
  PROVE  Alike'
  <1> DEFINE entry == [class |-> e.class, row |-> Row(e)]
             same == SameKey(pending, e)
  <1>0. /\ ~failed /\ phase = "reading" /\ phase' = phase /\ UNCHANGED <<final, stacks>>
        /\ IsSeq(pending) /\ Shape /\ accepted' = Append(accepted, entry)
    BY DEF OnStackable, Delivered, Numbered, Visible
  <1> SUFFICES ASSUME ~failed', stacks', OwnKeys'
               PROVE  memory'.pending = pending' /\ memory'.stacked = Stacked(AllStored')
    BY <1>0 DEF Alike, AllStored
  <1>1. /\ OwnKeys /\ stacks
        /\ \A i \in DOMAIN pending :
             ~(pending[i].row.qpc = entry.row.qpc /\ pending[i].row.tid = entry.row.tid)
    <2> HIDE DEF entry
    <2> QED BY <1>0, NewKey
  <1>2. memory.pending = pending /\ memory.stacked = Stacked(AllStored)
    BY <1>0, <1>1, AlikeIs
  <1>3. same = {}
    BY <1>1, EntryFacts DEF SameKey
  <1> DEFINE queue == Append(pending, entry)
  <1>4. memory' = [pending |-> IF Len(queue) > Capacity THEN Tail(queue) ELSE queue,
                   stacked |-> memory.stacked]
    BY <1>2, <1>3 DEF OnStackable, MemoryStackable
  <1>5. Len(queue) = Len(pending) + 1 /\ Len(pending) \in Nat /\ Len(pending) <= Capacity
        /\ Capacity \in Nat /\ Capacity >= 1
    BY <1>0, AppendFacts, SeqFacts, ExtractAssumption DEF Bounded
  <1>6. CASE Len(pending) = Capacity
    <2>1. PICK works \in BOOLEAN :
            /\ Store(pending[1].class, pending[1].row, works)
            /\ pending' = Append(RemoveAt(pending, 1), entry)
      BY <1>3, <1>6, StackableOut
    <2> DEFINE row == pending[1].row
               k == pending[1].class
    <2> HIDE DEF entry
    <2>2. pending # << >> /\ 1 \in DOMAIN pending
      BY <1>0, <1>5, <1>6, EmptyIsSeq, TailIsRemoveAt
    <2>3. k \in Stackable /\ k \in Classes /\ row.stack = None
      BY <2>2, ExtractAssumption DEF Numbered
    <2>4. AppendRow(k, row, TRUE)
      BY <2>1, Written
    <2> HIDE DEF row, k
    <2>5. Stacked(AllStored') = Stacked(AllStored)
      <3>1. AllStored' = AllStored \union {row}
        BY <1>0, <2>3, <2>4, AllStoredRow
      <3> QED BY <2>3, <3>1, StackedRow
    <2>6. memory'.pending = Tail(queue) /\ memory'.stacked = memory.stacked
      BY <1>4, <1>5, <1>6
    <2>7. Tail(queue) = pending'
      BY <1>0, <2>1, <2>2, TailOfAppend
    <2> QED BY <1>2, <2>5, <2>6, <2>7
  <1>7. CASE Len(pending) # Capacity
    <2>1. StoreNothing /\ pending' = queue
      BY <1>3, <1>7, StackableOut
    <2>2. ~(Len(queue) > Capacity)
      BY <1>5, <1>7
    <2>3. AllStored' = AllStored
      BY <1>0, <2>1 DEF StoreNothing, AllStored, Stored, FilesOf
    <2>4. memory'.pending = queue /\ memory'.stacked = memory.stacked
      BY <1>4, <2>2
    <2> QED BY <1>2, <2>1, <2>3, <2>4
  <1> QED BY <1>6, <1>7

LEMMA AlikePlain ==
  ASSUME Numbered, Visible, Alike, NEW e \in Inputs, OnPlain(e)
  PROVE  Alike'
  <1> DEFINE entry == [class |-> e.class, row |-> Row(e)]
             row == Row(e)
  <1>0. /\ ~failed /\ phase = "reading" /\ phase' = phase
        /\ UNCHANGED <<final, stacks, pending, memory>>
        /\ Shape /\ accepted' = Append(accepted, entry)
        /\ e.class \in Classes /\ e.class \notin Stackable
    BY DEF OnPlain, Delivered, Visible
  <1> HIDE DEF entry, row
  <1> SUFFICES ASSUME ~failed', stacks', OwnKeys'
               PROVE  memory'.pending = pending' /\ memory'.stacked = Stacked(AllStored')
    BY <1>0 DEF Alike, AllStored
  <1>1. OwnKeys /\ stacks
    BY <1>0, NewKey
  <1>2. memory.pending = pending /\ memory.stacked = Stacked(AllStored)
    BY <1>0, <1>1, AlikeIs
  <1>3. PICK works \in BOOLEAN : Store(e.class, row, works)
    BY DEF OnPlain, row
  <1>4. AllStored' = AllStored
    BY <1>0, <1>3, Written, AllStoredRow
  <1> QED BY <1>0, <1>2, <1>4

\* After the trace the rows that are left are written without a stack, and the
\* memory extraction is over.
LEMMA AlikeAfter ==
  ASSUME Alike, UNCHANGED <<stacks, accepted, memory>>,
         ~failed' => ~failed, phase' # "reading",
         ~failed' => Stacked(AllStored') = Stacked(AllStored)
  PROVE  Alike'
  <1> SUFFICES ASSUME ~failed', stacks', OwnKeys'
               PROVE  memory'.stacked = Stacked(AllStored')
    BY DEF Alike, AllStored
  <1>1. OwnKeys
    BY DEF OwnKeys
  <1> QED BY <1>1, AlikeIs

LEMMA AlikeStep ==
  ASSUME Numbered, Bounded, Visible, Alike, [Next]_vars
  PROVE  Alike'
  <1>0. Shape
    BY DEF Visible
  <1>1. ASSUME NEW e \in Inputs, OnStackWalk(e) PROVE Alike'
    BY <1>1, AlikeWalk
  <1>2. ASSUME NEW e \in Inputs, OnHeader(e) \/ OnOther(e) PROVE Alike'
    <2>1. /\ StoreNothing /\ UNCHANGED <<final, phase, stacks, pending, accepted, memory>>
      BY <1>2 DEF OnHeader, OnOther
    <2>2. failed' = failed /\ AllStored' = AllStored /\ (OwnKeys' <=> OwnKeys)
      BY <2>1 DEF StoreNothing, AllStored, Stored, FilesOf, OwnKeys
    <2> QED BY <2>1, <2>2 DEF Alike, AllStored
  <1>3. ASSUME NEW e \in Inputs, OnStackable(e) PROVE Alike'
    BY <1>3, AlikeStackable
  <1>4. ASSUME NEW e \in Inputs, OnPlain(e) PROVE Alike'
    BY <1>4, AlikePlain
  <1>5. CASE EndOfTrace \/ Killed
    <2>1. AllStored' = AllStored /\ failed' = failed /\ UNCHANGED <<stacks, accepted, memory>>
          /\ phase' # "reading"
      BY <1>5 DEF EndOfTrace, Killed, storeVars, AllStored, Stored, FilesOf
    <2> QED BY <2>1, AlikeAfter
  <1>6. CASE Drain
    <2>0. ~failed /\ phase' # "reading" /\ UNCHANGED <<final, stacks, accepted, memory>>
      BY <1>6 DEF Drain, Visible, Generation
    <2>1. CASE pending # << >>
      <3>1. PICK works \in BOOLEAN : Store(pending[1].class, pending[1].row, works)
        BY <1>6, <2>1 DEF Drain
      <3> DEFINE row == pending[1].row
                 k == pending[1].class
      <3>2. k \in Stackable /\ k \in Classes /\ row.stack = None
        BY <2>1, TailIsRemoveAt, ExtractAssumption DEF Numbered
      <3>3. ~failed' => AppendRow(k, row, TRUE)
        BY <3>1, Written
      <3> HIDE DEF row, k
      <3>4. ~failed' => AllStored' = AllStored \union {row}
        BY <1>0, <2>0, <3>2, <3>3, AllStoredRow
      <3>5. ~failed' => Stacked(AllStored') = Stacked(AllStored)
        BY <3>2, <3>4, StackedRow
      <3> QED BY <2>0, <3>5, AlikeAfter
    <2>2. CASE pending = << >>
      <3>1. AllStored' = AllStored
        BY <1>6, <2>0, <2>2 DEF Drain, StoreNothing, AllStored, Stored, FilesOf
      <3> QED BY <2>0, <3>1, AlikeAfter
    <2> QED BY <2>1, <2>2
  <1>7. CASE CloseWriter
    <2>0. ~failed /\ phase' # "reading" /\ UNCHANGED <<final, stacks, accepted, memory>>
      BY <1>7 DEF CloseWriter, Visible, Generation
    <2>1. ASSUME ~failed' PROVE AllStored' = AllStored
      <3>1. PICK k \in Classes : buffer[k] # << >> /\ Flush(k, buffer[k], TRUE)
        BY <1>7, <2>1 DEF CloseWriter
      <3> DEFINE rows == buffer[k]
                 file == [index |-> nextPart[k], rows |-> rows]
      <3>2. IsSeq(rows) /\ ~(rows = << >> \/ ~TRUE) /\ Flush(k, rows, TRUE) /\ TRUE \in BOOLEAN
        BY <1>0, <3>1 DEF Shape
      <3> HIDE DEF rows
      <3>3. /\ rows # << >> => buffer'[k] = << >>
            /\ \A d \in Classes \ {k} :
                 buffer'[d] = buffer[d] /\ parts'[d] = parts[d] /\ staging'.files[d] = staging.files[d]
            /\ IF rows = << >> \/ ~TRUE
                 THEN parts' = parts /\ staging' = staging
                 ELSE /\ parts'[k] = Append(parts[k], PartOf(nextPart[k], rows))
                      /\ staging'.files[k] =
                           staging.files[k] \union {[index |-> nextPart[k], rows |-> rows]}
        BY <1>0, <3>2, FlushShape, Zenon
      <3>4. /\ Range(buffer'[k]) = {} /\ staging'.files[k] = staging.files[k] \union {file}
            /\ file.rows = buffer[k]
        BY <3>2, <3>3, EmptyIsSeq DEF rows
      <3> HIDE DEF file
      <3>5. ASSUME NEW c \in Classes PROVE Stored(c)' = Stored(c)
        <4>1. CASE c = k
          BY <2>0, <3>4, <4>1 DEF Stored, FilesOf
        <4>2. CASE c # k
          BY <2>0, <3>3, <4>2 DEF Stored, FilesOf
        <4> QED BY <4>1, <4>2
      <3> QED BY <3>5, ExtractAssumption DEF AllStored
    <2> QED BY <2>0, <2>1, AlikeAfter
  <1>8. CASE CommitManifest
    <2>1. /\ failed' = failed /\ phase' # "reading" /\ UNCHANGED <<stacks, accepted, memory, buffer, final>>
          /\ staging' = [staging EXCEPT !.sealed = TRUE, !.manifest = Manifest(Origin)]
      BY <1>8 DEF CommitManifest, WriteManifest
    <2>2. staging'.files = staging.files
      BY <1>0, <2>1 DEF Shape, IsDir
    <2>3. AllStored' = AllStored
      BY <2>1, <2>2 DEF AllStored, Stored, FilesOf
    <2> QED BY <2>1, <2>3, AlikeAfter
  <1>9. CASE CommitPromote
    <2>1. /\ failed' = failed /\ phase' # "reading" /\ UNCHANGED <<stacks, accepted, memory, buffer>>
          /\ final' = staging /\ staging' = NoDir /\ ~final.exists
      BY <1>9 DEF CommitPromote, Promote
    <2>2. final = NoDir
      BY <2>1 DEF Visible, Generation
    <2>3. \A c \in Classes : FilesOf(c)' = FilesOf(c)
      BY <2>1, <2>2 DEF FilesOf
    <2>4. AllStored' = AllStored
      BY <2>1, <2>3, ExtractAssumption DEF AllStored, Stored
    <2> QED BY <2>1, <2>4, AlikeAfter
  <1>10. CASE (\E size \in BatchSizes : StartJoin(size)) \/ TakeReady \/ TakeSwitch \/ EndJoin
    <2>1. AllStored' = AllStored /\ failed' = failed /\ UNCHANGED <<stacks, accepted, memory>>
          /\ phase' # "reading"
      BY <1>10 DEF StartJoin, TakeReady, TakeSwitch, EndJoin, storeVars, AllStored, Stored, FilesOf
    <2> QED BY <2>1, AlikeAfter
  <1>11. CASE UNCHANGED vars
    <2>1. /\ AllStored' = AllStored /\ (OwnKeys' <=> OwnKeys)
          /\ UNCHANGED <<failed, phase, stacks, pending, memory>>
      BY <1>11 DEF vars, extractVars, storeVars, AllStored, Stored, FilesOf, OwnKeys
    <2> QED BY <2>1 DEF Alike, AllStored
  <1> QED BY <1>1, <1>2, <1>3, <1>4, <1>5, <1>6, <1>7, <1>8, <1>9, <1>10, <1>11 DEF Next

LEMMA AlikeInit == Init => Alike /\ Drained /\ Bounded
  <1> SUFFICES ASSUME Init PROVE Alike /\ Drained /\ Bounded
    OBVIOUS
  <1>1. Bounded
    BY EmptyIsSeq, ExtractAssumption DEF Init, Bounded
  <1>2. Drained
    BY DEF Init, Drained
  <1>3. ASSUME NEW c \in Classes PROVE Stored(c) = {}
    <2>1. buffer[c] = << >> /\ FilesOf(c) = {}
      BY DEF Init, StoreInit, NewDir, NoDir, FilesOf
    <2> QED BY <2>1, EmptyIsSeq DEF Stored
  <1>4. AllStored = {}
    BY <1>3, ExtractAssumption DEF AllStored
  <1>5. Stacked(AllStored) = {}
    BY <1>4 DEF Stacked
  <1>6. Alike
    BY <1>5, AlikeIs DEF Init
  <1> QED BY <1>1, <1>2, <1>6

-----------------------------------------------------------------------------
(* Types and bounds *)

LEMMA FlushInParts ==
  ASSUME Shape, InParts, NEW c \in Classes, NEW rows, NEW works \in BOOLEAN, Flush(c, rows, works)
  PROVE  InParts'
  <1>1. CASE rows = << >>
    BY <1>1 DEF Flush, InParts
  <1>2. CASE rows # << >>
    <2> DEFINE part == PartOf(nextPart[c], rows)
    <2>1. /\ buffer' = [buffer EXCEPT ![c] = << >>]
          /\ nextPart' = [nextPart EXCEPT ![c] = @ + 1]
          /\ parts' = parts \/ parts' = [parts EXCEPT ![c] = Append(parts[c], part)]
      BY <1>2 DEF Flush
    <2> HIDE DEF part
    <2> SUFFICES ASSUME NEW d \in Classes
                 PROVE  /\ buffer'[d] = << >> \/ ~PartDue(buffer'[d])
                        /\ Len(parts'[d]) <= nextPart'[d]
      BY DEF InParts
    <2>2. CASE d # c
      <3>1. buffer'[d] = buffer[d] /\ parts'[d] = parts[d] /\ nextPart'[d] = nextPart[d]
        BY <2>1, <2>2 DEF Shape
      <3> QED BY <3>1 DEF InParts
    <2>3. CASE d = c
      <3>1. /\ buffer'[c] = << >> /\ nextPart'[c] = nextPart[c] + 1
            /\ parts'[c] = parts[c] \/ parts'[c] = Append(parts[c], part)
        BY <2>1 DEF Shape
      <3>2. Len(Append(parts[c], part)) = Len(parts[c]) + 1 /\ Len(parts[c]) \in Nat
            /\ nextPart[c] \in Nat /\ Len(parts[c]) <= nextPart[c]
        BY AppendFacts, SeqFacts DEF Shape, InParts
      <3> QED BY <2>3, <3>1, <3>2
    <2> QED BY <2>2, <2>3
  <1> QED BY <1>1, <1>2

LEMMA AppendInParts ==
  ASSUME Shape, InParts, NEW c \in Classes, NEW row, NEW works \in BOOLEAN,
         AppendRow(c, row, works)
  PROVE  InParts'
  <1> DEFINE rows == Append(buffer[c], row)
  <1>1. CASE PartDue(rows)
    <2>1. Flush(c, rows, works)
      BY <1>1 DEF AppendRow
    <2> HIDE DEF rows
    <2> QED BY <2>1, FlushInParts
  <1>2. CASE ~PartDue(rows)
    <2>1. buffer' = [buffer EXCEPT ![c] = rows] /\ UNCHANGED <<parts, nextPart>>
      BY <1>2 DEF AppendRow
    <2> HIDE DEF rows
    <2> SUFFICES ASSUME NEW d \in Classes
                 PROVE  /\ buffer'[d] = << >> \/ ~PartDue(buffer'[d])
                        /\ Len(parts'[d]) <= nextPart'[d]
      BY DEF InParts
    <2>2. buffer'[d] = IF d = c THEN rows ELSE buffer[d]
      BY <2>1 DEF Shape
    <2> QED BY <1>2, <2>1, <2>2 DEF InParts
  <1> QED BY <1>1, <1>2

LEMMA InPartsStep ==
  ASSUME Numbered, Visible, InParts, [Next]_vars
  PROVE  InParts'
  <1>0. Shape /\ \A i \in DOMAIN pending : pending[i].class \in Classes
    BY ExtractAssumption DEF Visible, Numbered
  <1>1. UNCHANGED <<buffer, parts, nextPart>> => InParts'
    BY DEF InParts
  <1>2. ASSUME NEW c \in Classes, NEW row, NEW works \in BOOLEAN, Store(c, row, works)
        PROVE  InParts'
    BY <1>0, <1>2, AppendInParts DEF Store
  <1>3. ASSUME NEW e \in Inputs, OnStackWalk(e) PROVE InParts'
    <2>1. CASE StoreNothing
      BY <1>1, <2>1 DEF StoreNothing
    <2>2. CASE ~StoreNothing
      <3>1. PICK at \in Match(pending, e), works \in BOOLEAN :
              Store(pending[at].class, [pending[at].row EXCEPT !.stack = e.tid], works)
        BY <1>3, <2>2 DEF OnStackWalk
      <3> QED BY <1>0, <1>2, <3>1, MatchFacts
    <2> QED BY <2>1, <2>2
  <1>4. ASSUME NEW e \in Inputs, OnHeader(e) \/ OnOther(e) PROVE InParts'
    BY <1>1, <1>4 DEF OnHeader, OnOther, StoreNothing
  <1>5. ASSUME NEW e \in Inputs, OnStackable(e) PROVE InParts'
    <2>1. CASE StoreNothing
      BY <1>1, <2>1 DEF StoreNothing
    <2>2. CASE ~StoreNothing
      <3>1. PICK out \in DOMAIN pending, works \in BOOLEAN :
              Store(pending[out].class, pending[out].row, works)
        BY <1>5, <2>2, StackableOut
      <3> QED BY <1>0, <1>2, <3>1
    <2> QED BY <2>1, <2>2
  <1>6. ASSUME NEW e \in Inputs, OnPlain(e) PROVE InParts'
    <2>1. PICK works \in BOOLEAN : Store(e.class, Row(e), works)
      BY <1>6 DEF OnPlain
    <2> QED BY <1>2, <1>6, <2>1 DEF OnPlain
  <1>7. CASE Drain
    <2>1. CASE pending # << >>
      <3>1. PICK works \in BOOLEAN : Store(pending[1].class, pending[1].row, works)
        BY <1>7, <2>1 DEF Drain
      <3>2. 1 \in DOMAIN pending
        BY <2>1, TailIsRemoveAt DEF Numbered
      <3> QED BY <1>0, <1>2, <3>1, <3>2
    <2>2. CASE pending = << >>
      BY <1>1, <1>7, <2>2 DEF Drain, StoreNothing
    <2> QED BY <2>1, <2>2
  <1>8. CASE CloseWriter
    <2>1. PICK c \in Classes, works \in BOOLEAN : Flush(c, buffer[c], works)
      BY <1>8 DEF CloseWriter
    <2> QED BY <1>0, <2>1, FlushInParts
  <1>9. CASE CommitManifest \/ CommitPromote
    BY <1>1, <1>9 DEF CommitManifest, WriteManifest, CommitPromote, Promote
  <1>10. CASE EndOfTrace \/ Killed \/ TakeReady \/ TakeSwitch \/ EndJoin
              \/ (\E size \in BatchSizes : StartJoin(size)) \/ UNCHANGED vars
    BY <1>1, <1>10 DEF EndOfTrace, Killed, TakeReady, TakeSwitch, EndJoin, StartJoin,
                       vars, extractVars, storeVars
  <1> QED BY <1>3, <1>4, <1>5, <1>6, <1>7, <1>8, <1>9, <1>10 DEF Next

LEMMA InPartsInit == Init => InParts
  <1> SUFFICES ASSUME Init, NEW c \in Classes
               PROVE  buffer[c] = << >> /\ Len(parts[c]) <= nextPart[c]
    BY DEF InParts
  <1> QED BY EmptyIsSeq DEF Init, StoreInit

-----------------------------------------------------------------------------
(* Theorems *)

\* The inductive invariant: rows that wait are bounded and as they were decoded,
\* what is listed is written, every row is in one place, and the memory
\* extraction goes side by side.
THEOREM WriterIsSound == Spec => []WriterInv
  <1>1. Init => WriterInv
    BY NumberedInit, VisibleInit, OnceInit, AlikeInit, InPartsInit DEF WriterInv
  <1>2. WriterInv /\ [Next]_vars => WriterInv'
    BY NumberedStep, BoundedStep, VisibleStep, OnceStep, DrainedStep, AlikeStep,
       InPartsStep DEF WriterInv
  <1> QED BY <1>1, <1>2, PTL DEF Spec

\* The types, and the bounds of the stack buffer and of the row buffers
\* (_PENDING_STACK_CAPACITY, max_rows_per_part).
THEOREM WriterTypes == Spec => []TypeOK
  <1>1. WriterInv => TypeOK
    <2> SUFFICES ASSUME WriterInv PROVE TypeOK
      OBVIOUS
    <2>1. ASSUME NEW c \in Classes, buffer[c] # << >> PROVE Len(buffer[c]) < MaxRows
      <3>1. ~(Len(buffer[c]) >= MaxRows)
        BY <2>1 DEF WriterInv, InParts, PartDue
      <3>2. Len(buffer[c]) \in Nat /\ MaxRows \in Nat
        BY SeqFacts, StoreAssumption DEF WriterInv, Visible, Shape
      <3> QED BY <3>1, <3>2
    <2>2. \A p \in Range(pending) : p.class \in Stackable /\ p.row.stack = None
      BY DEF WriterInv, Numbered, Range
    <2> QED BY <2>1, <2>2 DEF WriterInv, Numbered, Bounded, Visible, Shape, Generation, InParts, TypeOK
  <1> QED BY <1>1, WriterIsSound, PTL

\* A generation directory can be opened from the moment it is there, whichever
\* writes fail and wherever the worker is killed (NativeEventStoreWriter.commit).
THEOREM VisibleGenerationsAreWhole == Spec => []VisibleIsValid
  <1>1. WriterInv => VisibleIsValid
    BY DEF WriterInv, Visible
  <1> QED BY <1>1, WriterIsSound, PTL

\* Through stack buffer, row buffers and part files every decoded row goes once
\* (extract_events_to_store).
THEOREM RowsAreWrittenOnce == Spec => []RowsOnce
  <1>1. WriterInv => RowsOnce
    BY DEF WriterInv
  <1> QED BY <1>1, WriterIsSound, PTL

\* extract_events and extract_events_to_store give the same rows the same stacks.
THEOREM ExtractionsPairAlike == Spec => []SameStacks
  <1>1. WriterInv => SameStacks
    <2> SUFFICES ASSUME WriterInv, final.exists, stacks, OwnKeys
                 PROVE  memory.stacked = Stacked(UNION {Files(c) : c \in Stackable})
      BY DEF SameStacks, OwnKeys, Stacked
    <2>1. /\ ~failed /\ staging = NoDir
          /\ phase \in {"manifest", "committed", "joining", "joined"}
      BY DEF WriterInv, Visible, VisibleIsValid, Generation
    <2>2. ASSUME NEW c \in Stackable PROVE Stored(c) = Files(c)
      <3>1. c \in Classes
        BY ExtractAssumption
      <3>2. buffer[c] = << >>
        BY <2>1, <3>1 DEF WriterInv, Drained
      <3>3. FilesOf(c) = final.files[c]
        BY <2>1, <3>1 DEF FilesOf, NoDir, NewDir
      <3> QED BY <3>2, <3>3, EmptyIsSeq DEF Stored, Files
    <2>3. AllStored = UNION {Files(c) : c \in Stackable}
      BY <2>2 DEF AllStored
    <2>4. Alike
      BY DEF WriterInv
    <2> QED BY <2>1, <2>3, <2>4, AlikeIs
  <1> QED BY <1>1, WriterIsSound, PTL

-----------------------------------------------------------------------------
(* Where rows are found *)

\* The times of rows have a least and a greatest: PartOf gives bounds.
LEMMA NaturalsHaveBounds ==
  ASSUME NEW rows, IsSeq(rows), rows # << >>, \A row \in Range(rows) : row.qpc \in Nat
  PROVE  /\ Least(Times(rows)) \in Nat /\ Greatest(Times(rows)) \in Nat
         /\ \A row \in Range(rows) : Least(Times(rows)) <= row.qpc /\ row.qpc <= Greatest(Times(rows))
  <1> DEFINE X == Range(rows)
             Low(s) == \E t \in Times(s) : \A u \in Times(s) : t <= u
             High(s) == \E t \in Times(s) : \A u \in Times(s) : u <= t
             P == {s \in Seq(X) : s # << >> => Low(s) /\ High(s)}
  <1>1. << >> \in P
    BY EmptySeq
  <1>2. ASSUME NEW s \in Seq(X), NEW x \in X, s \in P PROVE Append(s, x) \in P
    <2>1. Append(s, x) \in Seq(X) /\ Range(Append(s, x)) = Range(s) \union {x}
      BY AppendedSeq
    <2>2. \A r : Times(r) = {y.qpc : y \in Range(r)}
      BY DEF Times, Range
    <2>3. Times(Append(s, x)) = Times(s) \union {x.qpc}
      BY <2>1, <2>2
    <2>4. Range(s) \subseteq X
      BY RangeOfSeq
    <2>5. Times(s) \subseteq Nat /\ x.qpc \in Nat
      BY <2>2, <2>4
    <2>6. CASE s = << >>
      <3>1. Times(s) = {}
        BY <2>2, <2>6, EmptyFacts
      <3>2. Times(Append(s, x)) = {x.qpc}
        BY <2>3, <3>1
      <3>3. x.qpc \in Times(Append(s, x)) /\ \A u \in Times(Append(s, x)) : x.qpc <= u /\ u <= x.qpc
        BY <2>5, <3>2
      <3> QED BY <2>1, <3>3
    <2>7. CASE s # << >>
      <3>1. PICK t \in Times(s) : \A u \in Times(s) : t <= u
        BY <1>2, <2>7
      <3>2. PICK w \in Times(s) : \A u \in Times(s) : u <= w
        BY <1>2, <2>7
      <3>3. Low(Append(s, x))
        <4>1. CASE t <= x.qpc
          BY <2>3, <2>5, <3>1, <4>1
        <4>2. CASE x.qpc < t
          BY <2>3, <2>5, <3>1, <4>2
        <4> QED BY <2>5, <4>1, <4>2
      <3>4. High(Append(s, x))
        <4>1. CASE x.qpc <= w
          BY <2>3, <2>5, <3>2, <4>1
        <4>2. CASE w < x.qpc
          BY <2>3, <2>5, <3>2, <4>2
        <4> QED BY <2>5, <4>1, <4>2
      <3> QED BY <2>1, <3>3, <3>4
    <2> QED BY <2>6, <2>7
  <1> HIDE DEF P, Low, High
  <1>3. Seq(X) \subseteq P
    BY <1>1, <1>2, SeqInduction
  <1>4. rows \in Seq(X)
    BY DEF IsSeq
  <1>5. Low(rows) /\ High(rows)
    BY <1>3, <1>4 DEF P
  <1>6. Times(rows) = {y.qpc : y \in Range(rows)}
    BY DEF Times, Range
  <1>7. /\ Least(Times(rows)) \in Times(rows) /\ \A u \in Times(rows) : Least(Times(rows)) <= u
        /\ Greatest(Times(rows)) \in Times(rows) /\ \A u \in Times(rows) : u <= Greatest(Times(rows))
    BY <1>5 DEF Low, High, Least, Greatest
  <1> QED BY <1>6, <1>7

\* Another part file, with or without its entry in the list, keeps the numbering.
LEMMA NumberingMore ==
  ASSUME NEW listed, NEW files, NEW next \in Nat, NEW rows, Numbering(listed, files, next),
         IsSeq(listed), IsSeq(rows), rows # << >>, \A row \in Range(rows) : row.qpc \in Nat
  PROVE  /\ Numbering(listed, files, next + 1)
         /\ Numbering(Append(listed, PartOf(next, rows)),
                      files \union {[index |-> next, rows |-> rows]}, next + 1)
  <1> DEFINE part == PartOf(next, rows)
             file == [index |-> next, rows |-> rows]
             more == Append(listed, part)
  <1>1. /\ part.index = next /\ part.min \in Nat /\ part.max \in Nat
        /\ \A row \in Range(rows) : part.min <= row.qpc /\ row.qpc <= part.max
    BY NaturalsHaveBounds DEF PartOf
  <1>2. file.index = next /\ file.rows = rows
    OBVIOUS
  <1> HIDE DEF part, file
  <1>3. /\ DOMAIN more = 1 .. Len(listed) + 1 /\ DOMAIN listed = 1 .. Len(listed) /\ Len(listed) \in Nat
        /\ \A i \in DOMAIN listed : more[i] = listed[i]
        /\ more[Len(listed) + 1] = part
    BY AppendFacts, SeqFacts
  <1> HIDE DEF more
  <1>4. \A i \in DOMAIN more : i \in DOMAIN listed \/ more[i] = part
    BY <1>3
  <1>0. /\ \A i \in DOMAIN listed : listed[i].index \in Nat /\ listed[i].index < next
        /\ \A f \in files : f.index \in Nat /\ f.index < next /\ IsSeq(f.rows)
    BY DEF Numbering
  <1>5. (\A i \in DOMAIN listed : listed[i].index # next) /\ \A f \in files : f.index # next
    BY <1>0
  <1>6. \A i \in DOMAIN listed : listed[i].index \in Nat /\ listed[i].index < next + 1
    <2> SUFFICES ASSUME NEW i \in DOMAIN listed PROVE listed[i].index \in Nat /\ listed[i].index < next + 1
      OBVIOUS
    <2>1. listed[i].index \in Nat /\ listed[i].index < next
      BY <1>0
    <2> QED BY <2>1
  <1>7. Numbering(listed, files, next + 1)
    BY <1>6, <1>0 DEF Numbering
  <1>8. Numbering(more, files \union {file}, next + 1)
    <2>1. \A i \in DOMAIN more : more[i].index \in Nat /\ more[i].index < next + 1
      <3> SUFFICES ASSUME NEW i \in DOMAIN more PROVE more[i].index \in Nat /\ more[i].index < next + 1
        OBVIOUS
      <3>1. CASE i \in DOMAIN listed
        BY <1>3, <1>6, <3>1
      <3>2. CASE more[i] = part
        BY <1>1, <3>2
      <3> QED BY <1>4, <3>1, <3>2
    <2>2. \A i, j \in DOMAIN more : more[i].index = more[j].index => i = j
      <3> SUFFICES ASSUME NEW i \in DOMAIN more, NEW j \in DOMAIN more, more[i].index = more[j].index
                   PROVE  i = j
        OBVIOUS
      <3>1. CASE i \in DOMAIN listed /\ j \in DOMAIN listed
        BY <1>3, <3>1 DEF Numbering
      <3>2. CASE i \notin DOMAIN listed /\ j \notin DOMAIN listed
        BY <1>3, <3>2
      <3>3. CASE i \in DOMAIN listed /\ j \notin DOMAIN listed
        BY <1>1, <1>3, <1>4, <1>5, <3>3
      <3>4. CASE i \notin DOMAIN listed /\ j \in DOMAIN listed
        BY <1>1, <1>3, <1>4, <1>5, <3>4
      <3> QED BY <3>1, <3>2, <3>3, <3>4
    <2>3. \A f \in files \union {file} : f.index \in Nat /\ f.index < next + 1 /\ IsSeq(f.rows)
      BY <1>0, <1>2
    <2>4. \A f, g \in files \union {file} : f.index = g.index => f = g
      BY <1>2, <1>5 DEF Numbering
    <2>5. ASSUME NEW i \in DOMAIN more, NEW f \in files \union {file}, f.index = more[i].index
          PROVE  /\ more[i].min \in Nat /\ more[i].max \in Nat
                 /\ \A row \in Range(f.rows) : more[i].min <= row.qpc /\ row.qpc <= more[i].max
      <3>1. CASE i \in DOMAIN listed
        <4>1. f \in files
          BY <1>2, <1>3, <1>5, <2>5, <3>1
        <4> QED BY <1>3, <2>5, <3>1, <4>1 DEF Numbering
      <3>2. CASE more[i] = part
        <4>1. f = file
          BY <1>1, <1>5, <2>5, <3>2
        <4> QED BY <1>1, <1>2, <3>2, <4>1
      <3> QED BY <1>4, <3>1, <3>2
    <2> QED BY <2>1, <2>2, <2>3, <2>4, <2>5 DEF Numbering
  <1> QED BY <1>7, <1>8 DEF more, part, file

\* What a flush does to the numbering of files and to what is stored.
LEMMA FlushNumbering ==
  ASSUME Shape, NEW c \in Classes, NEW rows, IsSeq(rows), NEW works \in BOOLEAN,
         Flush(c, rows, works), UNCHANGED final, final = NoDir,
         \A row \in Range(rows) : row.qpc \in Nat,
         \A d \in Classes : Numbering(parts[d], FilesOf(d), nextPart[d]),
         NEW d \in Classes
  PROVE  Numbering(parts[d], FilesOf(d), nextPart[d])'
  <1>0. FilesOf(d) = staging.files[d] /\ FilesOf(d)' = staging'.files[d]
    BY DEF FilesOf, NoDir, NewDir
  <1> DEFINE NumberingNext == Numbering(parts'[d], staging'.files[d], nextPart'[d])
  <1>a. Numbering(parts[d], FilesOf(d), nextPart[d])' <=> NumberingNext
    BY <1>0 DEF Numbering, IsSeq
  <1>b. Numbering(parts[d], staging.files[d], nextPart[d])
    BY <1>0
  <1> HIDE DEF NumberingNext
  <1> SUFFICES NumberingNext
    BY <1>a
  <1> USE DEF NumberingNext
  <1>1. CASE rows = << >>
    BY <1>1, <1>b DEF Flush
  <1>2. CASE rows # << >>
    <2>1. nextPart'[d] = IF d = c THEN nextPart[d] + 1 ELSE nextPart[d]
      BY <1>2 DEF Flush, Shape
    <2>2. /\ d # c => parts'[d] = parts[d] /\ staging'.files[d] = staging.files[d]
          /\ IF rows = << >> \/ ~works
               THEN parts' = parts /\ staging' = staging
               ELSE /\ parts'[c] = Append(parts[c], PartOf(nextPart[c], rows))
                    /\ staging'.files[c] =
                         staging.files[c] \union {[index |-> nextPart[c], rows |-> rows]}
      BY FlushShape
    <2>3. CASE d # c
      BY <1>b, <2>1, <2>2, <2>3
    <2>4. CASE d = c
      <3>1. nextPart[c] \in Nat /\ IsSeq(parts[c])
        BY DEF Shape
      <3>2. /\ Numbering(parts[c], staging.files[c], nextPart[c] + 1)
            /\ Numbering(Append(parts[c], PartOf(nextPart[c], rows)),
                         staging.files[c] \union {[index |-> nextPart[c], rows |-> rows]}, nextPart[c] + 1)
        BY <1>2, <1>b, <2>4, <3>1, NumberingMore
      <3> QED BY <1>2, <2>1, <2>2, <2>4, <3>2
    <2> QED BY <2>3, <2>4
  <1> QED BY <1>1, <1>2

\* A flush stores no row that was not in the buffer or the store before.
LEMMA FlushStored ==
  ASSUME Shape, NEW c \in Classes, NEW rows, IsSeq(rows), NEW works \in BOOLEAN,
         Flush(c, rows, works), UNCHANGED final, NEW d \in Classes
  PROVE  Stored(d)' \subseteq Stored(d) \union (IF d = c THEN Range(rows) ELSE {})
  <1> DEFINE file == [index |-> nextPart[c], rows |-> rows]
  <1>1. /\ rows # << >> => buffer'[c] = << >>
        /\ \A e \in Classes \ {c} : buffer'[e] = buffer[e] /\ staging'.files[e] = staging.files[e]
        /\ staging'.files[c] \subseteq staging.files[c] \union {[index |-> nextPart[c], rows |-> rows]}
    <2>1. /\ rows # << >> => buffer'[c] = << >>
          /\ \A e \in Classes \ {c} : buffer'[e] = buffer[e] /\ parts'[e] = parts[e] /\ staging'.files[e] = staging.files[e]
          /\ IF rows = << >> \/ ~works
               THEN parts' = parts /\ staging' = staging
               ELSE /\ parts'[c] = Append(parts[c], PartOf(nextPart[c], rows))
                    /\ staging'.files[c] =
                         staging.files[c] \union {[index |-> nextPart[c], rows |-> rows]}
      BY FlushShape
    <2> QED BY <2>1
  <1>2. file.rows = rows /\ staging'.files[c] \subseteq staging.files[c] \union {file}
    BY <1>1
  <1>3. rows = << >> => buffer'[c] = buffer[c]
    BY DEF Flush
  <1> HIDE DEF file
  <1>4. CASE d = c
    BY <1>1, <1>2, <1>3, <1>4, EmptyIsSeq DEF Stored, FilesOf
  <1>5. CASE d # c
    BY <1>1, <1>5 DEF Stored, FilesOf
  <1> QED BY <1>4, <1>5

\* A row that is written is stored as it was decoded.
LEMMA RowLocated ==
  ASSUME Shape, Located, NEW c \in Classes, NEW row, NEW works \in BOOLEAN, AppendRow(c, row, works),
         UNCHANGED final, final = NoDir,
         \A d \in Classes : Entries(d) \subseteq Entries(d)',
         \E a \in Entries(c)' : SameEvent(row, a.row),
         \A d \in Classes : \A a \in Entries(d)' : a.row.qpc \in Nat
  PROVE  Located'
  <1> DEFINE rows == Append(buffer[c], row)
  <1>0. IsSeq(rows) /\ rows # << >> /\ Range(rows) = Range(buffer[c]) \union {row}
    BY AppendRowCases, AppendFacts DEF Shape
  <1>1. \A d \in Classes : \A r \in Stored(d) : \E a \in Entries(d)' : SameEvent(r, a.row)
    BY DEF Located, OfEvents
  <1>2. Range(buffer[c]) \subseteq Stored(c)
    BY DEF Stored
  <1> HIDE DEF rows
  <1>3. \A r \in Range(rows) : \E a \in Entries(c)' : SameEvent(r, a.row)
    BY <1>0, <1>1, <1>2
  <1>4. \A r \in Range(rows) : r.qpc \in Nat
    BY <1>3 DEF SameEvent
  <1>5. \A d \in Classes : Numbering(parts[d], FilesOf(d), nextPart[d])
    BY DEF Located
  <1>6. ASSUME NEW d \in Classes
        PROVE  /\ Stored(d)' \subseteq Stored(d) \union (IF d = c THEN Range(rows) ELSE {})
               /\ Numbering(parts[d], FilesOf(d), nextPart[d])'
    <2>1. CASE Flush(c, rows, works)
      BY <1>0, <1>4, <1>5, <2>1, FlushStored, FlushNumbering
    <2>2. CASE buffer' = [buffer EXCEPT ![c] = rows] /\ UNCHANGED <<parts, nextPart, staging>>
      <3>1. FilesOf(d)' = FilesOf(d) /\ buffer'[d] = IF d = c THEN rows ELSE buffer[d]
        BY <2>2 DEF FilesOf, Shape
      <3>2. Numbering(parts[d], FilesOf(d), nextPart[d])'
        BY <1>5, <2>2, <3>1 DEF Numbering, IsSeq
      <3>3. Stored(d)' \subseteq Stored(d) \union (IF d = c THEN Range(rows) ELSE {})
        BY <3>1 DEF Stored
      <3> QED BY <3>2, <3>3
    <2> QED BY <2>1, <2>2, AppendRowCases DEF rows
  <1>7. ASSUME NEW d \in Classes PROVE OfEvents(Stored(d), d)'
    <2>1. \A r \in Stored(d)' : \E a \in Entries(d)' : SameEvent(r, a.row)
      BY <1>1, <1>3, <1>6
    <2> QED BY <2>1 DEF OfEvents, SameEvent
  <1> QED BY <1>6, <1>7 DEF Located

-----------------------------------------------------------------------------
(* The steps, by what they write *)

\* An event that is decoded and asked for.
Accepts(e) == accepted' = Append(accepted, [class |-> e.class, row |-> Row(e)]) /\ phase = "reading" /\ phase' = phase

\* What was accepted only grows, by one event at a time.
LEMMA AcceptedSteps ==
  ASSUME [Next]_vars
  PROVE  accepted' = accepted \/ \E e \in Inputs : Accepts(e)
  <1>1. ASSUME NEW e \in Inputs, OnStackable(e) \/ OnPlain(e) PROVE Accepts(e)
    BY <1>1 DEF OnStackable, OnPlain, Accepts, Delivered
  <1>2. ASSUME NEW e \in Inputs, OnStackWalk(e) \/ OnHeader(e) \/ OnOther(e) PROVE accepted' = accepted
    BY <1>2 DEF OnStackWalk, OnHeader, OnOther
  <1>3. CASE \/ EndOfTrace \/ Drain \/ CloseWriter \/ CommitManifest \/ CommitPromote \/ Killed
             \/ (\E size \in BatchSizes : StartJoin(size)) \/ TakeReady \/ TakeSwitch \/ EndJoin
             \/ UNCHANGED vars
    BY <1>3 DEF EndOfTrace, Drain, CloseWriter, CommitManifest, CommitPromote, Killed, StartJoin,
                TakeReady, TakeSwitch, EndJoin, vars, extractVars
  <1> QED BY <1>1, <1>2, <1>3 DEF Next

\* The entries of a class after one more event.
LEMMA EntriesAppended ==
  ASSUME Numbered, NEW e, accepted' = Append(accepted, [class |-> e.class, row |-> Row(e)]), NEW c
  PROVE  Entries(c)' = Entries(c) \union (IF e.class = c THEN {[class |-> e.class, row |-> Row(e)]} ELSE {})
  <1>1. Range(accepted') = Range(accepted) \union {[class |-> e.class, row |-> Row(e)]}
    BY AppendFacts DEF Numbered
  <1> QED BY <1>1 DEF Entries

\* No entry is forgotten.
LEMMA EntriesKept ==
  ASSUME Numbered, [Next]_vars, NEW c
  PROVE  Entries(c) \subseteq Entries(c)'
  <1>1. CASE accepted' = accepted
    BY <1>1 DEF Entries
  <1>2. ASSUME NEW e \in Inputs, Accepts(e) PROVE Entries(c) \subseteq Entries(c)'
    BY <1>2, EntriesAppended DEF Accepts
  <1> QED BY <1>1, <1>2, AcceptedSteps

\* A row of an entry goes to the writer of its class.
Writes(c, row, works) ==
  /\ Store(c, row, works) /\ UNCHANGED final /\ phase \in {"reading", "draining"}
  /\ \E a \in Entries(c)' : SameEvent(row, a.row)

\* What waits for a stack is an entry.
LEMMA WaitingEntry ==
  ASSUME Numbered, NEW i \in DOMAIN pending
  PROVE  pending[i].class \in Classes /\ pending[i] \in Entries(pending[i].class)
  BY ExtractAssumption DEF Numbered, Entries, Range

\* The steps that change what is stored.
LEMMA WriteSteps ==
  ASSUME Numbered, [Next]_vars
  PROVE  \/ UNCHANGED <<storeVars, minQpc>>
         \/ \E c \in Classes, works \in BOOLEAN : \E row : Writes(c, row, works)
         \/ CloseWriter \/ CommitManifest \/ CommitPromote
  <1> DEFINE Quiet == UNCHANGED <<storeVars, minQpc>>
             Written1 == \E c \in Classes, works \in BOOLEAN : \E row : Writes(c, row, works)
  <1>0. StoreNothing /\ UNCHANGED final => Quiet
    BY DEF StoreNothing, storeVars
  <1>1. ASSUME NEW i \in DOMAIN pending, NEW row, NEW works \in BOOLEAN,
               Store(pending[i].class, row, works), UNCHANGED final, phase \in {"reading", "draining"},
               SameEvent(row, pending[i].row)
        PROVE  Written1
    <2>0. PICK k \in Classes : k = pending[i].class
      BY WaitingEntry
    <2>1. pending[i] \in Entries(k) /\ Store(k, row, works)
      BY <1>1, <2>0, WaitingEntry
    <2>2. Entries(k) \subseteq Entries(k)'
      BY EntriesKept
    <2>3. Writes(k, row, works)
      BY <1>1, <2>1, <2>2 DEF Writes
    <2> QED BY <2>3
  <1>2. ASSUME NEW e \in Inputs, OnStackWalk(e) PROVE Quiet \/ Written1
    <2>1. UNCHANGED final /\ phase = "reading"
      BY <1>2 DEF OnStackWalk, Delivered
    <2>2. CASE StoreNothing
      BY <1>0, <2>1, <2>2
    <2>3. CASE ~StoreNothing
      <3>1. PICK at \in Match(pending, e), works \in BOOLEAN :
              Store(pending[at].class, [pending[at].row EXCEPT !.stack = e.tid], works)
        BY <1>2, <2>3 DEF OnStackWalk
      <3>2. at \in DOMAIN pending
        BY MatchFacts
      <3> DEFINE row == [pending[at].row EXCEPT !.stack = e.tid]
      <3>3. SameEvent(row, pending[at].row)
        BY <3>2 DEF SameEvent, Numbered
      <3> HIDE DEF row
      <3>4. Store(pending[at].class, row, works)
        BY <3>1 DEF row
      <3> QED BY <1>1, <2>1, <3>2, <3>3, <3>4
    <2> QED BY <2>2, <2>3
  <1>3. ASSUME NEW e \in Inputs, OnHeader(e) \/ OnOther(e) PROVE Quiet
    BY <1>0, <1>3 DEF OnHeader, OnOther
  <1>4. ASSUME NEW e \in Inputs, OnStackable(e) PROVE Quiet \/ Written1
    <2>1. UNCHANGED final /\ phase = "reading"
      BY <1>4 DEF OnStackable, Delivered
    <2>2. CASE StoreNothing
      BY <1>0, <2>1, <2>2
    <2>3. CASE ~StoreNothing
      <3>1. PICK out \in DOMAIN pending, works \in BOOLEAN :
              Store(pending[out].class, pending[out].row, works)
        BY <1>4, <2>3, StackableOut
      <3>2. SameEvent(pending[out].row, pending[out].row)
        BY DEF SameEvent
      <3> QED BY <1>1, <2>1, <3>1, <3>2
    <2> QED BY <2>2, <2>3
  <1>5. ASSUME NEW e \in Inputs, OnPlain(e) PROVE Written1
    <2>1. PICK works \in BOOLEAN : Store(e.class, Row(e), works)
      BY <1>5 DEF OnPlain
    <2>2. UNCHANGED final /\ phase = "reading" /\ e.class \in Classes
          /\ accepted' = Append(accepted, [class |-> e.class, row |-> Row(e)])
      BY <1>5 DEF OnPlain, Delivered
    <2> DEFINE entry == [class |-> e.class, row |-> Row(e)]
    <2> PICK k \in Classes : k = e.class
      BY <2>2
    <2> PICK row : row = Row(e)
      OBVIOUS
    <2>3. entry \in Entries(k)' /\ SameEvent(row, entry.row)
      BY <2>2, EntriesAppended DEF SameEvent
    <2>4. Writes(k, row, works)
      BY <2>1, <2>2, <2>3 DEF Writes
    <2> QED BY <2>4
  <1>6. CASE Drain
    <2>1. UNCHANGED final /\ phase = "draining"
      BY <1>6 DEF Drain
    <2>2. CASE pending # << >>
      <3>1. PICK works \in BOOLEAN : Store(pending[1].class, pending[1].row, works)
        BY <1>6, <2>2 DEF Drain
      <3>2. 1 \in DOMAIN pending /\ SameEvent(pending[1].row, pending[1].row)
        BY <2>2, TailIsRemoveAt DEF Numbered, SameEvent
      <3> QED BY <1>1, <2>1, <3>1, <3>2
    <2>3. CASE pending = << >>
      BY <1>0, <1>6, <2>1, <2>3 DEF Drain
    <2> QED BY <2>2, <2>3
  <1>7. CASE EndOfTrace \/ Killed \/ TakeReady \/ TakeSwitch \/ EndJoin
              \/ (\E size \in BatchSizes : StartJoin(size)) \/ UNCHANGED vars
    BY <1>7 DEF EndOfTrace, Killed, TakeReady, TakeSwitch, EndJoin, StartJoin, vars, extractVars
  <1> QED BY <1>2, <1>3, <1>4, <1>5, <1>6, <1>7 DEF Next

-----------------------------------------------------------------------------
(* What was decoded *)

\* Decoded at the start.
LEMMA DecodedInit == Init => Decoded
  BY EmptyIsSeq DEF Init, Decoded

\* Decoded is inductive, on top of Numbered.
LEMMA DecodedStep ==
  ASSUME Numbered, Decoded, [Next]_vars
  PROVE  Decoded'
  <1>1. /\ \A i, j \in DOMAIN accepted' : accepted'[i].row.seq = accepted'[j].row.seq => i = j
        /\ \A i \in DOMAIN accepted' : accepted'[i].row.qpc \in Nat /\ accepted'[i].row.stack = None
    <2>1. CASE accepted' = accepted
      BY <2>1 DEF Decoded
    <2>2. ASSUME NEW e \in Inputs, Accepts(e)
          PROVE  /\ \A i, j \in DOMAIN accepted' : accepted'[i].row.seq = accepted'[j].row.seq => i = j
                 /\ \A i \in DOMAIN accepted' : accepted'[i].row.qpc \in Nat /\ accepted'[i].row.stack = None
      <3> DEFINE entry == [class |-> e.class, row |-> Row(e)]
                 n == Len(accepted)
      <3>1. /\ n \in Nat /\ DOMAIN accepted = 1 .. n /\ DOMAIN accepted' = 1 .. n + 1
            /\ \A i \in DOMAIN accepted : accepted'[i] = accepted[i]
            /\ accepted'[n + 1] = entry
        BY <2>2, AppendFacts, SeqFacts DEF Numbered, Accepts
      <3>2. entry.row.seq = count + 1 /\ entry.row.qpc \in Nat /\ entry.row.stack = None
        BY EntryFacts, ExtractAssumption
      <3>3. \A i \in DOMAIN accepted : accepted[i].row.seq # count + 1
        BY DEF Numbered
      <3> HIDE DEF entry, n
      <3>4. \A i \in DOMAIN accepted' : i \in DOMAIN accepted \/ i = n + 1
        BY <3>1
      <3> QED BY <3>1, <3>2, <3>3, <3>4 DEF Decoded
    <2> QED BY <2>1, <2>2, AcceptedSteps
  <1>2. headerQpc' \in Nat \union {None}
    <2>1. ASSUME NEW e \in Inputs, OnHeader(e) PROVE headerQpc' \in Nat \union {None}
      BY <2>1, ExtractAssumption DEF OnHeader, Earlier, Decoded
    <2>2. ASSUME NEW e \in Inputs, OnStackWalk(e) \/ OnStackable(e) \/ OnOther(e) \/ OnPlain(e)
          PROVE  headerQpc' = headerQpc
      BY <2>2 DEF OnStackWalk, OnStackable, OnOther, OnPlain
    <2>3. CASE \/ EndOfTrace \/ Drain \/ CloseWriter \/ CommitManifest \/ CommitPromote \/ Killed
               \/ (\E size \in BatchSizes : StartJoin(size)) \/ TakeReady \/ TakeSwitch \/ EndJoin
               \/ UNCHANGED vars
      BY <2>3 DEF EndOfTrace, Drain, CloseWriter, CommitManifest, CommitPromote, Killed, StartJoin,
                  TakeReady, TakeSwitch, EndJoin, vars, extractVars, Decoded
    <2> QED BY <2>1, <2>2, <2>3 DEF Next, Decoded
  <1>3. minQpc' \in Nat \union {None}
    <2>1. CASE UNCHANGED <<storeVars, minQpc>> \/ CloseWriter \/ CommitManifest \/ CommitPromote
      BY <2>1 DEF CloseWriter, CommitManifest, CommitPromote, Decoded
    <2>2. ASSUME NEW c \in Classes, NEW row, NEW works \in BOOLEAN, Writes(c, row, works)
          PROVE  minQpc' \in Nat \union {None}
      <3>1. minQpc' = Earlier(minQpc, row.qpc)
        BY <2>2 DEF Writes, Store
      <3>2. PICK a \in Entries(c)' : SameEvent(row, a.row)
        BY <2>2 DEF Writes
      <3>3. PICK i \in DOMAIN accepted' : a = accepted'[i]
        BY DEF Entries, Range
      <3>4. row.qpc \in Nat
        BY <1>1, <3>2, <3>3 DEF SameEvent
      <3> QED BY <3>1, <3>4 DEF Earlier, Decoded
    <2> QED BY <2>1, <2>2, WriteSteps
  <1>4. phase' \in {"closing", "manifest", "committed", "joining", "joined"} => pending' = << >>
    <2>1. ASSUME NEW e \in Inputs,
                 OnStackWalk(e) \/ OnHeader(e) \/ OnStackable(e) \/ OnOther(e) \/ OnPlain(e)
          PROVE  phase' = "reading"
      BY <2>1 DEF OnStackWalk, OnHeader, OnStackable, OnOther, OnPlain, Delivered
    <2>2. CASE Drain
      BY <2>2 DEF Drain
    <2>3. CASE EndOfTrace \/ Killed
      BY <2>3 DEF EndOfTrace, Killed
    <2>4. CASE CloseWriter \/ CommitManifest \/ CommitPromote
      BY <2>4 DEF CloseWriter, CommitManifest, CommitPromote, Decoded
    <2>5. CASE (\E size \in BatchSizes : StartJoin(size)) \/ TakeReady \/ TakeSwitch \/ EndJoin \/ UNCHANGED vars
      BY <2>5 DEF StartJoin, TakeReady, TakeSwitch, EndJoin, vars, extractVars, Decoded
    <2> QED BY <2>1, <2>2, <2>3, <2>4, <2>5 DEF Next
  <1> QED BY <1>1, <1>2, <1>3, <1>4 DEF Decoded

\* The time of an entry is a number.
LEMMA EntriesTimed ==
  ASSUME Decoded
  PROVE  \A d \in Classes : \A a \in Entries(d) : a.row.qpc \in Nat
  BY DEF Decoded, Entries, Range

-----------------------------------------------------------------------------
(* Located and manifested *)

\* Located and Manifested at the start.
LEMMA LocatedInit == Init => Located /\ Manifested
  <1> SUFFICES ASSUME Init PROVE Located /\ Manifested
    OBVIOUS
  <1>1. ASSUME NEW c \in Classes PROVE Stored(c) = {} /\ FilesOf(c) = {} /\ DOMAIN parts[c] = {}
    <2>1. buffer[c] = << >> /\ parts[c] = << >> /\ FilesOf(c) = {}
      BY DEF Init, StoreInit, NewDir, NoDir, FilesOf
    <2> QED BY <2>1, EmptyIsSeq DEF Stored
  <1>2. Located
    BY <1>1 DEF Located, OfEvents, Numbering
  <1>3. ~staging.sealed /\ ~final.exists
    BY DEF Init, StoreInit, NewDir, NoDir
  <1> QED BY <1>2, <1>3 DEF Manifested

\* A step that stores nothing new keeps Located.
LEMMA LocatedSame ==
  ASSUME Located,
         \A c \in Classes : Stored(c)' \subseteq Stored(c) /\ FilesOf(c)' = FilesOf(c) /\ Entries(c) \subseteq Entries(c)',
         UNCHANGED <<parts, nextPart>>
  PROVE  Located'
  <1> SUFFICES ASSUME NEW c \in Classes
               PROVE  OfEvents(Stored(c), c)' /\ Numbering(parts[c], FilesOf(c), nextPart[c])'
    BY DEF Located
  <1>1. OfEvents(Stored(c), c)'
    BY DEF Located, OfEvents, SameEvent
  <1>2. Numbering(parts[c], FilesOf(c), nextPart[c])'
    BY DEF Located, Numbering, IsSeq
  <1> QED BY <1>1, <1>2

\* Located is inductive.
LEMMA LocatedStep ==
  ASSUME Numbered, Visible, Decoded, Located, [Next]_vars
  PROVE  Located'
  <1>0. Shape /\ \A c \in Classes : Entries(c) \subseteq Entries(c)'
    BY EntriesKept DEF Visible
  <1>1. CASE UNCHANGED <<storeVars, minQpc>>
    <2>1. \A c \in Classes : Stored(c)' = Stored(c) /\ FilesOf(c)' = FilesOf(c)
      BY <1>1 DEF storeVars, Stored, FilesOf
    <2> QED BY <1>0, <1>1, <2>1, LocatedSame DEF storeVars
  <1>2. ASSUME NEW c \in Classes, NEW row, NEW works \in BOOLEAN, Writes(c, row, works) PROVE Located'
    <2>1. AppendRow(c, row, works) /\ UNCHANGED final /\ \E a \in Entries(c)' : SameEvent(row, a.row)
      BY <1>2 DEF Writes, Store
    <2>2. final = NoDir
      BY <1>2 DEF Writes, Visible, Generation
    <2>3. \A d \in Classes : \A a \in Entries(d)' : a.row.qpc \in Nat
      <3>1. Decoded'
        BY DecodedStep
      <3> QED BY <3>1 DEF Decoded, Entries, Range
    <2> QED BY <1>0, <2>1, <2>2, <2>3, RowLocated
  <1>3. CASE CloseWriter
    <2>1. PICK c \in Classes, works \in BOOLEAN : Flush(c, buffer[c], works)
      BY <1>3 DEF CloseWriter
    <2>2. final' = final /\ final = NoDir
      BY <1>3 DEF CloseWriter, Visible, Generation
    <2> DEFINE rows == buffer[c]
    <2>3. IsSeq(rows) /\ Range(rows) \subseteq Stored(c) /\ Flush(c, rows, works)
      BY <1>0, <2>1 DEF Shape, Stored
    <2> HIDE DEF rows
    <2>4. \A row \in Range(rows) : row.qpc \in Nat
      BY <2>3, EntriesTimed DEF Located, OfEvents, SameEvent
    <2>5. ASSUME NEW d \in Classes
          PROVE  OfEvents(Stored(d), d)' /\ Numbering(parts[d], FilesOf(d), nextPart[d])'
      <3>1. \A k \in Classes : Numbering(parts[k], FilesOf(k), nextPart[k])
        BY DEF Located
      <3>2. Numbering(parts[d], FilesOf(d), nextPart[d])'
        BY <1>0, <2>2, <2>3, <2>4, <3>1, FlushNumbering
      <3>3. Stored(d)' \subseteq Stored(d) \union (IF d = c THEN Range(rows) ELSE {})
        BY <1>0, <2>2, <2>3, FlushStored
      <3>4. OfEvents(Stored(d), d)'
        BY <1>0, <2>3, <3>3 DEF Located, OfEvents, SameEvent
      <3> QED BY <3>2, <3>4
    <2> QED BY <2>5 DEF Located
  <1>4. CASE CommitManifest
    <2>1. /\ UNCHANGED <<buffer, parts, nextPart, final>>
          /\ staging' = [staging EXCEPT !.sealed = TRUE, !.manifest = Manifest(Origin)]
      BY <1>4 DEF CommitManifest, WriteManifest
    <2>2. staging'.files = staging.files
      BY <1>0, <2>1 DEF Shape, IsDir
    <2>3. \A c \in Classes : Stored(c)' = Stored(c) /\ FilesOf(c)' = FilesOf(c)
      BY <2>1, <2>2 DEF Stored, FilesOf
    <2> QED BY <1>0, <2>1, <2>3, LocatedSame
  <1>5. CASE CommitPromote
    <2>1. /\ UNCHANGED <<buffer, parts, nextPart>> /\ final' = staging /\ staging' = NoDir /\ ~final.exists
      BY <1>5 DEF CommitPromote, Promote
    <2>2. final = NoDir
      BY <2>1 DEF Visible, Generation
    <2>3. \A c \in Classes : FilesOf(c)' = FilesOf(c)
      BY <2>1, <2>2 DEF FilesOf
    <2>4. \A c \in Classes : Stored(c)' = Stored(c)
      BY <2>1, <2>3 DEF Stored
    <2> QED BY <1>0, <2>1, <2>3, <2>4, LocatedSame
  <1> QED BY <1>1, <1>2, <1>3, <1>4, <1>5, WriteSteps

\* Manifested is inductive.
LEMMA ManifestedStep ==
  ASSUME Numbered, Visible, Decoded, Manifested, [Next]_vars
  PROVE  Manifested'
  <1>1. CASE UNCHANGED <<storeVars, minQpc>>
    BY <1>1 DEF storeVars, Manifested, Manifest
  <1>2. ASSUME NEW c \in Classes, NEW row, NEW works \in BOOLEAN, Writes(c, row, works) PROVE Manifested'
    <2>1. Visible'
      BY VisibleStep
    <2>2. final' = NoDir /\ ~staging'.sealed
      <3>1. phase \in {"reading", "draining"} /\ Store(c, row, works) /\ final' = final
        BY <1>2 DEF Writes
      <3>2. staging'.sealed = staging.sealed /\ ~staging.sealed /\ final = NoDir
        BY <3>1, AppendRowShape DEF Store, Visible, Generation
      <3> QED BY <3>1, <3>2
    <2> QED BY <2>2 DEF Manifested, NoDir, NewDir
  <1>3. CASE CloseWriter
    <2>1. Visible' /\ phase' \in {"closing", "raised"}
      BY <1>3, VisibleStep DEF CloseWriter
    <2> QED BY <2>1 DEF Visible, Generation, Manifested, NoDir, NewDir
  <1>4. CASE CommitManifest
    <2>1. /\ UNCHANGED final /\ phase = "closing"
          /\ staging' = [staging EXCEPT !.sealed = TRUE, !.manifest = Manifest(Origin)]
      BY <1>4 DEF CommitManifest, WriteManifest
    <2>2. staging'.manifest = Manifest(Origin) /\ ~final.exists
      BY <2>1 DEF Visible, Shape, IsDir, Generation
    <2>3. Origin \in Nat
      BY DEF Origin, Decoded
    <2>4. staging'.manifest.origin = Origin
      BY <2>2 DEF Manifest
    <2> QED BY <2>1, <2>2, <2>3, <2>4 DEF Manifested
  <1>5. CASE CommitPromote
    <2>1. /\ UNCHANGED <<parts>> /\ final' = staging /\ staging' = NoDir /\ phase = "manifest"
      BY <1>5 DEF CommitPromote, Promote
    <2>2. staging.sealed /\ staging.manifest = Manifest(staging.manifest.origin)
      BY <2>1 DEF Visible, Generation
    <2>3. ~staging'.sealed
      BY <2>1 DEF NoDir, NewDir
    <2> QED BY <2>1, <2>2, <2>3 DEF Manifested, Manifest
  <1> QED BY <1>1, <1>2, <1>3, <1>4, <1>5, WriteSteps

\* The inductive invariant of the readers, on top of that of the writer.
ReaderInv == Decoded /\ Located /\ Manifested

\* What the readers of a generation rely on: every row is as it was decoded and
\* is found where the manifest says, between the times that it gives.
THEOREM StoreIsIndexed == Spec => []ReaderInv
  <1>1. Init => ReaderInv
    BY DecodedInit, LocatedInit DEF ReaderInv
  <1>2. WriterInv /\ ReaderInv /\ [Next]_vars => ReaderInv'
    BY DecodedStep, LocatedStep, ManifestedStep DEF WriterInv, ReaderInv
  <1> QED BY <1>1, <1>2, WriterIsSound, PTL DEF Spec

-----------------------------------------------------------------------------
(* Batches *)

\* CeilDiv rounds up.
LEMMA CeilIs ==
  ASSUME NEW a \in Int, NEW b \in Nat \ {0}, NEW q \in Int
  PROVE  CeilDiv(a, b) <= q <=> a <= q * b
  <1>1. -q <= (-a) \div b <=> (-q) * b <= -a
    BY FloorIs
  <1>2. (-a) \div b \in Int
    BY DivFacts
  <1>3. (-q) * b = -(q * b) /\ q * b \in Int
    BY Scaled
  <1> QED BY <1>1, <1>2, <1>3 DEF CeilDiv

\* CeilDiv gives a whole number.
LEMMA CeilInt ==
  ASSUME NEW a \in Int, NEW b \in Nat \ {0}
  PROVE  CeilDiv(a, b) \in Int
  <1>1. (-a) \div b \in Int
    BY DivFacts
  <1> QED BY <1>1 DEF CeilDiv

\* The chunks of a table, one after the other, are the table.
LEMMA FlattenChunks ==
  ASSUME NEW X, NEW rows \in Seq(X), NEW size \in Nat \ {0}
  PROVE  Chunks(rows, size) \in Seq(Seq(X)) /\ FlattenSeq(Chunks(rows, size)) = rows
  <1> DEFINE L == Len(rows)
             N == CeilDiv(L, size)
             End(n) == IF n * size < L THEN n * size ELSE L
             cut == Chunks(rows, size)
             First(n) == [k \in 1 .. n |-> cut[k]]
             S == {n \in Nat : n <= N => FlattenSeq(First(n)) = SubSeq(rows, 1, End(n))}
  <1>1. L \in Nat /\ N \in Int
    BY LenProperties, CeilInt
  <1>2. \A q \in Int : q < N <=> q * size < L
    <2> SUFFICES ASSUME NEW q \in Int PROVE q < N <=> q * size < L
      OBVIOUS
    <2>1. N <= q <=> L <= q * size
      BY <1>1, CeilIs
    <2>2. q * size \in Int
      BY Scaled
    <2> QED BY <1>1, <2>1, <2>2
  <1>3. N \in Nat
    <2>1. -1 < N <=> (-1) * size < L
      BY <1>2
    <2> QED BY <1>1, <2>1
  <1>4. ASSUME NEW n \in Nat, n < N
        PROVE  /\ End(n) = n * size /\ n * size \in Nat /\ n * size < L
               /\ End(n + 1) \in n * size .. L
               /\ cut[n + 1] = SubSeq(rows, n * size + 1, End(n + 1))
    <2>1. n * size < L /\ n * size \in Nat
      BY <1>2, <1>4
    <2>2. (n + 1) * size = n * size + size
      BY Scaled
    <2>3. n + 1 \in 1 .. N /\ (n + 1) - 1 = n
      BY <1>1, <1>4
    <2>4. cut[n + 1] = SubSeq(rows, ((n + 1) - 1) * size + 1, End(n + 1))
      BY <2>3 DEF Chunks
    <2> QED BY <1>1, <2>1, <2>2, <2>3, <2>4
  <1>5. cut = [k \in 1 .. N |-> cut[k]] /\ DOMAIN cut = 1 .. N
    BY DEF Chunks
  <1>6. \A k \in 1 .. N : cut[k] \in Seq(X)
    <2> SUFFICES ASSUME NEW k \in 1 .. N PROVE cut[k] \in Seq(X)
      OBVIOUS
    <2> DEFINE n == k - 1
    <2>1. n \in Nat /\ n < N /\ k = n + 1
      BY <1>1
    <2> HIDE DEF n
    <2>2. cut[k] = SubSeq(rows, n * size + 1, End(n + 1)) /\ n * size \in Nat /\ End(n + 1) \in n * size .. L
      BY <1>4, <2>1
    <2> HIDE DEF End, cut
    <2>3. n * size + 1 \in Int /\ End(n + 1) \in Int
      BY <1>1, <2>2
    <2>4. \A i \in n * size + 1 .. End(n + 1) : i \in 1 .. L
      BY <1>1, <2>2
    <2>5. SubSeq(rows, n * size + 1, End(n + 1)) \in Seq(X)
      BY <2>2, <2>3, <2>4, <1>1, SubSeqProperties
    <2> QED BY <2>2, <2>5
  <1>7. \A n \in Nat : n <= N => First(n) \in Seq(Seq(X))
    <2> SUFFICES ASSUME NEW n \in Nat, n <= N PROVE First(n) \in Seq(Seq(X))
      OBVIOUS
    <2>1. \A k \in 1 .. n : cut[k] \in Seq(X)
      BY <1>3, <1>6
    <2> HIDE DEF cut
    <2>2. First(n) \in [1 .. n -> Seq(X)]
      BY <2>1
    <2> QED BY <2>2, FunIsSeq
  <1>8. 0 \in S
    <2>1. First(0) = << >>
      BY EmptySeq, <1>3, <1>7
    <2>2. 0 * size = 0
      OBVIOUS
    <2>3. SubSeq(rows, 1, End(0)) = << >>
      <3>1. End(0) = 0
        BY <1>1, <2>2
      <3> QED BY <3>1, SubSeqProperties
    <2> QED BY <2>1, <2>3, FlattenEmpty
  <1>9. ASSUME NEW n \in Nat, n \in S PROVE n + 1 \in S
    <2> SUFFICES ASSUME n + 1 <= N PROVE FlattenSeq(First(n + 1)) = SubSeq(rows, 1, End(n + 1))
      OBVIOUS
    <2>0. n < N /\ n + 1 \in 1 .. N /\ n <= N
      BY <1>3
    <2>1. FlattenSeq(First(n)) = SubSeq(rows, 1, End(n))
      BY <1>9, <2>0
    <2>2. /\ End(n) = n * size /\ n * size \in Nat /\ n * size < L
          /\ End(n + 1) \in n * size .. L
          /\ cut[n + 1] = SubSeq(rows, n * size + 1, End(n + 1))
      BY <1>4, <2>0
    <2>3. First(n) \in Seq(Seq(X)) /\ cut[n + 1] \in Seq(X) /\ First(n + 1) \in Seq(Seq(X))
      BY <1>6, <1>7, <2>0
    <2>4. First(n + 1) = Append(First(n), cut[n + 1])
      <3> DEFINE a == First(n + 1)
                 b == Append(First(n), cut[n + 1])
      <3>1. Len(First(n)) = n /\ Len(a) = n + 1
        BY FunIsSeq, <1>6, <2>0
      <3>2. b \in Seq(Seq(X)) /\ Len(b) = n + 1 /\ b[n + 1] = cut[n + 1] /\ \A i \in 1 .. n : b[i] = First(n)[i]
        BY <2>3, <3>1, AppendProperties
      <3>3. \A i \in 1 .. n + 1 : a[i] = b[i]
        <4> SUFFICES ASSUME NEW i \in 1 .. n + 1 PROVE a[i] = b[i]
          OBVIOUS
        <4>1. a[i] = cut[i]
          OBVIOUS
        <4>2. CASE i = n + 1
          BY <4>1, <4>2, <3>2
        <4>3. CASE i # n + 1
          BY <4>1, <4>3, <3>2
        <4> QED BY <4>2, <4>3
      <3> HIDE DEF a, b
      <3>4. a \in Seq(Seq(X))
        BY <2>3 DEF a
      <3>5. a = b
        BY <3>1, <3>2, <3>3, <3>4, SeqEqual
      <3> QED BY <3>5 DEF a, b
    <2> HIDE DEF First, cut, End
    <2>5. FlattenSeq(First(n + 1)) = FlattenSeq(First(n)) \o cut[n + 1]
      BY <2>3, <2>4, FlattenAppend
    <2>6. SubSeq(rows, 1, n * size) \o SubSeq(rows, n * size + 1, End(n + 1)) = SubSeq(rows, 1, End(n + 1))
      <3>1. /\ 1 \in 1 .. Len(rows) + 1
            /\ n * size \in 1 - 1 .. Len(rows)
            /\ End(n + 1) \in n * size .. Len(rows)
        BY <1>1, <2>2
      <3> QED BY <3>1, ConcatAdjacentSubSeq
    <2> QED BY <2>1, <2>2, <2>5, <2>6
  <1> HIDE DEF S
  <1>10. FlattenSeq(First(N)) = SubSeq(rows, 1, End(N))
    <2>1. Nat \subseteq S
      BY <1>8, <1>9, SetInduction
    <2> QED BY <1>3, <2>1 DEF S
  <1>11. End(N) = L
    BY <1>1, <1>2
  <1>12. SubSeq(rows, 1, L) = rows
    BY SubSeqFull
  <1>13. First(N) = cut
    BY <1>5
  <1>14. First(N) \in Seq(Seq(X))
    BY <1>3, <1>7
  <1> HIDE DEF First, cut, End, N
  <1>15. cut \in Seq(Seq(X)) /\ FlattenSeq(cut) = rows
    BY <1>10, <1>11, <1>12, <1>13, <1>14
  <1> QED BY <1>15 DEF cut

-----------------------------------------------------------------------------
(* What a scan gives *)

-----------------------------------------------------------------------------
(* What a scan gives *)

\* A filter with bounds as scan takes them.
TypedFilter(f) == f.from \in Int \union {None} /\ f.to \in Int \union {None}

\* A filter in ticks is the filter in seconds.
LEMMA KeptIsAsked ==
  ASSUME NEW f, TypedFilter(f), NEW origin \in Nat, NEW row, row.qpc \in Nat
  PROVE  Kept(row, f.cpus, StartQpc(origin, f), EndQpc(origin, f)) <=> Asked(row, f, origin)
  <1>0. /\ None \notin Int /\ f.from \in Int \union {None} /\ f.to \in Int \union {None}
        /\ Freq \in Nat \ {0} /\ Den \in Nat \ {0}
    BY ExtractAssumption, StoreAssumption DEF TypedFilter
  <1>1. ASSUME NEW t \in Int
        PROVE  origin * Den \in Int /\ t * Freq \in Int /\ row.qpc * Den \in Int
               /\ (row.qpc - origin) * Den = row.qpc * Den - origin * Den
    BY <1>0
  <1>2. /\ f.from # None => StartQpc(origin, f) \in Int
        /\ f.from = None => StartQpc(origin, f) = None
        /\ f.from # None => (row.qpc >= StartQpc(origin, f) <=> (row.qpc - origin) * Den >= f.from * Freq)
    <2>1. CASE f.from = None
      BY <2>1 DEF StartQpc
    <2>2. CASE f.from # None
      <3> DEFINE a == origin * Den + f.from * Freq
      <3>0. f.from \in Int
        BY <1>0, <2>2
      <3>1. origin * Den \in Int /\ f.from * Freq \in Int /\ row.qpc * Den \in Int
            /\ (row.qpc - origin) * Den = row.qpc * Den - origin * Den
        BY <1>1, <3>0
      <3>2. a \in Int /\ (a <= row.qpc * Den <=> (row.qpc - origin) * Den >= f.from * Freq)
        BY <3>1
      <3>3. StartQpc(origin, f) = CeilDiv(a, Den)
        BY <2>2 DEF StartQpc
      <3> HIDE DEF a
      <3>4. CeilDiv(a, Den) \in Int /\ (CeilDiv(a, Den) <= row.qpc <=> a <= row.qpc * Den)
        BY <1>0, <3>2, CeilIs, CeilInt
      <3> QED BY <2>2, <3>2, <3>3, <3>4
    <2> QED BY <2>1, <2>2
  <1>3. /\ f.to # None => EndQpc(origin, f) \in Int
        /\ f.to = None => EndQpc(origin, f) = None
        /\ f.to # None => (row.qpc <= EndQpc(origin, f) <=> (row.qpc - origin) * Den <= f.to * Freq)
    <2>1. CASE f.to = None
      BY <2>1 DEF EndQpc
    <2>2. CASE f.to # None
      <3> DEFINE a == origin * Den + f.to * Freq
      <3>0. f.to \in Int
        BY <1>0, <2>2
      <3>1. origin * Den \in Int /\ f.to * Freq \in Int /\ row.qpc * Den \in Int
            /\ (row.qpc - origin) * Den = row.qpc * Den - origin * Den
        BY <1>1, <3>0
      <3>2. a \in Int /\ (row.qpc * Den <= a <=> (row.qpc - origin) * Den <= f.to * Freq)
        BY <3>1
      <3>3. EndQpc(origin, f) = a \div Den
        BY <2>2 DEF EndQpc
      <3> HIDE DEF a
      <3>4. a \div Den \in Int
        BY <1>0, <3>2, DivFacts
      <3>5. row.qpc \in Int
        OBVIOUS
      <3>6. row.qpc <= a \div Den <=> row.qpc * Den <= a
        BY <1>0, <3>2, <3>5, FloorIs
      <3> QED BY <2>2, <3>2, <3>3, <3>4, <3>6
    <2> QED BY <2>1, <2>2
  <1>4. /\ (StartQpc(origin, f) # None <=> f.from # None)
        /\ (EndQpc(origin, f) # None <=> f.to # None)
    BY <1>0, <1>2, <1>3
  <1> QED BY <1>2, <1>3, <1>4 DEF Kept, Asked

\* The bounds in ticks are numbers, where there are bounds.
LEMMA BoundsTyped ==
  ASSUME NEW f, TypedFilter(f), NEW origin \in Nat
  PROVE  StartQpc(origin, f) \in Int \union {None} /\ EndQpc(origin, f) \in Int \union {None}
  <1>0. /\ f.from \in Int \union {None} /\ f.to \in Int \union {None}
        /\ Freq \in Nat \ {0} /\ Den \in Nat \ {0}
    BY ExtractAssumption, StoreAssumption DEF TypedFilter
  <1>1. StartQpc(origin, f) \in Int \union {None}
    <2>1. CASE f.from # None
      <3>1. origin * Den + f.from * Freq \in Int
        BY <1>0, <2>1
      <3> QED BY <1>0, <2>1, <3>1, CeilInt DEF StartQpc
    <2> QED BY <2>1 DEF StartQpc
  <1>2. EndQpc(origin, f) \in Int \union {None}
    <2>1. CASE f.to # None
      <3>1. origin * Den + f.to * Freq \in Int
        BY <1>0, <2>1
      <3> QED BY <1>0, <2>1, <3>1, DivFacts DEF EndQpc
    <2> QED BY <2>1 DEF EndQpc
  <1> QED BY <1>1, <1>2

\* A part that is not read holds no row that is wanted.
LEMMA NotExcluded ==
  ASSUME NEW part, NEW row, NEW cpus, NEW start \in Int \union {None}, NEW end \in Int \union {None},
         part.min \in Nat, part.max \in Nat, row.qpc \in Nat,
         part.min <= row.qpc, row.qpc <= part.max, Kept(row, cpus, start, end)
  PROVE  ~Excluded(part, start, end)
  <1>0. None \notin Int
    BY ExtractAssumption
  <1>1. ~(start # None /\ part.max < start)
    BY <1>0 DEF Kept
  <1>2. ~(end # None /\ part.min > end)
    BY <1>0 DEF Kept
  <1> QED BY <1>1, <1>2 DEF Excluded

\* The files of a committed store, which a reader knows from the manifest.
LEMMA Committed ==
  ASSUME WriterInv, ReaderInv, phase \in {"committed", "joining", "joined"}, NEW c \in Classes
  PROVE  /\ final.manifest.parts[c] = parts[c] /\ final.manifest.origin \in Nat
         /\ IsSeq(parts[c])
         /\ Stored(c) = UNION {Range(f.rows) : f \in final.files[c]}
         /\ Numbering(parts[c], final.files[c], nextPart[c])
         /\ OfEvents(Stored(c), c)
         /\ \A f \in final.files[c] : Distinct(f.rows)
         /\ \A f, g \in final.files[c] : f # g => Seqs(f.rows) \intersect Seqs(g.rows) = {}
         /\ {a.row.seq : a \in Entries(c)} = UNION {Seqs(f.rows) : f \in final.files[c]}
         /\ \A i \in DOMAIN parts[c] : \E f \in final.files[c] : f.index = parts[c][i].index
         /\ \A f \in final.files[c] : \E i \in DOMAIN parts[c] : f.index = parts[c][i].index
  <1>1. final.exists /\ staging = NoDir /\ ~failed /\ Valid(final)
    BY DEF WriterInv, Visible, Generation, VisibleIsValid
  <1>2. final.manifest = Manifest(final.manifest.origin) /\ final.manifest.origin \in Nat
    BY <1>1 DEF ReaderInv, Manifested
  <1>3. final.manifest.parts = parts
    BY <1>2 DEF Manifest
  <1>4. FilesOf(c) = final.files[c]
    BY <1>1 DEF FilesOf, NoDir, NewDir
  <1>5. buffer[c] = << >> /\ pending = << >>
    BY DEF WriterInv, Drained, ReaderInv, Decoded
  <1>6. Stored(c) = UNION {Range(f.rows) : f \in final.files[c]}
    BY <1>4, <1>5, EmptyIsSeq DEF Stored
  <1>7. Placed(Waiting(pending, c), buffer[c], FilesOf(c), {a.row.seq : a \in Entries(c)})
    BY <1>1 DEF WriterInv, RowsOnce
  <1>8. Waiting(pending, c) = << >>
    BY <1>5, EmptyIsSeq DEF Waiting
  <1>9. Seqs(<< >>) = {}
    BY EmptyIsSeq DEF Seqs
  <1>10. /\ \A f \in final.files[c] : Distinct(f.rows)
         /\ \A f, g \in final.files[c] : f # g => Seqs(f.rows) \intersect Seqs(g.rows) = {}
         /\ {a.row.seq : a \in Entries(c)} = UNION {Seqs(f.rows) : f \in final.files[c]}
    BY <1>4, <1>5, <1>7, <1>8, <1>9 DEF Placed
  <1>11. /\ \A i \in DOMAIN parts[c] : \E f \in final.files[c] : f.index = parts[c][i].index
         /\ \A f \in final.files[c] : \E i \in DOMAIN parts[c] : f.index = parts[c][i].index
    BY <1>1, <1>3 DEF Valid
  <1>12. IsSeq(parts[c]) /\ Numbering(parts[c], FilesOf(c), nextPart[c]) /\ OfEvents(Stored(c), c)
    BY DEF WriterInv, Visible, Shape, ReaderInv, Located
  <1> QED BY <1>2, <1>3, <1>4, <1>6, <1>10, <1>11, <1>12

\* Rows of different events.
OtherEvent(X) == {p \in X \X X : p[1].seq # p[2].seq}


\* The rows of each part that is listed.
PartRows(c) == [part \in Range(parts[c]) |-> FileOf(final, c, part).rows]

\* The rows of the parts: each stored row is in one part, within its bounds.
LEMMA PartRowsFacts ==
  ASSUME WriterInv, ReaderInv, phase \in {"committed", "joining", "joined"}, NEW c \in Classes
  PROVE  /\ \A part \in Range(parts[c]) :
              /\ FileOf(final, c, part) \in final.files[c] /\ FileOf(final, c, part).index = part.index
              /\ part.min \in Nat /\ part.max \in Nat
              /\ \A row \in Range(PartRows(c)[part]) : part.min <= row.qpc /\ row.qpc <= part.max
         /\ PartRows(c) \in [Range(parts[c]) -> Seq(Stored(c))]
         /\ \A part \in Range(parts[c]) : Ordered(PartRows(c)[part], OtherEvent(Stored(c)))
         /\ \A p, q \in Range(parts[c]) :
              p.index # q.index => <<PartRows(c)[p], PartRows(c)[q]>> \in Follow(Stored(c), OtherEvent(Stored(c)))
         /\ Stored(c) = UNION {Range(PartRows(c)[part]) : part \in Range(parts[c])}
  <1> DEFINE L == parts[c]
             files == final.files[c]
             X == Stored(c)
             F(part) == FileOf(final, c, part)
  <1>1. /\ X = UNION {Range(f.rows) : f \in files}
        /\ Numbering(L, files, nextPart[c])
        /\ \A f \in files : Distinct(f.rows)
        /\ \A f, g \in files : f # g => Seqs(f.rows) \intersect Seqs(g.rows) = {}
        /\ \A i \in DOMAIN L : \E f \in files : f.index = L[i].index
        /\ \A f \in files : \E i \in DOMAIN L : f.index = L[i].index
    BY Committed
  <1>2. ASSUME NEW part \in Range(L)
        PROVE  /\ F(part) \in files /\ F(part).index = part.index
               /\ part.min \in Nat /\ part.max \in Nat
               /\ \A row \in Range(F(part).rows) : part.min <= row.qpc /\ row.qpc <= part.max
    <2>1. PICK i \in DOMAIN L : part = L[i]
      BY DEF Range
    <2>2. \E f \in files : f.index = part.index
      BY <1>1, <2>1
    <2>3. F(part) \in files /\ F(part).index = part.index
      BY <2>2 DEF FileOf
    <2> HIDE DEF F, L, files
    <2> QED BY <1>1, <2>1, <2>3 DEF Numbering
  <1>3. \A f \in files : f.rows \in Seq(X)
    <2> SUFFICES ASSUME NEW f \in files PROVE f.rows \in Seq(X)
      OBVIOUS
    <2>1. f.rows \in Seq(Range(f.rows)) /\ Range(f.rows) \subseteq X
      BY <1>1 DEF Numbering, IsSeq
    <2> HIDE DEF X
    <2> QED BY <2>1, SeqMonotonic
  <1>4. \A f \in files : Ordered(f.rows, OtherEvent(X))
    <2> SUFFICES ASSUME NEW f \in files, NEW i \in DOMAIN f.rows, NEW j \in DOMAIN f.rows, i < j
                 PROVE  <<f.rows[i], f.rows[j]>> \in OtherEvent(X)
      BY DEF Ordered
    <2>1. f.rows[i] \in X /\ f.rows[j] \in X
      BY <1>3, ElementOfSeq, LenProperties
    <2>2. i # j
      <3>1. f.rows \in Seq(X)
        BY <1>3
      <3>2. DOMAIN f.rows \subseteq Int
        BY <3>1, LenProperties
      <3> QED BY <3>2
    <2>3. f.rows[i].seq # f.rows[j].seq
      BY <1>1, <2>2 DEF Distinct
    <2> QED BY <2>1, <2>3 DEF OtherEvent
  <1>5. ASSUME NEW f \in files, NEW g \in files, f # g
        PROVE  <<f.rows, g.rows>> \in Follow(X, OtherEvent(X))
    <2>1. \A r \in Range(f.rows) : r.seq \in Seqs(f.rows) /\ r \in X
      BY <1>1 DEF Range, Seqs
    <2>2. \A r \in Range(g.rows) : r.seq \in Seqs(g.rows) /\ r \in X
      BY <1>1 DEF Range, Seqs
    <2>3. Seqs(f.rows) \intersect Seqs(g.rows) = {}
      BY <1>1, <1>5
    <2>4. f.rows \in Seq(X) /\ g.rows \in Seq(X)
      BY <1>3
    <2> HIDE DEF X, files
    <2> QED BY <2>1, <2>2, <2>3, <2>4 DEF Follow, OtherEvent
  <1>6. X = UNION {Range(F(part).rows) : part \in Range(L)}
    <2>1. ASSUME NEW f \in files PROVE \E part \in Range(L) : F(part) = f
      <3>1. PICK i \in DOMAIN L : f.index = L[i].index
        BY <1>1
      <3>2. L[i] \in Range(L)
        BY DEF Range
      <3>3. F(L[i]) \in files /\ F(L[i]).index = f.index
        BY <1>2, <3>1, <3>2
      <3> HIDE DEF F, files, L
      <3>4. F(L[i]) = f
        BY <1>1, <3>3 DEF Numbering
      <3> QED BY <3>2, <3>4
    <2> HIDE DEF X, F, files, L
    <2> QED BY <1>1, <1>2, <2>1
  <1>7. \A part \in Range(L) : PartRows(c)[part] = F(part).rows
    BY DEF PartRows
  <1>8. DOMAIN PartRows(c) = Range(L) /\ PartRows(c) = [part \in Range(L) |-> PartRows(c)[part]]
    BY DEF PartRows
  <1> HIDE DEF F, files, L, X
  <1>9. PartRows(c) \in [Range(L) -> Seq(X)]
    BY <1>2, <1>3, <1>7, <1>8
  <1>10. \A part \in Range(L) : Ordered(PartRows(c)[part], OtherEvent(X))
    BY <1>2, <1>4, <1>7
  <1>11. \A p, q \in Range(L) : p.index # q.index => <<PartRows(c)[p], PartRows(c)[q]>> \in Follow(X, OtherEvent(X))
    BY <1>2, <1>5, <1>7
  <1>12. X = UNION {Range(PartRows(c)[part]) : part \in Range(L)}
    BY <1>6, <1>7
  <1>13. \A part \in Range(L) :
           /\ F(part) \in files /\ F(part).index = part.index
           /\ part.min \in Nat /\ part.max \in Nat
           /\ \A row \in Range(PartRows(c)[part]) : part.min <= row.qpc /\ row.qpc <= part.max
    BY <1>2, <1>7
  <1> QED BY <1>9, <1>10, <1>11, <1>12, <1>13 DEF F, files, L, X

\* The files that are opened give their rows once each, in order.
LEMMA OpenedFacts ==
  ASSUME WriterInv, ReaderInv, phase \in {"committed", "joining", "joined"}, NEW c \in Classes, NEW W
  PROVE  LET read == Select(parts[c], W)
             pieces == Mapped(read, PartRows(c))
         IN /\ read \in Seq(Range(parts[c]))
            /\ [i \in DOMAIN read |-> FileOf(final, c, read[i]).rows] = pieces
            /\ pieces \in Seq(Seq(Stored(c)))
            /\ FlattenSeq(pieces) \in Seq(Stored(c))
            /\ Range(FlattenSeq(pieces)) = UNION {Range(PartRows(c)[part]) : part \in Range(parts[c]) \intersect W}
            /\ Ordered(FlattenSeq(pieces), OtherEvent(Stored(c)))
  <1> DEFINE P == Range(parts[c])
             X == Stored(c)
             R == PartRows(c)
             D == OtherEvent(X)
             read == Select(parts[c], W)
             pieces == Mapped(read, R)
             Q == {p \in P \X P : p[1].index # p[2].index}
  <1>1. /\ R \in [P -> Seq(X)]
        /\ \A part \in P : Ordered(R[part], D)
        /\ \A p, q \in P : p.index # q.index => <<R[p], R[q]>> \in Follow(X, D)
    BY PartRowsFacts
  <1>2. parts[c] \in Seq(P) /\ Numbering(parts[c], final.files[c], nextPart[c])
    BY Committed DEF IsSeq
  <1>3. \A part \in P : R[part] = FileOf(final, c, part).rows
    BY DEF PartRows
  <1>4. Ordered(parts[c], Q)
    <2> SUFFICES ASSUME NEW i \in DOMAIN parts[c], NEW j \in DOMAIN parts[c], i < j
                 PROVE  <<parts[c][i], parts[c][j]>> \in Q
      BY DEF Ordered
    <2>1. i # j
      <3>1. DOMAIN parts[c] \subseteq Int
        BY <1>2, LenProperties
      <3> QED BY <3>1
    <2>2. parts[c][i] \in P /\ parts[c][j] \in P
      BY DEF Range
    <2>3. parts[c][i].index # parts[c][j].index
      BY <1>2, <2>1 DEF Numbering
    <2> QED BY <2>2, <2>3
  <1> HIDE DEF P, X, R, D, Q
  <1>5. read \in Seq(P) /\ Range(read) = P \intersect W /\ Ordered(read, Q)
    <2>1. Range(read) = Range(parts[c]) \intersect W
      BY <1>2, SelectRange
    <2> QED BY <1>2, <1>4, <2>1, SelectedSeq, SelectOrdered DEF P
  <1> HIDE DEF read
  <1>6. \A i \in DOMAIN read : read[i] \in P
    BY <1>5 DEF Range
  <1>7. [i \in DOMAIN read |-> FileOf(final, c, read[i]).rows] = pieces
    BY <1>3, <1>6 DEF Mapped
  <1>8. pieces \in Seq(Seq(X))
    BY <1>1, <1>5, MappedFacts
  <1>9. Range(pieces) = {R[part] : part \in P \intersect W}
    <2>1. Range(pieces) = {R[part] : part \in Range(read)}
      BY DEF Range, Mapped
    <2> QED BY <1>5, <2>1
  <1>10. \A t \in Range(pieces) : Ordered(t, D)
    BY <1>1, <1>9
  <1>11. Ordered(pieces, Follow(X, D))
    <2>1. \A i, j \in DOMAIN read : i < j => read[i] \in P /\ read[j] \in P /\ read[i].index # read[j].index
      BY <1>5 DEF Ordered, Q
    <2>2. DOMAIN pieces = DOMAIN read /\ \A i \in DOMAIN read : pieces[i] = R[read[i]]
      BY DEF Mapped
    <2> QED BY <1>1, <2>1, <2>2 DEF Ordered
  <1> HIDE DEF pieces
  <1>12. FlattenSeq(pieces) \in Seq(X) /\ Ordered(FlattenSeq(pieces), D)
    BY <1>8, <1>10, <1>11, FlattenedSeq, FlattenOrdered
  <1>13. Range(FlattenSeq(pieces)) = UNION {Range(t) : t \in Range(pieces)}
    BY <1>8, FlattenRange
  <1>14. Range(FlattenSeq(pieces)) = UNION {Range(R[part]) : part \in P \intersect W}
    BY <1>9, <1>13
  <1> QED BY <1>5, <1>7, <1>8, <1>12, <1>14 DEF read, pieces, X, P, R, D

\* The stored rows a filter asks for.
Wanted(c, f) == {r \in Stored(c) : Asked(r, f, final.manifest.origin)}

\* A scan gives the wanted rows once each.
LEMMA ScanFacts ==
  ASSUME WriterInv, ReaderInv, phase \in {"committed", "joining", "joined"}, NEW c \in Classes, NEW f, TypedFilter(f)
  PROVE  LET read == Read(final, c, StartQpc(final.manifest.origin, f), EndQpc(final.manifest.origin, f))
         IN /\ Scan(final, c, f) = Select(FlattenSeq(Mapped(read, PartRows(c))), Wanted(c, f))
            /\ Scan(final, c, f) \in Seq(Stored(c))
            /\ Range(Scan(final, c, f)) = Wanted(c, f)
            /\ Ordered(Scan(final, c, f), OtherEvent(Stored(c)))
  <1> DEFINE start == StartQpc(final.manifest.origin, f)
             end == EndQpc(final.manifest.origin, f)
             W == {part \in Range(parts[c]) : ~Excluded(part, start, end)}
             read == Select(parts[c], W)
             X == Stored(c)
             rows == FlattenSeq(Mapped(read, PartRows(c)))
             K == {r \in Range(rows) : Kept(r, f.cpus, start, end)}
             S == Scan(final, c, f)
  <1>1. /\ final.manifest.parts[c] = parts[c] /\ final.manifest.origin \in Nat
        /\ OfEvents(X, c)
    BY Committed
  <1>2. Read(final, c, start, end) = read
    BY <1>1 DEF Read
  <1>3. /\ [i \in DOMAIN read |-> FileOf(final, c, read[i]).rows] = Mapped(read, PartRows(c))
        /\ rows \in Seq(X)
        /\ Range(rows) = UNION {Range(PartRows(c)[part]) : part \in Range(parts[c]) \intersect W}
        /\ Ordered(rows, OtherEvent(X))
    BY OpenedFacts
  <1>4. S = Select(rows, K)
    BY <1>1, <1>2, <1>3 DEF Scan, KeptRows
  <1>5. \A r \in X : r.qpc \in Nat
    BY <1>1, EntriesTimed DEF OfEvents, SameEvent, ReaderInv
  <1>6. start \in Int \union {None} /\ end \in Int \union {None}
    BY <1>1, BoundsTyped
  <1>7. \A r \in X : Kept(r, f.cpus, start, end) <=> r \in Wanted(c, f)
    <2> SUFFICES ASSUME NEW r \in X PROVE Kept(r, f.cpus, start, end) <=> Asked(r, f, final.manifest.origin)
      BY DEF Wanted
    <2> HIDE DEF X
    <2> QED BY <1>1, <1>5, KeptIsAsked
  <1>8. X = UNION {Range(PartRows(c)[part]) : part \in Range(parts[c])}
    BY PartRowsFacts
  <1>9. Wanted(c, f) \subseteq Range(rows)
    <2> SUFFICES ASSUME NEW r \in X, Kept(r, f.cpus, start, end) PROVE r \in Range(rows)
      BY <1>7 DEF Wanted
    <2>1. PICK part \in Range(parts[c]) : r \in Range(PartRows(c)[part])
      BY <1>8
    <2>2. part.min \in Nat /\ part.max \in Nat /\ part.min <= r.qpc /\ r.qpc <= part.max
      BY <2>1, PartRowsFacts
    <2>3. r.qpc \in Nat
      BY <1>5
    <2> HIDE DEF start, end, X
    <2>4. ~Excluded(part, start, end)
      BY <1>6, <2>2, <2>3, NotExcluded
    <2> QED BY <1>3, <2>1, <2>4
  <1> HIDE DEF start, end, X, rows, W
  <1>10. \A r \in Range(rows) : r \in X
    BY <1>3, RangeOfSeq
  <1>11. S = Select(rows, Wanted(c, f))
    <2>1. \A r \in Range(rows) : r \in K <=> r \in Wanted(c, f)
      BY <1>7, <1>10
    <2> HIDE DEF K, S
    <2> QED BY <1>3, <1>4, <2>1, SelectSame
  <1> HIDE DEF S, K
  <1>12. S \in Seq(X) /\ Range(S) = Range(rows) \intersect Wanted(c, f) /\ Ordered(S, OtherEvent(X))
    BY <1>3, <1>11, SelectedSeq, SelectRange, SelectOrdered
  <1>13. Range(S) = Wanted(c, f)
    BY <1>9, <1>12
  <1> QED BY <1>2, <1>11, <1>12, <1>13 DEF S, X, rows, start, end, W

\* Rows of the entries E, once each, are as many as E has entries.
LEMMA Counted ==
  ASSUME WriterInv, ReaderInv, NEW c \in Classes, NEW X, NEW s \in Seq(X), Ordered(s, OtherEvent(X)),
         NEW E \in SUBSET Entries(c), {r.seq : r \in Range(s)} = {a.row.seq : a \in E}
  PROVE  Len(s) = Cardinality(E)
  <1> DEFINE n == Len(s)
             g == [i \in 1 .. n |-> CHOOSE a \in E : a.row.seq = s[i].seq]
  <1>1. n \in Nat /\ DOMAIN s = 1 .. n
    BY LenProperties
  <1>2. ASSUME NEW i \in 1 .. n PROVE g[i] \in E /\ g[i].row.seq = s[i].seq
    <2>1. s[i] \in Range(s)
      BY <1>1 DEF Range
    <2>2. \E a \in E : a.row.seq = s[i].seq
      BY <2>1
    <2> QED BY <2>2
  <1>3. \A a, b \in E : a.row.seq = b.row.seq => a = b
    BY DEF Entries, Range, ReaderInv, Decoded
  <1>4. ASSUME NEW a \in E PROVE \E i \in 1 .. n : g[i] = a
    <2>1. a.row.seq \in {r.seq : r \in Range(s)}
      OBVIOUS
    <2>2. PICK i \in DOMAIN s : s[i].seq = a.row.seq
      BY <2>1 DEF Range
    <2> QED BY <1>1, <1>2, <1>3, <2>2
  <1>5. ASSUME NEW i \in 1 .. n, NEW j \in 1 .. n, g[i] = g[j] PROVE i = j
    <2>1. s[i].seq = s[j].seq
      BY <1>2, <1>5
    <2>2. ASSUME NEW k \in 1 .. n, NEW l \in 1 .. n, k < l PROVE s[k].seq # s[l].seq
      BY <1>1, <2>2 DEF Ordered, OtherEvent
    <2> HIDE DEF g, n
    <2> QED BY <1>1, <2>1, <2>2
  <1>6. g \in [1 .. n -> E]
    <2>1. g = [i \in 1 .. n |-> g[i]]
      OBVIOUS
    <2> HIDE DEF g
    <2> QED BY <1>2, <2>1
  <1> HIDE DEF g, n
  <1>7. g \in Bijection(1 .. n, E)
    BY <1>4, <1>5, <1>6 DEF Bijection, Injection, Surjection, IsInjective
  <1>8. ExistsBijection(1 .. n, E)
    BY <1>7 DEF ExistsBijection
  <1>9. Cardinality(E) = n
    BY <1>1, <1>8, FS_CountingElements
  <1> QED BY <1>9 DEF n

\* The rows that are wanted are those of the entries that are asked for.
LEMMA WantedIsAsked ==
  ASSUME WriterInv, ReaderInv, phase \in {"committed", "joining", "joined"}, NEW c \in Classes, NEW f, TypedFilter(f)
  PROVE  {r.seq : r \in Wanted(c, f)} = {a.row.seq : a \in {b \in Entries(c) : Asked(b.row, f, final.manifest.origin)}}
  <1> DEFINE o == final.manifest.origin
  <1>1. /\ OfEvents(Stored(c), c)
        /\ Stored(c) = UNION {Range(g.rows) : g \in final.files[c]}
        /\ {a.row.seq : a \in Entries(c)} = UNION {Seqs(g.rows) : g \in final.files[c]}
    BY Committed
  <1>2. ASSUME NEW r, NEW a, SameEvent(r, a.row) PROVE Asked(r, f, o) <=> Asked(a.row, f, o)
    BY <1>2 DEF Asked, SameEvent
  <1>3. ASSUME NEW r \in Wanted(c, f) PROVE \E a \in Entries(c) : Asked(a.row, f, o) /\ a.row.seq = r.seq
    <2>1. r \in Stored(c) /\ Asked(r, f, o)
      BY DEF Wanted
    <2>2. PICK a \in Entries(c) : SameEvent(r, a.row)
      BY <1>1, <2>1 DEF OfEvents
    <2>3. Asked(a.row, f, o)
      BY <1>2, <2>1, <2>2
    <2> HIDE DEF o
    <2> QED BY <2>2, <2>3 DEF SameEvent
  <1>4. ASSUME NEW a \in Entries(c), Asked(a.row, f, o) PROVE \E r \in Wanted(c, f) : r.seq = a.row.seq
    <2>1. PICK g \in final.files[c] : a.row.seq \in Seqs(g.rows)
      BY <1>1
    <2>2. PICK r \in Range(g.rows) : r.seq = a.row.seq
      BY <2>1 DEF Seqs, Range
    <2>3. r \in Stored(c)
      BY <1>1, <2>2
    <2>4. PICK b \in Entries(c) : SameEvent(r, b.row)
      BY <1>1, <2>3 DEF OfEvents
    <2>5. b = a
      <3>1. b.row.seq = a.row.seq
        BY <2>2, <2>4 DEF SameEvent
      <3> QED BY <3>1 DEF Entries, Range, ReaderInv, Decoded
    <2>6. Asked(r, f, o)
      BY <1>2, <1>4, <2>4, <2>5
    <2> QED BY <2>2, <2>3, <2>6 DEF Wanted
  <1> HIDE DEF o
  <1>5. {r.seq : r \in Wanted(c, f)} = {a.row.seq : a \in {b \in Entries(c) : Asked(b.row, f, o)}}
    BY <1>3, <1>4
  <1> QED BY <1>5 DEF o

\* What is read batch by batch is what is read at once.
LEMMA BatchesFacts ==
  ASSUME WriterInv, ReaderInv, phase \in {"committed", "joining", "joined"}, NEW c \in Classes, NEW f, TypedFilter(f),
         NEW size \in BatchSizes
  PROVE  /\ Batches(final, c, f, size) \in Seq(Seq(Stored(c)))
         /\ FlattenSeq(Batches(final, c, f, size)) = Scan(final, c, f)
  <1> DEFINE start == StartQpc(final.manifest.origin, f)
             end == EndQpc(final.manifest.origin, f)
             V == {part \in Range(parts[c]) : ~Excluded(part, start, end)}
             X == Stored(c)
             W == Wanted(c, f)
             read == Read(final, c, start, end)
             pieces == Mapped(read, PartRows(c))
             G == [t \in Seq(X) |-> Chunks(t, size)]
             H == [t \in Seq(X) |-> Select(t, W)]
             J == [ss \in Seq(Seq(X)) |-> FlattenSeq(ss)]
             sss == Mapped(pieces, G)
             cut == FlattenSeq(sss)
             kept == Mapped(cut, H)
             B == Batches(final, c, f, size)
  <1>0. size \in Nat \ {0}
    BY ExtractAssumption
  <1>1. /\ final.manifest.parts[c] = parts[c] /\ final.manifest.origin \in Nat
        /\ OfEvents(X, c)
    BY Committed
  <1>2. read = Select(parts[c], V)
    BY <1>1 DEF Read
  <1>3. /\ [i \in DOMAIN read |-> FileOf(final, c, read[i]).rows] = pieces
        /\ pieces \in Seq(Seq(X))
    BY <1>2, OpenedFacts
  <1>4. Scan(final, c, f) = Select(FlattenSeq(pieces), W)
    BY ScanFacts
  <1>5. \A r \in X : Kept(r, f.cpus, start, end) <=> r \in W
    <2> SUFFICES ASSUME NEW r \in X PROVE Kept(r, f.cpus, start, end) <=> Asked(r, f, final.manifest.origin)
      BY DEF Wanted
    <2>1. r.qpc \in Nat
      BY <1>1, EntriesTimed DEF OfEvents, SameEvent, ReaderInv
    <2> HIDE DEF X
    <2> QED BY <1>1, <2>1, KeptIsAsked
  <1>6. \A t \in Seq(X) : Chunks(t, size) \in Seq(Seq(X)) /\ FlattenSeq(Chunks(t, size)) = t
    <2> HIDE DEF X
    <2> QED BY <1>0, FlattenChunks
  <1>7. G \in [Seq(X) -> Seq(Seq(X))]
    <2> HIDE DEF X
    <2> QED BY <1>6
  <1>8. DOMAIN pieces = DOMAIN read /\ \A i \in DOMAIN read : pieces[i] = FileOf(final, c, read[i]).rows
    BY <1>3
  <1>9. \A i \in DOMAIN pieces : pieces[i] \in Seq(X)
    BY <1>3, ElementOfSeq, LenProperties
  <1> HIDE DEF X, W, start, end
  <1>10. [i \in DOMAIN read |-> Chunks(FileOf(final, c, read[i]).rows, size)] = sss
    <2> HIDE DEF read, pieces
    <2> QED BY <1>8, <1>9 DEF Mapped
  <1>11. sss \in Seq(Seq(Seq(X)))
    <2> HIDE DEF pieces, G
    <2> QED BY <1>3, <1>7, MappedFacts
  <1>12. cut \in Seq(Seq(X))
    <2> HIDE DEF sss
    <2> QED BY <1>11, FlattenedSeq
  <1>13. Mapped(sss, J) = pieces
    <2>1. \A i \in DOMAIN pieces : sss[i] = Chunks(pieces[i], size) /\ sss[i] \in Seq(Seq(X))
      <3> HIDE DEF pieces
      <3> QED BY <1>6, <1>9 DEF Mapped
    <2>2. DOMAIN sss = DOMAIN pieces
      BY DEF Mapped
    <2>3. pieces = [i \in DOMAIN pieces |-> pieces[i]]
      <3> HIDE DEF pieces
      <3>1. DOMAIN pieces = 1 .. Len(pieces) /\ pieces \in [1 .. Len(pieces) -> Seq(X)]
        BY <1>3, LenProperties
      <3> QED BY <3>1
    <2> HIDE DEF sss, pieces
    <2>4. \A i \in DOMAIN pieces : J[sss[i]] = pieces[i]
      BY <1>6, <1>9, <2>1
    <2> HIDE DEF J
    <2> QED BY <2>2, <2>3, <2>4 DEF Mapped
  <1>14. FlattenSeq(cut) = FlattenSeq(pieces)
    <2> HIDE DEF sss, pieces
    <2>1. FlattenSeq(FlattenSeq(sss)) = FlattenSeq(Mapped(sss, J))
      BY <1>11, FlattenTwice
    <2> QED BY <1>13, <2>1
  <1> HIDE DEF cut, sss, pieces, read
  <1>15. \A k \in DOMAIN cut : cut[k] \in Seq(X)
    BY <1>12, ElementOfSeq, LenProperties
  <1>16. \A t \in Seq(X) : KeptRows(t, f.cpus, start, end) = Select(t, W)
    <2> SUFFICES ASSUME NEW t \in Seq(X) PROVE KeptRows(t, f.cpus, start, end) = Select(t, W)
      OBVIOUS
    <2> DEFINE K == {r \in Range(t) : Kept(r, f.cpus, start, end)}
    <2>1. \A r \in Range(t) : r \in X
      BY RangeOfSeq
    <2>2. \A r \in Range(t) : r \in K <=> r \in W
      BY <1>5, <2>1
    <2> HIDE DEF K
    <2>3. Select(t, K) = Select(t, W)
      BY <2>2, SelectSame
    <2> QED BY <2>3 DEF KeptRows, K
  <1>17. [k \in DOMAIN cut |-> KeptRows(cut[k], f.cpus, start, end)] = kept
    BY <1>15, <1>16 DEF Mapped
  <1>18. B = Select(kept, Range(kept) \ {<< >>})
    BY <1>10, <1>17 DEF Batches, start, end, read, cut
  <1>19. H \in [Seq(X) -> Seq(X)]
    BY SelectedSeq
  <1>20. FlattenSeq(kept) = Select(FlattenSeq(cut), W)
    BY <1>12, FlattenOfSelections
  <1>21. kept \in Seq(Seq(X))
    <2> HIDE DEF H
    <2> QED BY <1>12, <1>19, MappedFacts
  <1> HIDE DEF kept, B
  <1>22. B \in Seq(Seq(X))
    BY <1>18, <1>21, SelectedSeq
  <1>23. FlattenSeq(B) = FlattenSeq(kept)
    BY <1>18, <1>21, FlattenSelected
  <1>24. FlattenSeq(B) = Scan(final, c, f)
    BY <1>4, <1>14, <1>20, <1>23 DEF read, pieces, start, end, W
  <1> QED BY <1>22, <1>24 DEF B, X

\* ScanExact, at any moment at which a store can be read.
LEMMA ExactScans ==
  ASSUME WriterInv, ReaderInv PROVE ScanExact
  <1> SUFFICES ASSUME phase = "committed", NEW c \in Classes, NEW f \in Filters
               PROVE  LET rows == Scan(final, c, f)
                          asked == {a \in Entries(c) : Asked(a.row, f, final.manifest.origin)}
                      IN /\ {row.seq : row \in Range(rows)} = {a.row.seq : a \in asked}
                         /\ Len(rows) = Cardinality(asked)
                         /\ \A size \in BatchSizes : FlattenSeq(Batches(final, c, f, size)) = rows
    BY DEF ScanExact
  <1>0. TypedFilter(f)
    BY ExtractAssumption DEF TypedFilter
  <1> DEFINE rows == Scan(final, c, f)
             asked == {a \in Entries(c) : Asked(a.row, f, final.manifest.origin)}
  <1>1. rows \in Seq(Stored(c)) /\ Range(rows) = Wanted(c, f) /\ Ordered(rows, OtherEvent(Stored(c)))
    BY <1>0, ScanFacts
  <1>2. {r.seq : r \in Wanted(c, f)} = {a.row.seq : a \in asked}
    BY <1>0, WantedIsAsked
  <1>3. asked \in SUBSET Entries(c)
    OBVIOUS
  <1>4. \A size \in BatchSizes : FlattenSeq(Batches(final, c, f, size)) = rows
    BY <1>0, BatchesFacts
  <1> HIDE DEF rows, asked
  <1>5. {r.seq : r \in Range(rows)} = {a.row.seq : a \in asked}
    BY <1>1, <1>2
  <1>6. Len(rows) = Cardinality(asked)
    BY <1>1, <1>3, <1>5, Counted
  <1> QED BY <1>4, <1>5, <1>6 DEF rows, asked

\* A scan of a committed store gives the decoded rows that its filter asks for,
\* each once, at once or in batches: for every trace, filter and batch size.
THEOREM ScansAreExact == Spec => []ScanExact
  BY WriterIsSound, StoreIsIndexed, ExactScans, PTL

-----------------------------------------------------------------------------
(* A merge join reports no row twice *)

\* Distinct, as an order of pairs.
LEMMA DistinctIs ==
  ASSUME NEW X, NEW s \in Seq(X)
  PROVE  Distinct(s) <=> Ordered(s, OtherEvent(X))
  <1>1. DOMAIN s \subseteq Int /\ \A i \in DOMAIN s : s[i] \in X
    BY LenProperties, ElementOfSeq
  <1>2. ASSUME Distinct(s) PROVE Ordered(s, OtherEvent(X))
    <2> SUFFICES ASSUME NEW i \in DOMAIN s, NEW j \in DOMAIN s, i < j PROVE <<s[i], s[j]>> \in OtherEvent(X)
      BY DEF Ordered
    <2>1. i # j
      BY <1>1
    <2>2. s[i].seq # s[j].seq
      BY <1>2, <2>1 DEF Distinct
    <2> QED BY <1>1, <2>2 DEF OtherEvent
  <1>3. ASSUME Ordered(s, OtherEvent(X)) PROVE Distinct(s)
    <2> SUFFICES ASSUME NEW i \in DOMAIN s, NEW j \in DOMAIN s, s[i].seq = s[j].seq, i # j PROVE FALSE
      BY DEF Distinct
    <2>1. \A k, l \in DOMAIN s : k < l => s[k].seq # s[l].seq
      BY <1>3 DEF Ordered, OtherEvent
    <2>2. i < j \/ j < i
      BY <1>1
    <2> QED BY <2>1, <2>2
  <1> QED BY <1>2, <1>3

\* Rows that are told apart by their number.
LEMMA SameRow ==
  ASSUME NEW X, NEW s \in Seq(X), Ordered(s, OtherEvent(X)), NEW y \in Range(s), NEW z \in Range(s), y.seq = z.seq
  PROVE  y = z
  <1>1. Distinct(s)
    BY DistinctIs
  <1> QED BY <1>1 DEF Distinct, Range

\* Rows of three sequences, each of its own event.
Apart(R, a, b, c) ==
  /\ Distinct(a) /\ Distinct(b) /\ Distinct(c)
  /\ Cross(a, b, OtherEvent(R)) /\ Cross(a, c, OtherEvent(R)) /\ Cross(b, c, OtherEvent(R))

\* Three queues without a row in common, in one sequence.
LEMMA ApartIs ==
  ASSUME NEW R, NEW a \in Seq(R), NEW b \in Seq(R), NEW c \in Seq(R)
  PROVE  (Apart(R, a, b, c) => Distinct(a \o b \o c)) /\ (Distinct(a \o b \o c) => Apart(R, a, b, c))
  <1>1. a \o b \o c \in Seq(R)
    <2>1. a \o b \in Seq(R)
      BY ConcatProperties
    <2> QED BY <2>1, ConcatProperties
  <1>2. Distinct(a \o b \o c) <=> Ordered(a \o b \o c, OtherEvent(R))
    BY <1>1, DistinctIs
  <1>3. /\ Distinct(a) <=> Ordered(a, OtherEvent(R))
        /\ Distinct(b) <=> Ordered(b, OtherEvent(R))
        /\ Distinct(c) <=> Ordered(c, OtherEvent(R))
    BY DistinctIs
  <1>4. Ordered(a \o b \o c, OtherEvent(R)) <=>
           /\ Ordered(a, OtherEvent(R)) /\ Ordered(b, OtherEvent(R)) /\ Ordered(c, OtherEvent(R))
           /\ Cross(a, b, OtherEvent(R)) /\ Cross(a, c, OtherEvent(R)) /\ Cross(b, c, OtherEvent(R))
    BY ThreeParts
  <1>5. ASSUME Apart(R, a, b, c) PROVE Distinct(a \o b \o c)
    BY <1>2, <1>3, <1>4, <1>5 DEF Apart
  <1>6. ASSUME Distinct(a \o b \o c) PROVE Apart(R, a, b, c)
    BY <1>2, <1>3, <1>4, <1>6 DEF Apart
  <1> QED BY <1>5, <1>6

\* The woken rows of what was reported.
ReadyRows(out) == [i \in DOMAIN out |-> out[i].ready]

\* They are as many, and from the same rows.
LEMMA ReadyRowsFacts ==
  ASSUME NEW R, NEW out, IsSeq(out), \A w \in Range(out) : w.ready \in R
  PROVE  /\ ReadyRows(out) \in Seq(R) /\ DOMAIN ReadyRows(out) = DOMAIN out
         /\ Range(ReadyRows(out)) = {w.ready : w \in Range(out)}
  <1>1. Len(out) \in Nat /\ DOMAIN out = 1 .. Len(out)
    BY LenProperties DEF IsSeq
  <1>2. ReadyRows(out) \in [1 .. Len(out) -> R]
    BY <1>1 DEF ReadyRows, Range
  <1>3. ReadyRows(out) \in Seq(R)
    BY <1>1, <1>2, FunIsSeq
  <1>4. Range(ReadyRows(out)) = {w.ready : w \in Range(out)}
    BY DEF ReadyRows, Range
  <1> QED BY <1>3, <1>4 DEF ReadyRows

\* What a join of R and S is at any moment, part by part.
LEMMA MergedParts ==
  ASSUME NEW R, NEW S, NEW j
  PROVE  MergedOnce(R, S, j) <=>
           /\ DOMAIN j = DOMAIN NoJoin
           /\ j.ready \in Seq(R) /\ j.waiting \in Seq(R) /\ j.switch \in Seq(S) /\ IsSeq(j.out)
           /\ \A w \in Range(j.out) :
                /\ w.ready \in R /\ w.switch \in S /\ w.ready.about = w.switch.about
                /\ w.switch.qpc - w.ready.qpc \in 0..Window
           /\ Apart(R, ReadyRows(j.out), j.waiting, j.ready)
  <1> DEFINE Typed == /\ j.ready \in Seq(R) /\ j.waiting \in Seq(R) /\ j.switch \in Seq(S) /\ IsSeq(j.out)
                      /\ \A w \in Range(j.out) :
                           /\ w.ready \in R /\ w.switch \in S /\ w.ready.about = w.switch.about
                           /\ w.switch.qpc - w.ready.qpc \in 0..Window
  <1>1. ASSUME Typed
        PROVE  /\ Apart(R, ReadyRows(j.out), j.waiting, j.ready) => Distinct(ReadyRows(j.out) \o j.waiting \o j.ready)
               /\ Distinct(ReadyRows(j.out) \o j.waiting \o j.ready) => Apart(R, ReadyRows(j.out), j.waiting, j.ready)
    <2>1. ReadyRows(j.out) \in Seq(R)
      BY <1>1, ReadyRowsFacts
    <2> QED BY <1>1, <2>1, ApartIs
  <1>2. MergedOnce(R, S, j) <=> DOMAIN j = DOMAIN NoJoin /\ Typed /\ Distinct(ReadyRows(j.out) \o j.waiting \o j.ready)
    BY DEF MergedOnce, ReadyRows
  <1> HIDE DEF Typed
  <1>3. MergedOnce(R, S, j) <=> DOMAIN j = DOMAIN NoJoin /\ Typed /\ Apart(R, ReadyRows(j.out), j.waiting, j.ready)
    BY <1>1, <1>2
  <1> QED BY <1>3 DEF Typed

\* Taking a wake-up keeps MergedOnce.
LEMMA ReadyOnce ==
  ASSUME NEW R, NEW S, NEW j, MergedOnce(R, S, j), j.ready # << >>
  PROVE  /\ MergedOnce(R, S, AfterReady(j))
         /\ AfterReady(j).ready = Tail(j.ready) /\ AfterReady(j).switch = j.switch
         /\ AfterReady(j).out = j.out /\ AfterReady(j).size = j.size
         /\ AfterReady(j).waiting = Append(j.waiting, j.ready[1])
  <1> DEFINE k == AfterReady(j)
             h == j.ready[1]
             t == Tail(j.ready)
             D == OtherEvent(R)
  <1>1. /\ DOMAIN j = DOMAIN NoJoin
        /\ j.ready \in Seq(R) /\ j.waiting \in Seq(R) /\ j.switch \in Seq(S) /\ IsSeq(j.out)
        /\ \A w \in Range(j.out) :
             /\ w.ready \in R /\ w.switch \in S /\ w.ready.about = w.switch.about
             /\ w.switch.qpc - w.ready.qpc \in 0..Window
        /\ Apart(R, ReadyRows(j.out), j.waiting, j.ready)
    BY MergedParts
  <1>2. DOMAIN k = DOMAIN NoJoin /\ k.ready = t /\ k.waiting = Append(j.waiting, h) /\ k.switch = j.switch
        /\ k.out = j.out /\ k.size = j.size
    BY <1>1 DEF AfterReady, NoJoin
  <1>3. Ordered(j.waiting, D) /\ Ordered(j.ready, D)
    BY <1>1, DistinctIs DEF Apart
  <1>4. /\ h \in R /\ t \in Seq(R) /\ Range(j.ready) = {h} \union Range(t)
        /\ Ordered(t, D) /\ \A y \in Range(t) : <<h, y>> \in D
    BY <1>1, <1>3, TailFacts
  <1>5. Append(j.waiting, h) \in Seq(R) /\ Range(Append(j.waiting, h)) = Range(j.waiting) \union {h}
    BY <1>1, <1>4, AppendedSeq
  <1> HIDE DEF h, t, D
  <1>6. Ordered(Append(j.waiting, h), D)
    <2>1. \A y \in Range(j.waiting) : <<y, h>> \in D
      BY <1>1, <1>4 DEF Apart, Cross, D
    <2> QED BY <1>1, <1>3, <1>4, <2>1, OrderedAppend
  <1>7. Distinct(Append(j.waiting, h)) /\ Distinct(t)
    BY <1>4, <1>5, <1>6, DistinctIs DEF D
  <1>8. /\ Cross(ReadyRows(j.out), Append(j.waiting, h), OtherEvent(R))
        /\ Cross(ReadyRows(j.out), t, OtherEvent(R))
        /\ Cross(Append(j.waiting, h), t, OtherEvent(R))
    BY <1>1, <1>4, <1>5 DEF Apart, Cross, D
  <1>9. Apart(R, ReadyRows(k.out), k.waiting, k.ready)
    BY <1>1, <1>2, <1>7, <1>8 DEF Apart
  <1>10. MergedOnce(R, S, k)
    <2> HIDE DEF k
    <2> QED BY <1>1, <1>2, <1>4, <1>5, <1>9, MergedParts
  <1> QED BY <1>2, <1>10 DEF h, t

\* The rows of due as they are reported with the switch s.
Pairs(due, s) == [i \in DOMAIN due |-> [ready |-> due[i], switch |-> s]]

\* What is reported of them.
Reported(due, s) == {[ready |-> r, switch |-> s] : r \in Range(due)}

\* Reports on rows of R.
OnRows(R, out) == IsSeq(out) /\ \A w \in Range(out) : w.ready \in R

\* What is on record once they are.
MoreReported(out, due, s) ==
  /\ IsSeq(out \o Pairs(due, s))
  /\ Range(out \o Pairs(due, s)) = Range(out) \union Reported(due, s)
  /\ ReadyRows(out \o Pairs(due, s)) = ReadyRows(out) \o due

\* What is reported after them.
LEMMA OutMore ==
  ASSUME NEW R, NEW s, NEW out, OnRows(R, out), NEW due \in Seq(R)
  PROVE  MoreReported(out, due, s)
  <1> DEFINE p == Pairs(due, s)
             op == out \o p
             Y == Range(out) \union Range(p)
             m == Len(out)
             n == Len(due)
  <1>0. IsSeq(out) /\ \A w \in Range(out) : w.ready \in R
    BY DEF OnRows
  <1>1. n \in Nat /\ DOMAIN due = 1 .. n
    BY LenProperties
  <1>2. p \in Seq(Range(p)) /\ Len(p) = n /\ DOMAIN p = 1 .. n
    <2>1. p \in [1 .. n -> Range(p)]
      BY <1>1 DEF Pairs, Range
    <2> HIDE DEF p
    <2> QED BY <1>1, <2>1, FunIsSeq
  <1>3. out \in Seq(Y) /\ p \in Seq(Y)
    <2> HIDE DEF p
    <2> QED BY <1>0, <1>2, SeqMonotonic DEF IsSeq
  <1>4. Range(p) = Reported(due, s)
    BY DEF Range, Pairs, Reported
  <1> HIDE DEF p, Y
  <1>5. m \in Nat /\ DOMAIN out = 1 .. m /\ op \in Seq(Y) /\ Len(op) = m + n /\ DOMAIN op = 1 .. m + n
        /\ \A i \in 1 .. m + n : op[i] = IF i <= m THEN out[i] ELSE p[i - m]
    <2>1. m \in Nat /\ DOMAIN out = 1 .. m
      BY <1>3, LenProperties
    <2>2. op \in Seq(Y) /\ Len(op) = m + Len(p) /\ \A i \in 1 .. m + Len(p) : op[i] = IF i <= m THEN out[i] ELSE p[i - m]
      BY <1>3, ConcatProperties
    <2> HIDE DEF op, m, n
    <2>3. DOMAIN op = 1 .. Len(op)
      BY <2>2, LenProperties
    <2> QED BY <1>2, <2>1, <2>2, <2>3
  <1>6. Range(op) = Range(out) \union Range(p)
    BY <1>3, ConcatRange
  <1> HIDE DEF op
  <1>7. IsSeq(op)
    BY <1>5, <1>6 DEF IsSeq, Y
  <1>8. ReadyRows(out) \in Seq(R) /\ DOMAIN ReadyRows(out) = 1 .. m
    BY <1>0, <1>5, ReadyRowsFacts
  <1>9. Len(ReadyRows(out)) = m
    BY <1>5, <1>8, LenProperties
  <1> DEFINE a == ReadyRows(op)
             b == ReadyRows(out) \o due
  <1>10. b \in Seq(R) /\ Len(b) = m + n
         /\ \A i \in 1 .. m + n : b[i] = IF i <= m THEN ReadyRows(out)[i] ELSE due[i - m]
    <2> DEFINE c == ReadyRows(out)
    <2>1. c \in Seq(R) /\ Len(c) = m
      BY <1>8, <1>9
    <2> HIDE DEF c, m, n
    <2>2. /\ c \o due \in Seq(R) /\ Len(c \o due) = Len(c) + Len(due)
          /\ \A i \in 1 .. Len(c) + Len(due) : (c \o due)[i] = IF i <= Len(c) THEN c[i] ELSE due[i - Len(c)]
      BY <2>1, ConcatProperties
    <2> QED BY <2>1, <2>2 DEF c, n
  <1>11. \A w \in Range(op) : w.ready \in R
    <2>1. \A r \in Range(due) : r \in R
      BY RangeOfSeq
    <2> QED BY <1>0, <1>4, <1>6, <2>1 DEF Reported
  <1>12. a \in Seq(R) /\ DOMAIN a = 1 .. m + n
    BY <1>5, <1>7, <1>11, ReadyRowsFacts
  <1>13. Len(a) = m + n
    BY <1>1, <1>5, <1>12, LenProperties
  <1>14. ASSUME NEW i \in 1 .. m + n PROVE a[i] = b[i]
    <2>1. a[i] = op[i].ready
      BY <1>5 DEF ReadyRows
    <2>2. CASE i <= m
      <3>1. i \in 1 .. m
        BY <1>5, <2>2
      <3>2. ReadyRows(out)[i] = out[i].ready
        BY <1>5, <3>1 DEF ReadyRows
      <3> HIDE DEF a, b
      <3> QED BY <1>5, <1>10, <2>1, <2>2, <3>2
    <2>3. CASE ~(i <= m)
      <3>1. i - m \in 1 .. n
        BY <1>1, <1>5, <2>3
      <3>2. p[i - m].ready = due[i - m]
        BY <1>1, <3>1 DEF p, Pairs
      <3> HIDE DEF a, b
      <3> QED BY <1>5, <1>10, <2>1, <2>3, <3>2
    <2> QED BY <2>2, <2>3
  <1> HIDE DEF a, b
  <1>15. a = b
    BY <1>10, <1>12, <1>13, <1>14, SeqEqual
  <1> QED BY <1>4, <1>6, <1>7, <1>15 DEF a, b, op, p, MoreReported

\* What a switch does to the rows that wait: those of its thread that are due,
\* those that stay behind it, and the others.
Split(R, j, s, due, back, rest) ==
  /\ AfterSwitch(j) = [j EXCEPT !.switch = Tail(@), !.waiting = back \o rest, !.out = @ \o Pairs(due, s)]
  /\ Apart(R, due, back, rest)
  /\ Range(due) \union Range(back) \subseteq {r \in Range(j.waiting) : r.about = s.about}
  /\ Range(rest) = {r \in Range(j.waiting) : r.about # s.about}
  /\ \A r \in Range(due) : s.qpc - r.qpc \in 0 .. Window
  /\ (\A r \in Range(j.waiting) : r.qpc <= s.qpc) =>
       /\ back = << >>
       /\ Range(due) = {r \in Range(j.waiting) : r.about = s.about /\ s.qpc - r.qpc <= Window}

\* What a switch does with the queue: due rows leave, later ones and those of other threads stay.
LEMMA SwitchParts ==
  ASSUME NEW R, NEW j, NEW s, s = j.switch[1], j.waiting \in Seq(R), Ordered(j.waiting, OtherEvent(R)),
         s.qpc \in Nat, \A r \in R : r.qpc \in Nat
  PROVE  \E due, back, rest \in Seq(R) : Split(R, j, s, due, back, rest)
  <1> DEFINE D == OtherEvent(R)
             recent == {r \in Range(j.waiting) : s.qpc - r.qpc <= Window}
             late == {r \in Range(j.waiting) : r.qpc > s.qpc}
             own == {r \in Range(j.waiting) : r.about = s.about}
             queue == Select(j.waiting, own)
             young == From(queue, recent)
             front == Until(young, late)
             back == From(young, late)
             due == Select(front, recent)
             rest == Select(j.waiting, Range(j.waiting) \ own)
  <1>1. AfterSwitch(j) = [j EXCEPT !.switch = Tail(@), !.waiting = back \o rest, !.out = @ \o Pairs(due, s)]
    BY DEF AfterSwitch, Pairs
  <1>2. \A r \in Range(j.waiting) : r \in R /\ r.qpc \in Nat
    BY RangeOfSeq
  <1>3. queue \in Seq(R) /\ Ordered(queue, D) /\ Range(queue) = own
    <2>1. Range(queue) = Range(j.waiting) \intersect own
      BY SelectRange
    <2> QED BY <2>1, SelectedSeq, SelectOrdered
  <1>4. rest \in Seq(R) /\ Ordered(rest, D) /\ Range(rest) = Range(j.waiting) \ own
    <2>1. Range(rest) = Range(j.waiting) \intersect (Range(j.waiting) \ own)
      BY SelectRange
    <2> QED BY <2>1, SelectedSeq, SelectOrdered
  <1> HIDE DEF queue, rest
  <1>5. /\ young \in Seq(R) /\ Until(queue, recent) \in Seq(R) /\ Until(queue, recent) \o young = queue
        /\ \A r \in Range(Until(queue, recent)) : r \notin recent
        /\ Range(queue) = Range(Until(queue, recent)) \union Range(young)
    BY <1>3, CutFacts
  <1> HIDE DEF young
  <1>6. Ordered(young, D)
    <2>1. Ordered(Until(queue, recent) \o young, D)
      BY <1>3, <1>5
    <2> QED BY <1>5, <2>1, ConcatOrderedParts
  <1>7. /\ front \in Seq(R) /\ back \in Seq(R) /\ front \o back = young
        /\ \A r \in Range(front) : r \notin late
        /\ Range(young) = Range(front) \union Range(back)
        /\ (\A r \in Range(young) : r \notin late) => back = << >>
    <2> HIDE DEF late
    <2> QED BY <1>5, CutFacts
  <1> HIDE DEF front, back
  <1>8. Ordered(front, D) /\ Ordered(back, D) /\ Cross(front, back, D)
    <2>1. Ordered(front \o back, D)
      BY <1>6, <1>7
    <2> QED BY <1>7, <2>1, ConcatOrderedParts DEF Cross
  <1>9. due \in Seq(R) /\ Ordered(due, D) /\ Range(due) = Range(front) \intersect recent
    BY <1>7, <1>8, SelectedSeq, SelectOrdered, SelectRange
  <1> HIDE DEF due
  <1>10. Range(front) \union Range(back) \subseteq own
    BY <1>3, <1>5, <1>7
  <1>11. ASSUME NEW y \in own, NEW z \in Range(j.waiting) \ own PROVE <<y, z>> \in D
    <2>1. y \in Range(j.waiting) /\ z \in Range(j.waiting) /\ y # z
      OBVIOUS
    <2> HIDE DEF own
    <2>2. y.seq # z.seq
      BY <2>1, SameRow
    <2> QED BY <1>2, <2>1, <2>2 DEF OtherEvent
  <1>12. Apart(R, due, back, rest)
    <2>1. Distinct(due) /\ Distinct(back) /\ Distinct(rest)
      BY <1>4, <1>7, <1>8, <1>9, DistinctIs
    <2>2. Cross(due, back, OtherEvent(R))
      BY <1>8, <1>9 DEF Cross
    <2> HIDE DEF own, recent
    <2>3. Cross(due, rest, OtherEvent(R)) /\ Cross(back, rest, OtherEvent(R))
      BY <1>4, <1>9, <1>10, <1>11 DEF Cross
    <2> QED BY <2>1, <2>2, <2>3 DEF Apart
  <1>13. \A r \in Range(due) : s.qpc - r.qpc \in 0 .. Window
    <2> SUFFICES ASSUME NEW r \in Range(due) PROVE s.qpc - r.qpc \in 0 .. Window
      OBVIOUS
    <2>1. r \in Range(front) /\ r \in recent /\ r \notin late
      BY <1>7, <1>9
    <2>2. s.qpc - r.qpc <= Window /\ ~(r.qpc > s.qpc) /\ r.qpc \in Nat
      BY <1>2, <2>1
    <2> QED BY <2>2, ExtractAssumption
  <1>14. ASSUME \A r \in Range(j.waiting) : r.qpc <= s.qpc
         PROVE  /\ back = << >>
                /\ Range(due) = {r \in Range(j.waiting) : r.about = s.about /\ s.qpc - r.qpc <= Window}
    <2>1. late = {}
      BY <1>2, <1>14
    <2>2. back = << >>
      BY <1>7, <2>1
    <2>3. Range(front) = Range(young)
      BY <1>7, <2>2, EmptyFacts
    <2>4. Range(due) = own \intersect recent
      <3> HIDE DEF own, recent
      <3> QED BY <1>3, <1>5, <1>9, <2>3
    <2> QED BY <2>2, <2>4
  <1>15. Range(due) \union Range(back) \subseteq {r \in Range(j.waiting) : r.about = s.about}
    BY <1>9, <1>10
  <1>16. Range(rest) = {r \in Range(j.waiting) : r.about # s.about}
    BY <1>4
  <1> HIDE DEF D, recent, late, own
  <1>17. Split(R, j, s, due, back, rest)
    BY <1>1, <1>12, <1>13, <1>14, <1>15, <1>16 DEF Split
  <1> QED BY <1>4, <1>7, <1>9, <1>17

-----------------------------------------------------------------------------
(* A merge join misses no wait where rows come in order *)

\* The order of events, as a set of pairs.
BeforeIn(X) == {p \in X \X X : Before(p[1], p[2])}

\* Rows with the numbers that order them.
Timed(X) == \A r \in X : r.qpc \in Nat /\ r.seq \in Nat

\* InTimeOrder, as an order of pairs.
LEMMA TimeOrderIs ==
  ASSUME NEW X, NEW s \in Seq(X)
  PROVE  InTimeOrder(s) <=> Ordered(s, BeforeIn(X))
  <1>1. \A i \in DOMAIN s : s[i] \in X
    BY ElementOfSeq, LenProperties
  <1>2. \A y, z \in X : <<y, z>> \in BeforeIn(X) <=> Before(y, z)
    BY DEF BeforeIn
  <1>3. ASSUME InTimeOrder(s) PROVE Ordered(s, BeforeIn(X))
    BY <1>1, <1>2, <1>3 DEF InTimeOrder, Ordered
  <1>4. ASSUME Ordered(s, BeforeIn(X)) PROVE InTimeOrder(s)
    BY <1>1, <1>2, <1>4 DEF InTimeOrder, Ordered
  <1> QED BY <1>3, <1>4

\* What is first of rows in order is before all others.
LEMMA TimeOrderTail ==
  ASSUME NEW X, NEW s \in Seq(X), s # << >>, InTimeOrder(s)
  PROVE  InTimeOrder(Tail(s)) /\ \A y \in Range(Tail(s)) : Before(s[1], y)
  <1>1. Ordered(s, BeforeIn(X))
    BY TimeOrderIs
  <1>2. /\ Tail(s) \in Seq(X) /\ Ordered(Tail(s), BeforeIn(X))
        /\ \A y \in Range(Tail(s)) : <<s[1], y>> \in BeforeIn(X)
    BY <1>1, TailFacts
  <1>3. InTimeOrder(Tail(s))
    BY <1>2, TimeOrderIs
  <1> QED BY <1>2, <1>3 DEF BeforeIn

\* Taking a switch keeps MergedOnce.
LEMMA SwitchOnce ==
  ASSUME NEW R, NEW S, NEW j, MergedOnce(R, S, j), j.switch # << >>, Timed(R), Timed(S)
  PROVE  MergedOnce(R, S, AfterSwitch(j)) /\ AfterSwitch(j).size = j.size /\ AfterSwitch(j).ready = j.ready
  <1> DEFINE k == AfterSwitch(j)
             s == j.switch[1]
             D == OtherEvent(R)
  <1>1. /\ DOMAIN j = DOMAIN NoJoin
        /\ j.ready \in Seq(R) /\ j.waiting \in Seq(R) /\ j.switch \in Seq(S) /\ IsSeq(j.out)
        /\ \A w \in Range(j.out) :
             /\ w.ready \in R /\ w.switch \in S /\ w.ready.about = w.switch.about
             /\ w.switch.qpc - w.ready.qpc \in 0..Window
        /\ Apart(R, ReadyRows(j.out), j.waiting, j.ready)
    BY MergedParts
  <1>2. s \in S /\ Tail(j.switch) \in Seq(S)
    BY <1>1, TailFacts
  <1>3. Ordered(j.waiting, D)
    BY <1>1, DistinctIs DEF Apart
  <1>4. s.qpc \in Nat /\ \A r \in R : r.qpc \in Nat
    BY <1>2 DEF Timed
  <1> HIDE DEF s
  <1>5. s = j.switch[1]
    BY DEF s
  <1>6. PICK due, back, rest \in Seq(R) :
           /\ k = [j EXCEPT !.switch = Tail(@), !.waiting = back \o rest, !.out = @ \o Pairs(due, s)]
           /\ Apart(R, due, back, rest)
           /\ Range(due) \union Range(back) \subseteq {r \in Range(j.waiting) : r.about = s.about}
           /\ Range(rest) = {r \in Range(j.waiting) : r.about # s.about}
           /\ \A r \in Range(due) : s.qpc - r.qpc \in 0 .. Window
    <2> HIDE DEF k
    <2>1. \E due, back, rest \in Seq(R) : Split(R, j, s, due, back, rest)
      BY <1>1, <1>3, <1>4, <1>5, SwitchParts DEF D
    <2> QED BY <2>1 DEF k, Split
  <1> DEFINE out == j.out \o Pairs(due, s)
  <1>7. /\ DOMAIN k = DOMAIN NoJoin /\ k.ready = j.ready /\ k.switch = Tail(j.switch)
        /\ k.waiting = back \o rest /\ k.out = out /\ k.size = j.size
    <2> HIDE DEF k
    <2> QED BY <1>1, <1>6 DEF NoJoin
  <1>8. /\ IsSeq(out) /\ ReadyRows(out) = ReadyRows(j.out) \o due
        /\ Range(out) = Range(j.out) \union Reported(due, s)
    <2>1. OnRows(R, j.out)
      BY <1>1 DEF OnRows
    <2>2. MoreReported(j.out, due, s)
      BY <2>1, OutMore
    <2> QED BY <2>2 DEF MoreReported
  <1>9. ReadyRows(j.out) \in Seq(R)
    BY <1>1, ReadyRowsFacts
  <1> HIDE DEF out, k
  <1>10. \A w \in Range(out) :
           /\ w.ready \in R /\ w.switch \in S /\ w.ready.about = w.switch.about
           /\ w.switch.qpc - w.ready.qpc \in 0..Window
    <2> SUFFICES ASSUME NEW r \in Range(due)
                 PROVE  r \in R /\ s \in S /\ r.about = s.about /\ s.qpc - r.qpc \in 0 .. Window
      BY <1>1, <1>8 DEF Reported
    <2>1. r \in Range(j.waiting) /\ r.about = s.about
      BY <1>6
    <2>2. r \in R
      BY <1>1, <2>1, RangeOfSeq
    <2> QED BY <1>2, <1>6, <2>1, <2>2
  <1>11. /\ Ordered(due, D) /\ Ordered(back, D) /\ Ordered(rest, D) /\ Ordered(ReadyRows(j.out), D)
         /\ Cross(due, back, D) /\ Cross(due, rest, D) /\ Cross(back, rest, D)
    BY <1>1, <1>6, <1>9, DistinctIs DEF Apart
  <1>12. Range(due) \subseteq Range(j.waiting) /\ Range(back) \subseteq Range(j.waiting)
         /\ Range(rest) \subseteq Range(j.waiting)
    BY <1>6
  <1>13. back \o rest \in Seq(R) /\ Ordered(back \o rest, D) /\ Range(back \o rest) = Range(back) \union Range(rest)
    BY <1>11, ConcatOrdered, ConcatProperties, ConcatRange DEF Cross
  <1>14. /\ ReadyRows(j.out) \o due \in Seq(R)
         /\ Range(ReadyRows(j.out) \o due) = Range(ReadyRows(j.out)) \union Range(due)
    BY <1>9, ConcatProperties, ConcatRange
  <1>15. Cross(ReadyRows(j.out), j.waiting, D) /\ Cross(ReadyRows(j.out), j.ready, D) /\ Cross(j.waiting, j.ready, D)
         /\ Distinct(j.ready)
    BY <1>1 DEF Apart
  <1> HIDE DEF D
  <1>16. Ordered(ReadyRows(j.out) \o due, D)
    <2>1. \A y \in Range(ReadyRows(j.out)), z \in Range(due) : <<y, z>> \in D
      BY <1>12, <1>15 DEF Cross
    <2> QED BY <1>9, <1>11, <2>1, ConcatOrdered
  <1>17. /\ Cross(ReadyRows(out), back \o rest, D)
         /\ Cross(ReadyRows(out), j.ready, D)
         /\ Cross(back \o rest, j.ready, D)
    BY <1>8, <1>11, <1>12, <1>13, <1>14, <1>15 DEF Cross
  <1>18. Distinct(ReadyRows(out)) /\ Distinct(back \o rest)
    BY <1>8, <1>13, <1>14, <1>16, DistinctIs DEF D
  <1>19. Apart(R, ReadyRows(k.out), k.waiting, k.ready)
    BY <1>7, <1>15, <1>17, <1>18 DEF Apart, D
  <1>20. MergedOnce(R, S, k)
    BY <1>1, <1>2, <1>7, <1>8, <1>10, <1>13, <1>19, MergedParts
  <1> QED BY <1>7, <1>20 DEF k

\* Taking a wake-up keeps MergedAll.
LEMMA ReadyAll ==
  ASSUME NEW R, NEW S, NEW j, MergedOnce(R, S, j), MergedAll(R, S, j), Timed(R), Timed(S),
         j.ready # << >>, j.switch # << >> => j.ready[1].qpc <= j.switch[1].qpc
  PROVE  MergedAll(R, S, AfterReady(j))
  <1> DEFINE k == AfterReady(j)
             h == j.ready[1]
             t == Tail(j.ready)
             taken == S \ Range(j.switch)
  <1>1. j.ready \in Seq(R) /\ j.waiting \in Seq(R) /\ j.switch \in Seq(S)
    BY DEF MergedOnce
  <1>2. k.ready = t /\ k.switch = j.switch /\ k.out = j.out /\ k.waiting = Append(j.waiting, h)
    BY ReadyOnce
  <1>3. h \in R /\ Range(j.ready) = {h} \union Range(t)
    BY <1>1, TailFacts
  <1>4. Range(k.waiting) = Range(j.waiting) \union {h}
    BY <1>1, <1>2, <1>3, AppendedSeq
  <1>5. /\ InTimeOrder(j.ready) /\ InTimeOrder(j.switch)
        /\ \A r \in Range(j.waiting), u \in Range(j.switch) : r.qpc <= u.qpc
        /\ \A u \in taken :
             /\ \A v \in Range(j.switch) : Before(u, v)
             /\ \A r \in Range(j.ready) : u.qpc < r.qpc
             /\ \A r \in Range(j.waiting) : u.about # r.about \/ u.qpc < r.qpc
        /\ \A w \in Range(j.out) : FirstSwitch(S, w.ready, w.switch)
        /\ \A r \in R \ (Range(j.ready) \union Range(j.waiting)), u \in S :
             FirstSwitch(S, r, u) /\ u.qpc - r.qpc <= Window =>
               \E w \in Range(j.out) : w.ready = r /\ w.switch = u
    BY DEF MergedAll
  <1>6. InTimeOrder(t)
    BY <1>1, <1>5, TimeOrderTail
  <1>7. ASSUME NEW u \in Range(j.switch) PROVE h.qpc <= u.qpc
    <2>1. j.switch # << >>
      BY EmptyFacts
    <2>2. j.switch[1] \in S /\ Range(j.switch) = {j.switch[1]} \union Range(Tail(j.switch)) /\ Tail(j.switch) \in Seq(S)
      BY <1>1, <2>1, TailFacts
    <2>3. \A y \in Range(Tail(j.switch)) : Before(j.switch[1], y)
      BY <1>1, <1>5, <2>1, TimeOrderTail
    <2>4. u \in S
      BY <1>1, RangeOfSeq
    <2>5. u = j.switch[1] \/ Before(j.switch[1], u)
      BY <2>2, <2>3
    <2>6. j.switch[1].qpc <= u.qpc
      BY <2>2, <2>4, <2>5 DEF Before, Timed
    <2>7. h.qpc \in Nat /\ j.switch[1].qpc \in Nat /\ u.qpc \in Nat /\ h.qpc <= j.switch[1].qpc
      BY <1>3, <2>1, <2>2, <2>4 DEF Timed
    <2> QED BY <2>6, <2>7
  <1> HIDE DEF h, t, k, taken
  <1>8. \A r \in Range(k.waiting), u \in Range(k.switch) : r.qpc <= u.qpc
    BY <1>2, <1>4, <1>5, <1>7
  <1>9. \A u \in taken :
          /\ \A v \in Range(k.switch) : Before(u, v)
          /\ \A r \in Range(k.ready) : u.qpc < r.qpc
          /\ \A r \in Range(k.waiting) : u.about # r.about \/ u.qpc < r.qpc
    BY <1>2, <1>3, <1>4, <1>5
  <1>10. Range(k.ready) \union Range(k.waiting) = Range(j.ready) \union Range(j.waiting)
    BY <1>2, <1>3, <1>4
  <1>11. taken = S \ Range(k.switch)
    BY <1>2 DEF taken
  <1>12. MergedAll(R, S, k)
    BY <1>2, <1>5, <1>6, <1>8, <1>9, <1>10, <1>11 DEF MergedAll
  <1> QED BY <1>12 DEF k

\* Taking a switch keeps MergedAll: each row it finds has it as its first switch.
LEMMA SwitchAll ==
  ASSUME NEW R, NEW S, NEW j, MergedOnce(R, S, j), MergedAll(R, S, j), Timed(R), Timed(S),
         j.switch # << >>, j.ready # << >> => ~(j.ready[1].qpc <= j.switch[1].qpc)
  PROVE  MergedAll(R, S, AfterSwitch(j))
  <1> DEFINE k == AfterSwitch(j)
             s == j.switch[1]
             t == Tail(j.switch)
             taken == S \ Range(j.switch)
  <1>1. /\ DOMAIN j = DOMAIN NoJoin
        /\ j.ready \in Seq(R) /\ j.waiting \in Seq(R) /\ j.switch \in Seq(S) /\ IsSeq(j.out)
        /\ \A w \in Range(j.out) : w.ready \in R
    BY DEF MergedOnce
  <1>2. s \in S /\ t \in Seq(S) /\ Range(j.switch) = {s} \union Range(t)
    BY <1>1, TailFacts
  <1>3. /\ InTimeOrder(j.ready) /\ InTimeOrder(j.switch)
        /\ \A r \in Range(j.waiting), u \in Range(j.switch) : r.qpc <= u.qpc
        /\ \A u \in taken :
             /\ \A v \in Range(j.switch) : Before(u, v)
             /\ \A r \in Range(j.ready) : u.qpc < r.qpc
             /\ \A r \in Range(j.waiting) : u.about # r.about \/ u.qpc < r.qpc
        /\ \A w \in Range(j.out) : FirstSwitch(S, w.ready, w.switch)
        /\ \A r \in R \ (Range(j.ready) \union Range(j.waiting)), u \in S :
             FirstSwitch(S, r, u) /\ u.qpc - r.qpc <= Window =>
               \E w \in Range(j.out) : w.ready = r /\ w.switch = u
    BY DEF MergedAll
  <1>4. InTimeOrder(t) /\ \A u \in Range(t) : Before(s, u)
    BY <1>1, <1>3, TimeOrderTail
  <1>5. \A r \in Range(j.ready) : s.qpc < r.qpc
    <2> SUFFICES ASSUME NEW r \in Range(j.ready) PROVE s.qpc < r.qpc
      OBVIOUS
    <2>1. j.ready # << >>
      BY EmptyFacts
    <2>2. j.ready[1] \in R /\ Range(j.ready) = {j.ready[1]} \union Range(Tail(j.ready))
      BY <1>1, <2>1, TailFacts
    <2>3. \A y \in Range(Tail(j.ready)) : Before(j.ready[1], y)
      BY <1>1, <1>3, <2>1, TimeOrderTail
    <2>4. r \in R
      BY <1>1, RangeOfSeq
    <2>5. r = j.ready[1] \/ Before(j.ready[1], r)
      BY <2>2, <2>3
    <2>6. j.ready[1].qpc <= r.qpc
      BY <2>2, <2>4, <2>5 DEF Before, Timed
    <2>7. r.qpc \in Nat /\ j.ready[1].qpc \in Nat /\ s.qpc \in Nat /\ ~(j.ready[1].qpc <= s.qpc)
      BY <1>2, <2>1, <2>2, <2>4 DEF Timed
    <2> HIDE DEF s
    <2> QED BY <2>6, <2>7
  <1>6. /\ Ordered(j.waiting, OtherEvent(R)) /\ s.qpc \in Nat
        /\ \A r \in R : r.qpc \in Nat
    <2>1. Apart(R, ReadyRows(j.out), j.waiting, j.ready)
      BY MergedParts
    <2> QED BY <1>1, <1>2, <2>1, DistinctIs DEF Apart, Timed
  <1>7. \A r \in Range(j.waiting) : r.qpc <= s.qpc /\ r \in R
    BY <1>1, <1>2, <1>3, RangeOfSeq
  <1> HIDE DEF s
  <1>8. s = j.switch[1]
    BY DEF s
  <1>9. PICK due, back, rest \in Seq(R) :
           /\ k = [j EXCEPT !.switch = Tail(@), !.waiting = back \o rest, !.out = @ \o Pairs(due, s)]
           /\ Range(rest) = {r \in Range(j.waiting) : r.about # s.about}
           /\ back = << >>
           /\ Range(due) = {r \in Range(j.waiting) : r.about = s.about /\ s.qpc - r.qpc <= Window}
    <2> HIDE DEF k
    <2>1. \E due, back, rest \in Seq(R) : Split(R, j, s, due, back, rest)
      BY <1>1, <1>6, <1>8, SwitchParts
    <2> QED BY <1>7, <2>1 DEF k, Split
  <1>10. << >> \o rest = rest
    BY EmptyConcat
  <1>11. /\ k.ready = j.ready /\ k.switch = t /\ k.waiting = rest /\ k.out = j.out \o Pairs(due, s)
    <2> HIDE DEF k
    <2> QED BY <1>1, <1>9, <1>10 DEF NoJoin
  <1>12. Range(k.out) = Range(j.out) \union Reported(due, s)
    <2>1. OnRows(R, j.out)
      BY <1>1 DEF OnRows
    <2>2. MoreReported(j.out, due, s)
      BY <2>1, OutMore
    <2> QED BY <1>11, <2>2 DEF MoreReported
  <1> HIDE DEF t, k, taken
  <1>13. \A u \in S \ Range(k.switch) : u \in taken \/ u = s
    BY <1>2, <1>11 DEF taken
  <1>14. ASSUME NEW r \in Range(j.waiting), r.about = s.about PROVE FirstSwitch(S, r, s)
    <2>1. r.qpc \in Nat /\ s.qpc \in Nat /\ r.qpc <= s.qpc
      BY <1>6, <1>7
    <2>2. ASSUME NEW u \in S, u.about = r.about, u.qpc >= r.qpc PROVE u = s \/ Before(s, u)
      <3>1. u \notin taken
        <4> SUFFICES ASSUME u \in taken PROVE FALSE
          OBVIOUS
        <4>1. u.qpc < r.qpc /\ u.qpc \in Nat
          BY <1>3, <2>2 DEF Timed
        <4> QED BY <2>1, <2>2, <4>1
      <3>2. u = s \/ u \in Range(t)
        BY <1>2, <3>1 DEF taken
      <3> QED BY <1>4, <3>2
    <2> QED BY <1>2, <1>14, <2>1, <2>2 DEF FirstSwitch
  <1>15. \A w \in Range(k.out) : FirstSwitch(S, w.ready, w.switch)
    BY <1>3, <1>9, <1>12, <1>14 DEF Reported
  <1>16. ASSUME NEW r \in R \ (Range(k.ready) \union Range(k.waiting)), NEW u \in S,
                FirstSwitch(S, r, u), u.qpc - r.qpc <= Window
         PROVE  \E w \in Range(k.out) : w.ready = r /\ w.switch = u
    <2>1. CASE r \notin Range(j.waiting)
      <3>1. r \in R \ (Range(j.ready) \union Range(j.waiting))
        BY <1>11, <2>1
      <3>2. \E w \in Range(j.out) : w.ready = r /\ w.switch = u
        BY <1>3, <1>16, <3>1
      <3> QED BY <1>12, <3>2
    <2>2. CASE r \in Range(j.waiting)
      <3>1. r.about = s.about
        BY <1>9, <1>11, <1>16, <2>2
      <3>2. FirstSwitch(S, r, s)
        BY <1>14, <2>2, <3>1
      <3>3. u = s \/ (Before(u, s) /\ Before(s, u))
        BY <1>2, <1>16, <3>2 DEF FirstSwitch
      <3>4. u.qpc \in Nat /\ u.seq \in Nat /\ s.qpc \in Nat /\ s.seq \in Nat
        BY <1>2 DEF Timed
      <3>5. u = s
        BY <3>3, <3>4 DEF Before
      <3>6. r \in Range(due)
        BY <1>9, <1>16, <2>2, <3>1, <3>5
      <3>7. [ready |-> r, switch |-> s] \in Range(k.out)
        BY <1>12, <3>6 DEF Reported
      <3> QED BY <3>5, <3>7
    <2> QED BY <2>1, <2>2
  <1>17. \A r \in Range(k.waiting), u \in Range(k.switch) : r.qpc <= u.qpc
    BY <1>2, <1>3, <1>9, <1>11
  <1>18. ASSUME NEW u \in S \ Range(k.switch)
         PROVE  /\ \A v \in Range(k.switch) : Before(u, v)
                /\ \A r \in Range(k.ready) : u.qpc < r.qpc
                /\ \A r \in Range(k.waiting) : u.about # r.about \/ u.qpc < r.qpc
    <2>1. CASE u = s
      BY <1>4, <1>5, <1>9, <1>11, <2>1
    <2>2. CASE u \in taken
      BY <1>2, <1>3, <1>9, <1>11, <2>2
    <2> QED BY <1>13, <2>1, <2>2
  <1>19. InTimeOrder(k.ready) /\ InTimeOrder(k.switch)
    BY <1>3, <1>4, <1>11
  <1>20. MergedAll(R, S, k)
    BY <1>15, <1>16, <1>17, <1>18, <1>19 DEF MergedAll
  <1> QED BY <1>20 DEF k

-----------------------------------------------------------------------------
(* What is joined *)

\* Stored rows have the numbers that order them.
LEMMA StoredTimed ==
  ASSUME WriterInv, ReaderInv, NEW c \in Classes
  PROVE  Timed(Stored(c))
  <1> SUFFICES ASSUME NEW r \in Stored(c) PROVE r.qpc \in Nat /\ r.seq \in Nat
    BY DEF Timed
  <1>1. PICK a \in Entries(c) : SameEvent(r, a.row)
    BY DEF ReaderInv, Located, OfEvents
  <1>2. a.row.qpc \in Nat
    BY EntriesTimed DEF ReaderInv
  <1>3. a.row.seq \in Nat
    BY DEF WriterInv, Numbered, Entries, Range
  <1> QED BY <1>1, <1>2, <1>3 DEF SameEvent

\* A sorted batch has the same rows, once each.
LEMMA SortedFacts ==
  ASSUME NEW X, Timed(X), NEW t \in Seq(X), Ordered(t, OtherEvent(X))
  PROVE  /\ SortByEventTime(t) \in Seq(X)
         /\ Range(SortByEventTime(t)) = Range(t)
         /\ Ordered(SortByEventTime(t), OtherEvent(X))
  <1> DEFINE B == {p \in Range(t) \X Range(t) : Before(p[1], p[2])}
             R == OtherEvent(X)
  <1>1. \A i \in DOMAIN t : t[i] \in X /\ t[i] \in Range(t) /\ i \in Int
    BY ElementOfSeq, LenProperties DEF Range
  <1>2. \A i, j \in DOMAIN t : <<t[i], t[j]>> \in B <=> Before(t[i], t[j])
    BY <1>1
  <1>3. \A i \in DOMAIN t : t[i].qpc \in Nat /\ t[i].seq \in Nat
    BY <1>1 DEF Timed
  <1>4. \A i, j \in DOMAIN t : i # j => t[i].seq # t[j].seq
    <2>1. \A i, j \in DOMAIN t : i < j => t[i].seq # t[j].seq
      BY DEF Ordered, OtherEvent
    <2> SUFFICES ASSUME NEW i \in DOMAIN t, NEW j \in DOMAIN t, i # j PROVE t[i].seq # t[j].seq
      OBVIOUS
    <2>2. i < j \/ j < i
      BY <1>1
    <2> QED BY <2>1, <2>2
  <1>5. \A i, j \in DOMAIN t : i # j => <<t[i], t[j]>> \in R
    BY <1>1, <1>4 DEF OtherEvent
  <1>6. \A i \in DOMAIN t : ~Before(t[i], t[i])
    BY <1>3 DEF Before
  <1>7. \A i, j \in DOMAIN t : i # j => Before(t[i], t[j]) \/ Before(t[j], t[i])
    BY <1>3, <1>4 DEF Before
  <1>8. \A i, j, k \in DOMAIN t : Before(t[i], t[j]) /\ Before(t[j], t[k]) => Before(t[i], t[k])
    BY <1>3 DEF Before
  <1> HIDE DEF B, R
  <1>9. /\ \A i \in DOMAIN t : <<t[i], t[i]>> \notin B
        /\ \A i, j \in DOMAIN t : i # j => <<t[i], t[j]>> \in B \/ <<t[j], t[i]>> \in B
        /\ \A i, j, k \in DOMAIN t : <<t[i], t[j]>> \in B /\ <<t[j], t[k]>> \in B => <<t[i], t[k]>> \in B
    BY <1>2, <1>6, <1>7, <1>8
  <1>10. /\ Arranged(t, B) \in Seq(X) /\ Range(Arranged(t, B)) = Range(t) /\ Ordered(Arranged(t, B), R)
    BY <1>5, <1>9, ArrangedFacts
  <1> QED BY <1>10 DEF SortByEventTime, B, R

\* What is streamed of a class is what is stored of it, each row once.
LEMMA StreamedFacts ==
  ASSUME WriterInv, ReaderInv, phase \in {"committed", "joining", "joined"}, NEW c \in Classes,
         NEW size \in BatchSizes
  PROVE  /\ Streamed(c, size) \in Seq(Stored(c))
         /\ Range(Streamed(c, size)) = Stored(c)
         /\ Ordered(Streamed(c, size), OtherEvent(Stored(c)))
  <1> DEFINE X == Stored(c)
             R == OtherEvent(X)
             bs == Batches(final, c, NoFilter, size)
             T == {t \in Seq(X) : Ordered(t, R)}
             G == [t \in T |-> SortByEventTime(t)]
             ss == Mapped(bs, G)
  <1>1. TypedFilter(NoFilter) /\ Wanted(c, NoFilter) = X
    BY DEF TypedFilter, Wanted, NoFilter, Asked
  <1>2. bs \in Seq(Seq(X)) /\ Range(FlattenSeq(bs)) = X /\ Ordered(FlattenSeq(bs), R)
    <2>1. bs \in Seq(Seq(X)) /\ FlattenSeq(bs) = Scan(final, c, NoFilter)
      BY <1>1, BatchesFacts
    <2>2. Range(Scan(final, c, NoFilter)) = Wanted(c, NoFilter) /\ Ordered(Scan(final, c, NoFilter), R)
      BY <1>1, ScanFacts
    <2> QED BY <1>1, <2>1, <2>2
  <1>3. Timed(X)
    BY StoredTimed
  <1> HIDE DEF X, bs
  <1>4. (\A t \in Range(bs) : Ordered(t, R)) /\ Ordered(bs, Follow(X, R))
    BY <1>2, FlattenOrderedParts
  <1>5. \A t \in T : SortByEventTime(t) \in T /\ Range(SortByEventTime(t)) = Range(t)
    BY <1>3, SortedFacts
  <1>6. G \in [T -> T]
    BY <1>5
  <1>7. bs \in Seq(T) /\ \A k \in DOMAIN bs : bs[k] \in T /\ bs[k] \in Range(bs)
    <2>1. DOMAIN bs = 1 .. Len(bs) /\ Len(bs) \in Nat /\ bs = [k \in 1 .. Len(bs) |-> bs[k]]
      BY <1>2, LenProperties
    <2>2. \A k \in 1 .. Len(bs) : bs[k] \in Seq(X) /\ bs[k] \in Range(bs)
      BY <1>2, <2>1, ElementOfSeq DEF Range
    <2>3. \A k \in 1 .. Len(bs) : bs[k] \in T
      BY <1>4, <2>2
    <2> HIDE DEF T
    <2>4. bs \in [1 .. Len(bs) -> T]
      BY <2>1, <2>3
    <2>5. bs \in Seq(T)
      BY <2>1, <2>4, FunIsSeq
    <2> QED BY <2>1, <2>2, <2>3, <2>5
  <1>8. ss \in Seq(T)
    <2> HIDE DEF T, G
    <2> QED BY <1>6, <1>7, MappedFacts
  <1>9. DOMAIN ss = DOMAIN bs /\ \A k \in DOMAIN bs : ss[k] = SortByEventTime(bs[k])
    BY <1>7 DEF Mapped
  <1>10. \A k \in DOMAIN bs : ss[k] \in T /\ Range(ss[k]) = Range(bs[k])
    BY <1>5, <1>7, <1>9
  <1>11. Streamed(c, size) = FlattenSeq(ss)
    <2> HIDE DEF ss, G, T
    <2>1. ss = [k \in DOMAIN bs |-> SortByEventTime(bs[k])]
      BY <1>9 DEF ss, Mapped
    <2> QED BY <2>1 DEF Streamed, bs
  <1>12. ss \in Seq(Seq(X))
    <2>1. DOMAIN ss = 1 .. Len(ss) /\ Len(ss) \in Nat /\ ss = [k \in 1 .. Len(ss) |-> ss[k]]
      BY <1>8, LenProperties
    <2>2. \A k \in 1 .. Len(ss) : ss[k] \in Seq(X)
      BY <1>9, <1>10, <2>1
    <2> HIDE DEF ss
    <2>3. ss \in [1 .. Len(ss) -> Seq(X)]
      BY <2>1, <2>2
    <2> QED BY <2>1, <2>3, FunIsSeq
  <1> HIDE DEF ss, G
  <1>13. \A t \in Range(ss) : Ordered(t, R)
    BY <1>9, <1>10 DEF Range
  <1>14. Ordered(ss, Follow(X, R))
    <2> SUFFICES ASSUME NEW i \in DOMAIN ss, NEW j \in DOMAIN ss, i < j PROVE <<ss[i], ss[j]>> \in Follow(X, R)
      BY DEF Ordered
    <2>1. <<bs[i], bs[j]>> \in Follow(X, R)
      BY <1>4, <1>9 DEF Ordered
    <2>2. /\ ss[i] \in Seq(X) /\ ss[j] \in Seq(X)
          /\ Range(ss[i]) = Range(bs[i]) /\ Range(ss[j]) = Range(bs[j])
      BY <1>9, <1>10
    <2> QED BY <2>1, <2>2 DEF Follow
  <1>15. Range(FlattenSeq(ss)) = Range(FlattenSeq(bs))
    <2>1. {Range(t) : t \in Range(ss)} = {Range(t) : t \in Range(bs)}
      <3>1. /\ \A t \in Range(ss) : \E k \in DOMAIN ss : t = ss[k]
            /\ \A k \in DOMAIN ss : ss[k] \in Range(ss)
        BY DEF Range
      <3>2. /\ \A u \in Range(bs) : \E k \in DOMAIN bs : u = bs[k]
            /\ \A k \in DOMAIN bs : bs[k] \in Range(bs)
        BY DEF Range
      <3> QED BY <1>9, <1>10, <3>1, <3>2
    <2> QED BY <1>2, <1>12, <2>1, FlattenRange
  <1>16. /\ FlattenSeq(ss) \in Seq(X) /\ Ordered(FlattenSeq(ss), R)
    BY <1>12, <1>13, <1>14, FlattenedSeq, FlattenOrdered
  <1> QED BY <1>2, <1>11, <1>15, <1>16 DEF X

\* Nothing of a join happens before it starts.
LEMMA MergedElse ==
  ASSUME phase \notin {"joining", "joined"}, join.out = << >> PROVE Merged
  BY DEF Merged

\* A join starts with all rows of both classes to come.
LEMMA StartMerged ==
  ASSUME WriterInv, ReaderInv, NEW size \in BatchSizes, StartJoin(size)
  PROVE  Merged'
  <1> DEFINE R == Stored("ready")
             S == Stored("switch")
             k == [NoJoin EXCEPT !.size = size, !.ready = Streamed("ready", size), !.switch = Streamed("switch", size)]
  <1>1. /\ {"ready", "switch"} \subseteq Classes /\ phase = "committed" /\ phase' = "joining" /\ join' = k
        /\ UNCHANGED storeVars
    BY DEF StartJoin
  <1>2. /\ Streamed("ready", size) \in Seq(R) /\ Range(Streamed("ready", size)) = R
        /\ Ordered(Streamed("ready", size), OtherEvent(R))
    BY <1>1, StreamedFacts
  <1>3. /\ Streamed("switch", size) \in Seq(S) /\ Range(Streamed("switch", size)) = S
    BY <1>1, StreamedFacts
  <1>4. /\ DOMAIN k = DOMAIN NoJoin /\ k.size = size /\ k.ready = Streamed("ready", size)
        /\ k.switch = Streamed("switch", size) /\ k.waiting = << >> /\ k.out = << >>
    BY DEF NoJoin
  <1>5. R' = R /\ S' = S /\ \A c : Streamed(c, size)' = Streamed(c, size)
    BY <1>1 DEF Stored, FilesOf, Streamed, storeVars
  <1> HIDE DEF R, S, k
  <1>6. << >> \in Seq(R) /\ IsSeq(<< >>) /\ Range(<< >>) = {} /\ DOMAIN << >> = {}
    BY EmptySeq, EmptyFacts DEF IsSeq
  <1>7. ReadyRows(k.out) = << >>
    BY <1>4, <1>6 DEF ReadyRows
  <1>8. Apart(R, ReadyRows(k.out), k.waiting, k.ready)
    <2>1. Distinct(<< >>) /\ Distinct(k.ready)
      BY <1>2, <1>4, <1>6, DistinctIs DEF Distinct
    <2>2. \A s : Cross(<< >>, s, OtherEvent(R))
      BY <1>6 DEF Cross
    <2> QED BY <1>4, <1>7, <2>1, <2>2 DEF Apart
  <1>9. MergedOnce(R, S, k)
    BY <1>2, <1>3, <1>4, <1>6, <1>8, MergedParts
  <1>10. ASSUME InTimeOrder(k.ready), InTimeOrder(k.switch) PROVE MergedAll(R, S, k)
    <2>1. S \ Range(k.switch) = {} /\ R \ (Range(k.ready) \union Range(k.waiting)) = {}
      BY <1>2, <1>3, <1>4
    <2> QED BY <1>4, <1>6, <1>10, <2>1 DEF MergedAll
  <1>11. (\A c \in {"ready", "switch"} : InTimeOrder(Streamed(c, size)')) => MergedAll(R, S, k)
    BY <1>4, <1>5, <1>10
  <1>12. /\ MergedOnce(Stored("ready")', Stored("switch")', join')
         /\ join'.size = size
         /\ (\A c \in {"ready", "switch"} : InTimeOrder(Streamed(c, join.size)')) =>
              MergedAll(Stored("ready")', Stored("switch")', join')
    <2>1. join'.size = size /\ join' = k
      BY <1>1, <1>4
    <2>2. \A c : Streamed(c, join.size)' = Streamed(c, size)'
      BY <2>1 DEF Streamed
    <2> QED BY <1>5, <1>9, <1>11, <2>1, <2>2 DEF R, S
  <1> QED BY <1>1, <1>12 DEF Merged

\* A step of the join.
LEMMA GoesOnMerged ==
  ASSUME WriterInv, ReaderInv, Merged, phase = "joining", UNCHANGED storeVars,
         \/ /\ phase' = "joining"
            /\ \/ ReadyFirst /\ join' = AfterReady(join)
               \/ ~ReadyFirst /\ join.switch # << >> /\ join' = AfterSwitch(join)
         \/ UNCHANGED join /\ phase' = "joined" /\ join.ready = << >> /\ join.switch = << >>
  PROVE  Merged'
  <1> DEFINE R == Stored("ready")
             S == Stored("switch")
             InOrder == \A c \in {"ready", "switch"} : InTimeOrder(Streamed(c, join.size))
  <1>1. /\ {"ready", "switch"} \subseteq Classes /\ join.size \in BatchSizes
        /\ MergedOnce(R, S, join)
        /\ InOrder => MergedAll(R, S, join)
    BY DEF Merged
  <1>2. Timed(R) /\ Timed(S)
    BY <1>1, StoredTimed
  <1>3. R' = R /\ S' = S
    BY DEF Stored, FilesOf, storeVars
  <1>4. PICK k : k = join'
    OBVIOUS
  <1> HIDE DEF R, S
  <1>5. MergedOnce(R, S, k) /\ k.size = join.size /\ (MergedAll(R, S, join) => MergedAll(R, S, k))
    <2>1. CASE ReadyFirst /\ join' = AfterReady(join)
      <3>1. join.ready # << >> /\ (join.switch # << >> => join.ready[1].qpc <= join.switch[1].qpc)
        BY <2>1 DEF ReadyFirst
      <3>2. MergedOnce(R, S, AfterReady(join)) /\ AfterReady(join).size = join.size
        BY <1>1, <3>1, ReadyOnce
      <3>3. MergedAll(R, S, join) => MergedAll(R, S, AfterReady(join))
        BY <1>1, <1>2, <3>1, ReadyAll
      <3> QED BY <1>4, <2>1, <3>2, <3>3
    <2>2. CASE ~ReadyFirst /\ join.switch # << >> /\ join' = AfterSwitch(join)
      <3>1. join.ready # << >> => ~(join.ready[1].qpc <= join.switch[1].qpc)
        BY <2>2 DEF ReadyFirst
      <3>2. MergedOnce(R, S, AfterSwitch(join)) /\ AfterSwitch(join).size = join.size
        BY <1>1, <1>2, <2>2, SwitchOnce
      <3>3. MergedAll(R, S, join) => MergedAll(R, S, AfterSwitch(join))
        BY <1>1, <1>2, <2>2, <3>1, SwitchAll
      <3> QED BY <1>4, <2>2, <3>2, <3>3
    <2>3. CASE UNCHANGED join
      BY <1>1, <1>4, <2>3
    <2> QED BY <2>1, <2>2, <2>3
  <1>6. InOrder' = InOrder
    BY <1>4, <1>5 DEF Streamed, storeVars
  <1>7. phase' \in {"joining", "joined"} /\ (phase' = "joined" => join'.ready = << >> /\ join'.switch = << >>)
    OBVIOUS
  <1> HIDE DEF InOrder
  <1>8. /\ join'.size \in BatchSizes /\ MergedOnce(R', S', join')
        /\ (InOrder' => MergedAll(R', S', join'))
    BY <1>1, <1>3, <1>4, <1>5, <1>6
  <1> QED BY <1>1, <1>7, <1>8 DEF Merged, R, S, InOrder

\* Merged is inductive, on top of the invariants of writer and readers.
LEMMA MergedStep ==
  ASSUME WriterInv, ReaderInv, Merged, [Next]_vars
  PROVE  Merged'
  <1>1. CASE \E size \in BatchSizes : StartJoin(size)
    BY <1>1, StartMerged
  <1>2. CASE TakeReady \/ TakeSwitch \/ EndJoin
    BY <1>2, GoesOnMerged DEF TakeReady, TakeSwitch, EndJoin, storeVars
  <1>3. CASE UNCHANGED vars
    <2>1. UNCHANGED <<phase, join, storeVars>>
      BY <1>3 DEF vars, extractVars
    <2>2. \A c : Stored(c)' = Stored(c) /\ Streamed(c, join.size)' = Streamed(c, join.size)
      BY <2>1 DEF Stored, FilesOf, Streamed, storeVars
    <2> QED BY <2>1, <2>2 DEF Merged
  <1>4. CASE \/ \E e \in Inputs : OnStackWalk(e) \/ OnHeader(e) \/ OnStackable(e) \/ OnOther(e) \/ OnPlain(e)
             \/ EndOfTrace \/ Drain \/ CloseWriter \/ CommitManifest \/ CommitPromote \/ Killed
    <2>1. UNCHANGED join /\ phase \notin {"joining", "joined"} /\ phase' \notin {"joining", "joined"}
      BY <1>4 DEF OnStackWalk, OnHeader, OnStackable, OnOther, OnPlain, Delivered, EndOfTrace, Drain,
                  CloseWriter, CommitManifest, CommitPromote, Killed
    <2>2. join.out = << >>
      BY <2>1 DEF Merged
    <2> QED BY <2>1, <2>2 DEF Merged
  <1> QED BY <1>1, <1>2, <1>3, <1>4 DEF Next

\* A join of the accessors reports each wait once, and misses none where rows come
\* in order: at every step, for every trace, window and batch size.
THEOREM JoinsAreOrderly == Spec => []Merged
  <1>1. Init => Merged
    BY DEF Init, Merged, NoJoin
  <1>2. WriterInv /\ ReaderInv /\ Merged /\ [Next]_vars => Merged'
    BY MergedStep
  <1> QED BY <1>1, <1>2, WriterIsSound, StoreIsIndexed, PTL DEF Spec

\* Each entry has its row in a store that is committed.
LEMMA EntryStored ==
  ASSUME WriterInv, ReaderInv, phase \in {"committed", "joining", "joined"}, NEW c \in Classes, NEW a \in Entries(c)
  PROVE  \E r \in Stored(c) : SameEvent(r, a.row)
  <1>1. /\ OfEvents(Stored(c), c)
        /\ Stored(c) = UNION {Range(g.rows) : g \in final.files[c]}
        /\ {d.row.seq : d \in Entries(c)} = UNION {Seqs(g.rows) : g \in final.files[c]}
    BY Committed
  <1>2. PICK g \in final.files[c] : a.row.seq \in Seqs(g.rows)
    BY <1>1
  <1>3. PICK r \in Range(g.rows) : r.seq = a.row.seq
    BY <1>2 DEF Seqs, Range
  <1>4. r \in Stored(c)
    BY <1>1, <1>3
  <1>5. PICK b \in Entries(c) : SameEvent(r, b.row)
    BY <1>1, <1>4 DEF OfEvents
  <1>6. b = a
    <2>1. b.row.seq = a.row.seq
      BY <1>3, <1>5 DEF SameEvent
    <2> QED BY <2>1 DEF Entries, Range, ReaderInv, Decoded
  <1> QED BY <1>4, <1>5, <1>6

\* The first switch among the stored rows is the one among the entries.
LEMMA FirstIsSwitched ==
  ASSUME WriterInv, ReaderInv, phase = "joined", "switch" \in Classes,
         NEW r, NEW a, SameEvent(r, a.row), NEW s \in Stored("switch"), NEW b \in Entries("switch"), SameEvent(s, b.row)
  PROVE  FirstSwitch(Stored("switch"), r, s) <=> b.row \in Switched(a.row)
  <1> DEFINE S == Stored("switch")
             E == Entries("switch")
  <1>1. \A d \in E : \E u \in S : SameEvent(u, d.row)
    BY EntryStored
  <1>2. \A u \in S : \E d \in E : SameEvent(u, d.row)
    BY DEF ReaderInv, Located, OfEvents
  <1>3. \A d, e \in E : d.row.seq = e.row.seq => d = e
    BY DEF Entries, Range, ReaderInv, Decoded
  <1>4. \A u, v \in S : u.seq = v.seq => u = v
    <2>2. TypedFilter(NoFilter) /\ Wanted("switch", NoFilter) = S
      BY DEF TypedFilter, Wanted, NoFilter, Asked
    <2>3. PICK t : t = Scan(final, "switch", NoFilter)
      OBVIOUS
    <2>4. t \in Seq(S) /\ Range(t) = S /\ Ordered(t, OtherEvent(S))
      BY <2>2, <2>3, ScanFacts
    <2> HIDE DEF S
    <2> QED BY <2>4, SameRow
  <1> DEFINE to == {u \in S : u.about = r.about /\ u.qpc >= r.qpc}
             at == {d \in E : d.row.about = a.row.about /\ d.row.qpc >= a.row.qpc}
  <1>5. FirstSwitch(S, r, s) <=> s \in to /\ \A u \in to : u = s \/ Before(s, u)
    BY DEF FirstSwitch
  <1>6. b.row \in Switched(a.row) <=> b.row \in {d.row : d \in at} /\ \A d \in at : b.row = d.row \/ Before(b.row, d.row)
    BY DEF Switched
  <1>7. \A u, d : SameEvent(u, d.row) => (u.about = r.about /\ u.qpc >= r.qpc <=> d.row.about = a.row.about /\ d.row.qpc >= a.row.qpc)
    BY DEF SameEvent
  <1>8. \A u, d : SameEvent(u, d.row) => (Before(s, u) <=> Before(b.row, d.row))
    BY DEF SameEvent, Before
  <1>9. s \in to <=> b \in at
    BY <1>7
  <1>10. b \in at <=> b.row \in {d.row : d \in at}
    <2>1. ASSUME b.row \in {d.row : d \in at} PROVE b \in at
      <3>1. PICK d \in at : b.row = d.row
        BY <2>1
      <3> QED BY <1>3, <3>1
    <2> QED BY <2>1
  <1>11. (\A u \in to : u = s \/ Before(s, u)) <=> (\A d \in at : b.row = d.row \/ Before(b.row, d.row))
    <2>1. ASSUME \A u \in to : u = s \/ Before(s, u), NEW d \in at
          PROVE  b.row = d.row \/ Before(b.row, d.row)
      <3>1. PICK u \in S : SameEvent(u, d.row)
        BY <1>1
      <3>2. u \in to
        BY <1>7, <3>1
      <3>3. CASE u = s
        <4>1. d.row.seq = b.row.seq
          BY <3>1, <3>3 DEF SameEvent
        <4> QED BY <1>3, <4>1
      <3> QED BY <1>8, <2>1, <3>1, <3>2, <3>3
    <2>2. ASSUME \A d \in at : b.row = d.row \/ Before(b.row, d.row), NEW u \in to
          PROVE  u = s \/ Before(s, u)
      <3>1. PICK d \in E : SameEvent(u, d.row)
        BY <1>2
      <3>2. d \in at
        BY <1>7, <3>1
      <3>3. CASE b.row = d.row
        <4>1. u.seq = s.seq
          BY <3>1, <3>3 DEF SameEvent
        <4> QED BY <1>4, <4>1
      <3> QED BY <1>8, <2>2, <3>1, <3>2, <3>3
    <2> QED BY <2>1, <2>2
  <1> QED BY <1>5, <1>6, <1>9, <1>10, <1>11

\* JoinExact follows at any moment.
LEMMA ExactJoins ==
  ASSUME WriterInv, ReaderInv, Merged
  PROVE  JoinExact
  <1> DEFINE R == Stored("ready")
             S == Stored("switch")
             Pairs1 == {<<w[1].seq, w[2].seq>> : w \in Waits}
  <1>1. CASE phase \notin {"joining", "joined"}
    <2>1. join.out = << >>
      BY <1>1 DEF Merged
    <2> QED BY <1>1, <2>1, EmptyFacts DEF JoinExact
  <1>2. CASE phase \in {"joining", "joined"}
    <2>1. /\ {"ready", "switch"} \subseteq Classes /\ join.size \in BatchSizes
          /\ MergedOnce(R, S, join)
          /\ (\A c \in {"ready", "switch"} : InTimeOrder(Streamed(c, join.size))) => MergedAll(R, S, join)
          /\ phase = "joined" => join.ready = << >> /\ join.switch = << >>
      BY <1>2 DEF Merged
    <2>2. /\ \A w \in Range(join.out) :
               /\ w.ready \in R /\ w.switch \in S /\ w.ready.about = w.switch.about
               /\ w.switch.qpc - w.ready.qpc \in 0..Window
          /\ Apart(R, ReadyRows(join.out), join.waiting, join.ready)
      BY <2>1, MergedParts
    <2>3. \A i, j \in DOMAIN join.out : join.out[i].ready.seq = join.out[j].ready.seq => i = j
      BY <2>2 DEF Apart, Distinct, ReadyRows
    <2>4. ASSUME phase = "joined", \A c \in {"ready", "switch"} : InTimeOrder(Streamed(c, join.size))
          PROVE  Joined = Pairs1
      <3>1. Range(join.ready) = {} /\ Range(join.switch) = {} /\ MergedAll(R, S, join)
        BY <2>1, <2>4, EmptyFacts
      <3>2. /\ \A r \in Range(join.waiting), t \in S : t.about # r.about \/ t.qpc < r.qpc
            /\ \A w \in Range(join.out) : FirstSwitch(S, w.ready, w.switch)
            /\ \A r \in R \ Range(join.waiting), t \in S :
                 FirstSwitch(S, r, t) /\ t.qpc - r.qpc <= Window =>
                   \E w \in Range(join.out) : w.ready = r /\ w.switch = t
        BY <3>1 DEF MergedAll
      <3>3. /\ \A r \in R : \E a \in Entries("ready") : SameEvent(r, a.row)
            /\ \A s \in S : \E b \in Entries("switch") : SameEvent(s, b.row)
        BY <2>1 DEF ReaderInv, Located, OfEvents
      <3>4. /\ \A a \in Entries("ready") : \E r \in R : SameEvent(r, a.row)
            /\ \A b \in Entries("switch") : \E s \in S : SameEvent(s, b.row)
        BY <2>1, <2>4, EntryStored
      <3>5. \A r, a, s, b : SameEvent(r, a.row) /\ s \in S /\ b \in Entries("switch") /\ SameEvent(s, b.row) =>
              (FirstSwitch(S, r, s) <=> b.row \in Switched(a.row))
        BY <2>1, <2>4, FirstIsSwitched
      <3>6. Timed(R) /\ Timed(S)
        BY <2>1, StoredTimed
      <3> HIDE DEF R, S
      <3>7. ASSUME NEW w \in Range(join.out) PROVE <<w.ready.seq, w.switch.seq>> \in Pairs1
        <4>1. PICK a \in Entries("ready") : SameEvent(w.ready, a.row)
          BY <2>2, <3>3
        <4>2. PICK b \in Entries("switch") : SameEvent(w.switch, b.row)
          BY <2>2, <3>3
        <4>3. b.row \in Switched(a.row)
          BY <2>2, <3>2, <3>5, <4>1, <4>2
        <4>4. b.row.qpc - a.row.qpc <= Window
          BY <2>2, <4>1, <4>2, ExtractAssumption DEF SameEvent
        <4>5. <<a.row, b.row>> \in Waits
          BY <4>3, <4>4 DEF Waits
        <4>6. w.ready.seq = a.row.seq /\ w.switch.seq = b.row.seq
          BY <4>1, <4>2 DEF SameEvent
        <4>7. PICK p \in Waits : p = <<a.row, b.row>>
          BY <4>5
        <4>8. p[1].seq = w.ready.seq /\ p[2].seq = w.switch.seq
          BY <4>6, <4>7
        <4> QED BY <4>8
      <3>8. ASSUME NEW p \in Waits PROVE \E w \in Range(join.out) : w.ready.seq = p[1].seq /\ w.switch.seq = p[2].seq
        <4>1. PICK a \in Entries("ready"), b \in Entries("switch") :
                p = <<a.row, b.row>> /\ b.row \in Switched(a.row) /\ b.row.qpc - a.row.qpc <= Window
          BY DEF Waits
        <4>2. PICK r \in R : SameEvent(r, a.row)
          BY <3>4
        <4>3. PICK s \in S : SameEvent(s, b.row)
          BY <3>4
        <4>4. FirstSwitch(S, r, s)
          BY <3>5, <4>1, <4>2, <4>3
        <4>5. s.qpc - r.qpc <= Window
          BY <4>1, <4>2, <4>3 DEF SameEvent
        <4>6. r \notin Range(join.waiting)
          <5>1. s.about = r.about /\ s.qpc >= r.qpc
            BY <4>4 DEF FirstSwitch
          <5>2. s.qpc \in Nat /\ r.qpc \in Nat
            BY <3>6 DEF Timed
          <5>3. ~(s.qpc < r.qpc)
            BY <5>1, <5>2
          <5> QED BY <3>2, <5>1, <5>3
        <4>7. PICK w \in Range(join.out) : w.ready = r /\ w.switch = s
          BY <3>2, <4>4, <4>5, <4>6
        <4> QED BY <4>1, <4>2, <4>3, <4>7 DEF SameEvent
      <3> QED BY <3>7, <3>8 DEF Joined
    <2> QED BY <2>2, <2>3, <2>4 DEF JoinExact
  <1> QED BY <1>1, <1>2

\* Each wait is reported once, and all of them are where rows come in order.
THEOREM JoinsAreExact == Spec => []JoinExact
  BY WriterIsSound, StoreIsIndexed, JoinsAreOrderly, ExactJoins, PTL
=============================================================================
