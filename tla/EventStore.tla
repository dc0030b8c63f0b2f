---------------------------- MODULE EventStore ----------------------------
(***************************************************************************)
(* The chunked event store of the native pipeline: one writer that builds  *)
(* a generation under native-store/staging/<run>, commits it by a rename   *)
(* to native-store/generations/<run>, and readers that validate the        *)
(* generation and scan it with CPU and time filters.                       *)
(* Sources: native/event_store.py (writer, manifest, scan) and             *)
(* native/sinks.py (part files).                                           *)
(*                                                                         *)
(* A row is what the properties need of it: the number of its event, its   *)
(* raw QPC time, CPU, thread and stack.  A part is the rows of one parquet *)
(* file with the metadata the manifest keeps of it.                        *)
(***************************************************************************)
EXTENDS RowSequences

CONSTANTS
  Classes,      \* event classes of the run (datasets of the store)
  MaxRows,      \* max_rows_per_part
  MaxBytes,     \* max_bytes_per_part
  None,         \* no value
  Freq,         \* QPC ticks per second
  Den           \* seconds in filters are multiples of 1/Den

ASSUME StoreAssumption ==
  /\ MaxRows \in Nat \ {0}
  /\ MaxBytes \in Nat \ {0}
  /\ Freq \in Nat \ {0}
  /\ Den \in Nat \ {0}

VARIABLES
  buffer,       \* [Classes -> Seq(row)]: ParquetBatchWriter._rows
  parts,        \* [Classes -> Seq(part)]: ParquetBatchWriter.parts
  nextPart,     \* [Classes -> Nat]: ParquetBatchWriter._part_index
  staging,      \* the working directory of the generation
  final         \* the generation directory that readers open

storeVars == <<buffer, parts, nextPart, staging, final>>

(***************************************************************************)
(* Part files (sinks.py)                                                   *)
(***************************************************************************)

\* _approx_row_bytes: a row with a stack is the larger one.
RowBytes(row) == IF row.stack = None THEN 1 ELSE 2

BufferBytes(rows) == FoldSeq(LAMBDA row, sum : sum + RowBytes(row), 0, rows)

Times(rows) == {rows[i].qpc : i \in DOMAIN rows}

Least(S) == CHOOSE t \in S : \A u \in S : t <= u

Greatest(S) == CHOOSE t \in S : \A u \in S : u <= t

\* The WrittenPart that flush records of the rows it writes.
PartOf(index, rows) ==
  [index |-> index, count |-> Len(rows),
   min |-> Least(Times(rows)), max |-> Greatest(Times(rows))]

PartDue(rows) == Len(rows) >= MaxRows \/ BufferBytes(rows) >= MaxBytes

\* ParquetBatchWriter.flush: the rows leave the buffer and the index is taken
\* before the file is written, whether or not the write then works.
Flush(c, rows, works) ==
  IF rows = << >>
    THEN UNCHANGED <<buffer, parts, nextPart, staging>>
    ELSE /\ buffer' = [buffer EXCEPT ![c] = << >>]
         /\ nextPart' = [nextPart EXCEPT ![c] = @ + 1]
         /\ IF works
              THEN /\ parts' = [parts EXCEPT ![c] = Append(@, PartOf(nextPart[c], rows))]
                   /\ staging' = [staging EXCEPT !.files[c] =
                                    @ \union {[index |-> nextPart[c], rows |-> rows]}]
              ELSE UNCHANGED <<parts, staging>>

\* NativeEventStoreWriter.append through ParquetBatchWriter.append.
AppendRow(c, row, works) ==
  LET rows == Append(buffer[c], row)
  IN IF PartDue(rows)
       THEN Flush(c, rows, works)
       ELSE /\ buffer' = [buffer EXCEPT ![c] = rows]
            /\ UNCHANGED <<parts, nextPart, staging>>

(***************************************************************************)
(* The generation (event_store.py)                                         *)
(***************************************************************************)

\* A generation directory; it is sealed once its manifest is there.
NewDir ==
  [exists |-> TRUE, files |-> [c \in Classes |-> {}], sealed |-> FALSE, manifest |-> None]

NoDir == [NewDir EXCEPT !.exists = FALSE]

StoreInit ==
  /\ buffer = [c \in Classes |-> << >>]
  /\ parts = [c \in Classes |-> << >>]
  /\ nextPart = [c \in Classes |-> 0]
  /\ staging = NewDir
  /\ final = NoDir

DatasetRows(dataset) == FoldSeq(LAMBDA part, sum : sum + part.count, 0, dataset)

\* _dataset_manifest for every class the writer was opened for.
Manifest(origin) ==
  [origin |-> origin,
   parts |-> parts,
   count |-> [c \in Classes |-> DatasetRows(parts[c])]]

\* _write_store_manifest: a temporary file renamed into place.
WriteManifest(origin) ==
  /\ staging' = [staging EXCEPT !.sealed = TRUE, !.manifest = Manifest(origin)]
  /\ UNCHANGED <<buffer, parts, nextPart, final>>

\* Mutant: the generation is moved before its manifest.
PromoteBare ==
  /\ ~final.exists
  /\ final' = [staging EXCEPT !.sealed = FALSE]
  /\ staging' = NoDir
  /\ UNCHANGED <<buffer, parts, nextPart>>

\* The rename of commit: the generation appears whole or not at all.
Promote ==
  /\ ~final.exists
  /\ final' = staging
  /\ staging' = NoDir
  /\ UNCHANGED <<buffer, parts, nextPart>>

\* NativeEventStore.validate: every listed part is there with the rows the
\* manifest counts, the counts add up, and no part is there unlisted.
Valid(dir) ==
  /\ dir.sealed
  /\ \A c \in Classes :
       LET listed == dir.manifest.parts[c]
       IN /\ \A i \in DOMAIN listed :
               \E file \in dir.files[c] :
                 file.index = listed[i].index /\ Len(file.rows) = listed[i].count
          /\ DatasetRows(listed) = dir.manifest.count[c]
          /\ {file.index : file \in dir.files[c]}
               \subseteq {listed[i].index : i \in DOMAIN listed}

(***************************************************************************)
(* Reading: EventFilters, scan, iter_batches                               *)
(***************************************************************************)

\* A filter is [cpus, from, to]: cpus = {} restricts nothing, exactly as no
\* filter does; from and to are numbers of 1/Den seconds, or None.
CeilDiv(a, b) == -((-a) \div b)

\* start_seconds_to_qpc rounds up and end_seconds_to_qpc down.
StartQpc(origin, f) ==
  IF f.from = None THEN None ELSE CeilDiv(origin * Den + f.from * Freq, Den)

EndQpc(origin, f) ==
  IF f.to = None THEN None ELSE (origin * Den + f.to * Freq) \div Den

\* Mutant: parts that end where the range begins are skipped.
ExcludedAtBounds(part, start, end) ==
  \/ start # None /\ part.max <= start
  \/ end # None /\ part.min >= end

\* _part_excluded_by_qpc.
Excluded(part, start, end) ==
  \/ start # None /\ part.max < start
  \/ end # None /\ part.min > end

\* _apply_row_filters.
Kept(row, cpus, start, end) ==
  /\ start # None => row.qpc >= start
  /\ end # None => row.qpc <= end
  /\ cpus # {} => row.cpu \in cpus

KeptRows(rows, cpus, start, end) == Select(rows, {r \in Range(rows) : Kept(r, cpus, start, end)})

\* The parts that are read at all.
Read(dir, c, start, end) ==
  LET listed == dir.manifest.parts[c]
  IN Select(listed, {part \in Range(listed) : ~Excluded(part, start, end)})

FileOf(dir, c, part) == CHOOSE file \in dir.files[c] : file.index = part.index

\* scan: the rows of the parts that are read, then filtered as one table.
Scan(dir, c, f) ==
  LET start == StartQpc(dir.manifest.origin, f)
      end == EndQpc(dir.manifest.origin, f)
      read == Read(dir, c, start, end)
  IN KeptRows(FlattenSeq([i \in DOMAIN read |-> FileOf(dir, c, read[i]).rows]), f.cpus, start, end)

\* The batches of at most size rows that pyarrow cuts a part into.
Chunks(rows, size) ==
  [k \in 1..CeilDiv(Len(rows), size) |->
     SubSeq(rows, (k - 1) * size + 1,
            IF k * size < Len(rows) THEN k * size ELSE Len(rows))]

\* iter_batches: every batch filtered by itself, empty ones not given out.
Batches(dir, c, f, size) ==
  LET start == StartQpc(dir.manifest.origin, f)
      end == EndQpc(dir.manifest.origin, f)
      read == Read(dir, c, start, end)
      cut == FlattenSeq([i \in DOMAIN read |-> Chunks(FileOf(dir, c, read[i]).rows, size)])
      kept == [k \in DOMAIN cut |-> KeptRows(cut[k], f.cpus, start, end)]
  IN Select(kept, Range(kept) \ {<< >>})
=============================================================================
