--------------------------- MODULE EventToolsProofs ---------------------------
(***************************************************************************)
(* The tools that rebuild histories from events.  For any number of calls  *)
(* and versions of a trace, what a tool takes from the converted packets   *)
(* kept beside it is whole and of the trace as it is.  For captures of any *)
(* rows, and batches of any size, sends and receives are paired as the     *)
(* queues promise, the journeys of packets that can be told apart are put  *)
(* together from their own rows, and the gaps between the connects or      *)
(* accepts are those between a row of a thread and its next, and no other. *)
(* For traces of any requests and connections, whichever of their events   *)
(* are missing, what the tools of HTTP.sys and MsQuic say of them is so.   *)
(***************************************************************************)
EXTENDS PacketCapture, NetworkEvents, AppLayer, RowSequenceProofs

-----------------------------------------------------------------------------
(* The converted packets of a trace *)

\* None is no version, and nothing a file may hold.
LEMMA NoneIsNoNumber == None \notin Nat /\ \A v \in Nat, w \in BOOLEAN : None # [of |-> v, whole |-> w]
  BY PacketCaptureAssumption

\* Changing one of the kept files.
LEMMA FileChanged ==
  ASSUME FileShape, NEW f \in KeptFiles, NEW content, NEW stamp,
         disk' = [disk EXCEPT ![f] = [content |-> content, stamp |-> stamp]]
  PROVE  /\ disk' = [g \in KeptFiles |-> [content |-> disk'[g].content, stamp |-> disk'[g].stamp]]
         /\ disk'[f].content = content /\ disk'[f].stamp = stamp
         /\ \A g \in KeptFiles \ {f} : disk'[g] = disk[g]
<1>1. disk = [g \in KeptFiles |-> disk[g]]
  BY DEF FileShape
<1>2. \A g \in KeptFiles : disk[g] = [content |-> disk[g].content, stamp |-> disk[g].stamp]
  BY DEF FileShape
<1>3. disk' = [g \in KeptFiles |->
                 IF g = f THEN [content |-> content, stamp |-> stamp] ELSE disk[g]]
  BY <1>1
<1>4. disk'[f] = [content |-> content, stamp |-> stamp]
  BY <1>3
<1>5. \A g \in KeptFiles \ {f} : disk'[g] = disk[g]
  BY <1>3
<1>6. \A g \in KeptFiles : disk'[g] = [content |-> disk'[g].content, stamp |-> disk'[g].stamp]
  BY <1>2, <1>4, <1>5
<1>7. disk' = [g \in KeptFiles |-> disk'[g]]
  BY <1>3
<1>8. disk' = [g \in KeptFiles |-> [content |-> disk'[g].content, stamp |-> disk'[g].stamp]]
  BY <1>6, <1>7
<1> QED BY <1>4, <1>5, <1>8

\* A file whose content changes and whose stamp does not.
LEMMA ContentChanged ==
  ASSUME FileShape, NEW f \in KeptFiles, NEW content, Keeps(f, content)
  PROVE  disk' = [disk EXCEPT ![f] = [content |-> content, stamp |-> disk[f].stamp]]
<1>1. disk[f] = [content |-> disk[f].content, stamp |-> disk[f].stamp]
  BY DEF FileShape
<1>2. [disk[f] EXCEPT !.content = content] = [content |-> content, stamp |-> disk[f].stamp]
  BY <1>1
<1>3. disk' = [disk EXCEPT ![f] = [disk[f] EXCEPT !.content = content]]
  BY DEF Keeps
<1> QED BY <1>2, <1>3

\* Where a call goes on to.
LEMMA CallGoes ==
  ASSUME FileShape, call # None, NEW next, NEW f, GoesTo(next, f)
  PROVE  call' = [at |-> next, file |-> f, wants |-> call.wants]
  BY DEF FileShape, GoesTo

\* Nothing is kept at first.
LEMMA KeptInit == CaptureInit => KeptInv
<1> SUFFICES ASSUME CaptureInit PROVE KeptInv
  OBVIOUS
<1>1. /\ etl = 1 /\ call = None /\ got = None
      /\ disk = [f \in KeptFiles |-> [content |-> None, stamp |-> None]]
  BY DEF CaptureInit, NoFile
<1> QED
  BY <1>1, NoneIsNoNumber DEF KeptInv, FileShape, Dated, StampsAreTrue, TableIsOfTrace


\* A step on one kept file, which stamps it only if it is what it should be.
LEMMA FileStep ==
  ASSUME KeptInv, UNCHANGED <<etl, spoiled>>, NEW f \in KeptFiles, NEW content, NEW stamp,
         disk' = [disk EXCEPT ![f] = [content |-> content, stamp |-> stamp]],
         stamp \in {disk[f].stamp, None, etl},
         ~spoiled /\ stamp = etl => content = Now
  PROVE  /\ disk' = [g \in KeptFiles |-> [content |-> disk'[g].content, stamp |-> disk'[g].stamp]]
         /\ disk'[f].content = content /\ disk'[f].stamp = stamp
         /\ \A g \in KeptFiles \ {f} : disk'[g] = disk[g]
         /\ Dated' /\ (~spoiled => StampsAreTrue')
<1>1. /\ disk' = [g \in KeptFiles |-> [content |-> disk'[g].content, stamp |-> disk'[g].stamp]]
      /\ disk'[f].content = content /\ disk'[f].stamp = stamp
      /\ \A g \in KeptFiles \ {f} : disk'[g] = disk[g]
  BY FileChanged DEF KeptInv
<1>2. Dated'
  <2>1. \A g \in KeptFiles : disk'[g].stamp \in {disk[g].stamp, None, etl}
    BY <1>1
  <2> QED BY <2>1 DEF KeptInv, Dated
<1>3. ~spoiled => StampsAreTrue'
  BY <1>1 DEF KeptInv, StampsAreTrue, Now
<1> QED BY <1>1, <1>2, <1>3

\* A step that writes an unstamped file.
LEMMA WriteStep ==
  ASSUME KeptInv, UNCHANGED <<etl, spoiled>>, NEW f \in KeptFiles, NEW content, Keeps(f, content),
         ~spoiled => disk[f].stamp # etl
  PROVE  /\ disk' = [g \in KeptFiles |-> [content |-> disk'[g].content, stamp |-> disk'[g].stamp]]
         /\ disk'[f].content = content /\ disk'[f].stamp = disk[f].stamp
         /\ \A g \in KeptFiles \ {f} : disk'[g] = disk[g]
         /\ Dated' /\ (~spoiled => StampsAreTrue')
<1> DEFINE stamp == disk[f].stamp
<1>1. disk' = [disk EXCEPT ![f] = [content |-> content, stamp |-> stamp]]
  BY ContentChanged DEF KeptInv
<1>2. stamp = disk[f].stamp
  OBVIOUS
<1> HIDE DEF stamp
<1> QED BY <1>1, <1>2, FileStep

\* A call that ends leaves only the files to speak of.
LEMMA CallEnds ==
  ASSUME call' = None, Dated', UNCHANGED spoiled,
         disk' = [g \in KeptFiles |-> [content |-> disk'[g].content, stamp |-> disk'[g].stamp]],
         ~spoiled => StampsAreTrue' /\ TableIsOfTrace'
  PROVE  KeptInv'
  BY DEF KeptInv, FileShape

\* A call that goes on has not told anything yet.
LEMMA CallGoesOn ==
  ASSUME KeptInv, UNCHANGED <<etl, got, spoiled>>, Dated',
         disk' = [g \in KeptFiles |-> [content |-> disk'[g].content, stamp |-> disk'[g].stamp]],
         ~spoiled => StampsAreTrue' /\ CallKnows',
         NEW next \in {"find", "unstamp", "convert", "stamp", "join", "write"},
         NEW f \in KeptFiles, call # None, GoesTo(next, f)
  PROVE  KeptInv'
<1>1. call' = [at |-> next, file |-> f, wants |-> call.wants] /\ call.wants \in {"table", "summary"}
  BY CallGoes DEF KeptInv, FileShape
<1>2. FileShape'
  BY <1>1 DEF FileShape
<1>3. ~spoiled => TableIsOfTrace'
  BY DEF KeptInv, TableIsOfTrace
<1> QED BY <1>2, <1>3 DEF KeptInv

\* Steps of a call that leave the files as they are.
LEMMA SameFiles ==
  ASSUME KeptInv, UNCHANGED <<etl, disk, spoiled>>
  PROVE  /\ disk' = [g \in KeptFiles |-> [content |-> disk'[g].content, stamp |-> disk'[g].stamp]]
         /\ Dated' /\ (~spoiled => StampsAreTrue')
  BY DEF KeptInv, FileShape, Dated, StampsAreTrue, Now

\* What is current is stamped and what it should be; what is not is not stamped.
LEMMA CurrentIsNow ==
  ASSUME KeptInv, ~spoiled, NEW f \in KeptFiles
  PROVE  /\ Current(f) <=> disk[f].stamp = etl
         /\ Current(f) => disk[f].content = Now
  BY NoneIsNoNumber DEF KeptInv, Dated, StampsAreTrue, Current, Now

\* The three files.
LEMMA FilesAre == KeptFiles = {"text", "pcap", "table"} /\ "text" # "table" /\ "pcap" # "table"
  BY DEF KeptFiles

\* A call begins.
LEMMA BeginsKeeps ==
  ASSUME KeptInv, NEW wants \in {"table", "summary"}, CallBegins(wants)
  PROVE  KeptInv'
<1>1. /\ UNCHANGED <<etl, disk, spoiled>> /\ got' = None
      /\ call' = [at |-> "find", file |-> IF wants = "table" THEN "table" ELSE "text",
                  wants |-> wants]
  BY DEF CallBegins
<1>2. FileShape' /\ Dated' /\ (~spoiled => StampsAreTrue')
  BY <1>1, SameFiles, FilesAre DEF FileShape
<1>3. CallKnows'
  BY <1>1, FilesAre DEF CallKnows
<1> QED BY <1>1, <1>2, <1>3 DEF KeptInv, TableIsOfTrace

\* A table that is current is returned.
LEMMA FindsTableKeeps == ASSUME KeptInv, FindsTable PROVE KeptInv'
<1>1. UNCHANGED <<etl, disk, spoiled>> /\ call # None /\ call.at = "find" /\ call.file = "table"
  BY DEF FindsTable, At
<1>2. CASE Current("table")
  <2>1. call' = None /\ got' = disk["table"].content
    BY <1>2 DEF FindsTable, Ends
  <2>2. ~spoiled => TableIsOfTrace'
    BY <1>1, <1>2, <2>1, CurrentIsNow, FilesAre DEF TableIsOfTrace, Now
  <2> QED BY <1>1, <2>1, <2>2, SameFiles, CallEnds
<1>3. CASE ~Current("table")
  <2>1. GoesTo("find", "text") /\ UNCHANGED got
    BY <1>3 DEF FindsTable
  <2>2. call' = [at |-> "find", file |-> "text", wants |-> call.wants]
    BY <1>1, <2>1, CallGoes DEF KeptInv
  <2>3. ~spoiled => CallKnows'
    BY <1>1, <1>3, <2>2, CurrentIsNow, FilesAre DEF CallKnows
  <2> QED BY <1>1, <2>1, <2>3, SameFiles, CallGoesOn, FilesAre
<1> QED BY <1>2, <1>3

\* The call goes on from a file that is stamped.
LEMMA GoesOnKeeps ==
  ASSUME KeptInv, UNCHANGED <<etl, got, spoiled>>, Dated',
         disk' = [g \in KeptFiles |-> [content |-> disk'[g].content, stamp |-> disk'[g].stamp]],
         ~spoiled => StampsAreTrue',
         NEW f \in {"text", "pcap"}, At("find", f) \/ At("stamp", f), GoesOn(f),
         ~spoiled => disk'[f].stamp = etl,
         \A g \in KeptFiles \ {f} : disk'[g] = disk[g]
  PROVE  KeptInv'
<1>1. call # None /\ call.file = f
  BY DEF At
<1>2. \/ GoesTo("find", "pcap") /\ f = "text"
      \/ GoesTo("join", "table")
  BY DEF GoesOn
<1>3. ASSUME ~spoiled PROVE disk'["text"].stamp = etl /\ disk'["table"] = disk["table"]
  BY <1>1, <1>3, FilesAre DEF KeptInv, CallKnows
<1>4. ASSUME ~spoiled PROVE call.wants = "table" => disk["table"].stamp # etl
  BY <1>1, <1>4, FilesAre DEF KeptInv, CallKnows
<1>5. CASE GoesTo("find", "pcap") /\ f = "text"
  <2>1. call' = [at |-> "find", file |-> "pcap", wants |-> call.wants]
    BY <1>1, <1>5, CallGoes DEF KeptInv
  <2>2. ~spoiled => CallKnows'
    BY <1>3, <1>4, <2>1 DEF CallKnows
  <2> QED BY <1>1, <1>5, <2>2, CallGoesOn, FilesAre
<1>6. CASE GoesTo("join", "table")
  <2>1. call' = [at |-> "join", file |-> "table", wants |-> call.wants]
    BY <1>1, <1>6, CallGoes DEF KeptInv
  <2>2. ~spoiled => CallKnows'
    BY <1>3, <1>4, <2>1 DEF CallKnows
  <2> QED BY <1>1, <1>6, <2>2, CallGoesOn, FilesAre
<1> QED BY <1>2, <1>5, <1>6

\* A file that is not current is removed before its stamp.
LEMMA FindsFileKeeps ==
  ASSUME KeptInv, NEW f \in {"text", "pcap"}, FindsFile(f)
  PROVE  KeptInv'
<1>1. UNCHANGED <<etl, got, spoiled>> /\ At("find", f) /\ f \in KeptFiles
  BY FilesAre DEF FindsFile
<1>2. call # None /\ call.file = f /\ call.at = "find"
  BY <1>1 DEF At
<1>3. CASE Current(f)
  <2>1. GoesOn(f) /\ UNCHANGED disk
    BY <1>3 DEF FindsFile
  <2> QED BY <1>1, <1>3, <2>1, SameFiles, CurrentIsNow, GoesOnKeeps
<1>4. CASE ~Current(f)
  <2>1. GoesTo("unstamp", f) /\ Keeps(f, None)
    BY <1>4 DEF FindsFile
  <2>3. ~spoiled => disk[f].stamp # etl
    BY <1>1, <1>4, CurrentIsNow
  <2>4. /\ disk' = [g \in KeptFiles |-> [content |-> disk'[g].content, stamp |-> disk'[g].stamp]]
        /\ disk'[f].stamp = disk[f].stamp
        /\ \A g \in KeptFiles \ {f} : disk'[g] = disk[g]
        /\ Dated' /\ (~spoiled => StampsAreTrue')
    BY <1>1, <2>1, <2>3, WriteStep
  <2>5. call' = [at |-> "unstamp", file |-> f, wants |-> call.wants]
    BY <1>2, <2>1, CallGoes DEF KeptInv
  <2>6. ~spoiled => CallKnows'
    BY <1>1, <1>2, <2>3, <2>4, <2>5, FilesAre DEF KeptInv, CallKnows
  <2> QED BY <1>1, <1>2, <2>1, <2>4, <2>6, CallGoesOn
<1> QED BY <1>3, <1>4

\* pktmon writes a file, which is not stamped.
LEMMA ConvertingKeeps ==
  ASSUME KeptInv, NEW f \in {"text", "pcap"}, Unstamps(f) \/ Converted(f)
  PROVE  KeptInv'
<1>1. UNCHANGED <<etl, got, spoiled>> /\ f \in KeptFiles
  BY FilesAre DEF Unstamps, Converted
<1>2. CASE Unstamps(f)
  <2>1. /\ call # None /\ call.file = f /\ call.at = "unstamp" /\ GoesTo("convert", f)
        /\ disk' = [disk EXCEPT ![f] = [content |-> [of |-> etl, whole |-> FALSE], stamp |-> None]]
    BY <1>2 DEF Unstamps, At, Content
  <2>2. None # etl
    BY NoneIsNoNumber DEF KeptInv, Dated
  <2>3. /\ disk' = [g \in KeptFiles |-> [content |-> disk'[g].content, stamp |-> disk'[g].stamp]]
        /\ disk'[f].stamp = None /\ disk'[f].content = [of |-> etl, whole |-> FALSE]
        /\ \A g \in KeptFiles \ {f} : disk'[g] = disk[g]
        /\ Dated' /\ (~spoiled => StampsAreTrue')
    BY <1>1, <2>1, <2>2, FileStep, ZenonT(40)
  <2>4. call' = [at |-> "convert", file |-> f, wants |-> call.wants]
    BY <2>1, CallGoes DEF KeptInv
  <2>5. ~spoiled => CallKnows'
    BY <1>1, <2>1, <2>2, <2>3, <2>4, FilesAre DEF KeptInv, CallKnows
  <2> QED BY <1>1, <2>1, <2>3, <2>5, CallGoesOn
<1>3. CASE Converted(f)
  <2>1. /\ call # None /\ call.file = f /\ call.at = "convert" /\ GoesTo("stamp", f)
        /\ Keeps(f, Completed(f))
    BY <1>3 DEF Converted, At
  <2> DEFINE content == Completed(f)
  <2>2. ~spoiled => content = Now
    <3>1. ~spoiled => disk[f].content = [of |-> etl, whole |-> FALSE]
      BY <2>1 DEF KeptInv, CallKnows
    <3>2. ~spoiled => disk[f].content.of = etl
      BY <3>1
    <3> QED BY <3>2, Zenon DEF Now, Completed
  <2>3. ~spoiled => disk[f].stamp # etl
    BY <1>1, <2>1, FilesAre DEF KeptInv, CallKnows
  <2> HIDE DEF content
  <2>5. /\ disk' = [g \in KeptFiles |-> [content |-> disk'[g].content, stamp |-> disk'[g].stamp]]
        /\ disk'[f].stamp = disk[f].stamp /\ disk'[f].content = content
        /\ \A g \in KeptFiles \ {f} : disk'[g] = disk[g]
        /\ Dated' /\ (~spoiled => StampsAreTrue')
    BY <1>1, <2>1, <2>3, WriteStep DEF content
  <2>6. call' = [at |-> "stamp", file |-> f, wants |-> call.wants]
    BY <2>1, CallGoes DEF KeptInv
  <2>7. Now' = Now
    BY <1>1 DEF Now
  <2>8. ~spoiled => CallKnows'
    BY <1>1, <2>1, <2>2, <2>3, <2>5, <2>6, <2>7, FilesAre DEF KeptInv, CallKnows
  <2> QED BY <1>1, <2>1, <2>5, <2>8, CallGoesOn
<1> QED BY <1>2, <1>3

\* Conversions that fail, and servers that end, leave no stamp of this trace.
LEMMA StoppedKeeps ==
  ASSUME KeptInv, (\E f \in {"text", "pcap"} : ConversionFails(f)) \/ ServerEnds
  PROVE  KeptInv'
<1>1. UNCHANGED <<etl, spoiled>> /\ call' = None /\ got' = None
  BY DEF ConversionFails, ServerEnds, Ends
<1>2. ~spoiled => TableIsOfTrace'
  BY <1>1 DEF TableIsOfTrace
<1>3. CASE UNCHANGED disk
  BY <1>1, <1>2, <1>3, SameFiles, CallEnds
<1>4. CASE \E f \in {"text", "pcap"} : At("convert", f) /\ \E content : Keeps(f, content)
  <2>1. PICK f \in {"text", "pcap"} : At("convert", f) /\ \E content : Keeps(f, content)
    BY <1>4
  <2>2. PICK content : Keeps(f, content)
    BY <2>1
  <2>3. f \in KeptFiles
    BY FilesAre
  <2>4. ~spoiled => disk[f].stamp # etl
    BY <2>1, FilesAre DEF KeptInv, CallKnows, At
  <2>5. /\ disk' = [g \in KeptFiles |-> [content |-> disk'[g].content, stamp |-> disk'[g].stamp]]
        /\ Dated' /\ (~spoiled => StampsAreTrue')
    BY <1>1, <2>2, <2>3, <2>4, WriteStep
  <2> QED BY <1>1, <1>2, <2>5, CallEnds
<1> QED BY <1>3, <1>4 DEF ConversionFails, ServerEnds

\* The stamp comes after the file.
LEMMA StampsKeeps == ASSUME KeptInv, NEW f \in KeptFiles, Stamps(f) PROVE KeptInv'
<1>1. /\ call # None /\ call.file = f /\ call.at = "stamp" /\ At("stamp", f)
      /\ UNCHANGED <<etl, spoiled>>
  BY DEF Stamps, At
<1>2. ~spoiled => disk[f].content = Now
  BY <1>1 DEF KeptInv, CallKnows
<1> DEFINE content == disk[f].content
<1>3. disk' = [disk EXCEPT ![f] = [content |-> content, stamp |-> etl]]
  <2>1. disk[f] = [content |-> disk[f].content, stamp |-> disk[f].stamp]
    BY DEF KeptInv, FileShape
  <2>2. [disk[f] EXCEPT !.stamp = etl] = [content |-> content, stamp |-> etl]
    BY <2>1
  <2>3. disk' = [disk EXCEPT ![f] = [disk[f] EXCEPT !.stamp = etl]]
    BY DEF Stamps
  <2> QED BY <2>2, <2>3
<1>4. content = disk[f].content
  OBVIOUS
<1> HIDE DEF content
<1>5. /\ disk' = [g \in KeptFiles |-> [content |-> disk'[g].content, stamp |-> disk'[g].stamp]]
      /\ disk'[f].stamp = etl
      /\ \A g \in KeptFiles \ {f} : disk'[g] = disk[g]
      /\ Dated' /\ (~spoiled => StampsAreTrue')
  BY <1>1, <1>2, <1>3, <1>4, FileStep
<1>6. CASE f = "table"
  <2>1. call' = None /\ got' = disk[f].content
    BY <1>6 DEF Stamps, Ends
  <2>2. ~spoiled => TableIsOfTrace'
    BY <1>1, <1>2, <2>1 DEF TableIsOfTrace, Now
  <2> QED BY <1>1, <1>5, <2>1, <2>2, CallEnds
<1>7. CASE f # "table"
  <2>1. GoesOn(f) /\ UNCHANGED got /\ f \in {"text", "pcap"}
    BY <1>7, FilesAre DEF Stamps
  <2> QED BY <1>1, <1>5, <2>1, GoesOnKeeps
<1> QED BY <1>6, <1>7

\* A table is made of current files only, and unstamped until it is whole.
LEMMA JoinsKeeps == ASSUME KeptInv, Joins \/ WritesTable PROVE KeptInv'
<1>1. /\ UNCHANGED <<etl, spoiled>> /\ call # None /\ call.file = "table"
      /\ call.at \in {"join", "write"} /\ "table" \in KeptFiles
  BY FilesAre DEF Joins, WritesTable, At, KeptFiles
<1>2. ~spoiled => disk["text"].content = Now /\ disk["text"].stamp = etl
  BY <1>1, FilesAre DEF KeptInv, CallKnows, StampsAreTrue
<1>3. ~spoiled /\ call.wants = "table" => disk["table"].stamp # etl
  BY <1>1 DEF KeptInv, CallKnows
<1>4. ASSUME UNCHANGED disk, NEW result \in {None, disk["text"].content}, Ends(result)
      PROVE  KeptInv'
  <2>1. call' = None /\ got' = result
    BY <1>4 DEF Ends
  <2>2. ~spoiled => TableIsOfTrace'
    BY <1>1, <1>2, <2>1 DEF TableIsOfTrace, Now
  <2> QED BY <1>1, <1>4, <2>1, <2>2, SameFiles, CallEnds
<1>5. ASSUME NEW content, NEW next \in {"write", "stamp"}, Keeps("table", content),
             GoesTo(next, "table"), UNCHANGED got, ~spoiled => call.wants = "table",
             next = "stamp" => content = disk["text"].content
      PROVE  KeptInv'
  <2>1. ~spoiled => disk["table"].stamp # etl
    BY <1>3, <1>5
  <2>2. /\ disk' = [g \in KeptFiles |-> [content |-> disk'[g].content, stamp |-> disk'[g].stamp]]
        /\ disk'["table"].stamp = disk["table"].stamp /\ disk'["table"].content = content
        /\ \A g \in KeptFiles \ {"table"} : disk'[g] = disk[g]
        /\ Dated' /\ (~spoiled => StampsAreTrue')
    BY <1>1, <1>5, <2>1, WriteStep
  <2>3. call' = [at |-> next, file |-> "table", wants |-> call.wants]
    BY <1>1, <1>5, CallGoes DEF KeptInv
  <2>4. Now' = Now /\ disk'["text"] = disk["text"]
    BY <1>1, <2>2, FilesAre DEF Now
  <2>5. ~spoiled => CallKnows'
    BY <1>1, <1>2, <1>5, <2>1, <2>2, <2>3, <2>4 DEF CallKnows
  <2> QED BY <1>1, <1>5, <2>2, <2>5, CallGoesOn
<1>6. CASE Joins
  <2>1. \/ call.wants = "summary" /\ Ends(disk["text"].content) /\ UNCHANGED disk
        \/ call.wants = "table" /\ Ends(None) /\ UNCHANGED disk
        \/ /\ call.wants = "table" /\ GoesTo("write", "table") /\ UNCHANGED got
           /\ Keeps("table", [disk["text"].content EXCEPT !.whole = FALSE])
    BY <1>6 DEF Joins
  <2> QED BY <1>4, <1>5, <2>1
<1>7. CASE WritesTable
  <2>1. /\ call.at = "write" /\ GoesTo("stamp", "table") /\ UNCHANGED got
        /\ Keeps("table", disk["text"].content)
    BY <1>7 DEF WritesTable, At
  <2>2. ~spoiled => call.wants = "table"
    BY <1>1, <2>1 DEF KeptInv, CallKnows
  <2> QED BY <1>5, <2>1, <2>2
<1> QED BY <1>6, <1>7

\* Stamps of a trace that is replaced are of an older version.
LEMMA ReplacedKeeps == ASSUME KeptInv, TraceIsReplaced PROVE KeptInv'
<1>1. /\ etl' = etl + 1 /\ got' = None /\ UNCHANGED <<disk, call>>
      /\ ~spoiled' => ~spoiled /\ call = None
  BY DEF TraceIsReplaced
<1>2. /\ etl \in Nat
      /\ \A f \in KeptFiles : disk[f].stamp = None \/ disk[f].stamp \in 0 .. etl
  BY DEF KeptInv, Dated
<1>3. Dated' /\ \A f \in KeptFiles : disk'[f].stamp # etl'
  BY <1>1, <1>2, NoneIsNoNumber DEF Dated
<1> QED BY <1>1, <1>3 DEF KeptInv, FileShape, StampsAreTrue, TableIsOfTrace

\* Every step keeps the invariant.
LEMMA KeptStep == KeptInv /\ [CaptureNext]_captureVars => KeptInv'
<1> SUFFICES ASSUME KeptInv, [CaptureNext]_captureVars PROVE KeptInv'
  OBVIOUS
<1>1. CASE \E wants \in {"table", "summary"} : CallBegins(wants)
  BY <1>1, BeginsKeeps
<1>2. CASE FindsTable
  BY <1>2, FindsTableKeeps
<1>3. CASE \E f \in {"text", "pcap"} :
             FindsFile(f) \/ Unstamps(f) \/ Converted(f) \/ ConversionFails(f)
  BY <1>3, FindsFileKeeps, ConvertingKeeps, StoppedKeeps
<1>4. CASE \E f \in KeptFiles : Stamps(f)
  BY <1>4, StampsKeeps
<1>5. CASE Joins \/ WritesTable
  BY <1>5, JoinsKeeps
<1>6. CASE ServerEnds
  BY <1>6, StoppedKeeps
<1>7. CASE TraceIsReplaced
  BY <1>7, ReplacedKeeps
<1>8. CASE UNCHANGED fileVars
  BY <1>8 DEF fileVars, KeptInv, FileShape, Dated, StampsAreTrue, CallKnows, TableIsOfTrace, Now
<1>9. \/ \E row \in PacketRows : RowIsSeen(row)
      \/ \E size \in PacketBatches : AskPairs(size)
      \/ \E dirs \in {{"send"}, {"recv"}, {"send", "recv"}} : AskLayers(dirs)
      \/ AskOverview
      \/ \E ts \in PacketTimes : AskDecode(ts)
      \/ UNCHANGED captureVars
      => UNCHANGED fileVars
  BY Zenon DEF RowIsSeen, AskPairs, AskLayers, AskOverview, AskDecode, AskPackets, captureVars
<1> QED BY <1>1, <1>2, <1>3, <1>4, <1>5, <1>6, <1>7, <1>8, <1>9 DEF CaptureNext

\* Whatever calls converted, failed, were stopped or died before, and however
\* often the trace was replaced in between: a stamp tells the truth.
THEOREM InductiveKept == CaptureSpec => []KeptInv
  BY KeptInit, KeptStep, PTL DEF CaptureSpec

\* A table or a text that a call returns is whole and of the trace as it is,
\* unless the trace was replaced while some call worked on it
\* (_pktmon_packet_capture_df, _ensure_pktmon_text, _cache_file_current).
THEOREM TablesAreOfTheTrace == CaptureSpec => []TableIsOfTrace
<1>1. KeptInv => TableIsOfTrace
  BY DEF KeptInv, TableIsOfTrace
<1> QED BY <1>1, InductiveKept, PTL

-----------------------------------------------------------------------------
(* Pairs of Send and Recv *)

Less == {p \in Nat \X Nat : p[1] < p[2]}

\* A table of packet rows.
RowsAre(rows) ==
  /\ Len(rows) \in Nat /\ DOMAIN rows = 1 .. Len(rows)
  /\ \A n \in 1 .. Len(rows) :
       rows[n].ts \in Nat /\ rows[n].dir \in {"send", "recv"} /\ rows[n].key \in PacketKeys

PlacePairs(N) == (1 .. N) \X (1 .. N)

PairStates(N) ==
  [pending : [PacketKeys -> Seq(1 .. N)], heap : SUBSET (1 .. N), pairs : Seq(PlacePairs(N))]

\* What DropOlder leaves of a queue.
LeftOf(d, q, ts, rows) ==
  /\ Range(d) \subseteq Range(q)
  /\ \A s \in Range(q) : s \in Range(d) \/ rows[s].ts < ts
  /\ Ordered(q, Less) => Ordered(d, Less)

\* DropOlder drops only what is older, and keeps the order.
LEMMA DropOlderFacts ==
  ASSUME NEW rows, RowsAre(rows), NEW q \in Seq(1 .. Len(rows)), NEW ts \in Int
  PROVE  LET d == DropOlder(q, ts, rows)
         IN /\ d \in Seq(1 .. Len(rows)) /\ LeftOf(d, q, ts, rows)
            /\ d # << >> => rows[d[1]].ts >= ts
  <1> DEFINE X == 1 .. Len(rows)
             W == {n \in DOMAIN rows : rows[n].ts >= ts}
             d == From(q, W)
             u == Until(q, W)
  <1>1. d \in Seq(X) /\ u \in Seq(X) /\ u \o d = q /\ (\A x \in Range(u) : x \notin W)
        /\ Range(q) = Range(u) \union Range(d)
    BY CutFacts
  <1>2. \A x \in Range(q) : x \in X
    BY RangeOfSeq
  <1>3. \A x \in X : x \notin W => rows[x].ts < ts
    BY DEF RowsAre
  <1>4. Ordered(q, Less) => Ordered(d, Less)
    <2> HIDE DEF d, u
    <2> QED BY <1>1, ConcatOrderedParts
  <1>5. d # << >> => rows[d[1]].ts >= ts
    <2> DEFINE k == PlaceOf(q, W)
    <2>1. \/ k = 0 /\ \A x \in Range(q) : x \notin W
          \/ k \in 1 .. Len(q) /\ q[k] \in W /\ \A i \in 1 .. k - 1 : q[i] \notin W
      BY PlaceFacts
    <2>2. d # << >> => k # 0 /\ d = SubSeq(q, k, Len(q))
      BY DEF From
    <2>3. k \in 1 .. Len(q) => SubSeq(q, k, Len(q))[1] = q[k]
      <3> HIDE DEF k
      <3> QED BY LenProperties
    <2> HIDE DEF k
    <2> QED BY <2>1, <2>2, <2>3
  <1>6. DropOlder(q, ts, rows) = d
    BY DEF DropOlder
  <1> HIDE DEF d, u
  <1>7. LeftOf(d, q, ts, rows)
    BY <1>1, <1>2, <1>3, <1>4 DEF LeftOf
  <1> QED BY <1>1, <1>5, <1>6, <1>7

\* Pairs of one key are in order by their sends and by their receives.
PairsFollow(rows) ==
  {c \in PlacePairs(Len(rows)) \X PlacePairs(Len(rows)) :
     /\ Received(c[1]) < Received(c[2])
     /\ rows[Sent(c[1])].key = rows[Sent(c[2])].key => Sent(c[1]) < Sent(c[2])}

QueuesHoldSends(p, n, rows) ==
  \A k \in PacketKeys :
    /\ Ordered(p.pending[k], Less)
    /\ \A s \in Range(p.pending[k]) : s \in 1 .. n /\ rows[s].dir = "send" /\ rows[s].key = k

PairsFit(p, n, rows) ==
  /\ \A pair \in Range(p.pairs) : Sent(pair) \in 1 .. n /\ Received(pair) \in 1 .. n /\ Fits(pair, rows)
  /\ Ordered(p.pairs, PairsFollow(rows))

\* Sends of a key that wait are later than those that are paired.
PairedFirst(p, rows) ==
  \A pair \in Range(p.pairs) : \A s \in Range(p.pending[rows[Sent(pair)].key]) : Sent(pair) < s

\* A send waits, is paired, or is too old.
NoSendForgotten(p, n, now, rows) ==
  \A s \in 1 .. n : rows[s].dir = "send" =>
    \/ s \in Range(p.pending[rows[s].key])
    \/ \E pair \in Range(p.pairs) : Sent(pair) = s
    \/ rows[s].ts + MatchGap < now

NoSendPassedOver(p, n, rows) ==
  \A s, r \in 1 .. n : Reach(s, r, rows) =>
    \E pair \in Range(p.pairs) : Sent(pair) = s \/ (Received(pair) = r /\ Sent(pair) < s)

\* After the first n rows, at the time now.
PairInv(p, n, now, rows) ==
  /\ p \in PairStates(Len(rows))
  /\ QueuesHoldSends(p, n, rows) /\ PairsFit(p, n, rows) /\ PairedFirst(p, rows)
  /\ InTimeOrder(rows) => NoSendForgotten(p, n, now, rows) /\ NoSendPassedOver(p, n, rows)

\* Queues lose sends that are too old.
Aged(p, q, now, rows) ==
  /\ q \in PairStates(Len(rows)) /\ q.pairs = p.pairs
  /\ \A k \in PacketKeys : LeftOf(q.pending[k], p.pending[k], now - MatchGap, rows)

\* Queues may lose what is too old.
LEMMA AgingKeeps ==
  ASSUME NEW rows, RowsAre(rows), NEW n \in 0 .. Len(rows), NEW now \in Int, NEW p, NEW q,
         PairInv(p, n, now, rows), Aged(p, q, now, rows)
  PROVE  PairInv(q, n, now, rows)
  <1>1. QueuesHoldSends(q, n, rows)
    BY DEF PairInv, QueuesHoldSends, Aged, LeftOf
  <1>2. PairsFit(q, n, rows)
    BY DEF PairInv, PairsFit, Aged
  <1>3. PairedFirst(q, rows)
    <2> SUFFICES ASSUME NEW pair \in Range(q.pairs), NEW s \in Range(q.pending[rows[Sent(pair)].key])
                 PROVE  Sent(pair) < s
      BY DEF PairedFirst
    <2>1. pair \in Range(p.pairs) /\ Sent(pair) \in 1 .. Len(rows)
      BY DEF PairInv, PairsFit, Aged
    <2>2. rows[Sent(pair)].key \in PacketKeys
      BY <2>1 DEF RowsAre
    <2>3. s \in Range(p.pending[rows[Sent(pair)].key])
      BY <2>2 DEF Aged, LeftOf
    <2> QED BY <2>1, <2>3 DEF PairInv, PairedFirst
  <1>4. ASSUME InTimeOrder(rows)
        PROVE NoSendForgotten(q, n, now, rows) /\ NoSendPassedOver(q, n, rows)
    <2>1. NoSendPassedOver(q, n, rows)
      BY <1>4 DEF PairInv, NoSendPassedOver, Aged
    <2>2. NoSendForgotten(q, n, now, rows)
      <3> SUFFICES ASSUME NEW s \in 1 .. n, rows[s].dir = "send",
                          s \notin Range(q.pending[rows[s].key]),
                          ~ \E pair \in Range(q.pairs) : Sent(pair) = s
                   PROVE  rows[s].ts + MatchGap < now
        BY DEF NoSendForgotten
      <3>1. rows[s].key \in PacketKeys /\ rows[s].ts \in Nat /\ MatchGap \in Nat
        BY PacketCaptureAssumption DEF RowsAre
      <3>2. s \in Range(p.pending[rows[s].key]) \/ rows[s].ts + MatchGap < now
        BY <1>4 DEF PairInv, NoSendForgotten, Aged
      <3>3. s \in Range(p.pending[rows[s].key]) => rows[s].ts < now - MatchGap
        BY <3>1 DEF Aged, LeftOf
      <3> QED BY <3>1, <3>2, <3>3
    <2> QED BY <2>1, <2>2
  <1> QED BY <1>1, <1>2, <1>3, <1>4 DEF PairInv, Aged

\* A queue that loses nothing.
LEMMA SameIsLeft ==
  ASSUME NEW q, NEW ts, NEW rows PROVE LeftOf(q, q, ts, rows)
  BY DEF LeftOf

\* The sends that expire.
LEMMA EvictedAges ==
  ASSUME NEW rows, RowsAre(rows), NEW now \in Int, NEW p \in PairStates(Len(rows))
  PROVE  Aged(p, Evicted(p, now, rows), now, rows)
  <1> DEFINE gone == Expired(p, now, rows)
             keys == {rows[n].key : n \in gone}
             e == Evicted(p, now, rows)
             Q(k) == IF k \in keys THEN DropOlder(p.pending[k], now - MatchGap, rows) ELSE p.pending[k]
  <1>1. p.pending \in [PacketKeys -> Seq(1 .. Len(rows))] /\ p.heap \in SUBSET (1 .. Len(rows))
    BY DEF PairStates
  <1>2. e = [p EXCEPT !.heap = p.heap \ gone, !.pending = [k \in PacketKeys |-> Q(k)]]
    BY Zenon DEF Evicted
  <1>3. ASSUME NEW k \in PacketKeys
        PROVE Q(k) \in Seq(1 .. Len(rows)) /\ LeftOf(Q(k), p.pending[k], now - MatchGap, rows)
    <2>1. now - MatchGap \in Int /\ p.pending[k] \in Seq(1 .. Len(rows))
      BY <1>1, PacketCaptureAssumption
    <2>2. LET d == DropOlder(p.pending[k], now - MatchGap, rows)
          IN d \in Seq(1 .. Len(rows)) /\ LeftOf(d, p.pending[k], now - MatchGap, rows)
      BY <2>1, DropOlderFacts
    <2> HIDE DEF keys
    <2> QED BY <2>1, <2>2, SameIsLeft
  <1> HIDE DEF e, Q, gone
  <1>4. /\ [k \in PacketKeys |-> Q(k)] \in [PacketKeys -> Seq(1 .. Len(rows))]
        /\ p.heap \ gone \in SUBSET (1 .. Len(rows))
    BY <1>1, <1>3
  <1>5. /\ e \in PairStates(Len(rows)) /\ e.pairs = p.pairs
        /\ e.pending = [k \in PacketKeys |-> Q(k)]
    <2> DEFINE f == [k \in PacketKeys |-> Q(k)]
               h == p.heap \ gone
    <2> HIDE DEF f, h
    <2> QED BY <1>2, <1>4 DEF PairStates, f, h
  <1>6. Aged(p, e, now, rows)
    BY <1>3, <1>5 DEF Aged
  <1> QED BY <1>6 DEF e

\* A send that comes waits.
LEMMA SendKeeps ==
  ASSUME NEW rows, RowsAre(rows), NEW n \in 1 .. Len(rows), NEW now \in Int, NEW p,
         PairInv(p, n - 1, now, rows), rows[n].dir = "send"
  PROVE  PairInv(SendWaits(p, n, rows), n, now, rows)
  <1> DEFINE N == Len(rows)
             key == rows[n].key
             w == Append(p.pending[key], n)
             q == SendWaits(p, n, rows)
  <1>1. /\ key \in PacketKeys /\ N \in Nat /\ n \in Nat /\ n - 1 \in 0 .. N /\ n - 1 \in Nat
        /\ p \in PairStates(N) /\ p.pending \in [PacketKeys -> Seq(1 .. N)]
        /\ p.pending[key] \in Seq(1 .. N) /\ p.heap \in SUBSET (1 .. N)
    BY DEF RowsAre, PairInv, PairStates
  <1>2. w \in Seq(1 .. N) /\ Range(w) = Range(p.pending[key]) \union {n}
    BY <1>1, AppendedSeq
  <1>3. /\ q \in PairStates(N) /\ q.pairs = p.pairs /\ q.pending = [p.pending EXCEPT ![key] = w]
    <2> DEFINE f == [p.pending EXCEPT ![key] = w]
               h == p.heap \union {n}
    <2>1. f \in [PacketKeys -> Seq(1 .. N)] /\ h \in SUBSET (1 .. N)
      BY <1>1, <1>2
    <2>2. q = [p EXCEPT !.pending = f, !.heap = h]
      BY <1>1 DEF SendWaits, PairStates
    <2> HIDE DEF f, h, q
    <2>3. q \in PairStates(N) /\ q.pairs = p.pairs /\ q.pending = f
      BY <1>1, <2>1, <2>2 DEF PairStates
    <2> QED BY <2>3 DEF f
  <1> HIDE DEF q
  <1>4. /\ q.pending[key] = w /\ \A k \in PacketKeys : k # key => q.pending[k] = p.pending[k]
        /\ \A k \in PacketKeys : Range(p.pending[k]) \subseteq Range(q.pending[k])
    BY <1>1, <1>2, <1>3
  <1>5. QueuesHoldSends(q, n, rows)
    <2> HIDE DEF w, key
    <2>1. \A k \in PacketKeys :
            /\ Ordered(p.pending[k], Less)
            /\ \A s \in Range(p.pending[k]) : s \in 1 .. n - 1 /\ rows[s].dir = "send" /\ rows[s].key = k
      BY DEF PairInv, QueuesHoldSends
    <2>2. Ordered(w, Less)
      <3>1. \A s \in 1 .. n - 1 : <<s, n>> \in Less
        BY <1>1 DEF Less
      <3> QED BY <1>1, <2>1, <3>1, OrderedAppend DEF w
    <2>3. \A s \in 1 .. n - 1 : s \in 1 .. n
      BY <1>1
    <2>4. n \in 1 .. n
      BY <1>1
    <2>5. \A s \in Range(w) : s \in 1 .. n /\ rows[s].dir = "send" /\ rows[s].key = key
      BY <1>1, <1>2, <2>1, <2>3, <2>4 DEF key
    <2>6. ASSUME NEW k \in PacketKeys
          PROVE  /\ Ordered(q.pending[k], Less)
                 /\ \A s \in Range(q.pending[k]) : s \in 1 .. n /\ rows[s].dir = "send" /\ rows[s].key = k
      <3>1. CASE k = key
        BY <1>4, <2>2, <2>5, <3>1
      <3>2. CASE k # key
        BY <1>4, <2>1, <2>3, <3>2
      <3> QED BY <3>1, <3>2
    <2> QED BY <2>6 DEF QueuesHoldSends
  <1>6. PairsFit(q, n, rows)
    BY <1>1, <1>3 DEF PairInv, PairsFit
  <1>7. PairedFirst(q, rows)
    <2> SUFFICES ASSUME NEW pair \in Range(q.pairs), NEW s \in Range(q.pending[rows[Sent(pair)].key])
                 PROVE  Sent(pair) < s
      BY DEF PairedFirst
    <2>1. pair \in Range(p.pairs) /\ Sent(pair) \in 1 .. n - 1
      BY <1>3 DEF PairInv, PairsFit
    <2>2. rows[Sent(pair)].key \in PacketKeys
      BY <1>1, <2>1 DEF RowsAre
    <2> HIDE DEF w
    <2>3. s \in Range(p.pending[rows[Sent(pair)].key]) \/ s = n
      BY <1>2, <1>4, <2>2
    <2> QED BY <1>1, <2>1, <2>3 DEF PairInv, PairedFirst
  <1>8. ASSUME InTimeOrder(rows)
        PROVE  NoSendForgotten(q, n, now, rows) /\ NoSendPassedOver(q, n, rows)
    <2>1. NoSendForgotten(q, n, now, rows)
      <3> SUFFICES ASSUME NEW s \in 1 .. n, rows[s].dir = "send"
                   PROVE  \/ s \in Range(q.pending[rows[s].key])
                          \/ \E pair \in Range(q.pairs) : Sent(pair) = s
                          \/ rows[s].ts + MatchGap < now
        BY DEF NoSendForgotten
      <3>1. rows[s].key \in PacketKeys
        BY <1>1 DEF RowsAre
      <3>2. CASE s = n
        BY <1>2, <1>4, <3>2
      <3>3. CASE s # n
        <4>1. s \in 1 .. n - 1
          BY <1>1, <3>3
        <4>2. \/ s \in Range(p.pending[rows[s].key])
              \/ \E pair \in Range(p.pairs) : Sent(pair) = s
              \/ rows[s].ts + MatchGap < now
          BY <1>8, <4>1 DEF PairInv, NoSendForgotten
        <4> QED BY <1>3, <1>4, <3>1, <4>2
      <3> QED BY <3>2, <3>3
    <2>2. NoSendPassedOver(q, n, rows)
      <3> SUFFICES ASSUME NEW s \in 1 .. n, NEW r \in 1 .. n, Reach(s, r, rows)
                   PROVE  \E pair \in Range(p.pairs) : Sent(pair) = s \/ (Received(pair) = r /\ Sent(pair) < s)
        BY <1>3 DEF NoSendPassedOver
      <3>1. s < r /\ rows[r].dir = "recv"
        BY DEF Reach
      <3>2. s \in 1 .. n - 1 /\ r \in 1 .. n - 1
        BY <1>1, <3>1
      <3> QED BY <1>8, <3>2 DEF PairInv, NoSendPassedOver
    <2> QED BY <2>1, <2>2
  <1>9. PairInv(q, n, now, rows)
    BY <1>3, <1>5, <1>6, <1>7, <1>8 DEF PairInv
  <1> QED BY <1>9 DEF q

\* A receive that finds no send in reach.
LEMMA AloneKeeps ==
  ASSUME NEW rows, RowsAre(rows), NEW n \in 1 .. Len(rows), NEW p,
         PairInv(p, n - 1, rows[n].ts, rows), rows[n].dir = "recv", p.pending[rows[n].key] = << >>
  PROVE  PairInv(p, n, rows[n].ts, rows)
  <1>1. n \in Nat /\ Len(rows) \in Nat /\ rows[n].ts \in Nat /\ MatchGap \in Nat
    BY PacketCaptureAssumption DEF RowsAre
  <1>2. \A s \in 1 .. n - 1 : s \in 1 .. n
    BY <1>1
  <1>3. p \in PairStates(Len(rows)) /\ PairedFirst(p, rows)
    BY DEF PairInv
  <1>4. QueuesHoldSends(p, n, rows) /\ PairsFit(p, n, rows)
    BY <1>2 DEF PairInv, QueuesHoldSends, PairsFit
  <1>5. ASSUME InTimeOrder(rows) PROVE NoSendForgotten(p, n, rows[n].ts, rows) /\ NoSendPassedOver(p, n, rows)
    <2>1. NoSendForgotten(p, n - 1, rows[n].ts, rows) /\ NoSendPassedOver(p, n - 1, rows)
      BY <1>5 DEF PairInv
    <2>2. \A s \in 1 .. n : s \in 1 .. n - 1 \/ s = n
      BY <1>1
    <2>3. NoSendForgotten(p, n, rows[n].ts, rows)
      BY <2>1, <2>2 DEF NoSendForgotten
    <2>4. NoSendPassedOver(p, n, rows)
      <3> SUFFICES ASSUME NEW s \in 1 .. n, NEW r \in 1 .. n, Reach(s, r, rows)
                   PROVE  \E pair \in Range(p.pairs) : Sent(pair) = s \/ (Received(pair) = r /\ Sent(pair) < s)
        BY DEF NoSendPassedOver
      <3>1. s < r /\ s \in 1 .. n - 1
        BY <1>1 DEF Reach
      <3>2. CASE r = n
        <4>1. rows[s].dir = "send" /\ rows[s].key = rows[n].key /\ rows[n].ts - rows[s].ts <= MatchGap
          BY <3>2 DEF Reach
        <4>2. rows[s].ts \in Nat
          BY <1>1, <3>1 DEF RowsAre
        <4>3. ~ (rows[s].ts + MatchGap < rows[n].ts)
          BY <1>1, <4>1, <4>2
        <4>4. s \notin Range(p.pending[rows[s].key])
          BY <4>1, EmptyFacts
        <4> QED BY <2>1, <3>1, <4>1, <4>3, <4>4 DEF NoSendForgotten
      <3>3. CASE r # n
        <4>1. r \in 1 .. n - 1
          BY <1>1, <3>3
        <4> QED BY <2>1, <3>1, <4>1 DEF NoSendPassedOver
      <3> QED BY <3>2, <3>3
    <2> QED BY <2>3, <2>4
  <1> QED BY <1>3, <1>4, <1>5 DEF PairInv

\* A receive that takes the oldest send in reach.
LEMMA TakingKeeps ==
  ASSUME NEW rows, RowsAre(rows), NEW n \in 1 .. Len(rows), NEW p, NEW q,
         PairInv(p, n - 1, rows[n].ts, rows), rows[n].dir = "recv",
         p.pending[rows[n].key] # << >>,
         rows[p.pending[rows[n].key][1]].ts >= rows[n].ts - MatchGap,
         q \in PairStates(Len(rows)),
         q.pending[rows[n].key] = Tail(p.pending[rows[n].key]),
         \A k \in PacketKeys : k # rows[n].key => q.pending[k] = p.pending[k],
         q.pairs = IF rows[p.pending[rows[n].key][1]].ts > rows[n].ts THEN p.pairs
                   ELSE Append(p.pairs, <<p.pending[rows[n].key][1], n>>)
  PROVE  PairInv(q, n, rows[n].ts, rows)
  <1> DEFINE N == Len(rows)
             key == rows[n].key
             now == rows[n].ts
             w == p.pending[key]
             h == w[1]
             P == PlacePairs(N)
  <1>1. /\ n \in Nat /\ N \in Nat /\ now \in Nat /\ key \in PacketKeys /\ MatchGap \in Nat
        /\ p \in PairStates(N) /\ w \in Seq(1 .. N) /\ p.pairs \in Seq(P)
    BY PacketCaptureAssumption DEF RowsAre, PairInv, PairStates
  <1>2. \A s \in 1 .. n - 1 : s \in 1 .. n /\ s \in 1 .. N /\ s < n /\ s \in Nat
    BY <1>1
  <1>3. \A s \in 1 .. n : s \in 1 .. n - 1 \/ s = n
    BY <1>1
  <1>4. \A k \in PacketKeys :
          /\ Ordered(p.pending[k], Less)
          /\ \A s \in Range(p.pending[k]) : s \in 1 .. n - 1 /\ rows[s].dir = "send" /\ rows[s].key = k
    BY DEF PairInv, QueuesHoldSends
  <1>5. /\ Range(w) = {h} \union Range(Tail(w)) /\ Ordered(Tail(w), Less)
        /\ \A s \in Range(Tail(w)) : <<h, s>> \in Less
    <2> HIDE DEF w
    <2>1. w # << >> /\ Ordered(w, Less)
      BY <1>1, <1>4 DEF w
    <2> QED BY <1>1, <2>1, TailFacts
  <1>6. /\ h \in 1 .. n - 1 /\ rows[h].dir = "send" /\ rows[h].key = key /\ rows[h].ts \in Nat
        /\ rows[h].ts >= now - MatchGap
    <2>1. h \in Range(w)
      BY <1>5
    <2>2. h \in 1 .. n - 1 /\ rows[h].dir = "send" /\ rows[h].key = key
      <3> HIDE DEF h, w, key
      <3>1. p.pending[key] = w /\ key \in PacketKeys
        BY <1>1 DEF w
      <3> QED BY <1>4, <2>1, <3>1
    <2>3. h \in 1 .. N
      BY <1>2, <2>2
    <2> QED BY <2>2, <2>3 DEF RowsAre
  <1>7. \A s \in Range(Tail(w)) : h < s /\ s \in Range(w)
    BY <1>5 DEF Less
  <1>8. \A k \in PacketKeys : Range(q.pending[k]) \subseteq Range(p.pending[k])
    BY <1>5
  <1>9. QueuesHoldSends(q, n, rows)
    <2> SUFFICES ASSUME NEW k \in PacketKeys
                 PROVE  /\ Ordered(q.pending[k], Less)
                        /\ \A s \in Range(q.pending[k]) : s \in 1 .. n /\ rows[s].dir = "send" /\ rows[s].key = k
      BY DEF QueuesHoldSends
    <2>1. Ordered(q.pending[k], Less)
      BY <1>4, <1>5
    <2> QED BY <1>2, <1>4, <1>8, <2>1
  <1>10. rows[h].ts > now => q.pairs = p.pairs
    OBVIOUS
  <1>11. ~(rows[h].ts > now) =>
           /\ q.pairs = Append(p.pairs, <<h, n>>)
           /\ Range(q.pairs) = Range(p.pairs) \union {<<h, n>>}
    <2>1. q.pairs = IF rows[h].ts > now THEN p.pairs ELSE Append(p.pairs, <<h, n>>)
      OBVIOUS
    <2>2. h \in 1 .. N /\ n \in 1 .. N
      BY <1>2, <1>6
    <2> HIDE DEF h, now
    <2>3. <<h, n>> \in P
      BY <2>2 DEF PlacePairs
    <2> HIDE DEF P
    <2>4. Range(Append(p.pairs, <<h, n>>)) = Range(p.pairs) \union {<<h, n>>}
      <3> DEFINE t == <<h, n>>
      <3> HIDE DEF t
      <3>1. t \in P /\ p.pairs \in Seq(P)
        BY <1>1, <2>3 DEF t
      <3>2. Range(Append(p.pairs, t)) = Range(p.pairs) \union {t}
        BY <3>1, AppendedSeq
      <3> QED BY <3>2 DEF t
    <2> QED BY <2>1, <2>4
  <1>12. \A pair \in Range(p.pairs) :
           Sent(pair) \in 1 .. n - 1 /\ Received(pair) \in 1 .. n - 1 /\ Fits(pair, rows) /\ pair \in P
    <2>1. \A pair \in Range(p.pairs) : pair \in P
      BY <1>1, RangeOfSeq
    <2> QED BY <2>1 DEF PairInv, PairsFit
  <1>13. \A pair \in Range(p.pairs) : rows[Sent(pair)].key = key => Sent(pair) < h
    BY <1>5, <1>12 DEF PairInv, PairedFirst
  <1>14. Sent(<<h, n>>) = h /\ Received(<<h, n>>) = n
    BY DEF Sent, Received
  <1> HIDE DEF h, w, key, now, P
  <1>15. PairsFit(q, n, rows)
    <2>1. CASE rows[h].ts > now
      BY <1>2, <1>10, <2>1 DEF PairInv, PairsFit
    <2>2. CASE ~(rows[h].ts > now)
      <3>1. Fits(<<h, n>>, rows)
        <4>1. now - rows[h].ts \in 0 .. MatchGap
          BY <1>1, <1>6, <2>2
        <4> QED BY <1>6, <1>14, <4>1 DEF Fits, key, now
      <3>2. \A pair \in Range(q.pairs) : Sent(pair) \in 1 .. n /\ Received(pair) \in 1 .. n /\ Fits(pair, rows)
        <4>1. h \in 1 .. n /\ n \in 1 .. n
          BY <1>1, <1>2, <1>6
        <4>2. Sent(<<h, n>>) \in 1 .. n /\ Received(<<h, n>>) \in 1 .. n /\ Fits(<<h, n>>, rows)
          BY <1>14, <3>1, <4>1
        <4>3. \A pair \in Range(p.pairs) : Sent(pair) \in 1 .. n /\ Received(pair) \in 1 .. n /\ Fits(pair, rows)
          BY <1>2, <1>12
        <4> QED BY <1>11, <2>2, <4>2, <4>3
      <3>3. \A pair \in Range(p.pairs) : <<pair, <<h, n>> >> \in PairsFollow(rows)
        <4> SUFFICES ASSUME NEW pair \in Range(p.pairs) PROVE <<pair, <<h, n>> >> \in PairsFollow(rows)
          OBVIOUS
        <4>1. pair \in P /\ <<h, n>> \in P
          BY <1>1, <1>2, <1>6, <1>12 DEF P, PlacePairs
        <4>2. Received(pair) < n
          BY <1>2, <1>12
        <4>3. rows[Sent(pair)].key = rows[h].key => Sent(pair) < h
          BY <1>6, <1>13
        <4>4. <<pair, <<h, n>> >>[1] = pair /\ <<pair, <<h, n>> >>[2] = <<h, n>>
          OBVIOUS
        <4> QED BY <4>1, <4>2, <4>3, <4>4, <1>14 DEF PairsFollow, P
      <3>4. Ordered(q.pairs, PairsFollow(rows))
        <4>1. Ordered(p.pairs, PairsFollow(rows))
          BY DEF PairInv, PairsFit
        <4>2. h \in 1 .. N /\ n \in 1 .. N
          BY <1>2, <1>6
        <4>3. <<h, n>> \in P
          BY <4>2 DEF P, PlacePairs
        <4> DEFINE t == <<h, n>>
                   F == PairsFollow(rows)
        <4> HIDE DEF t, F
        <4>4. t \in P /\ p.pairs \in Seq(P) /\ Ordered(p.pairs, F) /\ \A y \in Range(p.pairs) : <<y, t>> \in F
          BY <1>1, <3>3, <4>1, <4>3 DEF t, F
        <4>5. Ordered(Append(p.pairs, t), F)
          BY <4>4, OrderedAppend
        <4> QED BY <1>11, <2>2, <4>5 DEF t, F
      <3> QED BY <3>2, <3>4 DEF PairsFit
    <2> QED BY <2>1, <2>2
  <1>16. PairedFirst(q, rows)
    <2> SUFFICES ASSUME NEW pair \in Range(q.pairs), NEW s \in Range(q.pending[rows[Sent(pair)].key])
                 PROVE  Sent(pair) < s
      BY DEF PairedFirst
    <2>1. CASE pair \in Range(p.pairs)
      <3>1. rows[Sent(pair)].key \in PacketKeys
        BY <1>2, <1>12, <2>1 DEF RowsAre
      <3>2. s \in Range(p.pending[rows[Sent(pair)].key])
        BY <1>8, <3>1
      <3> QED BY <2>1, <3>2 DEF PairInv, PairedFirst
    <2>2. CASE pair \notin Range(p.pairs)
      <3>1. pair = <<h, n>>
        BY <1>10, <1>11, <2>2
      <3>2. rows[Sent(pair)].key = key /\ Sent(pair) = h
        BY <1>6, <1>14, <3>1
      <3>3. s \in Range(Tail(w))
        BY <3>2 DEF w, key
      <3> QED BY <1>7, <3>2, <3>3
    <2> QED BY <2>1, <2>2
  <1>17. ASSUME InTimeOrder(rows)
         PROVE  NoSendForgotten(q, n, now, rows) /\ NoSendPassedOver(q, n, rows)
    <2>1. NoSendForgotten(p, n - 1, now, rows) /\ NoSendPassedOver(p, n - 1, rows)
      BY <1>17 DEF PairInv, now
    <2>2. Range(q.pairs) = Range(p.pairs) \union {<<h, n>>}
      <3>1. h \in DOMAIN rows /\ n \in DOMAIN rows /\ h < n
        BY <1>2, <1>6 DEF RowsAre
      <3>2. rows[h].ts <= rows[n].ts
        BY <1>17, <3>1 DEF InTimeOrder
      <3>3. ~(rows[h].ts > now)
        BY <1>1, <1>6, <3>2 DEF now
      <3> QED BY <1>11, <3>3
    <2>3. \A s \in Range(w) : s = h \/ s \in Range(Tail(w))
      BY <1>5
    <2>4. NoSendForgotten(q, n, now, rows)
      <3> SUFFICES ASSUME NEW s \in 1 .. n, rows[s].dir = "send"
                   PROVE  \/ s \in Range(q.pending[rows[s].key])
                          \/ \E pair \in Range(q.pairs) : Sent(pair) = s
                          \/ rows[s].ts + MatchGap < now
        BY DEF NoSendForgotten
      <3>1. s \in 1 .. n - 1
        BY <1>3
      <3>2. \/ s \in Range(p.pending[rows[s].key])
            \/ \E pair \in Range(p.pairs) : Sent(pair) = s
            \/ rows[s].ts + MatchGap < now
        BY <2>1, <3>1 DEF NoSendForgotten
      <3>3. rows[s].key \in PacketKeys
        BY <1>2, <3>1 DEF RowsAre
      <3>4. CASE s \in Range(p.pending[rows[s].key]) /\ rows[s].key = key
        <4>1. s = h \/ s \in Range(q.pending[rows[s].key])
          BY <2>3, <3>4 DEF w, key
        <4> QED BY <1>14, <2>2, <4>1
      <3>5. CASE s \in Range(p.pending[rows[s].key]) /\ rows[s].key # key
        BY <3>3, <3>5 DEF key
      <3> QED BY <2>2, <3>2, <3>4, <3>5
    <2>5. NoSendPassedOver(q, n, rows)
      <3> SUFFICES ASSUME NEW s \in 1 .. n, NEW r \in 1 .. n, Reach(s, r, rows)
                   PROVE  \E pair \in Range(q.pairs) : Sent(pair) = s \/ (Received(pair) = r /\ Sent(pair) < s)
        BY DEF NoSendPassedOver
      <3>1. s < r /\ s \in 1 .. n - 1
        BY <1>1 DEF Reach
      <3>2. CASE r = n
        <4>1. rows[s].dir = "send" /\ rows[s].key = key /\ now - rows[s].ts <= MatchGap
          BY <3>2 DEF Reach, now, key
        <4>2. rows[s].ts \in Nat
          BY <1>2, <3>1 DEF RowsAre
        <4>3. ~ (rows[s].ts + MatchGap < now)
          BY <1>1, <4>1, <4>2
        <4>4. s \in Range(w) \/ \E pair \in Range(p.pairs) : Sent(pair) = s
          BY <2>1, <3>1, <4>1, <4>3 DEF NoSendForgotten, w
        <4>5. s \in Range(w) => s = h \/ h < s
          BY <1>7, <2>3
        <4> QED BY <1>14, <2>2, <3>2, <4>4, <4>5
      <3>3. CASE r # n
        <4>1. r \in 1 .. n - 1
          BY <1>3, <3>3
        <4>2. \E pair \in Range(p.pairs) : Sent(pair) = s \/ (Received(pair) = r /\ Sent(pair) < s)
          BY <2>1, <3>1, <4>1 DEF NoSendPassedOver
        <4> QED BY <2>2, <4>2
      <3> QED BY <3>2, <3>3
    <2> QED BY <2>4, <2>5
  <1> QED BY <1>9, <1>15, <1>16, <1>17 DEF PairInv, now

\* A queue that is replaced, and the pairs that are.
WithQueue(p, key, d) == [p EXCEPT !.pending[key] = d]
WithPair(p, key, d, pairs) == [p EXCEPT !.pending[key] = d, !.pairs = pairs]

\* One queue is replaced, the others stay.
LEMMA QueueReplaced ==
  ASSUME NEW N, NEW p \in PairStates(N), NEW key \in PacketKeys, NEW d \in Seq(1 .. N)
  PROVE  /\ WithQueue(p, key, d) \in PairStates(N) /\ WithQueue(p, key, d).pairs = p.pairs
         /\ WithQueue(p, key, d).pending[key] = d
         /\ \A k \in PacketKeys : k # key => WithQueue(p, key, d).pending[k] = p.pending[k]
  <1> DEFINE f == [p.pending EXCEPT ![key] = d]
             q == WithQueue(p, key, d)
  <1>1. p.pending \in [PacketKeys -> Seq(1 .. N)]
    BY DEF PairStates
  <1>2. /\ f \in [PacketKeys -> Seq(1 .. N)] /\ f[key] = d
        /\ \A k \in PacketKeys : k # key => f[k] = p.pending[k]
    BY <1>1
  <1>3. q = [p EXCEPT !.pending = f]
    BY DEF WithQueue
  <1> HIDE DEF f, q
  <1>4. q \in PairStates(N) /\ q.pairs = p.pairs /\ q.pending = f
    BY <1>2, <1>3 DEF PairStates
  <1> QED BY <1>2, <1>4 DEF q

\* One queue and the pairs are replaced, the other queues stay.
LEMMA QueueAndPairsReplaced ==
  ASSUME NEW N, NEW p \in PairStates(N), NEW key \in PacketKeys, NEW d \in Seq(1 .. N),
         NEW pairs \in Seq(PlacePairs(N))
  PROVE  /\ WithPair(p, key, d, pairs) \in PairStates(N) /\ WithPair(p, key, d, pairs).pairs = pairs
         /\ WithPair(p, key, d, pairs).pending[key] = d
         /\ \A k \in PacketKeys : k # key => WithPair(p, key, d, pairs).pending[k] = p.pending[k]
  <1> DEFINE f == [p.pending EXCEPT ![key] = d]
             q == WithPair(p, key, d, pairs)
  <1>1. p.pending \in [PacketKeys -> Seq(1 .. N)]
    BY DEF PairStates
  <1>2. /\ f \in [PacketKeys -> Seq(1 .. N)] /\ f[key] = d
        /\ \A k \in PacketKeys : k # key => f[k] = p.pending[k]
    BY <1>1
  <1>3. q = [p EXCEPT !.pending = f, !.pairs = pairs]
    BY DEF WithPair
  <1> HIDE DEF f, q
  <1>4. q \in PairStates(N) /\ q.pairs = pairs /\ q.pending = f
    BY <1>2, <1>3 DEF PairStates
  <1> QED BY <1>2, <1>4 DEF q

\* A receive that comes.
LEMMA ReceiveKeeps ==
  ASSUME NEW rows, RowsAre(rows), NEW n \in 1 .. Len(rows), NEW p,
         PairInv(p, n - 1, rows[n].ts, rows), rows[n].dir = "recv"
  PROVE  PairInv(TakesSend(p, n, rows), n, rows[n].ts, rows)
  <1> DEFINE N == Len(rows)
             key == rows[n].key
             now == rows[n].ts
             queue == DropOlder(p.pending[key], now - MatchGap, rows)
             e == WithQueue(p, key, queue)
             found == IF rows[Head(queue)].ts > now THEN p.pairs ELSE Append(p.pairs, <<Head(queue), n>>)
             rest == Tail(queue)
             q == WithPair(p, key, rest, found)
  <1>1. /\ n \in Nat /\ N \in Nat /\ now \in Nat /\ key \in PacketKeys /\ MatchGap \in Nat
        /\ p \in PairStates(N) /\ p.pending[key] \in Seq(1 .. N) /\ p.pairs \in Seq(PlacePairs(N))
        /\ n - 1 \in 0 .. N /\ now - MatchGap \in Int
    BY PacketCaptureAssumption DEF RowsAre, PairInv, PairStates
  <1>2. /\ queue \in Seq(1 .. N) /\ LeftOf(queue, p.pending[key], now - MatchGap, rows)
        /\ queue # << >> => rows[queue[1]].ts >= now - MatchGap
    BY <1>1, DropOlderFacts
  <1>3. TakesSend(p, n, rows) = IF queue = << >> THEN e ELSE q
    BY Zenon DEF TakesSend, WithQueue, WithPair
  <1> HIDE DEF queue
  <1>4. /\ e \in PairStates(N) /\ e.pairs = p.pairs /\ e.pending[key] = queue
        /\ \A k \in PacketKeys : k # key => e.pending[k] = p.pending[k]
    <2>1. p \in PairStates(N) /\ key \in PacketKeys /\ queue \in Seq(1 .. N)
      BY <1>1, <1>2
    <2> HIDE DEF N, key
    <2> QED BY <2>1, QueueReplaced
  <1> HIDE DEF e
  <1>5. PairInv(e, n - 1, now, rows)
    <2>1. \A k \in PacketKeys : LeftOf(e.pending[k], p.pending[k], now - MatchGap, rows)
      BY <1>2, <1>4, SameIsLeft
    <2>2. Aged(p, e, now, rows)
      BY <1>4, <2>1 DEF Aged
    <2>3. n - 1 \in 0 .. Len(rows) /\ now \in Int /\ PairInv(p, n - 1, now, rows)
      BY <1>1
    <2> HIDE DEF now
    <2> QED BY <2>2, <2>3, AgingKeeps
  <1>6. CASE queue = << >>
    BY <1>3, <1>4, <1>5, <1>6, AloneKeeps
  <1>7. CASE queue # << >>
    <2>1. /\ queue[1] \in 1 .. N /\ Tail(queue) \in Seq(1 .. N) /\ Head(queue) = queue[1]
      BY <1>2, <1>7, TailFacts
    <2>2. found \in Seq(PlacePairs(N))
      <3> DEFINE P == PlacePairs(N)
                 t == <<Head(queue), n>>
      <3>1. t \in P
        BY <1>1, <2>1 DEF PlacePairs
      <3> HIDE DEF t, P
      <3>2. Append(p.pairs, t) \in Seq(P)
        BY <1>1, <3>1, AppendedSeq DEF P
      <3> QED BY <1>1, <3>2 DEF t, P
    <2>3. /\ found = IF rows[queue[1]].ts > now THEN p.pairs ELSE Append(p.pairs, <<queue[1], n>>)
      BY <2>1
    <2> HIDE DEF found
    <2>4. /\ q \in PairStates(N) /\ q.pairs = found /\ q.pending[key] = Tail(queue)
          /\ \A k \in PacketKeys : k # key => q.pending[k] = p.pending[k]
      <3>1. p \in PairStates(N) /\ key \in PacketKeys /\ rest \in Seq(1 .. N) /\ found \in Seq(PlacePairs(N))
        BY <1>1, <2>1, <2>2
      <3> HIDE DEF N, key, rest
      <3>2. /\ q \in PairStates(N) /\ q.pairs = found /\ q.pending[key] = rest
            /\ \A k \in PacketKeys : k # key => q.pending[k] = p.pending[k]
        BY <3>1, QueueAndPairsReplaced
      <3> QED BY <3>2 DEF rest
    <2> HIDE DEF q
    <2>5. \A k \in PacketKeys : k # key => q.pending[k] = e.pending[k]
      BY <1>4, <2>4
    <2>6. PairInv(q, n, now, rows)
      <3>1. /\ PairInv(e, n - 1, rows[n].ts, rows)
            /\ e.pending[rows[n].key] = queue /\ q \in PairStates(Len(rows))
            /\ q.pending[rows[n].key] = Tail(queue)
            /\ \A k \in PacketKeys : k # rows[n].key => q.pending[k] = e.pending[k]
            /\ q.pairs = IF rows[queue[1]].ts > rows[n].ts THEN e.pairs ELSE Append(e.pairs, <<queue[1], n>>)
            /\ rows[queue[1]].ts >= rows[n].ts - MatchGap
        BY <1>2, <1>4, <1>5, <1>7, <2>3, <2>4, <2>5
      <3>2. /\ e.pending[rows[n].key] # << >>
            /\ rows[e.pending[rows[n].key][1]].ts >= rows[n].ts - MatchGap
            /\ q.pending[rows[n].key] = Tail(e.pending[rows[n].key])
            /\ q.pairs = IF rows[e.pending[rows[n].key][1]].ts > rows[n].ts THEN e.pairs
                         ELSE Append(e.pairs, <<e.pending[rows[n].key][1], n>>)
        BY <1>7, <3>1
      <3> QED BY <3>1, <3>2, TakingKeeps
    <2> QED BY <1>3, <1>7, <2>6
  <1> QED BY <1>6, <1>7

\* A row.
LEMMA PairRowKeeps ==
  ASSUME NEW rows, RowsAre(rows), NEW n \in 1 .. Len(rows), NEW p,
         PairInv(p, n - 1, IF n = 1 THEN 0 ELSE rows[n - 1].ts, rows)
  PROVE  PairInv(PairRow(p, n, rows), n, rows[n].ts, rows)
  <1> DEFINE before == IF n = 1 THEN 0 ELSE rows[n - 1].ts
             now == rows[n].ts
             e == Evicted(p, now, rows)
  <1>1. n \in Nat /\ Len(rows) \in Nat /\ now \in Nat /\ n - 1 \in 0 .. Len(rows) /\ MatchGap \in Nat
    BY PacketCaptureAssumption DEF RowsAre
  <1>2. PairInv(p, n - 1, now, rows)
    <2> SUFFICES ASSUME InTimeOrder(rows) PROVE NoSendForgotten(p, n - 1, now, rows)
      BY DEF PairInv
    <2>1. NoSendForgotten(p, n - 1, before, rows)
      BY DEF PairInv
    <2> SUFFICES ASSUME NEW s \in 1 .. n - 1, rows[s].dir = "send"
                 PROVE  rows[s].ts + MatchGap < before => rows[s].ts + MatchGap < now
      BY <2>1 DEF NoSendForgotten
    <2>2. n - 1 \in DOMAIN rows /\ n \in DOMAIN rows /\ n - 1 < n /\ n # 1 /\ s \in 1 .. Len(rows)
      BY <1>1 DEF RowsAre
    <2>3. rows[n - 1].ts <= rows[n].ts
      BY <2>2 DEF InTimeOrder
    <2>4. rows[s].ts \in Nat /\ rows[n - 1].ts \in Nat
      BY <2>2 DEF RowsAre
    <2> QED BY <1>1, <2>2, <2>3, <2>4
  <1>3. PairInv(e, n - 1, now, rows)
    <2>1. Aged(p, e, now, rows)
      BY <1>1, <1>2, EvictedAges DEF PairInv
    <2> HIDE DEF e, now
    <2> QED BY <1>1, <1>2, <2>1, AgingKeeps
  <1>4. PairRow(p, n, rows) = IF rows[n].dir = "send" THEN SendWaits(e, n, rows) ELSE TakesSend(e, n, rows)
    BY DEF PairRow
  <1> HIDE DEF e
  <1>5. CASE rows[n].dir = "send"
    BY <1>1, <1>3, <1>4, <1>5, SendKeeps
  <1>6. CASE rows[n].dir # "send"
    <2>1. rows[n].dir = "recv"
      BY <1>6 DEF RowsAre
    <2> QED BY <1>3, <1>4, <1>6, <2>1, ReceiveKeeps
  <1> QED BY <1>5, <1>6

\* The time of the last row that was read.
ReadTo(n, rows) == IF n = 0 THEN 0 ELSE rows[n].ts

\* Before the first row.
LEMMA NoPairsYet ==
  ASSUME NEW rows, RowsAre(rows) PROVE PairInv(NoPairs, 0, 0, rows)
  <1>1. << >> \in Seq(1 .. Len(rows)) /\ << >> \in Seq(PlacePairs(Len(rows)))
    BY EmptySeq
  <1>2. NoPairs \in PairStates(Len(rows))
    BY <1>1 DEF NoPairs, PairStates
  <1>3. Range(<< >>) = {} /\ DOMAIN << >> = {}
    BY EmptyFacts
  <1>4. NoPairs.pairs = << >> /\ \A k \in PacketKeys : NoPairs.pending[k] = << >>
    BY DEF NoPairs
  <1>5. \A R : Ordered(<< >>, R)
    BY <1>3 DEF Ordered
  <1>6. QueuesHoldSends(NoPairs, 0, rows)
    BY <1>3, <1>4, <1>5 DEF QueuesHoldSends
  <1>7. PairsFit(NoPairs, 0, rows) /\ PairedFirst(NoPairs, rows)
    BY <1>3, <1>4, <1>5 DEF PairsFit, PairedFirst
  <1>8. NoSendForgotten(NoPairs, 0, 0, rows) /\ NoSendPassedOver(NoPairs, 0, rows)
    BY DEF NoSendForgotten, NoSendPassedOver
  <1> QED BY <1>2, <1>6, <1>7, <1>8 DEF PairInv

\* What holds of any computation of the steps.
LEMMA PairStepsKeep ==
  ASSUME NEW rows, RowsAre(rows), NEW k, k[0] = NoPairs,
         \A n \in 1 .. Len(rows) : PairInv(k[n - 1], n - 1, ReadTo(n - 1, rows), rows) =>
                                     k[n] = PairRow(k[n - 1], n, rows)
  PROVE  \A n \in 0 .. Len(rows) : PairInv(k[n], n, ReadTo(n, rows), rows)
  <1> DEFINE N == Len(rows)
             S == {n \in Nat : n <= N => PairInv(k[n], n, ReadTo(n, rows), rows)}
  <1>1. 0 \in S
    <2>1. ReadTo(0, rows) = 0
      BY DEF ReadTo
    <2> QED BY <2>1, NoPairsYet
  <1>2. ASSUME NEW m \in Nat, m \in S PROVE m + 1 \in S
    <2> SUFFICES ASSUME m + 1 <= N PROVE PairInv(k[m + 1], m + 1, ReadTo(m + 1, rows), rows)
      OBVIOUS
    <2> DEFINE n == m + 1
    <2>1. n \in 1 .. N /\ n - 1 = m /\ N \in Nat /\ n # 0
      BY DEF RowsAre
    <2>2. PairInv(k[n - 1], n - 1, ReadTo(n - 1, rows), rows)
      BY <1>2, <2>1
    <2> HIDE DEF n
    <2>3. k[n] = PairRow(k[n - 1], n, rows)
      BY <2>1, <2>2
    <2>4. ReadTo(n, rows) = rows[n].ts
      BY <2>1 DEF ReadTo
    <2>5. PairInv(PairRow(k[n - 1], n, rows), n, rows[n].ts, rows)
      BY <2>1, <2>2, PairRowKeeps DEF ReadTo
    <2> QED BY <2>3, <2>4, <2>5 DEF n
  <1> HIDE DEF S
  <1>3. Nat \subseteq S
    BY <1>1, <1>2, SetInduction
  <1>4. N \in Nat
    BY DEF RowsAre
  <1> QED BY <1>3, <1>4 DEF S

\* PairsIn is what the last step leaves.
LEMMA PairsInFacts ==
  ASSUME NEW rows, RowsAre(rows)
  PROVE  \E p : PairInv(p, Len(rows), ReadTo(Len(rows), rows), rows) /\ PairsIn(rows) = p.pairs
  <1> DEFINE N == Len(rows)
             V == PairStates(N)
             F == [m \in 1 .. N |->
                     [y \in V |-> IF PairRow(y, m, rows) \in V THEN PairRow(y, m, rows) ELSE NoPairs]]
             Body(g) == [n \in 0 .. N |-> IF n = 0 THEN NoPairs ELSE PairRow(g[n - 1], n, rows)]
             k == CHOOSE g : g = Body(g)
  <1>1. N \in Nat
    BY DEF RowsAre
  <1>2. NoPairs \in V
    BY NoPairsYet DEF PairInv
  <1>3. /\ F \in [1 .. N -> [V -> V]]
        /\ \A m \in 1 .. N, y \in V : PairRow(y, m, rows) \in V => F[m][y] = PairRow(y, m, rows)
    <2> HIDE DEF V, N
    <2> QED BY <1>2
  <1> HIDE DEF V, F, N
  <1>4. PICK g \in [0 .. N -> V] : g[0] = NoPairs /\ \A m \in 1 .. N : g[m] = F[m][g[m - 1]]
    <2>1. N \in Nat /\ F \in [1 .. N -> [V -> V]]
      BY <1>1, <1>3
    <2> QED BY <1>2, <2>1, StepsExist, SMTT(30)
  <1>5. \A m \in 1 .. N : PairInv(g[m - 1], m - 1, ReadTo(m - 1, rows), rows) => g[m] = PairRow(g[m - 1], m, rows)
    <2> SUFFICES ASSUME NEW m \in 1 .. N, PairInv(g[m - 1], m - 1, ReadTo(m - 1, rows), rows)
                 PROVE  g[m] = PairRow(g[m - 1], m, rows)
      OBVIOUS
    <2>1. m - 1 \in 0 .. N /\ m \in 1 .. Len(rows)
      BY <1>1 DEF N
    <2>2. PairInv(PairRow(g[m - 1], m, rows), m, rows[m].ts, rows)
      BY <2>1, PairRowKeeps DEF ReadTo
    <2>3. PairRow(g[m - 1], m, rows) \in V /\ g[m - 1] \in V
      BY <1>4, <2>1, <2>2 DEF PairInv, V, N
    <2> QED BY <1>3, <1>4, <2>3
  <1>6. \A n \in 0 .. N : PairInv(g[n], n, ReadTo(n, rows), rows)
    BY <1>4, <1>5, PairStepsKeep DEF N
  <1>7. \A m \in 1 .. N : g[m] = PairRow(g[m - 1], m, rows)
    <2> SUFFICES ASSUME NEW m \in 1 .. N PROVE g[m] = PairRow(g[m - 1], m, rows)
      OBVIOUS
    <2>1. m - 1 \in 0 .. N
      BY <1>1
    <2> QED BY <1>5, <1>6, <2>1
  <1>8. g = Body(g)
    <2>1. ASSUME NEW n \in 0 .. N PROVE g[n] = Body(g)[n]
      <3>1. CASE n = 0
        BY <1>4, <3>1
      <3>2. CASE n # 0
        <4>1. n \in 1 .. N
          BY <1>1, <3>2
        <4> QED BY <1>7, <3>2, <4>1
      <3> QED BY <3>1, <3>2
    <2>2. g = [n \in 0 .. N |-> g[n]]
      BY <1>4
    <2> QED BY <2>1, <2>2
  <1>9. k = Body(k)
    BY <1>8
  <1>10. PairsIn(rows) = k[N].pairs
    BY DEF PairsIn, N
  <1> HIDE DEF k
  <1>11. k[0] = NoPairs /\ \A m \in 1 .. N : k[m] = PairRow(k[m - 1], m, rows)
    <2>1. \A n \in 0 .. N : k[n] = IF n = 0 THEN NoPairs ELSE PairRow(k[n - 1], n, rows)
      BY <1>9
    <2>2. 0 \in 0 .. N /\ \A m \in 1 .. N : m \in 0 .. N /\ m # 0
      BY <1>1
    <2> QED BY <2>1, <2>2
  <1>12. \A n \in 0 .. N : PairInv(k[n], n, ReadTo(n, rows), rows)
    BY <1>11, PairStepsKeep DEF N
  <1>13. N \in 0 .. N
    BY <1>1
  <1> QED BY <1>10, <1>12, <1>13 DEF N

\* As many members as places, when they are all different.
LEMMA DistinctCount ==
  ASSUME NEW X, NEW s \in Seq(X), \A i, j \in DOMAIN s : s[i] = s[j] => i = j
  PROVE  Cardinality(Range(s)) = Len(s)
  <1>1. Len(s) \in Nat /\ DOMAIN s = 1 .. Len(s)
    BY LenProperties
  <1>2. IsFiniteSet(1 .. Len(s)) /\ Cardinality(1 .. Len(s)) = Len(s)
    <2>1. IsFiniteSet(1 .. Len(s)) /\ Cardinality(1 .. Len(s)) = IF 1 > Len(s) THEN 0 ELSE Len(s) - 1 + 1
      BY <1>1, FS_Interval
    <2> QED BY <1>1, <2>1
  <1>3. s \in Bijection(1 .. Len(s), Range(s))
    <2>1. s \in [1 .. Len(s) -> Range(s)]
      BY <1>1 DEF Range
    <2>2. s \in Injection(1 .. Len(s), Range(s))
      BY <1>1, <2>1 DEF Injection, IsInjective
    <2>3. s \in Surjection(1 .. Len(s), Range(s))
      BY <1>1, <2>1 DEF Surjection, Range
    <2> QED BY <2>2, <2>3 DEF Bijection
  <1>4. Cardinality(1 .. Len(s)) = Cardinality(Range(s))
    <2> DEFINE D == 1 .. Len(s)
               R == Range(s)
    <2>1. ExistsBijection(D, R)
      BY <1>3 DEF ExistsBijection
    <2>2. IsFiniteSet(D)
      BY <1>2
    <2> HIDE DEF D, R
    <2>3. Cardinality(R) = Cardinality(D)
      BY <2>1, <2>2, FS_Bijection
    <2> QED BY <2>3 DEF D, R
  <1> QED BY <1>2, <1>4

\* Pairs are what they are said to be.
LEMMA PairsMatch ==
  ASSUME NEW rows, RowsAre(rows) PROVE Matched(rows, PairsIn(rows))
  <1> DEFINE N == Len(rows)
             pairs == PairsIn(rows)
             P == PlacePairs(N)
  <1>1. PICK p : PairInv(p, N, ReadTo(N, rows), rows) /\ pairs = p.pairs
    BY PairsInFacts
  <1> HIDE DEF pairs
  <1>2. N \in Nat /\ DOMAIN rows = 1 .. N /\ MatchGap \in Nat
    BY PacketCaptureAssumption DEF RowsAre
  <1>3. pairs \in Seq(P) /\ DOMAIN pairs = 1 .. Len(pairs) /\ Len(pairs) \in Nat
    BY <1>1, LenProperties DEF PairInv, PairStates
  <1>4. ToSet(pairs) = Range(pairs)
    BY <1>3 DEF ToSet, Range
  <1>5. \A pair \in Range(pairs) : pair \in P /\ Fits(pair, rows)
    <2>1. \A pair \in Range(pairs) : Fits(pair, rows)
      BY <1>1 DEF PairInv, PairsFit
    <2> HIDE DEF P
    <2> QED BY <1>3, <2>1, RangeOfSeq
  <1>6. \A pair \in P : Sent(pair) \in 1 .. N /\ Received(pair) \in 1 .. N /\ pair = <<Sent(pair), Received(pair)>>
    BY DEF PlacePairs, Sent, Received
  <1> HIDE DEF P
  <1>7. ASSUME NEW i \in DOMAIN pairs, NEW j \in DOMAIN pairs, i < j
        PROVE  /\ Received(pairs[i]) < Received(pairs[j])
               /\ rows[Sent(pairs[i])].key = rows[Sent(pairs[j])].key => Sent(pairs[i]) < Sent(pairs[j])
    <2>1. Ordered(pairs, PairsFollow(rows))
      BY <1>1 DEF PairInv, PairsFit
    <2>2. <<pairs[i], pairs[j]>> \in PairsFollow(rows)
      BY <1>7, <2>1 DEF Ordered
    <2> QED BY <2>2 DEF PairsFollow
  <1>8. \A i \in DOMAIN pairs : pairs[i] \in Range(pairs)
    BY DEF Range
  <1>9. ASSUME NEW i \in DOMAIN pairs, NEW j \in DOMAIN pairs,
               Sent(pairs[i]) = Sent(pairs[j]) \/ Received(pairs[i]) = Received(pairs[j])
        PROVE  i = j
    <2> SUFFICES ASSUME i # j PROVE FALSE
      OBVIOUS
    <2>1. i < j \/ j < i
      BY <1>3
    <2>2. /\ Sent(pairs[i]) \in 1 .. N /\ Received(pairs[i]) \in 1 .. N
          /\ Sent(pairs[j]) \in 1 .. N /\ Received(pairs[j]) \in 1 .. N
          /\ Fits(pairs[i], rows) /\ Fits(pairs[j], rows)
      BY <1>5, <1>6, <1>8
    <2>3. /\ i < j => /\ Received(pairs[i]) < Received(pairs[j])
                      /\ rows[Sent(pairs[i])].key = rows[Sent(pairs[j])].key => Sent(pairs[i]) < Sent(pairs[j])
          /\ j < i => /\ Received(pairs[j]) < Received(pairs[i])
                      /\ rows[Sent(pairs[j])].key = rows[Sent(pairs[i])].key => Sent(pairs[j]) < Sent(pairs[i])
      BY <1>7
    <2> QED BY <1>2, <1>9, <2>1, <2>2, <2>3
  <1>10. \A a, b \in Range(pairs) : Sent(a) = Sent(b) \/ Received(a) = Received(b) => a = b
    <2> SUFFICES ASSUME NEW a \in Range(pairs), NEW b \in Range(pairs), Sent(a) = Sent(b) \/ Received(a) = Received(b)
                 PROVE  a = b
      OBVIOUS
    <2>1. PICK i \in DOMAIN pairs : a = pairs[i]
      BY DEF Range
    <2>2. PICK j \in DOMAIN pairs : b = pairs[j]
      BY DEF Range
    <2> QED BY <1>9, <2>1, <2>2
  <1>11. Cardinality(Range(pairs)) = Len(pairs)
    <2>1. \A i, j \in DOMAIN pairs : pairs[i] = pairs[j] => i = j
      BY <1>9
    <2> QED BY <1>3, <2>1, DistinctCount
  <1>12. \A a, b \in Range(pairs) :
           rows[Sent(a)].key = rows[Sent(b)].key /\ Sent(a) < Sent(b) => Received(a) < Received(b)
    <2> SUFFICES ASSUME NEW a \in Range(pairs), NEW b \in Range(pairs),
                        rows[Sent(a)].key = rows[Sent(b)].key, Sent(a) < Sent(b)
                 PROVE  Received(a) < Received(b)
      OBVIOUS
    <2>1. PICK i \in DOMAIN pairs : a = pairs[i]
      BY DEF Range
    <2>2. PICK j \in DOMAIN pairs : b = pairs[j]
      BY DEF Range
    <2>3. Sent(a) \in Nat /\ Sent(b) \in Nat
      BY <1>2, <1>5, <1>6
    <2>4. i # j /\ i \in Nat /\ j \in Nat
      BY <1>3, <2>1, <2>2, <2>3
    <2>5. CASE i < j
      BY <1>7, <2>1, <2>2, <2>5
    <2>6. CASE j < i
      <3>1. Sent(b) < Sent(a)
        BY <1>7, <2>1, <2>2, <2>6
      <3> QED BY <2>3, <3>1
    <2> QED BY <2>4, <2>5, <2>6
  <1>13. InTimeOrder(rows) => \A s, r \in DOMAIN rows : Reach(s, r, rows) =>
           \E pair \in Range(pairs) : Sent(pair) = s \/ (Received(pair) = r /\ Sent(pair) < s)
    BY <1>1, <1>2 DEF PairInv, NoSendPassedOver
  <1>14. Matched(rows, pairs)
    BY <1>4, <1>5, <1>10, <1>11, <1>12, <1>13 DEF Matched
  <1> QED BY <1>14 DEF pairs

-----------------------------------------------------------------------------
(* The rows a tool reads *)

\* out has the rows in another order, by time when they are one batch.
Sorts(order, rows, out, size) ==
  /\ DOMAIN order = DOMAIN rows /\ Range(order) = DOMAIN rows
  /\ \A n \in DOMAIN rows : out[n] = rows[order[n]]
  /\ \A n, m \in DOMAIN rows : n # m => order[n] # order[m]
  /\ size > Len(rows) =>
       \A n, m \in DOMAIN rows : n < m => rows[order[n]].ts <= rows[order[m]].ts

\* Sorting in batches moves rows: no row is lost, and none comes twice.
LEMMA SortedFacts ==
  ASSUME NEW X, NEW rows \in Seq(X), NEW size \in Nat \ {0}, \A x \in X : x.ts \in Nat
  PROVE  /\ SortedInBatches(rows, size) \in Seq(X)
         /\ \E order \in Seq(DOMAIN rows) : Sorts(order, rows, SortedInBatches(rows, size), size)
  <1> DEFINE D == DOMAIN rows
             places == [n \in D |-> n]
             Batch(n) == (n - 1) \div size
             Comes(m, n) == \/ Batch(m) < Batch(n)
                            \/ /\ Batch(m) = Batch(n)
                               /\ rows[m].ts < rows[n].ts \/ (rows[m].ts = rows[n].ts /\ m < n)
             comes == {c \in D \X D :
                         \/ Batch(c[1]) < Batch(c[2])
                         \/ /\ Batch(c[1]) = Batch(c[2])
                            /\ \/ rows[c[1]].ts < rows[c[2]].ts
                               \/ rows[c[1]].ts = rows[c[2]].ts /\ c[1] < c[2]}
             order == Arranged(places, comes)
             out == SortedInBatches(rows, size)
             Differ == {c \in D \X D : c[1] # c[2]}
  <1>1. D = 1 .. Len(rows) /\ Len(rows) \in Nat /\ \A n \in D : n \in Nat /\ n - 1 \in Nat /\ rows[n] \in X /\ rows[n].ts \in Nat
    BY LenProperties, ElementOfSeq
  <1>2. \A m, n \in D : <<m, n>> \in comes <=> Comes(m, n)
    OBVIOUS
  <1>3. \A n \in D : Batch(n) \in Int
    BY <1>1
  <1>4. out = [n \in D |-> rows[order[n]]]
    BY DEF SortedInBatches
  <1> HIDE DEF Batch, comes
  <1>5. places \in Seq(D) /\ DOMAIN places = D /\ Range(places) = D /\ \A n \in D : places[n] = n
    <2>1. places \in [1 .. Len(rows) -> D]
      BY <1>1
    <2>2. places \in Seq(D)
      BY <1>1, <2>1, FunIsSeq
    <2> QED BY <2>2 DEF Range
  <1> HIDE DEF places
  <1>6. \A n \in D : ~Comes(n, n)
    BY <1>1, <1>3
  <1>7. \A m, n \in D : m # n => Comes(m, n) \/ Comes(n, m)
    BY <1>1, <1>3
  <1>8. \A l, m, n \in D : Comes(l, m) /\ Comes(m, n) => Comes(l, n)
    <2> SUFFICES ASSUME NEW l \in D, NEW m \in D, NEW n \in D, Comes(l, m), Comes(m, n)
                 PROVE  Comes(l, n)
      OBVIOUS
    <2>1. /\ Batch(l) \in Int /\ Batch(m) \in Int /\ Batch(n) \in Int
          /\ rows[l].ts \in Nat /\ rows[m].ts \in Nat /\ rows[n].ts \in Nat
          /\ l \in Nat /\ m \in Nat /\ n \in Nat
      BY <1>1, <1>3
    <2> HIDE DEF D
    <2> QED BY <2>1
  <1> HIDE DEF Comes
  <1>9. order \in Seq(D) /\ Range(order) = D /\ Ordered(order, Differ) /\ Ordered(order, comes)
    <2>1. /\ \A i \in DOMAIN places : <<places[i], places[i]>> \notin comes
          /\ \A i, j \in DOMAIN places : i # j => <<places[i], places[j]>> \in comes \/ <<places[j], places[i]>> \in comes
      BY <1>2, <1>5, <1>6, <1>7
    <2>2. \A i, j, k \in DOMAIN places :
             <<places[i], places[j]>> \in comes /\ <<places[j], places[k]>> \in comes => <<places[i], places[k]>> \in comes
      BY <1>2, <1>5, <1>8
    <2>3. \A i, j \in DOMAIN places : i # j => <<places[i], places[j]>> \in Differ
      BY <1>5
    <2> HIDE DEF D, Differ
    <2>4. /\ Arranged(places, comes) \in Seq(D) /\ Range(Arranged(places, comes)) = Range(places)
          /\ Ordered(Arranged(places, comes), Differ) /\ Ordered(Arranged(places, comes), comes)
      BY <1>5, <2>1, <2>2, <2>3, ArrangedFacts
    <2> QED BY <1>5, <2>4
  <1>10. DOMAIN order = D
    BY <1>5 DEF Arranged
  <1> HIDE DEF order
  <1>11. \A n \in D : order[n] \in D
    BY <1>9, <1>10 DEF Range
  <1>12. \A n, m \in D : n # m => order[n] # order[m]
    <2> SUFFICES ASSUME NEW n \in D, NEW m \in D, n # m PROVE order[n] # order[m]
      OBVIOUS
    <2>1. n < m \/ m < n
      BY <1>1
    <2>2. (n < m => <<order[n], order[m]>> \in Differ) /\ (m < n => <<order[m], order[n]>> \in Differ)
      BY <1>9, <1>10 DEF Ordered
    <2> QED BY <2>1, <2>2
  <1>13. ASSUME size > Len(rows), NEW n \in D, NEW m \in D, n < m PROVE rows[order[n]].ts <= rows[order[m]].ts
    <2>1. Comes(order[n], order[m])
      BY <1>2, <1>9, <1>10, <1>11, <1>13 DEF Ordered
    <2>2. ASSUME NEW i \in D PROVE Batch(i) = 0
      <3>1. i - 1 \in Nat /\ i - 1 < size /\ size \in Nat /\ size > 0
        BY <1>1, <1>13
      <3> DEFINE a == i - 1
                 q == a \div size
      <3>2. /\ a \in Int /\ size \in Nat \ {0} /\ 0 \in Int /\ 1 \in Int /\ a \in Nat /\ a < size
            /\ 1 * size = size /\ 0 * size = 0
        BY <3>1
      <3> HIDE DEF a
      <3>3. (0 <= q <=> 0 * size <= a) /\ (1 <= q <=> 1 * size <= a) /\ q \in Int
        BY <3>2, FloorIs, DivFacts
      <3> HIDE DEF q
      <3>4. q = 0
        BY <3>2, <3>3
      <3> QED BY <3>4 DEF Batch, q, a
    <2> DEFINE a == order[n]
               b == order[m]
    <2>3. a \in D /\ b \in D /\ rows[a].ts \in Nat /\ rows[b].ts \in Nat /\ Batch(a) = 0 /\ Batch(b) = 0
      BY <1>1, <1>11, <2>2
    <2>4. Comes(a, b)
      BY <2>1
    <2> HIDE DEF a, b
    <2>5. rows[a].ts <= rows[b].ts
      BY <2>3, <2>4 DEF Comes
    <2> QED BY <2>5 DEF a, b
  <1>14. out \in Seq(X)
    <2>1. out \in [1 .. Len(rows) -> X]
      BY <1>1, <1>4, <1>11
    <2> QED BY <1>1, <2>1, FunIsSeq
  <1>15. \A n \in D : out[n] = rows[order[n]]
    BY <1>4
  <1> HIDE DEF out
  <1>16. Sorts(order, rows, out, size)
    BY <1>9, <1>10, <1>12, <1>13, <1>15 DEF Sorts
  <1> QED BY <1>9, <1>14, <1>16 DEF out

\* Rows of a capture are a table of packet rows.
LEMMA PacketRowsAre ==
  ASSUME NEW rows \in Seq(PacketRows) PROVE RowsAre(rows)
  <1>1. Len(rows) \in Nat /\ DOMAIN rows = 1 .. Len(rows) /\ \A n \in 1 .. Len(rows) : rows[n] \in PacketRows
    BY LenProperties, ElementOfSeq
  <1>2. \A r \in PacketRows : r.ts \in Nat /\ r.dir \in {"send", "recv"} /\ r.key \in PacketKeys
    BY PacketCaptureAssumption DEF PacketRows
  <1> QED BY <1>1, <1>2 DEF RowsAre

\* What has been seen are rows.
SeenAreRows == seen \in Seq(PacketRows)

\* Only rows come.
LEMMA SeenStep ==
  ASSUME SeenAreRows, [CaptureNext]_captureVars PROVE SeenAreRows'
  <1>1. CASE UNCHANGED captureVars
    BY <1>1 DEF SeenAreRows, captureVars
  <1>2. ASSUME NEW row \in PacketRows, RowIsSeen(row) PROVE SeenAreRows'
    BY <1>2, AppendProperties DEF RowIsSeen, SeenAreRows
  <1>3. CASE UNCHANGED seen
    BY <1>3 DEF SeenAreRows
  <1>4. CASE CaptureNext /\ ~(\E row \in PacketRows : RowIsSeen(row))
    <2>1. UNCHANGED seen
      BY <1>4 DEF CaptureNext, CallBegins, FindsTable, FindsFile, Unstamps, Converted, ConversionFails,
                  Stamps, Joins, WritesTable, ServerEnds, TraceIsReplaced, AskPairs, AskLayers,
                  AskOverview, AskDecode, AskPackets
    <2> QED BY <1>3, <2>1
  <1> QED BY <1>1, <1>2, <1>4

\* The rows get_send_recv_latency reads are rows of the capture.
LEMMA CapturedByTimeAre ==
  ASSUME SeenAreRows, NEW size \in PacketBatches PROVE CapturedByTime(size) \in Seq(PacketRows)
  <1> DEFINE n == IF source = "store" THEN size ELSE Len(seen) + 1
  <1>1. Captured \in Seq(PacketRows)
    BY SelectedSeq DEF Captured, SeenAreRows
  <1>2. n \in Nat \ {0}
    <2>1. size \in Nat \ {0} /\ Len(seen) \in Nat
      BY PacketCaptureAssumption, LenProperties DEF SeenAreRows
    <2> QED BY <2>1
  <1>3. \A r \in PacketRows : r.ts \in Nat
    BY PacketCaptureAssumption DEF PacketRows
  <1>4. CapturedByTime(size) = SortedInBatches(Captured, n)
    BY DEF CapturedByTime
  <1> HIDE DEF n
  <1> QED BY <1>1, <1>2, <1>3, <1>4, SortedFacts

\* What pairs an answer gives.
LEMMA PairsStep ==
  ASSUME SeenAreRows, PairsExact, [CaptureNext]_captureVars PROVE PairsExact'
  <1>1. CASE UNCHANGED captureVars
    BY <1>1 DEF PairsExact, captureVars
  <1>2. CASE UNCHANGED packetAnswer
    BY <1>2 DEF PairsExact
  <1>3. ASSUME NEW size \in PacketBatches, AskPairs(size) PROVE PairsExact'
    <2> DEFINE rows == CapturedByTime(size)
               pairs == PairsIn(rows)
    <2>1. packetAnswer' = [tool |-> "pairs", rows |-> rows, pairs |-> pairs]
      BY <1>3 DEF AskPairs, AskPackets
    <2>2. rows \in Seq(PacketRows)
      BY CapturedByTimeAre
    <2> HIDE DEF rows
    <2>3. Matched(rows, pairs)
      BY <2>2, PacketRowsAre, PairsMatch
    <2> HIDE DEF pairs
    <2>4. packetAnswer'.rows = rows /\ packetAnswer'.pairs = pairs
      BY <2>1
    <2> QED BY <2>3, <2>4 DEF PairsExact
  <1>4. ASSUME NEW dirs, AskLayers(dirs) PROVE PairsExact'
    <2>1. packetAnswer'.tool = "layers"
      BY <1>4 DEF AskLayers, AskPackets
    <2> QED BY <2>1 DEF PairsExact
  <1>5. CASE AskOverview
    <2>1. packetAnswer'.tool = "overview"
      BY <1>5 DEF AskOverview, AskPackets
    <2> QED BY <2>1 DEF PairsExact
  <1>6. ASSUME NEW ts, AskDecode(ts) PROVE PairsExact'
    <2>1. packetAnswer'.tool = "decode"
      BY <1>6 DEF AskDecode, AskPackets
    <2> QED BY <2>1 DEF PairsExact
  <1>7. CaptureNext => \/ UNCHANGED packetAnswer
                       \/ \E size \in PacketBatches : AskPairs(size)
                       \/ \E dirs \in {{"send"}, {"recv"}, {"send", "recv"}} : AskLayers(dirs)
                       \/ AskOverview
                       \/ \E ts \in PacketTimes : AskDecode(ts)
    BY DEF CaptureNext, CallBegins, FindsTable, FindsFile, Unstamps, Converted, ConversionFails,
           Stamps, Joins, WritesTable, ServerEnds, TraceIsReplaced, RowIsSeen
  <1> QED BY <1>1, <1>2, <1>3, <1>4, <1>5, <1>6, <1>7

\* Pairs of get_send_recv_latency are of one packet, within the window, use no row
\* twice and, in time order, pass no send over, for captures of any rows.
THEOREM PacketsArePaired == CaptureSpec => []PairsExact
  <1> DEFINE I == SeenAreRows /\ PairsExact
  <1>1. CaptureInit => I
    BY EmptySeq DEF CaptureInit, SeenAreRows, PairsExact
  <1>2. I /\ [CaptureNext]_captureVars => I'
    BY SeenStep, PairsStep
  <1>3. I => PairsExact
    OBVIOUS
  <1> QED BY <1>1, <1>2, <1>3, PTL DEF CaptureSpec

-----------------------------------------------------------------------------
(* Journeys *)

\* Journeys, and what one must be: forward, without long gaps, and apart from others.
Journeys == Seq(Seq(PacketRows))

Ahead == {c \in PacketRows \X PacketRows : c[1].stage < c[2].stage /\ c[1].ts <= c[2].ts}

Covers(js, past) ==
  /\ \A n \in DOMAIN js : \A a \in Range(js[n]) : a \in past
  /\ \A a \in past : \E n \in DOMAIN js : a \in Range(js[n])

Disjoint(js) == \A n, m \in DOMAIN js : \A a \in Range(js[n]) : a \in Range(js[m]) => n = m

Paced(j) == \A i, k \in DOMAIN j : k = i + 1 => j[k].ts - j[i].ts <= LayerGap

JourneysInv(js, past) ==
  /\ js \in Journeys /\ Covers(js, past) /\ Disjoint(js)
  /\ \A n \in DOMAIN js : js[n] # << >> /\ Ordered(js[n], Ahead) /\ Paced(js[n])

\* Types of the columns.
LEMMA RowTypes ==
  /\ \A a \in PacketRows : a.ts \in Nat /\ a.stage \in 0 .. LastStage /\ a.packet \in 0 .. MaxPackets
  /\ LayerGap \in Nat /\ LastStage \in Nat
  BY PacketCaptureAssumption DEF PacketRows

\* A journey is a sequence of rows.
LEMMA JourneyIs ==
  ASSUME NEW js \in Journeys, NEW n \in DOMAIN js PROVE js[n] \in Seq(PacketRows)
  <1> DEFINE X == Seq(PacketRows)
  <1> HIDE DEF X
  <1>1. js \in Seq(X)
    BY DEF Journeys, X
  <1>2. js[n] \in X
    BY <1>1, LenProperties, ElementOfSeq
  <1> QED BY <1>2 DEF X

\* The last of a sequence.
LEMMA LastFacts ==
  ASSUME NEW X, NEW s \in Seq(X), s # << >>
  PROVE  /\ Last(s) \in Range(s) /\ Last(s) \in X /\ Len(s) \in DOMAIN s /\ Last(s) = s[Len(s)]
         /\ \A R : Ordered(s, R) => \A y \in Range(s) : y = Last(s) \/ <<y, Last(s)>> \in R
  <1>1. Len(s) \in Nat /\ DOMAIN s = 1 .. Len(s) /\ Len(s) # 0
    BY LenProperties, EmptySeq
  <1>2. Len(s) \in DOMAIN s /\ Last(s) = s[Len(s)]
    BY <1>1 DEF Last
  <1>3. Last(s) \in Range(s) /\ Last(s) \in X
    BY <1>1, <1>2, ElementOfSeq DEF Range
  <1>4. ASSUME NEW R, Ordered(s, R), NEW y \in Range(s), y # Last(s) PROVE <<y, Last(s)>> \in R
    <2>1. PICK i \in DOMAIN s : y = s[i]
      BY DEF Range
    <2>2. i # Len(s)
      BY <1>2, <1>4, <2>1
    <2>3. i < Len(s)
      BY <1>1, <2>2
    <2> QED BY <1>2, <1>4, <2>1, <2>3 DEF Ordered
  <1> QED BY <1>2, <1>3, <1>4

\* The last row of a journey is its latest and farthest.
LEMMA LastOfJourney ==
  ASSUME NEW js, NEW past, JourneysInv(js, past), NEW n \in DOMAIN js
  PROVE  LET l == Last(js[n])
         IN /\ l \in PacketRows /\ l \in Range(js[n]) /\ l \in past
            /\ \A a \in Range(js[n]) : a \in PacketRows /\ (a = l \/ (a.stage < l.stage /\ a.ts <= l.ts))
  <1> DEFINE j == js[n]
             l == Last(j)
  <1>1. j \in Seq(PacketRows) /\ j # << >> /\ Ordered(j, Ahead)
    BY JourneyIs DEF JourneysInv
  <1>2. \A a \in Range(j) : a \in past
    BY DEF JourneysInv, Covers
  <1> HIDE DEF j
  <1>3. l \in Range(j) /\ l \in PacketRows /\ \A y \in Range(j) : y = l \/ <<y, l>> \in Ahead
    BY <1>1, LastFacts
  <1>4. \A y \in Range(j) : y \in PacketRows
    BY <1>1, RangeOfSeq
  <1> HIDE DEF l
  <1>5. \A y \in Range(j) : y = l \/ (y.stage < l.stage /\ y.ts <= l.ts)
    BY <1>3 DEF Ahead
  <1> QED BY <1>2, <1>3, <1>4, <1>5 DEF j, l

\* Of the journeys a row may join one is the farthest, and the first of those is taken.
LEMMA BestExists ==
  ASSUME NEW js, NEW past, JourneysInv(js, past), NEW open \in SUBSET DOMAIN js, open # {}
  PROVE  LET best == {n \in open : \A m \in open : Farther(Last(js[n]), Last(js[m]))}
         IN Min(best) \in best
  <1> DEFINE best == {n \in open : \A m \in open : Farther(Last(js[n]), Last(js[m]))}
             N == Len(js)
             S == {k \in Nat : k <= N /\ (\E n \in open : n <= k) =>
                     \E n \in open : n <= k /\ \A m \in open : m <= k => Farther(Last(js[n]), Last(js[m]))}
  <1>1. N \in Nat /\ DOMAIN js = 1 .. N
    BY LenProperties DEF JourneysInv, Journeys
  <1>2. \A n \in open : Last(js[n]).stage \in Nat /\ Last(js[n]).ts \in Nat
    <2>1. \A n \in open : Last(js[n]) \in PacketRows
      BY LastOfJourney
    <2> QED BY <2>1, RowTypes
  <1>3. \A n \in open : Farther(Last(js[n]), Last(js[n]))
    BY <1>2 DEF Farther
  <1>4. \A n, m \in open : Farther(Last(js[n]), Last(js[m])) \/ Farther(Last(js[m]), Last(js[n]))
    BY <1>2 DEF Farther
  <1>5. \A l, n, m \in open :
          Farther(Last(js[l]), Last(js[n])) /\ Farther(Last(js[n]), Last(js[m])) => Farther(Last(js[l]), Last(js[m]))
    BY <1>2 DEF Farther
  <1>6. 0 \in S
    BY <1>1
  <1>7. ASSUME NEW k \in Nat, k \in S PROVE k + 1 \in S
    <2> SUFFICES ASSUME k + 1 <= N, \E n \in open : n <= k + 1
                 PROVE  \E n \in open : n <= k + 1 /\ \A m \in open : m <= k + 1 => Farther(Last(js[n]), Last(js[m]))
      OBVIOUS
    <2>1. \A m \in open : m \in Nat /\ (m <= k + 1 <=> m <= k \/ m = k + 1)
      BY <1>1
    <2>2. CASE \E n \in open : n <= k
      <3>1. k <= N
        BY <1>1
      <3>2. PICK n \in open : n <= k /\ \A m \in open : m <= k => Farther(Last(js[n]), Last(js[m]))
        BY <1>7, <2>2, <3>1
      <3>3. CASE k + 1 \in open /\ Farther(Last(js[k + 1]), Last(js[n]))
        <4>1. \A m \in open : m <= k + 1 => Farther(Last(js[k + 1]), Last(js[m]))
          BY <1>3, <1>5, <2>1, <3>2, <3>3
        <4> QED BY <2>1, <3>3, <4>1
      <3>4. CASE ~(k + 1 \in open /\ Farther(Last(js[k + 1]), Last(js[n])))
        <4>1. \A m \in open : m <= k + 1 => Farther(Last(js[n]), Last(js[m]))
          BY <1>4, <2>1, <3>2, <3>4
        <4> QED BY <2>1, <3>2, <4>1
      <3> QED BY <3>3, <3>4
    <2>3. CASE ~ \E n \in open : n <= k
      <3>1. k + 1 \in open /\ \A m \in open : m <= k + 1 => m = k + 1
        BY <2>1, <2>3
      <3> QED BY <1>3, <2>1, <3>1
    <2> QED BY <2>2, <2>3
  <1> HIDE DEF S
  <1>8. Nat \subseteq S
    BY <1>6, <1>7, SetInduction
  <1>9. best # {}
    <2>1. N \in S /\ \A n \in open : n <= N
      BY <1>1, <1>8
    <2>2. N <= N /\ \E n \in open : n <= N
      BY <1>1, <2>1
    <2>3. PICK n \in open : \A m \in open : m <= N => Farther(Last(js[n]), Last(js[m]))
      BY <2>1, <2>2 DEF S
    <2> QED BY <2>1, <2>3
  <1>10. best \in SUBSET Nat
    BY <1>1
  <1> HIDE DEF best
  <1>11. Min(best) \in best
    <2>1. \E i \in best : \A j \in best : i <= j
      BY <1>9, <1>10, LeastPlace
    <2> QED BY <2>1 DEF Min
  <1> QED BY <1>11 DEF best

\* A journey begins with a row that is new.
LEMMA BegunKeeps ==
  ASSUME NEW js, NEW past, JourneysInv(js, past), NEW r \in PacketRows, r \notin past
  PROVE  JourneysInv(Append(js, <<r>>), past \union {r})
  <1> DEFINE X == Seq(PacketRows)
             j == <<r>>
             k == Append(js, j)
             N == Len(js)
  <1>1. j \in X /\ j # << >> /\ Range(j) = {r} /\ DOMAIN j = {1} /\ j[1] = r
    BY DEF Range
  <1>2. js \in Seq(X) /\ k \in Seq(X) /\ N \in Nat /\ DOMAIN js = 1 .. N /\ DOMAIN k = 1 .. N + 1
        /\ k[N + 1] = j /\ \A n \in DOMAIN js : k[n] = js[n]
    <2>1. js \in Seq(X)
      BY DEF JourneysInv, Journeys
    <2> HIDE DEF X, j
    <2> QED BY <1>1, <2>1, AppendedSeq
  <1> HIDE DEF j, k, N
  <1>3. Ordered(j, Ahead) /\ Paced(j)
    BY <1>1 DEF Ordered, Paced
  <1>4. \A n \in DOMAIN k : n = N + 1 \/ n \in DOMAIN js
    BY <1>2
  <1>5. \A n \in DOMAIN js : n \in DOMAIN k /\ n # N + 1
    BY <1>2
  <1>6. N + 1 \in DOMAIN k
    BY <1>2
  <1>7. Covers(js, past) /\ Disjoint(js) /\
        \A n \in DOMAIN js : js[n] # << >> /\ Ordered(js[n], Ahead) /\ Paced(js[n])
    BY DEF JourneysInv
  <1>8. Covers(k, past \union {r})
    <2>1. ASSUME NEW n \in DOMAIN k, NEW a \in Range(k[n]) PROVE a \in past \union {r}
      BY <1>1, <1>2, <1>4, <1>7 DEF Covers
    <2>2. ASSUME NEW a \in past \union {r} PROVE \E n \in DOMAIN k : a \in Range(k[n])
      <3>1. CASE a = r
        BY <1>1, <1>2, <1>6, <3>1
      <3>2. CASE a \in past
        BY <1>2, <1>5, <1>7, <3>2 DEF Covers
      <3> QED BY <3>1, <3>2
    <2> QED BY <2>1, <2>2 DEF Covers
  <1>9. Disjoint(k)
    <2> SUFFICES ASSUME NEW n \in DOMAIN k, NEW m \in DOMAIN k, NEW a \in Range(k[n]), a \in Range(k[m])
                 PROVE  n = m
      BY DEF Disjoint
    <2>1. CASE n \in DOMAIN js /\ m \in DOMAIN js
      BY <1>2, <1>7, <2>1 DEF Disjoint
    <2>2. CASE n = N + 1 \/ m = N + 1
      <3>1. a = r
        BY <1>1, <1>2, <2>2
      <3>2. \A l \in DOMAIN js : a \notin Range(js[l])
        BY <1>7, <3>1 DEF Covers
      <3> QED BY <1>2, <1>4, <3>2
    <2> QED BY <1>4, <2>1, <2>2
  <1>10. \A n \in DOMAIN k : k[n] # << >> /\ Ordered(k[n], Ahead) /\ Paced(k[n])
    BY <1>1, <1>2, <1>3, <1>4, <1>7
  <1>11. JourneysInv(k, past \union {r})
    BY <1>2, <1>8, <1>9, <1>10 DEF JourneysInv, Journeys
  <1> QED BY <1>11 DEF k, j

\* A journey that a row is added to.
WithRow(js, m, r) == [js EXCEPT ![m] = Append(@, r)]

\* Only one journey gets longer.
LEMMA WithRowIs ==
  ASSUME NEW js \in Journeys, NEW m \in DOMAIN js, NEW r \in PacketRows
  PROVE  /\ WithRow(js, m, r) \in Journeys /\ DOMAIN WithRow(js, m, r) = DOMAIN js
         /\ WithRow(js, m, r)[m] = Append(js[m], r)
         /\ \A n \in DOMAIN js : n # m => WithRow(js, m, r)[n] = js[n]
  <1> DEFINE X == Seq(PacketRows)
             j == Append(js[m], r)
             k == WithRow(js, m, r)
             N == Len(js)
  <1>1. js \in Seq(X) /\ N \in Nat /\ DOMAIN js = 1 .. N /\ js \in [1 .. N -> X]
    <2>1. js \in Seq(X)
      BY DEF Journeys
    <2> HIDE DEF X
    <2> QED BY <2>1, LenProperties
  <1>2. j \in X
    BY JourneyIs, AppendProperties
  <1>3. k = [js EXCEPT ![m] = j]
    BY DEF WithRow
  <1> HIDE DEF X, j, k, N
  <1>4. k \in [1 .. N -> X] /\ k[m] = j /\ \A n \in DOMAIN js : n # m => k[n] = js[n]
    BY <1>1, <1>2, <1>3
  <1>5. k \in Seq(X) /\ DOMAIN k = DOMAIN js
    BY <1>1, <1>4, FunIsSeq
  <1> QED BY <1>4, <1>5 DEF X, j, k, Journeys

\* A row joins the journey it may join.
LEMMA JoinedKeeps ==
  ASSUME NEW js, NEW past, JourneysInv(js, past), NEW r \in PacketRows, r \notin past,
         \A a \in past : a.ts <= r.ts, NEW m \in DOMAIN js, MayJoin(js[m], r)
  PROVE  JourneysInv(WithRow(js, m, r), past \union {r})
  <1> DEFINE j == js[m]
             t == Append(j, r)
             k == WithRow(js, m, r)
             l == Last(j)
  <1>1. js \in Journeys /\ Covers(js, past) /\ Disjoint(js) /\
        \A n \in DOMAIN js : js[n] # << >> /\ Ordered(js[n], Ahead) /\ Paced(js[n])
    BY DEF JourneysInv
  <1>2. /\ k \in Journeys /\ DOMAIN k = DOMAIN js /\ k[m] = t
        /\ \A n \in DOMAIN js : n # m => k[n] = js[n]
    BY <1>1, WithRowIs
  <1>3. j \in Seq(PacketRows) /\ j # << >> /\ Ordered(j, Ahead) /\ Paced(j)
    BY <1>1, JourneyIs
  <1>4. /\ l \in PacketRows /\ l \in past
        /\ \A a \in Range(j) : a \in past /\ a \in PacketRows /\ (a = l \/ (a.stage < l.stage /\ a.ts <= l.ts))
    BY <1>1, LastOfJourney DEF Covers
  <1>5. l.stage < r.stage /\ l.ts <= r.ts /\ r.ts - l.ts <= LayerGap
    BY <1>4 DEF MayJoin, WithinGap
  <1> HIDE DEF k, l
  <1>6. \A a \in Range(j) : <<a, r>> \in Ahead
    <2> SUFFICES ASSUME NEW a \in Range(j) PROVE a.stage < r.stage /\ a.ts <= r.ts /\ a \in PacketRows
      BY DEF Ahead
    <2>1. /\ a.stage \in Nat /\ a.ts \in Nat /\ l.stage \in Nat /\ l.ts \in Nat /\ r.stage \in Nat /\ r.ts \in Nat
      BY <1>4, RowTypes
    <2> QED BY <1>4, <1>5, <2>1
  <1>7. /\ Len(j) \in Nat /\ DOMAIN j = 1 .. Len(j) /\ DOMAIN t = 1 .. Len(j) + 1
        /\ t[Len(j) + 1] = r /\ \A i \in DOMAIN j : t[i] = j[i]
        /\ Range(t) = Range(j) \union {r} /\ t \in Seq(PacketRows)
    <2> HIDE DEF j
    <2> QED BY <1>3, AppendedSeq
  <1>8. Ordered(t, Ahead) /\ t # << >>
    <2>1. Ordered(t, Ahead)
      <3> HIDE DEF j
      <3> QED BY <1>3, <1>6, OrderedAppend
    <2>2. t # << >>
      BY <1>7, EmptyFacts
    <2> QED BY <2>1, <2>2
  <1>9. Paced(t)
    <2> SUFFICES ASSUME NEW i \in DOMAIN t, NEW n \in DOMAIN t, n = i + 1
                 PROVE  t[n].ts - t[i].ts <= LayerGap
      BY DEF Paced
    <2>1. i \in DOMAIN j
      BY <1>7
    <2>2. CASE n \in DOMAIN j
      BY <1>3, <1>7, <2>1, <2>2 DEF Paced
    <2>3. CASE n \notin DOMAIN j
      <3>1. n = Len(j) + 1 /\ i = Len(j)
        BY <1>7, <2>1, <2>3
      <3>2. l = j[Len(j)]
        <4> HIDE DEF j
        <4> QED BY <1>3, LastFacts DEF l
      <3> QED BY <1>5, <1>7, <2>1, <3>1, <3>2
    <2> QED BY <2>2, <2>3
  <1> HIDE DEF j, t
  <1>10. Covers(k, past \union {r})
    <2>1. ASSUME NEW n \in DOMAIN k, NEW a \in Range(k[n]) PROVE a \in past \union {r}
      BY <1>1, <1>2, <1>4, <1>7 DEF Covers
    <2>2. ASSUME NEW a \in past \union {r} PROVE \E n \in DOMAIN k : a \in Range(k[n])
      <3>1. CASE a = r
        BY <1>2, <1>7, <3>1
      <3>2. CASE a \in past
        <4>1. PICK n \in DOMAIN js : a \in Range(js[n])
          BY <1>1, <3>2 DEF Covers
        <4>2. a \in Range(k[n])
          BY <1>2, <1>7, <4>1 DEF j
        <4> QED BY <1>2, <4>1, <4>2
      <3> QED BY <3>1, <3>2
    <2> QED BY <2>1, <2>2 DEF Covers
  <1>11. Disjoint(k)
    <2> SUFFICES ASSUME NEW n \in DOMAIN k, NEW q \in DOMAIN k, NEW a \in Range(k[n]), a \in Range(k[q])
                 PROVE  n = q
      BY DEF Disjoint
    <2>1. \A p \in DOMAIN js : r \notin Range(js[p])
      BY <1>1 DEF Covers
    <2>2. \A p \in DOMAIN js : a \in Range(k[p]) => a \in Range(js[p]) \/ (a = r /\ p = m)
      BY <1>2, <1>7 DEF j
    <2>3. CASE a = r
      BY <1>2, <2>1, <2>2, <2>3
    <2>4. CASE a # r
      <3>1. a \in Range(js[n]) /\ a \in Range(js[q])
        BY <1>2, <2>2, <2>4
      <3> QED BY <1>1, <1>2, <3>1 DEF Disjoint
    <2> QED BY <2>3, <2>4
  <1>12. \A n \in DOMAIN k : k[n] # << >> /\ Ordered(k[n], Ahead) /\ Paced(k[n])
    BY <1>1, <1>2, <1>8, <1>9
  <1>13. JourneysInv(k, past \union {r})
    BY <1>2, <1>10, <1>11, <1>12 DEF JourneysInv
  <1> QED BY <1>13 DEF k

\* JourneyRow begins a journey or goes on with one the row may join.
LEMMA JourneyRowIs ==
  ASSUME NEW js, NEW past, JourneysInv(js, past), NEW r
  PROVE  \/ /\ \A n \in DOMAIN js : ~MayJoin(js[n], r)
            /\ JourneyRow(js, r) = Append(js, <<r>>)
         \/ \E m \in DOMAIN js : MayJoin(js[m], r) /\ JourneyRow(js, r) = WithRow(js, m, r)
  <1> DEFINE open == {n \in DOMAIN js : MayJoin(js[n], r)}
             best == {n \in open : \A m \in open : Farther(Last(js[n]), Last(js[m]))}
  <1>1. JourneyRow(js, r) = IF open = {} THEN Append(js, <<r>>) ELSE WithRow(js, Min(best), r)
    BY DEF JourneyRow, WithRow
  <1>2. open \in SUBSET DOMAIN js
    OBVIOUS
  <1>3. CASE open = {}
    BY <1>1, <1>3
  <1>4. CASE open # {}
    <2> HIDE DEF open
    <2>1. Min(best) \in open
      BY <1>2, <1>4, BestExists
    <2> HIDE DEF best
    <2> QED BY <1>1, <1>4, <2>1 DEF open
  <1> QED BY <1>3, <1>4

\* A row keeps what holds of all journeys.
LEMMA JourneyRowKeeps ==
  ASSUME NEW js, NEW past, JourneysInv(js, past), NEW r \in PacketRows, r \notin past,
         \A a \in past : a.ts <= r.ts
  PROVE  JourneysInv(JourneyRow(js, r), past \union {r})
  <1>1. CASE JourneyRow(js, r) = Append(js, <<r>>)
    BY <1>1, BegunKeeps
  <1>2. CASE \E m \in DOMAIN js : MayJoin(js[m], r) /\ JourneyRow(js, r) = WithRow(js, m, r)
    BY <1>2, JoinedKeeps
  <1> QED BY <1>1, <1>2, JourneyRowIs

-----------------------------------------------------------------------------
(* Packets that can be told apart *)

\* Rows of one packet follow each other down the layers.
OwnFollow(rows) ==
  \A a, b \in rows : a.packet = b.packet /\ a # b =>
    /\ Fingerprint(a) = Fingerprint(b)
    /\ (a.ts < b.ts /\ a.stage < b.stage) \/ (b.ts < a.ts /\ b.stage < a.stage)

\* A packet that another of its fingerprint comes close to is through.
ThroughBefore(rows) ==
  \A a, b \in rows :
    a.packet # b.packet /\ Fingerprint(a) = Fingerprint(b) /\ a.ts <= b.ts /\ WithinGap(a, b) =>
      \E e \in rows : e.packet = a.packet /\ e.stage = LastStage /\ e.ts < b.ts

\* Rows of packets that can be told apart, and of each in its order.
Separable(rows) == rows \subseteq PacketRows /\ OwnFollow(rows) /\ ThroughBefore(rows)

\* Those of the rows asked for that have been read.
Read(past, r, rows) ==
  /\ past \subseteq rows /\ r \in rows /\ r \notin past
  /\ \A a \in past : a.ts <= r.ts
  /\ \A b \in rows : b \in past \/ r.ts <= b.ts

\* What holds of journeys of packets that can be told apart.
ApartInv(js, past) ==
  /\ \A n \in DOMAIN js : \A a, b \in Range(js[n]) : a.packet = b.packet
  /\ \A a, b \in past : a.packet = b.packet /\ a.ts < b.ts /\ b.ts - a.ts <= LayerGap =>
       \E n \in DOMAIN js : a \in Range(js[n]) /\ b \in Range(js[n])

\* A row only may join a journey of its packet.
LEMMA JoinsItsOwn ==
  ASSUME NEW rows, Separable(rows), NEW js, NEW past, NEW r, Read(past, r, rows),
         JourneysInv(js, past), ApartInv(js, past), NEW m \in DOMAIN js, MayJoin(js[m], r)
  PROVE  Last(js[m]).packet = r.packet
  <1> DEFINE a == Last(js[m])
  <1>1. /\ a \in PacketRows /\ a \in Range(js[m]) /\ a \in past /\ a \in rows
        /\ \A b \in Range(js[m]) : b \in PacketRows /\ (b = a \/ (b.stage < a.stage /\ b.ts <= a.ts))
    BY LastOfJourney DEF Read
  <1>2. Fingerprint(a) = Fingerprint(r) /\ r.stage > a.stage /\ WithinGap(a, r) /\ a.ts <= r.ts
    BY <1>1 DEF MayJoin, Read
  <1> HIDE DEF a
  <1>3. r \in PacketRows /\ r \in rows
    BY DEF Read, Separable
  <1> SUFFICES ASSUME a.packet # r.packet PROVE FALSE
    BY DEF a
  <1>4. PICK e \in rows : e.packet = a.packet /\ e.stage = LastStage /\ e.ts < r.ts
    BY <1>1, <1>2, <1>3 DEF Separable, ThroughBefore
  <1>5. e \in PacketRows
    BY DEF Separable
  <1>6. /\ a.stage \in 0 .. LastStage /\ r.stage \in 0 .. LastStage /\ LastStage \in Nat /\ LayerGap \in Nat
        /\ a.ts \in Nat /\ r.ts \in Nat /\ e.ts \in Nat
    BY <1>1, <1>3, <1>5, RowTypes
  <1>7. a.stage < e.stage /\ e # a
    BY <1>2, <1>4, <1>6
  <1>8. e \in past
    BY <1>4, <1>6 DEF Read
  <1>9. a.ts < e.ts
    <2>1. (a.ts < e.ts /\ a.stage < e.stage) \/ (e.ts < a.ts /\ e.stage < a.stage)
      BY <1>1, <1>4, <1>7 DEF Separable, OwnFollow
    <2> QED BY <1>4, <1>6, <1>7, <2>1
  <1>10. e.ts - a.ts <= LayerGap
    BY <1>2, <1>4, <1>6 DEF WithinGap
  <1>11. PICK n \in DOMAIN js : a \in Range(js[n]) /\ e \in Range(js[n])
    BY <1>1, <1>4, <1>8, <1>9, <1>10 DEF ApartInv
  <1>12. n = m
    BY <1>1, <1>11 DEF JourneysInv, Disjoint
  <1>13. e.stage < a.stage
    BY <1>1, <1>7, <1>11, <1>12
  <1> QED BY <1>4, <1>6, <1>7, <1>13

\* A row may join the journey of its packet's rows of a while ago, and no other.
LEMMA JoinsTheNear ==
  ASSUME NEW rows, Separable(rows), NEW js, NEW past, NEW r, Read(past, r, rows),
         JourneysInv(js, past), ApartInv(js, past),
         NEW a \in past, a.packet = r.packet, r.ts - a.ts <= LayerGap,
         NEW m \in DOMAIN js, a \in Range(js[m])
  PROVE  /\ MayJoin(js[m], r)
         /\ \A n \in DOMAIN js : MayJoin(js[n], r) => n = m
  <1> DEFINE l == Last(js[m])
  <1>1. /\ l \in PacketRows /\ l \in Range(js[m]) /\ l \in past
        /\ \A b \in Range(js[m]) : b \in PacketRows /\ (b = l \/ (b.stage < l.stage /\ b.ts <= l.ts))
    BY LastOfJourney
  <1> HIDE DEF l
  <1>2. l.packet = r.packet
    BY <1>1 DEF ApartInv
  <1>3. r \in PacketRows /\ r \in rows /\ r \notin past /\ LayerGap \in Nat /\ a \in PacketRows
    BY RowTypes DEF Read, Separable
  <1>4. \A b \in past : b \in rows /\ b \in PacketRows /\ b # r /\ b.ts <= r.ts
    BY DEF Read, Separable
  <1>5. \A b \in PacketRows : b.ts \in Nat /\ b.stage \in Nat
    BY RowTypes
  <1>6. \A b \in past : b.packet = r.packet =>
          Fingerprint(b) = Fingerprint(r) /\ b.ts < r.ts /\ b.stage < r.stage
    BY <1>3, <1>4, <1>5 DEF Separable, OwnFollow
  <1>7. a.ts <= l.ts /\ r.ts - l.ts <= LayerGap
    <2>1. a = l \/ a.ts <= l.ts
      BY <1>1
    <2> QED BY <1>1, <1>3, <1>5, <2>1
  <1>8. MayJoin(js[m], r)
    <2>1. Fingerprint(l) = Fingerprint(r) /\ r.stage > l.stage
      BY <1>1, <1>2, <1>3, <1>5, <1>6
    <2> QED BY <1>7, <2>1 DEF MayJoin, WithinGap, l
  <1>9. ASSUME NEW n \in DOMAIN js, MayJoin(js[n], r) PROVE n = m
    <2> DEFINE k == Last(js[n])
    <2>1. k \in PacketRows /\ k \in Range(js[n]) /\ k \in past
      BY LastOfJourney
    <2>2. k.packet = r.packet
      BY <1>9, JoinsItsOwn
    <2>3. r.ts - k.ts <= LayerGap
      BY <1>9 DEF MayJoin, WithinGap
    <2> HIDE DEF k
    <2>4. k.ts < r.ts /\ l.ts < r.ts /\ k.ts \in Nat /\ l.ts \in Nat /\ r.ts \in Nat
      BY <1>1, <1>2, <1>3, <1>5, <1>6, <2>1, <2>2
    <2>5. CASE k = l
      BY <1>1, <2>1, <2>5 DEF JourneysInv, Disjoint
    <2>6. CASE k # l
      <3>1. k.ts < l.ts \/ l.ts < k.ts
        BY <1>1, <1>2, <1>4, <2>1, <2>2, <2>6 DEF Separable, OwnFollow
      <3>2. l.ts - k.ts <= LayerGap /\ k.ts - l.ts <= LayerGap
        BY <1>3, <1>7, <2>3, <2>4
      <3>3. PICK q \in DOMAIN js : k \in Range(js[q]) /\ l \in Range(js[q])
        BY <1>1, <1>2, <2>1, <2>2, <3>1, <3>2 DEF ApartInv
      <3> QED BY <1>1, <2>1, <3>3 DEF JourneysInv, Disjoint
    <2> QED BY <2>5, <2>6
  <1> QED BY <1>8, <1>9

\* Journeys stay apart, and what is near stays together.
LEMMA ApartKeeps ==
  ASSUME NEW rows, Separable(rows), NEW js, NEW past, NEW r, Read(past, r, rows),
         JourneysInv(js, past), ApartInv(js, past)
  PROVE  ApartInv(JourneyRow(js, r), past \union {r})
  <1> DEFINE k == JourneyRow(js, r)
             near == {a \in past : a.packet = r.packet /\ r.ts - a.ts <= LayerGap}
  <1>1. r \in PacketRows /\ past \subseteq PacketRows /\ r \notin past
    BY DEF Read, Separable
  <1>2. js \in Journeys
    BY DEF JourneysInv
  <1>3. \A a \in past : \E n \in DOMAIN js : a \in Range(js[n])
    BY DEF JourneysInv, Covers
  <1>4. \A a \in past : a.packet = r.packet => a.ts < r.ts
    <2> SUFFICES ASSUME NEW a \in past, a.packet = r.packet PROVE a.ts < r.ts
      OBVIOUS
    <2>1. a \in rows /\ r \in rows /\ a # r /\ a.ts <= r.ts
      BY DEF Read
    <2>2. a.ts \in Nat /\ r.ts \in Nat
      BY <1>1, RowTypes
    <2> QED BY <2>1, <2>2 DEF Separable, OwnFollow
  <1>5. \E m \in DOMAIN k :
          /\ r \in Range(k[m])
          /\ \A a \in Range(k[m]) : a.packet = r.packet
          /\ near \subseteq Range(k[m])
          /\ \A n \in DOMAIN js : n \in DOMAIN k /\ Range(js[n]) \subseteq Range(k[n])
          /\ \A n \in DOMAIN k : n # m => n \in DOMAIN js /\ Range(k[n]) = Range(js[n])
    <2>1. CASE /\ \A n \in DOMAIN js : ~MayJoin(js[n], r)
               /\ k = Append(js, <<r>>)
      <3> DEFINE X == Seq(PacketRows)
                 j == <<r>>
                 N == Len(js)
      <3>1. j \in X /\ Range(j) = {r}
        BY <1>1 DEF Range
      <3> HIDE DEF j
      <3>2. N \in Nat /\ DOMAIN js = 1 .. N /\ DOMAIN k = 1 .. N + 1
            /\ k[N + 1] = j /\ \A n \in DOMAIN js : k[n] = js[n]
        <4>1. js \in Seq(X)
          BY <1>2 DEF Journeys
        <4> HIDE DEF X, k
        <4> QED BY <2>1, <3>1, <4>1, AppendedSeq DEF j
      <3>3. near = {}
        <4> SUFFICES ASSUME NEW a \in near PROVE FALSE
          OBVIOUS
        <4>1. PICK n \in DOMAIN js : a \in Range(js[n])
          BY <1>3
        <4>2. MayJoin(js[n], r)
          BY <4>1, JoinsTheNear
        <4> QED BY <2>1, <4>2
      <3> HIDE DEF k, near, N
      <3>4. N + 1 \in DOMAIN k /\ \A n \in DOMAIN js : n \in DOMAIN k
        BY <3>2
      <3>5. \A n \in DOMAIN k : n # N + 1 => n \in DOMAIN js
        BY <3>2
      <3> QED BY <3>1, <3>2, <3>3, <3>4, <3>5
    <2>2. CASE \E m \in DOMAIN js : MayJoin(js[m], r) /\ k = WithRow(js, m, r)
      <3>1. PICK m \in DOMAIN js : MayJoin(js[m], r) /\ k = WithRow(js, m, r)
        BY <2>2
      <3>2. DOMAIN k = DOMAIN js /\ k[m] = Append(js[m], r) /\ \A n \in DOMAIN js : n # m => k[n] = js[n]
        <4> HIDE DEF k
        <4> QED BY <1>1, <1>2, <3>1, WithRowIs
      <3>3. Range(k[m]) = Range(js[m]) \union {r}
        <4>1. js[m] \in Seq(PacketRows)
          BY <1>2, JourneyIs
        <4> QED BY <1>1, <3>2, <4>1, AppendedSeq
      <3>4. Last(js[m]).packet = r.packet
        BY <3>1, JoinsItsOwn
      <3>5. \A a \in Range(js[m]) : a.packet = r.packet
        <4>1. Last(js[m]) \in Range(js[m])
          BY LastOfJourney
        <4> QED BY <3>4, <4>1 DEF ApartInv
      <3>6. near \subseteq Range(js[m])
        <4> SUFFICES ASSUME NEW a \in near PROVE a \in Range(js[m])
          OBVIOUS
        <4>1. PICK n \in DOMAIN js : a \in Range(js[n])
          BY <1>3
        <4>2. m = n
          BY <3>1, <4>1, JoinsTheNear
        <4> QED BY <4>1, <4>2
      <3> HIDE DEF k, near
      <3> QED BY <3>2, <3>3, <3>5, <3>6
    <2> HIDE DEF k, near
    <2> QED BY <2>1, <2>2, JourneyRowIs DEF k
  <1>6. PICK m \in DOMAIN k :
          /\ r \in Range(k[m])
          /\ \A a \in Range(k[m]) : a.packet = r.packet
          /\ near \subseteq Range(k[m])
          /\ \A n \in DOMAIN js : n \in DOMAIN k /\ Range(js[n]) \subseteq Range(k[n])
          /\ \A n \in DOMAIN k : n # m => n \in DOMAIN js /\ Range(k[n]) = Range(js[n])
    BY <1>5
  <1> HIDE DEF k
  <1>7. \A n \in DOMAIN k : \A a, b \in Range(k[n]) : a.packet = b.packet
    BY <1>6 DEF ApartInv
  <1>8. ASSUME NEW a \in past \union {r}, NEW b \in past \union {r},
               a.packet = b.packet, a.ts < b.ts, b.ts - a.ts <= LayerGap
        PROVE  \E n \in DOMAIN k : a \in Range(k[n]) /\ b \in Range(k[n])
    <2>1. CASE a \in past /\ b \in past
      <3>1. PICK n \in DOMAIN js : a \in Range(js[n]) /\ b \in Range(js[n])
        BY <1>8, <2>1 DEF ApartInv
      <3> QED BY <1>6, <3>1
    <2>2. CASE b = r
      <3>1. a \in past
        <4>1. a.ts \in Nat /\ b.ts \in Nat
          BY <1>1, RowTypes
        <4> QED BY <1>8, <2>2, <4>1
      <3> QED BY <1>6, <1>8, <2>2, <3>1
    <2>3. CASE a = r /\ b \in past
      <3>1. b.ts < r.ts /\ b.ts \in Nat /\ r.ts \in Nat
        BY <1>1, <1>4, <1>8, <2>3, RowTypes
      <3> QED BY <1>8, <2>3, <3>1
    <2> QED BY <2>1, <2>2, <2>3
  <1>9. ApartInv(k, past \union {r})
    BY <1>7, <1>8 DEF ApartInv
  <1> QED BY <1>9 DEF k

-----------------------------------------------------------------------------
(* All rows *)

\* Rows in the order of time.
AsLate == {c \in PacketRows \X PacketRows : c[1] # c[2] /\ c[1].ts <= c[2].ts}

Past(n, rows) == {rows[i] : i \in 1 .. n}

StepInv(js, n, rows) ==
  /\ JourneysInv(js, Past(n, rows))
  /\ Separable(Range(rows)) => ApartInv(js, Past(n, rows))

\* The next row is new, and none that is to come is earlier.
LEMMA NextRow ==
  ASSUME NEW rows \in Seq(PacketRows), Ordered(rows, AsLate), NEW n \in 1 .. Len(rows)
  PROVE  /\ rows[n] \in PacketRows /\ Past(n, rows) = Past(n - 1, rows) \union {rows[n]}
         /\ Read(Past(n - 1, rows), rows[n], Range(rows))
  <1>1. Len(rows) \in Nat /\ DOMAIN rows = 1 .. Len(rows) /\ \A i \in 1 .. Len(rows) : rows[i] \in PacketRows
    BY LenProperties, ElementOfSeq
  <1>2. n \in Nat /\ \A i \in 1 .. n : i \in 1 .. n - 1 \/ i = n
    BY <1>1
  <1>3. \A i \in 1 .. n - 1 : i \in 1 .. n /\ i < n /\ i \in 1 .. Len(rows)
    BY <1>1
  <1>4. n \in 1 .. n
    BY <1>1
  <1>5. Past(n, rows) = Past(n - 1, rows) \union {rows[n]}
    BY <1>2, <1>3, <1>4 DEF Past
  <1>6. \A i \in 1 .. n - 1 : rows[i] # rows[n] /\ rows[i].ts <= rows[n].ts
    <2> SUFFICES ASSUME NEW i \in 1 .. n - 1 PROVE rows[i] # rows[n] /\ rows[i].ts <= rows[n].ts
      OBVIOUS
    <2>1. <<rows[i], rows[n]>> \in AsLate
      BY <1>1, <1>3 DEF Ordered
    <2> QED BY <2>1 DEF AsLate
  <1>7. \A i \in DOMAIN rows : i \in 1 .. n - 1 \/ rows[n].ts <= rows[i].ts
    <2> SUFFICES ASSUME NEW i \in DOMAIN rows, i \notin 1 .. n - 1 PROVE rows[n].ts <= rows[i].ts
      OBVIOUS
    <2>1. i = n \/ n < i
      BY <1>1
    <2>2. CASE n < i
      <3>1. <<rows[n], rows[i]>> \in AsLate
        BY <1>1, <2>2 DEF Ordered
      <3> QED BY <3>1 DEF AsLate
    <2>3. rows[n].ts \in Nat
      BY <1>1, RowTypes
    <2> QED BY <2>1, <2>2, <2>3
  <1>8. Read(Past(n - 1, rows), rows[n], Range(rows))
    BY <1>1, <1>3, <1>6, <1>7 DEF Read, Past, Range
  <1> QED BY <1>1, <1>5, <1>8

\* One step of JourneysOf.
LEMMA StepKeeps ==
  ASSUME NEW rows \in Seq(PacketRows), Ordered(rows, AsLate), NEW n \in 1 .. Len(rows),
         NEW js, StepInv(js, n - 1, rows)
  PROVE  StepInv(JourneyRow(js, rows[n]), n, rows)
  <1> DEFINE past == Past(n - 1, rows)
             r == rows[n]
  <1>1. r \in PacketRows /\ Past(n, rows) = past \union {r} /\ Read(past, r, Range(rows))
    BY NextRow
  <1>2. JourneysInv(js, past) /\ (Separable(Range(rows)) => ApartInv(js, past))
    BY DEF StepInv
  <1> HIDE DEF past, r
  <1>3. JourneysInv(JourneyRow(js, r), past \union {r})
    BY <1>1, <1>2, JourneyRowKeeps DEF Read
  <1>4. Separable(Range(rows)) => ApartInv(JourneyRow(js, r), past \union {r})
    BY <1>1, <1>2, ApartKeeps
  <1> QED BY <1>1, <1>3, <1>4 DEF StepInv, r

\* Before the first row there are no journeys.
LEMMA NoJourneysYet ==
  ASSUME NEW rows PROVE StepInv(<< >>, 0, rows)
  <1>1. << >> \in Journeys /\ DOMAIN << >> = {}
    BY EmptySeq, EmptyFacts DEF Journeys
  <1>2. Past(0, rows) = {}
    BY DEF Past
  <1> HIDE DEF Past
  <1>3. JourneysInv(<< >>, {})
    BY <1>1 DEF JourneysInv, Covers, Disjoint
  <1>4. ApartInv(<< >>, {})
    BY <1>1 DEF ApartInv
  <1> QED BY <1>2, <1>3, <1>4 DEF StepInv

\* What holds of any computation of the steps.
LEMMA JourneyStepsKeep ==
  ASSUME NEW rows \in Seq(PacketRows), Ordered(rows, AsLate), NEW k, k[0] = << >>,
         \A n \in 1 .. Len(rows) : StepInv(k[n - 1], n - 1, rows) => k[n] = JourneyRow(k[n - 1], rows[n])
  PROVE  \A n \in 0 .. Len(rows) : StepInv(k[n], n, rows)
  <1> DEFINE N == Len(rows)
             S == {n \in Nat : n <= N => StepInv(k[n], n, rows)}
  <1>1. 0 \in S
    BY NoJourneysYet
  <1>2. ASSUME NEW m \in Nat, m \in S PROVE m + 1 \in S
    <2> SUFFICES ASSUME m + 1 <= N PROVE StepInv(k[m + 1], m + 1, rows)
      OBVIOUS
    <2> DEFINE n == m + 1
    <2>1. n \in 1 .. N /\ n - 1 = m /\ N \in Nat
      BY LenProperties
    <2>2. StepInv(k[n - 1], n - 1, rows)
      BY <1>2, <2>1
    <2> HIDE DEF n
    <2>3. k[n] = JourneyRow(k[n - 1], rows[n])
      BY <2>1, <2>2
    <2>4. StepInv(JourneyRow(k[n - 1], rows[n]), n, rows)
      BY <2>1, <2>2, StepKeeps
    <2> QED BY <2>3, <2>4 DEF n
  <1> HIDE DEF S
  <1>3. Nat \subseteq S
    BY <1>1, <1>2, SetInduction
  <1>4. N \in Nat
    BY LenProperties
  <1> QED BY <1>3, <1>4 DEF S

\* JourneysOf is what the last step leaves.
LEMMA JourneysOfFacts ==
  ASSUME NEW rows \in Seq(PacketRows), Ordered(rows, AsLate)
  PROVE  StepInv(JourneysOf(rows), Len(rows), rows)
  <1> DEFINE N == Len(rows)
             V == Journeys
             F == [m \in 1 .. N |->
                     [y \in V |-> IF JourneyRow(y, rows[m]) \in V THEN JourneyRow(y, rows[m]) ELSE << >>]]
             Body(g) == [n \in 0 .. N |-> IF n = 0 THEN << >> ELSE JourneyRow(g[n - 1], rows[n])]
             k == CHOOSE g : g = Body(g)
  <1>1. N \in Nat
    BY LenProperties
  <1>2. << >> \in V
    BY NoJourneysYet DEF StepInv, JourneysInv
  <1>3. /\ F \in [1 .. N -> [V -> V]]
        /\ \A m \in 1 .. N, y \in V : JourneyRow(y, rows[m]) \in V => F[m][y] = JourneyRow(y, rows[m])
    <2> HIDE DEF V, N
    <2> QED BY <1>2
  <1> HIDE DEF V, F, N
  <1>4. PICK g \in [0 .. N -> V] : g[0] = << >> /\ \A m \in 1 .. N : g[m] = F[m][g[m - 1]]
    <2> DEFINE none == << >>
    <2>1. N \in Nat /\ F \in [1 .. N -> [V -> V]] /\ none \in V
      BY <1>1, <1>2, <1>3
    <2> HIDE DEF none
    <2>2. \E g \in [0 .. N -> V] : g[0] = none /\ \A m \in 1 .. N : g[m] = F[m][g[m - 1]]
      BY <2>1, StepsExist
    <2> QED BY <2>2 DEF none
  <1>5. \A m \in 1 .. N : StepInv(g[m - 1], m - 1, rows) => g[m] = JourneyRow(g[m - 1], rows[m])
    <2> SUFFICES ASSUME NEW m \in 1 .. N, StepInv(g[m - 1], m - 1, rows)
                 PROVE  g[m] = JourneyRow(g[m - 1], rows[m])
      OBVIOUS
    <2>1. m - 1 \in 0 .. N /\ m \in 1 .. Len(rows)
      BY <1>1 DEF N
    <2>2. StepInv(JourneyRow(g[m - 1], rows[m]), m, rows)
      BY <2>1, StepKeeps
    <2>3. JourneyRow(g[m - 1], rows[m]) \in V /\ g[m - 1] \in V
      BY <1>4, <2>1, <2>2 DEF StepInv, JourneysInv, V
    <2> QED BY <1>3, <1>4, <2>3
  <1>6. \A n \in 0 .. N : StepInv(g[n], n, rows)
    BY <1>4, <1>5, JourneyStepsKeep DEF N
  <1>7. \A m \in 1 .. N : g[m] = JourneyRow(g[m - 1], rows[m])
    <2> SUFFICES ASSUME NEW m \in 1 .. N PROVE g[m] = JourneyRow(g[m - 1], rows[m])
      OBVIOUS
    <2>1. m - 1 \in 0 .. N
      BY <1>1
    <2> QED BY <1>5, <1>6, <2>1
  <1>8. g = Body(g)
    <2>1. ASSUME NEW n \in 0 .. N PROVE g[n] = Body(g)[n]
      <3>1. CASE n = 0
        BY <1>4, <3>1
      <3>2. CASE n # 0
        <4>1. n \in 1 .. N
          BY <1>1, <3>2
        <4> QED BY <1>7, <3>2, <4>1
      <3> QED BY <3>1, <3>2
    <2>2. g = [n \in 0 .. N |-> g[n]]
      BY <1>4
    <2> QED BY <2>1, <2>2
  <1>9. k = Body(k)
    BY <1>8
  <1>10. JourneysOf(rows) = k[N]
    BY DEF JourneysOf, N
  <1> HIDE DEF k
  <1>11. k[0] = << >> /\ \A m \in 1 .. N : k[m] = JourneyRow(k[m - 1], rows[m])
    <2>1. \A n \in 0 .. N : k[n] = IF n = 0 THEN << >> ELSE JourneyRow(k[n - 1], rows[n])
      BY <1>9
    <2>2. 0 \in 0 .. N /\ \A m \in 1 .. N : m \in 0 .. N /\ m # 0
      BY <1>1
    <2> QED BY <2>1, <2>2
  <1>12. \A n \in 0 .. N : StepInv(k[n], n, rows)
    BY <1>11, JourneyStepsKeep DEF N
  <1>13. N \in 0 .. N
    BY <1>1
  <1> QED BY <1>10, <1>12, <1>13 DEF N

\* The journeys of rows that come in order.
LEMMA JourneysFollow ==
  ASSUME NEW rows \in Seq(PacketRows), Ordered(rows, AsLate)
  PROVE  /\ Partitioned(JourneysOf(rows), Range(rows)) /\ GoForward(JourneysOf(rows))
         /\ Separable(Range(rows)) =>
              OnePacketEach(JourneysOf(rows)) /\ NearTogether(JourneysOf(rows), Range(rows))
  <1> DEFINE js == JourneysOf(rows)
             A == Range(rows)
  <1>1. Past(Len(rows), rows) = A
    <2>1. DOMAIN rows = 1 .. Len(rows)
      BY LenProperties
    <2> QED BY <2>1 DEF Past, Range
  <1>2. JourneysInv(js, A) /\ (Separable(A) => ApartInv(js, A))
    BY <1>1, JourneysOfFacts DEF StepInv
  <1> HIDE DEF js, A
  <1>3. \A n \in DOMAIN js : ToSet(js[n]) = Range(js[n])
    BY DEF ToSet, Range
  <1>4. UNION {ToSet(js[n]) : n \in DOMAIN js} = A
    BY <1>2, <1>3 DEF JourneysInv, Covers
  <1>5. ASSUME NEW n \in DOMAIN js
        PROVE  /\ DOMAIN js[n] = 1 .. Len(js[n]) /\ Len(js[n]) \in Nat
               /\ \A i \in DOMAIN js[n] : js[n][i] \in PacketRows
               /\ \A i, j \in DOMAIN js[n] : i < j => js[n][i].stage < js[n][j].stage /\ js[n][i].ts <= js[n][j].ts
               /\ Paced(js[n])
    <2>1. js[n] \in Seq(PacketRows) /\ Ordered(js[n], Ahead) /\ Paced(js[n])
      BY <1>2, JourneyIs DEF JourneysInv
    <2>2. DOMAIN js[n] = 1 .. Len(js[n]) /\ Len(js[n]) \in Nat /\ \A i \in DOMAIN js[n] : js[n][i] \in PacketRows
      BY <2>1, LenProperties, ElementOfSeq
    <2>3. ASSUME NEW i \in DOMAIN js[n], NEW j \in DOMAIN js[n], i < j
          PROVE  js[n][i].stage < js[n][j].stage /\ js[n][i].ts <= js[n][j].ts
      <3>1. <<js[n][i], js[n][j]>> \in Ahead
        BY <2>1, <2>3 DEF Ordered
      <3> QED BY <3>1 DEF Ahead
    <2> QED BY <2>1, <2>2, <2>3
  <1>6. ASSUME NEW n \in DOMAIN js, NEW m \in DOMAIN js, NEW i \in DOMAIN js[n], NEW j \in DOMAIN js[m],
               js[n][i] = js[m][j]
        PROVE  n = m /\ i = j
    <2>1. js[n][i] \in Range(js[n]) /\ js[n][i] \in Range(js[m])
      BY <1>6 DEF Range
    <2>2. n = m
      BY <1>2, <2>1 DEF JourneysInv, Disjoint
    <2>3. j \in DOMAIN js[n] /\ js[n][j] = js[n][i]
      BY <1>6, <2>2
    <2>4. js[n][i].stage \in Nat /\ i \in Nat /\ j \in Nat
      BY <1>5, <2>3, RowTypes
    <2>5. ~(i < j) /\ ~(j < i)
      BY <1>5, <2>3, <2>4
    <2> QED BY <2>2, <2>4, <2>5
  <1>7. Partitioned(js, A)
    BY <1>4, <1>6 DEF Partitioned
  <1>8. GoForward(js)
    <2> SUFFICES ASSUME NEW n \in DOMAIN js, NEW i \in DOMAIN js[n], NEW j \in DOMAIN js[n], j = i + 1
                 PROVE  js[n][i].stage < js[n][j].stage /\ js[n][j].ts - js[n][i].ts \in 0 .. LayerGap
      BY DEF GoForward
    <2>1. i < j
      BY <1>5
    <2>2. js[n][i].ts \in Nat /\ js[n][j].ts \in Nat /\ LayerGap \in Nat
      BY <1>5, RowTypes
    <2>3. /\ js[n][i].stage < js[n][j].stage /\ js[n][i].ts <= js[n][j].ts
          /\ js[n][j].ts - js[n][i].ts <= LayerGap
      BY <1>5, <2>1 DEF Paced
    <2> QED BY <2>2, <2>3
  <1>9. ASSUME Separable(A) PROVE OnePacketEach(js) /\ NearTogether(js, A)
    <2>1. ApartInv(js, A)
      BY <1>2, <1>9
    <2>2. OnePacketEach(js)
      BY <1>3, <2>1 DEF OnePacketEach, ApartInv
    <2>3. NearTogether(js, A)
      <3> SUFFICES ASSUME NEW a \in A, NEW b \in A, a.packet = b.packet, a.ts < b.ts, b.ts - a.ts <= LayerGap
                   PROVE  \E n \in DOMAIN js : {a, b} \subseteq ToSet(js[n])
        BY DEF NearTogether
      <3>1. PICK n \in DOMAIN js : a \in Range(js[n]) /\ b \in Range(js[n])
        BY <2>1 DEF ApartInv
      <3> QED BY <1>3, <3>1
    <2> QED BY <2>2, <2>3
  <1> QED BY <1>7, <1>8, <1>9 DEF js, A

-----------------------------------------------------------------------------
(* The rows of a capture *)

\* Rows of a packet come later, and from further down unless at the same time.
Appearing ==
  {c \in PacketRows \X PacketRows :
     /\ c[1].ts <= c[2].ts
     /\ c[1].packet = c[2].packet =>
          /\ Fingerprint(c[1]) = Fingerprint(c[2]) /\ c[1].stage # c[2].stage
          /\ c[1].stage < c[2].stage \/ c[1].ts = c[2].ts}

\* The rows of the layers are captured in their order.
LayersAppear == source = "layers" => Ordered(seen, Appearing)

\* Rows of the layers keep coming in their order.
LEMMA LayersStep ==
  ASSUME SeenAreRows, LayersAppear, [CaptureNext]_captureVars PROVE LayersAppear'
  <1>1. CASE UNCHANGED <<seen, source>>
    BY <1>1 DEF LayersAppear
  <1>2. ASSUME NEW row \in PacketRows, RowIsSeen(row) PROVE LayersAppear'
    <2> SUFFICES ASSUME source = "layers" PROVE Ordered(Append(seen, row), Appearing)
      BY <1>2 DEF LayersAppear, RowIsSeen
    <2>1. Appears(row)
      BY <1>2 DEF RowIsSeen, Observes
    <2>2. ASSUME NEW a \in Range(seen) PROVE <<a, row>> \in Appearing
      <3>1. PICK n \in DOMAIN seen : a = seen[n]
        BY DEF Range
      <3>2. a \in PacketRows
        BY RangeOfSeq DEF SeenAreRows
      <3>3. a.ts <= row.ts
        BY <2>1, <3>1, <3>2, RowTypes DEF Appears, NotEarlier
      <3>4. a.packet = row.packet =>
              /\ Fingerprint(a) = Fingerprint(row) /\ a.stage # row.stage
              /\ a.stage < row.stage \/ a.ts = row.ts
        BY <2>1, <3>1 DEF Appears, PacketRowsOf, Fingerprint
      <3> QED BY <3>2, <3>3, <3>4 DEF Appearing
    <2>3. seen \in Seq(PacketRows) /\ Ordered(seen, Appearing)
      BY DEF SeenAreRows, LayersAppear
    <2> QED BY <2>2, <2>3, OrderedAppend
  <1>3. CaptureNext => UNCHANGED <<seen, source>> \/ \E row \in PacketRows : RowIsSeen(row)
    BY DEF CaptureNext, CallBegins, FindsTable, FindsFile, Unstamps, Converted, ConversionFails,
           Stamps, Joins, WritesTable, ServerEnds, TraceIsReplaced, AskPairs, AskLayers,
           AskOverview, AskDecode, AskPackets
  <1> QED BY <1>1, <1>2, <1>3 DEF captureVars

\* What get_pktmon_layer_latency reads comes in order, with no row twice.
LEMMA LayersInOrder ==
  ASSUME SeenAreRows, LayersAppear, source = "layers"
  PROVE  /\ ByTime(seen) \in Seq(PacketRows) /\ Range(ByTime(seen)) = Range(seen)
         /\ Ordered(ByTime(seen), AsLate)
  <1> DEFINE D == DOMAIN seen
             N == Len(seen) + 1
             out == ByTime(seen)
  <1>1. seen \in Seq(PacketRows) /\ \A a \in PacketRows : a.ts \in Nat
    BY RowTypes DEF SeenAreRows
  <1>2. D = 1 .. Len(seen) /\ Len(seen) \in Nat /\ N \in Nat \ {0} /\ N > Len(seen)
    BY <1>1, LenProperties
  <1>3. out = SortedInBatches(seen, N)
    BY DEF ByTime
  <1> HIDE DEF out, N
  <1>4. /\ out \in Seq(PacketRows)
        /\ \E order \in Seq(D) : Sorts(order, seen, out, N)
    BY <1>1, <1>2, <1>3, SortedFacts
  <1>5. PICK order \in Seq(D) :
             /\ DOMAIN order = D /\ Range(order) = D
             /\ \A n \in D : out[n] = seen[order[n]]
             /\ \A n, m \in D : n # m => order[n] # order[m]
             /\ \A n, m \in D : n < m => seen[order[n]].ts <= seen[order[m]].ts
    BY <1>2, <1>4 DEF Sorts
  <1>6. DOMAIN out = D
    BY <1>3 DEF SortedInBatches
  <1>7. \A n \in D : order[n] \in D
    BY <1>5 DEF Range
  <1>8. Range(out) = Range(seen)
    <2>1. \A n \in D : \E m \in D : n = order[m]
      BY <1>5 DEF Range
    <2> QED BY <1>5, <1>6, <1>7, <2>1 DEF Range
  <1>9. \A i, j \in D : i # j => seen[i] # seen[j]
    <2> SUFFICES ASSUME NEW i \in D, NEW j \in D, i # j, seen[i] = seen[j] PROVE FALSE
      OBVIOUS
    <2>1. i < j \/ j < i
      BY <1>2
    <2>2. <<seen[i], seen[j]>> \in Appearing
      BY <2>1 DEF LayersAppear, Ordered
    <2> QED BY <2>2 DEF Appearing
  <1>10. Ordered(out, AsLate)
    <2> SUFFICES ASSUME NEW n \in D, NEW m \in D, n < m PROVE <<out[n], out[m]>> \in AsLate
      BY <1>6 DEF Ordered
    <2>1. n # m
      BY <1>2
    <2>2. out[n] # out[m] /\ out[n].ts <= out[m].ts
      BY <1>5, <1>7, <1>9, <2>1
    <2>3. out[n] \in PacketRows /\ out[m] \in PacketRows
      BY <1>2, <1>4, <1>6, ElementOfSeq
    <2> QED BY <2>2, <2>3 DEF AsLate
  <1> QED BY <1>4, <1>8, <1>10 DEF out

\* Packets of an untangled capture can be told apart in what is asked for.
LEMMA UntangledSeparable ==
  ASSUME SeenAreRows, LayersAppear, source = "layers", Untangled, NEW dirs
  PROVE  Separable({r \in ToSet(seen) : r.dir \in dirs})
  <1> DEFINE A == {r \in ToSet(seen) : r.dir \in dirs}
             S == ToSet(seen)
             packets == {r.packet : r \in S}
  <1>1. S = Range(seen) /\ \A a \in S : a \in PacketRows
    <2>1. S = Range(seen)
      BY DEF ToSet, Range
    <2>2. \A a \in Range(seen) : a \in PacketRows
      BY RangeOfSeq DEF SeenAreRows
    <2> QED BY <2>1, <2>2
  <1>2. DOMAIN seen = 1 .. Len(seen) /\ Len(seen) \in Nat
    BY LenProperties DEF SeenAreRows
  <1>3. \A a, b \in S : a # b /\ a.packet = b.packet => a.ts # b.ts
    BY DEF Untangled, Rows
  <1>4. \A a, b \in S : a.packet < b.packet => Apart2(a.packet, b.packet)
    BY DEF Untangled
  <1>5. \A a, b \in S : a # b => <<a, b>> \in Appearing \/ <<b, a>> \in Appearing
    <2> SUFFICES ASSUME NEW a \in S, NEW b \in S, a # b PROVE <<a, b>> \in Appearing \/ <<b, a>> \in Appearing
      OBVIOUS
    <2>1. PICK i \in DOMAIN seen : a = seen[i]
      BY <1>1 DEF Range
    <2>2. PICK j \in DOMAIN seen : b = seen[j]
      BY <1>1 DEF Range
    <2>3. i < j \/ j < i
      BY <1>2, <2>1, <2>2
    <2> QED BY <2>1, <2>2, <2>3 DEF LayersAppear, Ordered
  <1>6. \A a, b \in PacketRows : <<a, b>> \in Appearing =>
          /\ a.ts <= b.ts
          /\ a.packet = b.packet => /\ Fingerprint(a) = Fingerprint(b)
                                    /\ a.stage < b.stage \/ a.ts = b.ts
    BY DEF Appearing
  <1> HIDE DEF S, Appearing
  <1>7. OwnFollow(A)
    <2> SUFFICES ASSUME NEW a \in A, NEW b \in A, a.packet = b.packet, a # b
                 PROVE  /\ Fingerprint(a) = Fingerprint(b)
                        /\ (a.ts < b.ts /\ a.stage < b.stage) \/ (b.ts < a.ts /\ b.stage < a.stage)
      BY DEF OwnFollow
    <2>1. a \in S /\ b \in S /\ a \in PacketRows /\ b \in PacketRows
      BY <1>1 DEF S
    <2>2. a.ts # b.ts /\ a.ts \in Nat /\ b.ts \in Nat
      BY <1>3, <2>1, RowTypes
    <2>3. CASE <<a, b>> \in Appearing
      BY <1>6, <2>1, <2>2, <2>3
    <2>4. CASE <<b, a>> \in Appearing
      BY <1>6, <2>1, <2>2, <2>4
    <2> QED BY <1>5, <2>1, <2>3, <2>4
  <1>8. ThroughBefore(A)
    <2> SUFFICES ASSUME NEW a \in A, NEW b \in A, a.packet # b.packet, Fingerprint(a) = Fingerprint(b),
                        a.ts <= b.ts, WithinGap(a, b)
                 PROVE  \E e \in A : e.packet = a.packet /\ e.stage = LastStage /\ e.ts < b.ts
      BY DEF ThroughBefore
    <2>1. a \in S /\ b \in S /\ a \in PacketRows /\ b \in PacketRows /\ a.dir \in dirs
      BY <1>1 DEF S
    <2>2. a \in Rows(a.packet) /\ b \in Rows(b.packet)
      BY <2>1 DEF Rows, S
    <2>3. a.packet \in Int /\ b.packet \in Int /\ a.ts \in Nat /\ b.ts \in Nat
      BY <2>1, RowTypes DEF PacketRows
    <2>4. CASE a.packet < b.packet
      <3>1. Apart2(a.packet, b.packet)
        BY <1>4, <2>1, <2>4
      <3>2. /\ \A c \in Rows(a.packet), d \in Rows(b.packet) : c.ts < d.ts
            /\ \E e \in Rows(a.packet) : e.stage = LastStage
        BY <2>2, <3>1 DEF Apart2
      <3>3. PICK e \in Rows(a.packet) : e.stage = LastStage
        BY <3>2
      <3>4. e \in S /\ e.packet = a.packet /\ e.ts < b.ts
        BY <2>2, <3>2 DEF Rows, S
      <3>5. e = a \/ Fingerprint(e) = Fingerprint(a)
        BY <1>1, <1>5, <1>6, <2>1, <3>4
      <3>6. e.dir \in dirs
        BY <2>1, <3>5 DEF Fingerprint
      <3> QED BY <3>3, <3>4, <3>6 DEF S
    <2>5. CASE b.packet < a.packet
      <3>1. Apart2(b.packet, a.packet)
        BY <1>4, <2>1, <2>5
      <3>2. b.ts < a.ts
        BY <2>2, <3>1 DEF Apart2
      <3> QED BY <2>3, <3>2
    <2> QED BY <2>3, <2>4, <2>5
  <1>9. A \subseteq PacketRows
    BY <1>1 DEF S
  <1> QED BY <1>7, <1>8, <1>9 DEF Separable

\* The journeys an answer gives.
LEMMA AskLayersExact ==
  ASSUME SeenAreRows, LayersAppear, NEW dirs, AskLayers(dirs) PROVE JourneysExact'
  <1> DEFINE W == {r \in ToSet(seen) : r.dir \in dirs}
             all == ByTime(seen)
             rows == Select(all, W)
             js == JourneysOf(rows)
  <1>1. all \in Seq(PacketRows) /\ Range(all) = Range(seen) /\ Ordered(all, AsLate)
    BY LayersInOrder DEF AskLayers
  <1>2. ToSet(seen) = Range(seen)
    BY DEF ToSet, Range
  <1>3. js = JourneysIn(dirs)
    BY DEF JourneysIn
  <1>4. source = "layers" /\ seen' = seen
    BY DEF AskLayers, AskPackets
  <1>5. packetAnswer'.tool = "layers" /\ packetAnswer'.dirs = dirs /\ packetAnswer'.journeys = js
    <2>1. packetAnswer' = [tool |-> "layers", dirs |-> dirs, journeys |-> js, hops |-> HopsIn(js),
                           complete |-> {n \in DOMAIN js : CompleteJourney(js[n])}]
      BY <1>3, Zenon DEF AskLayers, AskPackets
    <2> QED BY <2>1
  <1> HIDE DEF all, js
  <1>6. W \subseteq Range(all)
    BY <1>1, <1>2
  <1> HIDE DEF W
  <1>7. rows \in Seq(PacketRows) /\ Range(rows) = W /\ Ordered(rows, AsLate)
    <2>1. Range(rows) = Range(all) \intersect W
      BY <1>1, SelectRange
    <2> QED BY <1>1, <1>6, <2>1, SelectedSeq, SelectOrdered
  <1> HIDE DEF rows
  <1>8. /\ Partitioned(js, W) /\ GoForward(js)
        /\ Separable(W) => OnePacketEach(js) /\ NearTogether(js, W)
    BY <1>7, JourneysFollow DEF js
  <1>9. Untangled => Separable(W)
    BY <1>4, UntangledSeparable DEF W
  <1>10. Untangled' => Untangled
    BY <1>4 DEF Untangled, Apart2, Rows
  <1>11. W = {r \in ToSet(seen') : r.dir \in packetAnswer'.dirs}
    BY <1>4, <1>5 DEF W
  <1> HIDE DEF Partitioned, GoForward, OnePacketEach, NearTogether, Untangled, Separable
  <1> QED BY <1>5, <1>8, <1>9, <1>10, <1>11 DEF JourneysExact

\* Every step keeps what is said of journeys.
LEMMA JourneysStep ==
  ASSUME SeenAreRows, LayersAppear, JourneysExact, [CaptureNext]_captureVars PROVE JourneysExact'
  <1>1. CASE UNCHANGED <<packetAnswer, seen>>
    BY <1>1 DEF JourneysExact, Untangled, Apart2, Rows
  <1>2. ASSUME NEW row, RowIsSeen(row) PROVE JourneysExact'
    BY <1>2 DEF RowIsSeen, JourneysExact
  <1>3. ASSUME NEW dirs, AskLayers(dirs) PROVE JourneysExact'
    BY <1>3, AskLayersExact
  <1>4. ASSUME NEW size, AskPairs(size) PROVE JourneysExact'
    <2>1. packetAnswer'.tool = "pairs"
      BY <1>4 DEF AskPairs, AskPackets
    <2> QED BY <2>1 DEF JourneysExact
  <1>5. CASE AskOverview
    <2>1. packetAnswer'.tool = "overview"
      BY <1>5 DEF AskOverview, AskPackets
    <2> QED BY <2>1 DEF JourneysExact
  <1>6. ASSUME NEW ts, AskDecode(ts) PROVE JourneysExact'
    <2>1. packetAnswer'.tool = "decode"
      BY <1>6 DEF AskDecode, AskPackets
    <2> QED BY <2>1 DEF JourneysExact
  <1>7. CaptureNext => \/ UNCHANGED <<packetAnswer, seen>>
                       \/ \E row \in PacketRows : RowIsSeen(row)
                       \/ \E dirs \in {{"send"}, {"recv"}, {"send", "recv"}} : AskLayers(dirs)
                       \/ \E size \in PacketBatches : AskPairs(size)
                       \/ AskOverview
                       \/ \E ts \in PacketTimes : AskDecode(ts)
    BY DEF CaptureNext, CallBegins, FindsTable, FindsFile, Unstamps, Converted, ConversionFails,
           Stamps, Joins, WritesTable, ServerEnds, TraceIsReplaced
  <1> QED BY <1>1, <1>2, <1>3, <1>4, <1>5, <1>6, <1>7 DEF captureVars

\* Journeys of get_pktmon_layer_latency have each row once and go forward; those of
\* packets that can be told apart are of one packet, cut only at longer gaps.
THEOREM JourneysArePutTogether == CaptureSpec => []JourneysExact
  <1> DEFINE I == SeenAreRows /\ LayersAppear /\ JourneysExact
  <1>1. CaptureInit => I
    BY EmptySeq, EmptyFacts DEF CaptureInit, SeenAreRows, LayersAppear, Ordered, JourneysExact
  <1>2. I /\ [CaptureNext]_captureVars => I'
    BY SeenStep, LayersStep, JourneysStep
  <1>3. I => JourneysExact
    OBVIOUS
  <1> QED BY <1>1, <1>2, <1>3, PTL DEF CaptureSpec

\* Both paths of a packet, from sender to receiver and down the stack, are what the
\* capture shows, for captures of any rows.
THEOREM PathsAreExact == CaptureSpec => []PathsExact
  BY PacketsArePaired, JourneysArePutTogether, PTL DEF PathsExact

-----------------------------------------------------------------------------
(* Gaps of connects and accepts *)

\* Rows of connects or accepts, as the tools read them.
TimedRows(X) == \A r \in X : r.pid \in Nat /\ r.tid \in Nat /\ r.ts \in Nat

\* Rows, or gaps, by process and thread.
OfThread(r, p, t) == r.pid = p /\ r.tid = t
SameThread(a, b) == a.pid = b.pid /\ a.tid = b.tid

\* Of the batches, a later row is not in an earlier one.
LEMMA BatchesGrow ==
  ASSUME NEW m \in Nat \ {0}, NEW n \in Nat \ {0}, NEW size \in Nat \ {0}, m <= n
  PROVE  (m - 1) \div size <= (n - 1) \div size
  <1> DEFINE a == m - 1
             b == n - 1
             q == a \div size
  <1>1. a \in Int /\ b \in Int /\ a <= b
    OBVIOUS
  <1> HIDE DEF a, b
  <1>2. q \in Int /\ q * size <= a
    BY <1>1, DivFacts
  <1>3. q * size \in Int
    BY <1>2
  <1> HIDE DEF q
  <1>4. q * size <= b
    BY <1>1, <1>2, <1>3
  <1>5. q <= b \div size
    BY <1>1, <1>2, <1>4, FloorIs
  <1> QED BY <1>5 DEF a, b, q

\* ByThread has each row once, and leaves the rows of a thread in their order when
\* they are in the order of time.
LEMMA ByThreadFacts ==
  ASSUME NEW X, TimedRows(X), NEW rows \in Seq(X), NEW size \in Nat \ {0},
         \A m, n \in DOMAIN rows : m < n => rows[m].ts <= rows[n].ts
  PROVE  LET order == ByThread(rows, size)
         IN /\ order \in Seq(DOMAIN rows) /\ DOMAIN order = DOMAIN rows
            /\ Range(order) = DOMAIN rows
            /\ \A m, n \in DOMAIN rows :
                 m < n /\ SameThread(rows[order[m]], rows[order[n]]) => order[m] < order[n]
  <1> DEFINE D == DOMAIN rows
             places == [n \in D |-> n]
             Batch(n) == (n - 1) \div size
             Later(m, n) == rows[m].ts < rows[n].ts \/ (rows[m].ts = rows[n].ts /\ m < n)
             Comes(m, n) ==
               \/ Batch(m) < Batch(n)
               \/ /\ Batch(m) = Batch(n)
                  /\ \/ rows[m].pid < rows[n].pid
                     \/ /\ rows[m].pid = rows[n].pid
                        /\ rows[m].tid < rows[n].tid \/ (rows[m].tid = rows[n].tid /\ Later(m, n))
             comes == {c \in D \X D : Comes(c[1], c[2])}
             order == Arranged(places, comes)
             Differ == {c \in D \X D : c[1] # c[2]}
  <1>1. /\ D = 1 .. Len(rows) /\ Len(rows) \in Nat
        /\ \A n \in D : /\ n \in Nat \ {0} /\ rows[n] \in X
                        /\ rows[n].ts \in Nat /\ rows[n].pid \in Nat /\ rows[n].tid \in Nat
    BY LenProperties, ElementOfSeq DEF TimedRows
  <1>2. \A m, n \in D : <<m, n>> \in comes <=> Comes(m, n)
    OBVIOUS
  <1>3. \A n \in D : Batch(n) \in Int
    BY <1>1
  <1>4. ByThread(rows, size) = order
    BY DEF ByThread
  <1> HIDE DEF comes
  <1>5. places \in Seq(D) /\ DOMAIN places = D /\ Range(places) = D /\ \A n \in D : places[n] = n
    BY PlacesFacts DEF PlacesOf
  <1>6. \A m, n \in D : m <= n => Batch(m) <= Batch(n)
    BY <1>1, BatchesGrow
  <1> HIDE DEF places, Batch
  <1>7. \A n \in D : ~Comes(n, n)
    BY <1>1, <1>3
  <1>8. \A m, n \in D : m # n => Comes(m, n) \/ Comes(n, m)
    BY <1>1, <1>3
  <1>9. \A l, m, n \in D : Comes(l, m) /\ Comes(m, n) => Comes(l, n)
    BY <1>1, <1>3
  <1>10. \A m, n \in D : Comes(m, n) /\ SameThread(rows[m], rows[n]) => m < n
    <2> SUFFICES ASSUME NEW m \in D, NEW n \in D, Comes(m, n), SameThread(rows[m], rows[n]), ~(m < n) PROVE FALSE
      OBVIOUS
    <2>1. n <= m /\ Batch(n) <= Batch(m) /\ (n < m => rows[n].ts <= rows[m].ts)
      BY <1>1, <1>6
    <2>2. Batch(m) = Batch(n) /\ Later(m, n)
      BY <1>1, <1>3, <2>1 DEF SameThread
    <2> QED BY <1>1, <2>1, <2>2
  <1> HIDE DEF Comes
  <1>11. order \in Seq(D) /\ Range(order) = D /\ Ordered(order, comes)
    <2>1. /\ \A i \in DOMAIN places : <<places[i], places[i]>> \notin comes
          /\ \A i, j \in DOMAIN places : i # j => <<places[i], places[j]>> \in comes \/ <<places[j], places[i]>> \in comes
      BY <1>2, <1>5, <1>7, <1>8
    <2>2. \A i, j, k \in DOMAIN places :
             <<places[i], places[j]>> \in comes /\ <<places[j], places[k]>> \in comes => <<places[i], places[k]>> \in comes
      BY <1>2, <1>5, <1>9
    <2>3. \A i, j \in DOMAIN places : i # j => <<places[i], places[j]>> \in Differ
      BY <1>5
    <2> HIDE DEF D, Differ
    <2>4. /\ Arranged(places, comes) \in Seq(D) /\ Range(Arranged(places, comes)) = Range(places)
          /\ Ordered(Arranged(places, comes), Differ) /\ Ordered(Arranged(places, comes), comes)
      BY <1>5, <2>1, <2>2, <2>3, ArrangedFacts
    <2> QED BY <1>5, <2>4
  <1>12. DOMAIN order = D
    BY <1>5 DEF Arranged
  <1> HIDE DEF order
  <1>13. \A n \in D : order[n] \in D
    BY <1>11, <1>12 DEF Range
  <1>14. ASSUME NEW m \in D, NEW n \in D, m < n, SameThread(rows[order[m]], rows[order[n]])
         PROVE  order[m] < order[n]
    <2>1. Comes(order[m], order[n])
      BY <1>2, <1>11, <1>12, <1>13, <1>14 DEF Ordered
    <2> QED BY <1>10, <1>13, <1>14, <2>1
  <1> QED BY <1>4, <1>11, <1>12, <1>14

\* The gaps, the last times by process and thread, and both as the loop keeps them.
GapRows == [pid : Nat, tid : Nat, gap : Nat]
LastTimes == UNION {[K -> Nat] : K \in SUBSET (Nat \X Nat)}
GapStates == [last : LastTimes, gaps : Seq(GapRows)]

\* What a row does to the state.
LEMMA GapRowFacts ==
  ASSUME NEW g \in GapStates, NEW r, r.pid \in Nat, r.tid \in Nat, r.ts \in Nat
  PROVE  LET key == <<r.pid, r.tid>>
             h == GapRow(g, r)
             far == [pid |-> r.pid, tid |-> r.tid, gap |-> r.ts - g.last[key]]
         IN /\ h \in GapStates
            /\ DOMAIN h.last = DOMAIN g.last \union {key}
            /\ h.last[key] = r.ts
            /\ \A k \in DOMAIN g.last : k # key => h.last[k] = g.last[k]
            /\ key \in DOMAIN g.last => g.last[key] \in Nat
            /\ h.gaps = IF key \in DOMAIN g.last /\ r.ts >= g.last[key] THEN Append(g.gaps, far) ELSE g.gaps
            /\ key \in DOMAIN g.last /\ r.ts >= g.last[key] => far \in GapRows
  <1> DEFINE key == <<r.pid, r.tid>>
             h == GapRow(g, r)
             last == g.last
             next == [k \in DOMAIN last \union {key} |-> IF k = key THEN r.ts ELSE last[k]]
             far == [pid |-> r.pid, tid |-> r.tid, gap |-> r.ts - last[key]]
             more == IF key \in DOMAIN last /\ far.gap >= 0 THEN Append(g.gaps, far) ELSE g.gaps
  <1>1. h = [last |-> next, gaps |-> more]
    BY DEF GapRow, NowLast, Gap
  <1>2. g.last \in LastTimes /\ g.gaps \in Seq(GapRows)
    BY DEF GapStates
  <1>3. PICK K \in SUBSET (Nat \X Nat) : last \in [K -> Nat]
    BY <1>2 DEF LastTimes
  <1>4. key \in Nat \X Nat
    OBVIOUS
  <1> HIDE DEF key, last, h
  <1>5. DOMAIN last = K /\ \A k \in K : last[k] \in Nat
    BY <1>3
  <1>6. next \in [K \union {key} -> Nat]
    BY <1>5
  <1>7. next \in LastTimes
    <2>1. K \union {key} \in SUBSET (Nat \X Nat)
      BY <1>4
    <2> HIDE DEF next
    <2> QED BY <1>6, <2>1 DEF LastTimes
  <1>8. /\ DOMAIN next = DOMAIN last \union {key} /\ next[key] = r.ts
        /\ \A k \in DOMAIN last : k # key => next[k] = last[k]
    OBVIOUS
  <1>9. far.gap = r.ts - last[key]
    OBVIOUS
  <1>10. ASSUME key \in DOMAIN last PROVE last[key] \in Nat /\ (far.gap >= 0 <=> r.ts >= last[key])
    BY <1>5, <1>9, <1>10
  <1>11. ASSUME key \in DOMAIN last, r.ts >= last[key] PROVE far \in GapRows
    <2>1. r.ts - last[key] \in Nat
      BY <1>10, <1>11
    <2> QED BY <2>1 DEF GapRows
  <1> HIDE DEF far
  <1>12. more = IF key \in DOMAIN last /\ r.ts >= last[key] THEN Append(g.gaps, far) ELSE g.gaps
    BY <1>10
  <1>13. more \in Seq(GapRows)
    <2>1. CASE key \in DOMAIN last /\ r.ts >= last[key]
      BY <1>2, <1>11, <1>12, <2>1, AppendedSeq
    <2>2. CASE ~(key \in DOMAIN last /\ r.ts >= last[key])
      BY <1>2, <1>12, <2>2
    <2> QED BY <2>1, <2>2
  <1> HIDE DEF more, next
  <1>14. h \in GapStates /\ h.last = next /\ h.gaps = more
    BY <1>1, <1>7, <1>13 DEF GapStates
  <1> QED BY <1>8, <1>10, <1>11, <1>12, <1>14 DEF h, key, last, far

\* The gaps are taken by steps.
LEMMA GapSteps ==
  ASSUME NEW X, TimedRows(X), NEW rows \in Seq(X), NEW size,
         NEW order \in Seq(DOMAIN rows), order = ByThread(rows, size), DOMAIN order = DOMAIN rows
  PROVE  \E up \in [0 .. Len(rows) -> GapStates] :
           /\ up[0] = NoGaps
           /\ \A m \in 1 .. Len(rows) : up[m] = GapRow(up[m - 1], rows[order[m]])
           /\ GapsIn(rows, size) = up[Len(rows)].gaps
  <1> DEFINE N == Len(rows)
             V == GapStates
             F == [m \in 1 .. N |-> [g \in V |-> GapRow(g, rows[order[m]])]]
             Body(u) == [n \in 0 .. N |-> IF n = 0 THEN NoGaps ELSE GapRow(u[n - 1], rows[order[n]])]
             up == CHOOSE u : u = Body(u)
  <1>1. N \in Nat /\ DOMAIN rows = 1 .. N /\ \A m \in 1 .. N : order[m] \in 1 .. N /\ rows[order[m]] \in X
    <2>1. N \in Nat /\ DOMAIN rows = 1 .. N
      BY LenProperties
    <2>2. Len(order) = N /\ \A m \in 1 .. N : order[m] \in DOMAIN rows
      <3>1. Len(order) \in Nat /\ DOMAIN order = 1 .. Len(order)
        BY LenProperties
      <3>2. \A m \in 1 .. Len(order) : order[m] \in DOMAIN rows
        BY ElementOfSeq
      <3> QED BY <2>1, <3>1, <3>2
    <2> QED BY <2>1, <2>2, ElementOfSeq
  <1>2. NoGaps \in V
    <2>1. << >> \in Seq(GapRows)
      BY EmptySeq
    <2>2. << >> \in LastTimes
      <3>1. << >> \in [{} -> Nat] /\ {} \in SUBSET (Nat \X Nat)
        BY EmptyFacts
      <3> QED BY <3>1 DEF LastTimes
    <2> QED BY <2>1, <2>2 DEF NoGaps, GapStates
  <1>3. \A m \in 1 .. N, g \in V : GapRow(g, rows[order[m]]) \in V
    BY <1>1, GapRowFacts DEF TimedRows
  <1>4. F \in [1 .. N -> [V -> V]] /\ \A m \in 1 .. N, g \in V : F[m][g] = GapRow(g, rows[order[m]])
    <2> HIDE DEF V, N
    <2> QED BY <1>3
  <1> HIDE DEF V, F, N
  <1>5. PICK u \in [0 .. N -> V] : u[0] = NoGaps /\ \A m \in 1 .. N : u[m] = F[m][u[m - 1]]
    <2>1. N \in Nat /\ F \in [1 .. N -> [V -> V]]
      BY <1>1, <1>4
    <2>2. \E u \in [0 .. N -> V] : u[0] = NoGaps /\ ComputedBy(u, F, N)
      BY <1>2, <2>1, StepsFrom
    <2> QED BY <2>2 DEF ComputedBy
  <1>6. \A m \in 1 .. N : u[m] = GapRow(u[m - 1], rows[order[m]])
    <2> SUFFICES ASSUME NEW m \in 1 .. N PROVE u[m] = GapRow(u[m - 1], rows[order[m]])
      OBVIOUS
    <2>1. m - 1 \in 0 .. N
      BY <1>1
    <2>2. u[m - 1] \in V
      BY <2>1
    <2> QED BY <1>4, <1>5, <2>2
  <1>7. u = Body(u)
    <2>1. ASSUME NEW n \in 0 .. N PROVE u[n] = IF n = 0 THEN NoGaps ELSE GapRow(u[n - 1], rows[order[n]])
      <3>1. CASE n = 0
        BY <1>5, <3>1
      <3>2. CASE n # 0
        <4>1. n \in 1 .. N
          BY <1>1, <3>2
        <4> QED BY <1>6, <3>2, <4>1
      <3> QED BY <3>1, <3>2
    <2>2. u = [n \in 0 .. N |-> u[n]]
      BY <1>5
    <2> QED BY <2>1, <2>2
  <1>8. up = Body(up)
    BY <1>7
  <1>9. GapsIn(rows, size) = up[N].gaps
    BY DEF GapsIn, N
  <1>10. /\ up[0] = NoGaps /\ \A m \in 1 .. N : up[m] = GapRow(up[m - 1], rows[order[m]])
         /\ up = [n \in 0 .. N |-> up[n]]
    <2> HIDE DEF up
    <2>1. \A n \in 0 .. N : up[n] = IF n = 0 THEN NoGaps ELSE GapRow(up[n - 1], rows[order[n]])
      BY <1>8
    <2>2. 0 \in 0 .. N /\ \A m \in 1 .. N : m \in 0 .. N /\ m # 0
      BY <1>1
    <2> QED BY <1>8, <2>1, <2>2
  <1> HIDE DEF up
  <1>11. \A m \in 0 .. N : up[m] = u[m]
    <2> DEFINE S == {m \in Nat : m <= N => up[m] = u[m]}
    <2>1. 0 \in S
      BY <1>5, <1>10
    <2>2. ASSUME NEW m \in Nat, m \in S PROVE m + 1 \in S
      <3> SUFFICES ASSUME m + 1 <= N PROVE up[m + 1] = u[m + 1]
        OBVIOUS
      <3>1. m + 1 \in 1 .. N /\ (m + 1) - 1 = m /\ up[m] = u[m]
        BY <1>1, <2>2
      <3>2. up[m + 1] = GapRow(up[m], rows[order[m + 1]]) /\ u[m + 1] = GapRow(u[m], rows[order[m + 1]])
        BY <1>6, <1>10, <3>1
      <3> QED BY <3>1, <3>2
    <2> HIDE DEF S
    <2>3. Nat \subseteq S
      BY <2>1, <2>2, SetInduction
    <2> QED BY <1>1, <2>3 DEF S
  <1>12. up \in [0 .. N -> V]
    <2>1. \A m \in 0 .. N : up[m] \in V
      BY <1>5, <1>11
    <2> QED BY <1>10, <2>1
  <1> QED BY <1>9, <1>10, <1>12 DEF N, V

\* The gaps of one thread.
GapsOf(gaps, p, t) == Select(gaps, {g \in GapRows : OfThread(g, p, t)})

\* Of one thread, after some rows: s is where its rows are, and the gaps are those
\* between them.
ThreadInv(g, s, rows, p, t) ==
  LET gaps == GapsOf(g.gaps, p, t)
  IN /\ <<p, t>> \in DOMAIN g.last <=> s # << >>
     /\ s # << >> => g.last[<<p, t>>] = rows[s[Len(s)]].ts
     /\ Len(gaps) = IF s = << >> THEN 0 ELSE Len(s) - 1
     /\ \A i \in 1 .. Len(gaps) : gaps[i].gap = rows[s[i + 1]].ts - rows[s[i]].ts

\* A row of another thread changes nothing for this one.
LEMMA OtherThreadKeeps ==
  ASSUME NEW g \in GapStates, NEW r, r.pid \in Nat, r.tid \in Nat, r.ts \in Nat,
         NEW p \in Nat, NEW t \in Nat, ~OfThread(r, p, t), NEW s, NEW rows, ThreadInv(g, s, rows, p, t)
  PROVE  ThreadInv(GapRow(g, r), s, rows, p, t)
  <1> DEFINE key == <<r.pid, r.tid>>
             h == GapRow(g, r)
             far == [pid |-> r.pid, tid |-> r.tid, gap |-> r.ts - g.last[key]]
             G == {x \in GapRows : OfThread(x, p, t)}
             me == <<p, t>>
  <1>1. /\ h \in GapStates /\ DOMAIN h.last = DOMAIN g.last \union {key}
        /\ \A k \in DOMAIN g.last : k # key => h.last[k] = g.last[k]
        /\ h.gaps = IF key \in DOMAIN g.last /\ r.ts >= g.last[key] THEN Append(g.gaps, far) ELSE g.gaps
        /\ key \in DOMAIN g.last /\ r.ts >= g.last[key] => far \in GapRows
    BY GapRowFacts
  <1>2. far.pid = r.pid /\ far.tid = r.tid /\ me # key
    BY DEF OfThread
  <1> HIDE DEF far, key, h, me
  <1>3. g.gaps \in Seq(GapRows)
    BY DEF GapStates
  <1>4. Select(h.gaps, G) = Select(g.gaps, G)
    <2>1. CASE key \in DOMAIN g.last /\ r.ts >= g.last[key]
      <3>1. far \in GapRows /\ h.gaps = Append(g.gaps, far) /\ far \notin G
        BY <1>1, <1>2, <2>1 DEF OfThread
      <3> HIDE DEF G
      <3> QED BY <1>3, <3>1, SelectAppend
    <2>2. CASE ~(key \in DOMAIN g.last /\ r.ts >= g.last[key])
      BY <1>1, <2>2
    <2> QED BY <2>1, <2>2
  <1>5. GapsOf(h.gaps, p, t) = GapsOf(g.gaps, p, t)
    BY <1>4 DEF GapsOf
  <1>6. me \in DOMAIN h.last <=> me \in DOMAIN g.last
    BY <1>1, <1>2
  <1>7. me \in DOMAIN g.last => h.last[me] = g.last[me]
    BY <1>1, <1>2
  <1>8. ThreadInv(g, s, rows, p, t)
    OBVIOUS
  <1>9. ThreadInv(h, s, rows, p, t)
    BY <1>5, <1>6, <1>7, <1>8 DEF ThreadInv, me
  <1> QED BY <1>9 DEF h

\* A row of the thread that is not before the last one adds the gap between them.
LEMMA ThreadGoesOn ==
  ASSUME NEW g \in GapStates, NEW X, TimedRows(X), NEW rows \in Seq(X),
         NEW s \in Seq(DOMAIN rows), NEW n \in DOMAIN rows,
         NEW p \in Nat, NEW t \in Nat, OfThread(rows[n], p, t),
         s # << >> => rows[s[Len(s)]].ts <= rows[n].ts,
         ThreadInv(g, s, rows, p, t)
  PROVE  ThreadInv(GapRow(g, rows[n]), Append(s, n), rows, p, t)
  <1> DEFINE r == rows[n]
             key == <<r.pid, r.tid>>
             me == <<p, t>>
             h == GapRow(g, r)
             far == [pid |-> r.pid, tid |-> r.tid, gap |-> r.ts - g.last[key]]
             G == {x \in GapRows : OfThread(x, p, t)}
             sn == Append(s, n)
             N == Len(s)
             gaps == Select(g.gaps, G)
  <1>1. /\ n \in 1 .. Len(rows) /\ rows[n] \in X /\ \A i \in DOMAIN rows : rows[i].ts \in Nat
        /\ r.pid \in Nat /\ r.tid \in Nat /\ r.ts \in Nat
    <2>1. DOMAIN rows = 1 .. Len(rows)
      BY LenProperties
    <2>2. \A i \in DOMAIN rows : rows[i] \in X
      BY <2>1, ElementOfSeq
    <2> QED BY <2>1, <2>2 DEF TimedRows
  <1>2. /\ h \in GapStates /\ DOMAIN h.last = DOMAIN g.last \union {key}
        /\ h.last[key] = r.ts
        /\ h.gaps = IF key \in DOMAIN g.last /\ r.ts >= g.last[key] THEN Append(g.gaps, far) ELSE g.gaps
        /\ key \in DOMAIN g.last /\ r.ts >= g.last[key] => far \in GapRows
    <2> HIDE DEF r
    <2> QED BY <1>1, GapRowFacts
  <1>3. far.pid = p /\ far.tid = t /\ far.gap = r.ts - g.last[me] /\ key = me
    BY DEF OfThread
  <1>4. /\ N \in Nat /\ DOMAIN s = 1 .. N /\ DOMAIN sn = 1 .. N + 1 /\ Len(sn) = N + 1
        /\ \A i \in 1 .. N : sn[i] = s[i] /\ s[i] \in DOMAIN rows
        /\ sn[N + 1] = n
    <2>1. N \in Nat /\ DOMAIN s = 1 .. N /\ \A i \in 1 .. N : s[i] \in DOMAIN rows
      BY LenProperties, ElementOfSeq
    <2>2. /\ Len(sn) = N + 1 /\ DOMAIN sn = 1 .. N + 1 /\ sn[N + 1] = n
          /\ \A i \in DOMAIN s : sn[i] = s[i]
      BY AppendedSeq
    <2> QED BY <2>1, <2>2
  <1>5. s = << >> <=> N = 0
    BY <1>4, EmptySeq
  <1>6. sn # << >>
    BY AppendProperties
  <1>7. g.gaps \in Seq(GapRows) /\ gaps \in Seq(GapRows)
    <2>1. g.gaps \in Seq(GapRows)
      BY DEF GapStates
    <2> HIDE DEF G
    <2> QED BY <2>1, SelectedSeq
  <1>8. /\ me \in DOMAIN g.last <=> s # << >>
        /\ s # << >> => g.last[me] = rows[s[N]].ts
        /\ Len(gaps) = IF s = << >> THEN 0 ELSE N - 1
        /\ \A i \in 1 .. Len(gaps) : gaps[i].gap = rows[s[i + 1]].ts - rows[s[i]].ts
    BY DEF ThreadInv, GapsOf
  <1>9. s # << >> => far \in G /\ h.gaps = Append(g.gaps, far)
    <2> SUFFICES ASSUME s # << >> PROVE far \in G /\ h.gaps = Append(g.gaps, far)
      OBVIOUS
    <2>1. key \in DOMAIN g.last /\ r.ts >= g.last[key]
      <3>1. rows[s[N]].ts <= r.ts /\ rows[s[N]].ts \in Nat
        BY <1>1, <1>4, <1>5
      <3> HIDE DEF key, me, N
      <3> QED BY <1>1, <1>3, <1>8, <3>1
    <2>2. far \in GapRows
      BY <1>2, <2>1
    <2> HIDE DEF far
    <2> QED BY <1>2, <1>3, <2>1, <2>2 DEF OfThread
  <1>10. s = << >> => h.gaps = g.gaps
    BY <1>2, <1>3, <1>8
  <1>11. GapsOf(h.gaps, p, t) = IF s = << >> THEN gaps ELSE Append(gaps, far)
    <2> HIDE DEF far, h, gaps, G
    <2>1. CASE s = << >>
      BY <1>10, <2>1 DEF GapsOf, gaps, G
    <2>2. CASE s # << >>
      <3>1. far \in GapRows
        BY <1>9, <2>2 DEF G
      <3>2. Select(Append(g.gaps, far), G) = Append(Select(g.gaps, G), far)
        BY <1>7, <1>9, <2>2, <3>1, SelectAppend
      <3> QED BY <1>9, <2>2, <3>2 DEF GapsOf, gaps, G
    <2> QED BY <2>1, <2>2
  <1> DEFINE more == GapsOf(h.gaps, p, t)
  <1>12. Len(more) = Len(sn) - 1 /\ \A i \in 1 .. Len(more) : more[i].gap = rows[sn[i + 1]].ts - rows[sn[i]].ts
    <2>1. CASE s = << >>
      <3>1. more = gaps /\ Len(gaps) = 0
        BY <1>8, <1>11, <2>1
      <3> HIDE DEF more, gaps, sn
      <3> QED BY <1>4, <1>5, <2>1, <3>1
    <2>2. CASE s # << >>
      <3>1. more = Append(gaps, far) /\ Len(gaps) = N - 1 /\ far \in GapRows
        BY <1>8, <1>9, <1>11, <2>2
      <3>2. /\ Len(Append(gaps, far)) = Len(gaps) + 1 /\ Append(gaps, far)[Len(gaps) + 1] = far
            /\ \A i \in 1 .. Len(gaps) : Append(gaps, far)[i] = gaps[i]
        <4> HIDE DEF gaps, far
        <4> QED BY <1>7, <3>1, AppendProperties
      <3>3. far.gap = r.ts - rows[s[N]].ts
        BY <1>3, <1>8, <2>2
      <3> HIDE DEF more, gaps, far, sn, N
      <3>4. Len(more) = N /\ more[N].gap = r.ts - rows[s[N]].ts
        BY <1>4, <3>1, <3>2, <3>3
      <3>5. ASSUME NEW i \in 1 .. N PROVE more[i].gap = rows[sn[i + 1]].ts - rows[sn[i]].ts
        <4>1. CASE i = N
          <5>1. sn[i + 1] = n /\ sn[i] = s[N]
            BY <1>4, <4>1
          <5> QED BY <3>4, <4>1, <5>1
        <4>2. CASE i # N
          <5>1. i \in 1 .. Len(gaps) /\ i \in 1 .. N /\ i + 1 \in 1 .. N
            BY <1>4, <3>1, <4>2
          <5>2. more[i] = gaps[i] /\ gaps[i].gap = rows[s[i + 1]].ts - rows[s[i]].ts
            BY <1>8, <3>1, <3>2, <5>1
          <5> QED BY <1>4, <5>1, <5>2
        <4> QED BY <4>1, <4>2
      <3> QED BY <1>4, <3>4, <3>5
    <2> QED BY <2>1, <2>2
  <1>13. me \in DOMAIN h.last /\ h.last[me] = rows[sn[Len(sn)]].ts
    BY <1>2, <1>3, <1>4
  <1>14. ThreadInv(h, sn, rows, p, t)
    <2> HIDE DEF h, sn
    <2> QED BY <1>6, <1>12, <1>13 DEF ThreadInv
  <1> QED BY <1>14

\* No gap but of a thread that has rows.
OfSomeRow(gaps, rows) == \A g \in Range(gaps) : \E n \in DOMAIN rows : OfThread(rows[n], g.pid, g.tid)

\* The gaps of a thread are those between its rows, in the order of the table.
Between(order, all, rows, p, t) ==
  LET s == Select(order, {n \in DOMAIN rows : OfThread(rows[n], p, t)})
      gaps == GapsOf(all, p, t)
  IN /\ s \in Seq(DOMAIN rows) /\ Ordered(s, Up)
     /\ Range(s) = {n \in DOMAIN rows : OfThread(rows[n], p, t)}
     /\ Len(gaps) = IF s = << >> THEN 0 ELSE Len(s) - 1
     /\ \A i \in 1 .. Len(gaps) : gaps[i].gap = rows[s[i + 1]].ts - rows[s[i]].ts
     /\ all \in Seq(GapRows) /\ OfSomeRow(all, rows)

\* Each of the threads of a table has its gaps.
LEMMA GapsAreBetween ==
  ASSUME NEW X, TimedRows(X), NEW rows \in Seq(X), NEW size \in Nat \ {0},
         \A m, n \in DOMAIN rows : m < n => rows[m].ts <= rows[n].ts,
         NEW p \in Nat, NEW t \in Nat
  PROVE  Between(ByThread(rows, size), GapsIn(rows, size), rows, p, t)
  <1> DEFINE N == Len(rows)
             D == DOMAIN rows
             W == {n \in D : OfThread(rows[n], p, t)}
             order == ByThread(rows, size)
             s == Select(order, W)
  <1>1. /\ N \in Nat /\ D = 1 .. N
        /\ \A n \in D : /\ rows[n] \in X /\ rows[n].pid \in Nat /\ rows[n].tid \in Nat /\ rows[n].ts \in Nat
    BY LenProperties, ElementOfSeq DEF TimedRows
  <1>2. /\ order \in Seq(D) /\ DOMAIN order = D /\ Range(order) = D
        /\ \A m, n \in D : m < n /\ SameThread(rows[order[m]], rows[order[n]]) => order[m] < order[n]
    BY ByThreadFacts
  <1> HIDE DEF order
  <1>3. Len(order) = N /\ \A n \in 1 .. N : order[n] \in D
    <2>1. Len(order) \in Nat /\ DOMAIN order = 1 .. Len(order)
      BY <1>2, LenProperties
    <2>2. \A n \in D : order[n] \in D
      BY <1>2 DEF Range
    <2> QED BY <1>1, <1>2, <2>1, <2>2
  <1>4. PICK k \in [0 .. Len(order) -> Seq(D)] : SelectingBy(k, order, W) /\ Select(order, W) = k[Len(order)]
    <2> HIDE DEF W, D
    <2> QED BY <1>2, SelectSteps
  <1>5. PICK up \in [0 .. N -> GapStates] :
          /\ up[0] = NoGaps
          /\ \A m \in 1 .. N : up[m] = GapRow(up[m - 1], rows[order[m]])
          /\ GapsIn(rows, size) = up[N].gaps
    BY <1>2, GapSteps DEF order
  <1>6. k[0] = << >> /\ \A m \in 1 .. N : k[m] = IF order[m] \in W THEN Append(k[m - 1], order[m]) ELSE k[m - 1]
    BY <1>3, <1>4 DEF SelectingBy, Keep
  <1> DEFINE EndsAt(m) == k[m] # << >> => \E j \in 1 .. m : k[m][Len(k[m])] = order[j] /\ order[j] \in W
             Inv(m) == ThreadInv(up[m], k[m], rows, p, t) /\ EndsAt(m) /\ OfSomeRow(up[m].gaps, rows)
             S == {m \in Nat : m <= N => Inv(m)}
  <1>7. Inv(0)
    <2>1. Select(<< >>, {g \in GapRows : OfThread(g, p, t)}) = << >>
      BY SelectEmpty
    <2>2. NoGaps.last = << >> /\ NoGaps.gaps = << >>
      BY DEF NoGaps
    <2>3. ThreadInv(NoGaps, << >>, rows, p, t)
      <3>1. <<p, t>> \notin DOMAIN NoGaps.last
        BY <2>2, EmptyFacts
      <3>2. GapsOf(NoGaps.gaps, p, t) = << >>
        BY <2>1, <2>2 DEF GapsOf
      <3>3. Len(<< >>) = 0 /\ 1 .. Len(<< >>) = {}
        BY EmptyFacts
      <3> QED BY <3>1, <3>2, <3>3 DEF ThreadInv
    <2>4. OfSomeRow(NoGaps.gaps, rows)
      BY <2>2, EmptyFacts DEF OfSomeRow
    <2> QED BY <1>5, <1>6, <2>3, <2>4
  <1>8. ASSUME NEW m \in Nat, m \in S PROVE m + 1 \in S
    <2> SUFFICES ASSUME m + 1 <= N PROVE Inv(m + 1)
      OBVIOUS
    <2> DEFINE n == order[m + 1]
               r == rows[n]
               g == up[m]
               h == up[m + 1]
    <2>1. m + 1 \in 1 .. N /\ m \in 0 .. N /\ (m + 1) - 1 = m /\ m \in 0 .. Len(order)
      <3>1. N \in Nat /\ Len(order) = N
        BY <1>1, <1>3
      <3> HIDE DEF N, r, g, h, n
      <3> QED BY <3>1, NextPlace
    <2>2. Inv(m)
      BY <1>1, <1>8
    <2>3. n \in D /\ r \in X /\ r.pid \in Nat /\ r.tid \in Nat /\ r.ts \in Nat
      BY <1>1, <1>3, <2>1
    <2>4. g \in GapStates /\ h = GapRow(g, r) /\ k[m] \in Seq(D)
      BY <1>4, <1>5, <2>1
    <2>5. k[m + 1] = IF n \in W THEN Append(k[m], n) ELSE k[m]
      BY <1>6, <2>1
    <2>6. OfSomeRow(h.gaps, rows)
      <3> DEFINE key == <<r.pid, r.tid>>
                 far == [pid |-> r.pid, tid |-> r.tid, gap |-> r.ts - g.last[key]]
      <3>1. /\ h.gaps = IF key \in DOMAIN g.last /\ r.ts >= g.last[key] THEN Append(g.gaps, far) ELSE g.gaps
            /\ key \in DOMAIN g.last /\ r.ts >= g.last[key] => far \in GapRows
        <4> HIDE DEF r, g
        <4> QED BY <2>3, <2>4, GapRowFacts
      <3>2. g.gaps \in Seq(GapRows)
        BY <2>4 DEF GapStates
      <3>3. OfThread(rows[n], far.pid, far.tid)
        BY DEF OfThread
      <3>4. OfSomeRow(g.gaps, rows)
        BY <2>2
      <3> HIDE DEF far, key, g, h, n, D
      <3>5. CASE key \in DOMAIN g.last /\ r.ts >= g.last[key]
        <4>1. Range(h.gaps) = Range(g.gaps) \union {far}
          BY <3>1, <3>2, <3>5, AppendedSeq
        <4> QED BY <2>3, <3>3, <3>4, <4>1 DEF OfSomeRow, D
      <3>6. CASE ~(key \in DOMAIN g.last /\ r.ts >= g.last[key])
        BY <3>1, <3>4, <3>6
      <3> QED BY <3>5, <3>6
    <2>7. CASE n \notin W
      <3>1. ~OfThread(r, p, t)
        BY <2>3, <2>7
      <3>2. ThreadInv(h, k[m], rows, p, t)
        <4> HIDE DEF r, g, h
        <4> QED BY <2>2, <2>3, <2>4, <3>1, OtherThreadKeeps DEF g
      <3>3. k[m + 1] = k[m]
        BY <2>5, <2>7
      <3>4. EndsAt(m + 1)
        BY <2>1, <2>2, <3>3
      <3> QED BY <2>6, <3>2, <3>3, <3>4
    <2>8. CASE n \in W
      <3>1. OfThread(r, p, t)
        BY <2>8
      <3>2. k[m + 1] = Append(k[m], n)
        BY <2>5, <2>8
      <3>3. ASSUME k[m] # << >> PROVE rows[k[m][Len(k[m])]].ts <= r.ts
        <4>1. PICK j \in 1 .. m : k[m][Len(k[m])] = order[j] /\ order[j] \in W
          BY <2>2, <3>3
        <4>2. j \in D /\ m + 1 \in D /\ j < m + 1 /\ order[j] \in D
          BY <1>1, <1>3, <2>1
        <4>3. SameThread(rows[order[j]], rows[order[m + 1]])
          BY <3>1, <4>1 DEF OfThread, SameThread
        <4>4. order[j] < order[m + 1]
          BY <1>2, <4>2, <4>3
        <4> QED BY <2>3, <4>1, <4>2, <4>4
      <3>4. ThreadInv(h, k[m + 1], rows, p, t)
        <4>1. ThreadInv(g, k[m], rows, p, t) /\ k[m] \in Seq(DOMAIN rows)
          BY <2>2, <2>4
        <4>2. ThreadInv(GapRow(g, rows[n]), Append(k[m], n), rows, p, t)
          <5> HIDE DEF g, n
          <5> QED BY <2>3, <2>4, <3>1, <3>3, <4>1, ThreadGoesOn
        <4> QED BY <2>4, <3>2, <4>2
      <3>5. EndsAt(m + 1)
        <4>1. Append(k[m], n)[Len(Append(k[m], n))] = n
          <5> HIDE DEF n, D
          <5> QED BY <2>3, <2>4, AppendProperties
        <4>2. k[m + 1][Len(k[m + 1])] = order[m + 1] /\ m + 1 \in 1 .. m + 1
          BY <3>2, <4>1
        <4> QED BY <2>8, <4>2
      <3> QED BY <2>6, <3>4, <3>5
    <2> QED BY <2>7, <2>8
  <1>9. Inv(N)
    <2>1. 0 \in S
      BY <1>7
    <2> HIDE DEF S
    <2>2. Nat \subseteq S
      BY <1>8, <2>1, SetInduction
    <2>3. N \in S
      BY <1>1, <2>2
    <2> QED BY <1>1, <2>3 DEF S
  <1>10. s = k[N]
    BY <1>3, <1>4
  <1>11. s \in Seq(D) /\ Range(s) = W
    <2>1. Select(order, W) \in Seq(D) /\ Range(Select(order, W)) = Range(order) \intersect W
      <3> HIDE DEF D, W
      <3> QED BY <1>2, SelectedSeq, SelectRange
    <2> QED BY <1>2, <2>1
  <1>12. Ordered(s, Up)
    <2> DEFINE R == {c \in D \X D : SameThread(rows[c[1]], rows[c[2]]) => c[1] < c[2]}
    <2>1. Ordered(order, R)
      <3> SUFFICES ASSUME NEW i \in DOMAIN order, NEW j \in DOMAIN order, i < j PROVE <<order[i], order[j]>> \in R
        BY DEF Ordered
      <3>1. order[i] \in D /\ order[j] \in D
        BY <1>1, <1>2, <1>3
      <3>2. SameThread(rows[order[i]], rows[order[j]]) => order[i] < order[j]
        BY <1>2
      <3> QED BY <3>1, <3>2
    <2> HIDE DEF R
    <2>2. Ordered(s, R)
      <3> HIDE DEF D, W
      <3> QED BY <1>2, <2>1, SelectOrdered
    <2> HIDE DEF s
    <2> SUFFICES ASSUME NEW i \in DOMAIN s, NEW j \in DOMAIN s, i < j PROVE <<s[i], s[j]>> \in Up
      BY DEF Ordered
    <2>3. s[i] \in W /\ s[j] \in W
      BY <1>11 DEF Range
    <2>4. SameThread(rows[s[i]], rows[s[j]])
      BY <2>3 DEF SameThread, OfThread
    <2>5. <<s[i], s[j]>> \in R
      BY <2>2 DEF Ordered
    <2>6. s[i] < s[j]
      BY <2>4, <2>5 DEF R
    <2>7. s[i] \in Nat /\ s[j] \in Nat
      BY <1>1, <2>3
    <2> QED BY <2>6, <2>7 DEF Up
  <1> DEFINE gaps == GapsOf(GapsIn(rows, size), p, t)
  <1>13. ThreadInv(up[N], s, rows, p, t) /\ OfSomeRow(GapsIn(rows, size), rows)
    BY <1>5, <1>9, <1>10
  <1>14. /\ Len(gaps) = IF s = << >> THEN 0 ELSE Len(s) - 1
         /\ \A i \in 1 .. Len(gaps) : gaps[i].gap = rows[s[i + 1]].ts - rows[s[i]].ts
    <2> HIDE DEF s
    <2> QED BY <1>5, <1>13 DEF ThreadInv
  <1>15. GapsIn(rows, size) \in Seq(GapRows)
    BY <1>1, <1>5 DEF GapStates
  <1> HIDE DEF s, gaps
  <1>16. s = Select(order, {n \in DOMAIN rows : OfThread(rows[n], p, t)})
    BY DEF s
  <1> QED BY <1>11, <1>12, <1>13, <1>14, <1>15, <1>16 DEF Between, gaps, order

\* What the log holds.
NetRowClasses == UNION {NetClasses[y] : y \in DOMAIN NetClasses}
NetRows == [class : NetRowClasses, link : Links, ts : Nat, owned : BOOLEAN]

\* The log is in the order of time, and who connects or accepts is in the row.
LogInv ==
  /\ netClock \in Nat
  /\ netLog \in Seq(NetRows)
  /\ \A m, n \in DOMAIN netLog : m < n => netLog[m].ts <= netLog[n].ts
  /\ \A n \in DOMAIN netLog : netLog[n].ts <= netClock /\ (netLog[n].class \in Opening => netLog[n].owned)

\* A row of the trace is later than all before it.
LEMMA LogStep ==
  ASSUME LogInv, [NetNext]_netVars PROVE LogInv'
  <1>1. CASE UNCHANGED netVars
    BY <1>1 DEF LogInv, netVars
  <1>2. ASSUME NEW l \in Links, NEW owned \in BOOLEAN, NEW class \in NetRowClasses, Leaves(l, class, owned)
        PROVE  LogInv'
    <2> DEFINE row == [class |-> class, link |-> l, ts |-> netClock, owned |-> owned]
               N == Len(netLog)
    <2>1. /\ netLog' = Append(netLog, row) /\ netClock' = netClock /\ netClock \in Nat
          /\ class \in Opening => owned
      BY <1>2 DEF Leaves, LogInv
    <2>2. row \in NetRows
      BY <2>1 DEF NetRows
    <2>3. row.ts = netClock /\ row.class = class /\ row.owned = owned
      OBVIOUS
    <2>4. netLog \in Seq(NetRows)
      BY DEF LogInv
    <2> HIDE DEF row
    <2>5. /\ netLog' \in Seq(NetRows) /\ N \in Nat /\ DOMAIN netLog = 1 .. N /\ DOMAIN netLog' = 1 .. N + 1
          /\ \A i \in 1 .. N : netLog'[i] = netLog[i]
          /\ netLog'[N + 1] = row
      BY <2>1, <2>2, <2>4, AppendedSeq
    <2>6. /\ \A m, n \in 1 .. N : m < n => netLog[m].ts <= netLog[n].ts
          /\ \A n \in 1 .. N : netLog[n].ts <= netClock /\ (netLog[n].class \in Opening => netLog[n].owned)
      BY <2>5 DEF LogInv
    <2>7. \A n \in 1 .. N + 1 : n = N + 1 \/ n \in 1 .. N
      BY <2>5
    <2>8. \A n \in DOMAIN netLog' : netLog'[n].ts <= netClock' /\ (netLog'[n].class \in Opening => netLog'[n].owned)
      <3> SUFFICES ASSUME NEW n \in 1 .. N + 1
                   PROVE  netLog'[n].ts <= netClock' /\ (netLog'[n].class \in Opening => netLog'[n].owned)
        BY <2>5
      <3>1. CASE n = N + 1
        BY <2>1, <2>3, <2>5, <3>1
      <3>2. CASE n \in 1 .. N
        BY <2>1, <2>5, <2>6, <3>2
      <3> QED BY <2>7, <3>1, <3>2
    <2>9. \A m, n \in DOMAIN netLog' : m < n => netLog'[m].ts <= netLog'[n].ts
      <3> SUFFICES ASSUME NEW m \in 1 .. N + 1, NEW n \in 1 .. N + 1, m < n PROVE netLog'[m].ts <= netLog'[n].ts
        BY <2>5
      <3>1. m \in 1 .. N
        BY <2>5
      <3>2. CASE n = N + 1
        BY <2>3, <2>5, <2>6, <3>1, <3>2
      <3>3. CASE n \in 1 .. N
        BY <2>5, <2>6, <3>1, <3>3
      <3> QED BY <2>7, <3>2, <3>3
    <2> QED BY <2>1, <2>5, <2>8, <2>9 DEF LogInv
  <1>3. CASE NetTimePasses
    <2>1. netClock' = netClock + 1 /\ netLog' = netLog /\ netClock \in Nat
      BY <1>3 DEF NetTimePasses, LogInv
    <2>2. \A n \in DOMAIN netLog : netLog[n].ts \in Nat
      <3>1. DOMAIN netLog = 1 .. Len(netLog) /\ \A n \in 1 .. Len(netLog) : netLog[n] \in NetRows
        BY LenProperties, ElementOfSeq DEF LogInv
      <3> QED BY <3>1 DEF NetRows
    <2> QED BY <2>1, <2>2 DEF LogInv
  <1>4. ASSUME NEW ask \in NetAsks, NEW size \in RowBatches, AskNetwork(ask, size) PROVE LogInv'
    BY <1>4 DEF AskNetwork, LogInv
  <1> QED BY <1>1, <1>2, <1>3, <1>4 DEF NetNext, NetRowClasses

\* A row as the tables have it.
IsTableRow(r) == DOMAIN r = {"class", "id", "ts", "tuple", "pid", "tid"}

\* What is filled in is what was not known.
Agree(r, q) == r.class = q.class /\ r.ts = q.ts /\ r.tid = q.tid /\ (q.pid # 0 => r.pid = q.pid)

\* Filling in changes no row but for its process and its 5-tuple.
LEMMA FilledAgree ==
  ASSUME NEW rows, NEW tellers, \A n \in DOMAIN rows : IsTableRow(rows[n])
  PROVE  LET out == FilledFrom(rows, tellers)
         IN /\ DOMAIN out = DOMAIN rows
            /\ \A n \in DOMAIN rows : IsTableRow(out[n]) /\ Agree(out[n], rows[n])
  <1> DEFINE out == FilledFrom(rows, tellers)
  <1>1. ASSUME NEW n \in DOMAIN rows PROVE IsTableRow(out[n]) /\ Agree(out[n], rows[n])
    <2> DEFINE r == rows[n]
               tuple == IF r.tuple = None THEN TupleFor(r.id, tellers) ELSE r.tuple
               pid == IF r.pid = 0 THEN PidFor(r.id, tellers) ELSE r.pid
               more == [r EXCEPT !.tuple = tuple, !.pid = pid]
    <2>1. DOMAIN r = {"class", "id", "ts", "tuple", "pid", "tid"}
      BY DEF IsTableRow
    <2>2. out[n] = IF r.id = 0 THEN r ELSE more
      BY <2>1 DEF FilledFrom
    <2>3. r.pid # 0 => pid = r.pid
      OBVIOUS
    <2> HIDE DEF out, r, tuple, pid
    <2>4. CASE r.id = 0
      BY <2>1, <2>2, <2>4 DEF IsTableRow, Agree, r
    <2>5. CASE r.id # 0
      <3>1. /\ more.class = r.class /\ more.ts = r.ts /\ more.tid = r.tid /\ more.pid = pid
            /\ DOMAIN more = DOMAIN r
        BY <2>1
      <3>2. IsTableRow(more) /\ Agree(more, r)
        BY <2>1, <2>3, <3>1 DEF IsTableRow, Agree
      <3> QED BY <2>2, <2>5, <3>2 DEF r
    <2> QED BY <2>4, <2>5
  <1>2. DOMAIN out = DOMAIN rows
    BY DEF FilledFrom
  <1> QED BY <1>1, <1>2

\* Filling in leaves the time and the thread of a row, and the process it shows.
LEMMA EnrichedFacts ==
  ASSUME LogInv
  PROVE  /\ DOMAIN Enriched = DOMAIN netLog
         /\ \A n \in DOMAIN netLog :
              /\ Enriched[n].class = netLog[n].class /\ Enriched[n].ts = netLog[n].ts
              /\ Enriched[n].tid = ThreadOf[netLog[n].link]
              /\ netLog[n].owned => Enriched[n].pid = OwnerOf[netLog[n].link]
  <1> DEFINE rows == [n \in DOMAIN netLog |-> Written(netLog[n])]
             tellers == SelectSeq(InOrder(rows, MemoryOrder[layer]), LAMBDA r : layer = "tcp" => r.tuple # None)
             once == IF inMemory THEN FilledFrom(rows, tellers) ELSE rows
             more == InOrder(once, StoreOrder[layer])
  <1>1. Enriched = FilledFrom(once, more)
    BY DEF Enriched
  <1>2. \A n \in DOMAIN netLog : netLog[n].link \in Links
    <2>1. DOMAIN netLog = 1 .. Len(netLog) /\ \A n \in 1 .. Len(netLog) : netLog[n] \in NetRows
      BY LenProperties, ElementOfSeq DEF LogInv
    <2> QED BY <2>1 DEF NetRows
  <1>3. \A l \in Links : OwnerOf[l] # 0
    BY NetworkEventsAssumption
  <1>4. DOMAIN rows = DOMAIN netLog
    OBVIOUS
  <1>5. ASSUME NEW n \in DOMAIN netLog
        PROVE  /\ IsTableRow(rows[n]) /\ rows[n].class = netLog[n].class /\ rows[n].ts = netLog[n].ts
               /\ rows[n].tid = ThreadOf[netLog[n].link]
               /\ netLog[n].owned => rows[n].pid = OwnerOf[netLog[n].link] /\ rows[n].pid # 0
    <2>1. rows[n] = Written(netLog[n])
      OBVIOUS
    <2>2. IsTableRow(Written(netLog[n]))
      BY DEF Written, IsTableRow
    <2>3. /\ Written(netLog[n]).class = netLog[n].class /\ Written(netLog[n]).ts = netLog[n].ts
          /\ Written(netLog[n]).tid = ThreadOf[netLog[n].link]
          /\ netLog[n].owned => Written(netLog[n]).pid = OwnerOf[netLog[n].link]
      BY DEF Written
    <2> QED BY <1>2, <1>3, <2>1, <2>2, <2>3
  <1> HIDE DEF rows, tellers, more
  <1>6. /\ DOMAIN once = DOMAIN rows
        /\ \A n \in DOMAIN rows : IsTableRow(once[n]) /\ Agree(once[n], rows[n])
    <2>1. /\ DOMAIN FilledFrom(rows, tellers) = DOMAIN rows
          /\ \A n \in DOMAIN rows : /\ IsTableRow(FilledFrom(rows, tellers)[n])
                                    /\ Agree(FilledFrom(rows, tellers)[n], rows[n])
      BY <1>4, <1>5, FilledAgree
    <2>2. \A n \in DOMAIN rows : IsTableRow(rows[n]) /\ Agree(rows[n], rows[n])
      BY <1>4, <1>5 DEF Agree
    <2> QED BY <2>1, <2>2
  <1> HIDE DEF once
  <1>7. /\ DOMAIN FilledFrom(once, more) = DOMAIN once
        /\ \A n \in DOMAIN once : Agree(FilledFrom(once, more)[n], once[n])
    BY <1>6, FilledAgree
  <1> DEFINE out == FilledFrom(once, more)
  <1>8. DOMAIN out = DOMAIN netLog /\ \A n \in DOMAIN netLog : Agree(out[n], once[n]) /\ Agree(once[n], rows[n])
    BY <1>4, <1>6, <1>7
  <1> HIDE DEF out
  <1>9. ASSUME NEW n \in DOMAIN netLog
        PROVE  /\ out[n].class = netLog[n].class /\ out[n].ts = netLog[n].ts
               /\ out[n].tid = ThreadOf[netLog[n].link]
               /\ netLog[n].owned => out[n].pid = OwnerOf[netLog[n].link]
    BY <1>5, <1>8 DEF Agree
  <1> QED BY <1>1, <1>8, <1>9 DEF out

\* The rows of connects, or of accepts, as a tool reads them: ps is where they are
\* in the log.
Opened(class, rows, ps) ==
  /\ ps \in Seq(DOMAIN netLog) /\ Ordered(ps, Up)
  /\ Range(ps) = {n \in DOMAIN netLog : netLog[n].class = class}
  /\ DOMAIN rows = DOMAIN ps
  /\ \A k \in DOMAIN rows : rows[k] = Enriched[ps[k]]

\* What is filled in is a table again.
LEMMA FilledIsFunction ==
  ASSUME NEW rows, NEW tellers
  PROVE  FilledFrom(rows, tellers)
           = [n \in DOMAIN FilledFrom(rows, tellers) |-> FilledFrom(rows, tellers)[n]]
  BY DEF FilledFrom

\* The rows of the log.
LEMMA LogRows ==
  ASSUME LogInv
  PROVE  /\ Len(netLog) \in Nat /\ DOMAIN netLog = 1 .. Len(netLog)
         /\ \A n \in DOMAIN netLog : netLog[n].ts \in Nat /\ netLog[n].link \in Links
  <1>1. Len(netLog) \in Nat /\ DOMAIN netLog = 1 .. Len(netLog)
    BY LenProperties DEF LogInv
  <1>2. \A n \in 1 .. Len(netLog) : netLog[n] \in NetRows
    BY ElementOfSeq DEF LogInv
  <1> QED BY <1>1, <1>2 DEF NetRows

\* What is read of connects and accepts has all it takes to tell the gaps.
LEMMA OpenedAre ==
  ASSUME LogInv, NEW class \in Opening
  PROVE  LET rows == TableOf(class)
         IN \E X : /\ TimedRows(X) /\ rows \in Seq(X)
                   /\ \A m, n \in DOMAIN rows : m < n => rows[m].ts <= rows[n].ts
                   /\ \E ps : Opened(class, rows, ps)
  <1> DEFINE e == Enriched
             E == ToSet(e)
             W == {r \in E : r.class = class}
             rows == Select(e, W)
             C == {n \in DOMAIN e : e[n] \in W}
             ps == Select(PlacesOf(e), C)
  <1>1. rows = TableOf(class)
    BY DEF TableOf
  <1>2. DOMAIN e = DOMAIN netLog
        /\ \A n \in DOMAIN netLog :
              /\ e[n].class = netLog[n].class /\ e[n].ts = netLog[n].ts
              /\ e[n].tid = ThreadOf[netLog[n].link]
              /\ netLog[n].owned => e[n].pid = OwnerOf[netLog[n].link]
    BY EnrichedFacts
  <1>3. /\ Len(netLog) \in Nat /\ DOMAIN netLog = 1 .. Len(netLog)
        /\ \A n \in DOMAIN netLog : netLog[n].ts \in Nat /\ netLog[n].link \in Links
    BY LogRows
  <1>4. /\ \A m, n \in DOMAIN netLog : m < n => netLog[m].ts <= netLog[n].ts
        /\ \A n \in DOMAIN netLog : netLog[n].class \in Opening => netLog[n].owned
    BY DEF LogInv
  <1>5. e \in Seq(E)
    <2>1. e = [n \in DOMAIN e |-> e[n]]
      <3> DEFINE written == [n \in DOMAIN netLog |-> Written(netLog[n])]
                 tellers == SelectSeq(InOrder(written, MemoryOrder[layer]),
                                      LAMBDA r : layer = "tcp" => r.tuple # None)
                 once == IF inMemory THEN FilledFrom(written, tellers) ELSE written
                 more == InOrder(once, StoreOrder[layer])
      <3>1. e = FilledFrom(once, more)
        BY DEF Enriched
      <3> HIDE DEF e, once, more
      <3> QED BY <3>1, FilledIsFunction
    <2>2. \A n \in DOMAIN e : e[n] \in E
      BY DEF ToSet
    <2> HIDE DEF e, E
    <2>3. e \in [1 .. Len(netLog) -> E]
      BY <1>2, <1>3, <2>1, <2>2
    <2> QED BY <1>3, <2>3, FunIsSeq
  <1>6. \A n \in DOMAIN e : e[n] \in W <=> netLog[n].class = class
    <2>1. \A n \in DOMAIN e : e[n] \in E
      BY DEF ToSet
    <2> QED BY <1>2, <2>1
  <1>7. \A r \in W : \E n \in DOMAIN e : r = e[n] /\ netLog[n].class = class
    <2>1. \A r \in E : \E n \in DOMAIN e : r = e[n]
      BY DEF ToSet
    <2> HIDE DEF e, E
    <2> QED BY <1>2, <2>1
  <1> HIDE DEF e, E, W
  <1>8. TimedRows(W)
    <2> SUFFICES ASSUME NEW r \in W PROVE r.pid \in Nat /\ r.tid \in Nat /\ r.ts \in Nat
      BY DEF TimedRows
    <2>1. PICK n \in DOMAIN e : r = e[n] /\ netLog[n].class = class
      BY <1>7
    <2>2. n \in DOMAIN netLog /\ netLog[n].owned
      BY <1>2, <1>4, <2>1
    <2>3. OwnerOf[netLog[n].link] \in Nat /\ ThreadOf[netLog[n].link] \in Nat
      BY <1>3, <2>2, NetworkEventsAssumption
    <2> QED BY <1>2, <1>3, <2>1, <2>2, <2>3
  <1>9. /\ ps \in Seq(DOMAIN e) /\ Ordered(ps, Up) /\ Range(ps) = C
        /\ Len(rows) = Len(ps) /\ \A k \in 1 .. Len(ps) : rows[k] = e[ps[k]]
    <2>1. C \in SUBSET DOMAIN e /\ \A n \in DOMAIN e : n \in C <=> e[n] \in W
      OBVIOUS
    <2> HIDE DEF C
    <2> QED BY <1>5, <2>1, SelectPlaces
  <1>10. rows \in Seq(E) /\ DOMAIN rows = 1 .. Len(rows) /\ DOMAIN ps = 1 .. Len(ps) /\ Len(ps) \in Nat
         /\ rows \in [1 .. Len(rows) -> E]
    <2>1. rows \in Seq(E)
      BY <1>5, SelectedSeq
    <2> HIDE DEF rows, ps
    <2> QED BY <1>9, <2>1, LenProperties
  <1>11. \A k \in 1 .. Len(ps) : ps[k] \in C /\ ps[k] \in DOMAIN netLog
    <2>1. \A k \in DOMAIN ps : ps[k] \in Range(ps)
      BY DEF Range
    <2> QED BY <1>2, <1>9, <1>10, <2>1
  <1> HIDE DEF rows, ps
  <1>12. rows \in Seq(W)
    <2>1. \A k \in 1 .. Len(rows) : rows[k] \in W
      BY <1>9, <1>11
    <2>2. rows \in [1 .. Len(rows) -> W]
      BY <1>10, <2>1
    <2> QED BY <1>9, <1>10, <2>2, FunIsSeq
  <1>13. \A m, n \in DOMAIN rows : m < n => rows[m].ts <= rows[n].ts
    <2> SUFFICES ASSUME NEW m \in DOMAIN rows, NEW n \in DOMAIN rows, m < n PROVE rows[m].ts <= rows[n].ts
      OBVIOUS
    <2>1. rows[m] = e[ps[m]] /\ rows[n] = e[ps[n]] /\ ps[m] \in DOMAIN netLog /\ ps[n] \in DOMAIN netLog
      BY <1>9, <1>10, <1>11
    <2>2. <<ps[m], ps[n]>> \in Up
      BY <1>9, <1>10 DEF Ordered
    <2>3. ps[m] < ps[n]
      BY <2>2 DEF Up
    <2> QED BY <1>2, <1>4, <2>1, <2>3
  <1>14. Range(ps) = {n \in DOMAIN netLog : netLog[n].class = class}
    BY <1>2, <1>6, <1>9
  <1>15. Opened(class, rows, ps)
    BY <1>2, <1>9, <1>10, <1>14 DEF Opened, e
  <1> HIDE DEF C
  <1> QED BY <1>1, <1>8, <1>12, <1>13, <1>15

\* The rows of a thread in the table are those it left in the log.
LEMMA SameRows ==
  ASSUME LogInv, NEW class \in Opening, NEW rows, NEW ps, Opened(class, rows, ps),
         NEW p, NEW t, NEW s \in Seq(DOMAIN rows), Ordered(s, Up),
         Range(s) = {k \in DOMAIN rows : OfThread(rows[k], p, t)}
  PROVE  LET left == LeftBy(netLog, class, p, t)
         IN /\ Len(left) = Len(s) /\ left \in Seq(DOMAIN netLog)
            /\ \A i \in 1 .. Len(s) : rows[s[i]].ts = netLog[left[i]].ts
            /\ s = << >> <=> left = << >>
  <1> DEFINE D == DOMAIN netLog
             Of(n) == netLog[n].class = class /\ OwnerOf[netLog[n].link] = p /\ ThreadOf[netLog[n].link] = t
             left == LeftBy(netLog, class, p, t)
             c == [i \in 1 .. Len(s) |-> ps[s[i]]]
  <1>1. /\ Len(netLog) \in Nat /\ D = 1 .. Len(netLog) /\ D \in SUBSET Nat
    BY LogRows
  <1>2. /\ left \in Seq(D) /\ Ordered(left, Up) /\ Range(left) = {n \in D : Of(n)}
    <2> DEFINE W == {n \in D : Of(n)}
               places == PlacesOf(netLog)
    <2>1. netLog \in Seq(NetRows)
      BY DEF LogInv
    <2>2. places \in Seq(D) /\ Range(places) = D /\ Ordered(places, Up)
      BY <2>1, PlacesFacts
    <2>3. left = Select(places, W)
      BY DEF LeftBy, PlacesOf
    <2>4. \A n \in W : n \in D
      OBVIOUS
    <2> HIDE DEF W, places, D, left
    <2>5. Select(places, W) \in Seq(D) /\ Range(Select(places, W)) = D \intersect W /\ Ordered(Select(places, W), Up)
      BY <2>2, SelectedSeq, SelectRange, SelectOrdered
    <2>6. Range(left) = W
      BY <2>3, <2>4, <2>5
    <2> QED BY <2>3, <2>5, <2>6 DEF W
  <1> HIDE DEF left
  <1>3. /\ ps \in Seq(D) /\ Ordered(ps, Up) /\ Range(ps) = {n \in D : netLog[n].class = class}
        /\ DOMAIN rows = DOMAIN ps /\ \A k \in DOMAIN rows : rows[k] = Enriched[ps[k]] /\ ps[k] \in D
    <2>1. ps \in Seq(D) /\ DOMAIN rows = DOMAIN ps
      BY DEF Opened
    <2>2. \A k \in DOMAIN ps : ps[k] \in D
      BY <2>1, LenProperties, ElementOfSeq
    <2> QED BY <2>1, <2>2 DEF Opened
  <1>4. \A k \in DOMAIN rows : /\ rows[k].ts = netLog[ps[k]].ts /\ netLog[ps[k]].class = class
                               /\ OfThread(rows[k], p, t) <=> Of(ps[k])
    <2> SUFFICES ASSUME NEW k \in DOMAIN rows
                 PROVE  /\ rows[k].ts = netLog[ps[k]].ts /\ netLog[ps[k]].class = class
                        /\ OfThread(rows[k], p, t) <=> Of(ps[k])
      OBVIOUS
    <2>1. ps[k] \in D /\ ps[k] \in Range(ps) /\ rows[k] = Enriched[ps[k]]
      BY <1>3 DEF Range
    <2>2. netLog[ps[k]].class = class /\ netLog[ps[k]].owned
      BY <1>3, <2>1 DEF LogInv
    <2>3. /\ rows[k].ts = netLog[ps[k]].ts
          /\ rows[k].tid = ThreadOf[netLog[ps[k]].link] /\ rows[k].pid = OwnerOf[netLog[ps[k]].link]
      BY <2>1, <2>2, EnrichedFacts
    <2> QED BY <2>2, <2>3 DEF OfThread
  <1>5. Len(s) \in Nat /\ DOMAIN s = 1 .. Len(s) /\ \A i \in 1 .. Len(s) : s[i] \in DOMAIN rows
    BY LenProperties, ElementOfSeq
  <1>6. \A i \in 1 .. Len(s) : c[i] = ps[s[i]] /\ c[i] \in D
    BY <1>3, <1>5
  <1>7. c \in Seq(D) /\ Len(c) = Len(s) /\ DOMAIN c = 1 .. Len(s)
    <2>1. c \in [1 .. Len(s) -> D]
      BY <1>6
    <2> HIDE DEF c, D
    <2> QED BY <1>5, <2>1, FunIsSeq
  <1> HIDE DEF c
  <1>8. Ordered(c, Up)
    <2> SUFFICES ASSUME NEW i \in DOMAIN c, NEW j \in DOMAIN c, i < j PROVE <<c[i], c[j]>> \in Up
      BY DEF Ordered
    <2>1. <<s[i], s[j]>> \in Up /\ s[i] \in DOMAIN ps /\ s[j] \in DOMAIN ps
      BY <1>3, <1>5, <1>7 DEF Ordered
    <2>2. s[i] < s[j]
      BY <2>1 DEF Up
    <2>3. <<ps[s[i]], ps[s[j]]>> \in Up
      BY <1>3, <2>1, <2>2 DEF Ordered
    <2>4. c[i] = ps[s[i]] /\ c[j] = ps[s[j]]
      BY <1>6, <1>7
    <2> QED BY <2>3, <2>4
  <1>9. \A n \in Range(c) : n \in D /\ Of(n)
    <2> SUFFICES ASSUME NEW i \in 1 .. Len(s) PROVE c[i] \in D /\ Of(c[i])
      BY <1>7 DEF Range
    <2>1. s[i] \in Range(s)
      BY <1>5 DEF Range
    <2>2. s[i] \in DOMAIN rows /\ OfThread(rows[s[i]], p, t)
      BY <2>1
    <2> HIDE DEF Of
    <2>3. Of(ps[s[i]])
      BY <1>4, <2>2
    <2> QED BY <1>6, <2>3
  <1>10. \A n \in D : Of(n) => n \in Range(c)
    <2> SUFFICES ASSUME NEW n \in D, Of(n) PROVE n \in Range(c)
      OBVIOUS
    <2>1. n \in Range(ps)
      BY <1>3
    <2>2. PICK k \in DOMAIN ps : n = ps[k]
      BY <2>1 DEF Range
    <2>3. k \in Range(s)
      BY <1>3, <1>4, <2>2
    <2>4. PICK i \in 1 .. Len(s) : k = s[i]
      BY <1>5, <2>3 DEF Range
    <2> QED BY <1>6, <1>7, <2>2, <2>4 DEF Range
  <1>11. Range(c) = Range(left)
    <2> HIDE DEF Of
    <2> QED BY <1>2, <1>9, <1>10
  <1>12. c = left
    <2> HIDE DEF D
    <2> QED BY <1>1, <1>2, <1>7, <1>8, <1>11, IncreasingSame
  <1>13. \A i \in 1 .. Len(s) : rows[s[i]].ts = netLog[left[i]].ts
    BY <1>4, <1>5, <1>6, <1>12
  <1>14. s = << >> <=> left = << >>
    <2>1. s = << >> <=> Len(s) = 0
      BY <1>5, EmptySeq
    <2>2. left = << >> <=> Len(left) = 0
      BY <1>2, EmptySeq
    <2> QED BY <1>7, <1>12, <2>1, <2>2
  <1> QED BY <1>2, <1>7, <1>12, <1>13, <1>14 DEF left

\* What get_connect_latency and get_accept_latency give.
LEMMA LatenciesAreRight ==
  ASSUME LogInv, NEW size \in Nat \ {0}, NEW ask, ask.tool \in Opening
  PROVE  GapsBetween(netLog, Latencies(ask.tool, size, ask), ask)
  <1> DEFINE class == ask.tool
             rows == TableOf(class)
             all == GapsIn(rows, size)
             A == {r \in ToSet(all) : ask.process \in {None, r.pid}}
             table == Latencies(class, size, ask)
  <1>1. table = Select(all, A)
    BY DEF Latencies, Asked
  <1> HIDE DEF table
  <1>2. PICK X : /\ TimedRows(X) /\ rows \in Seq(X)
                 /\ \A m, n \in DOMAIN rows : m < n => rows[m].ts <= rows[n].ts
                 /\ \E ps : Opened(class, rows, ps)
    <2> HIDE DEF class, rows
    <2> QED BY OpenedAre DEF rows, class
  <1>3. PICK ps : Opened(class, rows, ps)
    BY <1>2
  <1> DEFINE Asc(p, t) == Select(ByThread(rows, size), {n \in DOMAIN rows : OfThread(rows[n], p, t)})
  <1> HIDE DEF class, rows
  <1>4. ASSUME NEW p \in Nat, NEW t \in Nat
        PROVE  Between(ByThread(rows, size), all, rows, p, t)
    <2>1. TimedRows(X) /\ rows \in Seq(X) /\ \A m, n \in DOMAIN rows : m < n => rows[m].ts <= rows[n].ts
      BY <1>2
    <2> QED BY <2>1, GapsAreBetween
  <1>5. all \in Seq(GapRows) /\ OfSomeRow(all, rows)
    <2>1. 0 \in Nat
      OBVIOUS
    <2>2. Between(ByThread(rows, size), all, rows, 0, 0)
      BY <1>4, <2>1
    <2> QED BY <2>2 DEF Between
  <1> HIDE DEF all
  <1>6. Range(all) \subseteq GapRows
    <2>1. DOMAIN all = 1 .. Len(all) /\ \A i \in 1 .. Len(all) : all[i] \in GapRows
      BY <1>5, LenProperties, ElementOfSeq
    <2> QED BY <2>1 DEF Range
  <1>7. Range(table) = Range(all) \intersect A /\ ToSet(table) = Range(table) /\ ToSet(all) = Range(all)
    <2>1. Range(Select(all, A)) = Range(all) \intersect A
      <3> HIDE DEF A
      <3> QED BY <1>5, SelectRange
    <2> QED BY <1>1, <2>1 DEF Range, ToSet
  <1>8. ASSUME NEW p, NEW t, NEW s \in Seq(DOMAIN rows), Ordered(s, Up),
               Range(s) = {k \in DOMAIN rows : OfThread(rows[k], p, t)}
        PROVE  LET left == LeftBy(netLog, class, p, t)
               IN /\ Len(left) = Len(s) /\ left \in Seq(DOMAIN netLog)
                  /\ \A i \in 1 .. Len(s) : rows[s[i]].ts = netLog[left[i]].ts
                  /\ s = << >> <=> left = << >>
    <2>1. class \in Opening
      BY DEF class
    <2> QED BY <1>3, <1>8, <2>1, SameRows
  <1>9. ASSUME NEW g \in ToSet(table) PROVE LeftBy(netLog, class, g.pid, g.tid) # << >> /\ ask.process \in {None, g.pid}
    <2>1. g \in Range(all) /\ g \in A /\ g.pid \in Nat /\ g.tid \in Nat
      BY <1>6, <1>7, <1>9 DEF GapRows
    <2>2. PICK n \in DOMAIN rows : OfThread(rows[n], g.pid, g.tid)
      BY <1>5, <2>1 DEF OfSomeRow
    <2> DEFINE p == g.pid
               t == g.tid
               s == Asc(p, t)
    <2>3. s \in Seq(DOMAIN rows) /\ Ordered(s, Up) /\ Range(s) = {k \in DOMAIN rows : OfThread(rows[k], p, t)}
      <3>1. Between(ByThread(rows, size), all, rows, p, t)
        BY <1>4, <2>1
      <3> QED BY <3>1 DEF Between
    <2>4. n \in Range(s)
      BY <2>2, <2>3
    <2> HIDE DEF s
    <2>5. s # << >>
      BY <2>4, EmptyFacts
    <2>6. LeftBy(netLog, class, p, t) # << >>
      BY <1>8, <2>3, <2>5
    <2>7. ask.process \in {None, g.pid}
      BY <2>1
    <2> QED BY <2>6, <2>7
  <1>10. ASSUME NEW l \in Links, ask.process \in {None, OwnerOf[l]}, LeftBy(netLog, class, OwnerOf[l], ThreadOf[l]) # << >>
         PROVE  LET left == LeftBy(netLog, class, OwnerOf[l], ThreadOf[l])
                    gaps == Select(table, {g \in ToSet(table) : g.pid = OwnerOf[l] /\ g.tid = ThreadOf[l]})
                IN /\ Len(gaps) = Len(left) - 1
                   /\ \A n \in DOMAIN gaps : gaps[n].gap = netLog[left[n + 1]].ts - netLog[left[n]].ts
    <2> DEFINE p == OwnerOf[l]
               t == ThreadOf[l]
               left == LeftBy(netLog, class, p, t)
               B == {g \in ToSet(table) : g.pid = p /\ g.tid = t}
               gaps == Select(table, B)
               G == {g \in GapRows : OfThread(g, p, t)}
               s == Asc(p, t)
    <2>1. p \in Nat /\ t \in Nat
      BY NetworkEventsAssumption
    <2>2. gaps = Select(all, A \intersect B)
      <3> HIDE DEF A, B
      <3> QED BY <1>1, <1>5, SelectTwice
    <2>3. \A g \in Range(all) : g \in A \intersect B <=> g \in G
      <3> SUFFICES ASSUME NEW g \in Range(all) PROVE g \in A \intersect B <=> g \in G
        OBVIOUS
      <3>1. g \in GapRows /\ (g \in A <=> ask.process \in {None, g.pid})
        BY <1>6, <1>7
      <3>2. g \in B <=> g \in A /\ g.pid = p /\ g.tid = t
        BY <1>7
      <3>3. g \in G <=> g.pid = p /\ g.tid = t
        BY <3>1 DEF OfThread
      <3>4. g.pid = p => g \in A
        BY <1>10, <3>1
      <3> HIDE DEF A, B, G, p, t
      <3> QED BY <3>2, <3>3, <3>4
    <2>4. gaps = GapsOf(all, p, t)
      <3>1. Select(all, A \intersect B) = Select(all, G)
        <4> DEFINE U == A \intersect B
        <4> HIDE DEF A, B, G
        <4>1. \A g \in Range(all) : g \in U <=> g \in G
          BY <2>3
        <4> HIDE DEF U
        <4>2. Select(all, U) = Select(all, G)
          BY <1>5, <4>1, SelectSame
        <4> QED BY <4>2 DEF U
      <3> QED BY <2>2, <3>1 DEF GapsOf
    <2>5. /\ s \in Seq(DOMAIN rows) /\ Ordered(s, Up) /\ Range(s) = {k \in DOMAIN rows : OfThread(rows[k], p, t)}
          /\ Len(gaps) = IF s = << >> THEN 0 ELSE Len(s) - 1
          /\ \A i \in 1 .. Len(gaps) : gaps[i].gap = rows[s[i + 1]].ts - rows[s[i]].ts
      <3> HIDE DEF gaps, p, t
      <3>1. Between(ByThread(rows, size), all, rows, p, t)
        BY <1>4, <2>1
      <3> QED BY <2>4, <3>1 DEF Between
    <2>6. gaps \in Seq(GapRows)
      <3> HIDE DEF B, A
      <3> QED BY <1>1, <1>5, SelectedSeq
    <2>7. left # << >>
      BY <1>10
    <2> HIDE DEF s, gaps, left, p, t
    <2>8. /\ Len(left) = Len(s) /\ (s = << >> <=> left = << >>)
          /\ \A i \in 1 .. Len(s) : rows[s[i]].ts = netLog[left[i]].ts
      BY <1>8, <2>5 DEF left
    <2>9. Len(gaps) = Len(left) - 1 /\ Len(s) \in Nat
      BY <2>5, <2>7, <2>8, LenProperties
    <2>10. DOMAIN gaps = 1 .. Len(gaps)
      BY <2>6, LenProperties
    <2>11. ASSUME NEW n \in DOMAIN gaps PROVE gaps[n].gap = netLog[left[n + 1]].ts - netLog[left[n]].ts
      <3>1. n \in 1 .. Len(gaps) /\ n \in 1 .. Len(s) /\ n + 1 \in 1 .. Len(s)
        BY <2>8, <2>9, <2>10
      <3> QED BY <2>5, <2>8, <3>1
    <2> QED BY <2>9, <2>11 DEF gaps, left, p, t
  <1> QED BY <1>9, <1>10 DEF GapsBetween, class, table

\* What is answered stays, and the log with it.
LEMMA GapsStep ==
  ASSUME LogInv, GapsExact, [NetNext]_netVars PROVE GapsExact'
  <1>1. CASE UNCHANGED netVars
    <2>1. netLog' = netLog /\ netAnswer' = netAnswer
      BY <1>1 DEF netVars
    <2> QED BY <2>1 DEF GapsExact, NetAnswered
  <1>2. ASSUME NEW l \in Links, NEW owned \in BOOLEAN, NEW class \in NetRowClasses, Leaves(l, class, owned)
        PROVE  GapsExact'
    BY <1>2 DEF Leaves, GapsExact, NetAnswered
  <1>3. CASE NetTimePasses
    BY <1>3 DEF NetTimePasses, GapsExact, NetAnswered
  <1>4. ASSUME NEW ask \in NetAsks, NEW size \in RowBatches, AskNetwork(ask, size) PROVE GapsExact'
    <2> DEFINE table == NetReply(ask, size)
    <2>1. netAnswer' = [ask |-> ask, table |-> table] /\ netLog' = netLog
      BY <1>4 DEF AskNetwork
    <2> HIDE DEF table
    <2> SUFFICES ASSUME ask.tool \in Opening PROVE GapsExact'
      BY <2>1 DEF GapsExact, NetAnswered
    <2>2. table = Latencies(ask.tool, size, ask)
      BY DEF table, NetReply, Opening
    <2>3. size \in Nat \ {0}
      BY NetworkEventsAssumption
    <2>4. GapsBetween(netLog, table, ask)
      BY <2>2, <2>3, LatenciesAreRight
    <2>5. netAnswer'.ask = ask /\ netAnswer'.table = table
      BY <2>1
    <2> QED BY <2>1, <2>4, <2>5 DEF GapsExact
  <1> QED BY <1>1, <1>2, <1>3, <1>4 DEF NetNext, NetRowClasses

\* The gaps that get_connect_latency and get_accept_latency give are those between
\* the rows of a thread and no others, for traces of any rows of any connections and
\* batches of any size.
THEOREM GapsAreExact == NetSpec => []GapsExact
  <1> DEFINE I == LogInv /\ GapsExact
  <1>1. NetInit => I
    BY EmptySeq, EmptyFacts DEF NetInit, LogInv, GapsExact, NetAnswered
  <1>2. I /\ [NetNext]_netVars => I'
    BY LogStep, GapsStep
  <1>3. I => GapsExact
    OBVIOUS
  <1> QED BY <1>1, <1>2, <1>3, PTL DEF NetSpec

-----------------------------------------------------------------------------
(* HTTP requests and QUIC connections *)

\* What the log of a trace may hold.
AppData == Groups \union QuicPackets \union AckDelays \union QuicProcesses \union {None}
AppEvents ==
  [class : DOMAIN Follows, id : Requests \union Connections, ts : Nat, data : AppData, missing : BOOLEAN]

AppTypeOK ==
  /\ appClock \in Nat \ {0}
  /\ appLog \in Seq(AppEvents)

\* An event is of a request or of a connection, with its data.
EventsTold ==
  \A n \in DOMAIN appLog :
    /\ appLog[n].class \in HttpClasses => appLog[n].id \in Requests
    /\ appLog[n].class \notin HttpClasses => appLog[n].id \in Connections
    /\ appLog[n].class = "packet" => appLog[n].data \in QuicPackets
    /\ appLog[n].class = "ack" => appLog[n].data \in AckDelays

\* Events are logged as time goes.
LoggedInTime ==
  /\ \A n \in DOMAIN appLog : appLog[n].ts <= appClock /\ appLog[n].ts >= 1
  /\ \A m, n \in DOMAIN appLog : m <= n => appLog[m].ts <= appLog[n].ts

\* A life begins once, with its first event; delivery follows the arrival, and
\* nothing a close.
LivesGoOn ==
  /\ \A m, n \in DOMAIN appLog : m < n /\ appLog[m].id = appLog[n].id =>
       /\ appLog[n].class \notin {"recv", "created"}
       /\ appLog[n].class = "deliver" => appLog[m].class = "recv"
       /\ appLog[m].class # "close"
  /\ \A n \in DOMAIN appLog : appLog[n].class \notin HttpClasses =>
       \E m \in 1 .. n : appLog[m].id = appLog[n].id /\ appLog[m].class = "created"

AppLogInv == AppTypeOK /\ EventsTold /\ LoggedInTime /\ LivesGoOn

AnswerOf(ask) ==
  CASE ask.tool = "requests" -> HttpRequests(ask)
    [] ask.tool = "depth" -> HttpQueueDepth(ask)
    [] ask.tool = "connections" -> QuicConnections(ask)
    [] ask.tool = "cids" -> CidDistribution(ask)
    [] ask.tool = "acks" -> AckPercentiles(ask)

AnswerInv == appAnswer = None \/ \E ask \in AppAsks : appAnswer = AnswerOf(ask)

\* How far a request or connection got is the class of its last event.
LEMMA ReachedFacts ==
  ASSUME AppTypeOK, NEW id
  PROVE  \/ EventsOf(id) = {} /\ Reached(id) = "new"
         \/ \E n \in DOMAIN appLog :
              /\ appLog[n].id = id /\ Reached(id) = appLog[n].class
              /\ \A m \in DOMAIN appLog : appLog[m].id = id => m <= n
  <1>1. DOMAIN appLog = 1 .. Len(appLog) /\ Len(appLog) \in Nat
    BY DEF AppTypeOK
  <1>2. ASSUME EventsOf(id) # {}
        PROVE  Max(EventsOf(id)) \in EventsOf(id) /\ \A x \in EventsOf(id) : x <= Max(EventsOf(id))
    <2>1. EventsOf(id) \in SUBSET Nat /\ \A x \in EventsOf(id) : x <= Len(appLog)
      BY <1>1 DEF EventsOf
    <2> QED BY <1>1, <1>2, <2>1, MaxFacts
  <1> QED BY <1>2 DEF Reached, EventsOf

\* What may follow what: nothing a close, a delivery only the arrival, and of a
\* connection nothing but its creation comes first.
LEMMA FollowsAre ==
  /\ DOMAIN Follows = {"recv", "deliver", "send", "close", "created", "packet", "sent", "ack", "closed"}
  /\ \A class \in DOMAIN Follows : "new" \in Follows[class] <=> class \in {"recv", "created"}
  /\ \A class \in {"recv", "created"} : Follows[class] = {"new"}
  /\ Follows["deliver"] = {"recv"}
  /\ \A class \in DOMAIN Follows : Follows[class] \subseteq DOMAIN Follows \union {"new"}
  /\ \A class \in DOMAIN Follows : "close" \notin Follows[class]
  /\ \A class \in DOMAIN Follows \ HttpClasses : class # "created" =>
       \A other \in HttpClasses \union {"new"} : other \notin Follows[class]
  BY DEF Follows, QuicOpen, HttpClasses

\* An event that happens keeps the log as lives are.
LEMMA LogHappens ==
  ASSUME AppLogInv, NEW class \in DOMAIN Follows, NEW id \in Requests \union Connections,
         NEW missing \in BOOLEAN, Happens(class, id, missing)
  PROVE  AppLogInv'
  <1>1. PICK data \in Details(class, id) :
          appLog' = Append(appLog, [class |-> class, id |-> id, ts |-> appClock, data |-> data,
                                    missing |-> missing])
    BY DEF Happens
  <1> DEFINE e == [class |-> class, id |-> id, ts |-> appClock, data |-> data, missing |-> missing]
             N == Len(appLog)
  <1>2. data \in AppData /\ (class = "packet" => data \in QuicPackets) /\ (class = "ack" => data \in AckDelays)
    BY DEF Details, AppData
  <1>3. appClock' = appClock /\ appClock \in Nat \ {0}
    BY DEF Happens, AppLogInv, AppTypeOK
  <1>4. e \in AppEvents
    BY <1>2, <1>3 DEF AppEvents
  <1>5. /\ appLog \in Seq(AppEvents) /\ N \in Nat /\ DOMAIN appLog = 1 .. N
        /\ appLog' \in Seq(AppEvents) /\ DOMAIN appLog' = 1 .. N + 1 /\ Len(appLog') = N + 1
        /\ \A n \in 1 .. N : appLog'[n] = appLog[n] /\ appLog[n] \in AppEvents
        /\ appLog'[N + 1] = e
    <2>1. appLog \in Seq(AppEvents)
      BY DEF AppLogInv, AppTypeOK
    <2> HIDE DEF e
    <2> QED BY <1>1, <1>4, <2>1 DEF e
  <1>6. AppTypeOK'
    BY <1>3, <1>5 DEF AppTypeOK, AppEvents, AppData
  <1>7. e.class = class /\ e.id = id /\ e.ts = appClock /\ e.data = data
    OBVIOUS
  <1>8. \A n \in 1 .. N + 1 : n \in 1 .. N \/ n = N + 1
    BY <1>5
  <1>9. id \in IF class \in HttpClasses THEN Requests ELSE Connections
    BY DEF Happens
  <1>10. EventsTold'
    <2> SUFFICES ASSUME NEW n \in DOMAIN appLog'
                 PROVE /\ appLog'[n].class \in HttpClasses => appLog'[n].id \in Requests
                       /\ appLog'[n].class \notin HttpClasses => appLog'[n].id \in Connections
                       /\ appLog'[n].class = "packet" => appLog'[n].data \in QuicPackets
                       /\ appLog'[n].class = "ack" => appLog'[n].data \in AckDelays
      BY DEF EventsTold, HttpClasses
    <2> HIDE DEF e
    <2>1. CASE n \in 1 .. N
      BY <1>5, <2>1 DEF AppLogInv, EventsTold
    <2>2. CASE n = N + 1
      BY <1>2, <1>5, <1>7, <1>9, <2>2
    <2> QED BY <1>5, <1>8, <2>1, <2>2
  <1>11. LoggedInTime'
    <2> HIDE DEF e
    <2>1. \A n \in 1 .. N : appLog[n].ts \in Nat /\ appLog[n].ts <= appClock /\ appLog[n].ts >= 1
      BY <1>5 DEF AppLogInv, LoggedInTime, AppEvents
    <2>2. \A n \in 1 .. N + 1 : appLog'[n].ts <= appClock /\ appLog'[n].ts >= 1
      BY <1>3, <1>5, <1>7, <1>8, <2>1
    <2>3. \A m, n \in 1 .. N + 1 : m <= n => appLog'[m].ts <= appLog'[n].ts
      <3> TAKE m, n \in 1 .. N + 1
      <3>1. CASE n \in 1 .. N
        BY <1>5, <3>1 DEF AppLogInv, LoggedInTime
      <3>2. CASE n = N + 1
        BY <1>5, <1>7, <2>2, <3>2
      <3> QED BY <1>8, <3>1, <3>2
    <2> QED BY <1>3, <1>5, <2>2, <2>3 DEF LoggedInTime
  <1>12. Reached(id) \in Follows[class]
    BY DEF Happens
  <1>13. AppTypeOK
    BY DEF AppLogInv
  <1> DEFINE Fitting(n, m) ==
               /\ n.class \notin {"recv", "created"}
               /\ n.class = "deliver" => m.class = "recv"
               /\ m.class # "close"
  <1>14. \A m, n \in 1 .. N : m < n /\ appLog[m].id = appLog[n].id => Fitting(appLog[n], appLog[m])
    BY <1>5 DEF AppLogInv, LivesGoOn
  <1>15. \A m \in 1 .. N : appLog[m].id = id => Fitting(e, appLog[m])
    <2> TAKE m \in 1 .. N
    <2> HAVE appLog[m].id = id
    <2>1. EventsOf(id) # {}
      BY <1>5 DEF EventsOf
    <2>2. PICK k \in DOMAIN appLog :
              /\ appLog[k].id = id /\ Reached(id) = appLog[k].class
              /\ \A l \in DOMAIN appLog : appLog[l].id = id => l <= k
      BY <1>13, <2>1, ReachedFacts
    <2>3. k \in 1 .. N /\ m <= k /\ appLog[k].class \in DOMAIN Follows /\ appLog[k].class \in Follows[class]
      BY <1>5, <1>12, <2>2 DEF AppEvents
    <2>4. m = k \/ Fitting(appLog[k], appLog[m])
      BY <1>5, <1>14, <2>2, <2>3
    <2>5. "new" \notin DOMAIN Follows
      BY FollowsAre
    <2>6. class \notin {"recv", "created"}
      BY <2>3, <2>5, FollowsAre
    <2>7. class = "deliver" => appLog[m].class = "recv"
      BY <2>3, <2>4, FollowsAre
    <2>8. appLog[m].class # "close"
      BY <2>3, <2>4, FollowsAre
    <2> QED BY <1>7, <2>6, <2>7, <2>8
  <1>16. \A m, n \in 1 .. N + 1 : m < n /\ appLog'[m].id = appLog'[n].id => Fitting(appLog'[n], appLog'[m])
    <2> TAKE m, n \in 1 .. N + 1
    <2> HAVE m < n /\ appLog'[m].id = appLog'[n].id
    <2>1. m \in 1 .. N
      BY <1>5
    <2> HIDE DEF e, Fitting
    <2>2. CASE n \in 1 .. N
      BY <1>5, <1>14, <2>1, <2>2
    <2>3. CASE n = N + 1
      BY <1>5, <1>7, <1>15, <2>1, <2>3
    <2> QED BY <1>8, <2>2, <2>3
  <1>17. \A n \in 1 .. N + 1 : appLog'[n].class \notin HttpClasses =>
           \E m \in 1 .. n : appLog'[m].id = appLog'[n].id /\ appLog'[m].class = "created"
    <2> TAKE n \in 1 .. N + 1
    <2> HAVE appLog'[n].class \notin HttpClasses
    <2> HIDE DEF e
    <2>1. CASE n \in 1 .. N
      <3>1. PICK m \in 1 .. n : appLog[m].id = appLog[n].id /\ appLog[m].class = "created"
        BY <1>5, <2>1 DEF AppLogInv, LivesGoOn
      <3> QED BY <1>5, <2>1, <3>1
    <2>2. CASE n = N + 1 /\ class = "created"
      BY <1>5, <1>7, <2>2
    <2>3. CASE n = N + 1 /\ class # "created"
      <3>1. Reached(id) \notin HttpClasses \union {"new"}
        BY <1>5, <1>7, <1>12, <2>3, FollowsAre
      <3>2. PICK k \in DOMAIN appLog : appLog[k].id = id /\ Reached(id) = appLog[k].class
        BY <1>13, <3>1, ReachedFacts
      <3>3. PICK m \in 1 .. k : appLog[m].id = id /\ appLog[m].class = "created"
        BY <3>1, <3>2 DEF AppLogInv, LivesGoOn
      <3> QED BY <1>5, <1>7, <2>3, <3>2, <3>3
    <2> QED BY <1>8, <2>1, <2>2, <2>3
  <1>18. LivesGoOn'
    BY <1>5, <1>16, <1>17 DEF LivesGoOn, HttpClasses
  <1> QED BY <1>6, <1>10, <1>11, <1>18 DEF AppLogInv

\* So does time that passes.
LEMMA LogStaysSo ==
  ASSUME AppLogInv, appLog' = appLog, appClock' = appClock \/ appClock' = appClock + 1
  PROVE  AppLogInv'
  <1>1. AppTypeOK'
    BY DEF AppLogInv, AppTypeOK, AppEvents, AppData
  <1>2. EventsTold' /\ LivesGoOn'
    BY DEF AppLogInv, EventsTold, LivesGoOn, HttpClasses
  <1>3. LoggedInTime'
    <2>1. \A n \in DOMAIN appLog : appLog[n].ts \in Nat
      <3>1. appLog \in Seq(AppEvents) /\ \A e \in AppEvents : e.ts \in Nat
        BY DEF AppLogInv, AppTypeOK, AppEvents
      <3> QED BY <3>1
    <2>2. appClock \in Nat
      BY DEF AppLogInv, AppTypeOK
    <2> QED BY <2>1, <2>2 DEF AppLogInv, LoggedInTime
  <1> QED BY <1>1, <1>2, <1>3 DEF AppLogInv

\* The rows of the tables are those of the log.
LEMMA SameAppRows ==
  ASSUME appLog' = appLog
  PROVE  /\ \A c : EventRows(c)' = EventRows(c) /\ Ids(c)' = Ids(c)
         /\ \A c, id : EventRowsOf(c, id)' = EventRowsOf(c, id)
         /\ \A cs : TooMany(cs)' = TooMany(cs)
         /\ \A c, id : FirstTime(c, id)' = FirstTime(c, id)
  <1>1. \A c : EventRows(c)' = EventRows(c)
    BY DEF EventRows
  <1>2. \A c : Ids(c)' = Ids(c)
    BY <1>1 DEF Ids
  <1>3. \A c, id : EventRowsOf(c, id)' = EventRowsOf(c, id)
    BY <1>1 DEF EventRowsOf
  <1>4. \A cs : TooMany(cs)' = TooMany(cs)
    BY <1>1 DEF TooMany
  <1>5. \A c, id : FirstTime(c, id)' = FirstTime(c, id)
    BY <1>3 DEF FirstTime
  <1> QED BY <1>1, <1>2, <1>3, <1>4, <1>5

\* What get_http_requests says of one log is one answer,
LEMMA SameHttpRequests ==
  ASSUME appLog' = appLog, NEW ask PROVE HttpRequests(ask)' = HttpRequests(ask)
  <1>1. \A r : RequestRow(r)' = RequestRow(r)
    BY SameAppRows DEF RequestRow, Elapsed
  <1> DEFINE mine == {n \in EventRows("recv") : ask.of \in {None, appLog[n].data}}
             table == [id \in {appLog[n].id : n \in mine} |->
                         RequestRow(appLog[CHOOSE n \in mine : appLog[n].id = id])]
             flying == {id \in DOMAIN table : table[id].sent = None /\ table[id].closed \in {None, 0}}
  <1>2. mine' = mine
    BY SameAppRows
  <1>3. table' = table
    <2> HIDE DEF mine
    <2> QED BY <1>1, <1>2
  <1>4. InFlight(table)' = InFlight(table)
    <2> HIDE DEF table
    <2> QED BY <1>3 DEF InFlight
  <1>5. TooMany(HttpClasses)' = TooMany(HttpClasses)
    BY SameAppRows
  <1>6. HttpRequests(ask) = IF TooMany(HttpClasses) \/ mine = {} THEN [ask |-> ask, table |-> None]
                            ELSE [ask |-> ask, table |-> table, inFlight |-> InFlight(table)]
    BY DEF HttpRequests
  <1>7. HttpRequests(ask)' = IF TooMany(HttpClasses)' \/ mine' = {} THEN [ask |-> ask, table |-> None]
                             ELSE [ask |-> ask, table |-> table', inFlight |-> InFlight(table)']
    BY DEF HttpRequests
  <1> HIDE DEF mine, table
  <1> QED BY <1>2, <1>3, <1>4, <1>5, <1>6, <1>7

\* and what get_http_queue_depth says,
LEMMA SameQueueDepth ==
  ASSUME appLog' = appLog, NEW ask PROVE HttpQueueDepth(ask)' = HttpQueueDepth(ask)
  <1>1. \A id : CompletedAt(id)' = CompletedAt(id)
    BY SameAppRows DEF CompletedAt
  <1>2. \A g : Delivered(g)' = Delivered(g)
    BY SameAppRows DEF Delivered
  <1>3. \A g : Steps(g)' = Steps(g)
    BY <1>1, <1>2, SameAppRows DEF Steps
  <1>4. \A g : DepthOf(g)' = DepthOf(g)
    <2> TAKE g
    <2>1. StepsInOrder(g)' = StepsInOrder(g)
      BY <1>3 DEF StepsInOrder
    <2> QED BY <1>3, <2>1 DEF DepthOf
  <1> QED BY <1>4, SameAppRows DEF HttpQueueDepth

\* whose connections a filter keeps,
LEMMA SameOfTheProcess ==
  ASSUME appLog' = appLog, NEW ask, NEW cs PROVE OfTheProcess(ask, cs)' = OfTheProcess(ask, cs)
  <1> DEFINE named == {id \in Ids("created") : \E n \in EventRowsOf("created", id) : appLog[n].data = ask.of}
             all == UNION {Ids(c) : c \in cs}
  <1>1. named' = named
    BY SameAppRows
  <1>2. all' = all
    BY SameAppRows
  <1>3. OfTheProcess(ask, cs) = IF ask.of # None THEN named ELSE all
    BY DEF OfTheProcess
  <1>4. OfTheProcess(ask, cs)' = IF ask.of # None THEN named' ELSE all'
    BY DEF OfTheProcess
  <1> HIDE DEF named, all
  <1> QED BY <1>1, <1>2, <1>3, <1>4

\* what get_quic_connections says,
LEMMA SameQuicConnections ==
  ASSUME appLog' = appLog, NEW ask PROVE QuicConnections(ask)' = QuicConnections(ask)
  <1>1. \A cs : OfTheProcess(ask, cs)' = OfTheProcess(ask, cs)
    BY SameOfTheProcess
  <1>2. \A id : Numbers(id)' = Numbers(id)
    BY SameAppRows DEF Numbers
  <1>3. \A id : ConnectionRow(id)' = ConnectionRow(id)
    BY <1>2, SameAppRows DEF ConnectionRow, Elapsed
  <1> QED BY <1>1, <1>3, SameAppRows DEF QuicConnections

\* the processors and buckets that are counted,
LEMMA SameCids ==
  ASSUME appLog' = appLog
  PROVE  /\ \A ids : CpusOf(ids)' = CpusOf(ids)
         /\ CpuCount' = CpuCount
         /\ \A id : BucketOf(id)' = BucketOf(id)
  <1>1. \A ids : CpusOf(ids)' = CpusOf(ids)
    BY SameAppRows DEF CpusOf
  <1>2. CpuCount' = CpuCount
    BY <1>1, SameAppRows DEF CpuCount
  <1> QED BY <1>1, <1>2, SameAppRows DEF BucketOf

\* what get_quic_cid_distribution says,
LEMMA SameCidDistribution ==
  ASSUME appLog' = appLog, NEW ask PROVE CidDistribution(ask)' = CidDistribution(ask)
  <1> DEFINE ids == Ids("created") \union Ids("packet")
             In(b) == {id \in ids : BucketOf(id) = b}
             table == [b \in {BucketOf(id) : id \in ids} |-> [connections |-> In(b), cpus |-> CpusOf(In(b))]]
  <1>1. ids' = ids
    BY SameAppRows
  <1>2. \A b : In(b)' = In(b)
    <2> HIDE DEF ids
    <2> QED BY <1>1, SameCids
  <1>3. \A b : CpusOf(In(b))' = CpusOf(In(b))
    <2> TAKE b
    <2> DEFINE one == In(b)
    <2>1. one' = one
      BY <1>2
    <2> HIDE DEF In
    <2>2. CpusOf(one)' = CpusOf(one)
      <3> HIDE DEF one
      <3> QED BY <2>1, SameAppRows DEF CpusOf
    <2> QED BY <2>2
  <1>4. table' = table
    <2> HIDE DEF ids, In
    <2> QED BY <1>1, <1>2, <1>3, SameCids
  <1>5. TooMany({"created", "packet"})' = TooMany({"created", "packet"})
    BY SameAppRows
  <1>6. CidDistribution(ask) = IF TooMany({"created", "packet"}) \/ ids = {} THEN [ask |-> ask, table |-> None]
                               ELSE [ask |-> ask, table |-> table]
    BY DEF CidDistribution
  <1>7. CidDistribution(ask)' = IF TooMany({"created", "packet"})' \/ ids' = {} THEN [ask |-> ask, table |-> None]
                                ELSE [ask |-> ask, table |-> table']
    BY DEF CidDistribution
  <1> HIDE DEF ids, table
  <1> QED BY <1>1, <1>4, <1>5, <1>6, <1>7

\* what get_quic_ack_delays says,
LEMMA SamePercentiles ==
  ASSUME appLog' = appLog, NEW ask PROVE AckPercentiles(ask)' = AckPercentiles(ask)
  <1>1. \A cs : OfTheProcess(ask, cs)' = OfTheProcess(ask, cs)
    BY SameOfTheProcess
  <1>3. \A id, q : NearestRank(EventRowsOf("ack", id), q)' = NearestRank(EventRowsOf("ack", id), q)
    <2> TAKE id, q
    <2> DEFINE acks == EventRowsOf("ack", id)
               smaller == {p \in acks \X acks : SmallerDelay(p[1], p[2])}
               ordered == SetInOrder(acks, smaller)
    <2>1. acks' = acks
      BY SameAppRows
    <2> HIDE DEF acks
    <2>2. smaller' = smaller
      BY <2>1 DEF SmallerDelay
    <2> HIDE DEF smaller
    <2>3. ordered' = ordered
      BY <2>1, <2>2
    <2> HIDE DEF ordered
    <2>4. NearestRank(acks, q) = appLog[ordered[RankOf(Cardinality(acks), q)]].data
      BY DEF NearestRank, ordered, smaller
    <2>5. NearestRank(acks, q)' = appLog'[ordered'[RankOf(Cardinality(acks'), q)]].data
      BY DEF NearestRank, ordered, smaller, RankOf
    <2>6. NearestRank(acks, q)' = NearestRank(acks, q)
      BY <2>1, <2>3, <2>4, <2>5
    <2> QED BY <2>6 DEF acks
  <1> DEFINE mine == OfTheProcess(ask, {"ack"}) \intersect Ids("ack")
             table == [id \in mine |-> [q \in Shares |-> NearestRank(EventRowsOf("ack", id), q)]]
  <1>4. mine' = mine
    BY <1>1, SameAppRows
  <1>5. table' = table
    <2> HIDE DEF mine
    <2> QED BY <1>3, <1>4
  <1>6. TooMany({"created", "ack"})' = TooMany({"created", "ack"})
    BY SameAppRows
  <1>7. AckPercentiles(ask) = IF TooMany({"created", "ack"}) \/ mine = {} THEN [ask |-> ask, table |-> None]
                              ELSE [ask |-> ask, table |-> table]
    BY DEF AckPercentiles
  <1>8. AckPercentiles(ask)' = IF TooMany({"created", "ack"})' \/ mine' = {} THEN [ask |-> ask, table |-> None]
                               ELSE [ask |-> ask, table |-> table']
    BY DEF AckPercentiles
  <1> HIDE DEF mine, table
  <1> QED BY <1>4, <1>5, <1>6, <1>7, <1>8

\* and so what each tool says.
LEMMA SameAnswer ==
  ASSUME appLog' = appLog, NEW ask PROVE AnswerOf(ask)' = AnswerOf(ask)
  BY SameHttpRequests, SameQueueDepth, SameQuicConnections, SameCidDistribution, SamePercentiles DEF AnswerOf

\* A trace begins with no event and no answer.
LEMMA AppInitInv == AppInit => AppLogInv /\ AnswerInv
  <1> SUFFICES ASSUME AppInit PROVE AppLogInv /\ AnswerInv
    OBVIOUS
  <1>1. appLog = << >> /\ appClock = 1 /\ appAnswer = None /\ DOMAIN appLog = {}
    BY DEF AppInit
  <1>2. AppTypeOK
    BY <1>1 DEF AppTypeOK
  <1> QED BY <1>1, <1>2 DEF AppLogInv, EventsTold, LoggedInTime, LivesGoOn, AnswerInv

\* Every step keeps the log as lives are, and the answer that of its question.
LEMMA AppStep == AppLogInv /\ AnswerInv /\ [AppNext]_appVars => AppLogInv' /\ AnswerInv'
  <1> SUFFICES ASSUME AppLogInv, AnswerInv, [AppNext]_appVars PROVE AppLogInv' /\ AnswerInv'
    OBVIOUS
  <1>1. CASE \E class \in DOMAIN Follows, id \in Requests \union Connections, missing \in BOOLEAN :
               Happens(class, id, missing)
    <2>1. AppLogInv'
      BY <1>1, LogHappens
    <2>2. appAnswer = None /\ appAnswer' = appAnswer
      BY <1>1 DEF Happens
    <2> QED BY <2>1, <2>2 DEF AnswerInv
  <1>2. CASE AppTimePasses
    <2>1. appLog' = appLog /\ appClock' = appClock + 1 /\ appAnswer = None /\ appAnswer' = appAnswer
      BY <1>2 DEF AppTimePasses
    <2> QED BY <2>1, LogStaysSo DEF AnswerInv
  <1>3. CASE \E ask \in AppAsks : AskApp(ask)
    <2>1. PICK ask \in AppAsks : AskApp(ask)
      BY <1>3
    <2>2. appLog' = appLog /\ appClock' = appClock
      BY <2>1 DEF AskApp
    <2>3. appAnswer' = AnswerOf(ask)
      BY <2>1 DEF AskApp, AnswerOf
    <2>4. AnswerOf(ask)' = AnswerOf(ask)
      BY <2>2, SameAnswer
    <2>5. AnswerInv'
      BY <2>1, <2>3, <2>4 DEF AnswerInv
    <2> QED BY <2>2, <2>5, LogStaysSo
  <1>4. CASE UNCHANGED appVars
    <2>1. appLog' = appLog /\ appClock' = appClock /\ appAnswer' = appAnswer
      BY <1>4 DEF appVars
    <2>2. \A ask : AnswerOf(ask)' = AnswerOf(ask)
      BY <2>1, SameAnswer
    <2>3. AnswerInv'
      BY <2>1, <2>2 DEF AnswerInv
    <2> QED BY <2>1, <2>3, LogStaysSo
  <1> QED BY <1>1, <1>2, <1>3, <1>4 DEF AppNext

\* The log is of lives that go on as those of requests and connections do, and the
\* answer is what the tool says of it, for any requests, connections and questions.
THEOREM InductiveApp == AppSpec => [](AppLogInv /\ AnswerInv)
  <1>1. AppInit => AppLogInv /\ AnswerInv
    BY AppInitInv
  <1>2. AppLogInv /\ AnswerInv /\ [AppNext]_appVars => (AppLogInv /\ AnswerInv)'
    BY AppStep
  <1> QED BY <1>1, <1>2, PTL DEF AppSpec

\* Every event has a time, a class, and is in the trace or not.
LEMMA EventFacts ==
  ASSUME AppLogInv
  PROVE  /\ Len(appLog) \in Nat /\ DOMAIN appLog = 1 .. Len(appLog)
         /\ \A n \in DOMAIN appLog :
              /\ n \in Nat /\ appLog[n] \in AppEvents /\ appLog[n].ts \in Nat /\ appLog[n].missing \in BOOLEAN
              /\ appLog[n].class \in DOMAIN Follows
  <1>1. appLog \in Seq(AppEvents)
    BY DEF AppLogInv, AppTypeOK
  <1>2. \A e \in AppEvents : e.ts \in Nat /\ e.missing \in BOOLEAN /\ e.class \in DOMAIN Follows
    BY DEF AppEvents
  <1> QED BY <1>1, <1>2

\* Happened is the time of the first event.
LEMMA HappenedIs ==
  ASSUME AppLogInv, NEW class, NEW id
  PROVE  \/ Happened(class, id) = None /\ \A n \in DOMAIN appLog : ~(appLog[n].id = id /\ appLog[n].class = class)
         \/ \E n \in DOMAIN appLog :
              /\ appLog[n].id = id /\ appLog[n].class = class /\ Happened(class, id) = appLog[n].ts
              /\ \A m \in DOMAIN appLog : appLog[m].id = id /\ appLog[m].class = class => n <= m
  <1> DEFINE mine == {n \in EventsOf(id) : appLog[n].class = class}
  <1>1. mine \in SUBSET Nat
    BY EventFacts DEF EventsOf
  <1>2. Happened(class, id) = IF mine = {} THEN None ELSE appLog[Min(mine)].ts
    BY DEF Happened
  <1>3. \A n : n \in mine <=> n \in DOMAIN appLog /\ appLog[n].id = id /\ appLog[n].class = class
    BY DEF EventsOf
  <1> HIDE DEF mine
  <1>4. CASE mine = {}
    BY <1>2, <1>3, <1>4
  <1>5. CASE mine # {}
    <2>1. Min(mine) \in mine /\ \A x \in mine : Min(mine) <= x
      BY <1>1, <1>5, MinFacts
    <2> QED BY <1>2, <1>3, <1>5, <2>1
  <1> QED BY <1>4, <1>5

\* What the rows of one all of whose events are there say happened first, did.
LEMMA FirstTimeIs ==
  ASSUME AppLogInv, NEW class, NEW id, Complete(id)
  PROVE  FirstTime(class, id) = Happened(class, id)
  <1> DEFINE rows == EventRowsOf(class, id)
             T == {appLog[n].ts : n \in rows}
  <1>1. \A n : n \in rows <=> n \in DOMAIN appLog /\ appLog[n].id = id /\ appLog[n].class = class
    BY DEF EventRowsOf, EventRows, Complete, EventsOf
  <1>2. FirstTime(class, id) = IF rows = {} THEN None ELSE Min(T)
    BY DEF FirstTime
  <1>3. T \in SUBSET Nat
    BY <1>1, EventFacts
  <1> HIDE DEF rows
  <1>4. CASE rows = {}
    BY <1>1, <1>2, <1>4, HappenedIs
  <1>5. CASE rows # {}
    <2>1. PICK n \in DOMAIN appLog :
              /\ appLog[n].id = id /\ appLog[n].class = class /\ Happened(class, id) = appLog[n].ts
              /\ \A m \in DOMAIN appLog : appLog[m].id = id /\ appLog[m].class = class => n <= m
      BY <1>1, <1>5, HappenedIs
    <2>2. appLog[n].ts \in T
      BY <1>1, <2>1
    <2>3. Min(T) \in T /\ Min(T) <= appLog[n].ts
      BY <1>3, <2>2, MinFacts
    <2>4. \A m \in rows : appLog[n].ts <= appLog[m].ts
      BY <1>1, <2>1, EventFacts DEF AppLogInv, LoggedInTime
    <2>5. appLog[n].ts <= Min(T)
      BY <2>3, <2>4
    <2>6. Min(T) = appLog[n].ts
      BY <1>3, <2>2, <2>3, <2>5
    <2> QED BY <1>2, <1>5, <2>1, <2>6
  <1> QED BY <1>4, <1>5

\* A life begins once: the event that begins it is the only one of its class.
LEMMA BeginsOnce ==
  ASSUME AppLogInv, NEW class \in {"recv", "created"}, NEW n \in DOMAIN appLog, appLog[n].class = class
  PROVE  /\ \A m \in DOMAIN appLog : appLog[m].id = appLog[n].id => n <= m
         /\ \A m \in DOMAIN appLog : appLog[m].id = appLog[n].id /\ appLog[m].class = class => m = n
         /\ Happened(class, appLog[n].id) = appLog[n].ts
  <1>1. \A m \in DOMAIN appLog : appLog[m].id = appLog[n].id => n <= m
    BY EventFacts DEF AppLogInv, LivesGoOn
  <1>2. \A m \in DOMAIN appLog : appLog[m].id = appLog[n].id /\ appLog[m].class = class => m <= n
    BY EventFacts DEF AppLogInv, LivesGoOn
  <1>3. \A m \in DOMAIN appLog : appLog[m].id = appLog[n].id /\ appLog[m].class = class => m = n
    BY <1>1, <1>2, EventFacts
  <1> QED BY <1>1, <1>3, HappenedIs

\* The row of a request all of whose events are in the trace has its true latencies.
LEMMA RequestRowIs ==
  ASSUME AppLogInv, NEW n \in DOMAIN appLog, appLog[n].class = "recv", Complete(appLog[n].id)
  PROVE  LET id == appLog[n].id
         IN  RequestRow(appLog[n]) =
               [sent |-> Elapsed(Happened("recv", id), Happened("send", id)),
                served |-> Elapsed(Happened("deliver", id), Happened("send", id)),
                closed |-> Elapsed(Happened("recv", id), Happened("close", id))]
  <1>1. Happened("recv", appLog[n].id) = appLog[n].ts
    BY BeginsOnce
  <1>2. \A class : FirstTime(class, appLog[n].id) = Happened(class, appLog[n].id)
    BY FirstTimeIs
  <1> QED BY <1>1, <1>2 DEF RequestRow

\* The answers of get_http_requests (app_layer.py) are exact.
LEMMA RequestsAre ==
  ASSUME AppLogInv, NEW ask, appAnswer = HttpRequests(ask), ask.tool = "requests", AppAnswered("requests")
  PROVE  RequestsExact
  <1> DEFINE mine == {n \in EventRows("recv") : ask.of \in {None, appLog[n].data}}
             table == [id \in {appLog[n].id : n \in mine} |->
                         RequestRow(appLog[CHOOSE n \in mine : appLog[n].id = id])]
             Truly(id) ==
               [sent |-> Elapsed(Happened("recv", id), Happened("send", id)),
                served |-> Elapsed(Happened("deliver", id), Happened("send", id)),
                closed |-> Elapsed(Happened("recv", id), Happened("close", id))]
  <1>1. appAnswer = IF TooMany(HttpClasses) \/ mine = {} THEN [ask |-> ask, table |-> None]
                    ELSE [ask |-> ask, table |-> table, inFlight |-> InFlight(table)]
    BY DEF HttpRequests
  <1>2. appAnswer.table # None
    BY DEF AppAnswered
  <1>3. appAnswer.ask = ask /\ appAnswer.table = table /\ appAnswer.inFlight = InFlight(table)
    <2> HIDE DEF table, mine
    <2> QED BY <1>1, <1>2
  <1>4. \A n : n \in mine <=> n \in DOMAIN appLog /\ appLog[n].class = "recv" /\ ~appLog[n].missing
                              /\ ask.of \in {None, appLog[n].data}
    BY DEF EventRows
  <1>5. /\ \A id : id \in DOMAIN table <=> \E n \in mine : appLog[n].id = id
        /\ \A id \in DOMAIN table : \E n \in mine : appLog[n].id = id /\ table[id] = RequestRow(appLog[n])
    <2> HIDE DEF mine
    <2>1. \A id : id \in DOMAIN table <=> \E n \in mine : appLog[n].id = id
      OBVIOUS
    <2>2. ASSUME NEW id \in DOMAIN table PROVE \E n \in mine : appLog[n].id = id /\ table[id] = RequestRow(appLog[n])
      <3> DEFINE c == CHOOSE n \in mine : appLog[n].id = id
      <3>1. c \in mine /\ appLog[c].id = id
        BY <2>1
      <3>2. table[id] = RequestRow(appLog[c])
        OBVIOUS
      <3> QED BY <3>1, <3>2
    <2> QED BY <2>1, <2>2
  <1> HIDE DEF mine, table
  <1>6. \A id \in DOMAIN table : Complete(id) => table[id] = Truly(id)
    BY <1>4, <1>5, RequestRowIs
  <1>7. ASSUME MissingEvents = {}, ask.of = None
        PROVE  LET flying == {id \in Requests : Happened("recv", id) # None /\ Answered(id) = None}
                   atOnce == {id \in Requests : /\ Happened("send", id) = None
                                                /\ Happened("close", id) # None
                                                /\ Happened("close", id) = Happened("recv", id)}
               IN InFlight(table) = Cardinality(flying \union atOnce)
    <2> DEFINE flying == {id \in Requests : Happened("recv", id) # None /\ Answered(id) = None}
               atOnce == {id \in Requests : /\ Happened("send", id) = None
                                            /\ Happened("close", id) # None
                                            /\ Happened("close", id) = Happened("recv", id)}
               counted == {id \in DOMAIN table : table[id].sent = None /\ table[id].closed \in {None, 0}}
    <2>1. \A id : Complete(id)
      BY <1>7 DEF Complete, MissingEvents, EventsOf
    <2>2. \A n : n \in mine <=> n \in DOMAIN appLog /\ appLog[n].class = "recv"
      BY <1>4, <1>7, EventFacts DEF MissingEvents
    <2>3. \A id : id \in DOMAIN table <=> id \in Requests /\ Happened("recv", id) # None
      <3>1. \A n \in mine : appLog[n].id \in Requests
        BY <2>2 DEF AppLogInv, EventsTold, HttpClasses
      <3>2. \A n \in mine : Happened("recv", appLog[n].id) \in Nat
        BY <2>2, BeginsOnce, EventFacts
      <3>3. \A id : Happened("recv", id) # None => \E n \in mine : appLog[n].id = id
        BY <2>2, HappenedIs
      <3> QED BY <1>5, <3>1, <3>2, <3>3, AppLayerAssumption
    <2>4. \A class, id : Happened(class, id) = None \/ Happened(class, id) \in Nat
      BY HappenedIs, EventFacts
    <2>5. ASSUME NEW id \in DOMAIN table
          PROVE  id \in counted <=> id \in flying \union atOnce
      <3>1. table[id].sent = Elapsed(Happened("recv", id), Happened("send", id))
            /\ table[id].closed = Elapsed(Happened("recv", id), Happened("close", id))
        BY <1>6, <2>1
      <3>2. Happened("recv", id) \in Nat /\ Happened("recv", id) # None /\ id \in Requests
        BY <2>3, <2>4
      <3>3. table[id].sent = None <=> Happened("send", id) = None
        BY <2>4, <3>1, <3>2, AppLayerAssumption DEF Elapsed
      <3>4. Happened("close", id) # None => Happened("close", id) \in Nat /\ Happened("close", id) >= Happened("recv", id)
        <4> HAVE Happened("close", id) # None
        <4>1. PICK n \in DOMAIN appLog : appLog[n].id = id /\ Happened("close", id) = appLog[n].ts
          BY HappenedIs
        <4>2. PICK k \in DOMAIN appLog : appLog[k].class = "recv" /\ appLog[k].id = id /\ Happened("recv", id) = appLog[k].ts
          BY <3>2, HappenedIs
        <4>3. k <= n
          BY <4>1, <4>2, BeginsOnce
        <4> QED BY <4>1, <4>2, <4>3, EventFacts DEF AppLogInv, LoggedInTime
      <3>5. table[id].closed \in {None, 0} <=> Happened("close", id) \in {None, Happened("recv", id)}
        BY <2>4, <3>1, <3>2, <3>4, AppLayerAssumption DEF Elapsed
      <3>6. id \in counted <=> Happened("send", id) = None /\ Happened("close", id) \in {None, Happened("recv", id)}
        BY <3>3, <3>5
      <3>7. id \in flying <=> Happened("send", id) = None /\ Happened("close", id) = None
        BY <3>2 DEF Answered
      <3>8. id \in atOnce <=> Happened("send", id) = None /\ Happened("close", id) = Happened("recv", id)
        BY <3>2
      <3> QED BY <3>6, <3>7, <3>8
    <2>6. \A id \in flying \union atOnce : id \in DOMAIN table
      BY <2>3
    <2>7. counted = flying \union atOnce
      <3>1. \A id \in counted : id \in DOMAIN table
        OBVIOUS
      <3> HIDE DEF counted, flying, atOnce
      <3> QED BY <2>5, <2>6, <3>1
    <2>8. InFlight(table) = Cardinality(counted)
      BY DEF InFlight
    <2> HIDE DEF counted, flying, atOnce
    <2>9. InFlight(table) = Cardinality(flying \union atOnce)
      BY <2>7, <2>8
    <2> QED BY <2>9 DEF flying, atOnce
  <1> QED BY <1>3, <1>6, <1>7 DEF RequestsExact

\* A QUIC event is of a connection whose creation is in the log.
LEMMA WasCreated ==
  ASSUME AppLogInv, NEW n \in DOMAIN appLog, appLog[n].class \notin HttpClasses
  PROVE  \E m \in DOMAIN appLog : m <= n /\ appLog[m].id = appLog[n].id /\ appLog[m].class = "created"
  <1>1. PICK m \in 1 .. n : appLog[m].id = appLog[n].id /\ appLog[m].class = "created"
    BY DEF AppLogInv, LivesGoOn
  <1> QED BY <1>1, EventFacts

\* A filter keeps connections of the process only, and those whose creation is
\* in the trace; without one every connection that has an event is kept.
LEMMA OfTheProcessIs ==
  ASSUME AppLogInv, NEW ask, NEW classes, \A c \in classes : c \in DOMAIN Follows /\ c \notin HttpClasses
  PROVE  /\ \A id \in OfTheProcess(ask, classes) : OfProcessTruly(id, ask.of)
         /\ \A id \in Ids("created") : ask.of # None /\ OfProcessTruly(id, ask.of) => id \in OfTheProcess(ask, classes)
         /\ \A c \in classes : \A id \in Ids(c) : ask.of = None => id \in OfTheProcess(ask, classes)
  <1> DEFINE named == {id \in Ids("created") : \E n \in EventRowsOf("created", id) : appLog[n].data = ask.of}
             all == UNION {Ids(c) : c \in classes}
  <1>1. OfTheProcess(ask, classes) = IF ask.of # None THEN named ELSE all
    BY DEF OfTheProcess
  <1>2. ASSUME NEW id \in named PROVE OfProcessTruly(id, ask.of)
    BY DEF EventRowsOf, EventRows, OfProcessTruly, EventsOf
  <1>3. ASSUME NEW id \in all, ask.of = None PROVE OfProcessTruly(id, ask.of)
    <2>1. PICK c \in classes : id \in Ids(c)
      OBVIOUS
    <2>2. PICK n \in DOMAIN appLog : appLog[n].id = id /\ appLog[n].class = c
      BY <2>1 DEF Ids, EventRows
    <2>3. \E m \in DOMAIN appLog : appLog[m].id = id /\ appLog[m].class = "created"
      BY <2>2, WasCreated
    <2> QED BY <1>3, <2>3 DEF OfProcessTruly, EventsOf
  <1>4. ASSUME NEW id \in Ids("created"), ask.of # None, OfProcessTruly(id, ask.of) PROVE id \in named
    <2>1. PICK n \in DOMAIN appLog : appLog[n].id = id /\ appLog[n].class = "created" /\ ~appLog[n].missing
      BY <1>4 DEF Ids, EventRows
    <2>2. PICK m \in DOMAIN appLog : appLog[m].id = id /\ appLog[m].class = "created" /\ ask.of = appLog[m].data
      BY <1>4 DEF OfProcessTruly, EventsOf
    <2>3. m = n
      BY <2>1, <2>2, BeginsOnce
    <2> QED BY <1>4, <2>1, <2>2, <2>3 DEF EventRowsOf, EventRows
  <1>5. \A c \in classes : \A id \in Ids(c) : id \in all
    OBVIOUS
  <1> HIDE DEF named, all
  <1> QED BY <1>1, <1>2, <1>3, <1>4, <1>5

\* The packets received and those sent are different events.
LEMMA CountOfTwo ==
  ASSUME AppLogInv, NEW id
  PROVE  Cardinality(EventRowsOf("packet", id)) + Cardinality(EventRowsOf("sent", id)) =
           Cardinality({n \in EventsOf(id) : appLog[n].class \in {"packet", "sent"} /\ ~appLog[n].missing})
  <1> DEFINE A == EventRowsOf("packet", id)
             B == EventRowsOf("sent", id)
             C == {n \in EventsOf(id) : appLog[n].class \in {"packet", "sent"} /\ ~appLog[n].missing}
  <1>1. C = A \union B /\ A \intersect B = {}
    BY DEF EventRowsOf, EventRows, EventsOf
  <1>2. A \subseteq DOMAIN appLog /\ B \subseteq DOMAIN appLog
    BY DEF EventRowsOf, EventRows
  <1>3. IsFiniteSet(DOMAIN appLog)
    BY EventFacts, FS_Interval, 1 \in Int, Len(appLog) \in Int
  <1> HIDE DEF A, B, C
  <1>4. IsFiniteSet(A) /\ IsFiniteSet(B)
    BY <1>2, <1>3, FS_Subset
  <1>5. Cardinality(A) \in Nat /\ Cardinality(B) \in Nat /\ Cardinality({}) = 0
    BY <1>4, FS_CardinalityType, FS_EmptySet
  <1>6. Cardinality(A \union B) = Cardinality(A) + Cardinality(B) - Cardinality(A \intersect B)
    BY <1>4, FS_Union
  <1>7. Cardinality(A \intersect B) = 0
    BY <1>1, <1>5
  <1>8. Cardinality(C) = Cardinality(A) + Cardinality(B)
    BY <1>1, <1>5, <1>6, <1>7
  <1> QED BY <1>8 DEF A, B, C

\* The lifetime of a connection all of whose events are in the trace.
LEMMA LifetimeIs ==
  ASSUME AppLogInv, NEW id, Complete(id), Happened("closed", id) # None
  PROVE  ConnectionRow(id).lifetime = Happened("closed", id) - Happened("created", id)
  <1>1. FirstTime("created", id) = Happened("created", id) /\ FirstTime("closed", id) = Happened("closed", id)
    BY FirstTimeIs
  <1>2. PICK n \in DOMAIN appLog : appLog[n].id = id /\ appLog[n].class = "closed" /\ Happened("closed", id) = appLog[n].ts
    BY HappenedIs
  <1>3. PICK m \in DOMAIN appLog : m <= n /\ appLog[m].id = id /\ appLog[m].class = "created"
    BY <1>2, WasCreated DEF HttpClasses
  <1>4. Happened("created", id) = appLog[m].ts
    BY <1>3, BeginsOnce
  <1>5. appLog[m].ts <= appLog[n].ts /\ appLog[m].ts \in Nat /\ appLog[n].ts \in Nat
    BY <1>3, EventFacts DEF AppLogInv, LoggedInTime
  <1>6. Elapsed(FirstTime("created", id), FirstTime("closed", id)) = appLog[n].ts - appLog[m].ts
    BY <1>1, <1>2, <1>4, <1>5, AppLayerAssumption DEF Elapsed
  <1>7. appLog[n].ts - appLog[m].ts # None
    BY <1>5, AppLayerAssumption
  <1> QED BY <1>2, <1>4, <1>6, <1>7 DEF ConnectionRow

\* The answers of get_quic_connections (app_layer.py) are exact.
LEMMA ConnectionsAre ==
  ASSUME AppLogInv, NEW ask, appAnswer = QuicConnections(ask), ask.tool = "connections", AppAnswered("connections")
  PROVE  ConnectionsExact
  <1> DEFINE classes == {"created", "closed", "packet", "sent"}
             mine == OfTheProcess(ask, classes)
             table == [id \in mine |-> ConnectionRow(id)]
  <1>1. appAnswer = IF TooMany(classes) \/ mine = {} THEN [ask |-> ask, table |-> None]
                    ELSE [ask |-> ask, table |-> table]
    BY DEF QuicConnections
  <1>2. appAnswer.table # None
    BY DEF AppAnswered
  <1>3. appAnswer.ask = ask /\ appAnswer.table = table
    <2> HIDE DEF table, mine
    <2> QED BY <1>1, <1>2
  <1>4. DOMAIN table = mine /\ \A id \in mine : table[id] = ConnectionRow(id)
    OBVIOUS
  <1>5. \A c \in classes : c \in DOMAIN Follows /\ c \notin HttpClasses
    BY DEF Follows, HttpClasses
  <1>6. /\ \A id \in mine : OfProcessTruly(id, ask.of)
        /\ {id \in Ids("created") : OfProcessTruly(id, ask.of)} \subseteq mine
    <2>1. /\ \A id \in mine : OfProcessTruly(id, ask.of)
          /\ \A id \in Ids("created") : ask.of # None /\ OfProcessTruly(id, ask.of) => id \in mine
          /\ \A c \in classes : \A id \in Ids(c) : ask.of = None => id \in mine
      BY <1>5, OfTheProcessIs
    <2> QED BY <2>1
  <1>7. ASSUME NEW id \in mine
        PROVE  /\ table[id].received + table[id].sent =
                    Cardinality({n \in EventsOf(id) : appLog[n].class \in {"packet", "sent"} /\ ~appLog[n].missing})
               /\ Complete(id) /\ Happened("closed", id) # None =>
                    table[id].lifetime = Happened("closed", id) - Happened("created", id)
    <2>1. /\ table[id].received = Cardinality(EventRowsOf("packet", id))
          /\ table[id].sent = Cardinality(EventRowsOf("sent", id))
      BY <1>4 DEF ConnectionRow
    <2>2. Complete(id) /\ Happened("closed", id) # None =>
            table[id].lifetime = Happened("closed", id) - Happened("created", id)
      BY <1>4, LifetimeIs
    <2> QED BY <2>1, <2>2, CountOfTwo
  <1> HIDE DEF mine, table
  <1> QED BY <1>3, <1>4, <1>6, <1>7 DEF ConnectionsExact

\* So are the connections of get_quic_ack_delays.
LEMMA AckConnectionsAre ==
  ASSUME AppLogInv, NEW ask, appAnswer = AckPercentiles(ask), ask.tool = "acks", AppAnswered("acks")
  PROVE  ConnectionsExact
  <1> DEFINE mine == OfTheProcess(ask, {"ack"}) \intersect Ids("ack")
             table == [id \in mine |-> [q \in Shares |-> NearestRank(EventRowsOf("ack", id), q)]]
  <1>1. appAnswer = IF TooMany({"created", "ack"}) \/ mine = {} THEN [ask |-> ask, table |-> None]
                    ELSE [ask |-> ask, table |-> table]
    BY DEF AckPercentiles
  <1>2. appAnswer.table # None
    BY DEF AppAnswered
  <1>3. appAnswer.ask = ask /\ appAnswer.table = table
    <2> HIDE DEF table, mine
    <2> QED BY <1>1, <1>2
  <1>4. DOMAIN table = mine
    OBVIOUS
  <1>5. \A c \in {"ack"} : c \in DOMAIN Follows /\ c \notin HttpClasses
    BY DEF Follows, HttpClasses
  <1>6. /\ \A id \in mine : OfProcessTruly(id, ask.of)
        /\ \A id \in Ids("created") : OfProcessTruly(id, ask.of) /\ id \in Ids("ack") => id \in mine
    <2>1. /\ \A id \in OfTheProcess(ask, {"ack"}) : OfProcessTruly(id, ask.of)
          /\ \A id \in Ids("created") : ask.of # None /\ OfProcessTruly(id, ask.of) => id \in OfTheProcess(ask, {"ack"})
          /\ \A c \in {"ack"} : \A id \in Ids(c) : ask.of = None => id \in OfTheProcess(ask, {"ack"})
      BY <1>5, OfTheProcessIs
    <2> QED BY <2>1
  <1>7. ~AppAnswered("connections")
    BY <1>3 DEF AppAnswered
  <1> HIDE DEF mine, table
  <1> QED BY <1>3, <1>4, <1>6, <1>7 DEF ConnectionsExact

\* Every processor of a packet is among those counted.
LEMMA CpusAre ==
  ASSUME AppLogInv
  PROVE  /\ CpuCount \in Nat \ {0}
         /\ CpusOf(Ids("packet")) \subseteq 0 .. CpuCount - 1
         /\ \A ids : CpusOf(ids) \subseteq CpusOf(Ids("packet"))
  <1> DEFINE S == {0} \union CpusOf(Ids("packet"))
             f == [n \in 1 .. Len(appLog) |-> IF appLog[n].class = "packet" THEN appLog[n].data.cpu ELSE 0]
  <1>1. \A ids : \A c \in CpusOf(ids) : \E id \in ids : \E n \in EventRowsOf("packet", id) : c = appLog[n].data.cpu
    BY DEF CpusOf
  <1>2. \A n \in DOMAIN appLog : appLog[n].class = "packet" => appLog[n].data.cpu \in Nat
    BY AppLayerAssumption DEF AppLogInv, EventsTold
  <1>3. f \in [1 .. Len(appLog) -> Nat]
    BY <1>2, EventFacts
  <1>4. PICK b \in Nat : \A n \in 1 .. Len(appLog) : f[n] <= b
    <2> HIDE DEF f
    <2> QED BY <1>3, ValuesBounded, EventFacts
  <1>5. \A c \in S : c \in Nat /\ c <= b
    <2> TAKE c \in S
    <2>1. CASE c = 0
      BY <2>1
    <2>2. CASE c \in CpusOf(Ids("packet"))
      <3>1. PICK id \in Ids("packet") : \E n \in EventRowsOf("packet", id) : c = appLog[n].data.cpu
        BY <1>1, <2>2
      <3>2. PICK n \in EventRowsOf("packet", id) : c = appLog[n].data.cpu
        BY <3>1
      <3>3. n \in DOMAIN appLog /\ appLog[n].class = "packet"
        BY DEF EventRowsOf, EventRows
      <3>4. c \in Nat
        BY <1>2, <3>2, <3>3
      <3>5. n \in 1 .. Len(appLog) /\ f[n] = c
        BY <3>2, <3>3, EventFacts
      <3>6. c <= b
        BY <1>4, <3>5
      <3> QED BY <3>4, <3>6
    <2> QED BY <2>1, <2>2
  <1>6. CpuCount = Max(S) + 1
    BY DEF CpuCount
  <1>7. 0 \in S /\ S # {} /\ \A c \in CpusOf(Ids("packet")) : c \in S
    OBVIOUS
  <1> HIDE DEF S, f
  <1>8. S \in SUBSET Nat
    BY <1>5
  <1>9. Max(S) \in S /\ \A c \in S : c <= Max(S)
    BY <1>5, <1>7, <1>8, MaxFacts
  <1>10. \A ids : CpusOf(ids) \subseteq CpusOf(Ids("packet"))
    <2> SUFFICES ASSUME NEW ids, NEW c \in CpusOf(ids) PROVE c \in CpusOf(Ids("packet"))
      OBVIOUS
    <2>1. PICK id \in ids : \E n \in EventRowsOf("packet", id) : c = appLog[n].data.cpu
      BY <1>1
    <2>2. PICK n \in EventRowsOf("packet", id) : c = appLog[n].data.cpu
      BY <2>1
    <2>3. id \in Ids("packet")
      BY DEF EventRowsOf, Ids
    <2> QED BY <2>2, <2>3 DEF CpusOf
  <1>11. \A c \in CpusOf(Ids("packet")) : c \in 0 .. CpuCount - 1
    <2>1. Max(S) \in Nat /\ CpuCount - 1 = Max(S)
      <3>1. Max(S) \in Nat
        BY <1>8, <1>9
      <3>2. \A m \in Nat : CpuCount = m + 1 => CpuCount - 1 = m
        OBVIOUS
      <3> QED BY <1>6, <3>1, <3>2
    <2>2. \A c \in CpusOf(Ids("packet")) : c \in Nat /\ c <= Max(S)
      BY <1>7, <1>8, <1>9
    <2> QED BY <2>1, <2>2
  <1>12. CpuCount \in Nat \ {0}
    <2>1. Max(S) \in Nat
      BY <1>8, <1>9
    <2>2. \A m \in Nat : m + 1 \in Nat \ {0}
      OBVIOUS
    <2> QED BY <1>6, <2>1, <2>2
  <1> QED BY <1>12, <1>6, <1>8, <1>9, <1>10, <1>11

\* The answers of get_quic_cid_distribution (app_layer.py) are exact.
LEMMA CidsAre ==
  ASSUME AppLogInv, NEW ask, appAnswer = CidDistribution(ask), ask.tool = "cids", AppAnswered("cids")
  PROVE  CidsExact
  <1> DEFINE ids == Ids("created") \union Ids("packet")
             In(b) == {id \in ids : BucketOf(id) = b}
             table == [b \in {BucketOf(id) : id \in ids} |-> [connections |-> In(b), cpus |-> CpusOf(In(b))]]
  <1>1. appAnswer = IF TooMany({"created", "packet"}) \/ ids = {} THEN [ask |-> ask, table |-> None]
                    ELSE [ask |-> ask, table |-> table]
    BY DEF CidDistribution
  <1>2. appAnswer.table # None
    BY DEF AppAnswered
  <1>3. appAnswer.table = table
    <2> HIDE DEF table, ids
    <2> QED BY <1>1, <1>2
  <1>4. \A b \in DOMAIN table : /\ \E id \in ids : b = BucketOf(id)
                                /\ table[b].connections = In(b) /\ table[b].cpus = CpusOf(In(b))
    OBVIOUS
  <1>5. \A b, c \in DOMAIN table : b # c => table[b].connections \intersect table[c].connections = {}
    <2> SUFFICES ASSUME NEW b \in DOMAIN table, NEW c \in DOMAIN table, NEW id,
                        id \in table[b].connections, id \in table[c].connections
                 PROVE  b = c
      <3> HIDE DEF table
      <3> QED OBVIOUS
    <2>1. id \in In(b) /\ id \in In(c)
      BY <1>4
    <2> QED BY <2>1
  <1>6. ASSUME NEW b \in DOMAIN table PROVE b < CpuCount /\ table[b].cpus \subseteq 0 .. CpuCount - 1
    <2>1. PICK id \in ids : b = BucketOf(id)
      BY <1>4
    <2>2. b < CpuCount
      <3>1. CASE id \in Ids("created")
        <4>1. id \in Connections
          BY <3>1 DEF Ids, EventRows, AppLogInv, EventsTold, HttpClasses
        <4>2. CidHash[id] \in Nat
          BY <4>1, AppLayerAssumption
        <4>3. CidHash[id] % CpuCount < CpuCount
          BY <4>2, CpusAre
        <4> QED BY <2>1, <3>1, <4>3 DEF BucketOf
      <3>2. CASE id \notin Ids("created")
        BY <2>1, <3>2, CpusAre DEF BucketOf
      <3> QED BY <3>1, <3>2
    <2>3. table[b].cpus = CpusOf(In(b))
      BY <1>4
    <2>4. CpusOf(In(b)) \subseteq 0 .. CpuCount - 1
      <3> HIDE DEF In
      <3> QED BY CpusAre
    <2> QED BY <2>2, <2>3, <2>4
  <1>7. \A i, j \in Ids("created") : CidHash[i] = CidHash[j] =>
          \A b \in DOMAIN table : (i \in table[b].connections) <=> (j \in table[b].connections)
    <2> TAKE i, j \in Ids("created")
    <2> HAVE CidHash[i] = CidHash[j]
    <2> TAKE b \in DOMAIN table
    <2>1. BucketOf(i) = BucketOf(j)
      BY DEF BucketOf
    <2>2. table[b].connections = In(b) /\ i \in ids /\ j \in ids
      BY <1>4
    <2> QED BY <2>1, <2>2
  <1> HIDE DEF table
  <1> QED BY <1>3, <1>5, <1>6, <1>7 DEF CidsExact

\* The place of the nearest rank.
LEMMA RankPlace ==
  ASSUME NEW n \in Nat \ {0}, NEW q \in Shares
  PROVE  LET k == RankOf(n, q)
         IN  k \in 1 .. n /\ 1000 * k >= q * n /\ 1000 * (k - 1) < q * n
  <1> DEFINE a == q * n + 999
             f == a \div 1000
  <1>1. a \in Nat /\ a >= 1000 /\ a < 1000 * (n + 1) /\ q * n \in Nat /\ a = q * n + 999
    <2>0. q = 500 \/ q = 990 \/ q = 999
      BY DEF Shares
    <2>1. CASE q = 500
      BY <2>1
    <2>2. CASE q = 990
      BY <2>2
    <2>3. CASE q = 999
      BY <2>3
    <2> QED BY <2>0, <2>1, <2>2, <2>3
  <1> HIDE DEF a
  <1>2. f \in Int /\ 1000 * f <= a /\ a < 1000 * (f + 1)
    BY <1>1
  <1> HIDE DEF f
  <1>3. f \in 1 .. n
    BY <1>1, <1>2
  <1>4. Max({1, f}) = f
    <2>1. {1, f} \in SUBSET Nat /\ {1, f} # {} /\ f \in Nat /\ \A x \in {1, f} : x <= f
      BY <1>3
    <2>2. Max({1, f}) \in {1, f} /\ \A x \in {1, f} : x <= Max({1, f})
      BY <2>1, MaxFacts
    <2>3. Max({1, f}) \in Nat /\ f <= Max({1, f}) /\ Max({1, f}) <= f
      BY <2>1, <2>2
    <2> QED BY <2>1, <2>3
  <1> DEFINE qn == q * n
  <1>5. qn \in Nat /\ a = qn + 999
    BY <1>1
  <1> HIDE DEF qn
  <1>6. 1000 * f >= qn /\ 1000 * (f - 1) < qn
    BY <1>2, <1>3, <1>5
  <1> QED BY <1>3, <1>4, <1>6 DEF RankOf, f, a, qn

\* The delay at the nearest rank is the least that as large a share did not exceed.
LEMMA PercentileIs ==
  ASSUME AppLogInv, NEW id \in Ids("ack"), NEW q \in Shares
  PROVE  LET rows == EventRowsOf("ack", id)
             p == NearestRank(rows, q)
             NotAbove(d) == 1000 * Cardinality({n \in rows : appLog[n].data <= d})
         IN  NotAbove(p) >= q * Cardinality(rows) /\ NotAbove(p - 1) < q * Cardinality(rows)
  <1> DEFINE rows == EventRowsOf("ack", id)
             smaller == {p \in rows \X rows : SmallerDelay(p[1], p[2])}
             ordered == SetInOrder(rows, smaller)
             N == Cardinality(rows)
             k == RankOf(N, q)
             x == ordered[k]
             p == NearestRank(rows, q)
  <1>1. \A n \in rows : n \in Nat /\ n \in DOMAIN appLog /\ appLog[n].data \in Nat
    <2>1. \A n \in rows : n \in DOMAIN appLog /\ appLog[n].class = "ack"
      BY DEF EventRowsOf, EventRows
    <2> HIDE DEF rows
    <2>2. \A n \in rows : appLog[n].data \in AckDelays
      BY <2>1 DEF AppLogInv, EventsTold
    <2>3. \A n \in rows : n \in Nat
      BY <2>1, EventFacts
    <2>4. AckDelays \subseteq Nat
      BY AppLayerAssumption
    <2> QED BY <2>1, <2>2, <2>3, <2>4
  <1>2. IsFiniteSet(rows) /\ rows # {} /\ N \in Nat \ {0}
    <2>1. IsFiniteSet(DOMAIN appLog)
      BY EventFacts, FS_Interval, 1 \in Int, Len(appLog) \in Int
    <2>2. rows \subseteq DOMAIN appLog
      BY DEF EventRowsOf, EventRows
    <2>3. rows # {}
      BY DEF EventRowsOf, Ids
    <2> HIDE DEF rows
    <2>4. IsFiniteSet(rows)
      BY <2>1, <2>2, FS_Subset
    <2>5. Cardinality(rows) \in Nat /\ Cardinality(rows) # 0
      BY <2>3, <2>4, FS_CardinalityType, FS_EmptySet
    <2> QED BY <2>3, <2>4, <2>5
  <1>3. p = appLog[x].data
    BY DEF NearestRank
  <1> HIDE DEF rows, p
  <1>4. \A m, n \in rows : <<m, n>> \in smaller <=>
          appLog[m].data < appLog[n].data \/ (appLog[m].data = appLog[n].data /\ m < n)
    BY DEF SmallerDelay
  <1> HIDE DEF smaller, N
  <1>5. /\ \A m \in rows : <<m, m>> \notin smaller
        /\ \A m, n \in rows : m # n => <<m, n>> \in smaller \/ <<n, m>> \in smaller
        /\ \A l, m, n \in rows : <<l, m>> \in smaller /\ <<m, n>> \in smaller => <<l, n>> \in smaller
    BY <1>1, <1>4
  <1>6. /\ ordered \in [1 .. N -> rows]
        /\ \A i \in 1 .. N : Cardinality({y \in rows : <<y, ordered[i]>> \in smaller}) = i - 1
    BY <1>2, <1>5, SetInOrderFacts DEF N
  <1>7. k \in 1 .. N /\ 1000 * k >= q * N /\ 1000 * (k - 1) < q * N
    <2>1. \A m \in Nat \ {0} : /\ RankOf(m, q) \in 1 .. m /\ 1000 * RankOf(m, q) >= q * m
                              /\ 1000 * (RankOf(m, q) - 1) < q * m
      BY RankPlace
    <2> QED BY <1>2, <2>1
  <1> HIDE DEF ordered, k
  <1> DEFINE Pre == {y \in rows : <<y, x>> \in smaller}
             Low == {n \in rows : appLog[n].data <= p}
             Lower == {n \in rows : appLog[n].data <= p - 1}
  <1>8. x \in rows /\ Cardinality(Pre) = k - 1
    BY <1>6, <1>7
  <1> HIDE DEF x
  <1>9. /\ x \notin Pre /\ Pre \union {x} \subseteq Low /\ Lower \subseteq Pre
    <2>1. x \notin Pre
      BY <1>5, <1>8
    <2>2. \A y \in Pre : y \in rows /\ appLog[y].data <= p
      BY <1>1, <1>3, <1>4, <1>8
    <2>3. p \in Nat /\ p <= p
      BY <1>1, <1>3, <1>8
    <2>4. \A y \in Lower : y \in Pre
      BY <1>1, <1>3, <1>4, <1>8
    <2>5. x \in Low
      BY <1>3, <1>8, <2>3
    <2>6. \A y \in Pre : y \in Low
      BY <2>2
    <2> HIDE DEF Pre, Low, Lower
    <2> QED BY <2>1, <2>4, <2>5, <2>6
  <1>10. Pre \subseteq rows /\ Low \subseteq rows /\ Lower \subseteq rows
    OBVIOUS
  <1>11. (k - 1) + 1 = k /\ k \in Nat /\ N \in Nat
    BY <1>2, <1>7
  <1> HIDE DEF Pre, Low, Lower
  <1>12. IsFiniteSet(Pre) /\ IsFiniteSet(Low)
    BY <1>2, <1>10, FS_Subset
  <1>13. Cardinality(Pre \union {x}) = k
    <2>1. Cardinality(Pre \union {x}) = Cardinality(Pre) + 1
      BY <1>9, <1>12, OneMore
    <2> QED BY <1>8, <1>11, <2>1
  <1>14. k <= Cardinality(Low) /\ Cardinality(Low) \in Nat
    BY <1>9, <1>12, <1>13, FS_Subset, FS_CardinalityType
  <1>15. Cardinality(Lower) <= k - 1 /\ Cardinality(Lower) \in Nat
    <2>1. IsFiniteSet(Lower)
      BY <1>2, <1>10, FS_Subset
    <2> QED BY <1>8, <1>9, <1>12, <2>1, FS_Subset, FS_CardinalityType
  <1> DEFINE qN == q * N
  <1>16. qN \in Nat
    <2>1. q \in Nat
      BY DEF Shares
    <2> QED BY <1>11, <2>1
  <1>17. 1000 * k >= qN /\ 1000 * (k - 1) < qN
    BY <1>7
  <1> HIDE DEF qN
  <1>18. 1000 * Cardinality(Low) >= qN /\ 1000 * Cardinality(Lower) < qN
    BY <1>11, <1>14, <1>15, <1>16, <1>17
  <1> QED BY <1>18 DEF qN, Low, Lower, N, rows, p

\* The answers of get_quic_ack_delays (app_layer.py) are exact.
LEMMA AcksAre ==
  ASSUME AppLogInv, NEW ask, appAnswer = AckPercentiles(ask), ask.tool = "acks", AppAnswered("acks")
  PROVE  AcksExact
  <1> DEFINE mine == OfTheProcess(ask, {"ack"}) \intersect Ids("ack")
             table == [id \in mine |-> [q \in Shares |-> NearestRank(EventRowsOf("ack", id), q)]]
  <1>1. appAnswer = IF TooMany({"created", "ack"}) \/ mine = {} THEN [ask |-> ask, table |-> None]
                    ELSE [ask |-> ask, table |-> table]
    BY DEF AckPercentiles
  <1>2. appAnswer.table # None
    BY DEF AppAnswered
  <1>3. appAnswer.table = table
    <2> HIDE DEF table, mine
    <2> QED BY <1>1, <1>2
  <1>4. /\ DOMAIN table = mine /\ mine \subseteq Ids("ack")
        /\ \A id \in mine : \A q \in Shares : table[id][q] = NearestRank(EventRowsOf("ack", id), q)
    OBVIOUS
  <1> HIDE DEF mine, table
  <1>5. \A id \in DOMAIN table : \A q \in Shares :
          LET rows == EventRowsOf("ack", id)
              p == table[id][q]
              NotAbove(d) == 1000 * Cardinality({n \in rows : appLog[n].data <= d})
          IN  NotAbove(p) >= q * Cardinality(rows) /\ NotAbove(p - 1) < q * Cardinality(rows)
    <2> TAKE id \in DOMAIN table
    <2> TAKE q \in Shares
    <2> DEFINE p == NearestRank(EventRowsOf("ack", id), q)
    <2>1. id \in Ids("ack") /\ table[id][q] = p
      BY <1>4
    <2>2. LET rows == EventRowsOf("ack", id)
              NotAbove(d) == 1000 * Cardinality({n \in rows : appLog[n].data <= d})
          IN  NotAbove(p) >= q * Cardinality(rows) /\ NotAbove(p - 1) < q * Cardinality(rows)
      BY <2>1, PercentileIs
    <2> HIDE DEF p
    <2> QED BY <2>1, <2>2
  <1> QED BY <1>3, <1>5 DEF AcksExact

-----------------------------------------------------------------------------
(* How many requests wait *)

\* The sum of the values of a function on a set.
Total(D, w) == SumOver(D, LAMBDA x : w[x])

\* The recursion a sum is computed by.
Sums(D, w, it) ==
  it = [s \in SUBSET D |-> IF s = {} THEN 0 ELSE w[Pick(s)] + it[s \ {Pick(s)}]]

\* The recursion has a solution, so what CHOOSE takes is one.
LEMMA SumsExist ==
  ASSUME NEW D, IsFiniteSet(D), NEW w \in [D -> Int]
  PROVE  \E it \in [SUBSET D -> Int] : Sums(D, w, it)
  <1> DEFINE V == [SUBSET D -> Int]
             M == Cardinality(D)
             Next(h) == [s \in SUBSET D |-> IF s = {} THEN 0 ELSE w[Pick(s)] + h[s \ {Pick(s)}]]
             F == [m \in 1 .. M + 1 |-> [h \in V |-> Next(h)]]
             zero == [s \in SUBSET D |-> 0]
  <1>1. M \in Nat /\ M + 1 \in Nat
    BY FS_CardinalityType
  <1>2. \A h \in V : Next(h) \in V
    <2> SUFFICES ASSUME NEW h \in V, NEW s \in SUBSET D, s # {} PROVE w[Pick(s)] + h[s \ {Pick(s)}] \in Int
      OBVIOUS
    <2>1. Pick(s) \in D /\ s \ {Pick(s)} \in SUBSET D
      BY CardOf
    <2>2. w[Pick(s)] \in Int /\ h[s \ {Pick(s)}] \in Int
      BY <2>1
    <2> QED BY <2>2
  <1>3. zero \in V
    OBVIOUS
  <1> HIDE DEF V, Next
  <1>4. F \in [1 .. M + 1 -> [V -> V]] /\ \A m \in 1 .. M + 1 : \A h \in V : F[m][h] = Next(h)
    BY <1>2
  <1> HIDE DEF F, M, zero
  <1>5. PICK g \in [0 .. M + 1 -> V] : g[0] = zero /\ \A m \in 1 .. M + 1 : g[m] = F[m][g[m - 1]]
    BY <1>1, <1>3, <1>4, StepsExist
  <1>6. \A m \in 0 .. M : g[m] \in V /\ g[m + 1] = Next(g[m])
    <2> TAKE m \in 0 .. M
    <2>1. m + 1 \in 1 .. M + 1 /\ (m + 1) - 1 = m /\ m \in 0 .. M + 1
      BY <1>1
    <2> QED BY <1>4, <1>5, <2>1
  <1>7. \A m \in 0 .. M : \A s \in SUBSET D :
          g[m + 1][s] = IF s = {} THEN 0 ELSE w[Pick(s)] + g[m][s \ {Pick(s)}]
    BY <1>6 DEF Next
  <1> DEFINE S == {m \in Nat : m <= M => \A s \in SUBSET D : Cardinality(s) <= m => g[m + 1][s] = g[m][s]}
  <1>8. 0 \in S
    <2> SUFFICES ASSUME NEW s \in SUBSET D, Cardinality(s) <= 0 PROVE g[0 + 1][s] = g[0][s]
      OBVIOUS
    <2>1. s = {}
      <3>1. Cardinality(s) \in Nat /\ (Cardinality(s) = 0 <=> s = {})
        BY CardOf
      <3>2. Cardinality(s) = 0
        BY <3>1
      <3> QED BY <3>1, <3>2
    <2>2. g[0 + 1][s] = 0
      <3>1. 0 \in 0 .. M
        BY <1>1
      <3>2. g[0 + 1][s] = IF s = {} THEN 0 ELSE w[Pick(s)] + g[0][s \ {Pick(s)}]
        BY <1>7, <3>1
      <3> QED BY <2>1, <3>2
    <2> QED BY <1>5, <2>2 DEF zero
  <1>9. ASSUME NEW m \in Nat, m \in S PROVE m + 1 \in S
    <2> SUFFICES ASSUME m + 1 <= M, NEW s \in SUBSET D, Cardinality(s) <= m + 1
                 PROVE  g[(m + 1) + 1][s] = g[m + 1][s]
      OBVIOUS
    <2>1. m \in 0 .. M /\ m + 1 \in 0 .. M
      BY <1>1
    <2>2. CASE s = {}
      BY <1>7, <2>1, <2>2
    <2>3. CASE s # {}
      <3> DEFINE rest == s \ {Pick(s)}
      <3>1. rest \in SUBSET D /\ Cardinality(rest) <= m
        BY <2>3, CardOf
      <3>2. g[m + 1][rest] = g[m][rest]
        BY <1>9, <2>1, <3>1
      <3>3. g[(m + 1) + 1][s] = w[Pick(s)] + g[m + 1][rest] /\ g[m + 1][s] = w[Pick(s)] + g[m][rest]
        BY <1>7, <2>1, <2>3
      <3> QED BY <3>2, <3>3
    <2> QED BY <2>2, <2>3
  <1>10. Nat \subseteq S
    <2> HIDE DEF S
    <2> QED BY <1>8, <1>9, SetInduction
  <1>11. \A s \in SUBSET D : g[M + 1][s] = g[M][s]
    BY <1>1, <1>10, CardOf DEF M
  <1>12. M \in 0 .. M /\ M \in 0 .. M + 1
    BY <1>1
  <1>13. g[M] \in V /\ \A s \in SUBSET D : g[M][s] = IF s = {} THEN 0 ELSE w[Pick(s)] + g[M][s \ {Pick(s)}]
    BY <1>6, <1>7, <1>11, <1>12
  <1>14. Sums(D, w, g[M])
    BY <1>13 DEF Sums, V
  <1> QED BY <1>13, <1>14 DEF V

\* A sum is what the recursion computes.
LEMMA TotalIs ==
  ASSUME NEW D, IsFiniteSet(D), NEW w \in [D -> Int]
  PROVE  \E it : Sums(D, w, it) /\ Total(D, w) = it[D]
  <1> DEFINE it == CHOOSE i : Sums(D, w, i)
  <1>1. Sums(D, w, it)
    BY SumsExist
  <1>2. Total(D, w) = (CHOOSE i : i = [s \in SUBSET D |-> IF s = {} THEN 0 ELSE
                                        w[CHOOSE x \in s : TRUE] + i[s \ {CHOOSE x \in s : TRUE}]])[D]
    BY DEF Total, SumOver, MapThenSumSet, MapThenFoldSet
  <1>3. Total(D, w) = it[D]
    BY <1>2 DEF Sums, Pick
  <1> QED BY <1>1, <1>3

\* Functions that differ by the same amount on some members.
GrownOn(D, w, v, W, more) ==
  (\A x \in W : v[x] = w[x] + more) /\ (\A x \in D : x \notin W => v[x] = w[x])

\* Their sums differ by that amount for each of those members.
LEMMA TotalGrows ==
  ASSUME NEW D, IsFiniteSet(D), NEW w \in [D -> Int], NEW v \in [D -> Int],
         NEW W \in SUBSET D, NEW more \in Int,
         GrownOn(D, w, v, W, more)
  PROVE  Total(D, w) \in Int /\ Total(D, v) = Total(D, w) + Cardinality(W) * more
  <1>1. PICK a : Sums(D, w, a) /\ Total(D, w) = a[D]
    BY TotalIs
  <1>2. PICK b : Sums(D, v, b) /\ Total(D, v) = b[D]
    BY TotalIs
  <1>3. \A s \in SUBSET D : a[s] = IF s = {} THEN 0 ELSE w[Pick(s)] + a[s \ {Pick(s)}]
    BY <1>1 DEF Sums
  <1>4. \A s \in SUBSET D : b[s] = IF s = {} THEN 0 ELSE v[Pick(s)] + b[s \ {Pick(s)}]
    BY <1>2 DEF Sums
  <1> DEFINE Both(s) == s \intersect W
             Holds(s) == a[s] \in Int /\ b[s] = a[s] + Cardinality(Both(s)) * more
             S == {m \in Nat : \A s \in SUBSET D : Cardinality(s) = m => Holds(s)}
  <1>5. 0 \in S
    <2> SUFFICES ASSUME NEW s \in SUBSET D, Cardinality(s) = 0
                 PROVE  a[s] \in Int /\ b[s] = a[s] + Cardinality(Both(s)) * more
      OBVIOUS
    <2>1. s = {}
      BY CardOf
    <2>2. Cardinality(Both(s)) = 0
      BY <2>1, FS_EmptySet
    <2>3. a[s] = 0 /\ b[s] = 0
      BY <1>3, <1>4, <2>1
    <2>4. 0 * more = 0
      OBVIOUS
    <2> QED BY <2>2, <2>3, <2>4
  <1>6. ASSUME NEW m \in Nat, m \in S PROVE m + 1 \in S
    <2> SUFFICES ASSUME NEW s \in SUBSET D, Cardinality(s) = m + 1 PROVE Holds(s)
      <3> HIDE DEF Holds
      <3> QED OBVIOUS
    <2> DEFINE x == Pick(s)
               rest == s \ {x}
    <2>1. s # {}
      BY FS_EmptySet
    <2>2. x \in s /\ x \in D /\ rest \in SUBSET D /\ Cardinality(rest) = m
      BY <2>1, CardOf
    <2>3. a[s] = w[x] + a[rest] /\ b[s] = v[x] + b[rest]
      BY <1>3, <1>4, <2>1
    <2>4. a[rest] \in Int /\ b[rest] = a[rest] + Cardinality(Both(rest)) * more
      BY <1>6, <2>2
    <2> DEFINE c == Cardinality(Both(rest))
    <2>5. IsFiniteSet(Both(rest)) /\ c \in Nat
      <3>1. Both(rest) \in SUBSET D
        BY <2>2
      <3>2. \A t \in SUBSET D : IsFiniteSet(t) /\ Cardinality(t) \in Nat
        BY CardOf
      <3> HIDE DEF Both, rest
      <3> QED BY <3>1, <3>2
    <2>6. CASE x \in W
      <3>1. Both(s) = Both(rest) \union {x} /\ x \notin Both(rest)
        BY <2>2, <2>6
      <3>2. Cardinality(Both(s)) = c + 1
        <4> HIDE DEF Both, x
        <4> QED BY <2>5, <3>1, OneMore
      <3>3. v[x] = w[x] + more /\ w[x] \in Int
        BY <2>2, <2>6 DEF GrownOn
      <3>4. (c + 1) * more = c * more + more /\ c * more \in Int
        <4> HIDE DEF c
        <4> QED BY <2>5
      <3> HIDE DEF Both, x, c, rest
      <3>5. b[rest] = a[rest] + c * more
        BY <2>4 DEF c
      <3> QED BY <2>3, <2>4, <3>2, <3>3, <3>4, <3>5
    <2>7. CASE x \notin W
      <3>1. Both(s) = Both(rest)
        BY <2>2, <2>7
      <3>3. v[x] = w[x] /\ w[x] \in Int
        BY <2>2, <2>7 DEF GrownOn
      <3>4. c * more \in Int
        <4> HIDE DEF c
        <4> QED BY <2>5
      <3> HIDE DEF Both, x, c, rest
      <3>5. b[rest] = a[rest] + c * more /\ Cardinality(Both(s)) = c
        BY <2>4, <3>1 DEF c
      <3> QED BY <2>3, <2>4, <3>3, <3>4, <3>5
    <2> QED BY <2>6, <2>7
  <1>7. Nat \subseteq S
    <2> HIDE DEF S
    <2> QED BY <1>5, <1>6, SetInduction
  <1>8. Cardinality(D) \in S /\ D \in SUBSET D
    <2>1. Cardinality(D) \in Nat
      BY FS_CardinalityType
    <2> HIDE DEF S
    <2> QED BY <1>7, <2>1
  <1>9. Both(D) = W
    OBVIOUS
  <1>10. a[D] \in Int /\ b[D] = a[D] + Cardinality(Both(D)) * more
    <2> HIDE DEF Both
    <2> QED BY <1>8
  <1> HIDE DEF Both
  <1> QED BY <1>1, <1>2, <1>9, <1>10

\* A sum of zeros is zero.
LEMMA TotalOfZeros ==
  ASSUME NEW D, IsFiniteSet(D), NEW w \in [D -> Int], \A x \in D : w[x] = 0
  PROVE  Total(D, w) = 0
  <1>1. PICK a : Sums(D, w, a) /\ Total(D, w) = a[D]
    BY TotalIs
  <1>2. \A s \in SUBSET D : a[s] = IF s = {} THEN 0 ELSE w[Pick(s)] + a[s \ {Pick(s)}]
    BY <1>1 DEF Sums
  <1> DEFINE S == {m \in Nat : \A s \in SUBSET D : Cardinality(s) = m => a[s] = 0}
  <1>3. 0 \in S
    <2> SUFFICES ASSUME NEW s \in SUBSET D, Cardinality(s) = 0 PROVE a[s] = 0
      OBVIOUS
    <2>1. s = {}
      BY CardOf
    <2> QED BY <1>2, <2>1
  <1>4. ASSUME NEW m \in Nat, m \in S PROVE m + 1 \in S
    <2> SUFFICES ASSUME NEW s \in SUBSET D, Cardinality(s) = m + 1 PROVE a[s] = 0
      OBVIOUS
    <2>1. s # {}
      BY FS_EmptySet
    <2> DEFINE x == Pick(s)
    <2>2. x \in D /\ s \ {x} \in SUBSET D /\ Cardinality(s \ {x}) = m
      BY <2>1, CardOf
    <2>3. a[s \ {x}] = 0 /\ w[x] = 0
      BY <1>4, <2>2
    <2> QED BY <1>2, <2>1, <2>3
  <1>5. Nat \subseteq S
    <2> HIDE DEF S
    <2> QED BY <1>3, <1>4, SetInduction
  <1>6. Cardinality(D) \in S /\ D \in SUBSET D
    <2>1. Cardinality(D) \in Nat
      BY FS_CardinalityType
    <2> HIDE DEF S
    <2> QED BY <1>5, <2>1
  <1> QED BY <1>1, <1>6

\* The steps of requests that are delivered at d and completed at c, if they are.
DStep(d, id) == [ts |-> d[id], delta |-> 1, id |-> id]
CStep(c, id) == [ts |-> c[id], delta |-> -1, id |-> id]
StepsOf(I, d, c) == {DStep(d, id) : id \in I} \union {CStep(c, id) : id \in {i \in I : c[i] # None}}

Lives(I, d, c) ==
  /\ IsFiniteSet(I) /\ I \subseteq Int
  /\ d \in [I -> Nat] /\ c \in [I -> Nat \union {None}]
  /\ \A id \in I : c[id] # None => c[id] \in Nat /\ d[id] <= c[id]

\* o has the steps in order.
Queued(I, d, c, o, n) ==
  /\ n \in Nat
  /\ \A k \in 1 .. n : \E id \in I : o[k] = DStep(d, id) \/ (c[id] # None /\ o[k] = CStep(c, id))
  /\ \A id \in I : \E k \in 1 .. n : o[k] = DStep(d, id)
  /\ \A id \in I : c[id] # None => \E k \in 1 .. n : o[k] = CStep(c, id)
  /\ \A j, k \in 1 .. n : j < k => StepBefore(o[j], o[k])
  /\ \A j, k \in 1 .. n : o[j] = o[k] => j = k

\* Finitely many requests take finitely many steps.
LEMMA StepsFinite ==
  ASSUME NEW I, NEW d, NEW c, Lives(I, d, c)
  PROVE  IsFiniteSet(StepsOf(I, d, c))
  <1> DEFINE A == {DStep(d, id) : id \in I}
             B == {CStep(c, id) : id \in {i \in I : c[i] # None}}
             f == [id \in I |-> DStep(d, id)]
             g == [id \in I |-> CStep(c, id)]
  <1>1. IsFiniteSet(I)
    BY DEF Lives
  <1>2. DOMAIN f = I /\ f = [x \in I |-> f[x]] /\ \A y \in A : \E x \in I : y = f[x]
    OBVIOUS
  <1>3. DOMAIN g = I /\ g = [x \in I |-> g[x]] /\ \A y \in B : \E x \in I : y = g[x]
    OBVIOUS
  <1> HIDE DEF A, B, f, g
  <1>4. IsFiniteSet(A) /\ IsFiniteSet(B)
    BY <1>1, <1>2, <1>3, ImageIsFinite
  <1>5. IsFiniteSet(A \union B)
    BY <1>4, FS_Union
  <1> QED BY <1>5 DEF StepsOf, A, B

\* The steps are put in one order: by time, deliveries first, by id.
LEMMA StepsQueued ==
  ASSUME NEW I, NEW d, NEW c, Lives(I, d, c), NEW S, S = StepsOf(I, d, c),
         NEW B, \A x, y \in S : <<x, y>> \in B <=> StepBefore(x, y)
  PROVE  /\ Queued(I, d, c, SetInOrder(S, B), Cardinality(S))
         /\ SetInOrder(S, B) \in [1 .. Cardinality(S) -> S]
  <1> DEFINE o == SetInOrder(S, B)
             n == Cardinality(S)
  <1>1. IsFiniteSet(S)
    BY StepsFinite
  <1>2. \A x \in S : \E id \in I : x = DStep(d, id) \/ (c[id] # None /\ x = CStep(c, id))
    BY DEF StepsOf
  <1>3. \A id \in I : DStep(d, id) \in S /\ (c[id] # None => CStep(c, id) \in S)
    BY DEF StepsOf
  <1>4. \A x \in S : x.ts \in Nat /\ x.delta \in {-1, 1} /\ x.id \in Int
                     /\ x = [ts |-> x.ts, delta |-> x.delta, id |-> x.id]
    BY <1>2 DEF Lives, DStep, CStep
  <1>5. \A x, y \in S : <<x, y>> \in B <=> StepBefore(x, y)
    OBVIOUS
  <1>6. /\ \A x \in S : ~StepBefore(x, x)
        /\ \A x, y, z \in S : StepBefore(x, y) /\ StepBefore(y, z) => StepBefore(x, z)
    BY <1>4 DEF StepBefore
  <1>7. \A x, y \in S : x # y => StepBefore(x, y) \/ StepBefore(y, x)
    <2> SUFFICES ASSUME NEW x \in S, NEW y \in S, ~StepBefore(x, y), ~StepBefore(y, x) PROVE x = y
      OBVIOUS
    <2>1. x.ts = y.ts /\ x.delta = y.delta /\ x.id = y.id
      BY <1>4 DEF StepBefore
    <2> QED BY <1>4, <2>1
  <1>13. /\ \A x \in S : <<x, x>> \notin B
         /\ \A x, y \in S : x # y => <<x, y>> \in B \/ <<y, x>> \in B
         /\ \A x, y, z \in S : <<x, y>> \in B /\ <<y, z>> \in B => <<x, z>> \in B
    <2>1. \A x \in S : <<x, x>> \notin B
      BY <1>5, <1>6
    <2>2. \A x, y \in S : x # y => <<x, y>> \in B \/ <<y, x>> \in B
      BY <1>5, <1>7
    <2>3. \A x, y, z \in S : <<x, y>> \in B /\ <<y, z>> \in B => <<x, z>> \in B
      BY <1>5, <1>6
    <2> QED BY <2>1, <2>2, <2>3
  <1>8. /\ n \in Nat /\ o \in [1 .. n -> S]
        /\ \A x \in S : \E k \in 1 .. n : o[k] = x
        /\ \A k, l \in 1 .. n : k < l => <<o[k], o[l]>> \in B
        /\ \A k, l \in 1 .. n : o[k] = o[l] => k = l
    <2>1. n \in Nat /\ o \in [1 .. n -> S]
      BY <1>1, <1>13, SetInOrderFacts
    <2>2. \A x \in S : \E k \in 1 .. n : o[k] = x
      BY <1>1, <1>13, SetInOrderFacts
    <2>3. \A k, l \in 1 .. n : k < l => <<o[k], o[l]>> \in B
      BY <1>1, <1>13, SetInOrderFacts
    <2>4. \A k, l \in 1 .. n : o[k] = o[l] => k = l
      BY <1>1, <1>13, SetInOrderFacts
    <2> HIDE DEF o, n
    <2> QED BY <2>1, <2>2, <2>3, <2>4
  <1> HIDE DEF o, n
  <1>9. \A k \in 1 .. n : o[k] \in S
    BY <1>8
  <1>10. \A j, k \in 1 .. n : j < k => StepBefore(o[j], o[k])
    BY <1>5, <1>8, <1>9
  <1>11. /\ \A k \in 1 .. n : \E id \in I : o[k] = DStep(d, id) \/ (c[id] # None /\ o[k] = CStep(c, id))
         /\ \A id \in I : \E k \in 1 .. n : o[k] = DStep(d, id)
         /\ \A id \in I : c[id] # None => \E k \in 1 .. n : o[k] = CStep(c, id)
    BY <1>2, <1>3, <1>8, <1>9
  <1>12. Queued(I, d, c, o, n)
    BY <1>8, <1>10, <1>11 DEF Queued
  <1> QED BY <1>8, <1>12 DEF o, n

-----------------------------------------------------------------------------
(* The walk *)

WalkStates == [depth : Nat, peak : Nat, area : Int, ts : Nat]
AtFirst(steps) == [depth |-> 0, peak |-> 0, area |-> 0, ts |-> steps[1].ts]

\* A step of the walk, its maxima taken.
LEMMA WalkStepIs ==
  ASSUME NEW w \in WalkStates, NEW step, step.ts \in Nat, step.delta \in {-1, 1}
  PROVE  LET v == WalkStep(w, step)
         IN /\ v \in WalkStates /\ v.ts = step.ts
            /\ v.depth = IF w.depth + step.delta >= 0 THEN w.depth + step.delta ELSE 0
            /\ v.peak = IF v.depth >= w.peak THEN v.depth ELSE w.peak
            /\ v.area = w.area + w.depth * (step.ts - w.ts)
  <1> DEFINE to == w.depth + step.delta
             depth == Max({0, to})
             peak == Max({w.peak, depth})
  <1>1. w.depth \in Nat /\ w.peak \in Nat /\ w.area \in Int /\ w.ts \in Nat
    BY DEF WalkStates
  <1>2. to \in Int
    BY <1>1
  <1> HIDE DEF to
  <1>3. depth = IF to >= 0 THEN to ELSE 0
    BY <1>2 DEF Max
  <1> HIDE DEF depth
  <1>4. depth \in Nat
    BY <1>2, <1>3
  <1>5. peak = IF depth >= w.peak THEN depth ELSE w.peak
    BY <1>1, <1>4 DEF Max
  <1> HIDE DEF peak
  <1>6. peak \in Nat
    BY <1>1, <1>4, <1>5
  <1>7. WalkStep(w, step) = [depth |-> depth, peak |-> peak, area |-> w.area + w.depth * (step.ts - w.ts), ts |-> step.ts]
    BY DEF WalkStep, depth, peak, to
  <1>8. w.area + w.depth * (step.ts - w.ts) \in Int
    <2>1. step.ts - w.ts \in Int
      BY <1>1
    <2>2. w.depth * (step.ts - w.ts) \in Int
      BY <1>1, <2>1
    <2> QED BY <1>1, <2>2
  <1> QED BY <1>3, <1>4, <1>5, <1>6, <1>7, <1>8 DEF WalkStates, to

\* The walk is computed step by step.
LEMMA WalkSteps ==
  ASSUME NEW steps, NEW N \in Nat, N = Len(steps), N >= 1,
         \A k \in 1 .. N : steps[k].ts \in Nat /\ steps[k].delta \in {-1, 1}
  PROVE  \E w \in [0 .. N -> WalkStates] :
           /\ w[0] = AtFirst(steps)
           /\ \A k \in 1 .. N : w[k] = WalkStep(w[k - 1], steps[k])
           /\ Walk(steps) = w[N]
  <1> DEFINE V == WalkStates
             F == [m \in 1 .. N |-> [v \in V |-> WalkStep(v, steps[m])]]
             Body(u) == [n \in 0 .. N |-> IF n = 0 THEN AtFirst(steps) ELSE WalkStep(u[n - 1], steps[n])]
             up == CHOOSE u : u = Body(u)
  <1>1. AtFirst(steps) \in V
    BY DEF AtFirst, WalkStates
  <1>2. \A m \in 1 .. N, v \in V : WalkStep(v, steps[m]) \in V
    BY WalkStepIs
  <1>3. F \in [1 .. N -> [V -> V]] /\ \A m \in 1 .. N, v \in V : F[m][v] = WalkStep(v, steps[m])
    <2> HIDE DEF V
    <2> QED BY <1>2
  <1> HIDE DEF V, F
  <1>4. PICK u \in [0 .. N -> V] : u[0] = AtFirst(steps) /\ \A m \in 1 .. N : u[m] = F[m][u[m - 1]]
    <2>1. \E u \in [0 .. N -> V] : u[0] = AtFirst(steps) /\ ComputedBy(u, F, N)
      BY <1>1, <1>3, StepsFrom
    <2> QED BY <2>1 DEF ComputedBy
  <1>5. \A m \in 1 .. N : u[m] = WalkStep(u[m - 1], steps[m])
    <2> SUFFICES ASSUME NEW m \in 1 .. N PROVE u[m] = WalkStep(u[m - 1], steps[m])
      OBVIOUS
    <2>1. m - 1 \in 0 .. N
      OBVIOUS
    <2>2. u[m - 1] \in V
      BY <2>1
    <2> QED BY <1>3, <1>4, <2>2
  <1>6. u = Body(u)
    <2>1. ASSUME NEW n \in 0 .. N PROVE u[n] = IF n = 0 THEN AtFirst(steps) ELSE WalkStep(u[n - 1], steps[n])
      <3>1. CASE n = 0
        BY <1>4, <3>1
      <3>2. CASE n # 0
        <4>1. n \in 1 .. N
          BY <3>2
        <4> QED BY <1>5, <3>2, <4>1
      <3> QED BY <3>1, <3>2
    <2>2. u = [n \in 0 .. N |-> u[n]]
      BY <1>4
    <2> QED BY <2>1, <2>2
  <1>7. up = Body(up)
    BY <1>6
  <1>8. Walk(steps) = up[N]
    BY DEF Walk, AtFirst
  <1>9. /\ up[0] = AtFirst(steps) /\ \A m \in 1 .. N : up[m] = WalkStep(up[m - 1], steps[m])
        /\ up = [n \in 0 .. N |-> up[n]]
    <2> HIDE DEF up
    <2>1. \A n \in 0 .. N : up[n] = IF n = 0 THEN AtFirst(steps) ELSE WalkStep(up[n - 1], steps[n])
      BY <1>7
    <2>2. 0 \in 0 .. N /\ \A m \in 1 .. N : m \in 0 .. N /\ m # 0
      OBVIOUS
    <2> QED BY <1>7, <2>1, <2>2
  <1> HIDE DEF up
  <1>10. \A m \in 0 .. N : up[m] = u[m]
    <2> DEFINE S == {m \in Nat : m <= N => up[m] = u[m]}
    <2>1. 0 \in S
      BY <1>4, <1>9
    <2>2. ASSUME NEW m \in Nat, m \in S PROVE m + 1 \in S
      <3> SUFFICES ASSUME m + 1 <= N PROVE up[m + 1] = u[m + 1]
        OBVIOUS
      <3>1. m + 1 \in 1 .. N /\ (m + 1) - 1 = m /\ up[m] = u[m]
        BY <2>2
      <3>2. up[m + 1] = WalkStep(up[m], steps[m + 1]) /\ u[m + 1] = WalkStep(u[m], steps[m + 1])
        BY <1>5, <1>9, <3>1
      <3> QED BY <3>1, <3>2
    <2> HIDE DEF S
    <2>3. Nat \subseteq S
      BY <2>1, <2>2, SetInduction
    <2> QED BY <2>3 DEF S
  <1>11. up \in [0 .. N -> V]
    <2>1. \A m \in 0 .. N : up[m] \in V
      BY <1>4, <1>10
    <2> QED BY <1>9, <2>1
  <1> QED BY <1>8, <1>9, <1>11 DEF V

\* After k steps: the requests that were completed, and those that wait.
Out(I, c, o, k) == {id \in I : c[id] # None /\ \E j \in 1 .. k : o[j] = CStep(c, id)}
Waiting(I, d, c, o, k) == {id \in I : \E j \in 1 .. k : o[j] = DStep(d, id)} \ Out(I, c, o, k)

\* Until when, after k steps.
Time(o, k) == IF k = 0 THEN o[1].ts ELSE o[k].ts

\* How long each waited until then.
Spent(I, d, c, o, k) ==
  [id \in I |-> IF id \in Waiting(I, d, c, o, k) THEN Time(o, k) - d[id]
                ELSE IF id \in Out(I, c, o, k) THEN c[id] - d[id] ELSE 0]

\* A delivery is never behind the completion of the same request.
LEMMA DeliveredFirst ==
  ASSUME NEW I, NEW d, NEW c, Lives(I, d, c), NEW o, NEW n, Queued(I, d, c, o, n),
         NEW id \in I, NEW j \in 1 .. n, NEW k \in 1 .. n,
         c[id] # None, o[j] = DStep(d, id), o[k] = CStep(c, id)
  PROVE  j < k
  <1>1. d[id] \in Nat /\ c[id] \in Nat /\ d[id] <= c[id]
    BY DEF Lives
  <1>2. ~StepBefore(CStep(c, id), DStep(d, id))
    BY <1>1 DEF StepBefore, CStep, DStep
  <1>3. DStep(d, id) # CStep(c, id)
    <2>1. DStep(d, id).delta = 1 /\ CStep(c, id).delta = -1
      BY DEF CStep, DStep
    <2> QED BY <2>1
  <1>4. j # k /\ ~(k < j)
    BY <1>2, <1>3 DEF Queued
  <1>5. n \in Nat
    BY DEF Queued
  <1> QED BY <1>4, <1>5

\* A step lets one request in or out.
LEMMA OneStep ==
  ASSUME NEW I, NEW d, NEW c, Lives(I, d, c), NEW o, NEW n, Queued(I, d, c, o, n),
         NEW k \in Nat, k + 1 <= n
  PROVE  LET W == Waiting(I, d, c, o, k)
             O == Out(I, c, o, k)
         IN \E id \in I :
              \/ /\ o[k + 1] = DStep(d, id) /\ id \notin W /\ id \notin O
                 /\ Waiting(I, d, c, o, k + 1) = W \union {id} /\ Out(I, c, o, k + 1) = O
              \/ /\ c[id] # None /\ o[k + 1] = CStep(c, id) /\ id \in W
                 /\ Waiting(I, d, c, o, k + 1) = W \ {id} /\ Out(I, c, o, k + 1) = O \union {id}
  <1> DEFINE W == Waiting(I, d, c, o, k)
             O == Out(I, c, o, k)
             W1 == Waiting(I, d, c, o, k + 1)
             O1 == Out(I, c, o, k + 1)
             D(i) == DStep(d, i)
             C(i) == CStep(c, i)
  <1>1. /\ n \in Nat /\ k + 1 \in 1 .. n
        /\ \A j : j \in 1 .. k + 1 <=> (j \in 1 .. k \/ j = k + 1)
        /\ \A j : j \in 1 .. k => j \in 1 .. n /\ j # k + 1
    <2>1. n \in Nat
      BY DEF Queued
    <2> QED BY <2>1
  <1>2. /\ \A i, e : D(i) # C(e)
        /\ \A i, e : D(i) = D(e) => i = e
        /\ \A i, e : C(i) = C(e) => i = e
    <2>1. \A i : D(i).delta = 1 /\ C(i).delta = -1 /\ D(i).id = i /\ C(i).id = i
      BY DEF CStep, DStep
    <2> HIDE DEF D, C
    <2>2. ASSUME NEW i, NEW e, D(i) = C(e) PROVE FALSE
      <3>1. D(i).delta = 1 /\ C(e).delta = -1
        BY <2>1
      <3>2. D(i).delta = C(e).delta
        BY <2>2
      <3> QED BY <3>1, <3>2
    <2> QED BY <2>1, <2>2
  <1>3. /\ \A i : i \in O <=> i \in I /\ c[i] # None /\ \E j \in 1 .. k : o[j] = C(i)
        /\ \A i : i \in O1 <=> i \in I /\ c[i] # None /\ \E j \in 1 .. k + 1 : o[j] = C(i)
        /\ \A i : i \in W <=> i \in I /\ i \notin O /\ \E j \in 1 .. k : o[j] = D(i)
        /\ \A i : i \in W1 <=> i \in I /\ i \notin O1 /\ \E j \in 1 .. k + 1 : o[j] = D(i)
    BY DEF Out, Waiting
  <1> HIDE DEF W, O, W1, O1, D, C
  <1>4. PICK id \in I : o[k + 1] = D(id) \/ (c[id] # None /\ o[k + 1] = C(id))
    BY <1>1 DEF Queued, D, C
  <1>5. \A j \in 1 .. n : o[j] = o[k + 1] => j = k + 1
    BY <1>1 DEF Queued
  <1>6. CASE o[k + 1] = D(id)
    <2>1. \A j \in 1 .. k : o[j] # D(id)
      BY <1>1, <1>5, <1>6
    <2>2. \A j \in 1 .. k : c[id] # None => o[j] # C(id)
      <3> SUFFICES ASSUME NEW j \in 1 .. k, c[id] # None, o[j] = C(id) PROVE FALSE
        OBVIOUS
      <3>1. j \in 1 .. n
        BY <1>1
      <3>2. k + 1 < j
        BY <1>1, <1>6, <3>1, DeliveredFirst DEF C, D
      <3> QED BY <3>2
    <2>3. id \notin W /\ id \notin O
      BY <1>3, <2>1, <2>2
    <2>4. O1 = O
      <3>1. \A i : o[k + 1] # C(i)
        BY <1>2, <1>6
      <3>2. \A i : i \in O1 <=> i \in O
        BY <1>1, <1>3, <3>1
      <3> QED BY <3>2 DEF O, O1, Out
    <2>5. W1 = W \union {id}
      <3>1. \A i : i \in W1 <=> i \in W \/ i = id
        BY <1>1, <1>2, <1>3, <1>6, <2>3, <2>4
      <3> QED BY <3>1
    <2> QED BY <1>6, <2>3, <2>4, <2>5 DEF W, O, W1, O1, D
  <1>7. CASE c[id] # None /\ o[k + 1] = C(id)
    <2>1. id \notin O
      BY <1>1, <1>3, <1>5, <1>7
    <2>2. \E j \in 1 .. k : o[j] = D(id)
      <3>1. PICK j \in 1 .. n : o[j] = D(id)
        BY DEF Queued, D
      <3>2. j < k + 1
        BY <1>1, <1>7, <3>1, DeliveredFirst DEF C, D
      <3>3. j \in 1 .. k
        BY <1>1, <3>2
      <3> QED BY <3>1, <3>3
    <2>3. id \in W
      BY <1>3, <2>1, <2>2
    <2>4. O1 = O \union {id}
      <3>1. \A i : i \in O1 <=> i \in O \/ i = id
        BY <1>1, <1>2, <1>3, <1>7
      <3> QED BY <3>1
    <2>5. W1 = W \ {id}
      <3>1. \A i : o[k + 1] # D(i)
        BY <1>2, <1>7
      <3>2. \A i : i \in W1 <=> i \in W /\ i # id
        BY <1>1, <1>3, <2>4, <3>1
      <3> QED BY <3>2
    <2> QED BY <1>7, <2>3, <2>4, <2>5 DEF W, O, W1, O1, C
  <1> QED BY <1>4, <1>6, <1>7

\* Before the first step nothing waits, after the last what has no end.
LEMMA AtTheEnds ==
  ASSUME NEW I, NEW d, NEW c, Lives(I, d, c), NEW o, NEW n, Queued(I, d, c, o, n)
  PROVE  /\ Waiting(I, d, c, o, 0) = {} /\ Out(I, c, o, 0) = {}
         /\ \A id \in I : id \in Waiting(I, d, c, o, n) <=> c[id] = None
         /\ \A id \in I : id \in Out(I, c, o, n) <=> c[id] # None
  <1>1. \A j : j \notin 1 .. 0
    OBVIOUS
  <1>2. Waiting(I, d, c, o, 0) = {} /\ Out(I, c, o, 0) = {}
    BY <1>1 DEF Waiting, Out
  <1>3. \A id \in I : id \in Out(I, c, o, n) <=> c[id] # None
    BY DEF Out, Queued
  <1>4. \A id \in I : id \in Waiting(I, d, c, o, n) <=> c[id] = None
    BY <1>3 DEF Waiting, Queued
  <1> QED BY <1>2, <1>3, <1>4

\* Steps are in the order of time, and take those of the queue in.
LEMMA TimeGoes ==
  ASSUME NEW I, NEW d, NEW c, Lives(I, d, c), NEW o, NEW n, Queued(I, d, c, o, n)
  PROVE  /\ \A k \in 1 .. n : o[k].ts \in Nat /\ o[k].delta \in {-1, 1}
         /\ \A j, k \in 1 .. n : j <= k => o[j].ts <= o[k].ts
  <1>1. \A k \in 1 .. n : \E id \in I : o[k] = DStep(d, id) \/ (c[id] # None /\ o[k] = CStep(c, id))
    BY DEF Queued
  <1>2. \A id \in I : d[id] \in Nat /\ (c[id] # None => c[id] \in Nat)
    BY DEF Lives
  <1>3. \A k \in 1 .. n : o[k].ts \in Nat /\ o[k].delta \in {-1, 1}
    <2> SUFFICES ASSUME NEW k \in 1 .. n PROVE o[k].ts \in Nat /\ o[k].delta \in {-1, 1}
      OBVIOUS
    <2>1. PICK id \in I : o[k] = DStep(d, id) \/ (c[id] # None /\ o[k] = CStep(c, id))
      BY <1>1
    <2> QED BY <1>2, <2>1 DEF DStep, CStep
  <1>4. n \in Nat /\ \A j, k \in 1 .. n : j < k => StepBefore(o[j], o[k])
    BY DEF Queued
  <1>5. ASSUME NEW j \in 1 .. n, NEW k \in 1 .. n, j <= k PROVE o[j].ts <= o[k].ts
    <2>1. CASE j = k
      BY <1>3, <2>1
    <2>2. CASE j < k
      BY <1>3, <1>4, <2>2 DEF StepBefore
    <2> QED BY <1>4, <1>5, <2>1, <2>2
  <1> QED BY <1>3, <1>5

\* A step adds to the time spent what passed for all that waited.
LEMMA SpentGrows ==
  ASSUME NEW I, NEW d, NEW c, Lives(I, d, c), NEW o, NEW n, Queued(I, d, c, o, n),
         NEW k \in Nat, k + 1 <= n
  PROVE  \A id \in I : Spent(I, d, c, o, k + 1)[id] =
           Spent(I, d, c, o, k)[id] + IF id \in Waiting(I, d, c, o, k) THEN Time(o, k + 1) - Time(o, k) ELSE 0
  <1> DEFINE W == Waiting(I, d, c, o, k)
             O == Out(I, c, o, k)
             W1 == Waiting(I, d, c, o, k + 1)
             O1 == Out(I, c, o, k + 1)
             t == Time(o, k)
             t1 == Time(o, k + 1)
  <1>1. PICK at \in I :
          \/ /\ o[k + 1] = DStep(d, at) /\ at \notin W /\ at \notin O
             /\ W1 = W \union {at} /\ O1 = O
          \/ /\ c[at] # None /\ o[k + 1] = CStep(c, at) /\ at \in W
             /\ W1 = W \ {at} /\ O1 = O \union {at}
    BY OneStep
  <1>2. /\ n \in Nat /\ k + 1 \in 1 .. n /\ 1 \in 1 .. n
        /\ t1 = o[k + 1].ts /\ t \in Nat /\ t1 \in Nat
    <2>1. n \in Nat
      BY DEF Queued
    <2>2. k + 1 \in 1 .. n /\ 1 \in 1 .. n /\ k + 1 # 0 /\ (k # 0 => k \in 1 .. n)
      BY <2>1
    <2> QED BY <2>1, <2>2, TimeGoes DEF Time
  <1> SUFFICES ASSUME NEW id \in I
               PROVE  Spent(I, d, c, o, k + 1)[id] = Spent(I, d, c, o, k)[id] + IF id \in W THEN t1 - t ELSE 0
    OBVIOUS
  <1>3. /\ Spent(I, d, c, o, k)[id] = IF id \in W THEN t - d[id] ELSE IF id \in O THEN c[id] - d[id] ELSE 0
        /\ Spent(I, d, c, o, k + 1)[id] = IF id \in W1 THEN t1 - d[id] ELSE IF id \in O1 THEN c[id] - d[id] ELSE 0
    BY DEF Spent
  <1>4. d[id] \in Nat /\ (c[id] # None => c[id] \in Nat) /\ (id \in O => c[id] # None)
    BY DEF Lives, Out
  <1> HIDE DEF W, O, W1, O1, t, t1
  <1>5. CASE o[k + 1] = DStep(d, at) /\ at \notin W /\ at \notin O /\ W1 = W \union {at} /\ O1 = O
    <2>1. t1 = d[at]
      BY <1>2, <1>5 DEF DStep
    <2>2. CASE id = at
      BY <1>2, <1>3, <1>4, <1>5, <2>1, <2>2
    <2>3. CASE id # at
      BY <1>2, <1>3, <1>4, <1>5, <2>3
    <2> QED BY <2>2, <2>3
  <1>6. CASE c[at] # None /\ o[k + 1] = CStep(c, at) /\ at \in W /\ W1 = W \ {at} /\ O1 = O \union {at}
    <2>1. t1 = c[at]
      BY <1>2, <1>6 DEF CStep
    <2>2. CASE id = at
      BY <1>2, <1>3, <1>4, <1>6, <2>1, <2>2
    <2>3. CASE id # at
      BY <1>2, <1>3, <1>4, <1>6, <2>3
    <2> QED BY <2>2, <2>3
  <1> QED BY <1>1, <1>5, <1>6

\* What the walk has at its kth step.
Walked(I, d, c, o, w, k) ==
  /\ w[k].depth = Cardinality(Waiting(I, d, c, o, k)) /\ w[k].ts = Time(o, k)
  /\ w[k].area = Total(I, Spent(I, d, c, o, k))
  /\ \A j \in 0 .. k : Cardinality(Waiting(I, d, c, o, j)) <= w[k].peak
  /\ \E j \in 0 .. k : Cardinality(Waiting(I, d, c, o, j)) = w[k].peak

SpentTypes(I, d, c, o, n) == \A k \in 0 .. n : Spent(I, d, c, o, k) \in [I -> Int]

\* The time spent is a number.
LEMMA SpentTyped ==
  ASSUME NEW I, NEW d, NEW c, Lives(I, d, c), NEW o, NEW n, Queued(I, d, c, o, n), n >= 1
  PROVE  SpentTypes(I, d, c, o, n)
  <1> SUFFICES ASSUME NEW k \in 0 .. n PROVE Spent(I, d, c, o, k) \in [I -> Int]
    BY DEF SpentTypes
  <1>1. n \in Nat
    BY DEF Queued
  <1>2. Time(o, k) \in Nat
    <2>1. 1 \in 1 .. n /\ (k # 0 => k \in 1 .. n)
      BY <1>1
    <2> QED BY <2>1, TimeGoes DEF Time
  <1>3. \A id \in I : d[id] \in Nat /\ (c[id] # None => c[id] \in Nat) /\ (id \in Out(I, c, o, k) => c[id] # None)
    BY DEF Lives, Out
  <1> QED BY <1>2, <1>3 DEF Spent

\* At each step the walk has as its depth how many wait, as its peak the largest
\* depth so far, as its area the time spent.
LEMMA WalkGoes ==
  ASSUME NEW I, NEW d, NEW c, Lives(I, d, c), NEW o, NEW n, Queued(I, d, c, o, n), n >= 1,
         NEW w \in [0 .. n -> WalkStates], w[0] = AtFirst(o),
         \A k \in 1 .. n : w[k] = WalkStep(w[k - 1], o[k])
  PROVE  Walked(I, d, c, o, w, n)
  <1> DEFINE W(k) == Waiting(I, d, c, o, k)
             S == {k \in Nat : k <= n => Walked(I, d, c, o, w, k)}
  <1>1. n \in Nat /\ IsFiniteSet(I)
    BY DEF Queued, Lives
  <1>2. \A k : IsFiniteSet(W(k)) /\ Cardinality(W(k)) \in Nat /\ W(k) \in SUBSET I
    <2> TAKE k
    <2>1. W(k) \in SUBSET I
      BY DEF Waiting
    <2> HIDE DEF W
    <2> QED BY <1>1, <2>1, CardOf
  <1>3. 0 \in S
    <2>1. W(0) = {} /\ Out(I, c, o, 0) = {}
      BY AtTheEnds
    <2>2. Cardinality(W(0)) = 0
      <3> HIDE DEF W
      <3> QED BY <2>1, FS_EmptySet
    <2>3. Total(I, Spent(I, d, c, o, 0)) = 0
      <3> DEFINE f == Spent(I, d, c, o, 0)
      <3>1. f \in [I -> Int]
        <4>1. 0 \in 0 .. n
          BY <1>1
        <4> QED BY <4>1, SpentTyped DEF SpentTypes
      <3>2. \A id \in I : f[id] = 0
        BY <2>1 DEF Spent
      <3> HIDE DEF f, S, W
      <3>3. Total(I, f) = 0
        BY <1>1, <3>1, <3>2, TotalOfZeros
      <3> QED BY <3>3 DEF f
    <2>4. w[0].depth = 0 /\ w[0].peak = 0 /\ w[0].area = 0 /\ w[0].ts = Time(o, 0)
      BY DEF AtFirst, Time
    <2>5. \A j \in 0 .. 0 : j = 0
      OBVIOUS
    <2>6. Walked(I, d, c, o, w, 0)
      BY <2>2, <2>3, <2>4, <2>5 DEF Walked
    <2> QED BY <2>6
  <1>4. ASSUME NEW k \in Nat, k \in S PROVE k + 1 \in S
    <2> SUFFICES ASSUME k + 1 <= n PROVE Walked(I, d, c, o, w, k + 1)
      OBVIOUS
    <2> DEFINE v == w[k]
               u == w[k + 1]
               a == Cardinality(W(k))
               b == Cardinality(W(k + 1))
    <2>1. k + 1 \in 1 .. n /\ k \in 0 .. n /\ k + 1 \in 0 .. n /\ (k + 1) - 1 = k
      BY <1>1
    <2>2. Walked(I, d, c, o, w, k)
      BY <1>1, <1>4, <2>1
    <2>3. v \in WalkStates /\ u = WalkStep(v, o[k + 1]) /\ o[k + 1].ts \in Nat /\ o[k + 1].delta \in {-1, 1}
      BY <2>1, TimeGoes
    <2>4. /\ u.ts = o[k + 1].ts
          /\ u.depth = IF v.depth + o[k + 1].delta >= 0 THEN v.depth + o[k + 1].delta ELSE 0
          /\ u.peak = IF u.depth >= v.peak THEN u.depth ELSE v.peak
          /\ u.area = v.area + v.depth * (o[k + 1].ts - v.ts)
      BY <2>3, WalkStepIs
    <2>5. v.depth = a /\ v.ts = Time(o, k) /\ v.area = Total(I, Spent(I, d, c, o, k)) /\ v.peak \in Nat
      BY <2>2, <2>3 DEF Walked, WalkStates
    <2>6. Time(o, k + 1) = o[k + 1].ts
      BY <2>1 DEF Time
    <2>7. u.depth = b
      <3>1. PICK at \in I :
              \/ o[k + 1] = DStep(d, at) /\ at \notin W(k) /\ W(k + 1) = W(k) \union {at}
              \/ o[k + 1] = CStep(c, at) /\ at \in W(k) /\ W(k + 1) = W(k) \ {at}
        BY OneStep
      <3>2. IsFiniteSet(W(k)) /\ a \in Nat /\ b \in Nat
        BY <1>2
      <3> HIDE DEF u, v, W
      <3>3. CASE o[k + 1] = DStep(d, at) /\ at \notin W(k) /\ W(k + 1) = W(k) \union {at}
        <4>1. b = a + 1 /\ o[k + 1].delta = 1
          BY <3>2, <3>3, OneMore DEF DStep
        <4> QED BY <2>4, <2>5, <3>2, <4>1
      <3>4. CASE o[k + 1] = CStep(c, at) /\ at \in W(k) /\ W(k + 1) = W(k) \ {at}
        <4>1. b = a - 1 /\ o[k + 1].delta = -1
          BY <3>2, <3>4, FS_RemoveElement DEF CStep
        <4> QED BY <2>4, <2>5, <3>2, <4>1
      <3> QED BY <3>1, <3>3, <3>4
    <2>8. u.area = Total(I, Spent(I, d, c, o, k + 1))
      <3> DEFINE f == Spent(I, d, c, o, k)
                 g == Spent(I, d, c, o, k + 1)
                 X == W(k)
                 more == Time(o, k + 1) - Time(o, k)
      <3>1. f \in [I -> Int] /\ g \in [I -> Int]
        BY <2>1, SpentTyped DEF SpentTypes
      <3>2. GrownOn(I, f, g, X, more)
        <4>1. \A id \in I : g[id] = f[id] + IF id \in X THEN more ELSE 0
          BY SpentGrows
        <4>2. \A id \in I : f[id] \in Int
          BY <3>1
        <4>3. X \in SUBSET I
          BY <1>2
        <4> HIDE DEF f, g, X, more
        <4> QED BY <4>1, <4>2, <4>3 DEF GrownOn
      <3>3. Time(o, k) \in Nat
        BY <2>3, <2>5 DEF WalkStates
      <3>4. more \in Int
        BY <2>3, <2>6, <3>3
      <3>5. X \in SUBSET I
        BY <1>2
      <3>7. f = Spent(I, d, c, o, k) /\ g = Spent(I, d, c, o, k + 1) /\ a = Cardinality(X)
        OBVIOUS
      <3> HIDE DEF f, g, X, more, S, W, a, b, u, v
      <3>6. Total(I, g) = Total(I, f) + Cardinality(X) * more
        BY <1>1, <3>1, <3>2, <3>4, <3>5, TotalGrows
      <3> QED BY <2>4, <2>5, <2>6, <3>6, <3>7 DEF more
    <2>9. u.peak = IF b >= v.peak THEN b ELSE v.peak
      BY <2>4, <2>7
    <2>10. /\ \A j \in 0 .. k : Cardinality(W(j)) <= v.peak
           /\ \E j \in 0 .. k : Cardinality(W(j)) = v.peak
      BY <2>2 DEF Walked
    <2> HIDE DEF u, v
    <2>11. b \in Nat /\ \A j : Cardinality(W(j)) \in Nat
      BY <1>2
    <2> HIDE DEF W
    <2>12. \A j \in 0 .. k + 1 : Cardinality(W(j)) <= u.peak
      <3> SUFFICES ASSUME NEW j \in 0 .. k + 1 PROVE Cardinality(W(j)) <= u.peak
        OBVIOUS
      <3>1. CASE j = k + 1
        BY <2>5, <2>9, <2>11, <3>1
      <3>2. CASE j # k + 1
        <4>1. j \in 0 .. k
          BY <3>2
        <4> QED BY <2>5, <2>9, <2>10, <2>11, <4>1
      <3> QED BY <3>1, <3>2
    <2>13. \E j \in 0 .. k + 1 : Cardinality(W(j)) = u.peak
      <3>1. CASE b >= v.peak
        <4>1. k + 1 \in 0 .. k + 1 /\ Cardinality(W(k + 1)) = u.peak
          BY <2>9, <3>1
        <4> QED BY <4>1
      <3>2. CASE ~(b >= v.peak)
        <4>1. \A j \in 0 .. k : j \in 0 .. k + 1
          OBVIOUS
        <4> QED BY <2>9, <2>10, <3>2, <4>1
      <3> QED BY <3>1, <3>2
    <2> QED BY <2>4, <2>6, <2>7, <2>8, <2>12, <2>13 DEF Walked, u, v, W
  <1>5. Nat \subseteq S
    <2> HIDE DEF S
    <2> QED BY <1>3, <1>4, SetInduction
  <1>6. n \in S
    <2> HIDE DEF S
    <2> QED BY <1>1, <1>5
  <1> QED BY <1>1, <1>6

\* Who waits at a time.
AtTime(I, d, c, t) == {id \in I : d[id] <= t /\ (c[id] = None \/ t <= c[id])}

\* Who waits after a step, waits at its time.
LEMMA WaitingAtTime ==
  ASSUME NEW I, NEW d, NEW c, Lives(I, d, c), NEW o, NEW n, Queued(I, d, c, o, n), NEW k \in 1 .. n
  PROVE  Waiting(I, d, c, o, k) \subseteq AtTime(I, d, c, o[k].ts)
  <1> SUFFICES ASSUME NEW id \in Waiting(I, d, c, o, k) PROVE id \in AtTime(I, d, c, o[k].ts)
    OBVIOUS
  <1>1. n \in Nat /\ id \in I /\ id \notin Out(I, c, o, k)
    BY DEF Queued, Waiting
  <1>2. PICK j \in 1 .. k : o[j] = DStep(d, id)
    BY DEF Waiting
  <1>3. o[j].ts = d[id] /\ j \in 1 .. n /\ j <= k
    BY <1>1, <1>2 DEF DStep
  <1>4. d[id] <= o[k].ts
    BY <1>3, TimeGoes
  <1>5. c[id] # None => o[k].ts <= c[id]
    <2> HAVE c[id] # None
    <2>1. PICK l \in 1 .. n : o[l] = CStep(c, id)
      BY <1>1 DEF Queued
    <2>2. l \notin 1 .. k
      BY <1>1, <2>1 DEF Out
    <2>3. k <= l /\ o[l].ts = c[id]
      BY <1>1, <2>1, <2>2 DEF CStep
    <2> QED BY <2>3, TimeGoes
  <1> QED BY <1>1, <1>4, <1>5 DEF AtTime

\* Who waits at a time, waits after one step.
LEMMA AtTimeWaiting ==
  ASSUME NEW I, NEW d, NEW c, Lives(I, d, c), NEW o, NEW n, Queued(I, d, c, o, n), NEW t \in Nat
  PROVE  \E k \in 0 .. n : AtTime(I, d, c, t) \subseteq Waiting(I, d, c, o, k)
  <1> DEFINE Q == {k \in 1 .. n : o[k].ts < t \/ (o[k].ts = t /\ o[k].delta = 1)}
  <1>1. n \in Nat
    BY DEF Queued
  <1>2. \A k \in 1 .. n : o[k].ts \in Nat /\ o[k].delta \in {-1, 1}
    BY TimeGoes
  <1>3. ASSUME NEW j \in 1 .. n, NEW k \in Q, j < k PROVE j \in Q
    <2>1. StepBefore(o[j], o[k])
      BY <1>3 DEF Queued
    <2>2. k \in 1 .. n /\ (o[k].ts < t \/ (o[k].ts = t /\ o[k].delta = 1))
      OBVIOUS
    <2>3. o[j].ts < t \/ (o[j].ts = t /\ o[j].delta = 1)
      BY <1>2, <2>1, <2>2 DEF StepBefore
    <2> QED BY <2>3
  <1>4. PICK k \in 0 .. n : \A j \in 1 .. n : j \in Q <=> j <= k
    <2>1. CASE Q = {}
      <3>1. 0 \in 0 .. n /\ \A j \in 1 .. n : j \in Q <=> j <= 0
        <4> HIDE DEF Q
        <4> QED BY <1>1, <2>1
      <3> QED BY <3>1
    <2>2. CASE Q # {}
      <3>1. Q \in SUBSET Nat /\ (\A k \in Q : k <= n) /\ Q \subseteq 1 .. n
        BY <1>1
      <3> HIDE DEF Q
      <3>2. Max(Q) \in Q /\ \A k \in Q : k <= Max(Q)
        BY <1>1, <2>2, <3>1, MaxFacts
      <3>3. Max(Q) \in 0 .. n /\ \A j \in 1 .. n : j \in Q <=> j <= Max(Q)
        <4> DEFINE q == Max(Q)
        <4>1. q \in Q /\ (\A k \in Q : k <= q) /\ q \in 1 .. n
          BY <3>1, <3>2
        <4> HIDE DEF q
        <4>2. \A j \in 1 .. n : j < q => j \in Q
          BY <1>3, <4>1
        <4>3. q \in 0 .. n /\ \A j \in 1 .. n : j \in Q <=> j <= q
          BY <1>1, <4>1, <4>2
        <4> QED BY <4>3 DEF q
      <3> QED BY <3>3
    <2> QED BY <2>1, <2>2
  <1> SUFFICES ASSUME NEW id \in AtTime(I, d, c, t) PROVE id \in Waiting(I, d, c, o, k)
    OBVIOUS
  <1>5. id \in I /\ d[id] \in Nat /\ d[id] <= t /\ (c[id] # None => c[id] \in Nat /\ t <= c[id])
    BY DEF AtTime, Lives
  <1>6. \E j \in 1 .. k : o[j] = DStep(d, id)
    <2>1. PICK j \in 1 .. n : o[j] = DStep(d, id)
      BY <1>5 DEF Queued
    <2>2. j \in Q
      BY <1>5, <2>1 DEF DStep
    <2> HIDE DEF Q
    <2>3. j \in 1 .. k
      BY <1>1, <1>4, <2>2
    <2> QED BY <2>1, <2>3
  <1>7. id \notin Out(I, c, o, k)
    <2> SUFFICES ASSUME c[id] # None, NEW j \in 1 .. k, o[j] = CStep(c, id) PROVE FALSE
      BY DEF Out
    <2>1. j \in 1 .. n /\ j <= k
      BY <1>1
    <2>2. j \notin Q
      BY <1>5, <2>1 DEF CStep
    <2> HIDE DEF Q
    <2> QED BY <1>4, <2>1, <2>2
  <1> QED BY <1>5, <1>6, <1>7 DEF Waiting

\* What the walk over the steps says of who waited.
QueueWalked(I, d, c, o, n) ==
  /\ n >= 1
  /\ \A t \in Nat : Cardinality(AtTime(I, d, c, t)) <= Walk(o).peak
  /\ \E k \in 1 .. n : Cardinality(AtTime(I, d, c, o[k].ts)) = Walk(o).peak
  /\ Walk(o).area = Total(I, [id \in I |-> (IF c[id] = None THEN o[n].ts ELSE c[id]) - d[id]])

\* The walk over the steps of requests: its peak is the largest number that waited
\* at a time, its area the time they waited until the last step.
LEMMA WalkedQueue ==
  ASSUME NEW I, NEW d, NEW c, Lives(I, d, c), I # {}, NEW o, NEW n, Queued(I, d, c, o, n), n = Len(o)
  PROVE  QueueWalked(I, d, c, o, n)
  <1> DEFINE W(k) == Waiting(I, d, c, o, k)
             A(t) == AtTime(I, d, c, t)
             p == Walk(o).peak
  <1>1. n \in Nat /\ n >= 1 /\ 1 \in 1 .. n /\ n \in 1 .. n /\ IsFiniteSet(I)
    <2>1. PICK id \in I : TRUE
      OBVIOUS
    <2>2. n \in Nat /\ \E k \in 1 .. n : o[k] = DStep(d, id)
      BY DEF Queued
    <2> QED BY <2>2 DEF Lives
  <1>2. \A k \in 1 .. n : o[k].ts \in Nat /\ o[k].delta \in {-1, 1}
    BY TimeGoes
  <1>3. PICK w \in [0 .. n -> WalkStates] :
          /\ w[0] = AtFirst(o)
          /\ \A k \in 1 .. n : w[k] = WalkStep(w[k - 1], o[k])
          /\ Walk(o) = w[n]
    BY <1>1, <1>2, WalkSteps
  <1>4. Walked(I, d, c, o, w, n)
    BY <1>1, <1>3, WalkGoes
  <1>5. /\ \A j \in 0 .. n : Cardinality(W(j)) <= p
        /\ \E j \in 0 .. n : Cardinality(W(j)) = p
        /\ Walk(o).area = Total(I, Spent(I, d, c, o, n)) /\ p \in Nat
    <2>1. w[n] \in WalkStates
      BY <1>1
    <2> QED BY <1>3, <1>4, <2>1 DEF Walked, WalkStates
  <1>6. /\ \A k : W(k) \in SUBSET I /\ IsFiniteSet(W(k)) /\ Cardinality(W(k)) \in Nat
        /\ \A t : A(t) \in SUBSET I /\ IsFiniteSet(A(t)) /\ Cardinality(A(t)) \in Nat
    <2>1. /\ \A k : W(k) \in SUBSET I
          /\ \A t : A(t) \in SUBSET I
      BY DEF Waiting, AtTime
    <2> HIDE DEF W, A
    <2> QED BY <1>1, <2>1, CardOf
  <1>7. \A t \in Nat : Cardinality(A(t)) <= p
    <2> TAKE t \in Nat
    <2>1. PICK k \in 0 .. n : A(t) \subseteq W(k)
      BY AtTimeWaiting
    <2> HIDE DEF A, W, p
    <2>2. Cardinality(A(t)) <= Cardinality(W(k))
      BY <1>6, <2>1, FS_Subset
    <2> QED BY <1>5, <1>6, <2>2
  <1>8. \E k \in 1 .. n : Cardinality(A(o[k].ts)) = p
    <2>1. PICK j \in 0 .. n : Cardinality(W(j)) = p
      BY <1>5
    <2>2. CASE j = 0
      <3>1. Cardinality(W(0)) = 0
        <4>1. W(0) = {}
          BY AtTheEnds
        <4> HIDE DEF W
        <4> QED BY <4>1, FS_EmptySet
      <3>2. Cardinality(A(o[1].ts)) = p
        <4> HIDE DEF A, W, p
        <4> QED BY <1>1, <1>2, <1>6, <1>7, <2>1, <2>2, <3>1
      <3> QED BY <1>1, <3>2
    <2>3. CASE j # 0
      <3>1. j \in 1 .. n
        BY <2>3
      <3>2. W(j) \subseteq A(o[j].ts) /\ o[j].ts \in Nat
        BY <1>2, <3>1, WaitingAtTime
      <3> HIDE DEF A, W, p
      <3>3. Cardinality(W(j)) <= Cardinality(A(o[j].ts)) /\ Cardinality(A(o[j].ts)) <= p
        BY <1>6, <1>7, <3>2, FS_Subset
      <3>4. Cardinality(A(o[j].ts)) = p
        BY <1>5, <1>6, <2>1, <3>3
      <3> QED BY <3>1, <3>4
    <2> QED BY <2>2, <2>3
  <1>9. Spent(I, d, c, o, n) = [id \in I |-> (IF c[id] = None THEN o[n].ts ELSE c[id]) - d[id]]
    <2>1. Time(o, n) = o[n].ts
      BY <1>1 DEF Time
    <2>2. \A id \in I : /\ id \in Waiting(I, d, c, o, n) <=> c[id] = None
                        /\ id \in Out(I, c, o, n) <=> c[id] # None
      BY AtTheEnds
    <2> QED BY <2>1, <2>2 DEF Spent
  <1> QED BY <1>1, <1>5, <1>7, <1>8, <1>9 DEF QueueWalked

\* When each delivered request was delivered and completed, by the rows.
DeliveredAt(g) == [id \in Delivered(g) |-> FirstTime("deliver", id)]
DoneAt(g) == [id \in Delivered(g) |-> CompletedAt(id)]

\* The lives of delivered requests all of whose events are in the trace.
LEMMA DeliveredLive ==
  ASSUME AppLogInv, NEW g, \A id \in Delivered(g) : Complete(id)
  PROVE  /\ Lives(Delivered(g), DeliveredAt(g), DoneAt(g))
         /\ \A id \in Delivered(g) :
              /\ DeliveredAt(g)[id] = Happened("deliver", id) /\ DoneAt(g)[id] = Answered(id)
              /\ DeliveredAt(g)[id] \in 1 .. appClock
              /\ DoneAt(g)[id] # None => DoneAt(g)[id] \in 1 .. appClock
  <1> DEFINE I == Delivered(g)
             d == DeliveredAt(g)
             c == DoneAt(g)
  <1>1. \A id : id \in I <=> \E n \in DOMAIN appLog : /\ appLog[n].class = "deliver" /\ appLog[n].id = id
                                                     /\ ~appLog[n].missing /\ appLog[n].data = g
    BY DEF Delivered, Ids, EventRowsOf, EventRows
  <1>2. appClock \in Nat /\ \A n \in DOMAIN appLog : appLog[n].ts \in 1 .. appClock
    <2>1. appClock \in Nat
      BY DEF AppLogInv, AppTypeOK
    <2> QED BY <2>1, EventFacts DEF AppLogInv, LoggedInTime
  <1>3. IsFiniteSet(I)
    <2> DEFINE D == DOMAIN appLog
               f == [n \in D |-> appLog[n].id]
    <2>1. IsFiniteSet(D)
      <3>1. D = 1 .. Len(appLog) /\ Len(appLog) \in Nat
        BY EventFacts
      <3>2. 1 \in Int /\ Len(appLog) \in Int
        BY <3>1
      <3> QED BY <3>1, <3>2, FS_Interval
    <2>2. DOMAIN f = D /\ f = [x \in D |-> f[x]]
      OBVIOUS
    <2>3. \A id \in I : \E x \in D : id = f[x]
      BY <1>1
    <2> HIDE DEF D, f, I
    <2> QED BY <2>1, <2>2, <2>3, ImageIsFinite
  <1>4. I \subseteq Int
    <2>1. \A id \in I : id \in Requests
      BY <1>1 DEF AppLogInv, EventsTold, HttpClasses
    <2>2. Requests \subseteq Int
      <3> DEFINE many == Cardinality(Requests)
      <3>1. Requests = 1 .. many
        BY AppLayerAssumption
      <3> HIDE DEF many
      <3>2. 1 .. many \subseteq Int
        OBVIOUS
      <3> QED BY <3>1, <3>2
    <2> QED BY <2>1, <2>2
  <1> SUFFICES ASSUME NEW id \in I
               PROVE  /\ d[id] \in Nat /\ c[id] \in Nat \union {None}
                      /\ c[id] # None => c[id] \in Nat /\ d[id] <= c[id]
                      /\ d[id] = Happened("deliver", id) /\ c[id] = Answered(id)
                      /\ d[id] \in 1 .. appClock
                      /\ c[id] # None => c[id] \in 1 .. appClock
    <2>1. d = [id \in I |-> d[id]] /\ c = [id \in I |-> c[id]]
      BY DEF DeliveredAt, DoneAt
    <2> HIDE DEF I, d, c
    <2>2. d \in [I -> Nat] /\ c \in [I -> Nat \union {None}]
      BY <2>1
    <2> QED BY <1>3, <1>4, <2>2 DEF Lives, I, d, c
  <1>5. Complete(id)
    OBVIOUS
  <1>6. d[id] = Happened("deliver", id)
    BY <1>5, FirstTimeIs DEF DeliveredAt
  <1>7. PICK n \in DOMAIN appLog : appLog[n].id = id /\ appLog[n].class = "deliver" /\ d[id] = appLog[n].ts
    <2>1. \E n \in DOMAIN appLog : appLog[n].class = "deliver" /\ appLog[n].id = id
      BY <1>1
    <2> HIDE DEF I, d
    <2> QED BY <1>6, <2>1, HappenedIs
  <1>8. c[id] = Answered(id)
    <2>1. c[id] = IF EventRowsOf("send", id) # {} THEN Happened("send", id) ELSE Happened("close", id)
      BY <1>5, FirstTimeIs DEF DoneAt, CompletedAt
    <2>2. EventRowsOf("send", id) # {} <=> Happened("send", id) # None
      <3>1. \A m : m \in EventRowsOf("send", id) <=> m \in DOMAIN appLog /\ appLog[m].id = id /\ appLog[m].class = "send"
        BY <1>5 DEF EventRowsOf, EventRows, Complete, EventsOf
      <3>2. \A m \in DOMAIN appLog : appLog[m].ts # None
        BY EventFacts, AppLayerAssumption
      <3> QED BY <3>1, <3>2, HappenedIs
    <2> HIDE DEF c
    <2> QED BY <2>1, <2>2 DEF Answered
  <1>9. ASSUME c[id] # None
        PROVE  \E m \in DOMAIN appLog : c[id] = appLog[m].ts /\ n <= m
    <2>1. PICK m \in DOMAIN appLog : /\ appLog[m].id = id /\ appLog[m].class \in {"send", "close"}
                                     /\ c[id] = appLog[m].ts
      <3> HIDE DEF I, c
      <3> QED BY <1>8, <1>9, HappenedIs DEF Answered
    <2>2. m # n /\ ~(m < n)
      <3>1. m < n => appLog[m].class = "recv"
        BY <1>7, <2>1 DEF AppLogInv, LivesGoOn
      <3> QED BY <1>7, <2>1, <3>1
    <2>3. m \in Nat /\ n \in Nat
      BY EventFacts
    <2> QED BY <2>1, <2>2, <2>3
  <1> HIDE DEF I, d, c
  <1>10. d[id] \in 1 .. appClock
    BY <1>2, <1>7
  <1>11. ASSUME c[id] # None PROVE c[id] \in 1 .. appClock /\ d[id] <= c[id]
    <2>1. PICK m \in DOMAIN appLog : c[id] = appLog[m].ts /\ n <= m
      BY <1>9, <1>11
    <2>2. appLog[n].ts <= appLog[m].ts
      BY <2>1 DEF AppLogInv, LoggedInTime
    <2> QED BY <1>2, <1>7, <2>1, <2>2
  <1> QED BY <1>2, <1>6, <1>8, <1>10, <1>11

\* As many steps out as requests that ended.
LEMMA CompletionsAre ==
  ASSUME NEW I, NEW d, NEW c, Lives(I, d, c)
  PROVE  Cardinality({s \in StepsOf(I, d, c) : s.delta = -1}) = Cardinality({id \in I : c[id] # None})
  <1> DEFINE E == {id \in I : c[id] # None}
             T == {s \in StepsOf(I, d, c) : s.delta = -1}
             f == [id \in E |-> CStep(c, id)]
  <1>1. IsFiniteSet(E)
    <2>1. IsFiniteSet(I) /\ E \in SUBSET I
      BY DEF Lives
    <2> HIDE DEF E
    <2> QED BY <2>1, FS_Subset
  <1>2. \A id : DStep(d, id).delta = 1 /\ CStep(c, id).delta = -1 /\ CStep(c, id).id = id
    BY DEF DStep, CStep
  <1>3. \A s : s \in T <=> \E id \in E : s = CStep(c, id)
    BY <1>2 DEF StepsOf
  <1> HIDE DEF E, T
  <1>4. f \in [E -> T]
    BY <1>3
  <1>5. \A i, j \in E : f[i] = f[j] => i = j
    BY <1>2
  <1>6. \A s \in T : \E id \in E : f[id] = s
    BY <1>3
  <1> HIDE DEF f
  <1>7. f \in Bijection(E, T)
    BY <1>4, <1>5, <1>6 DEF Bijection, Injection, Surjection, IsInjective
  <1>8. Cardinality(T) = Cardinality(E)
    BY <1>1, <1>7, FS_Bijection DEF ExistsBijection
  <1> QED BY <1>8 DEF E, T

\* A row of get_http_queue_depth.
LEMMA DepthRowIs ==
  ASSUME AppLogInv, NEW g, Delivered(g) # {}, \A id \in Delivered(g) : Complete(id)
  PROVE  LET row == DepthOf(g)
             ids == Delivered(g)
             ends == {Answered(id) : id \in ids} \ {None}
             until == Max({Happened("deliver", id) : id \in ids} \union ends)
             Waited(id) == (IF Answered(id) = None THEN until ELSE Answered(id)) - Happened("deliver", id)
         IN /\ row.peak = Max({Cardinality({id \in ids : WaitsAt(id, t)}) : t \in 1 .. appClock})
            /\ row.area = SumOver(ids, Waited)
            /\ row.completions = Cardinality({id \in ids : Answered(id) # None})
  <1> DEFINE I == Delivered(g)
             d == DeliveredAt(g)
             c == DoneAt(g)
             S == Steps(g)
             B == {p \in S \X S : StepBefore(p[1], p[2])}
             n == Cardinality(S)
             o == StepsInOrder(g)
             A(t) == AtTime(I, d, c, t)
             ends == {Answered(id) : id \in I} \ {None}
             times == {Happened("deliver", id) : id \in I} \union ends
             until == Max(times)
             Waited(id) == (IF Answered(id) = None THEN until ELSE Answered(id)) - Happened("deliver", id)
             counts == {Cardinality({id \in I : WaitsAt(id, t)}) : t \in 1 .. appClock}
             w == [id \in I |-> (IF c[id] = None THEN o[n].ts ELSE c[id]) - d[id]]
  <1>1. Lives(I, d, c)
    BY DeliveredLive
  <1>2. \A id \in I : /\ d[id] = Happened("deliver", id) /\ c[id] = Answered(id)
                      /\ d[id] \in 1 .. appClock /\ (c[id] # None => c[id] \in 1 .. appClock)
    BY DeliveredLive
  <1>3. S = StepsOf(I, d, c)
    BY DEF Steps, StepsOf, DStep, CStep, DeliveredAt, DoneAt
  <1>4. \A x, y \in S : <<x, y>> \in B <=> StepBefore(x, y)
    OBVIOUS
  <1>5. o = SetInOrder(S, B)
    BY DEF StepsInOrder
  <1> HIDE DEF S, B, o, d, c, n
  <1>6. Queued(I, d, c, o, n) /\ o \in [1 .. n -> S]
    BY <1>1, <1>3, <1>4, <1>5, StepsQueued DEF n
  <1>7. n \in Nat /\ Len(o) = n
    <2>1. n \in Nat
      BY <1>6 DEF Queued
    <2> QED BY <1>6, <2>1
  <1>8. /\ n >= 1
        /\ \A t \in Nat : Cardinality(A(t)) <= Walk(o).peak
        /\ \E k \in 1 .. n : Cardinality(A(o[k].ts)) = Walk(o).peak
        /\ Walk(o).area = Total(I, w)
    <2>1. I # {}
      OBVIOUS
    <2> HIDE DEF I, A, w
    <2>2. QueueWalked(I, d, c, o, n)
      BY <1>1, <1>6, <1>7, <2>1, WalkedQueue
    <2> QED BY <2>2 DEF QueueWalked, A, w
  <1>9. \A k \in 1 .. n : \E id \in I : o[k].ts = d[id] \/ (c[id] # None /\ o[k].ts = c[id])
    <2> SUFFICES ASSUME NEW k \in 1 .. n PROVE \E id \in I : o[k].ts = d[id] \/ (c[id] # None /\ o[k].ts = c[id])
      OBVIOUS
    <2>1. PICK id \in I : o[k] = DStep(d, id) \/ (c[id] # None /\ o[k] = CStep(c, id))
      BY <1>6 DEF Queued
    <2> QED BY <2>1 DEF DStep, CStep
  <1>10. appClock \in Nat
    BY DEF AppLogInv, AppTypeOK
  <1>11. \A t : {id \in I : WaitsAt(id, t)} = A(t)
    BY <1>2 DEF WaitsAt, AtTime
  <1>12. \A t : Cardinality(A(t)) \in Nat
    <2>1. IsFiniteSet(I) /\ \A t : A(t) \in SUBSET I
      BY <1>1 DEF Lives, AtTime
    <2> HIDE DEF A, I
    <2> QED BY <2>1, CardOf
  <1>13. Walk(o).peak = Max(counts)
    <2>1. counts = {Cardinality(A(t)) : t \in 1 .. appClock}
      BY <1>11
    <2>2. PICK k \in 1 .. n : Cardinality(A(o[k].ts)) = Walk(o).peak
      BY <1>8
    <2>3. o[k].ts \in 1 .. appClock
      BY <1>2, <1>9
    <2> HIDE DEF A, counts, I
    <2>4. counts \in SUBSET Int /\ Walk(o).peak \in counts
      BY <1>12, <2>1, <2>2, <2>3
    <2>5. \A y \in counts : y <= Walk(o).peak
      <3>1. \A t \in 1 .. appClock : t \in Nat
        OBVIOUS
      <3> QED BY <1>8, <2>1, <3>1
    <2> QED BY <2>4, <2>5, MaxIs
  <1>14. until = o[n].ts
    <2>1. \A y : y \in times <=> \E id \in I : y = d[id] \/ (c[id] # None /\ y = c[id])
      BY <1>2
    <2>2. times \in SUBSET Int
      <3> SUFFICES ASSUME NEW y \in times PROVE y \in Int
        OBVIOUS
      <3>1. PICK id \in I : y = d[id] \/ (c[id] # None /\ y = c[id])
        BY <2>1
      <3> HIDE DEF I, times
      <3> QED BY <1>2, <3>1
    <2> HIDE DEF times, I
    <2>3. o[n].ts \in times
      <3>1. n \in 1 .. n
        BY <1>7, <1>8
      <3> QED BY <1>9, <2>1, <3>1
    <2>4. \A y \in times : y <= o[n].ts
      <3> SUFFICES ASSUME NEW y \in times PROVE y <= o[n].ts
        OBVIOUS
      <3>1. PICK id \in I : y = d[id] \/ (c[id] # None /\ y = c[id])
        BY <2>1
      <3>2. PICK k \in 1 .. n : y = o[k].ts
        <4>1. CASE y = d[id]
          <5>1. PICK k \in 1 .. n : o[k] = DStep(d, id)
            BY <1>6 DEF Queued
          <5> QED BY <4>1, <5>1 DEF DStep
        <4>2. CASE c[id] # None /\ y = c[id]
          <5>1. PICK k \in 1 .. n : o[k] = CStep(c, id)
            BY <1>6, <4>2 DEF Queued
          <5> QED BY <4>2, <5>1 DEF CStep
        <4> QED BY <3>1, <4>1, <4>2
      <3>3. k <= n /\ n \in 1 .. n
        BY <1>7
      <3> QED BY <1>1, <1>6, <3>2, <3>3, TimeGoes
    <2> QED BY <2>2, <2>3, <2>4, MaxIs
  <1>15. Walk(o).area = SumOver(I, Waited)
    <2>1. w = [id \in I |-> Waited(id)]
      <3>1. \A id \in I : (IF c[id] = None THEN o[n].ts ELSE c[id]) - d[id] = Waited(id)
        <4> HIDE DEF I, until
        <4> QED BY <1>2, <1>14
      <3> HIDE DEF I, Waited
      <3> QED BY <3>1
    <2> HIDE DEF w, I, Waited
    <2>2. SumOver(I, Waited) = Total(I, w)
      BY <2>1 DEF SumOver, Total, MapThenSumSet, MapThenFoldSet
    <2> QED BY <1>8, <2>2
  <1>16. Cardinality({s \in S : s.delta = -1}) = Cardinality({id \in I : Answered(id) # None})
    <2>1. {id \in I : c[id] # None} = {id \in I : Answered(id) # None}
      BY <1>2
    <2>2. Cardinality({s \in S : s.delta = -1}) = Cardinality({id \in I : c[id] # None})
      <3> HIDE DEF I
      <3> QED BY <1>1, <1>3, CompletionsAre
    <2> QED BY <2>1, <2>2
  <1>17. DepthOf(g).peak = Walk(o).peak /\ DepthOf(g).area = Walk(o).area
         /\ DepthOf(g).completions = Cardinality({s \in S : s.delta = -1})
    BY DEF DepthOf, o, S
  <1> HIDE DEF counts, Waited, I
  <1> QED BY <1>13, <1>15, <1>16, <1>17 DEF counts, Waited, I

\* The answers of get_http_queue_depth (app_layer.py) are exact.
LEMMA DepthAre ==
  ASSUME AppLogInv, NEW ask, appAnswer = HttpQueueDepth(ask), ask.tool = "depth", AppAnswered("depth")
  PROVE  DepthExact
  <1> DEFINE G == {appLog[n].data : n \in EventRows("deliver")}
  <1>1. appAnswer.ask = ask /\ appAnswer.table = [g \in G |-> DepthOf(g)]
    BY DEF HttpQueueDepth, AppAnswered
  <1>2. \A g \in G : Delivered(g) # {}
    BY DEF Delivered, Ids, EventRowsOf
  <1> HIDE DEF G
  <1>3. \A g \in DOMAIN appAnswer.table : Delivered(g) # {} /\ appAnswer.table[g] = DepthOf(g)
    BY <1>1, <1>2
  <1> QED BY <1>3, DepthRowIs DEF DepthExact

\* An answer is of the question it was asked.
LEMMA AnswerOfAsk ==
  ASSUME NEW ask \in AppAsks
  PROVE  /\ ask.tool \in {"requests", "depth", "connections", "cids", "acks"}
         /\ AnswerOf(ask).ask = ask
  <1>1. ask.tool \in {"requests", "depth", "connections", "cids", "acks"}
    BY AppLayerAssumption
  <1>2. /\ HttpRequests(ask).ask = ask /\ HttpQueueDepth(ask).ask = ask
        /\ QuicConnections(ask).ask = ask /\ CidDistribution(ask).ask = ask /\ AckPercentiles(ask).ask = ask
    BY DEF HttpRequests, HttpQueueDepth, QuicConnections, CidDistribution, AckPercentiles
  <1> QED BY <1>1, <1>2 DEF AnswerOf

\* What the invariant says of an answer makes it exact, whichever tool gave it.
LEMMA AnswersAreExact == AppLogInv /\ AnswerInv => AppLayersExact
  <1> SUFFICES ASSUME AppLogInv, AnswerInv PROVE AppLayersExact
    OBVIOUS
  <1> USE DEF AppLayersExact
  <1>1. CASE appAnswer = None
    <2>1. \A tool : ~AppAnswered(tool)
      BY <1>1 DEF AppAnswered
    <2> QED BY <2>1 DEF RequestsExact, DepthExact, ConnectionsExact, CidsExact, AcksExact
  <1>2. CASE appAnswer # None
    <2>1. PICK ask \in AppAsks : appAnswer = AnswerOf(ask)
      BY <1>2 DEF AnswerInv
    <2>2. ask.tool \in {"requests", "depth", "connections", "cids", "acks"} /\ appAnswer.ask = ask
      BY <2>1, AnswerOfAsk
    <2>3. \A tool : AppAnswered(tool) => tool = ask.tool
      BY <2>2 DEF AppAnswered
    <2>4. RequestsExact
      <3>1. AppAnswered("requests") => appAnswer = HttpRequests(ask) /\ ask.tool = "requests"
        BY <2>1, <2>3 DEF AnswerOf
      <3> QED BY <3>1, RequestsAre DEF RequestsExact
    <2>5. DepthExact
      <3>1. AppAnswered("depth") => appAnswer = HttpQueueDepth(ask) /\ ask.tool = "depth"
        BY <2>1, <2>3 DEF AnswerOf
      <3> QED BY <3>1, DepthAre DEF DepthExact
    <2>6. CidsExact
      <3>1. AppAnswered("cids") => appAnswer = CidDistribution(ask) /\ ask.tool = "cids"
        BY <2>1, <2>3 DEF AnswerOf
      <3> QED BY <3>1, CidsAre DEF CidsExact
    <2>7. AcksExact
      <3>1. AppAnswered("acks") => appAnswer = AckPercentiles(ask) /\ ask.tool = "acks"
        BY <2>1, <2>3 DEF AnswerOf
      <3> QED BY <3>1, AcksAre DEF AcksExact
    <2>8. ConnectionsExact
      <3>1. AppAnswered("connections") => appAnswer = QuicConnections(ask) /\ ask.tool = "connections"
        BY <2>1, <2>3 DEF AnswerOf
      <3>2. AppAnswered("acks") => appAnswer = AckPercentiles(ask) /\ ask.tool = "acks"
        BY <2>1, <2>3 DEF AnswerOf
      <3> QED BY <3>1, <3>2, ConnectionsAre, AckConnectionsAre DEF ConnectionsExact
    <2> QED BY <2>4, <2>5, <2>6, <2>7, <2>8
  <1> QED BY <1>1, <1>2

\* What the tools of HTTP.sys and of MsQuic say is so (app_layer.py): the latencies
\* of requests, the depth of the queues of URL groups, the packets and lifetimes of
\* connections, the buckets of CIDs and the percentiles of ACK delays, for traces of any
\* length, any requests and connections, any events missing, and any questions.
THEOREM AppLayersAreExact == AppSpec => []AppLayersExact
  <1>1. AppSpec => [](AppLogInv /\ AnswerInv)
    BY InductiveApp
  <1>2. AppLogInv /\ AnswerInv => AppLayersExact
    BY AnswersAreExact
  <1> QED BY <1>1, <1>2, PTL
=============================================================================
