---- MODULE MCEventTools ----
(* The four kinds of analyses on small machines, captures and networks. *)
EXTENDS EventTools

\* Two CPUs, two threads of two processes; traces of each extractor.
MCOffs == {[state |-> "waiting", reason |-> "wait"], [state |-> "ready", reason |-> "preempt"]}
MCProcessOf == 1 :> 10 @@ 2 :> 20 @@ 3 :> 20
Shape(sidecar, states, timed, clocked, kept) ==
  [sidecar |-> sidecar, states |-> states, timed |-> timed, clocked |-> clocked, kept |-> kept]
MCShapes == {Shape(FALSE, TRUE, TRUE, FALSE, "parquet"), Shape(FALSE, TRUE, FALSE, TRUE, "memory"),
             Shape(TRUE, TRUE, TRUE, TRUE, "parquet"), Shape(TRUE, FALSE, FALSE, TRUE, "memory"),
             Shape(TRUE, TRUE, TRUE, TRUE, "damaged")}
CpuAsk(tool, cpus, tid, from, to, by, process) ==
  [tool |-> tool, cpus |-> cpus, tid |-> tid, from |-> from, to |-> to, by |-> by, process |-> process]
MCCpuAsks ==
  {CpuAsk("precise", {}, None, None, None, "thread", None),
   CpuAsk("precise", {}, None, 1, 2, "thread", 20),
   CpuAsk("precise", {0}, None, None, 2, "process", None),
   CpuAsk("precise", {}, 1, 1, None, "process", 10),
   CpuAsk("contention", {0}, None, 1, 2, "process", None)}

\* Two packets of one flow.
MCFlowOf == 1 :> "f" @@ 2 :> "f"
MCMaxRows == "memory" :> 4 @@ "store" :> 4 @@ "layers" :> 3 @@ "pktmon" :> 0

\* Two requests or connections.
MCCidHash == 1 :> 5 @@ 2 :> 6
AppAsk(tool, of) == [tool |-> tool, of |-> of]
MCAppAsks == {AppAsk("requests", None), AppAsk("requests", 7), AppAsk("depth", None),
  AppAsk("connections", None), AppAsk("connections", "p"), AppAsk("cids", None), AppAsk("acks", None), AppAsk("acks", "p")}
MCQuicPackets == {[number |-> 0, cpu |-> 0], [number |-> 2, cpu |-> 0], [number |-> 2, cpu |-> 1]}
MCMaxAppEvents == [http |-> 5, quic |-> 4]
MCMaxClock == [http |-> 3, quic |-> 2]

\* Two connections and one that has the id of the first again.
NetAsk(tool, process) == [tool |-> tool, process |-> process]
MCNetAsks == {NetAsk(t, None) : t \in {"summary", "flows", "retransmits", "throughput", "connect", "accept", "batching", "lifecycle"}}
   \union {NetAsk(t, 10) : t \in {"summary", "lifecycle"}}
MCIdOf == 1 :> 5 @@ 2 :> 6 @@ 3 :> 5
MCOwnerOf == 1 :> 10 @@ 2 :> 10 @@ 3 :> 20
MCThreadOf == 1 :> 1 @@ 2 :> 1 @@ 3 :> 2
MCOpenedBy == 1 :> "connect" @@ 2 :> "connect" @@ 3 :> "accept"
====
