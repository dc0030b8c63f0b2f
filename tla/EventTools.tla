----------------------------- MODULE EventTools -----------------------------
(***************************************************************************)
(* The tools that answer from event tables.  Each works on tables of its   *)
(* own and none calls another: an analysis is of one kind, and goes on as  *)
(* the module of that kind says.                                           *)
(***************************************************************************)
EXTENDS ThreadCpu, PacketCapture, AppLayer, NetworkEvents

Subjects == {"cpu", "packets", "requests", "network"}

VARIABLE subject

toolVars == <<subject, cpuVars, captureVars, appVars, netVars>>

\* The state of the analyses that are not asked for does not matter.
Idle ==
  /\ subject # "packets" => source = "pktmon"
  /\ subject # "network" => layer = "tcp" /\ ~inMemory

ToolsInit == subject \in Subjects /\ CpuInit /\ CaptureInit /\ AppInit /\ NetInit /\ Idle

AnalysesCpu == subject = "cpu" /\ CpuNext /\ UNCHANGED <<captureVars, appVars, netVars>>
AnalysesPackets == subject = "packets" /\ CaptureNext /\ UNCHANGED <<cpuVars, appVars, netVars>>
AnalysesRequests == subject = "requests" /\ AppNext /\ UNCHANGED <<cpuVars, captureVars, netVars>>
AnalysesNetwork == subject = "network" /\ NetNext /\ UNCHANGED <<cpuVars, captureVars, appVars>>

ToolsNext ==
  /\ UNCHANGED subject
  /\ AnalysesCpu \/ AnalysesPackets \/ AnalysesRequests \/ AnalysesNetwork

ToolsSpec == ToolsInit /\ [][ToolsNext]_toolVars
=============================================================================
