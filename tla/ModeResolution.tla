--------------------------- MODULE ModeResolution ---------------------------
(***************************************************************************)
(* Which pipeline a load uses: native/config.py.  A host is a record of    *)
(* what the process finds there:                                           *)
(*   mode     the ETW_MCP_MODE variable, or "unset"                        *)
(*   sidecar  a sidecar executable can be resolved or fetched              *)
(*   native   the in-process consumer loads and can open the trace         *)
(*   xperf    xperf.exe is found                                           *)
(*   worker   ETW_MCP_NATIVE_WORKER is 1                                   *)
(*   big      the trace exceeds the native size limit, and                 *)
(*            ETW_MCP_NATIVE_ALLOW_LARGE is not set                        *)
(***************************************************************************)

Mode    == {"dotnet", "native", "xperf"}
Request == Mode \cup {"auto"}
Host == [mode : Request \cup {"unset"}, sidecar : BOOLEAN, native : BOOLEAN,
         xperf : BOOLEAN, worker : BOOLEAN, big : BOOLEAN]

\* The argument wins, except that "auto" leaves the choice to the variable.
Candidate(arg, h) == IF arg = "auto" /\ h.mode # "unset" THEN h.mode ELSE arg

\* The first that is available, in the order of preference.
AutoMode(h) ==
  CASE h.sidecar               -> "dotnet"
    [] ~h.sidecar /\ h.native  -> "native"
    [] ~h.sidecar /\ ~h.native -> "xperf"

\* resolve_mode, with the choice of an earlier "auto" (or "none").  A mode
\* that was asked for and is not available is an error.
ResolveMode(arg, h, earlier) ==
  LET c == Candidate(arg, h) IN
  CASE c = "auto" -> IF earlier # "none" THEN earlier ELSE AutoMode(h)
    [] c = "dotnet" -> IF h.sidecar THEN "dotnet" ELSE "refused"
    [] c = "native" -> IF h.native THEN "native" ELSE "refused"
    [] c = "xperf" -> "xperf"

\* apply_native_size_guardrail
Guarded(arg, h, mode) ==
  CASE mode # "native" \/ ~h.big -> mode
    [] mode = "native" /\ h.big /\ Candidate(arg, h) = "native" -> "refused"
    [] mode = "native" /\ h.big /\ Candidate(arg, h) # "native" -> "xperf"

\* What remains of "auto" after a load resolved it.
Remembered(arg, h, earlier) ==
  IF Candidate(arg, h) = "auto" THEN ResolveMode(arg, h, earlier) ELSE earlier
=============================================================================
