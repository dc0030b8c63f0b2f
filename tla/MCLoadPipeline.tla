--------------------------- MODULE MCLoadPipeline ---------------------------
(* Instances of LoadPipeline: hosts, and what is asked of them. *)
EXTENDS LoadPipeline

HostWith(variable, sidecar, native, xperf, worker, big) ==
  [mode |-> variable, sidecar |-> sidecar, native |-> native, xperf |-> xperf,
   worker |-> worker, big |-> big]

\* Everything is there: the full chain, and a forced link of it.
FullHost == HostWith("unset", TRUE, TRUE, TRUE, TRUE, FALSE)
\* In-process decoding, with xperf beside it.
InProcessHost == HostWith("unset", FALSE, TRUE, TRUE, FALSE, FALSE)
\* A trace too big for in-process decoding.
BigHost == HostWith("unset", FALSE, TRUE, TRUE, FALSE, TRUE)
\* The variable forces the sidecar; no worker, so no second link.
ForcedHost == HostWith("dotnet", TRUE, TRUE, TRUE, FALSE, FALSE)
XperfHost == HostWith("unset", FALSE, FALSE, TRUE, FALSE, FALSE)

AllUses == {<<FullHost, "auto">>, <<FullHost, "native">>,
            <<InProcessHost, "auto">>, <<InProcessHost, "xperf">>,
            <<BigHost, "native">>, <<ForcedHost, "auto">>}
XperfUses == {<<XperfHost, "auto">>}
=============================================================================
