----------------------------- MODULE MCLoadJobs -----------------------------
(* Instances of LoadJobs: which tool-call slot belongs to which server. *)
EXTENDS LoadJobs, TLC
CONSTANTS s1, s2, c1, c2

\* Two calls of one server at a time.
SameServer == [c \in {c1, c2} |-> s1]

\* One call at a time in each of two servers.
TwoServers == (c1 :> s1) @@ (c2 :> s2)
=============================================================================
