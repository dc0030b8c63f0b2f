SPECIFICATION Spec
CONSTANTS
  s1 = s1
  s2 = s2
  c1 = c1
  c2 = c2
  Proc = {s1}
  Caller = {c1, c2}
  ProcOf <- SameServer
  Poller = {}
  MaxCalls = 2
  ForceArgs = {FALSE, TRUE}
  Kinds = {"async", "blocking"}
  WorkerFaults = TRUE
  DiskFaults = TRUE
  Crashes = FALSE
  Timely = TRUE
INVARIANT OneLoadPerServer
INVARIANT DoneIsSettled
