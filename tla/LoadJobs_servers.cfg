SPECIFICATION Spec
CONSTANTS
  s1 = s1
  s2 = s2
  c1 = c1
  c2 = c2
  Proc = {s1, s2}
  Caller = {c1, c2}
  ProcOf <- TwoServers
  Poller = {}
  MaxCalls = 2
  ForceArgs = {FALSE}
  Kinds = {"async"}
  WorkerFaults = TRUE
  DiskFaults = FALSE
  Crashes = TRUE
  Timely = TRUE
INVARIANT EndedJobsAreTold
