CONSTANTS
  Classes = {"ready", "switch", "thread"}
  Stackable = {"ready", "switch"}
  MaxRows = 3
  MaxBytes = 4
  Freq = 2
  Den = 3
  None = None
  Filters <- MCFilters
  Inputs <- MCInputs
  Capacity = 2
  Window = 2
  BatchSizes = {1, 2}
  MaxEvents = 4
  MaxFaults = 1
  Resolver = {r1, r2}
  Blocks = 2
  Traces <- MCTraces
  DpcTextLimit = 4
  MaxUnread = 1
  MaxFailures = 1
SPECIFICATION MCSpec
CHECK_DEADLOCK FALSE
INVARIANTS
  VisibleIsValid
  RowsOnce
  ScanExact
  SameStacks
  JoinExact
  CacheOpens
  AnswersExact

  
