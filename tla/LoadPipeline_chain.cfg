SPECIFICATION FairSpec
CONSTANTS
  Tool = {"t1"}
  MaxLoads = 2
  Versions = 2
  Uses <- AllUses
  OldCaches = TRUE
  Overlap = FALSE
  Prompt = TRUE
  Faults = TRUE
INVARIANTS ForcedModeKept FailureUnregistered  
PROPERTIES WaitsEnd
CHECK_DEADLOCK FALSE
