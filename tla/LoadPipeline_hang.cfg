SPECIFICATION FairSpec
CONSTANTS
  Tool = {"t1"}
  MaxLoads = 1
  Versions = 1
  Uses <- XperfUses
  OldCaches = FALSE
  Overlap = FALSE
  Prompt = TRUE
  Faults = FALSE
PROPERTIES WaitsReturn
CHECK_DEADLOCK FALSE
