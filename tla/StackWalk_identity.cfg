SPECIFICATION WalkSpec
CONSTANTS
  None = None
  Feeds <- MCFeeds
  Machines <- MCMachines
  BatchSizes = {1, 2, 5}
  SymbolCap = 3
  Rate = 1
  FunctionAt <- MCFunctionAt
  LocalBuild <- MCLocalBuild
  FrameCap = 5
  EdgeCap = 6
  Walks <- MCWalks
INVARIANT NamesAreTraced
CHECK_DEADLOCK FALSE
