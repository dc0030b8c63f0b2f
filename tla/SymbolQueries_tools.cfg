CONSTANTS
  Bases = {10}
  Size <- MCSize
  Images <- MCImages
  Store <- MCStore
  Remote = {"srv"}
  Paths <- MCPaths
  DefaultPath <- MCDefaultPath
  Addresses = {12}
  Builds <- MCBuilds
  None = None
  Queries = {q1, q2}
  Samples = {s}
  Resolver = r
  Dumper = d
  Slots = 1
  MaxQueries = 2
  MaxSets = 1
SYMMETRY SameQueries
SPECIFICATION QueriesSpec
CHECK_DEADLOCK FALSE
INVARIANTS
  NamesAreExact
  AnswersAreCurrent
  BorrowedIsReturned
  
