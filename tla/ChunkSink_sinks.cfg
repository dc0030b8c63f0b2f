SPECIFICATION FairSpec
CONSTANTS
  SinkCount = 2
  Stackable = {1}
  ChunkSize = 2
  QueueCapacity = 1
  PendingCapacity = 1
  MaxRows = 7
  WriteFaults = TRUE
CHECK_DEADLOCK FALSE
INVARIANTS MemoryBound RowsConserved ManifestComplete
PROPERTY EndsOk
