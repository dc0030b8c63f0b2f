SPECIFICATION ToolsSpec
CONSTANTS
  None = None
  Cpus = {0, 1}
  Threads = {1, 2}
  ProcessOf <- MCProcessOf
  Offs <- MCOffs
  Frequency = 10
  Origin = 100
  Shapes <- MCShapes
  CpuAsks <- MCCpuAsks
  MaxTick = 2
  MaxSwitches = 3
  MaxLost = 1
  PacketKeys = {1, 2}
  FlowOf <- MCFlowOf
  PacketTimes = {0, 2, 3}
  MatchGap = 2
  LayerGap = 2
  LastStage = 2
  PacketBatches = {1, 2}
  MaxRows <- MCMaxRows
  MaxPackets = 2
  MaxVersions = 2
  MaxCalls = 3
  Requests = {1, 2}
  Groups = {7, 8}
  Connections = {1, 2}
  QuicProcesses = {"p", "q"}
  QuicPackets <- MCQuicPackets
  CidHash <- MCCidHash
  AckDelays = {1, 5}
  AppAsks <- MCAppAsks
  AppRowLimit = 3
  MaxClock <- MCMaxClock
  MaxAppEvents <- MCMaxAppEvents
  MaxMissing = 1
  Links = {1, 2, 3}
  IdOf <- MCIdOf
  OwnerOf <- MCOwnerOf
  ThreadOf <- MCThreadOf
  OpenedBy <- MCOpenedBy
  RowBatches = {1}
  BatchWindow = 0
  NetAsks <- MCNetAsks
  MaxNetClock = 1
  MaxNetRows = 3
INVARIANTS
  
  TableIsOfTrace
  PathsExact
  
  
  
CHECK_DEADLOCK FALSE
