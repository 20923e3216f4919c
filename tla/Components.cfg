SPECIFICATION ComponentsSpec
CONSTANTS
  Hellos <- MCHellos
  Batches <- MCBatches
  Watermarks = {0, 1, 2, 3}
  MaxRecords = 3
  Interval = 2
  MaxTime = 7
  NoTick = NoTick
  Calls = {c1, c2}
  NodeUIDs = {"", "n1", "n2"}
  NamespaceUIDs = {"app", "kube-system"}
  SystemNamespaces = {"kube-system"}
  NodePrice = 27720
  ControlPlanePrice = 27720
  NetworkPrice = 3
  SecondsPerHour = 1
  NoNode = NoNode
  MinimumSampleCount = 2
  CPURequestHeadroom = 115
  MemoryRequestHeadroom = 120
  CPULimitMultiplier = 200
  MemoryLimitMultiplier = 150
  MinCPU = 2
  MinMemory = 2
  CPURate = 3
  MemoryRate = 1
  NoEnd = NoEnd
  Malformed = Malformed
  MaxImportBatch = 2
  MiB = 16
  DefaultLimit = 2
  MaxLimit = 3
  SecondsPerBucket = 2
  Unassigned = 9
  NoCursor = NoCursor
  NoTime = NoTime
  VersionBump = 100
  Inputs <- MCInputs
INVARIANTS
  AcceptedIsMappable
  SuffixContinuesWatermark
  AtMostTwoWindows
  MeasuredIsPublished
  CallsAreDrained
  AllocationIsSound
  RightsizingIsSafe
  ImportsTakeEffectOnce
  
  AnswersAreWhole
  
  OneClusterPerCertificate
PROPERTIES
  StopsWhenTold
CHECK_DEADLOCK FALSE
