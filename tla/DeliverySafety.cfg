SPECIFICATION Spec
CONSTANTS
  QueueCapacity = 2
  LeaseSize = 2
  NumTables = 2
  MaxSequence = 4
  Kind <- MCKind
  Clusters = {c1}
  Chan = {k1, k2, k3}
  NoChan = NoChan
  BufferCapacity = 3
  BatchSize = 2
  MaxBatchRecords = 2
  HighWatermarkPercent = 80
  Invalid = {3}
  DurableCheckpoint = TRUE
  MaxFaults = 3
  MaxInstances = 1
SYMMETRY Symmetry
INVARIANTS
  NoSilentLoss
  WatermarkIsDurable
  BoundaryIsDurable
  AwaitedAckIsComing
PROPERTIES
  KeepsPromise
CHECK_DEADLOCK FALSE
