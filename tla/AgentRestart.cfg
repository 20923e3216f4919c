SPECIFICATION RestartSpec
CONSTANTS
  QueueCapacity = 1
  LeaseSize = 1
  NumTables = 2
  MaxSequence = 2
  Kind <- MCKind
  Clusters = {c1}
  Chan = {k1, k2}
  NoChan = NoChan
  BufferCapacity = 2
  BatchSize = 1
  MaxBatchRecords = 2
  HighWatermarkPercent = 80
  Invalid = {}
  DurableCheckpoint = TRUE
  MaxFaults = 1
  MaxInstances = 2
CHECK_DEADLOCK FALSE
INVARIANT
  BoundaryIsDurable
