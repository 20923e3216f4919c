SPECIFICATION FairSpec
CONSTANTS
  QueueCapacity = 1
  LeaseSize = 1
  NumTables = 2
  MaxSequence = 3
  Kind <- MCKind
  Clusters = {c1}
  Chan = {k1, k2}
  NoChan = NoChan
  BufferCapacity = 2
  BatchSize = 2
  MaxBatchRecords = 2
  HighWatermarkPercent = 80
  Invalid = {}
  DurableCheckpoint = TRUE
  MaxFaults = 2
  MaxInstances = 1
PROPERTIES
  EveryObservationSettles
CHECK_DEADLOCK FALSE
