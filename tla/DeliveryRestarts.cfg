SPECIFICATION RestartSpec
CONSTANTS
  QueueCapacity = 2
  LeaseSize = 1
  NumTables = 2
  MaxSequence = 3
  Kind <- MCKind
  Clusters = {c1}
  Chan = {k1, k2, k3}
  NoChan = NoChan
  BufferCapacity = 2
  BatchSize = 1
  MaxBatchRecords = 2
  HighWatermarkPercent = 80
  Invalid = {}
  DurableCheckpoint = TRUE
  MaxFaults = 1
  MaxInstances = 2
SYMMETRY Symmetry
INVARIANTS
  SomeProcessDurable
  CheckpointMatchesMemory
PROPERTIES
  CheckpointNeverRegresses
CHECK_DEADLOCK FALSE
