SPECIFICATION Spec
CONSTANTS
  QueueCapacity = 1
  LeaseSize = 1
  NumTables = 2
  MaxSequence = 3
  Kind <- MCKind
  Clusters = {c1}
  Chan = {k1, k2}
  NoChan = NoChan
  BufferCapacity = 2
  BatchSize = 1
  MaxBatchRecords = 2
  HighWatermarkPercent = 80
  Invalid = {2}
  DurableCheckpoint = TRUE
  MaxFaults = 0
  MaxInstances = 1
CHECK_DEADLOCK FALSE
INVARIANT
  RejectionsStayTerminal
