SPECIFICATION Spec
CONSTANTS
  QueueCapacity = 2
  LeaseSize = 2
  NumTables = 2
  Kind <- MCKind
  Handlers = {h1, h2}
  Chan = {k1, k2, k3, k4}
  NoChan = NoChan
  MaxSequence = 4
INVARIANTS
  CapacityRespected
  NoDoubleClose
  FirstInFirstOut
  NotifiedMeansStored
PROPERTIES
  EveryBatchPersisted
CHECK_DEADLOCK FALSE
