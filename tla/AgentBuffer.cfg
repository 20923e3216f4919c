SPECIFICATION Spec
CONSTANTS
  Publishers = {collector, sampler}
  Client = client
  Capacity = 3
  BatchSize = 2
PROPERTIES
  BacklogIsSent
  BacklogWakesPublisher
