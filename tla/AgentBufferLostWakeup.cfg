SPECIFICATION Spec
CONSTANTS
  Publishers = {collector, sampler}
  Client = client
  Capacity = 2
  BatchSize = 2
PROPERTY
  BlockedPublisherResumes
