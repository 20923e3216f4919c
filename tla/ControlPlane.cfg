SPECIFICATION PlaneSpec
CONSTANTS
  TokenTenants <- MCTokenTenants
  TokenPrincipals <- MCTokenPrincipals
  GatewayKey = "k"
  BackendKey = "k"
  GatewaySecret = "s"
  BackendSecret = "s"
  MaxSkew = 1
  Principals = {"p"}
  PolicyFamilies = {"f"}
  PolicyNames = {v1}
  v1 = v1
  BadName = BadName
  NoVersion = NoVersion
  MaxEvents = 2
  MaxListed = 1
  Resources = {"x"}
  MaxJobs = 1
  ClusterNames = {"c"}
  EnrollmentTTL = 15
  Targets = {"t"}
  Handlers = {"h1", "h2"}
  Hour = 3
  MaxClock = 5
  Slots = {1, 2}
  MaxRequests <- MCMaxRequests
  Instants <- MCInstants
INVARIANTS
  
  ActionHasTransition
  ExecutesWhatWasApproved
  
PROPERTIES
  StoresOnlyGoForward
  DecisionsSurviveLaterRuns
  
  EveryJobEnds
CHECK_DEADLOCK FALSE
