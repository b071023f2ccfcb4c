\* One invocation at a time; two tenants compete for one node; one fault.
SPECIFICATION FairSpec
CONSTANTS
  Tenants = {t1, t2}
  Keys = {k1}
  Nodes = {n1}
  Workers = {w1}
  None = None
  MaxAttempt = 2
  MaxTokens = 5
  MaxFaults = 1
INVARIANTS
  InFlightHasLease
  TenantFollowsJob
PROPERTIES
  JobStepsLegal
  ImplementsTenantProvisioning
  PlacedResolves
  InFlightResolvesIfPolled
CHECK_DEADLOCK FALSE
