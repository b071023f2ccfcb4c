\* Invocations that do not overlap; a tenant of any kind that may be
\* provisioned again, on another node, too; two faults.
SPECIFICATION FairSpec
CONSTANTS
  Tenants = {t1}
  Nodes = {n1, n2}
  Workers = {w1}
  None = None
  BatchSize = 1
  MaxBuilds = 3
  MaxTokens = 3
  MaxFaults = 2
INVARIANTS
  TenantFollowsCleanup
  ReadyHasDatabase
  DecommissionedIsGone
PROPERTIES
  CleanupStepsLegal
  ImplementsTenantCleanup
  ExpiredIsCleaned
CHECK_DEADLOCK FALSE
