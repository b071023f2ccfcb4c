\* One fault: a claim aborted between its two writes.
SPECIFICATION FairSpec
CONSTANTS
  Tenants = {t1}
  Keys = {k1}
  Nodes = {n1}
  Workers = {w1}
  None = None
  MaxAttempt = 2
  MaxTokens = 5
  MaxFaults = 1
PROPERTY ProvisioningResolves
CHECK_DEADLOCK FALSE
