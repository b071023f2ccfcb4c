\* Two jobs of one tenant, invocations that do not overlap, no fault.
SPECIFICATION Spec
CONSTANTS
  Tenants = {t1}
  Keys = {k1,k2}
  Nodes = {n1}
  Workers = {w1}
  None = None
  MaxAttempt = 2
  MaxTokens = 4
  MaxFaults = 0
INVARIANT OneOpenJob
CHECK_DEADLOCK FALSE
