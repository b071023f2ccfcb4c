\* One fault: the result of a cleanup is lost.
SPECIFICATION Spec
CONSTANTS
  Tenants = {t1}
  Nodes = {n1}
  Workers = {w1}
  None = None
  BatchSize = 1
  MaxBuilds = 2
  MaxTokens = 3
  MaxFaults = 1
INVARIANT RetryCanSucceed
CHECK_DEADLOCK FALSE
