\* One fault: a node cut off for a lease period.
SPECIFICATION FairSpec
CONSTANTS
  Tenants = {t1}
  Keys = {k1}
  Nodes = {n1}
  Workers = {w1}
  None = None
  MaxAttempt = 2
  MaxTokens = 5
  MaxFaults = 1
PROPERTY InFlightResolves
CHECK_DEADLOCK FALSE
