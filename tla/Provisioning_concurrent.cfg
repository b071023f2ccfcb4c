\* Two invocations in flight, two jobs of one tenant.
SPECIFICATION Spec
CONSTANTS
  Tenants = {t1}
  Keys = {k1, k2}
  Nodes = {n1}
  Workers = {w1, w2}
  None = None
  MaxAttempt = 2
  MaxTokens = 3
  MaxFaults = 1
SYMMETRY Interchangeable
INVARIANTS
  TypeOK
  LeaseOnOpenJob
  ReadyMeansBuilt
  HolderOfLeaseRuns
CHECK_DEADLOCK FALSE
