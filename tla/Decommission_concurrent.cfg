\* Two invocations in flight, two nodes.
SPECIFICATION Spec
CONSTANTS
  Tenants = {t1}
  Nodes = {n1, n2}
  Workers = {w1, w2}
  None = None
  BatchSize = 1
  MaxBuilds = 2
  MaxTokens = 3
  MaxFaults = 2
SYMMETRY Interchangeable
INVARIANTS
  LeaseOnOpenJob
  CleanedMeansDropped
CHECK_DEADLOCK FALSE
