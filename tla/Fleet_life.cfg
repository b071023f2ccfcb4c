\* Two hosts, two tokens made out to either or to anybody, two nodes, two tenants, two invocations, one edit.
SPECIFICATION Spec
CONSTANTS
  Hosts = {h1, h2}
  Names = {h1, h2, None}
  Tokens = {k1, k2}
  Ids = {n1, n2}
  Tenants = {t1, t2}
  Jobs = {j1, j2}
  Workers = {w1, w2}
  Ceilings = {1}
  None = None
  MaxEdits = 1
SYMMETRY Symmetry
INVARIANTS
  TokenEnrollsOnce
  WorkHasAgent
PROPERTIES
  CalmPlacement
CHECK_DEADLOCK FALSE
