\* Two invocations in flight, one restore, two faults of any kind.
SPECIFICATION FairSpec
CONSTANTS
  Tenants = {t1}
  Nodes = {n1}
  Workers = {w1, w2}
  None = None
  MaxAttempt = 2
  MaxTokens = 4
  MaxFaults = 2
INVARIANTS
  TypeOK
  LeaseOnOpenJob
  ValidatedMeansRestored
PROPERTIES
  SerialTables
  RestoreResolvesIfPolled
  RecordedIsSettled
CHECK_DEADLOCK FALSE
