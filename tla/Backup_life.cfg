\* Two invocations in flight, one backup, three faults of any kind.
SPECIFICATION FairSpec
CONSTANTS
  Backups = {b1}
  Nodes = {n1}
  Workers = {w1, w2}
  None = None
  MaxTokens = 5
  MaxFaults = 3
INVARIANTS
  TypeOK
  LeaseFollowsState
  InFlightHasLease
  VerifiedIsStored
  PreparedHasCopy
PROPERTIES
  BackupStepsLegal
  PreparedIsVerified
  RecordedIsSettled
CHECK_DEADLOCK FALSE
