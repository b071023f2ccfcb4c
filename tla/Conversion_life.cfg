\* Two invocations in flight, two requests for one trial, two slugs, one of: a retry,
\* a direct job, an invocation that stops.
SPECIFICATION FairSpec
CONSTANTS
  Trials = {t1}
  Requests = {r1, r2}
  Slugs = {s1, s2}
  Nodes = {n1}
  Workers = {w1, w2}
  None = None
  MaxExtras = 1
INVARIANTS
  OneActive
  ConversionFollowsJob
PROPERTIES
  ConversionStepsLegal
  SerialTargets
  OutcomeCarried
CHECK_DEADLOCK FALSE
