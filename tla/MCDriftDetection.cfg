\* Three runs of either kind, one disturbance.
SPECIFICATION FairSpec
CONSTANTS
  r1 = r1
  r2 = r2
  r3 = r3
  NoRun = NoRun
  Run = {r1, r2, r3}
  Phase = "enforce"
  Exposed = TRUE
  MaxIssue = 2
  MaxEvents = 1
CHECK_DEADLOCK FALSE
INVARIANTS
  DriftTypeOK
PROPERTIES
  OnlyRecoveryCloses
  FailureLeavesOpenIssue
  NoDuplicateOfKnownIssue
  DriftSurfaces
