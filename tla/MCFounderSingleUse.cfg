\* One founder-bootstrap run and its re-run.
SPECIFICATION Spec
CONSTANTS
  r1 = r1
  r2 = r2
  NoRun = NoRun
  team = team
  rules = rules
  gone = gone
  held = held
  on = on
  Run = {r1}
  Obj = {team, rules}
  Ruleset = {rules}
  Val = {gone, held, on}
  Absent = gone
  Evaluate = held
  MaxSha = 1
  Catalog <- MCCatalog
  Prohibited <- MCProhibited
  Expanding <- MCExpanding
  Offer <- MCFounder
  InitialLive <- MCHeld
  InitialManaged <- MCManaged
  InitialReview <- MCReview
  EvidenceLife = 1
  JobTimeout = 1
  QualLife = 3
  FounderExpiry = 2
  MaxAttempt = 2
  MaxTime = 2
  MaxEvents = 0
CHECK_DEADLOCK FALSE
INVARIANTS
  FounderExceptionUsedOnce
