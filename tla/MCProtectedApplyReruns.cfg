\* One run and its re-run, whole or from the failed job; the exception expires at once.
SPECIFICATION Spec
CONSTANTS
  r1 = r1
  r2 = r2
  NoRun = NoRun
  team = team
  rules = rules
  gone = gone
  held = held
  on = on
  Run = {r1}
  Obj = {team, rules}
  Ruleset = {rules}
  Val = {gone, held, on}
  Absent = gone
  Evaluate = held
  MaxSha = 1
  Catalog <- MCCatalog
  Prohibited <- MCProhibited
  Expanding <- MCExpanding
  Offer <- MCFounder
  InitialLive <- MCLive
  InitialManaged <- MCNothingManaged
  InitialReview <- MCReview
  EvidenceLife = 1
  JobTimeout = 1
  QualLife = 3
  FounderExpiry = 0
  MaxAttempt = 2
  MaxTime = 2
  MaxEvents = 1
CHECK_DEADLOCK FALSE
PROPERTIES
  ChangesAreGoverned
  FounderWriteBound
