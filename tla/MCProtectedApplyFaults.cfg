\* One attempt of one run of any phase, two disturbances of any kind.
SPECIFICATION Spec
CONSTANTS
  r1 = r1
  r2 = r2
  NoRun = NoRun
  team = team
  rules = rules
  gone = gone
  held = held
  on = on
  Run = {r1}
  Obj = {team, rules}
  Ruleset = {rules}
  Val = {gone, held, on}
  Absent = gone
  Evaluate = held
  MaxSha = 2
  Catalog <- MCCatalog
  Prohibited <- MCProhibited
  Expanding <- MCExpanding
  Offer <- MCOffer
  InitialLive <- MCHeld
  InitialManaged <- MCManaged
  InitialReview <- MCReview
  EvidenceLife = 1
  JobTimeout = 1
  QualLife = 3
  FounderExpiry = 2
  MaxAttempt = 1
  MaxTime = 2
  MaxEvents = 2
CHECK_DEADLOCK FALSE
INVARIANTS
  TypeOK
  DiagnosticHonest
  SuccessMeansConverged
PROPERTIES
  ReviewedWritesOnly
  AuthorisedWritesOnly
  LateWriteBound
  LastLook
