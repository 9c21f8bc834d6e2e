\* An undisturbed enforce run with only the rulesets left to activate.
SPECIFICATION FairSpec
CONSTANTS
  r1 = r1
  r2 = r2
  NoRun = NoRun
  team = team
  rules = rules
  gone = gone
  held = held
  on = on
  Run = {r1}
  Obj = {team, rules}
  Ruleset = {rules}
  Val = {gone, held, on}
  Absent = gone
  Evaluate = held
  MaxSha = 1
  Catalog <- MCCatalog
  Prohibited <- MCProhibited
  Expanding <- MCExpanding
  Offer <- MCOffer
  InitialLive <- MCFounded
  InitialManaged <- MCImported
  InitialReview <- MCIndependent
  EvidenceLife = 1
  JobTimeout = 1
  QualLife = 3
  FounderExpiry = 2
  MaxAttempt = 1
  MaxTime = 0
  MaxEvents = 0
CHECK_DEADLOCK FALSE
PROPERTIES
  EnforceReachesApproval
