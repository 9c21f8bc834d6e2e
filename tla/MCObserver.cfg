\* One observation in either scope, with any two changes while it reads.
SPECIFICATION FairSpec
CONSTANTS
  a = a
  b = b
  c = c
  Repo = {a, b, c}
  Org = org
  FatalPart = {"actions"}
  SoftPart = {"rulesets", "undeclared_rulesets", "environments", "dependency_graph"}
  DroppedPart = {"repository_rulesets"}
  RulesetPart = {"rulesets", "undeclared_rulesets"}
  UndeclaredPart = {"undeclared_rulesets"}
  EnabledPart = {"dependency_graph"}
  PooledPart = {"environments"}
  GapPart = {"runner_policy"}
  CriticalPart = {"actions", "rulesets", "undeclared_rulesets", "runner_policy"}
  Order <- MCOrder
  RepoOrder <- MCRepoOrder
  Declared = {a, b}
  Queued = {a}
  Val = {wanted, absent}
  Wanted = wanted
  Absent = absent
  Unknown = unknown
  PageSize = 1
  MaxPages = 3
  MaxReadAttempts = 3
  RetryBase = 1
  RetryMaximum = 2
  RetryBudget = 3
  MaxInstructed = 2
  InitialRepos <- MCInitialRepos
  MaxEvents = 2
INVARIANTS ObserverTypeOK CompleteInventoryMissesNothing SilenceMeansSeen CompleteMeansSeen
PROPERTY ObservationEnds
CHECK_DEADLOCK FALSE
