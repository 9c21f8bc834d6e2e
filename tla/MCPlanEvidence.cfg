\* Every world in which reviewed catalogs change one step at a time.
SPECIFICATION Spec
CONSTANTS
  Absent = Absent
  Phases = {"adopt", "foundation", "enforce"}
  WorldNames <- MCWorldNames
  World <- MCWorld
  FounderRepositories <- MCFounderRepositories
  FounderExpiry = 15
INVARIANTS
  PlanTypeOK
  MigrationNeverOrphans
  EvidenceRoundTrips
PROPERTIES
  AdoptChangesNothing
  RightsGrowAcknowledged
  ProtectionsHold
  NothingGoesPublic
  RemovalsAreReviewed
  AdminQuorumSurvives
