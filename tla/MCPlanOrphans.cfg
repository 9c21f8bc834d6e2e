\* A reviewed catalog that stays in preserve drops the legacy value too early.
SPECIFICATION Spec
CONSTANTS
  Absent = Absent
  Phases = {"adopt", "foundation", "enforce"}
  WorldNames <- MCOrphanNames
  World <- MCWorld
  FounderRepositories <- MCFounderRepositories
  FounderExpiry = 15
INVARIANTS
  MigrationNeverOrphans
