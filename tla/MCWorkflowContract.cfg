\* Every world of the families.
SPECIFICATION DoctorSpec
CONSTANTS
  failed = failed
  absent = absent
  link = link
  partial = partial
  config = config
  github = github
  code = code
  a = a
  b = b
  c = c
  one = one
  two = two
  j1 = j1
  j2 = j2
  contents = contents
  models = models
  ref = ref
  act = act
  old = old
  new = new
  none = none
  Repository <- MCRepository
  Name = {a, b, c}
  Revision = {one, two}
  Job = {j1, j2}
  Scope = {contents, models}
  AllScope = {contents}
  Input = {ref}
  Source = {act}
  Commit = {old, new}
  Local = config
  Shared = github
  SharedCode = code
  LocalInventory = {a}
  Nothing <- MCNothing
  Worlds <- MCWorlds
  Diagnosed <- MCDiagnosed
  Observations <- MCObservations
  Failed = failed
  Absent = absent
  Link = link
  Partial = partial
  MaxInvocations = 2
CHECK_DEADLOCK FALSE
INVARIANTS
  ContractTypeOK
  CyclesFoundExactly
  CallsNeverRecur
  GrantCoversEveryDepth
  RequiredMeansClosed
  CatalogAndContractAgree
  OutputsWhole
  ExitMeansPublished
  VerdictMeansKnown
PROPERTIES
  CommandEnds
