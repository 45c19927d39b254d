CONSTANTS
  Creators = {c1, c2, c3}
  Commands = {}
  ForeignSystems = {}
  ForeignDirs = {}
  ForeignMax = 5
  Seed = seed
  SeedValue = 0
  FirstRows = {seed}
  NoRow = none
  Elsewhere = elsewhere
  Serial = FALSE
  RemoteFails = TRUE
SPECIFICATION Spec
INVARIANTS
  DistinctIds
  CreatedIsWhole
PROPERTY RegistryKept
CHECK_DEADLOCK FALSE
