CONSTANTS
  Creators = {c1, c2}
  Commands = {}
  ForeignSystems = {2}
  ForeignDirs = {2}
  ForeignMax = 5
  Seed = seed
  SeedValue = 1
  FirstRows = {seed}
  NoRow = none
  Elsewhere = elsewhere
  Serial = FALSE
  RemoteFails = FALSE
SPECIFICATION Spec
INVARIANT CreatedIsWhole
CHECK_DEADLOCK FALSE
