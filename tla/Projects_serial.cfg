CONSTANTS
  Creators = {c1, c2, c3}
  Commands = {m1}
  ForeignSystems = {2, 4}
  ForeignDirs = {3}
  ForeignMax = 5
  Seed = seed
  SeedValue = 1
  FirstRows = {seed, none}
  NoRow = none
  Elsewhere = elsewhere
  Serial = TRUE
  RemoteFails = TRUE
SPECIFICATION Spec
INVARIANTS
  TypeOK
  CreatedIsWhole
  RecoverySettles
PROPERTY CommandIsSafe
CHECK_DEADLOCK FALSE
