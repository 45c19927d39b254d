CONSTANTS
  Systems = {s1, s2}
  Workers = {w1, w2}
  Hooks = {h1, h2}
  Clicks = {c1}
  Orderly = FALSE
  MaxProcesses = 5
SPECIFICATION Spec
SYMMETRY Symmetry
INVARIANTS
  TypeOK
  Accounted
  CompletedMeansCreated
  VerdictCounts
CHECK_DEADLOCK FALSE
