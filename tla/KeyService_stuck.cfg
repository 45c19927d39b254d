CONSTANTS
  Systems = {s1, s2}
  Workers = {w1}
  Hooks = {h1, h2}
  Clicks = {}
  Orderly = FALSE
  MaxProcesses = 3
SPECIFICATION Spec
SYMMETRY Symmetry
INVARIANT NoActionRequired
CHECK_DEADLOCK FALSE
