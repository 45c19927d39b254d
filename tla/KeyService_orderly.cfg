CONSTANTS
  Systems = {s1, s2}
  Workers = {w1}
  Hooks = {h1, h2, h3, h4}
  Clicks = {c1}
  Orderly = TRUE
  MaxProcesses = 6
SPECIFICATION FairSpec
PROPERTY StepSettles
CHECK_DEADLOCK FALSE
