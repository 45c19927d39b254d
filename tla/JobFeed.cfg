CONSTANTS
  Jobs = {j1}
  Life <- ShortLife
  Hooks = {h1, h2}
  Visits = {v1}
SPECIFICATION FeedSpec
SYMMETRY Symmetry
INVARIANTS
  TypeOK
  AckedIsStored
  NoRepeat
  FinishedIsIndexed
  FeedIsCurrent
CHECK_DEADLOCK FALSE
