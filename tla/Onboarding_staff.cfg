CONSTANTS
  NSteps = 4
  Kind <- FourKinds
  Workers = {w1, w2}
  Logins = {l1}
  Clicks = {c1, c2}
  Buttons = {"user_confirm", "staff_approve", "staff_deny", "reset", "complete"}
  MaxCrashes = 1
SPECIFICATION Spec
SYMMETRY Symmetry
INVARIANTS
  TypeOK
  BatonHeld
  ProcessingOwned
  NobodyForgotten
PROPERTY EarnedCompletion
CHECK_DEADLOCK FALSE
