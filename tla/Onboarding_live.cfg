CONSTANTS
  NSteps = 2
  Kind <- TwoKinds
  Workers = {w1}
  Logins = {l1, l2}
  Clicks = {c1}
  Buttons = {"user_confirm", "staff_approve", "staff_deny", "reset", "complete"}
  MaxCrashes = 0
SPECIFICATION FairSpec
PROPERTIES
  FrontServed
  CompletionFollows
CHECK_DEADLOCK FALSE
