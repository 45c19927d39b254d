CONSTANTS
  Users = {ann, bob, cay, dan}
  Creator = ann
  CoPis = {bob, cay}
  Requests = {r1, r2, r3}
  Actions = {"add", "remove", "transfer", "edit"}
  Exclusive = {"transfer"}
  Fails = TRUE
SPECIFICATION Spec
SYMMETRY Symmetry
INVARIANTS
  TypeOK
  PiIsOwner
  LoneChangesMatch
CHECK_DEADLOCK FALSE
