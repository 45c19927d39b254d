CONSTANTS
  Users = {ann, bob, cay}
  Creator = ann
  CoPis = {bob}
  Requests = {r1, r2}
  Actions = {"remove", "transfer"}
  Exclusive = {}
  Fails = FALSE
SPECIFICATION Spec
SYMMETRY Symmetry
INVARIANT PiIsOwner
CHECK_DEADLOCK FALSE
