SPECIFICATION Spec
CONSTANTS
  Key = {"k"}
  Nonce = {1, 2}
  Unfit = {}
  None = None
  Torn = Torn
  Done = Done
INVARIANTS
  NothingLost
CHECK_DEADLOCK FALSE
