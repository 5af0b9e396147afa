SPECIFICATION Spec
CONSTANTS
  Clients = {c1}
  Eager = {}
  Uploads = {u1, u2, u3}
  Attempts = {a1}
  Count <- TwoPlans
  MaxCalls = 4
  MaxExpiries = 1
  MaxS3Faults = 0
  None = None
INVARIANTS
  ObjectsAreWhole
CHECK_DEADLOCK FALSE
