SPECIFICATION Spec
CONSTANTS
  Clients = {c1, c2}
  Eager = {}
  Uploads = {u1, u2, u3}
  Attempts = {a1, a2}
  Count <- TwoPlans
  MaxCalls = 3
  MaxExpiries = 0
  MaxS3Faults = 0
  None = None
INVARIANTS
  AckMeansObject
  ObjectsAreWhole
CHECK_DEADLOCK FALSE
