SPECIFICATION Spec
CONSTANTS
  Clients = {c1, c2}
  Eager = {}
  Uploads = {u1, u2}
  Attempts = {a1, a2}
  Count <- OnePlan
  MaxCalls = 2
  MaxExpiries = 0
  MaxS3Faults = 1
  None = None
INVARIANTS
  AckMeansObject
CHECK_DEADLOCK FALSE
