SPECIFICATION Spec
CONSTANTS
  Clients = {c1, c2}
  Eager = {c1}
  Uploads = {u1, u2}
  Attempts = {a1, a2}
  Count <- OnePlan
  MaxCalls = 2
  MaxExpiries = 0
  MaxS3Faults = 0
  None = None
INVARIANTS
  ObjectsAreWhole
CHECK_DEADLOCK FALSE
