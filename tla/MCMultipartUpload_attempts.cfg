SPECIFICATION Spec
CONSTANTS
  Clients = {c1, c2}
  Eager = {c2}
  Uploads = {u1, u2, u3}
  Attempts = {a1, a2}
  Count <- TwoPlans
  MaxCalls = 2
  MaxExpiries = 1
  MaxS3Faults = 1
  None = None
INVARIANTS
  TypeOK
  RowsHaveUploads
  OnePendingRow
  ResponsesAreWhole
PROPERTIES
  UploadsAreAtomic
  AttemptsAreStable
CHECK_DEADLOCK FALSE
