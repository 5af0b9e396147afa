SPECIFICATION Spec
CONSTANTS
  lot = lot
  first = first
  second = second
  finish = finish
  None = None
  Requests = {lot, first}
  Kind <- MCKind
  Cancellable = {}
  MaxInFlight = 2
  MaxFaults = 0
INVARIANTS
  AckedLotKept
CHECK_DEADLOCK FALSE
