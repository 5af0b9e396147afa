SPECIFICATION Spec
CONSTANTS
  lot = lot
  first = first
  second = second
  finish = finish
  None = None
  Requests = {lot, first, second, finish}
  Kind <- MCKind
  Cancellable = {lot, first}
  MaxInFlight = 1
  MaxFaults = 1
PROPERTIES
  KeepsPromise
CHECK_DEADLOCK FALSE
