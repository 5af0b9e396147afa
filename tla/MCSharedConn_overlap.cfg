SPECIFICATION FairSpec
CONSTANTS
  lot = lot
  first = first
  second = second
  finish = finish
  None = None
  Requests = {lot, first, second}
  Kind <- MCKind
  Cancellable = {first}
  MaxInFlight = 3
  MaxFaults = 1
INVARIANTS
  TypeOK
  NoLeakedTx
  SoloAckDurable
  SoloAllOrNothing
  ConnOutlivesErrors
PROPERTIES
  EveryRequestAnswered
CHECK_DEADLOCK FALSE
