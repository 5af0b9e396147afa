SPECIFICATION FairSpec
CONSTANTS
  b1 = b1
  b2 = b2
  b3 = b3
  small = small
  i1 = i1
  i2 = i2
  i3 = i3
  Batches = {b1, b2, b3}
  Images = {small, i1, i2, i3}
  Wanted <- Overlapping
  Large = {i1, i2, i3}
  Upper <- FirstOfSmallest
  MaxCalls = 2
  MaxFaults = 1
  None = None
INVARIANTS
  TypeOK
  BatchesAgree
  RowsAreCommitted
PROPERTIES
  BatchesAreAtomic
  EveryBatchEnds
CHECK_DEADLOCK FALSE
