SPECIFICATION Spec
CONSTANTS
  PartSize = 5
  Threshold = 75
  Word = 1024
  small = small
  either = either
  large = large
  Images = {small, either, large}
  Claims <- ServiceUnits
  MaxFiles = 1
  MaxCalls = 1
  None = None
INVARIANTS
  PartsCutImage
CHECK_DEADLOCK FALSE
