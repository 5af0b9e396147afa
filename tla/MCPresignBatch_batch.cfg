SPECIFICATION Spec
CONSTANTS
  PartSize = 5
  Threshold = 15
  Word = 64
  small = small
  either = either
  large = large
  Images = {small, either, large}
  Claims <- SmallUnits
  MaxFiles = 3
  MaxCalls = 2
  None = None
INVARIANTS
  TypeOK
  EveryFileOnce
  ImagesAreServed
  PartsCutImage
  OkMeansLotExists
  PanicNeedsTwoClasses
CHECK_DEADLOCK FALSE
