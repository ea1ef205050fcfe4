\* Words of seven bits; the loop stops when it has its result.
SPECIFICATION LoopLiveSpec
CONSTANTS
  Bound = 64
  StartLevels = {1, 2, 3, 5}
INVARIANTS
  LoopTypeOK
  LoopComputesLevel
PROPERTIES
  LoopEnds
CHECK_DEADLOCK FALSE
