SPECIFICATION Spec
CONSTANTS
  LimbBits = 8
  TableBits = 2
  Udiv1Threshold = 2
  LargeThreshold = 3
INVARIANTS RootsExact
CHECK_DEADLOCK FALSE
