SPECIFICATION Spec
CONSTANTS
  LimbBits = 2
  Udiv1Threshold = 2
  LargeThreshold = 3
  TableBits = 1
INVARIANTS  NumbersRounded
CHECK_DEADLOCK FALSE
