SPECIFICATION MCSpec
CONSTANTS
  Keys = {"a"}
  Vals = {1, 2}
  Kinds = {"data", "acc"}
  Absent = Absent
  Undef = Undef
INVARIANTS  HonestNeverThrows 
CHECK_DEADLOCK FALSE
