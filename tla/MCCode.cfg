SPECIFICATION MCSpec
CONSTANTS
  Tokens = {1, 2, 3}
  Slots = {8, 9}
  MaxStack = 6
INVARIANTS StackSound SameExecution
CHECK_DEADLOCK FALSE
