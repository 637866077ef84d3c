SPECIFICATION Spec
CONSTANTS
  PrintFn = PrintFn
  f1 = f1
  PrintSlot = PrintSlot
  LogSlot = LogSlot
  slotA = slotA
  NoFn = NoFn
  Fns = {PrintFn, f1}
  Slots = {PrintSlot, LogSlot, slotA}
  SetPolicy = "any"
  MaxGiven = 1
  MaxSets = 2
  MaxArgs = 1
INVARIANTS GcDecrefAssertion
CHECK_DEADLOCK FALSE
