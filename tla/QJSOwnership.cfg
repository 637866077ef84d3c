SPECIFICATION Spec
CONSTANTS
  PrintFn = PrintFn
  f1 = f1
  f2 = f2
  PrintSlot = PrintSlot
  LogSlot = LogSlot
  NoFn = NoFn
  Fns = {PrintFn, f1, f2}
  Slots = {PrintSlot, LogSlot}
  SetPolicy = "once"
  MaxGiven = 1
  MaxSets = 2
  MaxArgs = 2
INVARIANTS Ledger NoDangling BodyAlive GcDecrefAssertion FreedIffAllSet
CHECK_DEADLOCK FALSE
