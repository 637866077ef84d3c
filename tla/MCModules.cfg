SPECIFICATION MCSpec
CONSTANTS
  Modules = {1, 2, 3}
  Kinds = {"own", "imported", "indirect"}
  Cycles = FALSE
  MaxLinks = 2
  None = None
INVARIANTS LinksSound EvaluationSound ExportsSound
CHECK_DEADLOCK FALSE
