SPECIFICATION MCSpec
CONSTANTS
  MaxDepth = 3
  Strict = FALSE
  Programs <- Sloppy
  WordChars = {1, 4}
  Newlines = {3}
  Lower <- LowerCase
INVARIANTS SameVariables SameMatches
CHECK_DEADLOCK FALSE
