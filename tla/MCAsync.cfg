SPECIFICATION MCSpec
CONSTANTS
  Promises = {1, 2, 3}
  Pairs = {1, 2, 3, 4}
  Vals = {v}
  v = v
  object = object
  Error = Error
  Foreigns = {object}
  Callback = Callback
  Script = Script
  Idle = Idle
  None = None
  MaxElements = 3
  Mixes = {{}, {2, 3}}
  Gens = {1, 2, 3}
  Acts = {1, 2, 3}
  MaxRequests = 5
  MaxDepth = 4
INVARIANTS PromisesKept CombinedOnce GeneratorsResumable CallsCounted 
 
CHECK_DEADLOCK FALSE
