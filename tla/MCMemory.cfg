SPECIFICATION MCSpec
CONSTANTS
  Objects = {1, 2, 3}
  WeakMaps = {4}
  Cells = {5}
  MaxRefs = 4
INVARIANTS CountsExact HeapSound ListsSound CollectedExactly
PROPERTIES PromptRelease GCTerminates
