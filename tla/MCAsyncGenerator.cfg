CONSTANTS
  Cells = {a, b}
  None = None
  MaxYields = 4
SPECIFICATION FairSpec
INVARIANT NothingSkipped
INVARIANT WorksForRequest
PROPERTY EveryRequestAnswered
