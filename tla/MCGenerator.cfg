SPECIFICATION Spec
CONSTANTS
  Programs <- MCPrograms
  Lower <- MCLower
  Modes <- MCModes
  MaxDepth = 12
  MaxCalls = 2
  MaxUnfold = 5
INVARIANTS SameMeaning InlineEnds TestsHaveMethods NilMeansWritten SendHasRoom
PROPERTIES RunReturns WriterEnds
CHECK_DEADLOCK FALSE
