SPECIFICATION Spec
CONSTANTS
  Scenarios <- MCArrays
  Tails <- MCTails
  MaxReads = 3
INVARIANTS Symmetric
CHECK_DEADLOCK FALSE
