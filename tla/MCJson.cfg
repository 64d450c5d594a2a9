SPECIFICATION Spec
CONSTANTS
  Inputs <- MCInputs
  Sides = {"stream", "bytes"}
  Registered = {9}
  MaxFaults = 1
INVARIANTS Translates StreamPrefix NothingLost NilAtEnd
PROPERTY ReturnsWhole
CHECK_DEADLOCK FALSE
