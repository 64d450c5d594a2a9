SPECIFICATION Spec
CONSTANTS
  Streams <- MCExt32
  Methods = {"Skip"}
  Chunks = {1, 99}
  BufSize = 16
  MaxCalls = 2
  MaxFaults = 0
INVARIANTS AgreesWithBytes
CHECK_DEADLOCK FALSE
