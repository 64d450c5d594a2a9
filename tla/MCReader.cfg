SPECIFICATION Spec
CONSTANTS
  Streams <- MCStreams
  Methods <- MCMethods
  Chunks = {1, 4, 99}
  BufSize = 16
  MaxCalls = 2
  MaxFaults = 1
INVARIANTS TypeOK Exact NeverPast AgreesWithBytes ResumesAtObject AsksWithin
PROPERTY Returns
CHECK_DEADLOCK FALSE
