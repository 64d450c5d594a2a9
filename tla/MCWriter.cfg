SPECIFICATION Spec
CONSTANTS
  Size = 5
  Ops <- MCOps
  MaxCalls = 3
  MaxFaults = 1
  BadMarshal = TRUE
INVARIANTS TypeOK Framing RoomAfterFlush FlushDelivers AtLeastOnce
PROPERTY AbsSpec
