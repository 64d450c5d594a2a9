SPECIFICATION Spec
CONSTANTS
  Size = 5
  Ops <- MCLongName
  MaxCalls = 3
  MaxFaults = 0
  BadMarshal = FALSE
INVARIANTS Complete
