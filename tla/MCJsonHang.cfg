SPECIFICATION Spec
CONSTANTS
  Inputs <- MCCut
  Sides = {"bytes"}
  Registered = {9}
  MaxFaults = 0
PROPERTY BytesReturn
CHECK_DEADLOCK FALSE
