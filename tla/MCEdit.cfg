SPECIFICATION Spec
CONSTANTS
  Messages <- MCMessages
  Spare = {0, 1, 3, 6}
  Keys <- MCKeys
  Vals <- MCVals
  MaxOps = 3
INVARIANTS AgreesWithMap LocateFinds HasKeyFirst
PROPERTY KeepsRest
CHECK_DEADLOCK FALSE
