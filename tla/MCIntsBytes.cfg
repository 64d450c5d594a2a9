SPECIFICATION Spec
CONSTANT Values <- MCValues
INVARIANTS BytesNeverWrong
CHECK_DEADLOCK FALSE
