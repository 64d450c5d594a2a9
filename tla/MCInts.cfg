SPECIFICATION Spec
CONSTANT Values <- MCValues
INVARIANTS TypeOK RoundTrip StreamNeverWrong WithinMsgsize
CHECK_DEADLOCK FALSE
