SPECIFICATION Spec
CONSTANTS
  Scenarios <- MCScenarios
  Tails <- MCTails
  MaxReads = 3
INVARIANTS TypeOK OneObject WithinMsgsize RoundTrip Evolves TruncationDetected
CHECK_DEADLOCK FALSE
