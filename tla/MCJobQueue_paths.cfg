CONSTANTS
  Jobs = {j1, j2}
  Requests <- AllRequests
  MaxInference = 1
  Workers = 1
SPECIFICATION Spec
CHECK_DEADLOCK FALSE
INVARIANTS TypeOK AckHonoured RecordConsistent InferenceIsPrepared FailureIsTraced TraceExplainsAnswer
PROPERTIES TerminalIsFinal EveryJobEnds ImplementsLifecycle
