CONSTANTS
  Jobs = {j1, j2}
  Requests <- PlainRequests
  MaxInference = 1
  Workers = 2
SPECIFICATION Spec
CHECK_DEADLOCK FALSE
INVARIANTS InferenceNeverCollides
