CONSTANTS
  Jobs = {j1, j2, j3, j4}
  Requests <- PlainRequests
  MaxInference = 2
  Workers = 2
SPECIFICATION Spec
CHECK_DEADLOCK FALSE
SYMMETRY Symmetry
INVARIANTS GateIsFair
PROPERTIES NoOvertaking
