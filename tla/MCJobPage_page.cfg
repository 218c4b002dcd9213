CONSTANTS
  Jobs = {j1, j2}
  NoJob = NoJob
SPECIFICATION Spec
CHECK_DEADLOCK FALSE
INVARIANTS BusyPageIsWatched PanelIsOfOneJob PatientUserIsTold
PROPERTIES PageComesToRest
