CONSTANTS
  Threads = {t1, t2}
  Models <- AllModels
  Quantization <- Registry
  CrossModels <- PairModels
  Images = {"a", "b"}
  Requests <- MCRequests
  Vram <- Footprint
  Budget = 82
SPECIFICATION Spec
SYMMETRY Symmetry
INVARIANTS EveryCallAccountsForTiles EveryLossIsLastResort
PROPERTIES ResidentWithinBudget EvictsOldestOnly RunsTheLadder EveryLoopDescends
