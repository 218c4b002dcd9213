CONSTANTS
  Threads = {t1}
  Models <- AllModels
  Quantization <- Registry
  CrossModels <- PairModels
  Images = {"a", "b"}
  Requests <- MCRequests
  Vram <- Footprint
  Budget = 82
SPECIFICATION Spec
INVARIANTS NeverRaisesForOom
