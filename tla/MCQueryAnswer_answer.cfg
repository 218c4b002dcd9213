CONSTANTS
  Kinds = {"scene", "change", "other"}
  Models = {"grounding", "fusion"}
  Quantization <- MCQuantization
  CrossModels = {"fusion"}
  Images = {"optical", "radar"}
  Requests <- MCRequests
  IouPct = 50
  Labels = {"ship", "dock"}
  Scenes <- MCScenes
  Pairs <- MCPairs
  Negligible = 1
  MaxOffset = 2
  ChangeConfidence = 61000
  Evidences <- MCEvidences
  Clients = {TRUE, FALSE}
  Inventions = {8700000}
  MaxRetries = 1
SPECIFICATION Spec
CHECK_DEADLOCK FALSE
INVARIANTS
  TilesCoverImages ObjectsReported BatchesNameOnce
  OnlyAlignedPairsMeasured MosaicCountsPixelsOnce
  NumbersTrace AbstentionsAskNobody WeakestLinkSpeaks CaveatsReachReader
  CountNotInflated
