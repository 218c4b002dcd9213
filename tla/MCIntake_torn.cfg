CONSTANTS
  Slots = {u1, u2}
  Projects = {"p"}
  UploadIds = {"scan.1", "scan.2"}
  AssembledAs <- SharedFile
  Chunks <- TwoChunks
  Size <- ChunkSize
  SizeLimit = 3
  MaxTotal = 2
  Contents <- AllContents
  Readable = {}
  Flaky = {}
  Modalities = {"OPTICAL", "SAR"}
  ChunkRequests <- ChunkSends
  Uploads <- SingleUploads
  Batches <- TwoBatches
  MaxFiles = 1
SPECIFICATION Spec
INVARIANTS CrashTearsNoMetadata
