CONSTANTS
  MaxFile = 6
  MaxBlocks = 5
  MaxBlockBlobChunkSize = 3
  Requests = {"draft"}
  Fails = TRUE
  NoBlob = NoBlob
SPECIFICATION Spec
INVARIANTS BlobIsFile TruthfulOffset
PROPERTIES ImplementsUploadStore
CHECK_DEADLOCK FALSE
