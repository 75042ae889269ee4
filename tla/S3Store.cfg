CONSTANTS
  MinPartSize = 2
  PreferredPartSize = 2
  MaxPartSize = 3
  MaxMultipartParts = 2
  MaxObjectSize = 5
  ConcurrentPartUploads = 2
  Requests = {"draft"}
  Faults = {"call", "producer", "crash"}
  NoObject = NoObject
SPECIFICATION FairSpec
INVARIANTS ObjectIsFileUnlessHole TruthfulOffset AckedBytesStay FinishAccepted SlotsBalanced PartSizeFits
PROPERTIES RequestsEnd
CHECK_DEADLOCK FALSE
