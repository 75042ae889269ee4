CONSTANTS
  MinPartSize = 2
  PreferredPartSize = 2
  MaxPartSize = 3
  MaxMultipartParts = 2
  MaxObjectSize = 5
  ConcurrentPartUploads = 2
  Requests = {}
  Faults = {"call"}
  NoObject = NoObject
SPECIFICATION Spec
INVARIANT ObjectIsFile
CHECK_DEADLOCK FALSE
