CONSTANTS
  MAX_OBJECT_COMPOSITION = 2
  MaxFile = 5
  MaxChunks = 5
  MaxRaces = 1
  Fails = TRUE
  NoObject = NoObject
SPECIFICATION Spec
INVARIANTS ObjectIsFile
PROPERTIES ImplementsUploadStore
CHECK_DEADLOCK FALSE
