CONSTANTS
  Partials = {p, q}
  Finals = {f}
  MaxSize = 2
  MaxList = 2
  MinPartSize = 2
  Stores = {"file", "s3"}
  Fails = TRUE
  None = None
SPECIFICATION Spec
CONSTRAINT UnderWay
INVARIANTS ContentIsMeant AnnouncedIsWhole SizeIsSum
CHECK_DEADLOCK FALSE
SYMMETRY Symmetry
