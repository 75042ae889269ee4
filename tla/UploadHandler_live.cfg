CONSTANTS
  Callers = {r1, r2}
  Uploads = {u1}
  NoCaller = NoCaller
  NoFile = NoFile
  Truncated = Truncated
  Inputs <- LiveInputs
  MaxSize = 0
  NotifyCreated = TRUE
  Faults = {"stop", "store", "cancel"}
SPECIFICATION FairSpec
PROPERTIES GoneForGood RequestsEnd AnnouncedUnlessAbandoned
CHECK_DEADLOCK FALSE
