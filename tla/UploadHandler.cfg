CONSTANTS
  Callers = {r1, r2, r3}
  Uploads = {u1}
  NoCaller = NoCaller
  NoFile = NoFile
  Truncated = Truncated
  Inputs <- V1Inputs
  MaxSize = 2
  NotifyCreated = FALSE
  Faults = {"store", "cancel", "crash"}
SPECIFICATION Spec
SYMMETRY Symmetry
INVARIANTS TypeOK OneWorker StoredPrefix TruthfulOffset DownloadIsStable FinishedOnce
PROPERTIES ImplementsUploadResource
CHECK_DEADLOCK FALSE
