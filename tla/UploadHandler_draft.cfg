CONSTANTS
  Callers = {r1, r2}
  Uploads = {u1}
  NoCaller = NoCaller
  NoFile = NoFile
  Truncated = Truncated
  Inputs <- DraftInputs
  MaxSize = 0
  NotifyCreated = FALSE
  Faults = {}
SPECIFICATION Spec
INVARIANTS StoredPrefix
CHECK_DEADLOCK FALSE
