CONSTANTS
  Callers = {c1, c2, c3}
  Uploads = {u1}
  Procs = {p1, p2}
  Impatient = {c1}
  NoCaller = NoCaller
SPECIFICATION MCSpec
INVARIANTS MutualExclusion HolderPolls AskedAfterContention
PROPERTIES LockReturns ImplementsUploadLock
CHECK_DEADLOCK FALSE
