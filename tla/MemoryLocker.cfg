CONSTANTS
  Callers = {c1, c2, c3}
  Uploads = {u1, u2}
  NoCaller = NoCaller
SPECIFICATION MemFairSpec
INVARIANTS MemMutualExclusion NoLostWakeup NoPanic
PROPERTIES MemLockReturns MemImplementsUploadLock
CHECK_DEADLOCK FALSE
