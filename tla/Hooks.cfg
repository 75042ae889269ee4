CONSTANTS
  N = 3
  FileSize = 1
  Backends = {"http"}
  Enabled = {"pre-create", "post-create", "post-receive", "pre-finish", "post-finish", "pre-terminate", "post-terminate"}
SPECIFICATION FairSpec
INVARIANTS HookOrder NothingWithoutConsent AnnouncedOnce
PROPERTIES RequestsEnd FinishReachesHook
CHECK_DEADLOCK FALSE
