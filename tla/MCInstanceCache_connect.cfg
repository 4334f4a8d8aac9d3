SPECIFICATION FairSpec
CONSTANTS
  Threads = {t1, t2}
  None = None
  Pin = Pin
  Configs = {c1, c2}
  InMemory = FALSE
  MayFail = TRUE
  MaxInstances = 3
INVARIANTS SameDatabase FileOpenOnce PinnedStaysOpen NoPinAfterShutdown
PROPERTIES ConnectReturns
CHECK_DEADLOCK FALSE
