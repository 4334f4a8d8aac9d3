SPECIFICATION Spec
CONSTANTS
  Threads = {t1, t2}
  None = None
  Pin = Pin
  Configs = {c1}
  InMemory = FALSE
  MayFail = FALSE
  MaxInstances = 3
INVARIANTS PinnedAccessible
CHECK_DEADLOCK FALSE
