SPECIFICATION Spec
CONSTANTS
  Threads = {t1, t2}
  None = None
  Pin = Pin
  Configs = {c1}
  InMemory = TRUE
  MayFail = FALSE
  MaxInstances = 3
INVARIANTS InitRunHere
CHECK_DEADLOCK FALSE
