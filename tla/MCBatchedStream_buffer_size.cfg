SPECIFICATION Spec
CONSTANTS
  Tasks = {t1, t2}
  None = None
  Workers = 2
  NBatches = 7
  Workloads <- MCShort
  ReadQueueCapacity = 1
  BufferCapacity = 1
  MayFail = FALSE
INVARIANTS WithinBufferSize
CHECK_DEADLOCK FALSE
