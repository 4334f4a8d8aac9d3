SPECIFICATION FairSpec
CONSTANTS
  Tasks = {t1, t2}
  None = None
  Workers = 2
  NBatches = 3
  Workloads <- MCWorkloads
  ReadQueueCapacity = 1
  BufferCapacity = 1
  MayFail = TRUE
INVARIANTS NothingBelowMinimum PassedMeansComplete BufferBounded
PROPERTIES RowsInOrder FetchReturns CloseReturns
CHECK_DEADLOCK FALSE
