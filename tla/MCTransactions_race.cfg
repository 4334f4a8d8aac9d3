SPECIFICATION Spec
CONSTANTS
  t1 = t1  t2 = t2
  Threads <- MCThreads2
  MayCall <- MCWritesAndCommits
  Faults <- MCNoFaults
  MaxWrites = 2
  MaxBatch = 1
PROPERTIES
  ManualCommitOnly
CHECK_DEADLOCK FALSE
