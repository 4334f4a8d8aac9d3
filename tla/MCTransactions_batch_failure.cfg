SPECIFICATION Spec
CONSTANTS
  t1 = t1  t2 = t2
  Threads <- MCThreads1
  MayCall <- MCBatches
  Faults <- MCCommitFault
  MaxWrites = 4
  MaxBatch = 2
INVARIANTS
  BatchAtomic
