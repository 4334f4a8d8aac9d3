SPECIFICATION Spec
CONSTANTS
  t1 = t1  t2 = t2
  Threads <- MCThreads1
  MayCall <- MCJdbcUse
  Faults <- MCNoFaults
  MaxWrites = 4
  MaxBatch = 3
INVARIANTS
  FlagAgrees
  NothingLingers
  BatchAtomic
PROPERTIES
  KeepsJdbcPromise
