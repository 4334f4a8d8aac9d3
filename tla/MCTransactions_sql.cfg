SPECIFICATION Spec
CONSTANTS
  t1 = t1  t2 = t2
  Threads <- MCThreads1
  MayCall <- MCSqlUse
  Faults <- MCAllFaults
  MaxWrites = 3
  MaxBatch = 2
INVARIANTS
  EndedMeansEnded
