SPECIFICATION Spec
CONSTANTS
  t1 = t1
  t2 = t2
  t3 = t3
  Txns = {t1, t2, t3}
  None = None
  Setups <- MCSetups
  Roots = {1, 2, 3}
  MaxCrashes = 2
  MaxCheckpoints = 2
SYMMETRY MCSymmetry
INVARIANTS
  NothingLost
  AbortedStaysAborted
  AppliedOnce
  InCommitOrder
  SerialAlwaysOpens
PROPERTY CommitsAreDurable
CHECK_DEADLOCK FALSE
