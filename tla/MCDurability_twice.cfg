SPECIFICATION Spec
CONSTANTS
  t1 = t1
  t2 = t2
  t3 = t3
  Txns = {t1, t2}
  None = None
  Setups <- DefaultOnly
  Roots = {1, 2, 3}
  MaxCrashes = 3
  MaxCheckpoints = 2
SYMMETRY MCSymmetry
INVARIANT AppliedOnce
CHECK_DEADLOCK FALSE
