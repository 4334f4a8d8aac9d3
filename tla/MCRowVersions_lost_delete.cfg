SPECIFICATION Spec
CONSTANTS
  Txns = {t1, t2, t3}
  t1 = t1
  t2 = t2
  t3 = t3
  None = None
  Base = Base
  Absent = Absent
  VectorSize = 2
  LoadedRows = 2
  MaxRows = 3
  TRANSACTION_ID_START = 100
  NOT_DELETED_ID = 200
  Setups <- Duplicates
SYMMETRY Symmetry
PROPERTY SnapshotReads
