SPECIFICATION Spec
CONSTANTS
  Columns <- MCColumns
  Kind <- MCKind
  DefaultAt <- MCTopLevel
  Foldable <- MCTopLevel
  Faults <- MCFaults
  Closers <- MCOwner
  MaxRows = 2
  MaxTotal = 4
  MaxFailures = 2
INVARIANTS
  RowWhole
  CompletedRowCanEnd
  EachRowOnce
  NoneLost
PROPERTIES
  NoOverwrite
  CloseStores
CHECK_DEADLOCK FALSE
