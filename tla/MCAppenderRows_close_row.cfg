SPECIFICATION Spec
CONSTANTS
  Columns <- MCColumns
  Kind <- MCKind
  DefaultAt <- MCTopLevel
  Foldable <- MCTopLevel
  Faults <- MCNone
  Closers <- MCOwner
  MaxRows = 2
  MaxTotal = 4
  MaxFailures = 2
INVARIANTS
  ClosedMeansStored
CHECK_DEADLOCK FALSE
