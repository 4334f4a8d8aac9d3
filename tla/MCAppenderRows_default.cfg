SPECIFICATION Spec
CONSTANTS
  Columns <- MCColumns
  Kind <- MCKind
  DefaultAt <- MCField
  Foldable <- MCTopLevel
  Faults <- MCNone
  Closers <- MCOwner
  MaxRows = 2
  MaxTotal = 4
  MaxFailures = 2
PROPERTIES
  NoOverwrite
CHECK_DEADLOCK FALSE
