CONSTANTS
  MaxRows = 3
  MaxTime = 2
  MaxLimit = 2
  MaxEdits = 1
  Polls = {p1, p2}
  None = None
SPECIFICATION Spec
INVARIANTS
  TypeOK
  RowsShownOnce
  NoRowSkipped
  StackMatchesScreen
PROPERTIES
  StatusConverges
