SPECIFICATION Spec
CONSTANTS
  File = {f1, f2}
  NoFile = NoFile
  nLevels = 2
  MaxPoint = 2
CHECK_DEADLOCK FALSE
INVARIANT HistoryMatchesObjects
PROPERTY HistoryIsAStack
