SPECIFICATION Spec
CONSTANTS
  Thread = {t1, t2}
  fMinBounds <- RowMin
  fMaxBounds <- RowMax
  Raisers = {"task"}
  MaxSpurious = 0
  Main = Main
  NoException = NoException
  NoTask = NoTask
CHECK_DEADLOCK FALSE
PROPERTY ExceptionRethrown
