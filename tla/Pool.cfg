SPECIFICATION Spec
CONSTANTS
  Thread = {t1, t2}
  fMinBounds <- SquareMin
  fMaxBounds <- SquareMax
  Raisers = {"task", "enqueue"}
  MaxSpurious = 1
  Main = Main
  NoException = NoException
  NoTask = NoTask
CHECK_DEADLOCK FALSE
INVARIANTS ActiveCounts ExactlyOnce IdleAfterWait ExceptionReported NothingStranded
PROPERTIES FirstExceptionKept WorkersTerminate
