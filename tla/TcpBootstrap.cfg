SPECIFICATION Spec
CONSTANTS
  p1 = p1
  p2 = p2
  p3 = p3
  Proc = {p1, p2, p3}
  Given <- GivenByHand
  MaxWorkers = 2
  ReadyTarget = 1
  NoIndex = NoIndex
  NoProc = NoProc
  MaxFaults = 2
INVARIANTS NeverReplaced IndexIsMine ReadyKept
PROPERTY Answered
CHECK_DEADLOCK FALSE
