SPECIFICATION Spec
CONSTANTS
  Worker = {0, 1}
  IsTcp = FALSE
  OwnDef = 0
  Faults = {"crash", "interrupt", "init", "error", "ack", "user", "stall", "send", "linger", "slow"}
  MaxFaults = 1
  TasksOf <- ThreeTasks
  BatchSize = 1
  PerWorker = 1
  NoWorker = NoWorker
  NoPayload = NoPayload
  NoFile = NoFile
CHECK_DEADLOCK FALSE
PROPERTIES SessionEnds WorkersEnd
