SPECIFICATION Spec
CONSTANTS
  Worker = {0, 1}
  IsTcp = TRUE
  OwnDef = 0
  Faults = {"crash", "timeout", "interrupt", "error", "ack", "user", "stall", "send", "catchup", "done", "linger", "copy"}
  MaxFaults = 1
  TasksOf <- ShrinkingDefinitions
  BatchSize = 1
  PerWorker = 1
  NoWorker = NoWorker
  NoPayload = NoPayload
  NoFile = NoFile
CHECK_DEADLOCK FALSE
PROPERTIES WorkersEnd SessionSucceeds
