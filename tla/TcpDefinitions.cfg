SPECIFICATION Spec
CONSTANTS
  Worker = {0, 1}
  IsTcp = TRUE
  OwnDef = 1
  Faults = {"crash", "timeout", "interrupt", "init", "error", "ack", "user", "linger", "send"}
  MaxFaults = 1
  TasksOf <- BatchDefinitions
  BatchSize = 2
  PerWorker = 1
  NoWorker = NoWorker
  NoPayload = NoPayload
  NoFile = NoFile
CHECK_DEADLOCK FALSE
INVARIANTS MergeExact NoGhostMessages ReplayCovers
