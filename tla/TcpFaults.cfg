SPECIFICATION Spec
CONSTANTS
  Worker = {0, 1}
  IsTcp = TRUE
  OwnDef = 0
  Faults = {"crash", "timeout", "interrupt", "init", "error", "ack", "user", "stall", "done", "linger"}
  MaxFaults = 2
  TasksOf <- ThreeTasks
  BatchSize = 1
  PerWorker = 1
  NoWorker = NoWorker
  NoPayload = NoPayload
  NoFile = NoFile
CHECK_DEADLOCK FALSE
INVARIANTS TypeOK CountersAgree ReplayCovers NoInternalError DoneMeansSaved MergeComplete
