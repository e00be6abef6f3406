SPECIFICATION Spec
CONSTANTS
  Worker = {0, 1}
  IsTcp = FALSE
  OwnDef = 1
  Faults = {}
  MaxFaults = 0
  TasksOf <- ShrinkingDefinitions
  BatchSize = 1
  PerWorker = 1
  NoWorker = NoWorker
  NoPayload = NoPayload
  NoFile = NoFile
CHECK_DEADLOCK FALSE
INVARIANTS SkippedWorkersAreEmpty
