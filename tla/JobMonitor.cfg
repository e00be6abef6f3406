SPECIFICATION Spec
CONSTANTS
  Job = {j1, j2}
  Task = {1, 2}
  NoJob = NoJob
  MaxFaults = 2
CHECK_DEADLOCK FALSE
INVARIANTS TableIsTrue
PROPERTY JobFinishes
