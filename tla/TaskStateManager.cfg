SPECIFICATION Spec
CONSTANTS
  TaskId = {1, 2, 3}
  WorkerId = {w1, w2}
  TaskPayload = {p1, p2}
  NoWorker = NoWorker
  NoPayload = NoPayload
INVARIANTS TypeOK PendingIndexExact ExactlyOneBucket AssignmentsAgree PayloadsKept LoopsMatchCalls
PROPERTIES FirstInFirstOut ImplementsLedger
