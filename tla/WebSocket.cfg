SPECIFICATION Spec
CONSTANTS
  Peer = {p1}
  MaxConnections = 2
  MaxMessages = 2
  MaxEvents = 3
  fMaxRetries = 2
CHECK_DEADLOCK FALSE
INVARIANTS InOrder NothingLost RosterAgrees
PROPERTY CallsReturn
