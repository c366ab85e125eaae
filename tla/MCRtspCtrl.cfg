SPECIFICATION Spec
CONSTANTS
  None = None
  ROUNDS = 2
  MaxConn = 3
  MaxQueue = 2
INVARIANTS
  NoStaleBytes
  DispatchOnOwnConnection
  QueuedIsArmed
PROPERTY
  CallbackOrder
CHECK_DEADLOCK FALSE
