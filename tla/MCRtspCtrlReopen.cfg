SPECIFICATION Spec
CONSTANTS
  None = None
  ROUNDS = 2
  MaxConn = 3
  MaxQueue = 2
PROPERTY
  ReopenSurvives
CHECK_DEADLOCK FALSE
