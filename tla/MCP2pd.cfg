SPECIFICATION FairSpec
CONSTANTS
  ROUNDS = 2
  SETUP = 2
INVARIANTS
  NoOrphan
  KillsOwnChild
PROPERTIES
  ChildDeathNoticed
  TermEnds
CHECK_DEADLOCK FALSE
