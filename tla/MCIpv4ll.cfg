SPECIFICATION FairSpec
CONSTANTS
  Host = {h1, h2}
  Addr = {a1, a2}
  None = None
  PROBE_WAIT = 1
  PROBE_NUM = 2
  PROBE_MIN = 1
  PROBE_MAX = 2
  ANNOUNCE_WAIT = 1
  ANNOUNCE_NUM = 2
  ANNOUNCE_INTERVAL = 1
  MAX_CONFLICTS = 2
  DEFEND_INTERVAL = 2
  UINT8 = 3
  MaxFaults = 1
INVARIANTS
  Unique
  OneTimer
PROPERTIES
  Incumbent
  ProbingEnds
  Resolves
