SPECIFICATION FairSpec
CONSTANTS
  Addr = {a1, a2}
  None = None
  DISCOVER_TIMEOUT = 3
  DISCOVER_RETRIES = 3
  REQUEST_TIMEOUT = 3
  REQUEST_RETRIES = 2
  NAK_DELAY = 3
  RENEW_MIN = 14
  REBIND_MIN = 6
  LEASE_LIMIT = 64
  MIN_LEASE = 10
  DEFAULT_LEASE = 31
  LeaseTime = {29, 64}
  MaxReplies = 2
INVARIANTS
  TimerFitsState
  Listens
  LeaseNotOverrun
  ConfiguredIsAssigned
  LeavesNoAddress
PROPERTIES
  Settles
