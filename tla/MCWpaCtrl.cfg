SPECIFICATION FairSpec
CONSTANTS
  MAX = 2
  PERIOD = 2
  MaxQueue = 1
  MaxInbox = 1
INVARIANTS
  BoundedWait
PROPERTIES
  OwnReply
  EventsKept
  PingDetects
