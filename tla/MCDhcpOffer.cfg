SPECIFICATION GSpec
CONSTANTS
  m1 = m1
  m2 = m2
  m3 = m3
  any = any
  B = 3
  Mac = {m1, m2, m3, any}
  BadMac = {any}
  LeaseId = {l1, l2}
  None = None
  Mentioned = {0, 4, 5}
  start_ip = 4
  end_ip = 5
  server_nip = 3
  lease_seconds = 1
  OFFER_TIME = 1
  INT_MAX = 15
  Boot = 2
  MaxTime = 4
SYMMETRY Clients
PROPERTY
  OfferReserved
