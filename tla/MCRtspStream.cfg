SPECIFICATION StreamSpec
CONSTANTS
  CR = CR
  LF = LF
  SP = SP
  QUOTE = QUOTE
  BSLASH = BSLASH
  NUL = NUL
  x = x
  y = y
  ZERO = y
  Text = {x, y}
  cl1 = cl1
  cl2 = cl2
  ContentLength <- MCContentLength
  None = None
  Alphabet = {}
  HEADER_SIZE = 2
  MaxStream = 0
  MaxChunk = 3
  MaxStale = 0
  Lines <- MCLines
  Heads <- MCHeads
  Bodies <- MCBodies
  MaxSent = 2
INVARIANTS
  Delivered
CHECK_DEADLOCK FALSE
