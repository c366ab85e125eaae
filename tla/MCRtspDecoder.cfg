SPECIFICATION Spec
CONSTANTS
  CR = CR
  LF = LF
  SP = SP
  QUOTE = QUOTE
  BSLASH = BSLASH
  NUL = NUL
  ZERO = x
  Text = {x}
  cl1 = cl1
  cl2 = cl2
  ContentLength <- MCContentLength
  None = None
  HEADER_SIZE = 2
  MaxStream = 5
  MaxChunk = 2
  MaxStale = 1
  Alphabet = {CR, LF, x, cl1, QUOTE}
INVARIANTS
  Bookkeeping
  StateMeaning
  HeaderFits
  ChunkInvariance
