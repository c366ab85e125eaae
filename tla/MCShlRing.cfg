SPECIFICATION Spec
CONSTANTS
  b1 = b1
  b2 = b2
  Byte = {b1, b2}
  Junk = junk
  Sizes = {1, 2, 4, 8}
  Chunks <- MCChunks
  Lengths <- MCLengths
INVARIANTS
  NoJunkRead
PROPERTY
  ImplementsFifo
