SPECIFICATION MCSpec
CONSTANTS
  FIFO_SIZE = 3
  Byte = {0, 1}
  N = 4
  Value <- MCValue
  Block <- MCBlock
INVARIANT TypeOK
PROPERTIES ImplementsQueue DataStaysInPlace ImplementsBursts
