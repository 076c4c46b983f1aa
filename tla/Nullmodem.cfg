SPECIFICATION Spec
CONSTANTS
  DEPTH = 3
  SEQ_MOD = 256
  FRAME_PAYLOAD = 256
  FIFO_SIZE = 1024
  LastChannel = 7
  Lengths = {1, 255, 257, 940, 1024}
  TestCount = 9
CHECK_DEADLOCK FALSE
INVARIANT NothingLost
PROPERTY DemoEnds
