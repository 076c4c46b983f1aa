SPECIFICATION MCSpec
CONSTANTS
  FRAME_PAYLOAD = 11
  Byte <- MCByte
  MaxFrames = 2
INVARIANTS TypeOK FrameComesBack OnlyFullFrameSurvives BytesReadableInPlace
CHECK_DEADLOCK FALSE
