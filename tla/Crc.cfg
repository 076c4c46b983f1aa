SPECIFICATION CrcSpec
CONSTANTS
  Byte <- MCByte
  Burst <- MCBurst
  MaxLen = 2
CHECK_DEADLOCK FALSE
INVARIANTS IntactFrameAccepted DamagedFrameRejected LongDivision
