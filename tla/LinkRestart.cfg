SPECIFICATION MCRestartSpec
CONSTANTS
  DEPTH = 3
  SEQ_MOD = 4
  FRAME_PAYLOAD = 1
  Channel = {0}
  TxRoom = 2
  Senders = {"A"}
  SendSizes = {2}
  MaxWritten = 2
  SyncWrites = {5}
  MaxErrors = 0
  LineBound = 1
  MaxRestarts = 1
  MaxFalseSyncs = 0
  OnlySettled = FALSE
INVARIANT NeverTwiceInALife
PROPERTY WindowDrains
