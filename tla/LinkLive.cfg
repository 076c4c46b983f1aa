SPECIFICATION MCLiveSpec
CONSTANTS
  DEPTH = 3
  SEQ_MOD = 4
  FRAME_PAYLOAD = 2
  Channel = {0}
  TxRoom = 4
  Senders = {"A", "B"}
  SendSizes = {1, 5}
  MaxWritten = 5
  SyncWrites = {5}
  MaxErrors = 1
  LineBound = 0
  MaxRestarts = 0
  MaxFalseSyncs = 2
  OnlySettled = TRUE
PROPERTIES EveryFrameAcknowledged EveryByteArrives ImplementsStream
