SPECIFICATION Spec
CONSTANTS
  DEPTH = 3
  SEQ_MOD = 4
  FRAME_PAYLOAD = 1
  Channel = {0}
  TxRoom = 3
  Senders = {"A"}
  SendSizes = {3}
  MaxWritten = 3
  SyncWrites = {5}
  MaxErrors = 0
  LineBound = 2
INVARIANT AckedWasHanded
