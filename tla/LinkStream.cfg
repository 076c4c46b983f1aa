SPECIFICATION MCStreamSpec
CONSTANTS
  DEPTH = 3
  SEQ_MOD = 4
  FRAME_PAYLOAD = 2
  Channel = {0}
  TxRoom = 9
  Senders = {"A", "B"}
  SendSizes = {3, 10}
  MaxWritten = 9
  SyncWrites = {0, 5}
  MaxErrors = 1
  LineBound = 0
INVARIANTS TypeOK LinkInv DeliveredInOrder AckedWasHanded
