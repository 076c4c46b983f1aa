SPECIFICATION MCSpec
CONSTANTS
  DEPTH = 3
  SEQ_MOD = 4
  FRAME_PAYLOAD = 2
  Channel = {0}
  TxRoom = 3
  LoadSizes = {3}
  PeerSeq = {0, 1}
  UINT_MOD = 3
  FIRST_TIMEOUT = 0
  BYTES_PER_MS = 2
  RTX_TIMEOUT = 1
INVARIANTS TypeOK DataSlotsDistinct TimeoutFollowsFrame PendingSeqWindow AckNeverOlder
PROPERTY ImplementsQueues
