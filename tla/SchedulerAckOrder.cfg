SPECIFICATION MCSpec
CONSTANTS
  DEPTH = 3
  SEQ_MOD = 4
  FRAME_PAYLOAD = 2
  Channel = {0}
  TxRoom = 3
  LoadSizes = {}
  PeerSeq = {0, 1, 2, 3}
  UINT_MOD = 2
  FIRST_TIMEOUT = 0
  BYTES_PER_MS = 1
  RTX_TIMEOUT = 0
INVARIANT OldestAckFirst
