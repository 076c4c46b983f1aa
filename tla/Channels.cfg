SPECIFICATION Spec
CONSTANTS
  Thread = {t1, t2}
  Channel = {0}
  Object = {o1, o2}
  Room = 3
  FRAME_PAYLOAD = 2
  SendSizes = {2}
  MaxSends = 2
  MaxFrames = 1
  Guarded = {"open", "close", "setReceiver"}
  None = None
CHECK_DEADLOCK FALSE
INVARIANTS TypeOK NoUseAfterDelete ReceiverGetsItsObject NothingLeaks SpaceCanBeSent SendsDoNotMix FramesHoldSentBytes HolderGoesOn
