CONSTANTS
  Dials = 1
  OutboxMax = 3
  HwmConfig = 2
  LwmConfig = 1
  Presence = 1
  MaxPushes = 3
SPECIFICATION FairSpec
INVARIANT WrittenInOrder
PROPERTIES LatchClears EndedStreamsAreDone
CHECK_DEADLOCK FALSE
