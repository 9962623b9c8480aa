CONSTANTS
  Dials = 1
  OutboxMax = 1
  HwmConfig = 0
  LwmConfig = 0
  Presence = 0
  MaxPushes = 2
SPECIFICATION FairSpec
PROPERTY LatchClears
CHECK_DEADLOCK FALSE
