CONSTANTS
  Dials = 1
  OutboxMax = 2
  HwmConfig = 1
  LwmConfig = 0
  Presence = 0
  MaxPushes = 1
SPECIFICATION Spec
INVARIANT HalfCloseDrains
CHECK_DEADLOCK FALSE
