CONSTANTS
  Dials = 2
  OutboxMax = 2
  HwmConfig = 1
  LwmConfig = 0
  Presence = 0
  MaxPushes = 1
SPECIFICATION Spec
PROPERTY OnlyNewerSupersedes
CHECK_DEADLOCK FALSE
