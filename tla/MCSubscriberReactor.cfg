CONSTANTS
  Dials = 2
  OutboxMax = 2
  HwmConfig = 1
  LwmConfig = 0
  Presence = 1
  MaxPushes = 1
SPECIFICATION Spec
INVARIANTS FinishOnce NoUseAfterDone
PROPERTY ImplementsStream
CHECK_DEADLOCK FALSE
