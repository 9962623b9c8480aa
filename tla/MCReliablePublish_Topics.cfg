CONSTANTS
  Subscribers = {s1}
  Topics = {t1, t2}
  WindowSize = 3
  Hwm = 1
  Lwm = 0
  RateLimit = 0
  PresenceFrames = 0
  Silence = FALSE
  MaxCalls = 4
SPECIFICATION Spec
INVARIANT OrderlyLeavesNoGap
CHECK_DEADLOCK FALSE
