CONSTANTS
  Subscribers = {s1, s2}
  Topics = {t1}
  WindowSize = 3
  Hwm = 1
  Lwm = 0
  RateLimit = 0
  PresenceFrames = 0
  Silence = FALSE
  MaxCalls = 4
SPECIFICATION Spec
INVARIANT NoWindowGap
CHECK_DEADLOCK FALSE
