CONSTANTS
  Subscribers = {s1, s2}
  Topics = {t1}
  WindowSize = 3
  Hwm = 1
  Lwm = 0
  RateLimit = 1
  PresenceFrames = 3
  Silence = TRUE
  MaxCalls = 3
SPECIFICATION FairSpec
INVARIANTS CommittedIffAccepted TidNamesOnePayload NeverTwice OrderlyLeavesNoGap
PROPERTIES AcceptedIsDelivered RefusalsEnd
CHECK_DEADLOCK FALSE
