CONSTANTS
  u1 = u1
  EmptyString = ""
  ShardOfUid <- MCShardOfUid
  ShardOfKey <- MCShardOfKey
  N = 2
  Datagrams <- MCEvery
  Wire <- MCWire
  KernelSlots = 1
  RingSlots = 2
  MaxArrivals = 3
  MaxStarts = 2
  CallbackStops = FALSE
SPECIFICATION Spec
CHECK_DEADLOCK FALSE
INVARIANT OneWorkerPerSubject
