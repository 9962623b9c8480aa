CONSTANTS
  u1 = u1
  EmptyString = ""
  ShardOfUid <- MCShardOfUid
  ShardOfKey <- MCShardOfKey
  N = 2
  Datagrams <- MCDatagrams
  Wire <- MCWire
  KernelSlots = 1
  RingSlots = 2
  MaxArrivals = 3
  MaxStarts = 2
  CallbackStops = TRUE
SPECIFICATION Spec
CHECK_DEADLOCK FALSE
INVARIANT NoSelfJoin
