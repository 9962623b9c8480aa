CONSTANTS
  U32 <- MCU32
  I64 <- MCI64
  U64 <- MCU64
  Bits <- MCBits
  One = 8
  MaxDuration = 86400
  MaxPort = 65535
  EndpointsCap = 64
  MaxReceivers = 4
  MaxWorkers = 16
  MaxRcvbuf <- MCMaxRcvbuf
  Defaults <- MCDefaults
  HeaderBytes = 24
  EndpointBytes = 25
  recvBufferSize = 1500
  Files <- MCNotations
  Interfaces <- MCInterfaces
SPECIFICATION Spec
INVARIANT RefusedKeepsDefault
