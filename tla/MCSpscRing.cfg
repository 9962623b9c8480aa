CONSTANTS
  Capacity = 3
  MaxOffers = 7
SPECIFICATION FairSpec
INVARIANTS
  TypeOK
  EveryFrameAccountedFor
  InversionsAreOverwrites
  NoLostWakeup
PROPERTIES
  CloseEndsWorker
  ImplementsMailbox
