CONSTANTS
  WindowSize = 3
  Publishers = {p1}
  Topics = {t1}
  Readers = {r1}
  PublisherOf <- MCPublisherOf
  MaxTid = 4
SPECIFICATION Spec
INVARIANT ReorderDropsNothing
