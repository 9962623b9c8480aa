CONSTANTS
  WindowSize = 3
  Publishers = {p1}
  Topics = {t1, t2}
  Readers = {r1}
  PublisherOf <- MCPublisherOf
  MaxTid = 5
SPECIFICATION Spec
INVARIANTS
  FrontierAboveAccepted
  CallbacksInOrder
PROPERTIES
  TakesOnlyNewer
  FreshFrameIsTaken
