CONSTANTS
  Capacity = 2
  MaxOffers = 5
SPECIFICATION Spec
INVARIANT RetainedFramesStayInOrder
