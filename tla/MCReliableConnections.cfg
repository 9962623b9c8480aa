CONSTANTS
  e1 = e1
  e2 = e2
  Publishers = {p1}
  Endpoints = {e1, e2}
  EndpointSets <- MCTwoHomes
  MaxConns = 2
  Moves = TRUE
  Reentrant = FALSE
  Stops = TRUE
SPECIFICATION Spec
INVARIANT OwnedByOne
