CONSTANTS
  e1 = e1
  e2 = e2
  Publishers = {p1}
  Endpoints = {e1}
  EndpointSets <- MCOneHome
  MaxConns = 1
  Moves = FALSE
  Reentrant = FALSE
  Stops = TRUE
SPECIFICATION Spec
INVARIANT StoppedStaysStopped
