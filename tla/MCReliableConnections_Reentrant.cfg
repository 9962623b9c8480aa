CONSTANTS
  e1 = e1
  e2 = e2
  Publishers = {p1}
  Endpoints = {e1}
  EndpointSets <- MCOneHome
  MaxConns = 2
  Moves = FALSE
  Reentrant = TRUE
  Stops = FALSE
SPECIFICATION Spec
INVARIANT NoJoinCycle
