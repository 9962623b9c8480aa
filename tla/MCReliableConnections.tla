----------------------- MODULE MCReliableConnections -----------------------
(***************************************************************************)
(* The connection manager for TLC: a publisher with one endpoint, one that *)
(* advertises two at once, and one that may be at either of two.           *)
(***************************************************************************)
EXTENDS ReliableConnections

CONSTANTS e1, e2

MCOneHome  == {<<e1>>}
MCMultiHome == {<<e1, e2>>}
MCTwoHomes == {<<e1>>, <<e2>>}
============================================================================
