----------------------------- MODULE MCRegistry -----------------------------
(***************************************************************************)
(* The registry for TLC: two shards, so that a peer and its topics may be  *)
(* in different ones.                                                      *)
(***************************************************************************)
EXTENDS Registry

CONSTANTS p1, p2, t1, t2

MCShardOfPeer  == [p \in Peers |-> IF p = p1 THEN 1 ELSE 2]
MCShardOfTopic == [t \in Topics |-> IF t = t1 THEN 1 ELSE 2]

\* All that the peers, the application and the node itself may do.
MCEverything == AllInputs
=============================================================================
