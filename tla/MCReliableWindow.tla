--------------------------- MODULE MCReliableWindow ---------------------------
(***************************************************************************)
(* ReliableWindow for TLC: every reader is connected to the same publisher.*)
(***************************************************************************)
EXTENDS ReliableWindow

MCPublisherOf == [r \in Readers |-> CHOOSE p \in Publishers : TRUE]
===============================================================================
