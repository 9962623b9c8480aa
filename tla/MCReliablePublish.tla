------------------------- MODULE MCReliablePublish -------------------------
(***************************************************************************)
(* Small instances of ReliablePublish for TLC.                             *)
(***************************************************************************)
EXTENDS ReliablePublish
=============================================================================
