------------------------------ MODULE MCSpscRing ------------------------------
(***************************************************************************)
(* SpscRing for TLC.                                                       *)
(***************************************************************************)
EXTENDS SpscRing
===============================================================================
