------------------------ MODULE MCSubscriberReactor ------------------------
(***************************************************************************)
(* Small instances of SubscriberReactor for TLC.                           *)
(***************************************************************************)
EXTENDS SubscriberReactor
=============================================================================
