----------------------------- MODULE LossyMailbox -----------------------------
(***************************************************************************)
(* What a receive ring promises its shard's worker, with no slots, cursors *)
(* or wake-ups: a bounded sequence of frames that are handed out from its  *)
(* head.  A frame offered to a full mailbox takes the place of the head    *)
(* frame, which is lost for good; a frame offered to a closed mailbox is   *)
(* refused.  Frames are numbered in the order in which they are offered.   *)
(***************************************************************************)
EXTENDS Naturals, Sequences

CONSTANTS Capacity,   \* the most frames the mailbox can hold
          MaxOffers   \* bound: how many frames are ever offered

VARIABLES
  offered,   \* how many frames have been offered
  queue,     \* the frames held, the next one to be handed out first
  out,       \* the frames handed out, in order
  lost,      \* the frames displaced while they waited
  closed     \* TRUE once the mailbox is shut

mvars == <<offered, queue, out, lost, closed>>

Init ==
  /\ offered = 0
  /\ queue = <<>>
  /\ out = <<>>
  /\ lost = {}
  /\ closed = FALSE

Offer == offered < MaxOffers /\ offered' = offered + 1

Accept ==
  /\ Offer
  /\ ~closed
  /\ Len(queue) < Capacity
  /\ queue' = Append(queue, offered + 1)
  /\ UNCHANGED <<out, lost, closed>>

Displace ==
  /\ Offer
  /\ ~closed
  /\ Len(queue) = Capacity
  /\ queue' = [queue EXCEPT ![1] = offered + 1]
  /\ lost' = lost \cup {queue[1]}
  /\ UNCHANGED <<out, closed>>

Refuse ==
  /\ Offer
  /\ closed
  /\ UNCHANGED <<queue, out, lost, closed>>

HandOut ==
  /\ queue # <<>>
  /\ out' = Append(out, Head(queue))
  /\ queue' = Tail(queue)
  /\ UNCHANGED <<offered, lost, closed>>

Shut ==
  /\ closed' = TRUE
  /\ UNCHANGED <<offered, queue, out, lost>>

Next == Accept \/ Displace \/ Refuse \/ HandOut \/ Shut

Spec == Init /\ [][Next]_mvars

(***************************************************************************)
(* A frame that is held is not held for ever.                              *)
(***************************************************************************)
FairSpec == Spec /\ WF_mvars(HandOut)
===============================================================================
