------------------------------- MODULE SpscRing -------------------------------
(***************************************************************************)
(* The bounded ring between the multicast receive thread (the one producer)*)
(* and a shard's worker (the one consumer): class SpscRing in              *)
(* EdrielRing.hpp and autoDiscoveryWorkerLoop in Edriel.cpp.               *)
(*                                                                         *)
(* Every method holds mtx_ from its first to its last statement, so it is  *)
(* one step here; the exception is pop(), which gives the lock up while it *)
(* waits on cv_.  A frame is its number in the order in which publish() is *)
(* called; a slot whose unique_ptr was moved out of, or never filled, holds*)
(* Null.                                                                   *)
(***************************************************************************)
EXTENDS Integers, Sequences, FiniteSets

CONSTANTS Capacity,   \* capacity_: number of slots (rx_ring_slots)
          MaxOffers   \* bound: how many times publish() is called

ASSUME CapacityAssumption == Capacity \in Nat \ {0}
ASSUME MaxOffersAssumption == MaxOffers \in Nat

VARIABLES
  head,       \* head_: position of the next insert
  tail,       \* tail_: position of the next read
  slots,      \* slots_: the stored frames
  dropped,    \* dropped_: how many frames were overwritten
  closed,     \* closed_
  worker,     \* where the worker thread is
  offered,    \* history: calls of publish()
  popped,     \* history: the frames the consumer took, in order
  evictions,  \* history: <<frame overwritten, frame that took its slot>>
  refused     \* history: frames published after close()

ringVars == <<head, tail, slots, dropped, closed>>
history  == <<offered, popped, evictions, refused>>
vars     == <<head, tail, slots, dropped, closed, worker, offered, popped, evictions, refused>>

Null   == 0
Frames == 1..MaxOffers

(***************************************************************************)
(* popping: about to call (or re-check the predicate of) pop();            *)
(* waiting: asleep inside cv_.wait; woken: notified, or woken spuriously,  *)
(* and yet to take mtx_ again; dispatching: decoding and handling a frame; *)
(* exited: the loop broke because pop() returned nullptr.                  *)
(***************************************************************************)
WorkerStates == {"popping", "waiting", "woken", "dispatching", "exited"}

index(position) == position % Capacity

size  == head - tail
empty == head = tail

\* The positions between the read and the insert cursor, and what they hold.
Live    == tail..(head - 1)
Waiting == {slots[index(p)] : p \in Live}

Init ==
  /\ head = 0
  /\ tail = 0
  /\ slots = [i \in 0..(Capacity - 1) |-> Null]
  /\ dropped = 0
  /\ closed = FALSE
  /\ worker = "popping"
  /\ offered = 0
  /\ popped = <<>>
  /\ evictions = {}
  /\ refused = {}

-------------------------------------------------------------------------------
(***************************************************************************)
(* publish(): the producer.                                                *)
(***************************************************************************)
Offer == offered < MaxOffers /\ offered' = offered + 1

NotifyOne == IF worker = "waiting" THEN "woken" ELSE worker

\* Mutant: the emptiness test is made after the insert, and never holds.
NotifyNobody == worker

\* cv_.notify_one() is called only when the ring was empty before the insert.
NotifyIfWasEmpty == IF empty THEN NotifyOne ELSE worker

\* Mutant: one frame too many.
HasRoomLoose == size <= Capacity

HasRoom == size < Capacity

PublishEnqueue ==
  /\ Offer
  /\ ~closed
  /\ HasRoom
  /\ slots' = [slots EXCEPT ![index(head)] = offered + 1]
  /\ head' = head + 1
  /\ worker' = NotifyIfWasEmpty
  /\ UNCHANGED <<tail, dropped, closed, popped, evictions, refused>>

\* Mutant: the slot behind the insert position is overwritten.
PublishOverwriteNewest ==
  /\ Offer
  /\ ~closed
  /\ ~HasRoom
  /\ evictions' = evictions \cup {<<slots[index(head - 1)], offered + 1>>}
  /\ slots' = [slots EXCEPT ![index(head - 1)] = offered + 1]
  /\ dropped' = dropped + 1
  /\ worker' = NotifyIfWasEmpty
  /\ UNCHANGED <<head, tail, closed, popped, refused>>

\* Mutant: the drop is not counted.
PublishOverwriteUncounted ==
  /\ Offer
  /\ ~closed
  /\ ~HasRoom
  /\ evictions' = evictions \cup {<<slots[index(tail)], offered + 1>>}
  /\ slots' = [slots EXCEPT ![index(tail)] = offered + 1]
  /\ worker' = NotifyIfWasEmpty
  /\ UNCHANGED <<head, tail, dropped, closed, popped, refused>>

\* Full: the frame at the read position is replaced, the cursors stay.
PublishOverwrite ==
  /\ Offer
  /\ ~closed
  /\ ~HasRoom
  /\ evictions' = evictions \cup {<<slots[index(tail)], offered + 1>>}
  /\ slots' = [slots EXCEPT ![index(tail)] = offered + 1]
  /\ dropped' = dropped + 1
  /\ worker' = NotifyIfWasEmpty
  /\ UNCHANGED <<head, tail, closed, popped, refused>>

\* The early return: a frame published after close() vanishes.
PublishClosed ==
  /\ Offer
  /\ closed
  /\ refused' = refused \cup {offered + 1}
  /\ UNCHANGED <<ringVars, worker, popped, evictions>>

publish == PublishEnqueue \/ PublishOverwrite \/ PublishClosed

-------------------------------------------------------------------------------
(***************************************************************************)
(* pop(), tryPop() and the worker's loop: the consumer.                    *)
(***************************************************************************)
\* Mutant: the newest frame is taken, last in first out.
TakeBack ==
  /\ popped' = Append(popped, slots[index(head - 1)])
  /\ slots' = [slots EXCEPT ![index(head - 1)] = Null]
  /\ head' = head - 1
  /\ worker' = "dispatching"
  /\ UNCHANGED <<tail, dropped, closed, offered, evictions, refused>>

TakeFront ==
  /\ popped' = Append(popped, slots[index(tail)])
  /\ slots' = [slots EXCEPT ![index(tail)] = Null]
  /\ tail' = tail + 1
  /\ worker' = "dispatching"
  /\ UNCHANGED <<head, dropped, closed, offered, evictions, refused>>

\* pop() with the predicate true and the ring not empty.
PopFrame == worker \in {"popping", "woken"} /\ ~empty /\ TakeFront

\* pop() with the predicate false: release mtx_ and sleep, in one step.
PopWait ==
  /\ worker \in {"popping", "woken"}
  /\ empty
  /\ ~closed
  /\ worker' = "waiting"
  /\ UNCHANGED <<ringVars, history>>

\* Mutant: a closed ring ends the worker with frames still in it.
PopExitWhenClosed ==
  /\ worker \in {"popping", "woken"}
  /\ closed
  /\ worker' = "exited"
  /\ UNCHANGED <<ringVars, history>>

\* pop() returns nullptr: closed and drained, and the worker's loop breaks.
PopExit ==
  /\ worker \in {"popping", "woken"}
  /\ empty
  /\ closed
  /\ worker' = "exited"
  /\ UNCHANGED <<ringVars, history>>

pop == PopFrame \/ PopWait \/ PopExit

\* A condition variable may wake its waiter for no reason.
SpuriousWakeup ==
  /\ worker = "waiting"
  /\ worker' = "woken"
  /\ UNCHANGED <<ringVars, history>>

\* tryPop() by the consumer; on an empty ring it changes nothing.
tryPop == worker = "popping" /\ ~empty /\ TakeFront

\* The frame popped last is decoded and handled; the loop turns.
Dispatch ==
  /\ worker = "dispatching"
  /\ worker' = "popping"
  /\ UNCHANGED <<ringVars, history>>

-------------------------------------------------------------------------------
\* Mutant: close() forgets notify_all().
closeSilent ==
  /\ closed' = TRUE
  /\ UNCHANGED <<head, tail, slots, dropped, worker, history>>

\* close(), by stopReceivePipeline: wakes every waiter.
close ==
  /\ closed' = TRUE
  /\ worker' = NotifyOne
  /\ UNCHANGED <<head, tail, slots, dropped, history>>

Next ==
  \/ publish
  \/ pop
  \/ SpuriousWakeup
  \/ tryPop
  \/ Dispatch
  \/ close

Spec == Init /\ [][Next]_vars

(***************************************************************************)
(* The worker is a thread the system schedules, and its handler returns.   *)
(* Nothing is assumed of the receiver, of close() or of spurious wake-ups. *)
(***************************************************************************)
FairSpec == Spec /\ WF_vars(pop) /\ WF_vars(Dispatch)

-------------------------------------------------------------------------------
(***************************************************************************)
(* Properties.                                                             *)
(***************************************************************************)

\* Type invariant of the ring's members (EdrielRing.hpp 134-145): the cursors
\* never cross and never lie more than capacity_ apart.
TypeOK ==
  /\ head \in Nat
  /\ tail \in Nat
  /\ size \in 0..Capacity
  /\ slots \in [0..(Capacity - 1) -> Nat]
  /\ dropped \in Nat
  /\ closed \in BOOLEAN
  /\ worker \in WorkerStates
  /\ offered \in Nat
  /\ popped \in Seq(Nat)
  /\ evictions \subseteq Nat \X Nat
  /\ refused \subseteq Nat

Taken   == {popped[i] : i \in DOMAIN popped}
Evicted == {e[1] : e \in evictions}
Overwriters == {e[2] : e \in evictions}

InOnePlace ==
  /\ Taken \cup Evicted \cup refused \cup Waiting = 1..offered
  /\ Taken \cap Evicted = {}
  /\ Waiting \cap (Taken \cup Evicted) = {}
  /\ refused \cap (Taken \cup Evicted \cup Waiting) = {}

NoFrameTwice ==
  /\ \A i, j \in DOMAIN popped : popped[i] = popped[j] => i = j
  /\ \A p, q \in Live : slots[index(p)] = slots[index(q)] => p = q

DropsAreCounted == IsFiniteSet(Evicted) /\ Cardinality(Evicted) = dropped

(***************************************************************************)
(* No frame is lost in silence and none is handed out twice: every frame   *)
(* given to publish() is in exactly one of four places (taken by the       *)
(* consumer, overwritten, refused after close(), in a live slot), never    *)
(* twice in the same one, and dropped_ counts the overwritten ones.        *)
(***************************************************************************)
EveryFrameAccountedFor == InOnePlace /\ NoFrameTwice /\ DropsAreCounted

(***************************************************************************)
(* The ordering contract that does hold (EdrielRing.hpp 24-26): a frame    *)
(* comes out ahead of an older one only if it took its slot by overwriting *)
(* a frame of a full ring.                                                 *)
(***************************************************************************)
InversionsAreOverwrites ==
  \A i, j \in DOMAIN popped :
    i < j /\ popped[i] > popped[j] => popped[i] \in Overwriters

(***************************************************************************)
(* No lost wake-up: notify_one() is skipped when the ring was not empty,   *)
(* and still the worker never sleeps in cv_.wait while there is a frame to *)
(* take or the ring is closed.                                             *)
(***************************************************************************)
NoLostWakeup == worker = "waiting" => empty /\ ~closed

(***************************************************************************)
(* close() abandons no backlog: once the worker's loop has ended, every    *)
(* frame accepted before close() was taken or overwritten.                 *)
(***************************************************************************)
ExitLeavesNothing ==
  worker = "exited" => closed /\ 1..offered = Taken \cup Evicted \cup refused

(***************************************************************************)
(* A frame that waits in the ring leaves it, whatever the producer does.   *)
(***************************************************************************)
EveryFrameLeaves ==
  \A f \in Frames : f \in Waiting ~> f \in Taken \cup Evicted

(***************************************************************************)
(* The join in stopReceivePipeline (Edriel.cpp 691-695) returns: a closed  *)
(* ring ends its worker, asleep or not.                                    *)
(***************************************************************************)
CloseEndsWorker == closed ~> worker = "exited"

(***************************************************************************)
(* The inductive invariant of the proofs: what the properties above need   *)
(* of the frames that still wait.  A live slot's frame overtakes no later  *)
(* one, and a taken frame overtook no waiting one, except by overwriting.  *)
(***************************************************************************)
WaitingInOrder ==
  /\ \A p, q \in Live :
       p < q /\ slots[index(p)] > slots[index(q)] => slots[index(p)] \in Overwriters
  /\ \A i \in DOMAIN popped, p \in Live :
       popped[i] > slots[index(p)] => popped[i] \in Overwriters

ExitedIsDrained == worker = "exited" => closed /\ empty

RingInv ==
  /\ TypeOK
  /\ EveryFrameAccountedFor
  /\ InversionsAreOverwrites
  /\ WaitingInOrder
  /\ NoLostWakeup
  /\ ExitedIsDrained

\* The ring's waiting frames, in the order the consumer will take them.
Backlog == [i \in 1..size |-> slots[index(tail + i - 1)]]

Mailbox == INSTANCE LossyMailbox
             WITH queue <- Backlog, out <- popped, lost <- Evicted

(***************************************************************************)
(* The ring's cursor arithmetic, its overflow path and its skipped         *)
(* notifications implement the mailbox, fairness included.                 *)
(***************************************************************************)
ImplementsMailbox == Mailbox!FairSpec

(***************************************************************************)
(* EdrielRing.hpp 15-16 says of an overflow that "older frames are evicted,*)
(* retained frames stay in order".  The code does not do this.             *)
(***************************************************************************)
RetainedFramesStayInOrder ==
  \A i, j \in DOMAIN popped : i < j => popped[i] < popped[j]

(***************************************************************************)
(* EdrielRing.hpp 12-13 says that a full ring "overwrites the OLDEST       *)
(* unconsumed slot (drop-oldest)".  The code does so only at the first     *)
(* overflow after a pop.                                                   *)
(***************************************************************************)
OverflowDropsOldest ==
  [][\A f \in Evicted' \ Evicted : \A g \in Waiting : f <= g]_vars
===============================================================================
