--------------------------- MODULE SpscRing_proofs ---------------------------
(***************************************************************************)
(* Proofs about SpscRing, for every capacity and every number of frames.   *)
(***************************************************************************)
EXTENDS SpscRing, FiniteSetTheorems, SequenceTheorems, TLAPS

-------------------------------------------------------------------------------
(***************************************************************************)
(* Arithmetic of the slot index: position % capacity_.                     *)
(***************************************************************************)

\* An index is a slot number (index(), EdrielRing.hpp 130-132).
LEMMA IndexInRange == \A p \in Nat : index(p) \in 0..(Capacity - 1)
BY CapacityAssumption DEF index

\* Division with remainder by the capacity.
LEMMA DivMod ==
  ASSUME NEW p \in Nat
  PROVE  p = Capacity * (p \div Capacity) + (p % Capacity)
BY CapacityAssumption

\* A positive multiple of the capacity is no smaller than the capacity.
LEMMA MultipleAtLeast ==
  ASSUME NEW k \in Int, k >= 1
  PROVE  Capacity * k >= Capacity
BY CapacityAssumption

(***************************************************************************)
(* Two positions less than a capacity apart never share a slot: this is    *)
(* what keeps the insert cursor off the frames that still wait.            *)
(***************************************************************************)
LEMMA IndexInjective ==
  ASSUME NEW p \in Nat, NEW q \in Nat, p < q, q < p + Capacity
  PROVE  index(p) # index(q)
<1> SUFFICES ASSUME p % Capacity = q % Capacity PROVE FALSE
  BY DEF index
<1> DEFINE m == p \div Capacity
           n == q \div Capacity
<1>1. m \in Int /\ n \in Int
  BY CapacityAssumption
<1>2. p = Capacity * m + (p % Capacity) /\ q = Capacity * n + (q % Capacity)
  BY DivMod
<1>3. p % Capacity \in Int
  BY CapacityAssumption
<1> HIDE DEF m, n
<1>4. Capacity * n \in Int /\ Capacity * m \in Int /\ Capacity * (n - m) \in Int
  BY <1>1, CapacityAssumption
<1>5. q - p = Capacity * n - Capacity * m
  BY <1>2, <1>3, <1>4
<1>6. Capacity * (n - m) = Capacity * n - Capacity * m
  BY <1>1, CapacityAssumption
<1>7. Capacity * (n - m) > 0 /\ Capacity * (n - m) < Capacity
  BY <1>4, <1>5, <1>6, CapacityAssumption
<1>8. n - m >= 1
  BY <1>1, <1>7, CapacityAssumption
<1>. QED
  BY <1>1, <1>7, <1>8, MultipleAtLeast, CapacityAssumption

\* Inside one window of capacity positions, an index determines its position.
LEMMA IndexDetermines ==
  ASSUME NEW lo \in Nat, NEW p \in lo..(lo + Capacity - 1),
         NEW q \in lo..(lo + Capacity - 1), index(p) = index(q)
  PROVE  p = q
<1>1. p \in Nat /\ q \in Nat /\ p < q + Capacity /\ q < p + Capacity
  BY CapacityAssumption
<1>2. ~(p < q) /\ ~(q < p)
  BY <1>1, IndexInjective
<1>. QED
  BY <1>1, <1>2

-------------------------------------------------------------------------------
(***************************************************************************)
(* Type correctness.                                                       *)
(***************************************************************************)

\* The next-state relation, with publish() and pop() taken apart.
LEMMA NextCases ==
  Next <=> \/ PublishEnqueue \/ PublishOverwrite \/ PublishClosed
           \/ PopFrame \/ PopWait \/ PopExit
           \/ SpuriousWakeup \/ tryPop \/ Dispatch \/ close
BY DEF Next, publish, pop

\* Waking the worker leaves it in one of its states.
LEMMA NotifyType ==
  worker \in WorkerStates => NotifyOne \in WorkerStates /\ NotifyIfWasEmpty \in WorkerStates
BY DEF WorkerStates, NotifyOne, NotifyIfWasEmpty

\* Every step of the ring and its worker keeps the type invariant.
LEMMA TypeStep == TypeOK /\ [Next]_vars => TypeOK'
<1> SUFFICES ASSUME TypeOK, [Next]_vars PROVE TypeOK'
  OBVIOUS
<1> USE CapacityAssumption DEF TypeOK, size
<1>0. index(head) \in 0..(Capacity - 1) /\ index(tail) \in 0..(Capacity - 1)
  BY IndexInRange
<1>1. CASE PublishEnqueue
  BY <1>0, <1>1, NotifyType DEF PublishEnqueue, Offer, HasRoom
<1>2. CASE PublishOverwrite
  BY <1>0, <1>2, NotifyType DEF PublishOverwrite, Offer
<1>3. CASE PublishClosed
  BY <1>3 DEF PublishClosed, Offer, ringVars
<1>4. CASE PopFrame
  BY <1>0, <1>4 DEF PopFrame, TakeFront, empty, WorkerStates, Null
<1>5. CASE PopWait
  BY <1>5 DEF PopWait, ringVars, history, WorkerStates
<1>6. CASE PopExit
  BY <1>6 DEF PopExit, ringVars, history, WorkerStates
<1>7. CASE SpuriousWakeup
  BY <1>7 DEF SpuriousWakeup, ringVars, history, WorkerStates
<1>8. CASE tryPop
  BY <1>0, <1>8 DEF tryPop, TakeFront, empty, WorkerStates, Null
<1>9. CASE Dispatch
  BY <1>9 DEF Dispatch, ringVars, history, WorkerStates
<1>10. CASE close
  BY <1>10, NotifyType DEF close, history
<1>11. CASE UNCHANGED vars
  BY <1>11 DEF vars
<1>. QED
  BY <1>1, <1>2, <1>3, <1>4, <1>5, <1>6, <1>7, <1>8, <1>9, <1>10, <1>11, NextCases

\* A new ring has its types.
LEMMA InitType == Init => TypeOK
<1> SUFFICES ASSUME Init PROVE TypeOK
  OBVIOUS
<1> USE CapacityAssumption DEF Init
<1>1. slots \in [0..(Capacity - 1) -> Nat]
  BY DEF Null
<1>2. size \in 0..Capacity /\ worker \in WorkerStates
  BY DEF size, WorkerStates
<1>3. popped \in Seq(Nat)
  OBVIOUS
<1>. QED
  BY <1>1, <1>2, <1>3 DEF TypeOK

\* The members of a ring always have their types; in particular the cursors
\* head_ and tail_ are never more than capacity_ apart.
THEOREM TypeCorrect == Spec => []TypeOK
BY InitType, TypeStep, PTL DEF Spec

-------------------------------------------------------------------------------
(***************************************************************************)
(* What each kind of step does to the waiting and the taken frames.        *)
(***************************************************************************)

\* An insert puts the new frame behind the waiting ones and moves none.
LEMMA EnqueueEffect ==
  ASSUME TypeOK, PublishEnqueue
  PROVE  /\ Live' = Live \cup {head} /\ head \notin Live
         /\ \A p \in Live : p < head /\ slots'[index(p)] = slots[index(p)]
         /\ slots'[index(head)] = offered + 1
<1> USE CapacityAssumption DEF TypeOK, size
<1>1. /\ head' = head + 1 /\ tail' = tail /\ head - tail < Capacity
      /\ slots' = [slots EXCEPT ![index(head)] = offered + 1]
  BY DEF PublishEnqueue, HasRoom
<1>2. Live' = Live \cup {head} /\ head \notin Live
  BY <1>1 DEF Live
<1>3. ASSUME NEW p \in Live PROVE p < head /\ slots'[index(p)] = slots[index(p)]
  <2>1. p \in Nat /\ p < head /\ head < p + Capacity
    BY <1>1, <1>3 DEF Live
  <2>2. index(p) # index(head)
    BY <2>1, IndexInjective
  <2>. QED
    BY <1>1, <2>1, <2>2, IndexInRange
<1>4. slots'[index(head)] = offered + 1
  BY <1>1, IndexInRange
<1>. QED
  BY <1>2, <1>3, <1>4

\* An overwrite replaces the frame at the read position and moves none.
LEMMA OverwriteEffect ==
  ASSUME TypeOK, PublishOverwrite
  PROVE  /\ Live' = Live /\ tail \in Live
         /\ \A p \in Live \ {tail} : tail < p /\ slots'[index(p)] = slots[index(p)]
         /\ slots'[index(tail)] = offered + 1
<1> USE CapacityAssumption DEF TypeOK, size
<1>1. /\ head' = head /\ tail' = tail /\ head - tail = Capacity
      /\ slots' = [slots EXCEPT ![index(tail)] = offered + 1]
  BY DEF PublishOverwrite, HasRoom
<1>2. Live' = Live /\ tail \in Live
  BY <1>1 DEF Live
<1>3. ASSUME NEW p \in Live \ {tail} PROVE tail < p /\ slots'[index(p)] = slots[index(p)]
  <2>1. p \in Nat /\ tail < p /\ p < tail + Capacity
    BY <1>1, <1>3 DEF Live
  <2>2. index(tail) # index(p)
    BY <2>1, IndexInjective
  <2>. QED
    BY <1>1, <2>1, <2>2, IndexInRange
<1>4. slots'[index(tail)] = offered + 1
  BY <1>1, IndexInRange
<1>. QED
  BY <1>2, <1>3, <1>4

\* Taking a frame takes the one at the read position and moves none.
LEMMA TakeEffect ==
  ASSUME TypeOK, ~empty, TakeFront
  PROVE  /\ Live' = Live \ {tail} /\ tail \in Live
         /\ \A p \in Live \ {tail} : tail < p /\ slots'[index(p)] = slots[index(p)]
         /\ DOMAIN popped' = DOMAIN popped \cup {Len(popped) + 1}
         /\ Len(popped) + 1 \notin DOMAIN popped
         /\ \A i \in DOMAIN popped : i < Len(popped) + 1 /\ popped'[i] = popped[i]
         /\ popped'[Len(popped) + 1] = slots[index(tail)]
<1> USE CapacityAssumption DEF TypeOK, size
<1>1. /\ head' = head /\ tail' = tail + 1 /\ tail < head /\ head - tail <= Capacity
      /\ slots' = [slots EXCEPT ![index(tail)] = Null]
      /\ popped' = Append(popped, slots[index(tail)])
  BY DEF TakeFront, empty
<1>2. Live' = Live \ {tail} /\ tail \in Live
  BY <1>1 DEF Live
<1>3. ASSUME NEW p \in Live \ {tail} PROVE tail < p /\ slots'[index(p)] = slots[index(p)]
  <2>1. p \in Nat /\ tail < p /\ p < tail + Capacity
    BY <1>1, <1>3 DEF Live
  <2>2. index(tail) # index(p)
    BY <2>1, IndexInjective
  <2>. QED
    BY <1>1, <2>1, <2>2, IndexInRange
<1>4. /\ DOMAIN popped = 1..Len(popped)
      /\ Len(popped) \in Nat
      /\ slots[index(tail)] \in Nat
  <2>1. slots[index(tail)] \in Nat
    BY IndexInRange
  <2>2. DOMAIN popped = 1..Len(popped) /\ Len(popped) \in Nat
    OBVIOUS
  <2>. QED
    BY <2>1, <2>2
<1>5. /\ DOMAIN popped' = 1..(Len(popped) + 1)
      /\ \A i \in DOMAIN popped : popped'[i] = popped[i]
      /\ popped'[Len(popped) + 1] = slots[index(tail)]
  BY <1>1, <1>4
<1>. QED
  BY <1>2, <1>3, <1>4, <1>5

(***************************************************************************)
(* The same, for the sets of frames.                                       *)
(***************************************************************************)

\* An insert adds the new frame to the waiting ones.
LEMMA EnqueueSets ==
  ASSUME TypeOK, PublishEnqueue
  PROVE  /\ Waiting' = Waiting \cup {offered + 1}
         /\ Taken' = Taken /\ Evicted' = Evicted /\ refused' = refused
         /\ offered' = offered + 1
<1>1. Waiting' = Waiting \cup {offered + 1}
  BY EnqueueEffect DEF Waiting, index
<1>. QED
  BY <1>1 DEF PublishEnqueue, Offer, Taken, Evicted

\* An overwrite moves the front frame from the waiting to the evicted ones.
LEMMA OverwriteSets ==
  ASSUME TypeOK, NoFrameTwice, PublishOverwrite
  PROVE  /\ slots[index(tail)] \in Waiting
         /\ Waiting' = (Waiting \ {slots[index(tail)]}) \cup {offered + 1}
         /\ Evicted' = Evicted \cup {slots[index(tail)]}
         /\ Taken' = Taken /\ refused' = refused /\ offered' = offered + 1
         /\ dropped' = dropped + 1
<1>1. slots[index(tail)] \in Waiting
  BY OverwriteEffect DEF Waiting
<1>2. Waiting' = (Waiting \ {slots[index(tail)]}) \cup {offered + 1}
  BY OverwriteEffect DEF Waiting, NoFrameTwice, index
<1>3. Evicted' = Evicted \cup {slots[index(tail)]}
  <2> DEFINE pair == <<slots[index(tail)], offered + 1>>
  <2>1. evictions' = evictions \cup {pair}
    BY DEF PublishOverwrite
  <2>2. pair[1] = slots[index(tail)]
    OBVIOUS
  <2> HIDE DEF pair
  <2>. QED
    BY <2>1, <2>2 DEF Evicted
<1>. QED
  BY <1>1, <1>2, <1>3 DEF PublishOverwrite, Offer, Taken

\* Taking a frame moves the front frame from the waiting to the taken ones.
LEMMA TakeSets ==
  ASSUME TypeOK, NoFrameTwice, ~empty, TakeFront
  PROVE  /\ slots[index(tail)] \in Waiting
         /\ Waiting' = Waiting \ {slots[index(tail)]}
         /\ Taken' = Taken \cup {slots[index(tail)]}
         /\ Evicted' = Evicted /\ refused' = refused /\ offered' = offered
         /\ dropped' = dropped
<1>1. slots[index(tail)] \in Waiting
  BY TakeEffect DEF Waiting
<1>2. Waiting' = Waiting \ {slots[index(tail)]}
  BY TakeEffect DEF Waiting, NoFrameTwice, index
<1>3. Taken' = Taken \cup {slots[index(tail)]}
  BY TakeEffect DEF Taken
<1>. QED
  BY <1>1, <1>2, <1>3 DEF TakeFront, Evicted

-------------------------------------------------------------------------------
(***************************************************************************)
(* Every frame is accounted for.                                           *)
(***************************************************************************)

\* A step that leaves the slots and the histories alone keeps the account.
LEMMA AccountUntouched ==
  ASSUME EveryFrameAccountedFor,
         UNCHANGED <<head, tail, slots, dropped, offered, popped, evictions, refused>>
  PROVE  EveryFrameAccountedFor'
<1>1. Waiting' = Waiting /\ Taken' = Taken /\ Evicted' = Evicted
  BY DEF Waiting, Live, index, Taken, Evicted
<1>2. InOnePlace'
  BY <1>1 DEF EveryFrameAccountedFor, InOnePlace
<1>3. NoFrameTwice'
  BY DEF EveryFrameAccountedFor, NoFrameTwice, Live, index
<1>4. DropsAreCounted'
  BY <1>1 DEF EveryFrameAccountedFor, DropsAreCounted
<1>. QED
  BY <1>2, <1>3, <1>4 DEF EveryFrameAccountedFor

\* The frame publish() is called with next is nowhere yet.
LEMMA NextFrameIsNew ==
  ASSUME TypeOK, InOnePlace
  PROVE  /\ 1..(offered + 1) = (1..offered) \cup {offered + 1}
         /\ offered + 1 \notin 1..offered
         /\ offered + 1 \notin Waiting
         /\ \A p \in Live : slots[index(p)] # offered + 1
<1>1. /\ 1..(offered + 1) = (1..offered) \cup {offered + 1}
      /\ offered + 1 \notin 1..offered
  BY DEF TypeOK
<1>2. offered + 1 \notin Waiting
  BY <1>1 DEF InOnePlace
<1>3. \A p \in Live : slots[index(p)] \in Waiting
  BY DEF Waiting
<1>. QED
  BY <1>1, <1>2, <1>3

\* publish() on a ring with room keeps the account.
LEMMA AccountEnqueue ==
  ASSUME TypeOK, EveryFrameAccountedFor, PublishEnqueue
  PROVE  EveryFrameAccountedFor'
<1> USE DEF EveryFrameAccountedFor
<1>1. InOnePlace'
  BY EnqueueSets, NextFrameIsNew DEF InOnePlace
<1>2. NoFrameTwice'
  <2>1. popped' = popped
    BY DEF PublishEnqueue
  <2>2. \A p \in Live : slots[index(p)] # offered + 1
    BY NextFrameIsNew
  <2>3. \A p, q \in Live' : slots'[index(p)] = slots'[index(q)] => p = q
    BY <2>2, EnqueueEffect DEF NoFrameTwice
  <2>. QED
    BY <2>1, <2>3 DEF NoFrameTwice, index
<1>3. DropsAreCounted'
  BY EnqueueSets DEF DropsAreCounted, PublishEnqueue
<1>. QED
  BY <1>1, <1>2, <1>3

\* publish() on a full ring keeps the account.
LEMMA AccountOverwrite ==
  ASSUME TypeOK, EveryFrameAccountedFor, PublishOverwrite
  PROVE  EveryFrameAccountedFor'
<1> USE DEF EveryFrameAccountedFor
<1>1. InOnePlace'
  <2> DEFINE old == slots[index(tail)]
  <2>1. old \in Waiting /\ old \notin Taken /\ old \notin refused
    BY OverwriteSets DEF InOnePlace
  <2>2. offered + 1 \notin Taken \cup Evicted \cup refused \cup Waiting
    BY NextFrameIsNew DEF InOnePlace
  <2>3. /\ Waiting' = (Waiting \ {old}) \cup {offered + 1}
        /\ Evicted' = Evicted \cup {old}
        /\ Taken' = Taken /\ refused' = refused /\ offered' = offered + 1
    BY OverwriteSets
  <2>4. 1..offered' = (1..offered) \cup {offered + 1}
    BY <2>3, NextFrameIsNew
  <2> HIDE DEF old
  <2>. QED
    BY <2>1, <2>2, <2>3, <2>4 DEF InOnePlace
<1>2. NoFrameTwice'
  <2>1. popped' = popped
    BY DEF PublishOverwrite
  <2>2. \A p \in Live : slots[index(p)] # offered + 1
    BY NextFrameIsNew
  <2>3. \A p, q \in Live' : slots'[index(p)] = slots'[index(q)] => p = q
    BY <2>2, OverwriteEffect DEF NoFrameTwice
  <2>. QED
    BY <2>1, <2>3 DEF NoFrameTwice, index
<1>3. DropsAreCounted'
  <2>1. slots[index(tail)] \notin Evicted
    BY OverwriteSets DEF InOnePlace
  <2>2. IsFiniteSet(Evicted') /\ Cardinality(Evicted') = Cardinality(Evicted) + 1
    BY <2>1, OverwriteSets, FS_AddElement DEF DropsAreCounted
  <2>. QED
    BY <2>2, OverwriteSets DEF DropsAreCounted
<1>. QED
  BY <1>1, <1>2, <1>3

\* publish() on a closed ring keeps the account.
LEMMA AccountRefuse ==
  ASSUME TypeOK, EveryFrameAccountedFor, PublishClosed
  PROVE  EveryFrameAccountedFor'
<1> USE DEF EveryFrameAccountedFor
<1>1. /\ UNCHANGED <<head, tail, slots, dropped, popped, evictions>>
      /\ offered' = offered + 1 /\ refused' = refused \cup {offered + 1}
  BY DEF PublishClosed, Offer, ringVars
<1>2. Waiting' = Waiting /\ Taken' = Taken /\ Evicted' = Evicted
  BY <1>1 DEF Waiting, Live, index, Taken, Evicted
<1>3. InOnePlace'
  BY <1>1, <1>2 DEF InOnePlace, TypeOK
<1>4. NoFrameTwice' /\ DropsAreCounted'
  BY <1>1, <1>2 DEF NoFrameTwice, Live, index, DropsAreCounted
<1>. QED
  BY <1>3, <1>4

\* pop() and tryPop() of a waiting frame keep the account.
LEMMA AccountTake ==
  ASSUME TypeOK, EveryFrameAccountedFor, ~empty, TakeFront
  PROVE  EveryFrameAccountedFor'
<1> USE DEF EveryFrameAccountedFor
<1>1. InOnePlace'
  BY TakeSets DEF InOnePlace
<1>2. NoFrameTwice'
  <2>1. \A i \in DOMAIN popped : popped[i] # slots[index(tail)]
    BY TakeSets DEF InOnePlace, Taken
  <2>2. \A i, j \in DOMAIN popped' : popped'[i] = popped'[j] => i = j
    BY <2>1, TakeEffect DEF NoFrameTwice
  <2>3. \A p, q \in Live' : slots'[index(p)] = slots'[index(q)] => p = q
    BY TakeEffect DEF NoFrameTwice
  <2>. QED
    BY <2>2, <2>3 DEF NoFrameTwice, index
<1>3. DropsAreCounted'
  BY TakeSets DEF DropsAreCounted
<1>. QED
  BY <1>1, <1>2, <1>3

-------------------------------------------------------------------------------
(***************************************************************************)
(* Frames change places only by overwriting.                               *)
(***************************************************************************)
OrderInv == InversionsAreOverwrites /\ WaitingInOrder

\* The frames that wait or were taken have smaller numbers than the next one.
LEMMA NextFrameIsLargest ==
  ASSUME TypeOK, InOnePlace
  PROVE  /\ offered + 1 \in Nat
         /\ \A p \in Live : slots[index(p)] \in Nat /\ slots[index(p)] < offered + 1
         /\ \A i \in DOMAIN popped : popped[i] \in Nat /\ popped[i] < offered + 1
<1>1. offered \in Nat /\ \A f \in 1..offered : f \in Nat /\ f < offered + 1
  BY DEF TypeOK
<1>2. \A p \in Live : slots[index(p)] \in 1..offered
  BY DEF InOnePlace, Waiting
<1>3. \A i \in DOMAIN popped : popped[i] \in 1..offered
  BY DEF InOnePlace, Taken
<1>. QED
  BY <1>1, <1>2, <1>3

\* publish() on a ring with room inverts no pair of frames.
LEMMA OrderEnqueue ==
  ASSUME TypeOK, InOnePlace, OrderInv, PublishEnqueue
  PROVE  OrderInv'
<1> USE DEF OrderInv
<1>1. popped' = popped /\ Overwriters' = Overwriters
  BY DEF PublishEnqueue, Overwriters
<1>2. InversionsAreOverwrites'
  BY <1>1 DEF InversionsAreOverwrites
<1>3. ASSUME NEW p \in Live', NEW q \in Live', p < q,
             slots'[index(p)] > slots'[index(q)]
      PROVE  slots'[index(p)] \in Overwriters'
  <2>1. p \in Live
    BY <1>3, EnqueueEffect DEF TypeOK, Live
  <2>2. CASE q \in Live
    BY <1>1, <1>3, <2>1, <2>2, EnqueueEffect DEF WaitingInOrder
  <2>3. CASE q = head
    BY <1>3, <2>1, <2>3, EnqueueEffect, NextFrameIsLargest
  <2>. QED
    BY <2>2, <2>3, EnqueueEffect
<1>4. ASSUME NEW i \in DOMAIN popped, NEW p \in Live', popped[i] > slots'[index(p)]
      PROVE  popped[i] \in Overwriters'
  <2>1. CASE p \in Live
    BY <1>1, <1>4, <2>1, EnqueueEffect DEF WaitingInOrder
  <2>2. CASE p = head
    BY <1>4, <2>2, EnqueueEffect, NextFrameIsLargest
  <2>. QED
    BY <2>1, <2>2, EnqueueEffect
<1>5. WaitingInOrder'
  BY <1>1, <1>3, <1>4 DEF WaitingInOrder, index
<1>. QED
  BY <1>2, <1>5

\* publish() on a full ring: the only frame that jumps ahead is recorded as an
\* overwriter.
LEMMA OrderOverwrite ==
  ASSUME TypeOK, InOnePlace, OrderInv, PublishOverwrite
  PROVE  OrderInv'
<1> USE DEF OrderInv
<1>1. popped' = popped
  BY DEF PublishOverwrite
<1>2. Overwriters' = Overwriters \cup {offered + 1}
  <2> DEFINE pair == <<slots[index(tail)], offered + 1>>
  <2>1. evictions' = evictions \cup {pair}
    BY DEF PublishOverwrite
  <2>2. pair[2] = offered + 1
    OBVIOUS
  <2> HIDE DEF pair
  <2>. QED
    BY <2>1, <2>2 DEF Overwriters
<1>3. InversionsAreOverwrites'
  BY <1>1, <1>2 DEF InversionsAreOverwrites
<1>4. ASSUME NEW p \in Live', NEW q \in Live', p < q,
             slots'[index(p)] > slots'[index(q)]
      PROVE  slots'[index(p)] \in Overwriters'
  <2>1. p \in Live /\ q \in Live
    BY <1>4, OverwriteEffect
  <2>2. CASE p = tail
    BY <1>2, <2>2, OverwriteEffect
  <2>3. CASE p # tail
    <3>1. p \in Nat /\ q \in Nat /\ tail < p
      BY <2>1, <2>3, OverwriteEffect DEF TypeOK, Live
    <3>2. q # tail
      BY <1>4, <3>1 DEF TypeOK
    <3>. QED
      BY <1>2, <1>4, <2>1, <2>3, <3>2, OverwriteEffect DEF WaitingInOrder
  <2>. QED
    BY <2>2, <2>3
<1>5. ASSUME NEW i \in DOMAIN popped, NEW p \in Live', popped[i] > slots'[index(p)]
      PROVE  popped[i] \in Overwriters'
  <2>1. CASE p = tail
    BY <1>5, <2>1, OverwriteEffect, NextFrameIsLargest
  <2>2. CASE p # tail
    BY <1>2, <1>5, <2>2, OverwriteEffect DEF WaitingInOrder
  <2>. QED
    BY <2>1, <2>2
<1>6. WaitingInOrder'
  BY <1>1, <1>4, <1>5 DEF WaitingInOrder, index
<1>. QED
  BY <1>3, <1>6

\* pop() and tryPop() take the front frame, which overtakes none that waits
\* unless it overwrote.
LEMMA OrderTake ==
  ASSUME TypeOK, InOnePlace, OrderInv, ~empty, TakeFront
  PROVE  OrderInv'
<1> USE DEF OrderInv
<1> DEFINE last == Len(popped) + 1
<1>1. Overwriters' = Overwriters
  BY DEF TakeFront, Overwriters
<1>2. ASSUME NEW i \in DOMAIN popped', NEW j \in DOMAIN popped', i < j,
             popped'[i] > popped'[j]
      PROVE  popped'[i] \in Overwriters'
  <2>1. Len(popped) \in Nat /\ i \in Int /\ j \in Int
    BY TakeEffect DEF TypeOK
  <2>2. i \in DOMAIN popped
    BY <1>2, <2>1, TakeEffect
  <2>3. CASE j \in DOMAIN popped
    BY <1>1, <1>2, <2>2, <2>3, TakeEffect DEF InversionsAreOverwrites
  <2>4. CASE j = last
    BY <1>1, <1>2, <2>2, <2>4, TakeEffect DEF WaitingInOrder
  <2>. QED
    BY <2>3, <2>4, TakeEffect
<1>3. ASSUME NEW p \in Live', NEW q \in Live', p < q,
             slots'[index(p)] > slots'[index(q)]
      PROVE  slots'[index(p)] \in Overwriters'
  BY <1>1, <1>3, TakeEffect DEF WaitingInOrder
<1>4. ASSUME NEW i \in DOMAIN popped', NEW p \in Live', popped'[i] > slots'[index(p)]
      PROVE  popped'[i] \in Overwriters'
  <2>1. CASE i \in DOMAIN popped
    BY <1>1, <1>4, <2>1, TakeEffect DEF WaitingInOrder
  <2>2. CASE i = last
    BY <1>1, <1>4, <2>2, TakeEffect DEF WaitingInOrder
  <2>. QED
    BY <2>1, <2>2, TakeEffect
<1>5. InversionsAreOverwrites'
  BY <1>2 DEF InversionsAreOverwrites
<1>6. WaitingInOrder'
  BY <1>3, <1>4 DEF WaitingInOrder, index
<1>. QED
  BY <1>5, <1>6

\* A step that leaves the slots and the histories alone keeps the order.
LEMMA OrderUntouched ==
  ASSUME OrderInv, UNCHANGED <<head, tail, slots, popped, evictions>>
  PROVE  OrderInv'
<1>1. Overwriters' = Overwriters
  BY DEF Overwriters
<1>2. InversionsAreOverwrites'
  BY <1>1 DEF OrderInv, InversionsAreOverwrites
<1>3. WaitingInOrder'
  BY <1>1 DEF OrderInv, WaitingInOrder, Live, index
<1>. QED
  BY <1>2, <1>3 DEF OrderInv

-------------------------------------------------------------------------------
(***************************************************************************)
(* The worker: it never sleeps on work and never leaves work behind.       *)
(***************************************************************************)
WorkerInv == NoLostWakeup /\ ExitedIsDrained

\* Every step keeps the worker's invariant: publish() wakes a sleeping worker
\* exactly when the ring was empty, which it was if the worker slept.
LEMMA WorkerStep == TypeOK /\ WorkerInv /\ [Next]_vars => WorkerInv'
<1> SUFFICES ASSUME TypeOK, WorkerInv, [Next]_vars PROVE WorkerInv'
  OBVIOUS
<1> USE DEF WorkerInv, NoLostWakeup, ExitedIsDrained, empty
<1>1. CASE PublishEnqueue
  BY <1>1 DEF PublishEnqueue, NotifyIfWasEmpty, NotifyOne, TypeOK
<1>2. CASE PublishOverwrite
  BY <1>2 DEF PublishOverwrite, NotifyIfWasEmpty, NotifyOne
<1>3. CASE PublishClosed
  BY <1>3 DEF PublishClosed, ringVars
<1>4. CASE PopFrame
  BY <1>4 DEF PopFrame, TakeFront
<1>5. CASE PopWait
  BY <1>5 DEF PopWait, ringVars
<1>6. CASE PopExit
  BY <1>6 DEF PopExit, ringVars
<1>7. CASE SpuriousWakeup
  BY <1>7 DEF SpuriousWakeup, ringVars
<1>8. CASE tryPop
  BY <1>8 DEF tryPop, TakeFront
<1>9. CASE Dispatch
  BY <1>9 DEF Dispatch, ringVars
<1>10. CASE close
  BY <1>10 DEF close, NotifyOne
<1>11. CASE UNCHANGED vars
  BY <1>11 DEF vars
<1>. QED
  BY <1>1, <1>2, <1>3, <1>4, <1>5, <1>6, <1>7, <1>8, <1>9, <1>10, <1>11, NextCases

-------------------------------------------------------------------------------
(***************************************************************************)
(* The inductive invariant and what follows from it.                       *)
(***************************************************************************)

\* A new ring satisfies the invariant.
LEMMA RingInvInit == Init => RingInv
<1> SUFFICES ASSUME Init PROVE RingInv
  OBVIOUS
<1>1. TypeOK
  BY InitType
<1>2. Live = {} /\ popped = <<>> /\ evictions = {} /\ refused = {} /\ dropped = 0
      /\ offered = 0
  BY DEF Init, Live
<1>3. Taken = {} /\ Evicted = {} /\ Waiting = {}
  BY <1>2 DEF Taken, Evicted, Waiting
<1>4. InOnePlace
  BY <1>2, <1>3 DEF InOnePlace
<1>5. NoFrameTwice /\ InversionsAreOverwrites /\ WaitingInOrder
  BY <1>2 DEF NoFrameTwice, InversionsAreOverwrites, WaitingInOrder
<1>6. DropsAreCounted
  BY <1>2, <1>3, FS_EmptySet DEF DropsAreCounted
<1>7. NoLostWakeup /\ ExitedIsDrained
  BY DEF Init, NoLostWakeup, ExitedIsDrained
<1>. QED
  BY <1>1, <1>4, <1>5, <1>6, <1>7 DEF RingInv, EveryFrameAccountedFor

\* Every step of producer, consumer and close() keeps the invariant.
LEMMA RingInvStep == RingInv /\ [Next]_vars => RingInv'
<1> SUFFICES ASSUME RingInv, [Next]_vars PROVE RingInv'
  OBVIOUS
<1>1. TypeOK' /\ WorkerInv'
  BY TypeStep, WorkerStep DEF RingInv, WorkerInv
<1>2. TypeOK /\ EveryFrameAccountedFor /\ InOnePlace /\ OrderInv
  BY DEF RingInv, OrderInv, EveryFrameAccountedFor
<1>3. EveryFrameAccountedFor' /\ OrderInv'
  <2>1. CASE PublishEnqueue
    BY <1>2, <2>1, AccountEnqueue, OrderEnqueue
  <2>2. CASE PublishOverwrite
    BY <1>2, <2>2, AccountOverwrite, OrderOverwrite
  <2>3. CASE PublishClosed
    BY <1>2, <2>3, AccountRefuse, OrderUntouched DEF PublishClosed, ringVars
  <2>4. CASE PopFrame
    BY <1>2, <2>4, AccountTake, OrderTake DEF PopFrame
  <2>5. CASE tryPop
    BY <1>2, <2>5, AccountTake, OrderTake DEF tryPop
  <2>6. CASE PopWait \/ PopExit \/ SpuriousWakeup \/ Dispatch \/ close \/ UNCHANGED vars
    <3>1. UNCHANGED <<head, tail, slots, dropped, offered, popped, evictions, refused>>
      BY <2>6 DEF PopWait, PopExit, SpuriousWakeup, Dispatch, close, vars, ringVars, history
    <3>. QED
      BY <1>2, <3>1, AccountUntouched, OrderUntouched
  <2>. QED
    BY <2>1, <2>2, <2>3, <2>4, <2>5, <2>6, NextCases
<1>. QED
  BY <1>1, <1>3 DEF RingInv, WorkerInv, OrderInv

\* The strengthened invariant holds in every reachable state of the ring.
THEOREM RingInvHolds == Spec => []RingInv
BY RingInvInit, RingInvStep, PTL DEF Spec

\* For every capacity: no frame given to publish() is lost in silence, taken
\* twice or both taken and overwritten, and dropped() counts the overwritten.
THEOREM FramesAccounted == Spec => []EveryFrameAccountedFor
<1>1. RingInv => EveryFrameAccountedFor
  BY DEF RingInv
<1>. QED
  BY <1>1, RingInvHolds, PTL

\* For every capacity: pop() delivers a frame ahead of an older one only if
\* publish() made it overwrite a slot of a full ring.
THEOREM OrderKeptWithoutOverflow == Spec => []InversionsAreOverwrites
<1>1. RingInv => InversionsAreOverwrites
  BY DEF RingInv
<1>. QED
  BY <1>1, RingInvHolds, PTL

\* For every capacity: skipping notify_one() on a ring that was not empty never
\* leaves the worker asleep in pop() beside a frame, or in a closed ring.
THEOREM NoWakeupIsLost == Spec => []NoLostWakeup
<1>1. RingInv => NoLostWakeup
  BY DEF RingInv
<1>. QED
  BY <1>1, RingInvHolds, PTL

\* For every capacity: when the worker's loop ends on a nullptr from pop(),
\* nothing that was accepted is left in the ring.
THEOREM WorkerLeavesNothing == Spec => []ExitLeavesNothing
<1>1. RingInv => ExitLeavesNothing
  <2> SUFFICES ASSUME RingInv, worker = "exited"
               PROVE  closed /\ 1..offered = Taken \cup Evicted \cup refused
    BY DEF ExitLeavesNothing
  <2>1. closed /\ head = tail
    BY DEF RingInv, ExitedIsDrained, empty
  <2>2. Waiting = {}
    BY <2>1 DEF Waiting, Live, RingInv, TypeOK
  <2>. QED
    BY <2>1, <2>2 DEF RingInv, EveryFrameAccountedFor, InOnePlace
<1>. QED
  BY <1>1, RingInvHolds, PTL

-------------------------------------------------------------------------------
(***************************************************************************)
(* The ring implements the mailbox.                                        *)
(***************************************************************************)

Slice(store, lo, n) == [i \in 1..n |-> store[index(lo + i - 1)]]

\* n slots read from a position on make a sequence of n frames.
LEMMA SliceIsSeq ==
  ASSUME NEW store \in [0..(Capacity - 1) -> Nat], NEW lo \in Nat, NEW n \in Nat
  PROVE  /\ Slice(store, lo, n) \in Seq(Nat)
         /\ Len(Slice(store, lo, n)) = n
         /\ \A i \in 1..n : Slice(store, lo, n)[i] = store[index(lo + i - 1)]
<1>1. ASSUME NEW i \in 1..n PROVE store[index(lo + i - 1)] \in Nat
  <2>1. lo + i - 1 \in Nat
    OBVIOUS
  <2>. QED
    BY <2>1, IndexInRange
<1>2. Slice(store, lo, n) \in [1..n -> Nat]
  BY <1>1 DEF Slice
<1>3. \A i \in 1..n : Slice(store, lo, n)[i] = store[index(lo + i - 1)]
  BY DEF Slice
<1>. QED
  BY <1>2, <1>3

\* The backlog before and after a step, as slices of the ring.
LEMMA BacklogIsSlice ==
  ASSUME TypeOK, TypeOK'
  PROVE  /\ Backlog = Slice(slots, tail, size)
         /\ Backlog' = Slice(slots', tail', size')
         /\ tail \in Nat /\ tail' \in Nat /\ size \in Nat /\ size' \in Nat
         /\ slots \in [0..(Capacity - 1) -> Nat] /\ slots' \in [0..(Capacity - 1) -> Nat]
         /\ \A i \in 1..size : tail + i - 1 \in Live
<1>1. Backlog = Slice(slots, tail, size) /\ Backlog' = Slice(slots', tail', size')
  BY DEF Backlog, Slice, index
<1>2. \A i \in 1..size : tail + i - 1 \in Live
  BY DEF Live, size, TypeOK
<1>3. /\ tail \in Nat /\ size \in Nat /\ slots \in [0..(Capacity - 1) -> Nat]
  BY CapacityAssumption DEF TypeOK
<1>4. /\ tail' \in Nat /\ size' \in Nat /\ slots' \in [0..(Capacity - 1) -> Nat]
  BY CapacityAssumption DEF TypeOK
<1>. QED
  BY <1>1, <1>2, <1>3, <1>4

\* An insert appends to the backlog.
LEMMA BacklogEnqueue ==
  ASSUME TypeOK, TypeOK', PublishEnqueue
  PROVE  Backlog' = Append(Backlog, offered + 1) /\ Len(Backlog) < Capacity
<1> DEFINE s == Slice(slots, tail, size)
           t == Slice(slots', tail, size + 1)
<1>1. /\ size' = size + 1 /\ tail' = tail /\ tail + (size + 1) - 1 = head
      /\ size < Capacity /\ offered + 1 \in Nat
  BY DEF TypeOK, size, PublishEnqueue, HasRoom
<1>2. s = Backlog /\ t = Backlog' /\ size \in Nat /\ size + 1 \in Nat
  BY <1>1, BacklogIsSlice
<1>10. /\ \A i \in 1..size : s[i] = slots[index(tail + i - 1)]
      /\ \A i \in 1..(size + 1) : t[i] = slots'[index(tail + i - 1)]
  BY <1>2, BacklogIsSlice, SliceIsSeq
<1>3. ASSUME NEW i \in 1..size PROVE t[i] = s[i]
  <2>1. i \in 1..(size + 1) /\ tail + i - 1 \in Live
    BY <1>2, <1>3, BacklogIsSlice
  <2>2. t[i] = slots'[index(tail + i - 1)] /\ s[i] = slots[index(tail + i - 1)]
    BY <1>10, <1>3, <2>1
  <2>. QED
    BY <2>1, <2>2, EnqueueEffect
<1>4. t[size + 1] = offered + 1
  <2>1. size + 1 \in 1..(size + 1)
    BY <1>2
  <2>2. t[size + 1] = slots'[index(tail + (size + 1) - 1)]
    BY <1>10, <2>1
  <2>. QED
    BY <1>1, <2>2, EnqueueEffect
<1>5. s \in Seq(Nat) /\ Len(s) = size /\ t \in Seq(Nat) /\ Len(t) = size + 1
  BY <1>2, BacklogIsSlice, SliceIsSeq
<1> HIDE DEF s, t
<1>6. t = Append(s, offered + 1)
  BY <1>1, <1>2, <1>3, <1>4, <1>5
<1>. QED
  BY <1>1, <1>2, <1>5, <1>6

\* An overwrite replaces the first frame of a full backlog.
LEMMA BacklogOverwrite ==
  ASSUME TypeOK, TypeOK', PublishOverwrite
  PROVE  /\ Backlog' = [Backlog EXCEPT ![1] = offered + 1]
         /\ Len(Backlog) = Capacity
         /\ Backlog[1] = slots[index(tail)]
<1> DEFINE s == Slice(slots, tail, size)
           t == Slice(slots', tail, size)
<1>1. /\ size' = size /\ tail' = tail /\ size = Capacity /\ 1 \in 1..size
      /\ tail + 1 - 1 = tail /\ offered + 1 \in Nat
  BY CapacityAssumption DEF TypeOK, size, PublishOverwrite, HasRoom
<1>2. s = Backlog /\ t = Backlog' /\ size \in Nat
  BY <1>1, BacklogIsSlice
<1>10. /\ \A i \in 1..size : s[i] = slots[index(tail + i - 1)]
      /\ \A i \in 1..size : t[i] = slots'[index(tail + i - 1)]
  BY <1>2, BacklogIsSlice, SliceIsSeq
<1>3. ASSUME NEW i \in 1..size, i # 1 PROVE t[i] = s[i]
  <2>1. tail + i - 1 \in Live \ {tail}
    <3>1. tail + i - 1 # tail
      BY <1>3 DEF TypeOK
    <3>. QED
      BY <3>1, BacklogIsSlice
  <2>2. t[i] = slots'[index(tail + i - 1)] /\ s[i] = slots[index(tail + i - 1)]
    BY <1>10, <1>3
  <2>. QED
    BY <2>1, <2>2, OverwriteEffect
<1>4. t[1] = offered + 1 /\ s[1] = slots[index(tail)]
  <2>1. t[1] = slots'[index(tail + 1 - 1)] /\ s[1] = slots[index(tail + 1 - 1)]
    BY <1>10, <1>1
  <2>. QED
    BY <1>1, <2>1, OverwriteEffect
<1>5. s \in Seq(Nat) /\ Len(s) = size /\ t \in Seq(Nat) /\ Len(t) = size
  BY <1>2, BacklogIsSlice, SliceIsSeq
<1> HIDE DEF s, t
<1>6. t = [s EXCEPT ![1] = offered + 1]
  BY <1>1, <1>2, <1>3, <1>4, <1>5
<1>. QED
  BY <1>1, <1>2, <1>4, <1>5, <1>6

\* Taking a frame removes the head of the backlog.
LEMMA BacklogTake ==
  ASSUME TypeOK, TypeOK', ~empty, TakeFront
  PROVE  /\ Backlog # <<>>
         /\ Backlog' = Tail(Backlog)
         /\ Head(Backlog) = slots[index(tail)]
<1> DEFINE s == Slice(slots, tail, size)
           t == Slice(slots', tail + 1, size - 1)
<1>1. /\ size' = size - 1 /\ tail' = tail + 1 /\ 1 \in 1..size
      /\ tail + 1 - 1 = tail /\ size - 1 \in Nat /\ tail + 1 \in Nat
  BY DEF TypeOK, size, TakeFront, empty
<1>2. s = Backlog /\ t = Backlog' /\ size \in Nat
  BY <1>1, BacklogIsSlice
<1>10. /\ \A i \in 1..size : s[i] = slots[index(tail + i - 1)]
      /\ \A i \in 1..(size - 1) : t[i] = slots'[index((tail + 1) + i - 1)]
  <2>1. \A i \in 1..size : s[i] = slots[index(tail + i - 1)]
    BY DEF Slice
  <2>2. \A i \in 1..(size - 1) : t[i] = slots'[index((tail + 1) + i - 1)]
    BY DEF Slice
  <2>. QED
    BY <2>1, <2>2
<1>3. ASSUME NEW i \in 1..(size - 1) PROVE t[i] = s[i + 1]
  <2>1. i + 1 \in 1..size /\ tail + (i + 1) - 1 = (tail + 1) + i - 1 /\ tail + (i + 1) - 1 # tail
    BY <1>2, <1>3 DEF TypeOK
  <2>2. tail + (i + 1) - 1 \in Live \ {tail}
    BY <2>1, BacklogIsSlice
  <2>3. t[i] = slots'[index((tail + 1) + i - 1)] /\ s[i + 1] = slots[index(tail + (i + 1) - 1)]
    BY <1>10, <1>3, <2>1
  <2>. QED
    BY <2>1, <2>2, <2>3, TakeEffect
<1>4. s[1] = slots[index(tail)]
  <2>1. s[1] = slots[index(tail + 1 - 1)]
    BY <1>10, <1>1
  <2>. QED
    BY <1>1, <2>1
<1>5. s \in Seq(Nat) /\ Len(s) = size /\ t \in Seq(Nat) /\ Len(t) = size - 1
  BY <1>1, <1>2, BacklogIsSlice, SliceIsSeq
<1> HIDE DEF s, t
<1>6. s # <<>> /\ Head(s) = s[1]
  BY <1>1, <1>5
<1>7. t = Tail(s)
  <2>1. /\ Tail(s) \in Seq(Nat) /\ Len(Tail(s)) = Len(s) - 1
        /\ \A i \in 1..Len(Tail(s)) : Tail(s)[i] = s[i + 1]
    BY <1>5, <1>6, HeadTailProperties
  <2>2. Len(t) = Len(Tail(s)) /\ \A i \in 1..Len(t) : t[i] = Tail(s)[i]
    BY <1>3, <1>5, <2>1
  <2>. QED
    BY <1>5, <2>1, <2>2, SeqEqual
<1>. QED
  BY <1>2, <1>4, <1>6, <1>7

\* A new ring is an empty mailbox.
LEMMA RefineInit == Init => Mailbox!Init
<1> SUFFICES ASSUME Init PROVE Mailbox!Init
  OBVIOUS
<1>1. Backlog = <<>>
  BY DEF Init, Backlog, size
<1>2. Evicted = {}
  BY DEF Init, Evicted
<1>. QED
  BY <1>1, <1>2 DEF Init, Mailbox!Init

\* Every step of the ring is a step of the mailbox or leaves it unchanged.
LEMMA RefineStep ==
  RingInv /\ [Next]_vars => [Mailbox!Next]_(Mailbox!mvars)
<1> SUFFICES ASSUME RingInv, [Next]_vars PROVE [Mailbox!Next]_(Mailbox!mvars)
  OBVIOUS
<1>1. TypeOK /\ TypeOK' /\ NoFrameTwice
  BY TypeStep DEF RingInv, EveryFrameAccountedFor
<1>2. CASE PublishEnqueue
  <2>1. Mailbox!Accept
    BY <1>1, <1>2, BacklogEnqueue
       DEF PublishEnqueue, Offer, Evicted, Mailbox!Accept, Mailbox!Offer
  <2>. QED
    BY <2>1 DEF Mailbox!Next
<1>3. CASE PublishOverwrite
  <2>1. Mailbox!Displace
    BY <1>1, <1>3, BacklogOverwrite, OverwriteSets
       DEF PublishOverwrite, Offer, Mailbox!Displace, Mailbox!Offer
  <2>. QED
    BY <2>1 DEF Mailbox!Next
<1>4. CASE PublishClosed
  <2>1. Backlog' = Backlog /\ Evicted' = Evicted
    BY <1>4 DEF PublishClosed, ringVars, Backlog, size, index, Evicted
  <2>2. Mailbox!Refuse
    BY <1>4, <2>1 DEF PublishClosed, Offer, ringVars, Mailbox!Refuse, Mailbox!Offer
  <2>. QED
    BY <2>2 DEF Mailbox!Next
<1>5. CASE ~empty /\ TakeFront
  <2>1. Mailbox!HandOut
    BY <1>1, <1>5, BacklogTake DEF TakeFront, Evicted, Mailbox!HandOut
  <2>. QED
    BY <2>1 DEF Mailbox!Next
<1>6. CASE close
  <2>1. Backlog' = Backlog /\ Evicted' = Evicted
    BY <1>6 DEF close, Backlog, size, index, history, Evicted
  <2>2. Mailbox!Shut
    BY <1>6, <2>1 DEF close, history, Mailbox!Shut
  <2>. QED
    BY <2>2 DEF Mailbox!Next
<1>7. CASE PopWait \/ PopExit \/ SpuriousWakeup \/ Dispatch \/ UNCHANGED vars
  <2>1. UNCHANGED <<head, tail, slots, closed, offered, popped, evictions>>
    BY <1>7 DEF PopWait, PopExit, SpuriousWakeup, Dispatch, vars, ringVars, history
  <2>2. Backlog' = Backlog /\ Evicted' = Evicted
    BY <2>1 DEF Backlog, size, index, Evicted
  <2>. QED
    BY <2>1, <2>2 DEF Mailbox!mvars
<1>. QED
  BY <1>2, <1>3, <1>4, <1>5, <1>6, <1>7, NextCases DEF PopFrame, tryPop

\* For every capacity: the ring, with its cursors, its overflow path and its
\* sleeping consumer, implements the mailbox's safety part.
THEOREM RingImplementsMailbox == Spec => Mailbox!Spec
BY RefineInit, RefineStep, RingInvHolds, PTL DEF Spec, Mailbox!Spec

===============================================================================
