----------------------- MODULE ReliablePublish_proofs -----------------------
(***************************************************************************)
(* Proofs about ReliablePublish: what tentative stamping and commit after  *)
(* acceptance promise, for any subscribers, topics, water marks, pacing    *)
(* and number of sends.                                                    *)
(***************************************************************************)
EXTENDS ReliablePublish, FiniteSetTheorems, TLAPS

Frames == [kind : {"data"}, topic : Topics, tid : Nat, payload : Nat]
Calls == [active : {TRUE}, frame : Frames, left : SUBSET Subscribers, acceptedAny : BOOLEAN]

SendTypes ==
  /\ calls \in Nat
  /\ seq \in [Topics -> Nat]
  /\ registered \in [Topics -> SUBSET Subscribers]
  /\ call \in Calls \cup {Idle}
  /\ offered \subseteq Frames

\* The frame of the send in progress has the tid after the committed ones, and
\* the send knows whether anyone has taken it.
Tentative ==
  call.active =>
    /\ call.frame.tid = seq[call.frame.topic] + 1
    /\ call.acceptedAny <=> call.frame \in offered

\* Outside the send in progress, what was taken is committed ...
TakenIsCommitted ==
  \A f \in offered : f.tid \in 1..seq[f.topic] \/ (call.active /\ f = call.frame)

\* ... and what is committed was taken.
CommittedIsTaken ==
  \A t \in Topics : \A n \in 1..seq[t] : \E f \in offered : f.topic = t /\ f.tid = n

SendInv ==
  SendTypes /\ Tentative /\ TakenIsCommitted /\ CommittedIsTaken /\ TidNamesOnePayload

\* The parts of the state that a send is about.
sendVars == <<seq, call, calls, offered, registered>>

LEMMA IdleIsNoCall == ~Idle.active /\ \A c \in Calls : c.active /\ c # Idle
<1>1. ~Idle.active
  BY DEF Idle
<1>2. \A c \in Calls : c.active
  BY DEF Calls
<1>. QED
  BY <1>1, <1>2

LEMMA InitSend == Init => SendInv
BY IdleIsNoCall DEF Init, SendInv, SendTypes, Tentative, TakenIsCommitted, CommittedIsTaken, TidNamesOnePayload

LEMMA SendStutter == SendInv /\ UNCHANGED sendVars => SendInv'
BY DEF SendInv, sendVars, SendTypes, Tentative, TakenIsCommitted, CommittedIsTaken, TidNamesOnePayload

\* A send that ends before its fan-out is counted and does nothing.
LEMMA EarlyReturn ==
  ASSUME SendInv, MayCall, UNCHANGED <<seq, call, offered, registered>>
  PROVE  SendInv'
BY DEF SendInv, MayCall, SendTypes, Tentative, TakenIsCommitted, CommittedIsTaken, TidNamesOnePayload

LEMMA RegistryStep ==
  ASSUME SendInv, registered' \in [Topics -> SUBSET Subscribers], UNCHANGED <<seq, call, calls, offered>>
  PROVE  SendInv'
BY DEF SendInv, SendTypes, Tentative, TakenIsCommitted, CommittedIsTaken, TidNamesOnePayload

LEMMA StartSend ==
  ASSUME SendInv, NEW t \in Topics, PublishStart(t)
  PROVE  SendInv'
<1>. DEFINE f == Data(t, seq[t] + 1, calls')
<1>1. /\ ~call.active /\ calls' = calls + 1
      /\ call' = [active |-> TRUE, frame |-> f, left |-> registered[t], acceptedAny |-> FALSE]
      /\ UNCHANGED <<seq, offered, registered>>
  BY DEF PublishStart, MayCall, StampedOnly
<1>2. /\ f \in Frames /\ f.tid = seq[t] + 1 /\ f.topic = t /\ seq[t] \in Nat
  BY <1>1 DEF SendInv, SendTypes, Frames, Data
<1>3. call' \in Calls
  BY <1>1, <1>2 DEF SendInv, SendTypes, Calls
<1>4. f \notin offered
  BY <1>1, <1>2 DEF SendInv, TakenIsCommitted
<1>. HIDE DEF f
<1>5. /\ call'.active /\ call'.frame = f /\ ~call'.acceptedAny
  BY <1>1
<1>6. SendTypes'
  BY <1>1, <1>3 DEF SendInv, SendTypes
<1>7. Tentative'
  BY <1>1, <1>2, <1>4, <1>5 DEF Tentative
<1>8. TakenIsCommitted' /\ CommittedIsTaken' /\ TidNamesOnePayload'
  BY <1>1 DEF SendInv, TakenIsCommitted, CommittedIsTaken, TidNamesOnePayload
<1>. QED
  BY <1>6, <1>7, <1>8 DEF SendInv

LEMMA PushSend ==
  ASSUME SendInv, NEW s \in Subscribers, PushTo(s)
  PROVE  SendInv'
<1>1. /\ call.active /\ call \in Calls
      /\ UNCHANGED <<seq, calls, registered>>
  BY IdleIsNoCall DEF PushTo, SendInv, SendTypes
<1>2. /\ call' \in Calls /\ call'.active /\ call'.frame = call.frame
      /\ call'.acceptedAny = (call.acceptedAny \/ Sendable(s))
  <2>1. /\ call' = [call EXCEPT !.left = @ \ {s}, !.acceptedAny = @ \/ Sendable(s)]
        /\ Sendable(s) \in BOOLEAN
    BY DEF PushTo, Sendable
  <2>. QED
    BY <1>1, <2>1 DEF Calls
<1>3. /\ call.frame \in Frames
      /\ call.frame.tid = seq[call.frame.topic] + 1
      /\ seq[call.frame.topic] \in Nat
  BY <1>1 DEF SendInv, SendTypes, Tentative, Calls, Frames
<1>4. CASE Sendable(s)
  <2>1. offered' = offered \cup {call.frame}
    BY <1>4 DEF PushTo
  <2>2. SendTypes'
    BY <1>1, <1>2, <1>3, <2>1 DEF SendInv, SendTypes
  <2>3. Tentative'
    BY <1>1, <1>2, <1>3, <1>4, <2>1 DEF Tentative
  <2>4. TakenIsCommitted' /\ CommittedIsTaken'
    BY <1>1, <1>2, <2>1 DEF SendInv, TakenIsCommitted, CommittedIsTaken
  <2>5. TidNamesOnePayload'
    <3>1. ASSUME NEW f \in offered, f.topic = call.frame.topic, f.tid = call.frame.tid
          PROVE  f = call.frame
      BY <1>3, <3>1 DEF SendInv, TakenIsCommitted
    <3>. QED
      BY <2>1, <3>1 DEF SendInv, TidNamesOnePayload
  <2>. QED
    BY <2>2, <2>3, <2>4, <2>5 DEF SendInv
<1>5. CASE ~Sendable(s)
  <2>1. offered' = offered
    BY <1>5 DEF PushTo
  <2>. QED
    BY <1>1, <1>2, <1>5, <2>1
       DEF SendInv, SendTypes, Tentative, TakenIsCommitted, CommittedIsTaken, TidNamesOnePayload
<1>. QED
  BY <1>4, <1>5

LEMMA ReturnSend ==
  ASSUME SendInv, PublishReturn
  PROVE  SendInv'
<1>. DEFINE f == call.frame
<1>1. /\ call.active /\ call \in Calls
      /\ call' = Idle /\ ~call'.active
      /\ UNCHANGED <<offered, calls, registered>>
      /\ seq' = IF call.acceptedAny THEN [seq EXCEPT ![f.topic] = f.tid] ELSE seq
  BY IdleIsNoCall DEF PublishReturn, SendInv, SendTypes, Commits, historyVars
<1>2. /\ f \in Frames /\ f.topic \in Topics /\ f.tid = seq[f.topic] + 1
      /\ seq \in [Topics -> Nat] /\ seq[f.topic] \in Nat
      /\ call.acceptedAny <=> f \in offered
  BY <1>1 DEF SendInv, SendTypes, Tentative, Calls, Frames
<1>3. TidNamesOnePayload'
  BY <1>1 DEF SendInv, TidNamesOnePayload
<1>4. CASE call.acceptedAny
  <2>1. /\ seq' \in [Topics -> Nat]
        /\ \A t \in Topics : seq'[t] = IF t = f.topic THEN seq[t] + 1 ELSE seq[t]
    BY <1>1, <1>2, <1>4
  <2>2. \A t \in Topics : seq[t] \in Nat /\ 1..seq[t] \subseteq 1..seq'[t]
    BY <1>2, <2>1
  <2>3. TakenIsCommitted'
    <3>1. ASSUME NEW g \in offered PROVE g.tid \in 1..seq'[g.topic]
      <4>1. CASE g = f
        BY <1>2, <2>1, <4>1
      <4>2. CASE g # f
        <5>1. g.tid \in 1..seq[g.topic] /\ g.topic \in Topics
          BY <4>2 DEF SendInv, TakenIsCommitted, SendTypes, Frames
        <5>. QED
          BY <2>2, <5>1
      <4>. QED
        BY <4>1, <4>2
    <3>. QED
      BY <1>1, <3>1 DEF TakenIsCommitted
  <2>4. CommittedIsTaken'
    <3>1. ASSUME NEW t \in Topics, NEW n \in 1..seq'[t]
          PROVE  \E g \in offered : g.topic = t /\ g.tid = n
      <4>1. CASE n \in 1..seq[t]
        BY <4>1 DEF SendInv, CommittedIsTaken
      <4>2. CASE n \notin 1..seq[t]
        <5>1. t = f.topic /\ n = f.tid
          BY <1>2, <2>1, <2>2, <4>2
        <5>. QED
          BY <1>2, <1>4, <5>1
      <4>. QED
        BY <4>1, <4>2
    <3>. QED
      BY <1>1, <3>1 DEF CommittedIsTaken
  <2>5. SendTypes' /\ Tentative'
    BY <1>1, <2>1 DEF SendInv, SendTypes, Tentative
  <2>. QED
    BY <1>3, <2>3, <2>4, <2>5 DEF SendInv
<1>5. CASE ~call.acceptedAny
  <2>1. seq' = seq /\ f \notin offered
    BY <1>1, <1>2, <1>5
  <2>. QED
    BY <1>1, <1>3, <2>1 DEF SendInv, SendTypes, Tentative, TakenIsCommitted, CommittedIsTaken
<1>. QED
  BY <1>4, <1>5

LEMMA NextSend == SendInv /\ [Next]_vars => SendInv'
<1> SUFFICES ASSUME SendInv, [Next]_vars PROVE SendInv'
  OBVIOUS
<1>. USE DEF sendVars, serverVars, streamVars, clientVars, historyVars
<1>1. CASE UNCHANGED vars
  BY <1>1, SendStutter DEF vars
<1>2. CASE startGrpcServer \/ stopGrpcServer
  BY <1>2, SendStutter DEF startGrpcServer, stopGrpcServer
<1>3. ASSUME NEW s \in Subscribers, NEW t \in Topics, SubscriberAnnounced(s, t) PROVE SendInv'
  <2>1. registered' \in [Topics -> SUBSET Subscribers]
    BY <1>3 DEF SubscriberAnnounced, SendInv, SendTypes
  <2>. QED
    BY <1>3, <2>1, RegistryStep DEF SubscriberAnnounced
<1>4. ASSUME NEW s \in Subscribers, SubscriberTimesOut(s) PROVE SendInv'
  <2>1. registered' \in [Topics -> SUBSET Subscribers]
    BY <1>4 DEF SubscriberTimesOut, SendInv, SendTypes
  <2>. QED
    BY <1>4, <2>1, RegistryStep DEF SubscriberTimesOut
<1>5. CASE PublishNotServing \/ PublishPaced
  BY <1>5, EarlyReturn DEF PublishNotServing, PublishPaced
<1>6. ASSUME NEW t \in Topics, PublishUnheard(t) \/ PublishOversized(t) PROVE SendInv'
  BY <1>6, EarlyReturn DEF PublishUnheard, PublishOversized
<1>7. CASE \E t \in Topics : PublishStart(t)
  BY <1>7, StartSend
<1>8. CASE \E s \in Subscribers : PushTo(s)
  BY <1>8, PushSend
<1>9. CASE PublishReturn
  BY <1>9, ReturnSend
<1>10. ASSUME NEW s \in Subscribers, Connect(s) \/ Break(s) \/ Drain(s) PROVE SendInv'
  BY <1>10, SendStutter DEF Connect, Break, Drain
<1>. QED
  BY <1>1, <1>2, <1>3, <1>4, <1>5, <1>6, <1>7, <1>8, <1>9, <1>10 DEF Next, tryPublishReliable

\* The strengthening the two theorems rest on.
LEMMA SendInvHolds == Spec => []SendInv
BY InitSend, NextSend, PTL DEF Spec

-------------------------------------------------------------------------------
(***************************************************************************)
(* One stream and one topic, as values: the queue q of the stream, the     *)
(* last tid that may have been pushed to it, the subscriber's window and   *)
(* what its callbacks got.  What the subscriber holds is older than what   *)
(* is queued, and what is queued ascends.                                  *)
(***************************************************************************)
Held(win, got) == {got[i] : i \in DOMAIN got} \cup win.buffer

IsData(f, t) == f # Presence /\ f.topic = t

QueueAscends(q, t) ==
  \A i, j \in DOMAIN q : i < j /\ IsData(q[i], t) /\ IsData(q[j], t) => q[i].tid < q[j].tid

QueuedIsNewer(q, t, last, win, got) ==
  \A i \in DOMAIN q : IsData(q[i], t) =>
    q[i].tid <= last /\ \A h \in Held(win, got) : h < q[i].tid

BufferWaits(win) ==
  /\ win.nextExpected = 0 => win.buffer = {}
  /\ \A b \in win.buffer : b > win.nextExpected

Ascends(got) == \A i, j \in DOMAIN got : i < j => got[i] < got[j]

InOrder(q, t, last, win, got) ==
  /\ QueueAscends(q, t)
  /\ QueuedIsNewer(q, t, last, win, got)
  /\ \A h \in Held(win, got) : h <= last
  /\ BufferWaits(win)
  /\ Ascends(got)

QueueItems == Frames \cup {Presence}

\* A presence frame is told from a data frame, which has a topic and a tid.
LEMMA ItemKinds ==
  ASSUME NEW f \in QueueItems
  PROVE  /\ Presence \notin Frames
         /\ f # Presence => f \in Frames /\ f.topic \in Topics /\ f.tid \in Nat
BY DEF QueueItems, Frames, Presence

\* A frame of one topic goes to the end of the queue.
LEMMA AppendInOrder ==
  ASSUME NEW q \in Seq(QueueItems), NEW t \in Topics, NEW last \in Nat,
         NEW win \in RxWindows, NEW got \in Seq(Nat), InOrder(q, t, last, win, got),
         NEW f \in Frames, NEW next \in Nat, next >= last,
         f.topic = t => f.tid > last /\ next >= f.tid
  PROVE  InOrder(Append(q, f), t, next, win, got)
<1> DEFINE u == Append(q, f)
<1> HIDE DEF QueueItems
<1>1. /\ DOMAIN u = 1..(Len(q) + 1) /\ Len(q) \in Nat /\ DOMAIN q = 1..Len(q)
      /\ u[Len(q) + 1] = f
      /\ \A i \in DOMAIN q : u[i] = q[i] /\ q[i] \in QueueItems
  BY ItemKinds DEF QueueItems
<1> HIDE DEF u
<1>2. \A i \in DOMAIN u : i \in DOMAIN q \/ i = Len(q) + 1
  BY <1>1
<1>3. f.tid \in Nat /\ \A i \in DOMAIN q : IsData(q[i], t) => q[i].tid \in Nat /\ q[i].tid <= last
  BY <1>1, ItemKinds DEF InOrder, QueuedIsNewer, IsData, Frames
<1>4. \A h \in Held(win, got) : h \in Nat /\ h <= last
  <2>1. \A i \in DOMAIN got : got[i] \in Nat
    OBVIOUS
  <2>. QED
    BY <2>1 DEF InOrder, Held, RxWindows
<1>5. QueueAscends(u, t)
  <2> SUFFICES ASSUME NEW i \in DOMAIN u, NEW j \in DOMAIN u, i < j, IsData(u[i], t), IsData(u[j], t)
               PROVE  u[i].tid < u[j].tid
    BY DEF QueueAscends
  <2>1. i \in DOMAIN q
    BY <1>1, <1>2
  <2>2. CASE j \in DOMAIN q
    BY <1>1, <2>1, <2>2 DEF InOrder, QueueAscends
  <2>3. CASE j = Len(q) + 1
    BY <1>1, <1>3, <2>1, <2>3 DEF IsData
  <2>. QED
    BY <1>2, <2>2, <2>3
<1>6. QueuedIsNewer(u, t, next, win, got)
  <2> SUFFICES ASSUME NEW i \in DOMAIN u, IsData(u[i], t)
               PROVE  u[i].tid <= next /\ \A h \in Held(win, got) : h < u[i].tid
    BY DEF QueuedIsNewer
  <2>1. CASE i \in DOMAIN q
    BY <1>1, <1>3, <2>1 DEF InOrder, QueuedIsNewer
  <2>2. CASE i = Len(q) + 1
    BY <1>1, <1>3, <1>4, <2>2 DEF IsData
  <2>. QED
    BY <1>2, <2>1, <2>2
<1>7. \A h \in Held(win, got) : h <= next
  BY <1>4
<1>. QED
  BY <1>5, <1>6, <1>7 DEF InOrder, u

\* Only the last tid moves on.
LEMMA LastGrowsInOrder ==
  ASSUME NEW q \in Seq(QueueItems), NEW t \in Topics, NEW last \in Nat,
         NEW win \in RxWindows, NEW got \in Seq(Nat), InOrder(q, t, last, win, got),
         NEW next \in Nat, next >= last
  PROVE  InOrder(q, t, next, win, got)
<1> HIDE DEF QueueItems
<1>1. \A i \in DOMAIN q : q[i] \in QueueItems
  BY ItemKinds
<1>2. \A i \in DOMAIN q : IsData(q[i], t) => q[i].tid \in Nat
  BY <1>1, ItemKinds DEF IsData
<1>3. \A h \in Held(win, got) : h \in Nat
  <2>1. \A i \in DOMAIN got : got[i] \in Nat
    OBVIOUS
  <2>. QED
    BY <2>1 DEF Held, RxWindows
<1>. QED
  BY <1>2, <1>3 DEF InOrder, QueuedIsNewer

\* A stream that starts or ends holds no data frame, and a window that is reset
\* holds less.
LEMMA ResetInOrder ==
  ASSUME NEW q, NEW u, NEW t \in Topics, NEW last, NEW win, NEW got,
         InOrder(q, t, last, win, got),
         u = q \/ \A i \in DOMAIN u : u[i] = Presence
  PROVE  InOrder(u, t, last, win, got) /\ InOrder(u, t, last, Unbaselined, got)
<1>1. Held(Unbaselined, got) \subseteq Held(win, got) /\ BufferWaits(Unbaselined)
  BY DEF Held, Unbaselined, BufferWaits
<1>2. QueueAscends(u, t) /\ QueuedIsNewer(u, t, last, win, got)
  BY DEF InOrder, QueueAscends, QueuedIsNewer, IsData
<1>. QED
  BY <1>1, <1>2 DEF InOrder, QueuedIsNewer

-------------------------------------------------------------------------------
(***************************************************************************)
(* The head of the queue reaches the subscriber.                           *)
(***************************************************************************)

\* There is one sequence of no tid.
LEMMA NothingToFlush == Ascending({}) = <<>>
<1>1. Cardinality({}) = 0
  BY FS_EmptySet
<1>2. \E s \in [1..0 -> {}] : \A i, j \in DOMAIN s : i < j => s[i] < s[j]
  <2>1. [i \in 1..0 |-> 0] \in [1..0 -> {}]
    OBVIOUS
  <2>. QED
    BY <2>1
<1>3. Ascending({}) \in [1..0 -> {}]
  BY <1>1, <1>2 DEF Ascending
<1>. QED
  BY <1>3

\* What a frame newer than all that is held does to the window: it is handed
\* out alone, from an empty buffer, or held, or dropped.
LEMMA AdmitNewest ==
  ASSUME NEW win \in RxWindows, BufferWaits(win), NEW tid \in Nat,
         \A b \in win.buffer : b < tid
  PROVE  \/ /\ win.buffer = {}
            /\ Admit(win, tid) = [nextExpected |-> tid + 1, buffer |-> {}]
            /\ Batch(win, tid) = <<tid>>
         \/ /\ win.nextExpected # 0 /\ tid > win.nextExpected
            /\ Admit(win, tid) = [win EXCEPT !.buffer = @ \cup {tid}]
            /\ Batch(win, tid) = <<>>
         \/ /\ Admit(win, tid) = win
            /\ Batch(win, tid) = <<>>
<1>1. CASE Delivers(win, tid)
  <2>1. win.buffer = {}
    BY <1>1 DEF Delivers, Baselines, InSequence, FastForwards, BufferWaits, RxWindows
  <2>2. AfterFlush(win.buffer, tid) = tid + 1
    BY <2>1 DEF AfterFlush
  <2>3. Batch(win, tid) = <<tid>> \o <<>>
    BY <1>1, <2>1, NothingToFlush DEF Batch
  <2>4. Batch(win, tid) = <<tid>>
    BY <2>3
  <2>. QED
    BY <1>1, <2>1, <2>2, <2>4 DEF Admit, Delivery
<1>2. CASE ~Delivers(win, tid) /\ Reorders(win, tid)
  BY <1>2 DEF Admit, Batch, Reorders
<1>3. CASE ~Delivers(win, tid) /\ ~Reorders(win, tid)
  BY <1>3 DEF Admit, Batch
<1>. QED
  BY <1>1, <1>2, <1>3

\* The rest of the queue is in order with what was held before the head.
LEMMA TailInOrder ==
  ASSUME NEW q \in Seq(QueueItems), q # <<>>, NEW t \in Topics, NEW last,
         NEW win, NEW got, InOrder(q, t, last, win, got)
  PROVE  /\ InOrder(Tail(q), t, last, win, got)
         /\ IsData(q[1], t) => \A i \in DOMAIN Tail(q) : IsData(Tail(q)[i], t) => q[1].tid < Tail(q)[i].tid
<1> DEFINE u == Tail(q)
<1> HIDE DEF QueueItems
<1>1. /\ u \in Seq(QueueItems) /\ 1 \in DOMAIN q
      /\ \A i \in DOMAIN u : i + 1 \in DOMAIN q /\ u[i] = q[i + 1] /\ i \in Nat /\ 1 < i + 1
  OBVIOUS
<1> HIDE DEF u
<1>2. \A i, j \in DOMAIN u : i < j => i + 1 < j + 1
  BY <1>1
<1>3. QueueAscends(u, t)
  BY <1>1, <1>2 DEF InOrder, QueueAscends
<1>4. QueuedIsNewer(u, t, last, win, got)
  BY <1>1 DEF InOrder, QueuedIsNewer
<1>5. IsData(q[1], t) => \A i \in DOMAIN u : IsData(u[i], t) => q[1].tid < u[i].tid
  BY <1>1 DEF InOrder, QueueAscends
<1>. QED
  BY <1>3, <1>4, <1>5 DEF InOrder, u

\* What the subscriber then holds is still older than the rest of the queue.
LEMMA DeliverInOrder ==
  ASSUME NEW q \in Seq(QueueItems), q # <<>>, NEW t \in Topics, NEW last,
         NEW win \in RxWindows, NEW got \in Seq(Nat), InOrder(q, t, last, win, got),
         IsData(q[1], t)
  PROVE  /\ InOrder(Tail(q), t, last, Admit(win, q[1].tid), got \o Batch(win, q[1].tid))
         /\ Admit(win, q[1].tid) \in RxWindows
         /\ got \o Batch(win, q[1].tid) \in Seq(Nat)
<1> DEFINE tid == q[1].tid
           u == Tail(q)
           new == Admit(win, tid)
           all == got \o Batch(win, tid)
<1> HIDE DEF QueueItems
<1>1. tid \in Nat /\ tid <= last /\ \A h \in Held(win, got) : h < tid
  <2>1. 1 \in DOMAIN q /\ q[1] \in QueueItems
    OBVIOUS
  <2>. QED
    BY <2>1, ItemKinds DEF InOrder, QueuedIsNewer, IsData
<1>2. /\ InOrder(u, t, last, win, got)
      /\ \A i \in DOMAIN u : IsData(u[i], t) => tid < u[i].tid
  BY TailInOrder
<1> HIDE DEF u
<1>3. \/ /\ win.buffer = {}
         /\ new = [nextExpected |-> tid + 1, buffer |-> {}]
         /\ Batch(win, tid) = <<tid>>
      \/ /\ win.nextExpected # 0 /\ tid > win.nextExpected
         /\ new = [win EXCEPT !.buffer = @ \cup {tid}]
         /\ Batch(win, tid) = <<>>
      \/ /\ new = win
         /\ Batch(win, tid) = <<>>
  BY <1>1, AdmitNewest DEF InOrder, Held
<1> HIDE DEF tid
<1>4. new \in RxWindows
  BY <1>1, <1>3 DEF RxWindows
<1>5. /\ all \in Seq(Nat)
      /\ \/ all = got
         \/ all = Append(got, tid) /\ Batch(win, tid) = <<tid>>
  <2>1. got \o <<tid>> = Append(got, tid) /\ got \o <<>> = got /\ Append(got, tid) \in Seq(Nat)
    BY <1>1
  <2>. QED
    BY <1>3, <2>1
<1>6. BufferWaits(new)
  BY <1>1, <1>2, <1>3 DEF InOrder, BufferWaits, RxWindows
<1>7. \A i \in DOMAIN all : \/ i \in DOMAIN got /\ all[i] = got[i]
                            \/ i = Len(got) + 1 /\ all[i] = tid /\ all = Append(got, tid)
  <2> HIDE DEF all, new
  <2>1. CASE all = got
    BY <2>1
  <2>2. CASE all = Append(got, tid)
    BY <1>1, <2>2
  <2>. QED
    BY <1>5, <2>1, <2>2
<1>8. new.buffer \subseteq win.buffer \cup {tid}
  BY <1>3 DEF RxWindows
<1> HIDE DEF new, all
<1>9. Held(new, all) \subseteq Held(win, got) \cup {tid}
  BY <1>7, <1>8 DEF Held
<1>10. QueuedIsNewer(u, t, last, new, all)
  BY <1>2, <1>9 DEF InOrder, QueuedIsNewer
<1>11. \A h \in Held(new, all) : h <= last
  BY <1>1, <1>2, <1>9 DEF InOrder
<1>12. Ascends(all)
  <2> SUFFICES ASSUME NEW i \in DOMAIN all, NEW j \in DOMAIN all, i < j
               PROVE  all[i] < all[j]
    BY DEF Ascends
  <2>1. \A k \in DOMAIN got : got[k] < tid /\ k \in Nat /\ k < Len(got) + 1
    BY <1>1 DEF Held
  <2>2. i \in DOMAIN got /\ all[i] = got[i]
    <3>1. i # Len(got) + 1
      <4>1. j = Len(got) + 1 \/ j < Len(got) + 1
        BY <1>7, <2>1
      <4>2. i \in Nat /\ j \in Nat
        BY <1>5
      <4>. QED
        BY <4>1, <4>2
    <3>. QED
      BY <1>7, <3>1
  <2>3. CASE j \in DOMAIN got /\ all[j] = got[j]
    BY <1>2, <2>2, <2>3 DEF InOrder, Ascends
  <2>4. CASE all[j] = tid
    BY <2>1, <2>2, <2>4
  <2>. QED
    BY <1>7, <2>3, <2>4
<1>. QED
  BY <1>2, <1>4, <1>5, <1>6, <1>10, <1>11, <1>12 DEF InOrder, new, all, u, tid

-------------------------------------------------------------------------------
(***************************************************************************)
(* The same of every stream and topic of a state.                          *)
(***************************************************************************)

\* The last tid that may have been pushed to a subscriber: a send is taken as
\* committed by those it has passed as soon as one outbox accepted its frame.
Latest(s, t) ==
  IF call.active /\ call.frame.topic = t /\ s \notin call.left /\ call.acceptedAny
  THEN call.frame.tid ELSE seq[t]

StreamTypes ==
  /\ queue \in [Subscribers -> Seq(QueueItems)]
  /\ windows \in [Subscribers -> [Topics -> RxWindows]]
  /\ delivered \in [Subscribers -> [Topics -> Seq(Nat)]]

StreamsInOrder ==
  \A s \in Subscribers, t \in Topics :
    InOrder(queue[s], t, Latest(s, t), windows[s][t], delivered[s][t])

StreamInv == StreamTypes /\ StreamsInOrder

\* It is the committed tid, or the one after it.
LEMMA LatestIsNext ==
  ASSUME SendInv, NEW s \in Subscribers, NEW t \in Topics
  PROVE  /\ Latest(s, t) \in Nat /\ seq[t] \in Nat
         /\ Latest(s, t) = seq[t] \/ (call.active /\ call.acceptedAny /\ Latest(s, t) = seq[t] + 1)
BY DEF Latest, SendInv, SendTypes, Tentative

LEMMA LatestStaysNat ==
  ASSUME SendInv', NEW s \in Subscribers, NEW t \in Topics
  PROVE  Latest(s, t)' \in Nat
BY DEF Latest, SendInv, SendTypes, Tentative

\* The types of what belongs to one stream and topic.
LEMMA StreamTypesAt ==
  ASSUME StreamInv, NEW s \in Subscribers, NEW t \in Topics
  PROVE  /\ queue[s] \in Seq(QueueItems) /\ windows[s][t] \in RxWindows
         /\ windows[s] \in [Topics -> RxWindows]
         /\ delivered[s][t] \in Seq(Nat) /\ delivered[s] \in [Topics -> Seq(Nat)]
BY DEF StreamInv, StreamTypes

\* Steps that leave the streams alone and take no tid back.
LEMMA QuietStreams ==
  ASSUME SendInv, SendInv', StreamInv, UNCHANGED <<queue, windows, delivered>>,
         \A s \in Subscribers, t \in Topics : Latest(s, t)' >= Latest(s, t)
  PROVE  StreamInv'
<1>1. StreamTypes'
  BY DEF StreamInv, StreamTypes
<1>2. ASSUME NEW s \in Subscribers, NEW t \in Topics
      PROVE  InOrder(queue[s], t, Latest(s, t)', windows[s][t], delivered[s][t])
  <2>1. Latest(s, t) \in Nat /\ Latest(s, t)' \in Nat
    BY LatestIsNext, LatestStaysNat
  <2> DEFINE now == Latest(s, t)
  <2>2. PICK last \in Nat : last = Latest(s, t)
    BY <2>1
  <2>3. PICK next \in Nat : next = Latest(s, t)'
    BY <2>1
  <2>4. InOrder(queue[s], t, last, windows[s][t], delivered[s][t]) /\ next >= last
    BY <2>2, <2>3 DEF StreamInv, StreamsInOrder
  <2>5. InOrder(queue[s], t, next, windows[s][t], delivered[s][t])
    BY <2>4, LastGrowsInOrder, StreamTypesAt
  <2>. QED
    BY <2>3, <2>5
<1>3. StreamsInOrder'
  BY <1>2 DEF StreamsInOrder
<1>. QED
  BY <1>1, <1>3 DEF StreamInv

\* The stream of a subscriber that is pushed to.
LEMMA PushInOrder ==
  ASSUME SendInv, SendInv', StreamInv, NEW s \in Subscribers, PushTo(s)
  PROVE  StreamInv'
<1> DEFINE f == call.frame
<1>1. /\ call.active /\ s \in call.left /\ call \in Calls
      /\ call' = [call EXCEPT !.left = @ \ {s}, !.acceptedAny = @ \/ Sendable(s)]
      /\ seq' = seq /\ windows' = windows /\ delivered' = delivered
      /\ queue' = IF Sendable(s) THEN [queue EXCEPT ![s] = Append(@, f)] ELSE queue
  BY IdleIsNoCall DEF PushTo, Enqueue, clientVars, SendInv, SendTypes
<1>2. f \in Frames /\ f.tid = seq[f.topic] + 1 /\ f.topic \in Topics /\ f.tid \in Nat /\ f # Presence
  BY <1>1 DEF SendInv, SendTypes, Tentative, Calls, Frames, Presence
<1>3. /\ call'.active /\ call'.frame = f /\ call'.left = call.left \ {s}
      /\ call'.acceptedAny = (call.acceptedAny \/ Sendable(s))
  BY <1>1 DEF Calls
<1> HIDE DEF f
<1>4. ASSUME NEW q \in Subscribers, NEW t \in Topics
      PROVE  Latest(q, t)' >= Latest(q, t)
  <2>1. CASE t = f.topic
    <3>1. seq[t] \in Nat /\ f.tid = seq[t] + 1
      BY <1>2, <2>1 DEF SendInv, SendTypes
    <3>2. Latest(q, t) = IF q \notin call.left /\ call.acceptedAny THEN f.tid ELSE seq[t]
      BY <1>1, <2>1 DEF Latest, f
    <3>3. Latest(q, t)' = IF q \notin call'.left /\ call'.acceptedAny THEN f.tid ELSE seq[t]
      BY <1>1, <1>3, <2>1 DEF Latest
    <3>4. q \notin call.left /\ call.acceptedAny => q \notin call'.left /\ call'.acceptedAny
      BY <1>3
    <3>. QED
      BY <3>1, <3>2, <3>3, <3>4
  <2>2. CASE t # f.topic
    <3>1. Latest(q, t)' = seq[t] /\ Latest(q, t) = seq[t] /\ seq[t] \in Nat
      BY <1>1, <1>3, <2>2 DEF Latest, f, SendInv, SendTypes
    <3>. QED
      BY <3>1
  <2>. QED
    BY <2>1, <2>2
<1>5. CASE ~Sendable(s)
  BY <1>1, <1>4, <1>5, QuietStreams
<1>6. CASE Sendable(s)
  <2>1. /\ queue'[s] = Append(queue[s], f)
        /\ \A q \in Subscribers \ {s} : queue'[q] = queue[q]
        /\ queue' \in [Subscribers -> Seq(QueueItems)]
    <3>1. queue[s] \in Seq(QueueItems) /\ f \in QueueItems /\ queue \in [Subscribers -> Seq(QueueItems)]
      BY <1>2 DEF StreamInv, StreamTypes, QueueItems
    <3>2. Append(queue[s], f) \in Seq(QueueItems)
      BY <3>1
    <3>. QED
      BY <1>1, <1>6, <3>1, <3>2
  <2>2. ASSUME NEW q \in Subscribers, NEW t \in Topics
        PROVE  InOrder(queue'[q], t, Latest(q, t)', windows[q][t], delivered[q][t])
    <3>1. Latest(q, t) \in Nat /\ Latest(q, t)' \in Nat
      BY LatestIsNext, LatestStaysNat
    <3>2. PICK last \in Nat : last = Latest(q, t)
      BY <3>1
    <3>3. PICK next \in Nat : next = Latest(q, t)'
      BY <3>1
    <3>4. /\ InOrder(queue[q], t, last, windows[q][t], delivered[q][t]) /\ next >= last
          /\ queue[q] \in Seq(QueueItems) /\ windows[q][t] \in RxWindows /\ delivered[q][t] \in Seq(Nat)
      BY <1>4, <3>2, <3>3, StreamTypesAt DEF StreamInv, StreamsInOrder
    <3>5. CASE q = s
      <4>1. f.topic = t => last = seq[t] /\ next = f.tid
        BY <1>1, <1>3, <1>6, <3>2, <3>3, <3>5 DEF Latest
      <4>2. f.topic = t => f.tid > last /\ next >= f.tid
        BY <1>2, <4>1
      <4>3. InOrder(Append(queue[q], f), t, next, windows[q][t], delivered[q][t])
        BY <1>2, <3>4, <4>2, AppendInOrder
      <4>. QED
        BY <2>1, <3>3, <3>5, <4>3
    <3>6. CASE q # s
      BY <2>1, <3>3, <3>4, <3>6, LastGrowsInOrder
    <3>. QED
      BY <3>5, <3>6
  <2>3. StreamTypes'
    BY <1>1, <2>1 DEF StreamInv, StreamTypes
  <2>4. StreamsInOrder'
    BY <1>1, <2>2 DEF StreamsInOrder
  <2>. QED
    BY <2>3, <2>4 DEF StreamInv
<1>. QED
  BY <1>5, <1>6

\* Streams start and end: their queues hold no data frame, and windows are reset.
LEMMA ClearedStreams ==
  ASSUME StreamInv, UNCHANGED <<seq, call, delivered>>,
         queue' \in [Subscribers -> Seq(QueueItems)],
         windows' \in [Subscribers -> [Topics -> RxWindows]],
         \A s \in Subscribers : queue'[s] = queue[s] \/ \A i \in DOMAIN queue'[s] : queue'[s][i] = Presence,
         \A s \in Subscribers, t \in Topics : windows'[s][t] \in {windows[s][t], Unbaselined}
  PROVE  StreamInv'
<1>1. ASSUME NEW s \in Subscribers, NEW t \in Topics
      PROVE  InOrder(queue'[s], t, Latest(s, t)', windows'[s][t], delivered'[s][t])
  <2>1. InOrder(queue[s], t, Latest(s, t), windows[s][t], delivered[s][t])
    BY DEF StreamInv, StreamsInOrder
  <2>2. Latest(s, t)' = Latest(s, t)
    BY DEF Latest
  <2>3. /\ InOrder(queue'[s], t, Latest(s, t), windows[s][t], delivered[s][t])
        /\ InOrder(queue'[s], t, Latest(s, t), Unbaselined, delivered[s][t])
    BY <2>1, ResetInOrder
  <2>. QED
    BY <2>2, <2>3
<1>2. StreamsInOrder'
  BY <1>1 DEF StreamsInOrder
<1>. QED
  BY <1>2 DEF StreamInv, StreamTypes

\* What a new stream does to the windows of its subscriber.
LEMMA ResetTopicsType ==
  ASSUME StreamInv, NEW s \in Subscribers, NEW T
  PROVE  /\ ResetTopics(s, T) \in [Topics -> RxWindows]
         /\ \A t \in Topics : ResetTopics(s, T)[t] = IF t \in T THEN Unbaselined ELSE windows[s][t]
<1>1. Unbaselined \in RxWindows
  BY DEF Unbaselined, RxWindows
<1>. QED
  BY <1>1, StreamTypesAt DEF ResetTopics

\* Presence frames are queued before any data frame.
LEMMA PresenceQueue ==
  ASSUME NEW n \in Int
  PROVE  n >= 0 => [i \in 1..n |-> Presence] \in Seq(QueueItems)
BY DEF QueueItems

LEMMA ConnectInOrder ==
  ASSUME StreamInv, NEW s \in Subscribers, Connect(s)
  PROVE  StreamInv'
<1> DEFINE n == Min({PresenceFrames, Hwm + 1})
           greeting == [i \in 1..n |-> Presence]
<1>1. /\ queue' = [queue EXCEPT ![s] = greeting]
      /\ windows' = [windows EXCEPT ![s] = ResetTopics(s, known[s])]
      /\ UNCHANGED <<seq, call, delivered>>
  BY DEF Connect, Establish, serverVars
<1>2. greeting \in Seq(QueueItems)
  <2>1. PresenceFrames \in Nat /\ Hwm + 1 \in Nat
    BY MarksAssumption, LimitsAssumption
  <2>2. n \in {PresenceFrames, Hwm + 1}
    BY <2>1 DEF Min
  <2> HIDE DEF n
  <2>3. n \in Int /\ n >= 0
    BY <2>1, <2>2
  <2>. QED
    BY <2>3, PresenceQueue
<1> HIDE DEF greeting
<1>3. \A i \in DOMAIN greeting : greeting[i] = Presence
  BY DEF greeting
<1>4. queue' \in [Subscribers -> Seq(QueueItems)] /\ windows' \in [Subscribers -> [Topics -> RxWindows]]
  BY <1>1, <1>2, ResetTopicsType DEF StreamInv, StreamTypes
<1>5. \A q \in Subscribers : queue'[q] = queue[q] \/ \A i \in DOMAIN queue'[q] : queue'[q][i] = Presence
  BY <1>1, <1>3 DEF StreamInv, StreamTypes
<1>6. \A q \in Subscribers, t \in Topics : windows'[q][t] \in {windows[q][t], Unbaselined}
  BY <1>1, ResetTopicsType DEF StreamInv, StreamTypes
<1>. QED
  BY <1>1, <1>4, <1>5, <1>6, ClearedStreams

LEMMA BreakInOrder ==
  ASSUME StreamInv, stopGrpcServer \/ \E s \in Subscribers : Break(s)
  PROVE  StreamInv'
<1>1. UNCHANGED <<seq, call, delivered, windows>>
  BY DEF stopGrpcServer, Break, serverVars, clientVars
<1>2. \A s \in Subscribers : queue'[s] = queue[s] \/ queue'[s] = <<>>
  BY DEF stopGrpcServer, Break, StreamInv, StreamTypes
<1>3. queue' \in [Subscribers -> Seq(QueueItems)]
  <2>1. <<>> \in Seq(QueueItems) /\ queue \in [Subscribers -> Seq(QueueItems)]
    BY DEF StreamInv, StreamTypes
  <2>2. CASE stopGrpcServer
    BY <2>1, <2>2 DEF stopGrpcServer
  <2>3. CASE \E s \in Subscribers : Break(s)
    BY <2>1, <2>3 DEF Break
  <2>. QED
    BY <2>2, <2>3
<1>4. \A s \in Subscribers : queue'[s] = queue[s] \/ \A i \in DOMAIN queue'[s] : queue'[s][i] = Presence
  BY <1>2
<1>. QED
  BY <1>1, <1>3, <1>4, ClearedStreams DEF StreamInv, StreamTypes

\* A frame that reaches a subscriber: presence, or data for one of its windows.
LEMMA DrainInOrder ==
  ASSUME StreamInv, NEW s \in Subscribers, Drain(s)
  PROVE  StreamInv'
<1> DEFINE f == Head(queue[s])
           base == IF s \in fresh THEN ResetTopics(s, known[s] \cup {f.topic}) ELSE windows[s]
<1>1. /\ queue[s] # <<>> /\ queue' = [queue EXCEPT ![s] = Tail(@)]
      /\ UNCHANGED <<seq, call>>
  BY DEF Drain, serverVars
<1>2. queue[s] \in Seq(QueueItems) /\ queue \in [Subscribers -> Seq(QueueItems)]
  BY DEF StreamInv, StreamTypes
<1> HIDE DEF QueueItems
<1>3. f = queue[s][1] /\ f \in QueueItems /\ Tail(queue[s]) \in Seq(QueueItems)
  BY <1>1, <1>2
<1>4. /\ queue' \in [Subscribers -> Seq(QueueItems)]
      /\ queue'[s] = Tail(queue[s])
      /\ \A q \in Subscribers \ {s} : queue'[q] = queue[q]
  BY <1>1, <1>2, <1>3
<1>5. \A q \in Subscribers, t \in Topics : Latest(q, t)' = Latest(q, t)
  BY <1>1 DEF Latest
<1>6. \A q \in Subscribers, t \in Topics :
        InOrder(queue[q], t, Latest(q, t), windows[q][t], delivered[q][t])
  BY DEF StreamInv, StreamsInOrder
<1>7. CASE f = Presence
  <2>1. UNCHANGED <<windows, delivered>>
    BY <1>7 DEF Drain, clientVars
  <2>2. ASSUME NEW q \in Subscribers, NEW t \in Topics
        PROVE  InOrder(queue'[q], t, Latest(q, t)', windows'[q][t], delivered'[q][t])
    <3>1. PICK last : last = Latest(q, t)
      OBVIOUS
    <3>2. CASE q = s
      <4>1. InOrder(queue[s], t, last, windows[s][t], delivered[s][t])
        BY <1>6, <3>1, <3>2
      <4>2. InOrder(Tail(queue[s]), t, last, windows[s][t], delivered[s][t])
        BY <1>1, <1>2, <4>1, TailInOrder
      <4>. QED
        BY <1>4, <1>5, <2>1, <3>1, <3>2, <4>2
    <3>3. CASE q # s
      BY <1>4, <1>5, <1>6, <2>1, <3>3
    <3>. QED
      BY <3>2, <3>3
  <2>3. StreamTypes'
    BY <1>4, <2>1 DEF StreamInv, StreamTypes
  <2>4. StreamsInOrder'
    BY <2>2 DEF StreamsInOrder
  <2>. QED
    BY <2>3, <2>4 DEF StreamInv
<1>8. CASE f # Presence
  <2>1. f \in Frames /\ f.topic \in Topics /\ f.tid \in Nat
    BY <1>3, <1>8, ItemKinds
  <2> DEFINE top == f.topic
             win == base[top]
             newWin == Admit(win, f.tid)
             newGot == delivered[s][top] \o Batch(win, f.tid)
  <2>2. /\ windows' = [windows EXCEPT ![s] = [base EXCEPT ![top] = newWin]]
        /\ delivered' = [delivered EXCEPT ![s][top] = newGot]
    BY <1>8 DEF Drain, HandleFrame
  <2>3. base \in [Topics -> RxWindows] /\ \A t \in Topics : base[t] \in {windows[s][t], Unbaselined}
    <3>1. CASE s \in fresh
      BY <3>1, ResetTopicsType
    <3>2. CASE s \notin fresh
      BY <2>1, <3>2, StreamTypesAt
    <3>. QED
      BY <3>1, <3>2
  <2> HIDE DEF base, f
  <2>4. \A t \in Topics : InOrder(queue[s], t, Latest(s, t), base[t], delivered[s][t])
    BY <1>6, <2>3, ResetInOrder
  <2>5. /\ InOrder(Tail(queue[s]), top, Latest(s, top), newWin, newGot)
        /\ newWin \in RxWindows /\ newGot \in Seq(Nat)
    <3>1. PICK last : last = Latest(s, top)
      OBVIOUS
    <3>2. win \in RxWindows /\ delivered[s][top] \in Seq(Nat) /\ IsData(f, top)
      BY <1>8, <2>1, <2>3, StreamTypesAt DEF IsData
    <3>3. InOrder(queue[s], top, last, win, delivered[s][top])
      BY <2>1, <2>4, <3>1
    <3>. QED
      BY <1>1, <1>2, <1>3, <2>1, <3>1, <3>2, <3>3, DeliverInOrder
  <2>6. \A t \in Topics : InOrder(Tail(queue[s]), t, Latest(s, t), base[t], delivered[s][t])
    <3>1. ASSUME NEW t \in Topics PROVE InOrder(Tail(queue[s]), t, Latest(s, t), base[t], delivered[s][t])
      <4>1. PICK last : last = Latest(s, t)
        OBVIOUS
      <4>2. InOrder(queue[s], t, last, base[t], delivered[s][t])
        BY <2>4, <4>1
      <4>. QED
        BY <1>1, <1>2, <4>1, <4>2, TailInOrder
    <3>. QED
      BY <3>1
  <2> HIDE DEF newWin, newGot, win, top
  <2>7. /\ windows \in [Subscribers -> [Topics -> RxWindows]]
        /\ delivered \in [Subscribers -> [Topics -> Seq(Nat)]]
        /\ top \in Topics
    BY <2>1 DEF StreamInv, StreamTypes, top
  <2>8. /\ windows' \in [Subscribers -> [Topics -> RxWindows]]
        /\ windows'[s][top] = newWin
        /\ \A t \in Topics \ {top} : windows'[s][t] = base[t]
        /\ \A q \in Subscribers \ {s} : windows'[q] = windows[q]
    BY <2>2, <2>3, <2>5, <2>7
  <2>9. /\ delivered' \in [Subscribers -> [Topics -> Seq(Nat)]]
        /\ delivered'[s][top] = newGot
        /\ \A t \in Topics \ {top} : delivered'[s][t] = delivered[s][t]
        /\ \A q \in Subscribers \ {s} : delivered'[q] = delivered[q]
    BY <2>2, <2>5, <2>7
  <2>10. ASSUME NEW q \in Subscribers, NEW t \in Topics
         PROVE  InOrder(queue'[q], t, Latest(q, t)', windows'[q][t], delivered'[q][t])
    <3>1. CASE q = s /\ t = top
      BY <1>4, <1>5, <2>5, <2>8, <2>9, <3>1 DEF top
    <3>2. CASE q = s /\ t # top
      BY <1>4, <1>5, <2>6, <2>8, <2>9, <3>2
    <3>3. CASE q # s
      BY <1>4, <1>5, <1>6, <2>8, <2>9, <3>3
    <3>. QED
      BY <3>1, <3>2, <3>3
  <2>11. StreamTypes'
    BY <1>4, <2>8, <2>9 DEF StreamTypes
  <2>12. StreamsInOrder'
    BY <2>10 DEF StreamsInOrder
  <2>. QED
    BY <2>11, <2>12 DEF StreamInv
<1>. QED
  BY <1>7, <1>8

\* The fan-out of a send that starts is empty, and a send that returns commits
\* what was taken.
LEMMA SendKeepsLatest ==
  ASSUME SendInv, NEW s \in Subscribers, NEW t \in Topics,
         PublishReturn \/ \E u \in Topics : PublishStart(u)
  PROVE  Latest(s, t)' >= Latest(s, t)
<1>1. seq[t] \in Nat /\ seq \in [Topics -> Nat]
  BY DEF SendInv, SendTypes
<1>2. CASE \E u \in Topics : PublishStart(u)
  <2>1. ~call.active /\ seq' = seq /\ ~call'.acceptedAny
    BY <1>2 DEF PublishStart, MayCall, StampedOnly
  <2>2. Latest(s, t)' = seq[t] /\ Latest(s, t) = seq[t]
    BY <2>1 DEF Latest
  <2>. QED
    BY <1>1, <2>2
<1>3. CASE PublishReturn
  <2> DEFINE top == call.frame.topic
  <2>1. /\ call.active /\ call.frame.tid = seq[top] + 1 /\ top \in Topics
        /\ ~call'.active
        /\ seq' = IF call.acceptedAny THEN [seq EXCEPT ![top] = call.frame.tid] ELSE seq
    BY <1>3, IdleIsNoCall DEF PublishReturn, Commits, SendInv, SendTypes, Tentative, Calls, Frames
  <2>2. Latest(s, t)' = seq'[t]
    BY <2>1 DEF Latest
  <2> HIDE DEF top
  <2>3. CASE call.acceptedAny /\ t = top
    <3>1. seq'[t] = seq[t] + 1
      BY <1>1, <2>1, <2>3
    <3>2. Latest(s, t) = seq[t] + 1 \/ Latest(s, t) = seq[t]
      BY <2>1, <2>3 DEF Latest, top
    <3>. QED
      BY <1>1, <2>2, <3>1, <3>2
  <2>4. CASE ~call.acceptedAny \/ t # top
    <3>1. seq'[t] = seq[t]
      BY <1>1, <2>1, <2>4
    <3>2. Latest(s, t) = seq[t]
      BY <2>4 DEF Latest, top
    <3>. QED
      BY <1>1, <2>2, <3>1, <3>2
  <2>. QED
    BY <2>3, <2>4
<1>. QED
  BY <1>2, <1>3

LEMMA InitStreams == Init => StreamInv
<1> SUFFICES ASSUME Init PROVE StreamInv
  OBVIOUS
<1>1. /\ queue = [s \in Subscribers |-> <<>>]
      /\ windows = [s \in Subscribers |-> [t \in Topics |-> NewWindow]]
      /\ delivered = [s \in Subscribers |-> [t \in Topics |-> <<>>]]
  BY DEF Init
<1>2. NewWindow \in RxWindows /\ NewWindow.buffer = {}
  BY DEF NewWindow, RxWindows
<1>3. StreamTypes
  BY <1>1, <1>2 DEF StreamTypes
<1>4. ASSUME NEW s \in Subscribers, NEW t \in Topics
      PROVE  InOrder(queue[s], t, Latest(s, t), windows[s][t], delivered[s][t])
  <2>1. queue[s] = <<>> /\ windows[s][t] = NewWindow /\ delivered[s][t] = <<>>
    BY <1>1
  <2>2. Held(NewWindow, <<>>) = {}
    BY <1>2 DEF Held
  <2>3. InOrder(<<>>, t, Latest(s, t), NewWindow, <<>>)
    BY <1>2, <2>2 DEF InOrder, QueueAscends, QueuedIsNewer, BufferWaits, Ascends
  <2>. QED
    BY <2>1, <2>3
<1>. QED
  BY <1>3, <1>4 DEF StreamInv, StreamsInOrder

LEMMA NextStreams == SendInv /\ SendInv' /\ StreamInv /\ [Next]_vars => StreamInv'
<1> SUFFICES ASSUME SendInv, SendInv', StreamInv, [Next]_vars PROVE StreamInv'
  OBVIOUS
<1>1. ASSUME UNCHANGED <<seq, call, queue, windows, delivered>> PROVE StreamInv'
  <2>1. \A s \in Subscribers, t \in Topics : Latest(s, t)' >= Latest(s, t)
    <3>1. ASSUME NEW s \in Subscribers, NEW t \in Topics PROVE Latest(s, t)' >= Latest(s, t)
      <4>1. Latest(s, t) \in Nat /\ Latest(s, t)' = Latest(s, t)
        BY <1>1, LatestIsNext DEF Latest
      <4>. QED
        BY <4>1
    <3>. QED
      BY <3>1
  <2>. QED
    BY <1>1, <2>1, QuietStreams
<1>2. CASE UNCHANGED vars
  BY <1>1, <1>2 DEF vars, serverVars, streamVars, clientVars
<1>3. CASE startGrpcServer
  BY <1>1, <1>3 DEF startGrpcServer, streamVars, clientVars
<1>4. CASE stopGrpcServer
  BY <1>4, BreakInOrder
<1>5. ASSUME NEW s \in Subscribers, NEW t \in Topics, SubscriberAnnounced(s, t) PROVE StreamInv'
  BY <1>1, <1>5 DEF SubscriberAnnounced, streamVars, clientVars
<1>6. ASSUME NEW s \in Subscribers, SubscriberTimesOut(s) PROVE StreamInv'
  BY <1>1, <1>6 DEF SubscriberTimesOut, streamVars, clientVars
<1>7. CASE PublishNotServing \/ PublishPaced
  BY <1>1, <1>7 DEF PublishNotServing, PublishPaced, streamVars, clientVars
<1>8. ASSUME NEW t \in Topics, PublishUnheard(t) \/ PublishOversized(t) PROVE StreamInv'
  BY <1>1, <1>8 DEF PublishUnheard, PublishOversized, streamVars, clientVars
<1>9. CASE PublishReturn \/ \E t \in Topics : PublishStart(t)
  <2>1. UNCHANGED <<queue, windows, delivered>>
    BY <1>9 DEF PublishReturn, PublishStart, streamVars, clientVars
  <2>2. \A s \in Subscribers, t \in Topics : Latest(s, t)' >= Latest(s, t)
    BY <1>9, SendKeepsLatest
  <2>. QED
    BY <2>1, <2>2, QuietStreams
<1>10. ASSUME NEW s \in Subscribers, PushTo(s) PROVE StreamInv'
  BY <1>10, PushInOrder
<1>11. ASSUME NEW s \in Subscribers, Connect(s) \/ Break(s) \/ Drain(s) PROVE StreamInv'
  BY <1>11, ConnectInOrder, BreakInOrder, DrainInOrder
<1>. QED
  BY <1>2, <1>3, <1>4, <1>5, <1>6, <1>7, <1>8, <1>9, <1>10, <1>11 DEF Next, tryPublishReliable

\* The strengthening that NeverTwice rests on.
LEMMA StreamInvHolds == Spec => []StreamInv
BY InitStreams, NextStreams, SendInvHolds, PTL DEF Spec

-------------------------------------------------------------------------------
(***************************************************************************)
(* A publisher of one topic, as long as it is orderly.  What is queued for *)
(* a subscriber are the last tids without a hole, and once the subscriber  *)
(* has its baseline they go on where its window ends.                      *)
(***************************************************************************)
OneTopic == \A t, u \in Topics : t = u

InTurn(q, next, last, isFresh) ==
  /\ \A i \in DOMAIN q : q[i] # Presence =>
       /\ q[i].tid = last - (Len(q) - i)
       /\ \A j \in DOMAIN q : j >= i => q[j] # Presence
  /\ ~isFresh => /\ \A i \in DOMAIN q : q[i] # Presence
                 /\ next + Len(q) = last + 1

\* A stream that has been pushed a frame.
Joined(s) == s \in up /\ (s \notin fresh \/ \E i \in DOMAIN queue[s] : queue[s][i] # Presence)

\* No later send passes it over, and it can take what it is still to be pushed.
Served(s, t) ==
  /\ s \in registered[t]
  /\ call.active => IF s \in call.left THEN Sendable(s) ELSE call.acceptedAny

OrderlyAt(s, t) ==
  /\ windows[s][t].buffer = {}
  /\ s \in up => InTurn(queue[s], windows[s][t].nextExpected, Latest(s, t), s \in fresh)
  /\ Joined(s) => Served(s, t)

OrderlyInv ==
  orderly =>
    /\ call.active => call.left \subseteq registered[call.frame.topic]
    /\ \A s \in Subscribers, t \in Topics : OrderlyAt(s, t)

\* A stream that was pushed nothing is in turn, whatever the others were.
LEMMA NotJoinedInTurn ==
  ASSUME NEW s \in Subscribers, s \in up, ~Joined(s), NEW next, NEW last
  PROVE  InTurn(queue[s], next, last, s \in fresh)
BY DEF Joined, InTurn

\* The next tid goes to the end of the queue.
LEMMA AppendInTurn ==
  ASSUME NEW q \in Seq(QueueItems), NEW next \in Nat, NEW last \in Nat, NEW isFresh \in BOOLEAN,
         InTurn(q, next, last, isFresh), NEW f \in Frames, f.tid = last + 1
  PROVE  InTurn(Append(q, f), next, last + 1, isFresh)
<1> DEFINE u == Append(q, f)
<1> HIDE DEF QueueItems
<1>1. /\ DOMAIN u = 1..(Len(q) + 1) /\ Len(u) = Len(q) + 1 /\ Len(q) \in Nat /\ DOMAIN q = 1..Len(q)
      /\ u[Len(q) + 1] = f
      /\ \A i \in DOMAIN q : u[i] = q[i]
  BY ItemKinds DEF QueueItems
<1>2. f # Presence
  BY ItemKinds DEF QueueItems
<1> HIDE DEF u
<1>3. \A i \in DOMAIN u : i \in Nat /\ (i \in DOMAIN q \/ i = Len(q) + 1)
  BY <1>1
<1>4. ASSUME NEW i \in DOMAIN u, u[i] # Presence
      PROVE  u[i].tid = last + 1 - (Len(u) - i) /\ \A j \in DOMAIN u : j >= i => u[j] # Presence
  <2>1. CASE i \in DOMAIN q
    <3>1. q[i].tid = last - (Len(q) - i) /\ \A j \in DOMAIN q : j >= i => q[j] # Presence
      BY <1>1, <1>4, <2>1 DEF InTurn
    <3>2. u[i].tid = last + 1 - (Len(u) - i)
      BY <1>1, <1>3, <2>1, <3>1
    <3>3. \A j \in DOMAIN u : j >= i => u[j] # Presence
      BY <1>1, <1>2, <1>3, <3>1
    <3>. QED
      BY <3>2, <3>3
  <2>2. CASE i = Len(q) + 1
    <3>1. u[i].tid = last + 1 - (Len(u) - i)
      BY <1>1, <2>2
    <3>2. ASSUME NEW j \in DOMAIN u, j >= i PROVE u[j] # Presence
      <4>1. j = Len(q) + 1
        BY <1>1, <2>2, <3>2
      <4>. QED
        BY <1>1, <1>2, <4>1
    <3>. QED
      BY <3>1, <3>2
  <2>. QED
    BY <1>3, <2>1, <2>2
<1>5. ASSUME ~isFresh PROVE (\A i \in DOMAIN u : u[i] # Presence) /\ next + Len(u) = last + 1 + 1
  BY <1>1, <1>2, <1>3, <1>5 DEF InTurn
<1>6. InTurn(u, next, last + 1, isFresh)
  BY <1>4, <1>5 DEF InTurn
<1>. QED
  BY <1>6 DEF u

\* The head leaves: the others stay the last tids.
LEMMA TailInTurn ==
  ASSUME NEW q \in Seq(QueueItems), q # <<>>, NEW next \in Nat, NEW last \in Nat,
         NEW isFresh \in BOOLEAN, InTurn(q, next, last, isFresh)
  PROVE  /\ q[1] = Presence => isFresh /\ InTurn(Tail(q), next, last, TRUE)
         /\ q[1] # Presence => InTurn(Tail(q), q[1].tid + 1, last, FALSE)
         /\ q[1] # Presence /\ ~isFresh => q[1].tid = next
<1> DEFINE u == Tail(q)
<1> HIDE DEF QueueItems
<1>1. /\ 1 \in DOMAIN q /\ Len(u) = Len(q) - 1 /\ Len(q) \in Nat /\ DOMAIN q = 1..Len(q)
      /\ \A i \in DOMAIN u : i + 1 \in DOMAIN q /\ u[i] = q[i + 1] /\ i \in Nat /\ i + 1 >= 1
  OBVIOUS
<1> HIDE DEF u
<1>2. \A i, j \in DOMAIN u : j >= i => j + 1 >= i + 1
  BY <1>1
<1>3. ASSUME NEW i \in DOMAIN u, u[i] # Presence
      PROVE  u[i].tid = last - (Len(u) - i) /\ \A j \in DOMAIN u : j >= i => u[j] # Presence
  <2>1. /\ q[i + 1].tid = last - (Len(q) - (i + 1))
        /\ \A j \in DOMAIN q : j >= i + 1 => q[j] # Presence
    BY <1>1, <1>3 DEF InTurn
  <2>2. u[i].tid = q[i + 1].tid /\ Len(q) - (i + 1) = Len(u) - i
    BY <1>1
  <2>3. u[i].tid = last - (Len(u) - i)
    BY <2>1, <2>2
  <2>. QED
    BY <1>1, <1>2, <2>1, <2>3
<1>4. CASE q[1] = Presence
  <2>1. isFresh
    BY <1>1, <1>4 DEF InTurn
  <2>2. InTurn(u, next, last, TRUE)
    BY <1>3 DEF InTurn
  <2>. QED
    BY <1>4, <2>1, <2>2 DEF u
<1>5. CASE q[1] # Presence
  <2>1. q[1].tid = last - (Len(q) - 1) /\ \A j \in DOMAIN q : j >= 1 => q[j] # Presence
    BY <1>1, <1>5 DEF InTurn
  <2>2. \A i \in DOMAIN u : u[i] # Presence
    BY <1>1, <2>1
  <2>3. q[1].tid + 1 + Len(u) = last + 1
    BY <1>1, <2>1
  <2>4. InTurn(u, q[1].tid + 1, last, FALSE)
    BY <1>3, <2>2, <2>3 DEF InTurn
  <2>5. ~isFresh => q[1].tid = next
    BY <1>1, <2>1 DEF InTurn
  <2>. QED
    BY <1>5, <2>4, <2>5 DEF u
<1>. QED
  BY <1>4, <1>5

-------------------------------------------------------------------------------
(***************************************************************************)
(* The steps of an orderly publisher of one topic.                         *)
(***************************************************************************)

\* The registry learns of a subscriber, or a send ends.
LEMMA QuietOrderly ==
  ASSUME SendInv, OrderlyInv, orderly' => orderly, UNCHANGED <<queue, windows, up, fresh, latched>>,
         \A s \in Subscribers, t \in Topics : Latest(s, t)' = Latest(s, t),
         \A t \in Topics : registered[t] \subseteq registered'[t],
         call' = call \/ ~call'.active
  PROVE  OrderlyInv'
<1> SUFFICES ASSUME orderly
             PROVE  /\ call'.active => call'.left \subseteq registered'[call'.frame.topic]
                    /\ \A s \in Subscribers, t \in Topics : OrderlyAt(s, t)'
  BY DEF OrderlyInv
<1>1. call'.active => call'.left \subseteq registered'[call'.frame.topic]
  <2>1. call \in Calls => call.frame.topic \in Topics
    BY DEF Calls, Frames
  <2>. QED
    BY <2>1, IdleIsNoCall DEF OrderlyInv, SendInv, SendTypes
<1>2. ASSUME NEW s \in Subscribers, NEW t \in Topics PROVE OrderlyAt(s, t)'
  <2>1. OrderlyAt(s, t)
    BY DEF OrderlyInv
  <2>2. Joined(s)' = Joined(s) /\ Sendable(s)' = Sendable(s)
    BY DEF Joined, Sendable
  <2>3. Joined(s) => Served(s, t)'
    BY <2>1, <2>2 DEF OrderlyAt, Served
  <2>. QED
    BY <2>1, <2>2, <2>3 DEF OrderlyAt
<1>. QED
  BY <1>1, <1>2

\* A send begins: it takes in every stream that joined, and all can take it.
LEMMA StartOrderly ==
  ASSUME OneTopic, SendInv, OrderlyInv, NEW u \in Topics, PublishStart(u)
  PROVE  OrderlyInv'
<1> SUFFICES ASSUME orderly'
             PROVE  /\ call'.active => call'.left \subseteq registered'[call'.frame.topic]
                    /\ \A s \in Subscribers, t \in Topics : OrderlyAt(s, t)'
  BY DEF OrderlyInv
<1>1. /\ orderly /\ \A s \in registered[u] \cap up : Sendable(s)
      /\ ~call.active
      /\ call' = [active |-> TRUE, frame |-> Data(u, seq[u] + 1, calls'),
                  left |-> registered[u], acceptedAny |-> FALSE]
      /\ UNCHANGED <<seq, registered, up, queue, latched, windows, fresh>>
  BY DEF PublishStart, MayCall, StampedOnly, streamVars, clientVars
<1>2. /\ call'.left = registered[u] /\ call'.frame.topic = u /\ ~call'.acceptedAny
  BY <1>1 DEF Data
<1>3. ASSUME NEW s \in Subscribers, NEW t \in Topics PROVE OrderlyAt(s, t)'
  <2>1. OrderlyAt(s, t) /\ t = u
    BY <1>1 DEF OrderlyInv, OneTopic
  <2>2. Latest(s, t)' = Latest(s, t)
    BY <1>1, <1>2 DEF Latest
  <2>3. Joined(s)' = Joined(s) /\ Sendable(s)' = Sendable(s)
    BY <1>1 DEF Joined, Sendable
  <2>4. Joined(s) => Served(s, t)'
    BY <1>1, <1>2, <2>1, <2>3 DEF OrderlyAt, Served, Joined
  <2>. QED
    BY <1>1, <2>1, <2>2, <2>3, <2>4 DEF OrderlyAt
<1>. QED
  BY <1>1, <1>2, <1>3

\* The frame of the send is pushed to one subscriber.
LEMMA PushOrderly ==
  ASSUME OneTopic, SendInv, StreamInv, OrderlyInv, NEW s \in Subscribers, PushTo(s)
  PROVE  OrderlyInv'
<1> SUFFICES ASSUME orderly
             PROVE  /\ call'.active => call'.left \subseteq registered'[call'.frame.topic]
                    /\ \A q \in Subscribers, t \in Topics : OrderlyAt(q, t)'
  BY DEF OrderlyInv, PushTo
<1> DEFINE f == call.frame
<1>1. /\ call.active /\ s \in call.left /\ call \in Calls
      /\ call' = [call EXCEPT !.left = @ \ {s}, !.acceptedAny = @ \/ Sendable(s)]
      /\ UNCHANGED <<seq, registered, windows, up, fresh>>
      /\ IF Sendable(s)
         THEN queue' = [queue EXCEPT ![s] = Append(@, f)] /\ UNCHANGED latched
         ELSE latched' = (IF s \in up THEN latched \cup {s} ELSE latched) /\ UNCHANGED queue
  BY IdleIsNoCall DEF PushTo, Enqueue, clientVars, SendInv, SendTypes
<1>2. f \in Frames /\ f.tid = seq[f.topic] + 1 /\ f.topic \in Topics
  BY <1>1 DEF SendInv, SendTypes, Tentative, Calls, Frames
<1>3. /\ call'.active /\ call'.frame = f /\ call'.left = call.left \ {s}
      /\ call'.acceptedAny = (call.acceptedAny \/ Sendable(s))
  BY <1>1 DEF Calls
<1>4. call.left \subseteq registered[f.topic]
  BY <1>1 DEF OrderlyInv
<1> HIDE DEF f
<1>5. queue \in [Subscribers -> Seq(QueueItems)] /\ queue[s] \in Seq(QueueItems)
  BY DEF StreamInv, StreamTypes
<1>6. \A q \in Subscribers \ {s} : queue'[q] = queue[q] /\ (q \in latched' <=> q \in latched)
  BY <1>1, <1>5
<1>7. ASSUME NEW q \in Subscribers, NEW t \in Topics, q # s PROVE OrderlyAt(q, t)'
  <2>1. OrderlyAt(q, t) /\ t = f.topic
    BY <1>2 DEF OrderlyInv, OneTopic
  <2>2. (Joined(q)' <=> Joined(q)) /\ (Sendable(q)' <=> Sendable(q))
    BY <1>1, <1>6, <1>7 DEF Joined, Sendable
  <2>3. CASE Joined(q)
    <3>1. Served(q, t)
      BY <2>1, <2>3 DEF OrderlyAt
    <3>2. Latest(q, t)' = Latest(q, t)
      <4>1. CASE q \in call.left
        BY <1>1, <1>3, <1>7, <4>1 DEF Latest
      <4>2. CASE q \notin call.left
        <5>1. call.acceptedAny /\ call'.acceptedAny /\ q \notin call'.left
          BY <1>1, <1>3, <3>1, <4>2 DEF Served
        <5>. QED
          BY <1>1, <1>3, <4>2, <5>1 DEF Latest, f
      <4>. QED
        BY <4>1, <4>2
    <3>3. Served(q, t)'
      BY <1>1, <1>3, <1>7, <2>2, <3>1 DEF Served
    <3>. QED
      BY <1>1, <1>6, <1>7, <2>1, <3>2, <3>3 DEF OrderlyAt
  <2>4. CASE ~Joined(q)
    <3>1. q \in up => InTurn(queue[q], windows[q][t].nextExpected, Latest(q, t)', q \in fresh)
      BY <2>4, NotJoinedInTurn
    <3>. QED
      BY <1>1, <1>6, <1>7, <2>1, <2>2, <2>4, <3>1 DEF OrderlyAt
  <2>. QED
    BY <2>3, <2>4
<1>8. ASSUME NEW t \in Topics PROVE OrderlyAt(s, t)'
  <2>1. OrderlyAt(s, t) /\ t = f.topic
    BY <1>2 DEF OrderlyInv, OneTopic
  <2>2. Latest(s, t) = seq[t] /\ seq[t] \in Nat
    BY <1>1 DEF Latest, SendInv, SendTypes
  <2>3. CASE Sendable(s)
    <3>1. Latest(s, t)' = seq[t] + 1 /\ f.tid = seq[t] + 1
      BY <1>1, <1>2, <1>3, <2>1, <2>3 DEF Latest
    <3>2. queue'[s] = Append(queue[s], f)
      BY <1>1, <1>5, <2>3
    <3>3. s \in up
      BY <2>3 DEF Sendable
    <3>4. InTurn(queue[s], windows[s][t].nextExpected, seq[t], s \in fresh)
      BY <2>1, <2>2, <3>3 DEF OrderlyAt
    <3>5. windows[s][t].nextExpected \in Nat
      BY StreamTypesAt DEF RxWindows
    <3>6. InTurn(Append(queue[s], f), windows[s][t].nextExpected, seq[t] + 1, s \in fresh)
      <4>1. (s \in fresh) \in BOOLEAN
        OBVIOUS
      <4>. QED
        BY <1>2, <1>5, <2>2, <3>1, <3>4, <3>5, <4>1, AppendInTurn
    <3>7. Served(s, t)'
      BY <1>1, <1>3, <1>4, <2>1, <2>3 DEF Served
    <3>. QED
      BY <1>1, <2>1, <3>1, <3>2, <3>6, <3>7 DEF OrderlyAt
  <2>4. CASE ~Sendable(s)
    <3>1. ~Joined(s)
      BY <1>1, <2>1, <2>4 DEF OrderlyAt, Served
    <3>2. ~Joined(s)'
      BY <1>1, <2>4, <3>1 DEF Joined
    <3>3. s \in up => InTurn(queue[s], windows[s][t].nextExpected, Latest(s, t)', s \in fresh)
      BY <3>1, NotJoinedInTurn
    <3>. QED
      BY <1>1, <2>1, <2>4, <3>2, <3>3 DEF OrderlyAt
  <2>. QED
    BY <2>3, <2>4
<1>9. call'.left \subseteq registered'[call'.frame.topic]
  BY <1>1, <1>3, <1>4
<1>. QED
  BY <1>7, <1>8, <1>9

\* A stream is opened: it has been pushed nothing but presence.
LEMMA ConnectOrderly ==
  ASSUME StreamInv, OrderlyInv, NEW s \in Subscribers, Connect(s)
  PROVE  OrderlyInv'
<1> SUFFICES ASSUME orderly
             PROVE  /\ call'.active => call'.left \subseteq registered'[call'.frame.topic]
                    /\ \A q \in Subscribers, t \in Topics : OrderlyAt(q, t)'
  BY DEF OrderlyInv, Connect, historyVars
<1> DEFINE greeting == [i \in 1..Min({PresenceFrames, Hwm + 1}) |-> Presence]
<1>1. /\ queue' = [queue EXCEPT ![s] = greeting]
      /\ latched' = IF PresenceFrames > Hwm + 1 THEN latched \cup {s} ELSE latched
      /\ up' = up \cup {s} /\ fresh' = fresh \cup {s}
      /\ windows' = [windows EXCEPT ![s] = ResetTopics(s, known[s])]
      /\ UNCHANGED <<seq, call, registered>>
  BY DEF Connect, Establish, serverVars
<1> HIDE DEF greeting
<1>2. \A i \in DOMAIN greeting : greeting[i] = Presence
  BY DEF greeting
<1>3. /\ queue'[s] = greeting
      /\ \A q \in Subscribers \ {s} :
           /\ queue'[q] = queue[q] /\ windows'[q] = windows[q]
           /\ (q \in up' <=> q \in up) /\ (q \in fresh' <=> q \in fresh) /\ (q \in latched' <=> q \in latched)
  BY <1>1 DEF StreamInv, StreamTypes
<1>4. ASSUME NEW q \in Subscribers, NEW t \in Topics PROVE OrderlyAt(q, t)'
  <2>1. OrderlyAt(q, t) /\ Latest(q, t)' = Latest(q, t)
    BY <1>1 DEF OrderlyInv, Latest
  <2>2. CASE q = s
    <3>1. ~Joined(s)' /\ s \in fresh'
      BY <1>1, <1>2, <1>3 DEF Joined
    <3>2. ResetTopics(s, known[s])[t].buffer = {}
      <4>1. ResetTopics(s, known[s])[t] \in {windows[s][t], Unbaselined}
        BY ResetTopicsType
      <4>. QED
        BY <2>1, <2>2, <4>1 DEF OrderlyAt, Unbaselined
    <3>3. windows'[s] = ResetTopics(s, known[s])
      BY <1>1 DEF StreamInv, StreamTypes
    <3>4. InTurn(queue'[s], windows'[s][t].nextExpected, Latest(s, t)', s \in fresh')
      BY <1>2, <1>3, <3>1 DEF InTurn
    <3>. QED
      BY <2>2, <3>1, <3>2, <3>3, <3>4 DEF OrderlyAt
  <2>3. CASE q # s
    <3>1. (Joined(q)' <=> Joined(q)) /\ (Sendable(q)' <=> Sendable(q))
      BY <1>3, <2>3 DEF Joined, Sendable
    <3>2. Served(q, t)' <=> Served(q, t)
      BY <1>1, <3>1 DEF Served
    <3>. QED
      BY <1>3, <2>1, <2>3, <3>1, <3>2 DEF OrderlyAt
  <2>. QED
    BY <2>2, <2>3
<1>. QED
  BY <1>1, <1>4 DEF OrderlyInv

\* Streams that end are in no turn.
LEMMA BreakOrderly ==
  ASSUME StreamInv, OrderlyInv, stopGrpcServer \/ \E s \in Subscribers : Break(s)
  PROVE  OrderlyInv'
<1> SUFFICES ASSUME orderly
             PROVE  /\ call'.active => call'.left \subseteq registered'[call'.frame.topic]
                    /\ \A q \in Subscribers, t \in Topics : OrderlyAt(q, t)'
  BY DEF OrderlyInv, stopGrpcServer, Break, historyVars
<1>1. /\ UNCHANGED <<seq, call, registered, windows, fresh>>
      /\ \A q \in Subscribers : \/ q \notin up'
                                \/ /\ q \in up /\ queue'[q] = queue[q]
                                   /\ (q \in latched' <=> q \in latched)
  BY DEF stopGrpcServer, Break, serverVars, clientVars, StreamInv, StreamTypes
<1>2. ASSUME NEW q \in Subscribers, NEW t \in Topics PROVE OrderlyAt(q, t)'
  <2>1. OrderlyAt(q, t) /\ Latest(q, t)' = Latest(q, t)
    BY <1>1 DEF OrderlyInv, Latest
  <2>2. CASE q \notin up'
    BY <1>1, <2>1, <2>2 DEF OrderlyAt, Joined
  <2>3. CASE q \in up'
    <3>1. Joined(q)' => Joined(q)
      BY <1>1, <2>3 DEF Joined
    <3>2. Sendable(q) => Sendable(q)'
      BY <1>1, <2>3 DEF Sendable
    <3>3. Served(q, t) => Served(q, t)'
      BY <1>1, <3>2 DEF Served
    <3>. QED
      BY <1>1, <2>1, <2>3, <3>1, <3>3 DEF OrderlyAt
  <2>. QED
    BY <2>2, <2>3
<1>. QED
  BY <1>1, <1>2 DEF OrderlyInv

\* A stream with a frame less can take whatever it could.
LEMMA DrainKeepsSendable ==
  ASSUME StreamInv, NEW s \in Subscribers, Drain(s), Sendable(s)
  PROVE  Sendable(s)'
<1> HIDE DEF QueueItems
<1>1. queue[s] \in Seq(QueueItems) /\ queue \in [Subscribers -> Seq(QueueItems)] /\ queue[s] # <<>>
  BY DEF StreamInv, StreamTypes, Drain
<1>2. up' = up /\ queue' = [queue EXCEPT ![s] = Tail(@)] /\ s \notin latched'
  BY DEF Drain, Sendable
<1>3. queue'[s] = Tail(queue[s])
  BY <1>1, <1>2
<1>4. /\ Tail(queue[s]) \in Seq(QueueItems) /\ Len(Tail(queue[s])) = Len(queue[s]) - 1
      /\ Len(queue[s]) \in Nat /\ Len(queue[s]) >= 1
  BY <1>1
<1>5. OutboxLen(queue[s]) = Len(queue[s]) - 1 /\ OutboxLen(queue[s]) < Hwm /\ Hwm \in Nat
  BY <1>1, MarksAssumption DEF OutboxLen, Sendable
<1>6. OutboxLen(queue'[s]) \in Int /\ OutboxLen(queue'[s]) <= OutboxLen(queue[s])
  BY <1>3, <1>4, <1>5 DEF OutboxLen
<1>7. OutboxLen(queue'[s]) < Hwm
  BY <1>4, <1>5, <1>6
<1>. QED
  BY <1>2, <1>7 DEF Sendable

\* A frame that is the baseline of its window, or comes in sequence to one that
\* holds nothing, is handed out at once.
LEMMA AdmitInTurn ==
  ASSUME NEW win \in RxWindows, win.buffer = {}, NEW tid \in Nat,
         win.nextExpected = 0 \/ win.nextExpected = tid
  PROVE  Admit(win, tid) = [nextExpected |-> tid + 1, buffer |-> {}]
<1>1. Delivers(win, tid)
  BY DEF Delivers, Baselines, InSequence, RxWindows
<1>2. AfterFlush(win.buffer, tid) = tid + 1
  BY DEF AfterFlush
<1>. QED
  BY <1>1, <1>2 DEF Admit, Delivery

\* The frame that arrives is the one its window waits for.
LEMMA DrainOrderly ==
  ASSUME OneTopic, SendInv, StreamInv, OrderlyInv, NEW s \in Subscribers, Drain(s)
  PROVE  OrderlyInv'
<1> SUFFICES ASSUME orderly
             PROVE  /\ call'.active => call'.left \subseteq registered'[call'.frame.topic]
                    /\ \A q \in Subscribers, t \in Topics : OrderlyAt(q, t)'
  BY DEF OrderlyInv, Drain, historyVars
<1> DEFINE f == Head(queue[s])
           base == IF s \in fresh THEN ResetTopics(s, known[s] \cup {f.topic}) ELSE windows[s]
<1>1. /\ s \in up /\ queue[s] # <<>> /\ queue' = [queue EXCEPT ![s] = Tail(@)]
      /\ \/ latched' = latched
         \/ latched' = latched \ {s}
      /\ UNCHANGED <<seq, call, registered, up>>
  BY DEF Drain, serverVars
<1>2. queue[s] \in Seq(QueueItems) /\ queue \in [Subscribers -> Seq(QueueItems)]
      /\ windows \in [Subscribers -> [Topics -> RxWindows]]
  BY DEF StreamInv, StreamTypes
<1> HIDE DEF QueueItems
<1>3. f = queue[s][1] /\ f \in QueueItems /\ queue'[s] = Tail(queue[s]) /\ 1 \in DOMAIN queue[s]
  BY <1>1, <1>2
<1>4. /\ fresh' = fresh \/ fresh' = fresh \ {s}
      /\ \A q \in Subscribers \ {s} :
           /\ queue'[q] = queue[q] /\ windows'[q] = windows[q]
           /\ (q \in latched' <=> q \in latched) /\ (q \in fresh' <=> q \in fresh)
  <2>1. fresh' = fresh \/ fresh' = fresh \ {s}
    BY DEF Drain, HandleFrame, clientVars
  <2>2. \A q \in Subscribers \ {s} : windows'[q] = windows[q]
    BY <1>2 DEF Drain, HandleFrame, clientVars
  <2>. QED
    BY <1>1, <1>2, <2>1, <2>2
<1>5. \A q \in Subscribers, t \in Topics : OrderlyAt(q, t) /\ Latest(q, t)' = Latest(q, t)
  BY <1>1 DEF OrderlyInv, Latest
<1>6. ASSUME NEW q \in Subscribers, NEW t \in Topics, q # s PROVE OrderlyAt(q, t)'
  <2>1. (Joined(q)' <=> Joined(q)) /\ (Sendable(q)' <=> Sendable(q))
    BY <1>1, <1>4, <1>6 DEF Joined, Sendable
  <2>2. Served(q, t)' <=> Served(q, t)
    BY <1>1, <2>1 DEF Served
  <2>. QED
    BY <1>1, <1>4, <1>5, <1>6, <2>1, <2>2 DEF OrderlyAt
<1>7. ASSUME NEW t \in Topics PROVE OrderlyAt(s, t)'
  <2> DEFINE q == queue[s]
             next == windows[s][t].nextExpected
  <2>1. /\ Latest(s, t) \in Nat /\ next \in Nat /\ windows[s][t] \in RxWindows
        /\ windows[s][t].buffer = {}
        /\ InTurn(q, next, Latest(s, t), s \in fresh)
    BY <1>1, <1>5, LatestIsNext, StreamTypesAt DEF OrderlyAt, RxWindows
  <2>2. PICK last \in Nat : last = Latest(s, t)
    BY <2>1
  <2>3. /\ q[1] = Presence => s \in fresh /\ InTurn(Tail(q), next, last, TRUE)
        /\ q[1] # Presence => InTurn(Tail(q), q[1].tid + 1, last, FALSE)
        /\ q[1] # Presence /\ s \notin fresh => q[1].tid = next
    <3>1. InTurn(q, next, last, s \in fresh)
      BY <2>1, <2>2
    <3>2. PICK n \in Nat : n = next
      BY <2>1
    <3> HIDE DEF next
    <3>3. q \in Seq(QueueItems) /\ q # <<>>
      BY <1>1, <1>2
    <3> HIDE DEF q
    <3>4. CASE s \in fresh
      <4>1. InTurn(q, n, last, TRUE)
        BY <3>1, <3>2, <3>4 DEF InTurn
      <4>2. /\ q[1] = Presence => InTurn(Tail(q), n, last, TRUE)
            /\ q[1] # Presence => InTurn(Tail(q), q[1].tid + 1, last, FALSE)
        BY <2>2, <3>2, <3>3, <4>1, TailInTurn
      <4>. QED
        BY <3>2, <3>4, <4>2
    <3>5. CASE s \notin fresh
      <4>1. InTurn(q, n, last, FALSE)
        BY <3>1, <3>2, <3>5 DEF InTurn
      <4>2. /\ q[1] # Presence
            /\ InTurn(Tail(q), q[1].tid + 1, last, FALSE)
            /\ q[1].tid = n
        BY <2>2, <3>2, <3>3, <4>1, TailInTurn
      <4>. QED
        BY <3>2, <3>5, <4>2
    <3>. QED
      BY <3>4, <3>5
  <2>4. Joined(s)' => Joined(s)
    <3>1. \A i \in DOMAIN queue'[s] : i + 1 \in DOMAIN queue[s] /\ queue'[s][i] = queue[s][i + 1]
      BY <1>1, <1>2, <1>3
    <3>2. fresh' = fresh \/ queue[s][1] # Presence
      BY <1>3 DEF Drain, clientVars
    <3>. QED
      BY <1>1, <1>3, <3>1, <3>2 DEF Joined
  <2>5. Joined(s)' => Served(s, t)'
    <3>1. Joined(s) => Served(s, t)
      BY <1>5 DEF OrderlyAt
    <3>. QED
      BY <1>1, <2>4, <3>1, DrainKeepsSendable DEF Served
  <2>6. CASE f = Presence
    <3>1. UNCHANGED <<windows, fresh>>
      BY <2>6 DEF Drain, clientVars
    <3>2. s \in fresh /\ InTurn(Tail(q), next, last, s \in fresh)
      BY <1>3, <2>3, <2>6
    <3>. QED
      BY <1>3, <1>5, <2>1, <2>2, <2>5, <3>1, <3>2 DEF OrderlyAt
  <2>7. CASE f # Presence
    <3>1. f \in Frames /\ f.topic = t /\ f.tid \in Nat
      BY <1>3, <2>7, ItemKinds DEF OneTopic
    <3>2. /\ windows' = [windows EXCEPT ![s] = [base EXCEPT ![f.topic] = Admit(base[f.topic], f.tid)]]
          /\ fresh' = fresh \ {s}
      BY <2>7 DEF Drain, HandleFrame
    <3>3. /\ base \in [Topics -> RxWindows] /\ base[t].buffer = {}
          /\ base[t].nextExpected = 0 \/ base[t].nextExpected = f.tid
      <4>1. CASE s \in fresh
        <5>1. base = ResetTopics(s, known[s] \cup {f.topic})
          BY <4>1
        <5>2. base \in [Topics -> RxWindows] /\ base[t] = Unbaselined
          BY <3>1, <5>1, ResetTopicsType
        <5>. QED
          BY <5>2 DEF Unbaselined
      <4>2. CASE s \notin fresh
        BY <1>3, <2>1, <2>3, <2>7, <4>2, StreamTypesAt
      <4>. QED
        BY <4>1, <4>2
    <3> HIDE DEF base, f
    <3>4. base[t] \in RxWindows
      BY <3>3
    <3>5. Admit(base[t], f.tid) = [nextExpected |-> f.tid + 1, buffer |-> {}]
      BY <3>1, <3>3, <3>4, AdmitInTurn
    <3>6. windows'[s][t] = [nextExpected |-> f.tid + 1, buffer |-> {}]
      <4>1. windows'[s] = [base EXCEPT ![t] = Admit(base[t], f.tid)]
        BY <1>2, <3>1, <3>2
      <4>. QED
        BY <3>3, <3>5, <4>1
    <3>7. InTurn(queue'[s], windows'[s][t].nextExpected, Latest(s, t)', s \in fresh')
      <4>1. InTurn(Tail(q), f.tid + 1, last, FALSE)
        BY <1>3, <2>3, <2>7
      <4>2. (s \in fresh') = FALSE
        BY <3>2
      <4>3. /\ windows'[s][t].nextExpected = f.tid + 1
            /\ Latest(s, t)' = last
            /\ queue'[s] = Tail(q)
        BY <1>3, <1>5, <2>2, <3>6
      <4>. QED
        BY <4>1, <4>2, <4>3
    <3>. QED
      BY <2>5, <3>6, <3>7 DEF OrderlyAt
  <2>. QED
    BY <2>6, <2>7
<1>8. call'.active => call'.left \subseteq registered'[call'.frame.topic]
  BY <1>1 DEF OrderlyInv
<1>. QED
  BY <1>6, <1>7, <1>8

\* A send that returns commits what its subscribers were pushed already.
LEMMA ReturnKeepsLatest ==
  ASSUME OneTopic, SendInv, PublishReturn, NEW s \in Subscribers, NEW t \in Topics
  PROVE  Latest(s, t)' = Latest(s, t)
<1>1. /\ call.active /\ call.left = {} /\ call.frame.topic = t
      /\ ~call'.active /\ seq \in [Topics -> Nat]
      /\ seq' = IF call.acceptedAny THEN [seq EXCEPT ![call.frame.topic] = call.frame.tid] ELSE seq
  BY IdleIsNoCall DEF PublishReturn, Commits, SendInv, SendTypes, Calls, Frames, OneTopic
<1>. QED
  BY <1>1 DEF Latest

LEMMA InitOrderly == Init => OrderlyInv
<1> SUFFICES ASSUME Init PROVE OrderlyInv
  OBVIOUS
<1>1. ~call.active
  BY IdleIsNoCall DEF Init
<1>2. \A s \in Subscribers, t \in Topics : windows[s][t] = NewWindow /\ s \notin up
  BY DEF Init
<1>. QED
  BY <1>1, <1>2 DEF OrderlyInv, OrderlyAt, Joined, NewWindow

LEMMA NextOrderly ==
  ASSUME OneTopic, SendInv, SendInv', StreamInv, OrderlyInv, [Next]_vars
  PROVE  OrderlyInv'
<1>1. ASSUME UNCHANGED <<seq, call, queue, windows, up, fresh, latched>>, orderly' => orderly,
             \A t \in Topics : registered[t] \subseteq registered'[t]
      PROVE  OrderlyInv'
  <2>1. \A s \in Subscribers, t \in Topics : Latest(s, t)' = Latest(s, t)
    BY <1>1 DEF Latest
  <2>. QED
    BY <1>1, <2>1, QuietOrderly
<1>2. CASE UNCHANGED vars
  BY <1>1, <1>2 DEF vars, serverVars, streamVars, clientVars, historyVars
<1>3. CASE startGrpcServer
  BY <1>1, <1>3 DEF startGrpcServer, streamVars, clientVars, historyVars
<1>4. CASE stopGrpcServer
  BY <1>4, BreakOrderly
<1>5. ASSUME NEW s \in Subscribers, NEW t \in Topics, SubscriberAnnounced(s, t) PROVE OrderlyInv'
  <2>1. \A u \in Topics : registered[u] \subseteq registered'[u]
    BY <1>5 DEF SubscriberAnnounced, SendInv, SendTypes
  <2>. QED
    BY <1>1, <1>5, <2>1 DEF SubscriberAnnounced, streamVars, clientVars, historyVars
<1>6. ASSUME NEW s \in Subscribers, SubscriberTimesOut(s) PROVE OrderlyInv'
  BY <1>6 DEF SubscriberTimesOut, OrderlyInv
<1>7. CASE PublishNotServing \/ PublishPaced
  BY <1>1, <1>7 DEF PublishNotServing, PublishPaced, streamVars, clientVars, historyVars
<1>8. ASSUME NEW t \in Topics, PublishUnheard(t) \/ PublishOversized(t) PROVE OrderlyInv'
  BY <1>1, <1>8 DEF PublishUnheard, PublishOversized, streamVars, clientVars, historyVars
<1>9. CASE PublishReturn
  <2>1. /\ UNCHANGED <<queue, windows, up, fresh, latched, registered, orderly>>
        /\ ~call'.active
    BY <1>9, IdleIsNoCall DEF PublishReturn, streamVars, clientVars, historyVars
  <2>2. \A s \in Subscribers, t \in Topics : Latest(s, t)' = Latest(s, t)
    BY <1>9, ReturnKeepsLatest
  <2>. QED
    BY <2>1, <2>2, QuietOrderly
<1>10. ASSUME NEW t \in Topics, PublishStart(t) PROVE OrderlyInv'
  BY <1>10, StartOrderly
<1>11. ASSUME NEW s \in Subscribers, PushTo(s) PROVE OrderlyInv'
  BY <1>11, PushOrderly
<1>12. ASSUME NEW s \in Subscribers, Connect(s) \/ Break(s) \/ Drain(s) PROVE OrderlyInv'
  BY <1>12, ConnectOrderly, BreakOrderly, DrainOrderly
<1>. QED
  BY <1>2, <1>3, <1>4, <1>5, <1>6, <1>7, <1>8, <1>9, <1>10, <1>11, <1>12 DEF Next, tryPublishReliable

-------------------------------------------------------------------------------
(***************************************************************************)
(* Commit after acceptance: between two sends, the tids of a topic that    *)
(* some outbox accepted are 1 to its committed sequence number, whatever   *)
(* the streams do between the pushes.                                      *)
(***************************************************************************)
THEOREM CommitFollowsAcceptance == Spec => []CommittedIffAccepted
<1>1. SendInv => CommittedIffAccepted
  <2> SUFFICES ASSUME SendInv, ~call.active, NEW t \in Topics
               PROVE  {f.tid : f \in {g \in offered : g.topic = t}} = 1..seq[t]
    BY DEF CommittedIffAccepted
  <2>1. \A f \in offered : f.topic = t => f.tid \in 1..seq[t]
    BY DEF SendInv, TakenIsCommitted
  <2>2. \A n \in 1..seq[t] : \E f \in offered : f.topic = t /\ f.tid = n
    BY DEF SendInv, CommittedIsTaken
  <2>. QED
    BY <2>1, <2>2
<1>. QED
  BY <1>1, SendInvHolds, PTL

(***************************************************************************)
(* A tid that was refused and is stamped again never names two payloads    *)
(* that went out.                                                          *)
(***************************************************************************)
THEOREM TidIsOnePayload == Spec => []TidNamesOnePayload
<1>1. SendInv => TidNamesOnePayload
  BY DEF SendInv
<1>. QED
  BY <1>1, SendInvHolds, PTL
(***************************************************************************)
(* Exactly once and in order, over the whole life of a subscriber: its     *)
(* callbacks get ascending tids of each topic, through breaks, reconnects, *)
(* baseline resets, refusals and server restarts.  The window forgets at a *)
(* reset what it has delivered; that nothing comes again rests on the      *)
(* queue of the new stream holding only tids newer than all before it.     *)
(***************************************************************************)
THEOREM DeliveredAtMostOnce == Spec => []NeverTwice
<1>1. StreamInv => NeverTwice
  BY DEF StreamInv, StreamsInOrder, InOrder, Ascends, NeverTwice
<1>. QED
  BY <1>1, StreamInvHolds, PTL

(***************************************************************************)
(* For a publisher of one topic, with any subscribers, marks, pacing and   *)
(* presence: as long as each send finds every stream of the topic sendable *)
(* and nobody times out, no frame waits behind a gap, through breaks,      *)
(* reconnects, restarts of the server and late registrations.  With a      *)
(* second topic it fails (MCReliablePublish_Topics.cfg): the first frame   *)
(* after a new stream baselines only the windows that exist.               *)
(***************************************************************************)
THEOREM OrderlyStreamsLeaveNoGap ==
  ASSUME OneTopic
  PROVE  Spec => []OrderlyLeavesNoGap
<1>1. SendInv /\ SendInv' /\ StreamInv /\ OrderlyInv /\ [Next]_vars => OrderlyInv'
  BY OneTopic, NextOrderly
<1>2. OrderlyInv => OrderlyLeavesNoGap
  BY DEF OrderlyInv, OrderlyAt, OrderlyLeavesNoGap, NoWindowGap
<1>. QED
  BY <1>1, <1>2, InitOrderly, SendInvHolds, StreamInvHolds, PTL DEF Spec

=============================================================================
