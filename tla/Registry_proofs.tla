--------------------------- MODULE Registry_proofs ---------------------------
(***************************************************************************)
(* Proofs about Registry: for any number of shards, any peers and topics,  *)
(* any placement of them and any set of inputs.                            *)
(***************************************************************************)
EXTENDS Registry, TLAPS

-------------------------------------------------------------------------------
(***************************************************************************)
(* The inductive invariant.  NoGhosts alone is not inductive: when the     *)
(* second section of an advertisement lists a peer, it takes the worker's  *)
(* advertisement to say that the peer is still known, and not expired.     *)
(***************************************************************************)
WorkerKnown ==
  \A s \in Shards, p \in Peers :
    worker[s] # Idle /\ worker[s][1] = p => p \in participants \ expired

RegistryInv ==
  /\ TypeOK
  /\ WorkerKnown
  /\ NoGhosts
  /\ SubscriptionSurvives

-------------------------------------------------------------------------------
(***************************************************************************)
(* What the operators on entries return.                                   *)
(***************************************************************************)
LEMMA AbsentIsEntry == Absent \in Entries /\ NewEntry \in Entries
BY DEF Absent, NewEntry, Entries

\* handleTopicAnnouncement keeps an entry an entry, and lists nobody but the
\* peer that announced itself.
LEMMA AnnouncedEntry ==
  ASSUME NEW e \in Entries, NEW p \in Senders, NEW role \in Roles,
         e.present \/ e = Absent
  PROVE  /\ Announced(e, p, role) \in Entries
         /\ Announced(e, p, role).present \/ Announced(e, p, role) = Absent
         /\ \A q \in Peers :
              q \in Announced(e, p, role).publishers \cup Announced(e, p, role).subscribers
                => q = p \/ q \in e.publishers \cup e.subscribers
         /\ e.callbacks => Announced(e, p, role).callbacks
<1>1. CASE p = Self
  BY <1>1 DEF Announced
<1>2. CASE p # Self
  <2>1. p \in Peers
    BY <1>2 DEF Senders
  <2>2. CASE e.present
    BY <1>2, <2>1, <2>2 DEF Announced, Listing, Entries
  <2>3. CASE ~e.present
    BY <1>2, <2>1, <2>3 DEF Announced, Listing, Entries, NewEntry, Absent
  <2>. QED
    BY <2>2, <2>3
<1>. QED
  BY <1>1, <1>2

\* The purge keeps an entry an entry, lists none of the stale peers, and keeps
\* callbacks.
LEMMA PurgedEntry ==
  ASSUME NEW e \in Entries, NEW stale \in SUBSET Peers, e.present \/ e = Absent
  PROVE  /\ Purged(e, stale) \in Entries
         /\ Purged(e, stale).present \/ Purged(e, stale) = Absent
         /\ \A q \in Peers :
              q \in Purged(e, stale).publishers \cup Purged(e, stale).subscribers
                => q \notin stale /\ q \in e.publishers \cup e.subscribers
         /\ e.callbacks => Purged(e, stale).callbacks
<1> DEFINE f == [e EXCEPT !.publishers = @ \ stale, !.subscribers = @ \ stale]
<1>1. /\ f \in Entries
      /\ f.present = e.present
      /\ f.publishers = e.publishers \ stale
      /\ f.subscribers = e.subscribers \ stale
      /\ f.callbacks = e.callbacks
  BY DEF Entries
<1>2. CASE f.publishers = {} /\ f.subscribers = {} /\ ~f.callbacks
  <2>1. Purged(e, stale) = Absent
    BY <1>2 DEF Purged
  <2>2. Absent.publishers = {} /\ Absent.subscribers = {}
    BY DEF Absent
  <2>. QED
    BY <1>1, <1>2, <2>1, <2>2, AbsentIsEntry
<1>3. CASE ~(f.publishers = {} /\ f.subscribers = {} /\ ~f.callbacks)
  <2>1. Purged(e, stale) = f
    BY <1>3 DEF Purged
  <2>2. e.present
    BY <1>1, <1>3 DEF Absent
  <2>. QED
    BY <1>1, <2>1, <2>2
<1>. QED
  BY <1>2, <1>3

-------------------------------------------------------------------------------
LEMMA InitInv == Init => RegistryInv
<1> SUFFICES ASSUME Init PROVE RegistryInv
  OBVIOUS
<1> USE DEF Init
<1>1. TypeOK
  <2>1. topics \in [Topics -> Entries]
    BY AbsentIsEntry
  <2>2. cleaner \in [phase : {"evict", "purge", "prune", "reconcile"}, shard : Shards,
                     stale : SUBSET Peers]
    BY ShardsAssumption DEF Shards
  <2>. QED
    BY <2>1, <2>2 DEF TypeOK
<1>2. WorkerKnown
  BY DEF WorkerKnown
<1>3. NoGhosts
  BY DEF NoGhosts, Lists, Absent
<1>4. SubscriptionSurvives
  BY DEF SubscriptionSurvives
<1>. QED
  BY <1>1, <1>2, <1>3, <1>4 DEF RegistryInv

\* A known sender stays known; what a heartbeat adds is known and fresh.
LEMMA HeartbeatTypes ==
  ASSUME TypeOK, NEW p \in Senders, handleParticipantHeartbeat(p)
  PROVE  /\ participants' \subseteq Peers
         /\ expired' \subseteq participants'
         /\ participants \subseteq participants'
         /\ participants \ expired \subseteq participants' \ expired'
         /\ p \in Peers => p \in participants' \ expired'
BY SelfAssumption DEF TypeOK, Senders, handleParticipantHeartbeat

-------------------------------------------------------------------------------
(***************************************************************************)
(* Every step preserves the types.                                         *)
(***************************************************************************)
LEMMA TypeStep == TypeOK /\ WorkerKnown /\ [Next]_vars => TypeOK'
<1> SUFFICES ASSUME TypeOK, WorkerKnown, [Next]_vars PROVE TypeOK'
  OBVIOUS
<1> USE DEF peerVars, localVars, reliableVars
<1>1. ASSUME NEW p \in Peers, ReceiveHeartbeat(p) PROVE TypeOK'
  <2>1. p \in Senders
    BY DEF Senders
  <2>. QED
    BY <1>1, <2>1, HeartbeatTypes DEF ReceiveHeartbeat, TypeOK
<1>2. ASSUME NEW p \in Peers, ReceiveReliableFrame(p) PROVE TypeOK'
  BY <1>2 DEF ReceiveReliableFrame, TypeOK
<1>3. ASSUME NEW p \in Peers, Expire(p) PROVE TypeOK'
  BY <1>3 DEF Expire, TypeOK
<1>4. ASSUME NEW p \in Peers, Leave(p) PROVE TypeOK'
  BY <1>4 DEF Leave, TypeOK
<1>5. ASSUME NEW p \in Peers, NEW t \in Topics, NEW role \in Roles,
             ReceiveBareAdvertisement(p, t, role)
      PROVE TypeOK'
  BY <1>5 DEF ReceiveBareAdvertisement, TypeOK
<1>6. ASSUME NEW p \in Senders, NEW t \in Topics, NEW role \in Roles,
             ReceiveAdvertisement(p, t, role)
      PROVE TypeOK'
  <2>1. worker' \in [Shards -> Advertisements \cup {Idle}]
    BY <1>6 DEF ReceiveAdvertisement, TypeOK, Advertisements
  <2>2. participants' \subseteq Peers /\ expired' \subseteq participants'
    BY <1>6, HeartbeatTypes DEF ReceiveAdvertisement
  <2>. QED
    BY <1>6, <2>1, <2>2 DEF ReceiveAdvertisement, TypeOK
<1>7. ASSUME NEW s \in Shards, handleTopicAnnouncement(s) PROVE TypeOK'
  <2>1. PICK p \in Senders, t \in Topics, role \in Roles : worker[s] = <<p, t, role>>
    BY <1>7 DEF handleTopicAnnouncement, TypeOK, Advertisements
  <2>2. topics' = [topics EXCEPT ![t] = Announced(@, p, role)]
    BY <1>7, <2>1 DEF handleTopicAnnouncement
  <2>3. topics[t] \in Entries /\ (topics[t].present \/ topics[t] = Absent)
    BY DEF TypeOK
  <2>4. /\ topics' \in [Topics -> Entries]
        /\ \A u \in Topics : ~topics'[u].present => topics'[u] = Absent
    BY <2>2, <2>3, AnnouncedEntry DEF TypeOK
  <2>5. heard' = IF p \in participants
                 THEN [heard EXCEPT ![p] = @ \cup {<<t, role>>}] ELSE heard
    BY <1>7, <2>1 DEF handleTopicAnnouncement
  <2>6. heard' \in [Peers -> SUBSET (Topics \X Roles)]
    BY <2>5 DEF TypeOK
  <2>7. worker' \in [Shards -> Advertisements \cup {Idle}]
    BY <1>7 DEF handleTopicAnnouncement, TypeOK
  <2>. QED
    BY <1>7, <2>4, <2>6, <2>7 DEF handleTopicAnnouncement, TypeOK
<1>8. ASSUME removeTimedOutParticipants PROVE TypeOK'
  <2>1. ASSUME NEW phase \in {"purge", "prune"}
        PROVE Onward(phase) \in [phase : {"evict", "purge", "prune", "reconcile"},
                                 shard : Shards, stale : SUBSET Peers]
    <3>1. cleaner \in [phase : {"evict", "purge", "prune", "reconcile"}, shard : Shards,
                       stale : SUBSET Peers]
      BY DEF TypeOK
    <3>2. CASE cleaner.shard < N
      <4>1. cleaner.shard + 1 \in Shards
        BY <3>1, <3>2, ShardsAssumption DEF Shards
      <4>. QED
        BY <3>1, <3>2, <4>1 DEF Onward
    <3>3. CASE ~(cleaner.shard < N)
      <4>1. 1 \in Shards
        BY ShardsAssumption DEF Shards
      <4>. QED
        BY <3>1, <3>3, <4>1 DEF Onward
    <3>. QED
      BY <3>2, <3>3
  <2>2. CASE Evict
    <3> DEFINE out == {p \in participants :
                         ShardOfPeer[p] = cleaner.shard /\ shouldBeRemoved(p)}
    <3>1. /\ participants' = participants \ out
          /\ expired' = expired \ out
          /\ heard' = [p \in Peers |-> IF p \in out THEN {} ELSE heard[p]]
          /\ cleaner' = [Onward("purge") EXCEPT !.stale = @ \cup out]
      BY <2>2 DEF Evict
    <3>2. out \subseteq Peers
      BY DEF TypeOK
    <3> HIDE DEF out
    <3>3. cleaner' \in [phase : {"evict", "purge", "prune", "reconcile"},
                        shard : Shards, stale : SUBSET Peers]
      BY <2>1, <3>1, <3>2
    <3>4. heard' \in [Peers -> SUBSET (Topics \X Roles)]
      BY <3>1 DEF TypeOK
    <3>. QED
      BY <2>2, <3>1, <3>3, <3>4 DEF Evict, TypeOK
  <2>3. CASE Purge
    <3>1. topics' = [t \in Topics |-> IF ShardOfTopic[t] = cleaner.shard
                                      THEN Purged(topics[t], cleaner.stale) ELSE topics[t]]
      BY <2>3 DEF Purge
    <3>2. cleaner.stale \in SUBSET Peers
      BY DEF TypeOK
    <3>3. /\ topics' \in [Topics -> Entries]
          /\ \A u \in Topics : ~topics'[u].present => topics'[u] = Absent
      BY <3>1, <3>2, PurgedEntry DEF TypeOK
    <3>4. cleaner' \in [phase : {"evict", "purge", "prune", "reconcile"},
                        shard : Shards, stale : SUBSET Peers]
      BY <2>1, <2>3 DEF Purge
    <3>. QED
      BY <2>3, <3>3, <3>4 DEF Purge, TypeOK
  <2>4. CASE Prune
    BY <2>4 DEF Prune, TypeOK
  <2>5. CASE Reconcile
    BY <2>5, ShardsAssumption DEF Reconcile, TypeOK, Needed, Shards
  <2>. QED
    BY <1>8, <2>2, <2>3, <2>4, <2>5 DEF removeTimedOutParticipants
<1>9. ASSUME NEW t \in Topics, NEW reliable \in BOOLEAN
      PROVE  /\ Inserts(t, reliable) \in Seq(Sections)
             /\ Registers(t, reliable) \in Seq(Sections)
             /\ [EntryOf(t) EXCEPT !.reliable = reliable] \in Entries
             /\ [EntryOf(t) EXCEPT !.reliable = reliable].present
             /\ [EntryOf(t) EXCEPT !.reliable = reliable, !.callbacks = TRUE] \in Entries
             /\ [EntryOf(t) EXCEPT !.reliable = reliable, !.callbacks = TRUE].present
  <2>1. EntryOf(t) \in Entries /\ EntryOf(t).present
    BY AbsentIsEntry DEF EntryOf, TypeOK, NewEntry, Absent
  <2>2. /\ [op |-> "insert", topic |-> t, reliable |-> TRUE] \in Sections
        /\ [op |-> "register", topic |-> t, reliable |-> reliable] \in Sections
    BY DEF Sections
  <2>3. Inserts(t, reliable) \in Seq(Sections) /\ Registers(t, reliable) \in Seq(Sections)
    BY <2>2 DEF Inserts, Registers
  <2>4. /\ [EntryOf(t) EXCEPT !.reliable = reliable] \in Entries
        /\ [EntryOf(t) EXCEPT !.reliable = reliable].present
    BY <2>1 DEF Entries
  <2>5. /\ [EntryOf(t) EXCEPT !.reliable = reliable, !.callbacks = TRUE] \in Entries
        /\ [EntryOf(t) EXCEPT !.reliable = reliable, !.callbacks = TRUE].present
    BY <2>1 DEF Entries
  <2>. QED
    BY <2>3, <2>4, <2>5
<1>10. ASSUME NEW t \in Topics, NEW reliable \in Qos,
              registerPublisherTopic(t, reliable)
       PROVE TypeOK'
  <2>1. reliable \in BOOLEAN
    BY DEF Qos
  <2>. QED
    BY <1>9, <1>10, <2>1 DEF registerPublisherTopic, TypeOK
<1>11. ASSUME NEW t \in Topics, NEW reliable \in Qos,
              registerSubscriberTopic(t, reliable)
       PROVE TypeOK'
  <2>1. reliable \in BOOLEAN
    BY DEF Qos
  <2>. QED
    BY <1>9, <1>11, <2>1 DEF registerSubscriberTopic, TypeOK
<1>12. ASSUME NEW t \in Topics, NEW reliable \in Qos,
              registerSubscriberCallback(t, reliable)
       PROVE TypeOK'
  <2>1. reliable \in BOOLEAN
    BY DEF Qos
  <2>2. api' \in Seq(Sections)
    <3>1. Inserts(t, reliable) \in Seq(Sections) /\ Registers(t, reliable) \in Seq(Sections)
      BY <1>9, <2>1
    <3>2. Inserts(t, reliable) \o Registers(t, reliable) \o Inserts(t, reliable)
            \in Seq(Sections)
      BY <3>1
    <3>. QED
      BY <1>12, <3>2 DEF registerSubscriberCallback
  <2>. QED
    BY <1>9, <1>12, <2>1, <2>2 DEF registerSubscriberCallback, TypeOK
<1>13. ASSUME NEW t \in Topics, unregisterPublisherTopic(t) PROVE TypeOK'
  <2>1. topics' = [topics EXCEPT ![t] = DroppedUnlessCallbacks(@)]
    BY <1>13 DEF unregisterPublisherTopic
  <2>2. /\ topics' \in [Topics -> Entries]
        /\ \A u \in Topics : ~topics'[u].present => topics'[u] = Absent
    BY <2>1, AbsentIsEntry DEF DroppedUnlessCallbacks, TypeOK
  <2>. QED
    BY <1>13, <2>2 DEF unregisterPublisherTopic, TypeOK
<1>14. ASSUME NEW t \in Topics, subscribe(t) PROVE TypeOK'
  <2>0. topics[t] \in Entries /\ topics[t].present
    BY <1>14 DEF subscribe, TypeOK
  <2>1. [topics[t] EXCEPT !.callbacks = TRUE] \in Entries
        /\ [topics[t] EXCEPT !.callbacks = TRUE].present
    BY <2>0 DEF Entries
  <2>. QED
    BY <1>14, <2>1 DEF subscribe, TypeOK
<1>15. ASSUME NEW t \in Topics, unregisterSubscriberTopic(t) PROVE TypeOK'
  <2>0. topics[t] \in Entries /\ topics[t].present
    BY <1>15 DEF unregisterSubscriberTopic, TypeOK
  <2>1. [topics[t] EXCEPT !.callbacks = FALSE] \in Entries
        /\ [topics[t] EXCEPT !.callbacks = FALSE].present
    BY <2>0 DEF Entries
  <2>2. api' \in Seq(Sections)
    BY <1>15 DEF unregisterSubscriberTopic, Sections
  <2>. QED
    BY <1>15, <2>1, <2>2, AbsentIsEntry DEF unregisterSubscriberTopic, TypeOK
<1>16. ASSUME CallGoesOn PROVE TypeOK'
  <2>1. Head(api) \in Sections /\ Tail(api) \in Seq(Sections)
    BY <1>16 DEF CallGoesOn, TypeOK
  <2>2. Head(api).topic \in Topics /\ Head(api).reliable \in BOOLEAN
    BY <2>1 DEF Sections
  <2>3. /\ topics' \in [Topics -> Entries]
        /\ \A u \in Topics : ~topics'[u].present => topics'[u] = Absent
    BY <1>9, <1>16, <2>2 DEF CallGoesOn, TypeOK
  <2>4. reliableSubscribed' \subseteq Topics
    BY <1>16, <2>2 DEF CallGoesOn, TypeOK
  <2>. QED
    BY <1>16, <2>1, <2>3, <2>4 DEF CallGoesOn, TypeOK
<1>17. CASE UNCHANGED vars
  BY <1>17 DEF vars, TypeOK
<1>. QED
  BY <1>1, <1>2, <1>3, <1>4, <1>5, <1>6, <1>7, <1>8, <1>10, <1>11, <1>12, <1>13, <1>14,
     <1>15, <1>16, <1>17 DEF Next

-------------------------------------------------------------------------------
(***************************************************************************)
(* Every step keeps the peers of advertisements half way known.            *)
(***************************************************************************)
LEMMA WorkerStep == RegistryInv /\ [Next]_vars => WorkerKnown'
<1> SUFFICES ASSUME RegistryInv, [Next]_vars PROVE WorkerKnown'
  OBVIOUS
<1> USE DEF peerVars, localVars, reliableVars
<1>0. TypeOK /\ WorkerKnown
  BY DEF RegistryInv
<1>1. ASSUME worker' = worker, participants \ expired \subseteq participants' \ expired'
      PROVE  WorkerKnown'
  BY <1>0, <1>1 DEF WorkerKnown
<1>2. ASSUME NEW p \in Peers, ReceiveHeartbeat(p) PROVE WorkerKnown'
  <2>1. p \in Senders
    BY DEF Senders
  <2>. QED
    BY <1>0, <1>1, <1>2, <2>1, HeartbeatTypes DEF ReceiveHeartbeat
<1>3. ASSUME NEW p \in Peers, Expire(p) PROVE WorkerKnown'
  <2>1. worker' = worker /\ participants' = participants /\ expired' = expired \cup {p}
    BY <1>3 DEF Expire
  <2>2. \A s \in Shards : ~(worker[s] # Idle /\ worker[s][1] = p)
    BY <1>3 DEF Expire, HalfWay
  <2>. QED
    BY <1>0, <2>1, <2>2 DEF WorkerKnown
<1>4. ASSUME NEW p \in Senders, NEW t \in Topics, NEW role \in Roles,
             ReceiveAdvertisement(p, t, role)
      PROVE WorkerKnown'
  <2>1. worker' = [worker EXCEPT ![ShardOfTopic[t]] = <<p, t, role>>]
    BY <1>4 DEF ReceiveAdvertisement
  <2>2. /\ participants \ expired \subseteq participants' \ expired'
        /\ p \in Peers => p \in participants' \ expired'
    BY <1>0, <1>4, HeartbeatTypes DEF ReceiveAdvertisement
  <2>3. ASSUME NEW s \in Shards, NEW q \in Peers, worker'[s] # Idle, worker'[s][1] = q
        PROVE  q \in participants' \ expired'
    <3>1. CASE s = ShardOfTopic[t]
      BY <1>0, <2>1, <2>2, <2>3, <3>1 DEF TypeOK
    <3>2. CASE s # ShardOfTopic[t]
      BY <1>0, <2>1, <2>2, <2>3, <3>2 DEF TypeOK, WorkerKnown
    <3>. QED
      BY <3>1, <3>2
  <2>. QED
    BY <2>3 DEF WorkerKnown
<1>5. ASSUME NEW s \in Shards, handleTopicAnnouncement(s) PROVE WorkerKnown'
  <2>1. /\ worker' = [worker EXCEPT ![s] = Idle]
        /\ participants' = participants
        /\ expired' = expired
    BY <1>5 DEF handleTopicAnnouncement
  <2>2. \A r \in Shards : worker'[r] = Idle \/ worker'[r] = worker[r]
    BY <1>0, <2>1 DEF TypeOK
  <2>. QED
    BY <1>0, <2>1, <2>2 DEF WorkerKnown
<1>6. ASSUME removeTimedOutParticipants PROVE WorkerKnown'
  <2>1. CASE Evict
    <3>1. PICK out \in SUBSET expired : /\ participants' = participants \ out
                                        /\ expired' = expired \ out
      BY <2>1 DEF Evict, shouldBeRemoved
    <3>2. worker' = worker
      BY <2>1 DEF Evict
    <3>3. participants \ expired \subseteq participants' \ expired'
      BY <3>1
    <3>. QED
      BY <1>1, <3>2, <3>3
  <2>2. CASE Purge
    BY <1>1, <2>2 DEF Purge
  <2>3. CASE Prune
    BY <1>1, <2>3 DEF Prune
  <2>4. CASE Reconcile
    BY <1>1, <2>4 DEF Reconcile
  <2>. QED
    BY <1>6, <2>1, <2>2, <2>3, <2>4 DEF removeTimedOutParticipants
<1>7. ASSUME NEW p \in Peers,
             \/ ReceiveReliableFrame(p) \/ Leave(p)
             \/ \E t \in Topics, role \in Roles : ReceiveBareAdvertisement(p, t, role)
      PROVE WorkerKnown'
  BY <1>1, <1>7 DEF ReceiveReliableFrame, Leave, ReceiveBareAdvertisement
<1>8. ASSUME NEW t \in Topics, NEW reliable \in Qos,
             \/ registerPublisherTopic(t, reliable)
             \/ registerSubscriberTopic(t, reliable)
             \/ registerSubscriberCallback(t, reliable)
      PROVE WorkerKnown'
  BY <1>1, <1>8 DEF registerPublisherTopic, registerSubscriberTopic,
                    registerSubscriberCallback
<1>9. ASSUME NEW t \in Topics,
             unregisterPublisherTopic(t) \/ subscribe(t) \/ unregisterSubscriberTopic(t)
      PROVE WorkerKnown'
  BY <1>1, <1>9 DEF unregisterPublisherTopic, subscribe, unregisterSubscriberTopic
<1>10. ASSUME CallGoesOn PROVE WorkerKnown'
  BY <1>1, <1>10 DEF CallGoesOn
<1>11. CASE UNCHANGED vars
  BY <1>1, <1>11 DEF vars
<1>. QED
  BY <1>2, <1>3, <1>4, <1>5, <1>6, <1>7, <1>8, <1>9, <1>10, <1>11 DEF Next

-------------------------------------------------------------------------------
(***************************************************************************)
(* No step leaves a ghost.                                                 *)
(***************************************************************************)
LEMMA GhostStep == RegistryInv /\ [Next]_vars => NoGhosts'
<1> SUFFICES ASSUME RegistryInv, [Next]_vars,
                    NEW t \in Topics, NEW p \in Peers, Lists(t, p)'
             PROVE  p \in participants' \/ WillPurge(t, p)'
  BY DEF NoGhosts
<1> DEFINE Goal == p \in participants' \/ WillPurge(t, p)'
<1> USE DEF peerVars, localVars, reliableVars
<1>0. TypeOK /\ WorkerKnown /\ (Lists(t, p) => p \in participants \/ WillPurge(t, p))
  BY DEF RegistryInv, NoGhosts
\* A step that evicts nobody, lists nobody and leaves the cleaner alone.
<1>1. ASSUME participants \subseteq participants', cleaner' = cleaner,
             Lists(t, p)' => Lists(t, p)
      PROVE  Goal
  BY <1>0, <1>1 DEF WillPurge
<1>2. ASSUME participants \subseteq participants', cleaner' = cleaner, topics' = topics
      PROVE  Goal
  BY <1>1, <1>2 DEF Lists
<1>3. ASSUME NEW q \in Peers,
             \/ ReceiveHeartbeat(q) \/ ReceiveReliableFrame(q) \/ Expire(q) \/ Leave(q)
             \/ \E u \in Topics, role \in Roles : ReceiveBareAdvertisement(q, u, role)
      PROVE  Goal
  BY <1>2, <1>3 DEF ReceiveHeartbeat, handleParticipantHeartbeat, ReceiveReliableFrame,
                    Expire, Leave, ReceiveBareAdvertisement
<1>4. ASSUME NEW q \in Senders, NEW u \in Topics, NEW role \in Roles,
             ReceiveAdvertisement(q, u, role)
      PROVE  Goal
  BY <1>2, <1>4 DEF ReceiveAdvertisement, handleParticipantHeartbeat
<1>5. ASSUME NEW s \in Shards, handleTopicAnnouncement(s) PROVE Goal
  <2>1. PICK q \in Senders, u \in Topics, role \in Roles : worker[s] = <<q, u, role>>
    BY <1>0, <1>5 DEF handleTopicAnnouncement, TypeOK, Advertisements
  <2>2. /\ topics' = [topics EXCEPT ![u] = Announced(@, q, role)]
        /\ participants' = participants
        /\ cleaner' = cleaner
    BY <1>5, <2>1 DEF handleTopicAnnouncement
  <2>3. CASE p = q
    <3>1. p \in participants
      <4>1. worker[s][1] = p
        BY <2>1, <2>3
      <4>2. worker[s] # Idle
        BY <1>5 DEF handleTopicAnnouncement
      <4>. QED
        BY <1>0, <4>1, <4>2 DEF WorkerKnown
    <3>. QED
      BY <2>2, <3>1
  <2>4. CASE p # q
    <3>1. CASE t = u
      <4>1. topics[t] \in Entries /\ (topics[t].present \/ topics[t] = Absent)
        BY <1>0 DEF TypeOK
      <4>2. topics'[t] = Announced(topics[t], q, role)
        BY <1>0, <2>2, <3>1 DEF TypeOK
      <4>3. p \in Announced(topics[t], q, role).publishers
                    \cup Announced(topics[t], q, role).subscribers
        BY <4>2 DEF Lists
      <4>4. Lists(t, p)
        BY <2>4, <4>1, <4>3, AnnouncedEntry DEF Lists
      <4>. QED
        BY <1>1, <2>2, <4>4
    <3>2. CASE t # u
      <4>1. topics'[t] = topics[t]
        BY <1>0, <2>2, <3>2 DEF TypeOK
      <4>. QED
        BY <1>1, <2>2, <4>1 DEF Lists
    <3>. QED
      BY <3>1, <3>2
  <2>. QED
    BY <2>3, <2>4
<1>6. /\ N \in Nat \ {0}
      /\ ShardOfTopic[t] \in Shards
      /\ cleaner.shard \in Shards
      /\ DOMAIN cleaner = {"phase", "shard", "stale"}
  BY <1>0, ShardsAssumption DEF TypeOK, Shards
<1>7. CASE Evict
  <2> DEFINE out == {q \in participants :
                       ShardOfPeer[q] = cleaner.shard /\ shouldBeRemoved(q)}
  <2>1. /\ cleaner.phase = "evict"
        /\ participants' = participants \ out
        /\ cleaner' = [Onward("purge") EXCEPT !.stale = @ \cup out]
        /\ topics' = topics
    BY <1>7 DEF Evict, In
  <2> HIDE DEF out
  <2>2. cleaner'.stale = cleaner.stale \cup out
    BY <1>0, <2>1 DEF Onward, TypeOK
  <2>3. \/ cleaner'.phase = "evict"
        \/ cleaner'.phase = "purge" /\ cleaner'.shard = 1
    BY <1>0, <2>1 DEF Onward, TypeOK
  <2>4. cleaner'.phase = "purge" => cleaner'.shard <= ShardOfTopic[t]
    BY <1>6, <2>3 DEF Shards
  <2>5. p \in participants \/ p \in cleaner.stale
    BY <1>0, <2>1 DEF Lists, WillPurge
  <2>6. CASE p \in participants'
    BY <2>6
  <2>7. CASE p \in cleaner'.stale
    BY <2>3, <2>4, <2>7 DEF WillPurge
  <2>. QED
    BY <2>1, <2>2, <2>5, <2>6, <2>7
<1>8. CASE Purge
  <2>1. /\ cleaner.phase = "purge"
        /\ topics' = [u \in Topics |-> IF ShardOfTopic[u] = cleaner.shard
                                       THEN Purged(topics[u], cleaner.stale) ELSE topics[u]]
        /\ cleaner' = Onward("prune")
        /\ participants' = participants
    BY <1>8 DEF Purge, In
  <2>2. CASE ShardOfTopic[t] = cleaner.shard
    <3>1. topics[t] \in Entries /\ (topics[t].present \/ topics[t] = Absent)
          /\ cleaner.stale \in SUBSET Peers
      BY <1>0 DEF TypeOK
    <3>2. topics'[t] = Purged(topics[t], cleaner.stale)
      BY <2>1, <2>2
    <3>3. p \in Purged(topics[t], cleaner.stale).publishers
                  \cup Purged(topics[t], cleaner.stale).subscribers
      BY <3>2 DEF Lists
    <3>4. p \notin cleaner.stale /\ Lists(t, p)
      BY <3>1, <3>3, PurgedEntry DEF Lists
    <3>. QED
      BY <1>0, <2>1, <3>4 DEF WillPurge
  <2>3. CASE ShardOfTopic[t] # cleaner.shard
    <3>1. Lists(t, p)
      BY <2>1, <2>3 DEF Lists
    <3>2. CASE p \in participants
      BY <2>1, <3>2
    <3>3. CASE WillPurge(t, p)
      <4>1. p \in cleaner.stale /\ cleaner.shard < ShardOfTopic[t]
        BY <1>6, <2>1, <2>3, <3>3 DEF WillPurge, Shards
      <4>2. cleaner.shard < N
        BY <1>6, <4>1 DEF Shards
      <4>3. cleaner' = [cleaner EXCEPT !.shard = @ + 1]
        BY <2>1, <4>2 DEF Onward
      <4>4. /\ cleaner'.stale = cleaner.stale
            /\ cleaner'.phase = "purge"
            /\ cleaner'.shard = cleaner.shard + 1
        BY <1>6, <2>1, <4>3
      <4>5. cleaner'.shard <= ShardOfTopic[t]
        BY <1>6, <4>1, <4>4 DEF Shards
      <4>. QED
        BY <4>1, <4>4, <4>5 DEF WillPurge
    <3>. QED
      BY <1>0, <3>1, <3>2, <3>3
  <2>. QED
    BY <2>2, <2>3
<1>9. CASE Prune \/ Reconcile
  <2>1. topics' = topics /\ participants' = participants /\ ~WillPurge(t, p)
    BY <1>9 DEF Prune, Reconcile, In, WillPurge
  <2>. QED
    BY <1>0, <2>1 DEF Lists
<1>10. ASSUME NEW u \in Topics, NEW e \in Entries,
              topics' = [topics EXCEPT ![u] = e],
              participants' = participants, cleaner' = cleaner,
              e.publishers \subseteq topics[u].publishers,
              e.subscribers \subseteq topics[u].subscribers
       PROVE  Goal
  <2>1. Lists(t, p)' => Lists(t, p)
    <3>1. CASE t = u
      <4>1. topics'[t] = e
        BY <1>0, <1>10, <3>1 DEF TypeOK
      <4>. QED
        BY <1>10, <3>1, <4>1 DEF Lists
    <3>2. CASE t # u
      <4>1. topics'[t] = topics[t]
        BY <1>0, <1>10, <3>2 DEF TypeOK
      <4>. QED
        BY <4>1 DEF Lists
    <3>. QED
      BY <3>1, <3>2
  <2>. QED
    BY <1>1, <1>10, <2>1
<1>11. ASSUME NEW u \in Topics
       PROVE  /\ EntryOf(u) \in Entries
              /\ EntryOf(u).publishers = topics[u].publishers
              /\ EntryOf(u).subscribers = topics[u].subscribers
  BY <1>0, AbsentIsEntry DEF TypeOK, EntryOf, NewEntry, Absent
<1>12. ASSUME NEW u \in Topics, NEW reliable \in BOOLEAN
       PROVE  LET e == [EntryOf(u) EXCEPT !.reliable = reliable]
                  f == [EntryOf(u) EXCEPT !.reliable = reliable, !.callbacks = TRUE]
              IN  /\ e \in Entries
                  /\ e.publishers \subseteq topics[u].publishers
                  /\ e.subscribers \subseteq topics[u].subscribers
                  /\ f \in Entries
                  /\ f.publishers \subseteq topics[u].publishers
                  /\ f.subscribers \subseteq topics[u].subscribers
  BY <1>11 DEF Entries
<1>13. ASSUME NEW u \in Topics, NEW reliable \in Qos,
              \/ registerPublisherTopic(u, reliable)
              \/ registerSubscriberTopic(u, reliable)
              \/ registerSubscriberCallback(u, reliable)
       PROVE  Goal
  <2>1. reliable \in BOOLEAN
    BY DEF Qos
  <2>2. /\ participants' = participants
        /\ cleaner' = cleaner
        /\ \/ topics' = [topics EXCEPT ![u] = [EntryOf(u) EXCEPT !.reliable = reliable]]
           \/ topics' = [topics EXCEPT ![u] = [EntryOf(u) EXCEPT !.reliable = reliable,
                                                                 !.callbacks = TRUE]]
    BY <1>13 DEF registerPublisherTopic, registerSubscriberTopic, registerSubscriberCallback
  <2>. QED
    BY <1>10, <1>12, <2>1, <2>2
<1>14. ASSUME NEW u \in Topics,
              unregisterPublisherTopic(u) \/ subscribe(u) \/ unregisterSubscriberTopic(u)
       PROVE  Goal
  <2>1. topics[u] \in Entries
    BY <1>0 DEF TypeOK
  <2>2. PICK e \in {topics[u], Absent, [topics[u] EXCEPT !.callbacks = TRUE],
                    [topics[u] EXCEPT !.callbacks = FALSE]} :
          topics' = [topics EXCEPT ![u] = e]
    BY <1>14, <2>1 DEF unregisterPublisherTopic, DroppedUnlessCallbacks, subscribe,
                       unregisterSubscriberTopic
  <2>3. /\ e \in Entries
        /\ e.publishers \subseteq topics[u].publishers
        /\ e.subscribers \subseteq topics[u].subscribers
    <3>1. CASE e = Absent
      BY <3>1, AbsentIsEntry DEF Absent
    <3>2. CASE e # Absent
      BY <2>1, <3>2 DEF Entries
    <3>. QED
      BY <3>1, <3>2
  <2>4. participants' = participants /\ cleaner' = cleaner
    BY <1>14 DEF unregisterPublisherTopic, subscribe, unregisterSubscriberTopic
  <2>. QED
    BY <1>10, <2>2, <2>3, <2>4
<1>15. CASE CallGoesOn
  <2>1. participants' = participants /\ cleaner' = cleaner
    BY <1>15 DEF CallGoesOn
  <2>2. Head(api).topic \in Topics /\ Head(api).reliable \in BOOLEAN
    <3>1. Head(api) \in Sections
      BY <1>0, <1>15 DEF CallGoesOn, TypeOK
    <3>. QED
      BY <3>1 DEF Sections
  <2>3. \/ topics' = topics
        \/ topics' = [topics EXCEPT ![Head(api).topic] =
                        [EntryOf(Head(api).topic) EXCEPT !.reliable = Head(api).reliable]]
    BY <1>15 DEF CallGoesOn
  <2>. QED
    BY <1>2, <1>10, <1>12, <2>1, <2>2, <2>3
<1>16. CASE UNCHANGED vars
  BY <1>2, <1>16 DEF vars
<1>17. Goal
  BY <1>3, <1>4, <1>5, <1>7, <1>8, <1>9, <1>13, <1>14, <1>15, <1>16
     DEF Next, removeTimedOutParticipants
<1>. QED
  BY <1>17
-------------------------------------------------------------------------------
(***************************************************************************)
(* No step drops the callbacks of a topic that is subscribed to.           *)
(***************************************************************************)
LEMMA SurvivesStep == RegistryInv /\ [Next]_vars => SubscriptionSurvives'
<1> SUFFICES ASSUME RegistryInv, [Next]_vars, NEW t \in subscribes'
             PROVE  topics'[t].present /\ topics'[t].callbacks
  BY DEF SubscriptionSurvives
<1> DEFINE Goal == topics'[t].present /\ topics'[t].callbacks
<1> USE DEF peerVars, localVars, reliableVars
<1>0. /\ TypeOK
      /\ t \in Topics
      /\ t \in subscribes => topics[t].present /\ topics[t].callbacks
  <2>1. TypeOK'
    BY TypeStep DEF RegistryInv
  <2>. QED
    BY <2>1 DEF RegistryInv, SubscriptionSurvives, TypeOK
<1>1. ASSUME subscribes' = subscribes, topics' = topics PROVE Goal
  BY <1>0, <1>1
\* An entry with callbacks is present: the entry of an absent key has none.
<1>2. ASSUME subscribes' = subscribes, topics'[t].callbacks,
             topics'[t].present \/ topics'[t] = Absent
      PROVE  Goal
  BY <1>2 DEF Absent
<1>3. ASSUME NEW q \in Peers,
             \/ ReceiveHeartbeat(q) \/ ReceiveReliableFrame(q) \/ Expire(q) \/ Leave(q)
             \/ \E u \in Topics, role \in Roles : ReceiveBareAdvertisement(q, u, role)
      PROVE  Goal
  BY <1>1, <1>3 DEF ReceiveHeartbeat, ReceiveReliableFrame, Expire, Leave,
                    ReceiveBareAdvertisement
<1>4. ASSUME NEW q \in Senders, NEW u \in Topics, NEW role \in Roles,
             ReceiveAdvertisement(q, u, role)
      PROVE  Goal
  BY <1>1, <1>4 DEF ReceiveAdvertisement
<1>5. topics[t] \in Entries /\ (topics[t].present \/ topics[t] = Absent)
  BY <1>0 DEF TypeOK
<1>6. ASSUME NEW s \in Shards, handleTopicAnnouncement(s) PROVE Goal
  <2>1. PICK q \in Senders, u \in Topics, role \in Roles : worker[s] = <<q, u, role>>
    BY <1>0, <1>6 DEF handleTopicAnnouncement, TypeOK, Advertisements
  <2>2. /\ topics' = [topics EXCEPT ![u] = Announced(@, q, role)]
        /\ subscribes' = subscribes
    BY <1>6, <2>1 DEF handleTopicAnnouncement
  <2>3. CASE t = u
    <3>1. topics'[t] = Announced(topics[t], q, role)
      BY <1>0, <2>2, <2>3 DEF TypeOK
    <3>2. topics[t].callbacks
      BY <1>0, <2>2
    <3>3. topics'[t].callbacks /\ (topics'[t].present \/ topics'[t] = Absent)
      BY <1>5, <3>1, <3>2, AnnouncedEntry
    <3>. QED
      BY <1>2, <2>2, <3>3
  <2>4. CASE t # u
    BY <1>0, <2>2, <2>4 DEF TypeOK
  <2>. QED
    BY <2>3, <2>4
<1>7. CASE Evict \/ Prune \/ Reconcile
  BY <1>1, <1>7 DEF Evict, Prune, Reconcile
<1>8. CASE Purge
  <2>1. /\ topics' = [u \in Topics |-> IF ShardOfTopic[u] = cleaner.shard
                                       THEN Purged(topics[u], cleaner.stale) ELSE topics[u]]
        /\ subscribes' = subscribes
    BY <1>8 DEF Purge
  <2>2. CASE ShardOfTopic[t] = cleaner.shard
    <3>1. topics'[t] = Purged(topics[t], cleaner.stale)
      BY <1>0, <2>1, <2>2
    <3>2. cleaner.stale \in SUBSET Peers /\ topics[t].callbacks
      BY <1>0, <2>1 DEF TypeOK
    <3>3. topics'[t].callbacks /\ (topics'[t].present \/ topics'[t] = Absent)
      BY <1>5, <3>1, <3>2, PurgedEntry
    <3>. QED
      BY <1>2, <2>1, <3>3
  <2>3. CASE ShardOfTopic[t] # cleaner.shard
    BY <1>0, <2>1, <2>3
  <2>. QED
    BY <2>2, <2>3
<1>9. ASSUME NEW u \in Topics, NEW reliable,
             subscribes' = subscribes,
             topics' = [topics EXCEPT ![u] = [EntryOf(u) EXCEPT !.reliable = reliable]]
      PROVE  Goal
  <2>1. CASE t = u
    <3>1. topics'[t] = [topics[t] EXCEPT !.reliable = reliable]
      BY <1>0, <1>9, <2>1 DEF EntryOf, TypeOK
    <3>. QED
      BY <1>0, <1>5, <1>9, <3>1 DEF Entries
  <2>2. CASE t # u
    BY <1>0, <1>9, <2>2 DEF TypeOK
  <2>. QED
    BY <2>1, <2>2
<1>10. ASSUME NEW u \in Topics, NEW reliable \in Qos,
              registerPublisherTopic(u, reliable) \/ registerSubscriberTopic(u, reliable)
       PROVE  Goal
  BY <1>9, <1>10 DEF registerPublisherTopic, registerSubscriberTopic
<1>11. ASSUME NEW u \in Topics, NEW reliable \in Qos, registerSubscriberCallback(u, reliable)
       PROVE  Goal
  <2>1. /\ topics' = [topics EXCEPT ![u] = [EntryOf(u) EXCEPT !.reliable = reliable,
                                                              !.callbacks = TRUE]]
        /\ subscribes' = subscribes \cup {u}
    BY <1>11 DEF registerSubscriberCallback
  <2>2. CASE t = u
    <3>1. EntryOf(u) \in Entries /\ EntryOf(u).present
      BY <1>0, AbsentIsEntry DEF EntryOf, TypeOK, NewEntry, Absent
    <3>2. topics'[t] = [EntryOf(u) EXCEPT !.reliable = reliable, !.callbacks = TRUE]
      BY <1>0, <2>1, <2>2 DEF TypeOK
    <3>. QED
      BY <3>1, <3>2 DEF Entries
  <2>3. CASE t # u
    BY <1>0, <2>1, <2>3 DEF TypeOK
  <2>. QED
    BY <2>2, <2>3
<1>12. ASSUME NEW u \in Topics, unregisterPublisherTopic(u) PROVE Goal
  <2>1. /\ topics' = [topics EXCEPT ![u] = DroppedUnlessCallbacks(@)]
        /\ subscribes' = subscribes
    BY <1>12 DEF unregisterPublisherTopic
  <2>2. topics'[t] = topics[t]
    BY <1>0, <2>1 DEF TypeOK, DroppedUnlessCallbacks
  <2>. QED
    BY <1>0, <2>1, <2>2
<1>13. ASSUME NEW u \in Topics, subscribe(u) PROVE Goal
  <2>1. /\ topics' = [topics EXCEPT ![u].callbacks = TRUE]
        /\ subscribes' = subscribes \cup {u}
        /\ topics[u].present
    BY <1>13 DEF subscribe
  <2>2. CASE t = u
    <3>1. topics'[t] = [topics[t] EXCEPT !.callbacks = TRUE]
      BY <1>0, <2>1, <2>2 DEF TypeOK
    <3>. QED
      BY <1>5, <2>1, <2>2, <3>1 DEF Entries
  <2>3. CASE t # u
    BY <1>0, <2>1, <2>3 DEF TypeOK
  <2>. QED
    BY <2>2, <2>3
<1>14. ASSUME NEW u \in Topics, unregisterSubscriberTopic(u) PROVE Goal
  <2>1. t # u /\ t \in subscribes
    BY <1>14 DEF unregisterSubscriberTopic
  <2>2. topics'[t] = topics[t]
    BY <1>0, <1>14, <2>1 DEF TypeOK, unregisterSubscriberTopic
  <2>. QED
    BY <1>0, <2>1, <2>2
<1>15. CASE CallGoesOn
  <2>1. subscribes' = subscribes
    BY <1>15 DEF CallGoesOn
  <2>2. Head(api).topic \in Topics
    <3>1. Head(api) \in Sections
      BY <1>0, <1>15 DEF CallGoesOn, TypeOK
    <3>. QED
      BY <3>1 DEF Sections
  <2>3. \/ topics' = topics
        \/ topics' = [topics EXCEPT ![Head(api).topic] =
                        [EntryOf(Head(api).topic) EXCEPT !.reliable = Head(api).reliable]]
    BY <1>15 DEF CallGoesOn
  <2>. QED
    BY <1>1, <1>9, <2>1, <2>2, <2>3
<1>16. CASE UNCHANGED vars
  BY <1>1, <1>16 DEF vars
<1>17. Goal
  BY <1>3, <1>4, <1>6, <1>7, <1>8, <1>10, <1>11, <1>12, <1>13, <1>14, <1>15, <1>16
     DEF Next, removeTimedOutParticipants
<1>. QED
  BY <1>17

-------------------------------------------------------------------------------
(***************************************************************************)
(* RegistryInv holds of every behaviour: however the workers, the cleaner  *)
(* and the calls of the API interleave section by section.                 *)
(***************************************************************************)
THEOREM RegistryInvHolds == Spec => []RegistryInv
<1>1. RegistryInv /\ [Next]_vars => RegistryInv'
  <2> SUFFICES ASSUME RegistryInv, [Next]_vars PROVE RegistryInv'
    OBVIOUS
  <2>1. TypeOK'
    BY TypeStep DEF RegistryInv
  <2>2. WorkerKnown'
    BY WorkerStep
  <2>3. NoGhosts'
    BY GhostStep
  <2>4. SubscriptionSurvives'
    BY SurvivesStep
  <2>. QED
    BY <2>1, <2>2, <2>3, <2>4 DEF RegistryInv
<1>. QED
  BY InitInv, <1>1, PTL DEF Spec

\* The maps of the shards hold what they should, and never this node itself
\* (handleParticipantHeartbeat and handleTopicAnnouncement skip its own uid).
THEOREM RegistryTypes == Spec => []TypeOK
<1>1. RegistryInv => TypeOK
  BY DEF RegistryInv
<1>. QED
  BY RegistryInvHolds, <1>1, PTL

\* removeTimedOutParticipants leaves no ghost: a topic lists only peers that
\* are known, or that the pass under way will still purge from it.
THEOREM NoGhostsRemain == Spec => []NoGhosts
<1>1. RegistryInv => NoGhosts
  BY DEF RegistryInv
<1>. QED
  BY RegistryInvHolds, <1>1, PTL

\* The callbacks of a subscription last until unregisterSubscriberTopic: the
\* cleaner and unregisterPublisherTopic keep an entry that has callbacks.
THEOREM SubscriptionsSurvive == Spec => []SubscriptionSurvives
<1>1. RegistryInv => SubscriptionSurvives
  BY DEF RegistryInv
<1>. QED
  BY RegistryInvHolds, <1>1, PTL
==============================================================================
