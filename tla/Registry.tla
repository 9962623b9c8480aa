------------------------------ MODULE Registry ------------------------------
(***************************************************************************)
(* The sharded registry of a node (Edriel.hpp, Edriel.cpp): the peers it   *)
(* hears of and the topics they and it use.  Peers live in the shard of    *)
(* their uid, topic entries in the shard of their key; each shard has one  *)
(* mutex and no operation holds two.  So an advertisement (two sections),  *)
(* a pass of the cleaner (a section per shard and phase) and a call of the *)
(* API (several sections) interleave, and each section is one action here. *)
(***************************************************************************)
EXTENDS Integers, Sequences

CONSTANTS
  Peers,        \* the other processes, by uid
  Self,         \* this process, whose packets are looped back to it
  Topics,       \* composite keys: name and message type
  N,            \* workerCount_: the number of shards
  ShardOfPeer,  \* shardIndexForUid
  ShardOfTopic, \* shardIndexForTopic
  Inputs        \* which of AllInputs the node is given

AllInputs == {"advertise", "bare", "return", "leave", "publish", "unpublish",
              "subscribe", "mixed", "frame", "clean"}

ASSUME SelfAssumption == Self \notin Peers
ASSUME ShardsAssumption ==
  /\ N \in Nat \ {0}
  /\ ShardOfPeer \in [Peers -> 1..N]
  /\ ShardOfTopic \in [Topics -> 1..N]
ASSUME InputsAssumption == Inputs \subseteq AllInputs

VARIABLES
  participants,       \* the peers in the participants maps of the shards
  expired,            \* those whose lastSeen is older than the timeout
  topics,             \* the topics maps of the shards
  reliableSubscribed, \* reliableSubscribedTopics_
  worker,             \* each worker: the advertisement it is half way through
  cleaner,            \* removeTimedOutParticipants and the reconcile after it
  api,                \* the sections an API call of the application has left
  linked,             \* publishers this node has a reliable connection to
  windows,            \* publishers with a window in reliableWindows_
  gone,               \* peers that have left for good
  heard,              \* history: what each peer advertised since it is known
  publishes,          \* history: topics registered for reliable publishing
  subscribes          \* history: topics subscribed to with a callback

vars == <<participants, expired, topics, reliableSubscribed, worker, cleaner, api,
          linked, windows, gone, heard, publishes, subscribes>>
peerVars == <<participants, expired, heard>>
localVars == <<reliableSubscribed, api, publishes, subscribes>>
reliableVars == <<linked, windows>>

Shards == 1..N
Senders == Peers \cup {Self}
Roles == {"publisher", "subscriber"}
Advertisements == Senders \X Topics \X Roles
Idle == <<>>

\* A key that is not in the map; NewEntry is what operator[] puts there.
Absent == [present |-> FALSE, reliable |-> FALSE, publishers |-> {}, subscribers |-> {},
           callbacks |-> FALSE]
NewEntry == [Absent EXCEPT !.present = TRUE]
EntryOf(t) == IF topics[t].present THEN topics[t] ELSE NewEntry

Init ==
  /\ participants = {}
  /\ expired = {}
  /\ topics = [t \in Topics |-> Absent]
  /\ reliableSubscribed = {}
  /\ worker = [s \in Shards |-> Idle]
  /\ cleaner = [phase |-> "evict", shard |-> 1, stale |-> {}]
  /\ api = <<>>
  /\ linked = {}
  /\ windows = {}
  /\ gone = {}
  /\ heard = [p \in Peers |-> {}]
  /\ publishes = {}
  /\ subscribes = {}

-------------------------------------------------------------------------------
(***************************************************************************)
(* What the workers do with the datagrams.                                 *)
(***************************************************************************)

\* handleParticipantHeartbeat: the section under the mutex of the uid's shard.
handleParticipantHeartbeat(p) ==
  IF p = Self THEN UNCHANGED <<participants, expired>>
  ELSE /\ participants' = participants \cup {p}
       /\ expired' = expired \ {p}

Alive(p) == p \notin gone /\ ("return" \in Inputs \/ p \notin expired)

ReceiveHeartbeat(p) ==
  /\ Alive(p)
  /\ worker[ShardOfPeer[p]] = Idle
  /\ handleParticipantHeartbeat(p)
  /\ UNCHANGED <<topics, localVars, worker, cleaner, reliableVars, gone, heard>>

\* An advertisement wrapped in a Message goes to the worker of its topic, which
\* registers the peer first.
ReceiveAdvertisement(p, t, role) ==
  /\ "advertise" \in Inputs
  /\ p = Self \/ Alive(p)
  /\ worker[ShardOfTopic[t]] = Idle
  /\ handleParticipantHeartbeat(p)
  /\ worker' = [worker EXCEPT ![ShardOfTopic[t]] = <<p, t, role>>]
  /\ UNCHANGED <<topics, localVars, cleaner, reliableVars, gone, heard>>

\* registerPublisherTopic and registerSubscriberTopic send the advertisement
\* itself.  The receiver decodes a Message: the fields of the inner Topic do
\* not parse as an Identifier, and the datagram is dropped.
ReceiveBareAdvertisement(p, t, role) ==
  /\ "bare" \in Inputs
  /\ Alive(p)
  /\ p \in participants
  /\ heard' = [heard EXCEPT ![p] = @ \cup {<<t, role>>}]
  /\ UNCHANGED <<participants, expired, topics, localVars, worker, cleaner,
                 reliableVars, gone>>

\* operator[] makes the entry; the peer is inserted into one of its sets.
Listing(e, p, role) ==
  LET f == IF e.present THEN e ELSE NewEntry
  IN  IF role = "publisher" THEN [f EXCEPT !.publishers = @ \cup {p}]
      ELSE [f EXCEPT !.subscribers = @ \cup {p}]

\* Mutant: this node's own advertisement, looped back, is recorded.
AnnouncedWithSelf(e, p, role) == Listing(e, p, role)

Announced(e, p, role) == IF p = Self THEN e ELSE Listing(e, p, role)

\* handleTopicAnnouncement: the section under the mutex of the topic's shard.
handleTopicAnnouncement(s) ==
  /\ worker[s] # Idle
  /\ LET p == worker[s][1]
         t == worker[s][2]
         role == worker[s][3]
     IN  /\ topics' = [topics EXCEPT ![t] = Announced(@, p, role)]
         /\ heard' = IF p \in participants
                     THEN [heard EXCEPT ![p] = @ \cup {<<t, role>>}] ELSE heard
  /\ worker' = [worker EXCEPT ![s] = Idle]
  /\ UNCHANGED <<participants, expired, localVars, cleaner, reliableVars, gone>>

\* A frame of a reliable stream makes the window of its publisher if need be.
ReceiveReliableFrame(p) ==
  /\ "frame" \in Inputs
  /\ p \in linked
  /\ windows' = windows \cup {p}
  /\ UNCHANGED <<peerVars, topics, localVars, worker, cleaner, linked, gone>>

-------------------------------------------------------------------------------
(***************************************************************************)
(* Time and the peers.  The timeout is seconds and a worker needs          *)
(* microseconds for the two sections of an advertisement, so the timeout   *)
(* does not elapse between them.                                           *)
(***************************************************************************)
HalfWay(p) == \E s \in Shards : worker[s] # Idle /\ worker[s][1] = p

Expire(p) ==
  /\ p \in participants \ expired
  /\ ~HalfWay(p)
  /\ expired' = expired \cup {p}
  /\ UNCHANGED <<participants, topics, localVars, worker, cleaner, reliableVars, gone, heard>>

Leave(p) ==
  /\ "leave" \in Inputs
  /\ p \notin gone
  /\ gone' = gone \cup {p}
  /\ UNCHANGED <<peerVars, topics, localVars, worker, cleaner, reliableVars>>

-------------------------------------------------------------------------------
(***************************************************************************)
(* removeTimedOutParticipants, on the strand: a pass over the shards that  *)
(* evicts, a pass that purges, the prune of the windows; then the          *)
(* reconcile, whose connections ReliableConnections models.                *)
(***************************************************************************)
In(phase) == "clean" \in Inputs /\ cleaner.phase = phase

\* To the next shard, or to the next phase after the last one.
Onward(phase) ==
  IF cleaner.shard < N THEN [cleaner EXCEPT !.shard = @ + 1]
  ELSE [cleaner EXCEPT !.shard = 1, !.phase = phase]

shouldBeRemoved(p) == p \in expired

Evict ==
  LET out == {p \in participants :
                ShardOfPeer[p] = cleaner.shard /\ shouldBeRemoved(p)}
  IN  /\ In("evict")
      /\ participants' = participants \ out
      /\ expired' = expired \ out
      /\ heard' = [p \in Peers |-> IF p \in out THEN {} ELSE heard[p]]
      /\ cleaner' = [Onward("purge") EXCEPT !.stale = @ \cup out]
      /\ UNCHANGED <<topics, localVars, worker, reliableVars, gone>>

\* Mutant: only the publishers of the topics are looked through.
PurgedPublishers(e, stale) ==
  LET f == [e EXCEPT !.publishers = @ \ stale]
  IN  IF f.publishers = {} /\ f.subscribers = {} /\ ~f.callbacks THEN Absent ELSE f

\* Mutant: an entry left without peers is kept as it was.
PurgedButEmpty(e, stale) ==
  IF e.publishers \cup e.subscribers \subseteq stale THEN e
  ELSE [e EXCEPT !.publishers = @ \ stale, !.subscribers = @ \ stale]

Purged(e, stale) ==
  LET f == [e EXCEPT !.publishers = @ \ stale, !.subscribers = @ \ stale]
  IN  IF f.publishers = {} /\ f.subscribers = {} /\ ~f.callbacks THEN Absent ELSE f

Purge ==
  /\ In("purge")
  /\ topics' = [t \in Topics |-> IF ShardOfTopic[t] = cleaner.shard
                                 THEN Purged(topics[t], cleaner.stale) ELSE topics[t]]
  /\ cleaner' = Onward("prune")
  /\ UNCHANGED <<peerVars, localVars, worker, reliableVars, gone>>

Prune ==
  /\ In("prune")
  /\ windows' = windows \ cleaner.stale
  /\ cleaner' = [cleaner EXCEPT !.phase = "reconcile"]
  /\ UNCHANGED <<peerVars, topics, localVars, worker, linked, gone>>

\* Publishers of the topics subscribed to reliably, if they are known.
Needed == participants \cap UNION {topics[t].publishers : t \in reliableSubscribed}

Reconcile ==
  /\ In("reconcile")
  /\ linked' = Needed
  /\ cleaner' = [phase |-> "evict", shard |-> 1, stale |-> {}]
  /\ UNCHANGED <<peerVars, topics, localVars, worker, windows, gone>>

removeTimedOutParticipants == Evict \/ Purge \/ Prune \/ Reconcile

-------------------------------------------------------------------------------
(***************************************************************************)
(* The API, called by one thread of the application.  A call is a section  *)
(* under the mutex of the topic's shard and what it leaves in api.         *)
(***************************************************************************)
Calls(input) == input \in Inputs /\ api = <<>>
Qos == IF "mixed" \in Inputs THEN BOOLEAN ELSE {TRUE}

registerPublisherTopic(t, reliable) ==
  /\ Calls("publish")
  /\ topics' = [topics EXCEPT ![t] = [EntryOf(t) EXCEPT !.reliable = reliable]]
  /\ publishes' = IF reliable THEN publishes \cup {t} ELSE publishes \ {t}
  /\ UNCHANGED <<peerVars, reliableSubscribed, api, subscribes, worker, cleaner,
                 reliableVars, gone>>

\* Mutant: the entry is dropped whatever it still holds.
DroppedAnyway(e) == Absent

DroppedUnlessCallbacks(e) == IF e.callbacks THEN e ELSE Absent

unregisterPublisherTopic(t) ==
  /\ Calls("unpublish")
  /\ topics[t].present
  /\ topics' = [topics EXCEPT ![t] = DroppedUnlessCallbacks(@)]
  /\ publishes' = publishes \ {t}
  /\ UNCHANGED <<peerVars, reliableSubscribed, api, subscribes, worker, cleaner,
                 reliableVars, gone>>

\* The section under reliableMutex_, if the subscription is reliable.
Inserts(t, reliable) ==
  IF reliable THEN << [op |-> "insert", topic |-> t, reliable |-> TRUE] >> ELSE <<>>

Registers(t, reliable) == << [op |-> "register", topic |-> t, reliable |-> reliable] >>

registerSubscriberTopic(t, reliable) ==
  /\ Calls("subscribe")
  /\ topics' = [topics EXCEPT ![t] = [EntryOf(t) EXCEPT !.reliable = reliable]]
  /\ api' = Inserts(t, reliable)
  /\ UNCHANGED <<peerVars, reliableSubscribed, publishes, subscribes, worker, cleaner,
                 reliableVars, gone>>

\* With a callback: the call goes on as registerSubscriberTopic without one.
registerSubscriberCallback(t, reliable) ==
  /\ Calls("subscribe")
  /\ topics' = [topics EXCEPT ![t] = [EntryOf(t) EXCEPT !.reliable = reliable,
                                                        !.callbacks = TRUE]]
  /\ api' = Inserts(t, reliable) \o Registers(t, reliable) \o Inserts(t, reliable)
  /\ subscribes' = subscribes \cup {t}
  /\ UNCHANGED <<peerVars, reliableSubscribed, publishes, worker, cleaner,
                 reliableVars, gone>>

subscribe(t) ==
  /\ Calls("subscribe")
  /\ topics[t].present
  /\ topics' = [topics EXCEPT ![t].callbacks = TRUE]
  /\ subscribes' = subscribes \cup {t}
  /\ UNCHANGED <<peerVars, reliableSubscribed, api, publishes, worker, cleaner,
                 reliableVars, gone>>

unregisterSubscriberTopic(t) ==
  /\ Calls("subscribe")
  /\ topics[t].present
  /\ topics' = [topics EXCEPT ![t] = IF @.publishers = {} /\ @.subscribers = {} THEN Absent
                                     ELSE [@ EXCEPT !.callbacks = FALSE]]
  /\ api' = << [op |-> "erase", topic |-> t, reliable |-> FALSE] >>
  /\ subscribes' = subscribes \ {t}
  /\ UNCHANGED <<peerVars, reliableSubscribed, publishes, worker, cleaner,
                 reliableVars, gone>>

\* The next section of the call under way.
CallGoesOn ==
  /\ api # <<>>
  /\ LET call == Head(api)
     IN  /\ topics' = IF call.op = "register"
                      THEN [topics EXCEPT ![call.topic] =
                              [EntryOf(call.topic) EXCEPT !.reliable = call.reliable]]
                      ELSE topics
         /\ reliableSubscribed' =
              CASE call.op = "insert" -> reliableSubscribed \cup {call.topic}
                [] call.op = "erase"  -> reliableSubscribed \ {call.topic}
                [] OTHER              -> reliableSubscribed
  /\ api' = Tail(api)
  /\ UNCHANGED <<peerVars, publishes, subscribes, worker, cleaner, reliableVars, gone>>

\* sendMessage: the path a message to the topic takes.
Route(t) == IF topics[t].present /\ topics[t].reliable THEN "grpc" ELSE "multicast"

-------------------------------------------------------------------------------
Next ==
  \/ \E p \in Peers :
       \/ ReceiveHeartbeat(p) \/ ReceiveReliableFrame(p) \/ Expire(p) \/ Leave(p)
       \/ \E t \in Topics, role \in Roles : ReceiveBareAdvertisement(p, t, role)
  \/ \E p \in Senders, t \in Topics, role \in Roles : ReceiveAdvertisement(p, t, role)
  \/ \E s \in Shards : handleTopicAnnouncement(s)
  \/ removeTimedOutParticipants
  \/ \E t \in Topics, reliable \in Qos :
       \/ registerPublisherTopic(t, reliable)
       \/ registerSubscriberTopic(t, reliable)
       \/ registerSubscriberCallback(t, reliable)
  \/ \E t \in Topics :
       unregisterPublisherTopic(t) \/ subscribe(t) \/ unregisterSubscriberTopic(t)
  \/ CallGoesOn

Spec == Init /\ [][Next]_vars

(***************************************************************************)
(* The workers and the strand are scheduled, the cleaner's timer fires,    *)
(* and time passes for a peer that no longer sends.                        *)
(***************************************************************************)
FairSpec ==
  /\ Spec
  /\ \A s \in Shards : WF_vars(handleTopicAnnouncement(s))
  /\ WF_vars(removeTimedOutParticipants)
  /\ \A p \in Peers : WF_vars(p \in gone /\ Expire(p))

-------------------------------------------------------------------------------
(***************************************************************************)
(* Properties.                                                             *)
(***************************************************************************)
Entries == [present : BOOLEAN, reliable : BOOLEAN, publishers : SUBSET Peers,
            subscribers : SUBSET Peers, callbacks : BOOLEAN]
Sections == [op : {"insert", "erase", "register"}, topic : Topics, reliable : BOOLEAN]

\* Type invariant of the maps of the shards (Edriel.hpp, Shard and TopicEntry):
\* this node is in none of them, and a key that is absent holds nothing.
TypeOK ==
  /\ participants \subseteq Peers
  /\ expired \subseteq participants
  /\ topics \in [Topics -> Entries]
  /\ \A t \in Topics : ~topics[t].present => topics[t] = Absent
  /\ reliableSubscribed \subseteq Topics
  /\ worker \in [Shards -> Advertisements \cup {Idle}]
  /\ cleaner \in [phase : {"evict", "purge", "prune", "reconcile"}, shard : Shards,
                  stale : SUBSET Peers]
  /\ api \in Seq(Sections)
  /\ linked \subseteq Peers
  /\ windows \subseteq Peers
  /\ gone \subseteq Peers
  /\ heard \in [Peers -> SUBSET (Topics \X Roles)]
  /\ publishes \subseteq Topics
  /\ subscribes \subseteq Topics

Lists(t, p) == p \in topics[t].publishers \cup topics[t].subscribers

\* The cleaner has evicted p and has yet to come to t.
WillPurge(t, p) ==
  /\ p \in cleaner.stale
  /\ \/ cleaner.phase = "evict"
     \/ cleaner.phase = "purge" /\ cleaner.shard <= ShardOfTopic[t]

(***************************************************************************)
(* No topic lists a peer that is not known, but for what the pass of the   *)
(* cleaner under way will remove: an entry left over would let a peer that *)
(* is gone pass isKnownParticipant for ever, since only a peer that is in  *)
(* participants can time out.  However the two sections of an              *)
(* advertisement and the passes of removeTimedOutParticipants interleave.  *)
(***************************************************************************)
NoGhosts ==
  \A t \in Topics, p \in Peers :
    Lists(t, p) => p \in participants \/ WillPurge(t, p)

(***************************************************************************)
(* A subscription with a callback lasts until it is unregistered: neither  *)
(* the cleaner, nor the peers of the topic coming and going, nor           *)
(* unregisterPublisherTopic of the same topic drops the callbacks.         *)
(***************************************************************************)
SubscriptionSurvives ==
  \A t \in subscribes : topics[t].present /\ topics[t].callbacks

Known(p) == p \in participants \/ \E t \in Topics : Lists(t, p)

(***************************************************************************)
(* A peer that has left is forgotten, and stays forgotten: its timeout     *)
(* elapses, the cleaner evicts it and purges every topic.                  *)
(***************************************************************************)
GonePeersVanish == \A p \in Peers : p \in gone ~> []~Known(p)

(***************************************************************************)
(* "Announce our publishing interest via the existing discovery path" and  *)
(* "purge every stale peer": a topic that a known peer has advertised      *)
(* since it is known lists the peer.                                       *)
(***************************************************************************)
AnnouncedIsListed ==
  \A p \in participants, t \in Topics :
    /\ <<t, "publisher">> \in heard[p] => p \in topics[t].publishers
    /\ <<t, "subscriber">> \in heard[p] => p \in topics[t].subscribers

(***************************************************************************)
(* "reliable topics go over the gRPC path": a message to a topic this node *)
(* registered for reliable publishing, and did not unregister, is not      *)
(* multicast.                                                              *)
(***************************************************************************)
ReliableGoesReliable == \A t \in publishes : Route(t) = "grpc"

(***************************************************************************)
(* "Without this the windows map grows without bound": a publisher has a   *)
(* window only if it is known or connected, or the cleaner is about to     *)
(* prune it.                                                               *)
(***************************************************************************)
WindowsArePruned ==
  windows \subseteq participants \cup linked \cup cleaner.stale
=============================================================================
