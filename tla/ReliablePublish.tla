--------------------------- MODULE ReliablePublish ---------------------------
(***************************************************************************)
(* The reliable path end to end, for one publishing node: the send path    *)
(* tryPublishReliable with its pacing, stamping, fan-out and commit, the   *)
(* bounded outbox of each subscriber's stream, the streams' coming and     *)
(* going, and the receive window each subscriber keeps for each topic.     *)
(*                                                                         *)
(* A send holds grpcServiceMutex_ from its first line to its return, so    *)
(* there is one at a time and the server is not stopped under it; streams  *)
(* connect, drain and break between its pushes.  A stream is the queue of  *)
(* its frames, the head of which is the write in flight: SubscriberReactor *)
(* has the locks and callbacks behind it.  The end of a write and the      *)
(* client's read of the frame are one step.                                *)
(***************************************************************************)
EXTENDS RxWindow

CONSTANTS
  Subscribers,
  Topics,
  Hwm, Lwm,        \* hwmFrames_, lwmFrames_
  RateLimit,       \* reliable_send_rate_limit, 0 for none
  PresenceFrames,  \* length of snapshotParticipantData()
  Silence,         \* whether subscribers' heartbeats may time out
  MaxCalls         \* bound: the sends of a behaviour

ASSUME MarksAssumption == Hwm \in Nat \ {0} /\ Lwm \in 0..(Hwm - 1)
ASSUME LimitsAssumption ==
  /\ RateLimit \in Nat /\ PresenceFrames \in Nat /\ MaxCalls \in Nat
  /\ Silence \in BOOLEAN

VARIABLES
  serving,     \* grpcServer_ and grpcService_ are set
  tokens,      \* rateLimitTokens_, in whole frames
  registered,  \* the subscribers the registry lists for each topic
  seq,         \* reliablePublisherSeq_
  call,        \* the send in progress
  calls,       \* number of sends begun: names the payload
  up,          \* the subscribers with a registered, live stream
  queue,       \* each stream's write in flight, then its outbox_
  latched,     \* the subscribers whose stream is backpressured_
  windows,     \* each subscriber's reliableWindows_ for this publisher
  known,       \* the topics present in them
  fresh,       \* the subscribers that have this publisher marked fresh
  offered,     \* history: every frame some outbox accepted
  delivered,   \* history: the tids each subscriber's callbacks got, by topic
  orderly      \* history: every send met only sendable streams, and no
               \* subscriber has timed out

serverVars == <<serving, tokens, registered, seq, call, calls>>
streamVars == <<up, queue, latched>>
clientVars == <<windows, known, fresh, delivered>>
historyVars == <<offered, orderly>>
vars == <<serverVars, streamVars, clientVars, historyVars>>

Idle == [active |-> FALSE]
Presence == [kind |-> "presence"]
Data(t, tid, payload) == [kind |-> "data", topic |-> t, tid |-> tid, payload |-> payload]

Init ==
  /\ serving = FALSE
  /\ tokens = RateLimit
  /\ registered = [t \in Topics |-> {}]
  /\ seq = [t \in Topics |-> 0]
  /\ call = Idle
  /\ calls = 0
  /\ up = {}
  /\ queue = [s \in Subscribers |-> <<>>]
  /\ latched = {}
  /\ windows = [s \in Subscribers |-> [t \in Topics |-> NewWindow]]
  /\ known = [s \in Subscribers |-> {}]
  /\ fresh = {}
  /\ offered = {}
  /\ delivered = [s \in Subscribers |-> [t \in Topics |-> <<>>]]
  /\ orderly = TRUE

-------------------------------------------------------------------------------
(***************************************************************************)
(* The server and the registry around the send path.                       *)
(***************************************************************************)
startGrpcServer ==
  /\ ~serving /\ ~call.active
  /\ serving' = TRUE
  /\ UNCHANGED <<tokens, registered, seq, call, calls, streamVars, clientVars, historyVars>>

\* Shutdown cancels every stream; the stamps and the bucket outlive the server.
stopGrpcServer ==
  /\ serving /\ ~call.active
  /\ serving' = FALSE
  /\ up' = {}
  /\ latched' = {}
  /\ queue' = [s \in Subscribers |-> <<>>]
  /\ UNCHANGED <<tokens, registered, seq, call, calls, clientVars, historyVars>>

\* The registry learns of a subscriber of a topic.
SubscriberAnnounced(s, t) ==
  /\ s \notin registered[t]
  /\ registered' = [registered EXCEPT ![t] = @ \cup {s}]
  /\ UNCHANGED <<serving, tokens, seq, call, calls, streamVars, clientVars, historyVars>>

\* The cleaner takes a subscriber whose heartbeats stopped out of every topic;
\* its stream, if it has one, stays up.
SubscriberTimesOut(s) ==
  /\ Silence
  /\ registered' = [t \in Topics |-> registered[t] \ {s}]
  /\ orderly' = FALSE
  /\ UNCHANGED <<serving, tokens, seq, call, calls, streamVars, clientVars, offered>>

-------------------------------------------------------------------------------
(***************************************************************************)
(* The outbox of a stream.                                                 *)
(***************************************************************************)
OutboxLen(frames) == IF frames = <<>> THEN 0 ELSE Len(frames) - 1

\* Mutant: the gate opens one frame late.
SendableLate(s) == s \in up /\ s \notin latched /\ OutboxLen(queue[s]) <= Hwm

Sendable(s) == s \in up /\ s \notin latched /\ OutboxLen(queue[s]) < Hwm

\* enqueue, with the write it starts.
Enqueue(s, frame) ==
  IF Sendable(s)
  THEN queue' = [queue EXCEPT ![s] = Append(@, frame)] /\ UNCHANGED latched
  ELSE latched' = (IF s \in up THEN latched \cup {s} ELSE latched) /\ UNCHANGED queue

-------------------------------------------------------------------------------
(***************************************************************************)
(* tryPublishReliable: the returns before the fan-out.                     *)
(***************************************************************************)
MayCall ==
  /\ ~call.active
  /\ calls < MaxCalls
  /\ calls' = calls + 1

PublishNotServing ==
  /\ MayCall
  /\ ~serving
  /\ UNCHANGED <<serving, tokens, registered, seq, call, streamVars, clientVars, historyVars>>

\* The bucket after a refill of k frames, never above one second's worth.
Refilled(k) == Min({tokens + k, RateLimit})

\* Paced: the bucket is empty and what has flowed in makes no whole frame.
PublishPaced ==
  /\ MayCall
  /\ serving
  /\ RateLimit # 0
  /\ tokens = 0
  /\ UNCHANGED <<serving, tokens, registered, seq, call, streamVars, clientVars, historyVars>>

\* A call that passes the pacing ceiling pays for it, whatever comes of it.
PaysToken ==
  IF RateLimit = 0 THEN UNCHANGED tokens
  ELSE \E k \in 0..RateLimit : Refilled(k) >= 1 /\ tokens' = Refilled(k) - 1

PublishUnheard(t) ==
  /\ MayCall
  /\ serving
  /\ PaysToken
  /\ registered[t] = {}
  /\ UNCHANGED <<serving, registered, seq, call, streamVars, clientVars, historyVars>>

\* The frame does not serialize, or exceeds the MTU budget.
PublishOversized(t) ==
  /\ MayCall
  /\ serving
  /\ PaysToken
  /\ registered[t] # {}
  /\ UNCHANGED <<serving, registered, seq, call, streamVars, clientVars, historyVars>>

(***************************************************************************)
(* The tentative tid and the fan-out: one pushData per subscriber that was *)
(* registered when the registry was read.                                  *)
(***************************************************************************)

\* Mutant: the tid is consumed when the frame is stamped.
CommittedAtStart(t) == seq' = [seq EXCEPT ![t] = @ + 1]

StampedOnly(t) == UNCHANGED seq

PublishStart(t) ==
  /\ MayCall
  /\ serving
  /\ PaysToken
  /\ registered[t] # {}
  /\ orderly' = (orderly /\ \A s \in registered[t] \cap up : Sendable(s))
  /\ call' = [active |-> TRUE, frame |-> Data(t, seq[t] + 1, calls'),
              left |-> registered[t], acceptedAny |-> FALSE]
  /\ StampedOnly(t)
  /\ UNCHANGED <<serving, registered, streamVars, clientVars, offered>>

PushTo(s) ==
  /\ call.active
  /\ s \in call.left
  /\ Enqueue(s, call.frame)
  /\ call' = [call EXCEPT !.left = @ \ {s}, !.acceptedAny = @ \/ Sendable(s)]
  /\ offered' = IF Sendable(s) THEN offered \cup {call.frame} ELSE offered
  /\ UNCHANGED <<serving, tokens, registered, seq, calls, up, clientVars, orderly>>

\* Mutant: one refusal withholds the commit.
CommitsIfAllTake(c) == c.acceptedAny /\ \A s \in registered[c.frame.topic] \cap up : Sendable(s)

Commits(c) == c.acceptedAny

\* Sent if an outbox accepted the frame, and only then is its tid consumed;
\* otherwise Backpressured or NoSubscribers.
PublishReturn ==
  /\ call.active
  /\ call.left = {}
  /\ seq' = IF Commits(call) THEN [seq EXCEPT ![call.frame.topic] = call.frame.tid] ELSE seq
  /\ call' = Idle
  /\ UNCHANGED <<serving, tokens, registered, calls, streamVars, clientVars, historyVars>>

-------------------------------------------------------------------------------
(***************************************************************************)
(* A subscriber's stream.                                                  *)
(***************************************************************************)
ResetTopics(s, T) ==
  [t \in Topics |-> IF t \in T THEN Unbaselined ELSE windows[s][t]]

\* Mutant: a new stream leaves the windows as they were.
EstablishSilently(s) == UNCHANGED <<windows, fresh>>

\* noteReliableStreamEstablished.
Establish(s) ==
  /\ windows' = [windows EXCEPT ![s] = ResetTopics(s, known[s])]
  /\ fresh' = fresh \cup {s}

\* The dial is accepted: the stream registers and its presence frames are
\* enqueued; the client marks the publisher fresh before it reads.
Connect(s) ==
  /\ serving
  /\ s \notin up
  /\ up' = up \cup {s}
  /\ queue' = [queue EXCEPT ![s] = [i \in 1..Min({PresenceFrames, Hwm + 1}) |-> Presence]]
  /\ latched' = IF PresenceFrames > Hwm + 1 THEN latched \cup {s} ELSE latched
  /\ Establish(s)
  /\ UNCHANGED <<serverVars, known, delivered, historyVars>>

\* The stream breaks: what was queued or in flight is lost.
Break(s) ==
  /\ s \in up
  /\ up' = up \ {s}
  /\ latched' = latched \ {s}
  /\ queue' = [queue EXCEPT ![s] = <<>>]
  /\ UNCHANGED <<serverVars, clientVars, historyVars>>

\* handleReliableDataFrame on a data frame.
HandleFrame(s, f) ==
  LET t == f.topic
      base == IF s \in fresh THEN ResetTopics(s, known[s] \cup {t}) ELSE windows[s]
  IN  /\ windows' = [windows EXCEPT ![s] = [base EXCEPT ![t] = Admit(base[t], f.tid)]]
      /\ delivered' = [delivered EXCEPT ![s][t] = @ \o Batch(base[t], f.tid)]
      /\ known' = [known EXCEPT ![s] = @ \cup {t}]
      /\ fresh' = fresh \ {s}

\* Mutant: the latch outlives the drain.
StaysLatched(s, rest) == TRUE

AboveLowWater(s, rest) == OutboxLen(rest) > Lwm

\* OnWriteDone: the frame in flight reaches the client, the next is written,
\* and the latch is cleared at the low-water mark.
Drain(s) ==
  /\ s \in up
  /\ queue[s] # <<>>
  /\ LET rest == Tail(queue[s])
     IN  /\ queue' = [queue EXCEPT ![s] = rest]
         /\ latched' = IF AboveLowWater(s, rest) THEN latched ELSE latched \ {s}
  /\ IF Head(queue[s]) = Presence THEN UNCHANGED clientVars
     ELSE HandleFrame(s, Head(queue[s]))
  /\ UNCHANGED <<serverVars, up, historyVars>>

-------------------------------------------------------------------------------
tryPublishReliable ==
  \/ PublishNotServing
  \/ PublishPaced
  \/ \E t \in Topics : PublishUnheard(t) \/ PublishOversized(t) \/ PublishStart(t)
  \/ \E s \in Subscribers : PushTo(s)
  \/ PublishReturn

Next ==
  \/ startGrpcServer
  \/ stopGrpcServer
  \/ \E s \in Subscribers, t \in Topics : SubscriberAnnounced(s, t)
  \/ \E s \in Subscribers : SubscriberTimesOut(s)
  \/ tryPublishReliable
  \/ \E s \in Subscribers : Connect(s) \/ Break(s) \/ Drain(s)

Spec == Init /\ [][Next]_vars

\* A client that is connected reads what is written to it.
FairSpec == Spec /\ \A s \in Subscribers : WF_vars(Drain(s))

-------------------------------------------------------------------------------
(***************************************************************************)
(* Properties.                                                             *)
(***************************************************************************)

\* Type invariant of the send and receive state.
TypeOK ==
  /\ tokens \in 0..RateLimit
  /\ registered \in [Topics -> SUBSET Subscribers]
  /\ seq \in [Topics -> 0..MaxCalls]
  /\ up \subseteq Subscribers
  /\ latched \subseteq up
  /\ \A s \in Subscribers : Len(queue[s]) <= Hwm + 1
  /\ \A s \in Subscribers : s \notin up => queue[s] = <<>>
  /\ fresh \subseteq Subscribers

(***************************************************************************)
(* Commit after acceptance: between two sends the tids of a topic that     *)
(* reached some outbox are exactly 1..seq.  No tid is skipped, so a        *)
(* subscriber that was offered everything has no hole to wait behind, and  *)
(* none that went out is stamped again.                                    *)
(***************************************************************************)
CommittedIffAccepted ==
  ~call.active => \A t \in Topics : {f.tid : f \in {g \in offered : g.topic = t}} = 1..seq[t]

(***************************************************************************)
(* A tid names one payload, although it is stamped before it is known      *)
(* whether anyone takes it, and a refused one is stamped again: otherwise  *)
(* a subscriber's dedup window would swallow the second payload.           *)
(***************************************************************************)
TidNamesOnePayload ==
  \A f, g \in offered : f.topic = g.topic /\ f.tid = g.tid => f.payload = g.payload

(***************************************************************************)
(* "delivering each distinct tid exactly-once in ascending order": over    *)
(* the whole life of a subscriber, through breaks, reconnects, server      *)
(* restarts and baseline resets, its callbacks never see a tid again nor   *)
(* an older one.                                                           *)
(***************************************************************************)
NeverTwice ==
  \A s \in Subscribers, t \in Topics :
    \A i, j \in DOMAIN delivered[s][t] : i < j => delivered[s][t][i] < delivered[s][t][j]

(***************************************************************************)
(* "A refused frame never consumes its tid, so no window gap is possible"  *)
(* (README): a stream delivers in order, so a frame that has to wait in    *)
(* the reorder buffer waits for a tid that is not coming.  Edriel.cpp      *)
(* 1789-1790 says it of reconnects: a window that comes into existence on  *)
(* a later frame "still starts unbaselined".                               *)
(***************************************************************************)
NoWindowGap ==
  \A s \in Subscribers, t \in Topics : windows[s][t].buffer = {}

(***************************************************************************)
(* What does hold of it: as long as each send finds every stream of the    *)
(* topic sendable, and no subscriber times out of the registry, no frame   *)
(* waits, through breaks, reconnects, pacing and server restarts.          *)
(***************************************************************************)
OrderlyLeavesNoGap == orderly => NoWindowGap

(***************************************************************************)
(* A frame that an outbox accepted reaches the subscriber's callbacks, or  *)
(* its stream breaks: neither the queue nor the window keeps it, but where *)
(* a send that was not orderly left a gap in front of it.                  *)
(***************************************************************************)
Carries(s, t, tid) ==
  \E i \in DOMAIN queue[s] : queue[s][i] # Presence /\ queue[s][i].topic = t /\ queue[s][i].tid = tid

AcceptedIsDelivered ==
  \A s \in Subscribers, t \in Topics, tid \in 1..MaxCalls :
    Carries(s, t, tid) ~>
      s \notin up \/ ~orderly \/ \E i \in DOMAIN delivered[s][t] : delivered[s][t][i] = tid

(***************************************************************************)
(* A backpressured subscriber becomes sendable again or goes away.         *)
(***************************************************************************)
RefusalsEnd ==
  \A s \in Subscribers : s \in latched ~> Sendable(s) \/ s \notin up
===============================================================================
