# A TLA+ specification of Edriel

Edriel is a C++ publish/subscribe library. Nodes on a LAN find each other and exchange
best-effort messages over UDP multicast, and exchange reliable messages over gRPC streams.
This directory holds TLA+ models of the parts of it where threads, locks, callbacks, lost
messages and timeouts meet, the TLC configurations that check them, and TLAPS proofs.

Paths are relative to the root of the repository (`src/` is where the sources are).

    tlc -workers 2 -config MCSpscRing.cfg MCSpscRing      # a run
    tlapm SpscRing_proofs.tla                             # the proofs of a module

## 1. The system

| Component | State | Operations | Concurrency |
|---|---|---|---|
| **Receive ring and worker** (`EdrielRing.hpp`; `autoDiscoveryWorkerLoop`, receive handler in `Edriel.cpp`) | slots, `head_`, `tail_`, `closed_`, `dropped_` | `publish`, `pop`, `tryPop`, `close` | the receiver thread publishes, one worker per shard pops and sleeps on a condition variable, `stopReceivePipeline` closes |
| **Registry** (`Edriel.cpp`, `Edriel.hpp`) | per shard: `participants`, `topics` (remote publishers and subscribers, callbacks, the reliable flag); `reliableSubscribedTopics_` | `handleParticipantHeartbeat`, `handleTopicAnnouncement`, `removeTimedOutParticipants`, `register…`/`unregister…`/`subscribe`, `sendMessage` | workers, the cleaner's strand and application threads; one mutex per shard, no operation holds two |
| **Reliable publishing** (`tryPublishReliable`) | `reliablePublisherSeq_`, the pacing bucket | pace, stamp a tentative tid, push to each subscriber, commit the tid if any accepted | one send at a time under `grpcServiceMutex_`, against streams that drain, break and connect |
| **Subscriber reactor** (`EdrielGrpcService.cpp`) | per stream: `outbox_`, the write in flight, water-mark latch, flags; the table `subscribers_` | `OnReadDone`, `OnWriteDone`, `OnCancel`, `OnDone`, `enqueue`, `pushData`, `registerSubscriber` | gRPC calls each callback on any thread; two locks, `m_` and `subsMutex_` |
| **Subscriber connections** (`EdrielReliableClient.cpp`, `reconcileReliableConnections`) | `reliableConnections_`; per connection a thread, its candidates, `connected_`, `activeCtx_`, `stop_` | `start`, `run_`, `stop`, reconcile, `stopReliableSubscriptions` | one thread per connection, cleaner and application reconcile at once; stop joins |
| **Reliable windows** (`handleReliableDataFrame`) | per publisher and topic: `nextExpected`, buffer, baseline flag; `reliableFreshPublishers_` | a frame arrives, a stream is established, windows are pruned | every connection's thread, under `reliableMutex_`, callbacks outside it |
| **Receive pipeline** (`armAutoDiscoveryReceive`, `startReceivePipeline`, `stopReceivePipeline`) | the socket, `receiverBuffer_`, pending receives, a ring and a worker per shard, `isRunning` | start, stop, receive, drain, route, publish, pop | the application's `io_context`, one worker per shard, the caller of start and stop |
| **Discovery sender** (`startAutoDiscoverySender`) | a timer, the endpoints of the heartbeat | refresh, send, set the timer | the strand, `stopAutoDiscovery` cancels |
| **Wire routing** (`tryReadRoutingKey`) | none | choose a shard | none |
| **Configuration** (`EdrielConfig.cpp`; `buildSelfEndpoints`; the water marks of the reactor) | `Config` | parse, validate, fall back; derive endpoints and marks | none |
| gRPC server start-up and shutdown | `grpcServer_`, `grpcService_` | start, stop | under `grpcServiceMutex_` |
| Network interfaces, protocol messages | none | enumerate, serialise | none of their own |

**How they interact.** The configuration fixes the number of shards, the sizes of rings and
outboxes, the timeouts and the endpoints. The sender multicasts a heartbeat with these
endpoints. A datagram goes from the receive handler, which chooses a shard from its bytes,
through the ring of the shard to that shard's worker, which updates the registry. The cleaner times peers out of the registry,
prunes the windows and reconciles the connections with what the registry lists. A
connection dials the publisher's server, which makes a reactor for the stream and registers
it in the table. `sendMessage` looks the topic up in the registry and, if it is reliable,
`tryPublishReliable` pushes the frame into the outbox of every listed subscriber. The
reactor writes it, the connection's thread reads it and hands it to the window, and the
window hands it to the callbacks.

**What is hard**, and what makes each component right:

* *Ring*: `publish` skips `notify_one` when the ring was not empty, and a full ring
  overwrites in place. No sleeping worker may miss a frame, and every frame must be popped or
  counted as dropped.
* *Registry*: an advertisement is two critical sections under two mutexes, a pass of the
  cleaner several; three parties (local publisher, local subscriber, remote peers) share one
  topic entry. Nobody may stay listed for ever, and nobody may lose what another dropped.
* *Publishing*: one subscriber accepts a frame and another refuses it. A tid is consumed
  exactly if some outbox took the frame, and never names two payloads.
* *Reactor*: reads, writes, cancels, evictions and pushes race to finish a stream and to
  free it. One `Finish` per RPC, no use after `OnDone`, and a superseded stream accepts
  nothing. The backpressure latch must be released.
* *Connections*: `stop` meets the thread anywhere, and two callers reconcile with old
  snapshots. Each connection has one owner, a join returns, and a publisher that stays
  reachable ends up connected.
* *Receive pipeline*: one datagram buffer, two ways to choose a shard, and a start or a stop
  between any two steps of the handler. A topic has one worker and keeps its order, the
  receive is armed exactly once while the node runs, and a stop drains the rings and returns.
* *Sender*: the completion of a send sets the timer of the next. A failed send may not end
  the heartbeats.
* *Configuration*: a bad value is told by a sentinel of the same type, widths and signs are
  cast, three keys stand or fall together. A value is used as documented or flagged.
* *Windows*: frames are duplicated, late, far ahead, or start over after a reconnect.
  Callbacks see ascending tids, and nothing waits for a frame that is not coming.

`PROJECT.json` lists the hazards line by line with the properties that cover them.

## 2. The modules

| Module | Models | Grain of a step |
|---|---|---|
| `LossyMailbox` | what a ring promises: a bounded sequence handed out from its head; a frame offered when it is full displaces the head, one offered after close is refused | an operation |
| `SpscRing` | `SpscRing<T>` and the worker loop | a method under `mtx_`; `pop` is split where `cv_.wait` gives the lock up |
| `BoundedStream` | what the service promises a publisher about the streams of one subscriber: one is the entry, accepts in order up to its mark, refuses until it is down at the other, writes what it accepted | an operation |
| `RxWindow` | the arithmetic of one receive window: what a frame flushes, buffers, passes over | operators, no state |
| `ReliableWindow` | `handleReliableDataFrame`, `noteReliableStreamEstablished`, the prune | the section under `reliableMutex_`; the dispatch after it, one callback at a time |
| `SubscriberReactor` | `ParticipantReactor` and the table of the service | a section under `m_` or `subsMutex_`, and the gRPC calls between them |
| `ReliablePublish` (EXTENDS `RxWindow`) | the send path over streams that are queues, into the windows of every subscriber: the composition of publishing, stream and window | a push to one subscriber |
| `ReliableConnections` | reconcile, `stopReliableSubscriptions`, `stop` and `run_` | a section under `reliableConnMutex_`/`ctxMutex_`, a blocking call |
| `Registry` | peers and topics of the shards, the cleaner, the API | a section under a shard's mutex |
| `WireRouting` | the walk over a body's fields, the full decode, the shard they choose | operators, no state |
| `ReceivePipeline` (EXTENDS `WireRouting`) | socket, receive handler, rings as `LossyMailbox` promises them, workers, heartbeat timer, start and stop: the composition of routing, rings and workers | a system call, a ring operation, a step of a call of the application |
| `Configuration` | `loadConfig`, `buildSelfEndpoints`, the thresholds of an outbox | a whole call |
| `*_proofs` | the theorems about the module of that name | |
| `MC*` | instances for TLC | |

Actions and variables carry the names of the code (`publish`, `tryPop`, `OnReadFailed` for
`OnReadDone(false)`, `removeTimedOutParticipants`, `run_`). `PROJECT.json` "map" gives the
lines each definition stands for. *History* variables (marked so in the modules) record what
happened for the properties and influence nothing. A definition whose comment begins with
"Mutant:" is a plausible bug; the specification uses none of them, and for each property
checked there is one that breaks it.

**Abstractions.** Frames, endpoints, topics and peers are numbers or model values.

* `SpscRing`: a frame is its number in publishing order. Spurious wake-ups are possible.
* `SubscriberReactor`: one subscriber key, whose dials are numbered. The decision to finish
  and the call of gRPC that follows the release of `m_` are one step. Reads after the first
  heartbeat only re-arm the read and are no steps, nor are the probes that only look. The
  answer to `GetParticipantInfo` is left out.
* `ReliablePublish`: a stream is the queue of its frames; the end of a write and the read of
  the client are one step, since no property of this module tells them apart. The pacing
  bucket is counted in whole frames and refills by any amount. The mutex of the service is
  held for a whole send, so sends do not overlap and the server does not stop under one.
* `ReliableConnections`: the registry snapshot of a reconcile is read in one step (the runs
  have one publisher, so shard-by-shard reading cannot be told apart). The static peers of the
  configuration and the formatting of endpoints are left out; the deadline of a context
  has no effect on a stream and is left out; `noteReliableStreamEstablished` is in
  `ReliableWindow`. The cleaner's timer is armed again by a pass under way even if it was
  cancelled meanwhile, as in the code.
* `Registry`: a reconcile is its result (`linked`), for `ReliableConnections` has the rest.
  One application thread calls the API. A worker is one advertisement deep: the ring in
  front of it only delays. Lost datagrams are those nobody receives.
  The frames in front of a worker are in `ReceivePipeline`.
  One timing assumption: the participant timeout, which is seconds, does not elapse between
  the two sections of one advertisement, which take microseconds (`HalfWay` in `Expire`).
* `WireRouting`: a body is a sequence of fields, and a field that is no field ("bad") stands
  for every way in which bytes can be cut short. A length near 2^64 is another form ("wrap"):
  `p + length > end` (`Edriel.cpp:130`) lets it pass and the cursor goes back, so a walk that
  meets one before it has its key may find any key, give up, or not return (`WalkWraps`,
  `Targets`, and the state "stuck" of the receive handler). Keys and uids are hashed by given
  functions.
* `ReceivePipeline`: what a handler does with its frame is `Registry`'s; here it takes some
  time. The receive handler runs on the `io_context` of the application, whose socket it is
  (`Edriel.cpp:708`); `receiverThread_` runs a `receiverIo_` without work, ends at once and
  is no part of the model. A receive may fail at any time ("failed"): the code then leaves it
  unarmed (711). A walk over a wrapped length may take the thread of the `io_context` with it,
  by a loop or by an exception, so that nothing is fair in the receiver and sender after it;
  that it may end the whole program is left out. One thread calls start and stop; a callback may call stop in the
  instance that asks about it.
* `Configuration`: a scalar is the number it denotes or `NotDecimal`; a water mark is the number
  `stod` makes of it, and whether it is written in plain decimals; an address is its octets;
  a peer is a host with or without a port. The machine words are parameters, so that casts
  wrap at a size TLC can count to. Marks are counted in eighths, and the rounding of
  `double` is left out.

## 3. The runs

Every listed property has a mutant of a mapped definition that TLC finds to violate it.

| Run | Instance | Shows |
|---|---|---|
| `ring` | 3 slots, 7 frames | `TypeOK`, `EveryFrameAccountedFor`, `InversionsAreOverwrites` (only a frame that overwrote another overtakes), `NoLostWakeup`; live: `CloseEndsWorker`; the ring implements `LossyMailbox` with its fairness |
| `window` | window 3, tids 1..5, two topics, one reader | `FrontierAboveAccepted`, `CallbacksInOrder`, `TakesOnlyNewer`, `FreshFrameIsTaken` under loss, duplication, reordering, resets, prunes |
| `reactor` | two dials, outbox of 2 | `FinishOnce`, `NoUseAfterDone` while the dials coexist; the reactors implement `BoundedStream` (`ImplementsStream`) |
| `reactor_stream` | one dial, outbox of 3, marks 2 and 1, three pushes | `WrittenInOrder`; live: `LatchClears`, `EndedStreamsAreDone` |
| `publish` | two subscribers, marks 1 and 0, three sends, pacing, time-outs, server restarts | `CommittedIffAccepted`, `TidNamesOnePayload`, `NeverTwice`, `OrderlyLeavesNoGap` (no gap as long as a send finds every stream sendable); live: `AcceptedIsDelivered`, `RefusalsEnd` |
| `connections` | a publisher that is at either of two endpoints, two connection objects, cleaner, application, stop | `OwnedByOne` |
| `connections_live` | a publisher with two endpoints at once, stop | live: `StopReturns`, `ReachableIsConnected` |
| `registry` | a peer in shard 1 and a topic in shard 2, every input | `TypeOK`, `NoGhosts`, `SubscriptionSurvives`; live: `GonePeersVanish` |
| `pipeline` | two shards, five kinds of datagram, three arrivals, two starts | `OneWorkerPerSubject`, `PerTopicOrder`, `OneReceiver` (a start brings one receive), `DrainedWhenStopped`; live: `StopReturns`, `ArrivedIsHandled` (unless the receiver is lost), `HeartbeatsGoOn` |
| `config` | about 3 000 files, three lists of interfaces | `UsedOrFlagged`, `PeersResolved`, `EndpointsInOrder`, `OutboxUsable` |
| `connections_moved` | the publisher moves without leaving | violation of `ReachableIsConnected` |
| `registry_returned` | a peer that returns during a pass of the cleaner | violation of `AnnouncedIsListed` |

`ExitLeavesNothing`, `BufferInsideWindow`, `WithinBound` and `OnlyEntryAccepts` (of which
`ImplementsStream` says more) are proved (section 5) and have no
place in a run; nor have the type invariants of the other modules, which the configurations
of section 4 can be given.

**Bounds, and why they are enough.** Seven frames fill a ring of three, overflow it more than
a lap, and still leave frames after a `close`. A window of three has a first, an inner and a
last place, and tids to five leave it at the far end by one and by two. Two dials are the
most that coexist for one key except in a chain of re-dials, whose links are pairs. An
outbox of three is the smallest with a high-water mark, a low-water mark and a place beyond
both. Two subscribers are the fewest of which one can accept what the other refuses, and
three sends allow a commit, a refusal and a retry. `MaxConns` bounds the connection objects
of a publisher that exist at once; a third waits in `Swap` until an old one is joined. Two
objects suffice for one to be retired by one caller while another caller retires its
successor. Two shards put the two sections of an advertisement under different mutexes and
give each phase of the cleaner a between. `MaxOffers`, `MaxPushes`, `MaxCalls`, `MaxTid` and
`MaxConns` are the names of the bounds in the guards, with `MaxArrivals` and `MaxStarts` of the
pipeline. There, a socket buffer of one datagram overflows while the handler is busy and
leaves one for the drain loop; three arrivals fill a ring of two while its worker is busy;
and a second start meets a socket and rings that the first stop has closed. The five kinds
of datagram are data of two topics in different shards, an advertisement of the first,
data with a length that wraps, and a datagram of no bytes: the walk over the bytes, the full
decode, a walk that is led astray, and the end of a drain. `MCEvery` adds heartbeats, data
without a type, in another field order with unknown fields, and cut short, foreign datagrams
and the merged body of section 4. The files of
`config` vary one key, or one group of keys that are read together, over the limits, their
neighbours and the ends of the words, since no two groups meet in `loadConfig` but
`grpc_port` and `peers`, which vary together. The durations and rates that their
casts change are among them, but excepted from `UsedOrFlagged` (`Fits`); what becomes of them is in
section 4. Where `CHECK_DEADLOCK FALSE` stands, the
bounded behaviours end: the frames are used up, or every stream is done.

**Fairness, and why the code justifies it.** Only weak fairness is used.

* `SpscRing`: the worker's `pop` and its dispatch. The thread is scheduled and a handler
  returns. Nobody has to publish or close.
* `SubscriberReactor`: each callback that is due, and each thread inside a call, goes on.
  gRPC runs the callbacks of completed operations, and a started write completes or fails.
  Nobody has to dial, close or publish.
* `ReliablePublish`: `Drain` of each stream, the completion of writes. A client that is
  connected reads; one that does not has a stream that breaks, which is an alternative in
  each property.
* `ReliableConnections`: the connection threads and the callers go on and the cleaner's
  timer fires. Reading a frame is the network's and is not fair, nor is anything the
  publishers, servers or application do.
* `ReceivePipeline`: the receive handler, the sends and the timer, since the application runs
  its `io_context`, as long as no walk has kept its thread; the workers; and a start or stop
  that has begun. Arrivals, starts and stops are not fair, and no receive has to fail.
* `Registry`: workers, the cleaner, and the passing of the timeout for a peer that has
  left.

## 4. Where the code and its documents disagree

Two disagreements are runs, with a finding each in `PROJECT.json`:

* `connections_moved`: a reconcile re-dials a connection whose `connected_` endpoint is no
  longer advertised. Between two dials `connected_` is empty, so the connection is kept, and
  dials the old endpoints for ever.
* `registry_returned`: the purge removes the peers chosen in the evict phase, also one that
  has come back and advertised again in between; advertisements are sent once.

More of them are kept as configurations beside the runs. Each checks one property, and TLC
finds it violated. `MCReceivePipeline_Claims` lists several that share an instance: TLC stops at the
first it finds, so leave only the one in question in it:

| Configuration | Property | What the code does |
|---|---|---|
| `MCSpscRing_Retained` | `RetainedFramesStayInOrder` | a full ring writes the newest frame where the next pop reads (`EdrielRing.hpp:68`), though "retained frames stay in order" (16). `InversionsAreOverwrites` is what does hold |
| `MCSpscRing_Oldest` | `OverflowDropsOldest` | the cursors stay, so a second overflow evicts the newest frame, not "the OLDEST" (13) |
| `MCReliableWindow_Reorder` | `ReorderDropsNothing` | arrivals 3, 1, 2 lose frame 2: the flush after 1 absorbs the hole (`Edriel.cpp:1753`; the comment at 1748 wants no frame of a genuine reorder dropped) |
| `MCReliableWindow_TwoReaders` | `CallbacksInOrder` | frames are dispatched after the mutex is released (1776): the connection being replaced and its successor call back out of order |
| `MCSubscriberReactor_Older` | `OnlyNewerSupersedes` | the table goes to the dial that reads its identity last, also an older one (`EdrielGrpcService.cpp:340`), not to "the newest live connection" |
| `MCSubscriberReactor_HalfClose` | `HalfCloseDrains` | a push accepted between the decision to finish and the finish is cut off (`EdrielGrpcService.cpp:75`) |
| `MCSubscriberReactor_OneFrame` | `LatchClears` | with an outbox of one frame the high-water mark is zero, and the latch never clears (40) |
| `MCReliablePublish_Fanout` | `NoWindowGap` | the README of the library says that a refused frame never consumes its tid "so no window gap is possible" (309). With two subscribers of which one accepts and one refuses, the tid is committed (`Edriel.cpp:1640`) and the second has a gap. `OrderlyLeavesNoGap` is what does hold: a caller whose sends find every connected stream sendable leaves none, unless a subscriber times out while its stream is up |
| `MCReliablePublish_Topics` | `OrderlyLeavesNoGap` | the first frame of any topic uses up the fresh marker (`Edriel.cpp:1687`); a second topic's window then starts at tid 1 |
| `MCReliableConnections_Reentrant` | `NoJoinCycle` | a callback that calls `startReliableSubscriptions` after its publisher left joins its own thread (1949) |
| `MCReliableConnections_Stopped` | `StoppedStaysStopped` | a reconcile that has read the registry before the stop makes connections after it (1331) |
| `MCReceivePipeline_Restart` | `BufferIsFree` | `receiverBuffer_` is "only touched by the receiver thread and never re-armed until the datagram is consumed" (`Edriel.hpp:380`). The receive handler runs on the application's `io_context` and may outlive a stop, which joins only `receiverThread_`; the next start then arms a receive on the buffer that the handler reads (`Edriel.cpp:679`). The stop has closed the socket for good, so that this receive can only fail and nothing is overwritten. `OneReceiver` is what holds of every node |
| `MCReceivePipeline_Claims` | `RestartReceives` | `stopReceivePipeline` closes the rings (`Edriel.cpp:689`) and the stop the socket (1327), and nothing opens either again: a second `startAutoDiscovery` receives nothing |
| `MCReceivePipeline_Claims` | `ReceiverStopped` | the receive handler runs on the application's `io_context`, so joining `receiverThread_` waits for nothing, and a handler may be in its drain loop after the stop, though "teardown is deterministic" (`Edriel.hpp:370`) |
| `MCReceivePipeline_Claims` | `RunningHears` | a receive that fails with "a real error" is not armed again (`Edriel.cpp:712`), while `isRunning` stays true: the node goes on advertising itself and hears nothing. A length that wraps the sum of line 130 may have the same effect |
| `MCReceivePipeline_Callback` | `NoSelfJoin` | a callback that calls `stopAutoDiscovery` joins its own worker (693); `Edriel.cpp:1173` wants callbacks free to call the API |
| `MCReceivePipeline_Claims` | `OverrunsReported` | the count of SO_RXQ_OVFL is lost when the datagram that carries it is read by `async_receive` (709), which sees no ancillary data; it waits for the next one read by `recvmsg`, though loss is "never silent" (518) |
| `MCReceivePipeline_Sender` | `SenderStops` | the completion of a send under way at the stop sets the timer again (896), and its failing sends go on |
| `MCReceivePipeline_Claims` | `OneCallbackAtATime` | callbacks of different topics run on different workers, not "on this object's strand" (`Edriel.hpp:997`) |
| `MCReceivePipeline_Merged` | `OneWorkerPerSubject` | a body with two data messages is routed by the first (`Edriel.cpp:237`) and decoded as the merge of both, though the walk is "never a correctness risk" (100); no sender of this library writes one |

The registry and the configuration have more, each found by the configuration named with
the constant changed as given, and the property as its only `INVARIANT`:

| Configuration, with | Property | What the code does |
|---|---|---|
| `MCRegistry_Returned`, `Inputs = {"bare"}` | `AnnouncedIsListed` | `registerPublisherTopic` sends a bare `TopicAdvertisement` (`Edriel.hpp:913`), the receiver decodes a `Message`, and the advertisement is dropped |
| `MCRegistry_Returned`, `Inputs = {"advertise", "publish", "unpublish"}` | `AnnouncedIsListed` | `unregisterPublisherTopic` erases an entry that lists remote peers (942), where its counterpart keeps it (1106) |
| `MCRegistry_Returned`, `Inputs = {"publish", "subscribe", "mixed"}` | `ReliableGoesReliable` | one flag per topic: a best-effort subscription makes a reliable publisher multicast (968) |
| `MCRegistry_Returned`, `Inputs = {"publish", "clean"}` | `ReliableGoesReliable` | the cleaner erases the entry of a topic this node publishes while it has no remote peers (`Edriel.cpp:1083`) |
| `MCRegistry_Returned`, `Inputs = {"advertise", "subscribe", "frame", "clean"}` | `WindowsArePruned` | windows are pruned before reconcile stops the connection that makes them (1097) |
| `MCConfiguration_Notation` | `RefusedKeepsDefault` | a water mark in scientific notation, which "is not accepted" (`EdrielConfig.cpp:121`), is taken by `std::stod` (131), as is one in hexadecimal or after blanks |
| `MCConfiguration_Ranges` | `RangesHold` | a duration of 2^63 or more is cast to a negative number of seconds and passes the upper limit (39), though "values are always valid" |
| `MCConfiguration`, `Files <- MCRates` | `RefusedKeepsDefault` | a rate is cast to 32 bits (155) and wraps. The largest legal one is taken for the sentinel (407), which `UsedOrFlagged` excepts by `Fits` |
| `MCConfiguration`, `Files <- MCManyAddresses` | `HeartbeatFits` | the cap of 64 endpoints, an "MTU guard", allows a heartbeat longer than the buffer of a receiver |
| `MCConfiguration` | `EmptyPeersAreNoFallback` | `peers:` with no value is flagged as a fallback (491), where `advertise_address:` is not (423) |

Read and not checked: the header says that `parseMaxEndpoints` falls back above the cap, and it
clamps (`EdrielConfig.cpp:59`); the comment before `parseOutboxMaxFrames` (106) speaks of a
ceiling that is not there; a missing or unparsable file does not set `fellBackToDefaults`;
the timeout and the discovery period are not compared; `isSendable` reads `grpcService_`
without the mutex that `stopGrpcServer` resets it under (`Edriel.hpp:422`); and a reliable
subscription without callbacks cannot be dropped once the cleaner has erased its entry, for
`unregisterSubscriberTopic` returns before it looks at `reliableSubscribedTopics_` (1094).

## 5. What is proved

The theorems hold for every value of the constants that satisfies the named assumptions of
the modules (`CapacityAssumption`, `WindowSizeAssumption`, `WaterMarksAssumption`,
`ShardsAssumption` and so on), which TLC evaluates in every run. Every safety property of a
passing run is the subject of a theorem. Four theorems have a hypothesis besides, which the instances of
the runs satisfy; without it each property fails, by a configuration of section 4.

| Theorem | Hypothesis | Without it |
|---|---|---|
| `CallbacksSeeOrder` | `OneReaderEach`: a publisher is read by one thread, which `OwnedByOne` gives but while a connection is replaced | `MCReliableWindow_TwoReaders` |
| `OrderlyStreamsLeaveNoGap` | `OneTopic` | `MCReliablePublish_Topics` |
| `TopicHasOneWorker`, `TopicOrderKept` | `RoutesAgree`, proved of datagrams whose fields are written once | `MCReceivePipeline_Merged` |

* **`SpscRing_proofs`**: `TypeCorrect`, `RingInvHolds`, `FramesAccounted`,
  `OrderKeptWithoutOverflow`, `NoWakeupIsLost`, `WorkerLeavesNothing`, and
  `RingImplementsMailbox`: every step of the ring is a step or a stutter of `LossyMailbox`.
  `RingInv` says that every frame offered is in exactly one place, popped, evicted, refused or
  waiting in one slot (`InOnePlace`, `NoFrameTwice`). The order of what was popped is
  inductive only together with the order of what waits (`WaitingInOrder`). The wake-up holds
  because a sleeping worker has an empty, open ring, so that notifying only on an empty ring
  is enough.
* **`ReliableWindow_proofs`**: `WindowInvHolds`, `BufferBounded`, `FrontierHolds`,
  `TakenOnceInOrder`, `FreshIsTaken`, `CallbacksSeeOrder`. `WindowInv` says that `nextExpected` is above all that was accepted
  since the baseline, that the buffer lies between it and the far end of the window, and that
  nothing was taken from a publisher that is marked fresh (`FreshIsUntouched`): without the
  last, the baseline a fresh frame sets could be below what was accepted before it.
  Frames are handed to callbacks after the lock is released, and a reset or a prune may come
  between: `DispatchInv` says that what a reader has yet to hand out is its own publishers'
  (`PendingOfReader`), ascends (`PendingAscends`) and, unless a reset forgot it, is above what
  was handed out (`PendingAboveHanded`). That a flushed batch ascends and leaves nothing out
  is `AscendingEnumerates`: a finite set of naturals can be enumerated, for the smallest that
  could not would still have a greatest element to take away.
* **`SubscriberReactor_proofs`**: `ReactorInvHolds`, `ReactorTypes`, `FramesWrittenInOrder`,
  `OutboxWithinBound`, `OneFinish`, `PushNeverUsesDone`, `SupersededAcceptsNothing`, and
  `ReactorImplementsStream`: every step of the reactors, the table and a push is a step or a
  stutter of `BoundedStream`, where a stream is over as soon as its reactor is dead, what it
  holds is the write in flight and the outbox, and what it has written are the completed writes.
  `ReactorInv` joins the queue (what was accepted is what was written, is in flight and
  waits; the outbox is not above its mark) with the table: `subsMutex_` is held over the whole
  push, so its reactor stays the entry (`PushHoldsEntry`); a reactor is registered before it
  enqueues, and whoever takes its place has marked it first (`RegisteredOrDead`,
  `EvicteeIsDead`); and only a closed reactor is done (`EntryIsKnown`). The refinement needs
  `EntersOnce` as well: a reactor that has yet to register is not in the table and has accepted
  nothing, so that no stream becomes the entry twice.
* **`Registry_proofs`**: `RegistryInvHolds`, `RegistryTypes`, `NoGhostsRemain`,
  `SubscriptionsSurvive`. `NoGhosts` needs `WorkerKnown`: the peer a worker is about to
  list, in the second section of an advertisement, is known and not expired, so the
  cleaner has not evicted it in between. This is where the timing assumption is used.
* **`ReliablePublish_proofs`**: `CommitFollowsAcceptance`, `TidIsOnePayload`,
  `DeliveredAtMostOnce`, `OrderlyStreamsLeaveNoGap`. `SendInv` tells
  the send in progress from the rest: its frame has the tid after the committed ones and is the
  only frame that may be out without being committed (`Tentative`, `TakenIsCommitted`), and
  every committed tid was taken (`CommittedIsTaken`). A frame that is taken therefore never
  meets another one with its tid, however often the tid was stamped and refused before.
  For the order of deliveries, a reset makes a window forget; `StreamInv` therefore relates
  all stations of a tid on its way to one subscriber (`InOrder`): what was delivered ascends,
  what is buffered is above it, what is queued ascends and is above both, and nothing is above
  the latest tid that the subscriber can have been pushed (`Latest`: the committed one, or the
  tentative one once the push has passed it). `OrderlyInv` adds that while every send found
  its streams sendable the queue holds the last tids without a hole and goes on where the
  window ends (`InTurn`), and that a stream which was pushed one frame is pushed the next
  (`Served`).
* **`ReliableConnections_proofs`**: `ConnectionHasOneOwner`. `OwnInv` has a connection in the
  table or with one caller, never both (`Ownership`), and what a caller may hold where it is
  (`Holdings`: nothing before the swap, nothing to stop but between `cancel` and `join`). The
  swap and the stop of all are one lemma (`TakenOut`): entries go from the table to a caller
  that held nothing, and only free slots are filled. That the slot chosen is free rests on
  every non-empty set of naturals having a least element, which is proved from the
  well-foundedness of strict inclusion between finite sets.
* **`ReceivePipeline_proofs`**: `PipelineTypes`, `ReceiverIsOne`, `StopDrains`,
  `TopicHasOneWorker`, `TopicOrderKept`, `WrittenOnceRoutesAgree`. `LifeInv`: the socket is open only up to the first
  stop, and nothing is armed or handled before a start has come to it; a worker
  that is absent has a closed ring or one that nobody has published into yet; and a stop has
  closed the rings it has passed and joined the workers it has passed. `ReceivesInv`, on top of
  it, counts the receives that are pending, the one in its handler and the one that a start under
  way has yet to arm: they are no more than the starts. `OrderInv`: datagrams
  are numbered as they arrive; those in rings and handlers are older than `receiverBuffer_`,
  which is older than the socket buffer (`SocketInOrder`); each is with one shard
  (`ShardsApart`), one its kind may go to (`InOwnShard`); and in a ring, or between a handler and its ring, only a datagram that took
  another's place comes before an older one (`RingInOrder`, `FrameBeforeRing`).
  A datagram that leads the walk astray may go to any shard, but it does not decode, so it is
  about no subject; what decodes has one way to go (`DecodedGoesOneWay`). The theorems about
  topics assume `RoutesAgree`: datagrams about one subject that are not dropped go to one
  shard. `WrittenOnceRoutesAgree` proves it of every set of datagrams in which no field is written twice and a body
  has one content (`SentOnce`), as those of this library are, with their fields in any order,
  unknown ones between them or cut short, if no uid is a topic (`UidsAreApart`): the walk over
  the bytes gives up or has the key of the full decode (`RouteIsOfSubject`), although it stops
  as soon as it has both strings (`StringOfPrefix`). TLC finds `SentOnce` and `RoutesAgree`
  to hold of `MCDatagrams` and both to fail of `MCEvery`, for the one datagram that merges two
  data messages, which is what `MCReceivePipeline_Merged.cfg` shows.
* **`Configuration_proofs`**: `OutboxAlwaysUsable`, `WrittenIsUsedOrFlagged`,
  `PeersAlwaysResolved`, `EndpointsAlwaysInOrder`, for every width of the words (in their
  order), every limit, every default the documents accept (`DefaultsAssumption`,
  `DocumentedDefaults`) and files of any size. `ReadFromFile` is the invariant: the
  configuration is what `loadConfig` makes of the file, and nothing is advertised before.
  The rest is about that function. `ParsersAsDocumented` has a case for each key: a text that is accepted
  gives the number documented for it and never the sentinel, any other gives the sentinel, if
  the number fits the casts of the parser (`Fits`, a condition of the property for two kinds of
  key). `PlainKey` makes of it that the key is used or flagged, and `TrioTogether` that the
  outbox keys are, all three. `TrioInOrder` has the outbox in order however its keys are missing, invalid or crossed. The
  loops over lists are recursive functions; that such a function exists (`LoopRuns`) and that
  what every iteration keeps holds of all (`EveryIteration`) follow from the least
  iteration that would fail. Where an entry comes to stand is its `Rank`, the number of
  entries that are kept up to it: it grows by one with each of them (`RankGrows`), so that after
  every iteration the entries kept so far stand at their ranks, in both loops (`KeptInTurn`,
  `HeartbeatInTurn`; `AppendKeepsTurn` is one step of `buildSelfEndpoints`, whose first
  occurrences are found by `FirstExists`).

Each proof has a lemma per action (or group of actions) and conjunct, and ends with `PTL`.

**Only model-checked**: liveness under fairness, which is beyond the prover, and with it the
fair half of `LossyMailbox`.

## 6. What is not modelled, and why

* *Network interfaces*: `getifaddrs` is the operating system's; `Configuration` takes any of a
  set of lists for what it returns.
* *Protocol messages*: generated serialisation. `WireRouting` has what protobuf makes of a
  sequence of fields, as far as routing depends on it.
* *The insides of gRPC*: the server's start and stop are steps; the library serves the streams.
* *Reads of the registry*: `isKnownParticipant`, `lookupParticipantData` and
  `snapshotParticipantData` (`GetParticipantInfo`) scan the shards one lock at a time and
  change nothing; a peer that moves between two locks may be missed, and no document says
  otherwise.
* *Delivery of best-effort data to callbacks*: a copy of the list under the lock and a loop after it.
  A callback may run after `unregisterSubscriberTopic` has returned, as the code is
  written.
* *A second caller of the API*: `unregisterSubscriberTopic` erases the reliable subscription in
  a section of its own (`Edriel.hpp:1114`); a registration by another thread between the
  two is lost.
* *Static peers* (Channel D) are resolved in `Configuration`; `ReliableConnections` has
  publishers that are discovered.
* *Tests, benchmarks and examples* exercise the library and hold no state.

## 7. Plan

The modules were written in the order ring, windows, reactor, publishing, connections,
registry, routing and pipeline, configuration: from the leaf whose promise the others use to
the compositions, and then the edges of the system. What could come next:

1. *Model.* Static peers in `ReliableConnections`; a second caller of the API and the
   delivery to callbacks in `Registry`.
2. *Abstract specifications.* A reliable channel (tids ascending, nothing invented, loss only
   with a broken stream) that `ReliablePublish` implements. The streams of `ReliablePublish`
   are coarser than `BoundedStream`: its presence frames are queued with the connection, and
   the end of a write and the start of the next are one step, so that a push between the two,
   which a reactor at its mark refuses, is not there to be refused. A version with the two
   apart could be built on `BoundedStream` directly.
3. *Proofs.* That refinement.
