--------------------------- MODULE ReceivePipeline ---------------------------
(***************************************************************************)
(* A node's multicast side from socket to handler, and its life cycle      *)
(* (Edriel.cpp): the kernel's buffer, the receive handler with its drain   *)
(* loop, a ring and a worker per shard, the heartbeat timer, and the start *)
(* and stop that the application calls.  The socket and the timers belong  *)
(* to the io_context of the application, which runs their handlers on its  *)
(* own threads; receiverThread_ runs receiverIo_, which has no work, and   *)
(* ends at once, so it takes no part here.  The rings are what             *)
(* LossyMailbox promises, one per shard.                                   *)
(***************************************************************************)
EXTENDS WireRouting

CONSTANTS
  N,             \* workerCount_: the number of shards
  Datagrams,     \* the datagrams peers send
  Wire,          \* their content: of no bytes, has the magic number, a body
  KernelSlots,   \* how many datagrams the socket buffer holds
  RingSlots,     \* how many frames a ring holds
  MaxArrivals,   \* bound: how many datagrams reach the socket
  MaxStarts,     \* bound: how often the application starts the node
  CallbackStops  \* whether a callback may call stopAutoDiscovery

ASSUME SizesAssumption ==
  /\ N \in Nat \ {0}
  /\ KernelSlots \in Nat \ {0}
  /\ RingSlots \in Nat \ {0}
  /\ MaxArrivals \in Nat
  /\ MaxStarts \in Nat
  /\ CallbackStops \in BOOLEAN
ASSUME WireAssumption ==
  /\ Datagrams \subseteq DOMAIN Wire
  /\ \A d \in Datagrams :
       /\ Wire[d].empty \in BOOLEAN /\ Wire[d].magic \in BOOLEAN
       /\ Wire[d].empty => ~Wire[d].magic
       /\ IsList(Wire[d].body)
       /\ Route(Wire[d].body) \in 0..N

VARIABLES
  call,       \* the call of the application under way, and how far it is
  starts,     \* how often startAutoDiscovery began
  isRunning,  \* the flag the receive handler reads
  open,       \* the socket is open
  kernel,     \* the socket buffer: datagrams with the drop count they carry
  armed,      \* how many async_receive are pending
  handler,    \* the receive handler: "idle", "route" or "drain"; "failed" once a
              \* receive had an error, and "stuck" if a walk does not return
  receiverBuffer,       \* the datagram in receiverBuffer_ until it is routed
  kernelOverrunDropped, \* what the receiver believes the kernel dropped
  ring, closed,         \* each shard's ring, and whether it is closed
  worker,     \* each shard's worker: "none", "pop", "handle" or "exited"
  frame,      \* the frame each worker handles
  loops,      \* heartbeat loops: how many are sending, how many wait for the timer
  serving,    \* the gRPC server is up
  arrived,    \* history: how many datagrams reached the socket
  overruns,   \* history: how many of them the kernel dropped
  displacers  \* history: the frames in rings and handlers that took the place
              \* of another in a full ring

callVars == <<call, starts, isRunning, serving>>
socketVars == <<open, kernel, arrived, overruns>>
receiverVars == <<armed, handler, receiverBuffer, kernelOverrunDropped>>
ringVars == <<ring, closed, displacers>>
workerVars == <<worker, frame>>
vars == <<callVars, socketVars, receiverVars, ringVars, workerVars, loops>>

Shards == 1..N
App == 0       \* the application as the caller of stop; a shard is its worker
\* A datagram is what it holds and its number in the order of arrival.
Datagram == [n : 1..MaxArrivals, what : Datagrams]
Nothing == [n |-> 0, what |-> "nothing"]
Idle == [at |-> "idle", by |-> App, shard |-> 0]
Stages == {"sending", "waiting"}

Init ==
  /\ call = Idle
  /\ starts = 0
  /\ isRunning = FALSE
  /\ serving = FALSE
  /\ open = TRUE
  /\ kernel = <<>>
  /\ arrived = 0
  /\ overruns = 0
  /\ armed = 0
  /\ handler = "idle"
  /\ receiverBuffer = Nothing
  /\ kernelOverrunDropped = 0
  /\ ring = [s \in Shards |-> <<>>]
  /\ closed = [s \in Shards |-> FALSE]
  /\ displacers = {}
  /\ worker = [s \in Shards |-> "none"]
  /\ frame = [s \in Shards |-> Nothing]
  /\ loops = [stage \in Stages |-> 0]

\* Where the receiver sends each kind of datagram, if it has the magic number.
Target == [d \in Datagrams |-> IF Wire[d].magic THEN Route(Wire[d].body) ELSE Dropped]

\* The kinds whose length fields lead the walk astray, and where each may go.
Astray == {d \in Datagrams : Wire[d].magic /\ WalkWraps(Wire[d].body)}
Targets == [d \in Datagrams |-> IF d \in Astray THEN 0..N ELSE {Target[d]}]

-------------------------------------------------------------------------------
(***************************************************************************)
(* The socket.  A datagram that finds the buffer full is dropped, and each *)
(* datagram buffered carries the running total of drops (SO_RXQ_OVFL).     *)
(***************************************************************************)
Arrive(d) ==
  /\ open
  /\ arrived < MaxArrivals
  /\ arrived' = arrived + 1
  /\ IF Len(kernel) < KernelSlots
     THEN /\ kernel' = Append(kernel, [datagram |-> [n |-> arrived + 1, what |-> d],
                                       drops |-> overruns])
          /\ UNCHANGED overruns
     ELSE /\ overruns' = overruns + 1
          /\ UNCHANGED kernel
  /\ UNCHANGED <<open, callVars, receiverVars, ringVars, workerVars, loops>>

-------------------------------------------------------------------------------
(***************************************************************************)
(* The receive handler.                                                    *)
(***************************************************************************)

\* Mutant: the receive is armed again before the datagram is consumed.
ArmedBeforeDrain == IF isRunning THEN armed ELSE armed - 1

Consumed == armed - 1

\* The completion of async_receive, which sees no ancillary data.
ReceiveCompletes ==
  /\ armed > 0
  /\ handler = "idle"
  /\ open
  /\ kernel # <<>>
  /\ armed' = Consumed
  /\ receiverBuffer' = Head(kernel).datagram
  /\ kernel' = Tail(kernel)
  /\ handler' = "route"
  /\ UNCHANGED <<kernelOverrunDropped, open, arrived, overruns, callVars, ringVars,
                 workerVars, loops>>

\* The completion with an error, once the socket is closed, on any thread of
\* the io_context.
ReceiveAborts ==
  /\ armed > 0
  /\ ~open
  /\ armed' = armed - 1
  /\ UNCHANGED <<handler, receiverBuffer, kernelOverrunDropped, socketVars, callVars,
                 ringVars, workerVars, loops>>

\* The completion with "a real error" while the socket is open: the receive is
\* not armed again.
ReceiveFails ==
  /\ armed > 0
  /\ handler = "idle"
  /\ open
  /\ armed' = armed - 1
  /\ handler' = "failed"
  /\ UNCHANGED <<receiverBuffer, kernelOverrunDropped, socketVars, callVars, ringVars,
                 workerVars, loops>>

\* Mutant: a full ring takes another frame.
PublishedUnbounded(s, g) == IF closed[s] THEN ring ELSE [ring EXCEPT ![s] = Append(@, g)]

\* The rings after publish of g into ring s.
Published(s, g) ==
  IF closed[s] THEN ring
  ELSE IF Len(ring[s]) < RingSlots THEN [ring EXCEPT ![s] = Append(@, g)]
  ELSE [ring EXCEPT ![s][1] = g]

\* The datagram is routed to s, or dropped.
Enqueue(g, s) ==
  IF s = Dropped THEN UNCHANGED <<ring, displacers>>
  ELSE /\ ring' = Published(s, g)
       /\ displacers' = IF ~closed[s] /\ Len(ring[s]) = RingSlots
                        THEN (displacers \ {ring[s][1]}) \cup {g} ELSE displacers

handleReceivedDatagram ==
  /\ handler = "route"
  /\ \/ /\ \E s \in Targets[receiverBuffer.what] : Enqueue(receiverBuffer, s)
        /\ handler' = "drain"
     \/ /\ receiverBuffer.what \in Astray
        /\ handler' = "stuck"
        /\ UNCHANGED <<ring, displacers>>
  /\ receiverBuffer' = Nothing
  /\ UNCHANGED <<closed, armed, kernelOverrunDropped, socketVars, callVars, workerVars, loops>>

\* The cumulative count that came with the packet, if it is larger.
OverrunCount(drops) ==
  IF drops > kernelOverrunDropped THEN drops ELSE kernelOverrunDropped

EmptyAtHead == kernel # <<>> /\ Wire[Head(kernel).datagram.what].empty

\* recvmsg in the drain loop.
DrainReads ==
  /\ handler = "drain"
  /\ open
  /\ kernel # <<>> /\ ~EmptyAtHead
  /\ receiverBuffer' = Head(kernel).datagram
  /\ kernelOverrunDropped' = OverrunCount(Head(kernel).drops)
  /\ kernel' = Tail(kernel)
  /\ handler' = "route"
  /\ UNCHANGED <<armed, open, arrived, overruns, callVars, ringVars, workerVars, loops>>

\* Mutant: the handler returns from the empty drain without arming again.
NotRearmed == armed

Rearmed == IF isRunning THEN armed + 1 ELSE armed

\* recvmsg fails, because the queue is empty, the socket closed or for another
\* reason, or it takes a datagram of no bytes.
DrainEnds ==
  /\ handler = "drain"
  /\ \/ UNCHANGED kernel
     \/ open /\ EmptyAtHead /\ kernel' = Tail(kernel)
  /\ handler' = "idle"
  /\ armed' = Rearmed
  /\ UNCHANGED <<receiverBuffer, kernelOverrunDropped, open, arrived, overruns, callVars,
                 ringVars, workerVars, loops>>

-------------------------------------------------------------------------------
(***************************************************************************)
(* The workers.                                                            *)
(***************************************************************************)

\* pop returns a frame; its handler runs until HandlerReturns.
WorkerPops(s) ==
  /\ worker[s] = "pop"
  /\ ring[s] # <<>>
  /\ frame' = [frame EXCEPT ![s] = Head(ring[s])]
  /\ ring' = [ring EXCEPT ![s] = Tail(@)]
  /\ worker' = [worker EXCEPT ![s] = "handle"]
  /\ UNCHANGED <<closed, displacers, callVars, socketVars, receiverVars, loops>>

\* Mutant: a closed ring is left although it holds frames.
EndsWhenClosed(s) == closed[s]

\* pop returns null: the ring is closed and drained.
PopEnds(s) == closed[s] /\ ring[s] = <<>>

WorkerExits(s) ==
  /\ worker[s] = "pop"
  /\ PopEnds(s)
  /\ worker' = [worker EXCEPT ![s] = "exited"]
  /\ UNCHANGED <<frame, callVars, socketVars, receiverVars, ringVars, loops>>

HandlerReturns(s) ==
  /\ worker[s] = "handle"
  /\ call.at # "idle" => call.by # s
  /\ worker' = [worker EXCEPT ![s] = "pop"]
  /\ frame' = [frame EXCEPT ![s] = Nothing]
  /\ displacers' = displacers \ {frame[s]}
  /\ UNCHANGED <<ring, closed, callVars, socketVars, receiverVars, loops>>

-------------------------------------------------------------------------------
(***************************************************************************)
(* startAutoDiscoverySender: a heartbeat is posted to the strand and sent, *)
(* and its completion sets the timer, which cancels a wait that another    *)
(* loop has on it.                                                         *)
(***************************************************************************)
\* Mutant: a send that failed does not set the timer.
SetAfterSuccess(ok) ==
  [loops EXCEPT !["sending"] = @ - 1, !["waiting"] = IF ok THEN 1 ELSE @]

TimerSet(ok) == [loops EXCEPT !["sending"] = @ - 1, !["waiting"] = 1]

\* The send may fail, and does on a closed socket.
SendCompletes(ok) ==
  /\ loops["sending"] > 0
  /\ ok => open
  /\ loops' = TimerSet(ok)
  /\ UNCHANGED <<callVars, socketVars, receiverVars, ringVars, workerVars>>

TimerFires ==
  /\ loops["waiting"] > 0
  /\ loops' = [loops EXCEPT !["waiting"] = @ - 1, !["sending"] = @ + 1]
  /\ UNCHANGED <<callVars, socketVars, receiverVars, ringVars, workerVars>>

-------------------------------------------------------------------------------
(***************************************************************************)
(* The calls of the application.                                           *)
(***************************************************************************)
Step(from, to) == call.at = from /\ call' = [call EXCEPT !.at = to]

\* startAutoDiscovery and initializeAutoDiscovery set the flag first.
StartBegins ==
  /\ starts < MaxStarts
  /\ ~isRunning
  /\ Step("idle", "spawn")
  /\ starts' = starts + 1
  /\ isRunning' = TRUE
  /\ UNCHANGED <<serving, socketVars, receiverVars, ringVars, workerVars, loops>>

\* startReceivePipeline: the workers, and then the receive.
StartWorkers ==
  /\ Step("spawn", "arm")
  /\ worker' = [s \in Shards |-> "pop"]
  /\ UNCHANGED <<starts, isRunning, serving, frame, socketVars, receiverVars,
                 ringVars, loops>>

StartReceive ==
  /\ Step("arm", "timers")
  /\ armed' = armed + 1
  /\ UNCHANGED <<starts, isRunning, serving, handler, receiverBuffer,
                 kernelOverrunDropped, socketVars, ringVars, workerVars, loops>>

StartTimers ==
  /\ Step("timers", "serve")
  /\ loops' = [loops EXCEPT !["sending"] = @ + 1]
  /\ UNCHANGED <<starts, isRunning, serving, socketVars, receiverVars, ringVars, workerVars>>

\* startGrpcServer: the port may be taken, and the node goes on without.
StartServer(ok) ==
  /\ call.at = "serve"
  /\ call' = Idle
  /\ serving' = (serving \/ ok)
  /\ UNCHANGED <<starts, isRunning, socketVars, receiverVars, ringVars, workerVars, loops>>

\* stopAutoDiscovery, by the application or by a callback: the flag and the
\* timers, whose waits are cancelled.
StopBegins(by) ==
  /\ call.at = "idle"
  /\ starts > 0
  /\ by # App => CallbackStops /\ worker[by] = "handle"
  /\ call' = [at |-> "close", by |-> by, shard |-> 0]
  /\ isRunning' = FALSE
  /\ loops' = [loops EXCEPT !["waiting"] = 0]
  /\ UNCHANGED <<starts, serving, socketVars, receiverVars, ringVars, workerVars>>

pipelineStarted == \E s \in Shards : worker[s] # "none"

\* Mutant: the workers are joined before their rings are closed.
JoinsFirst == [call EXCEPT !.at = IF pipelineStarted THEN "join" ELSE "server", !.shard = 1]

AfterSocket == [call EXCEPT !.at = IF pipelineStarted THEN "rings" ELSE "server", !.shard = 1]

StopClosesSocket ==
  /\ call.at = "close"
  /\ call' = AfterSocket
  /\ open' = FALSE
  /\ kernel' = <<>>
  /\ UNCHANGED <<arrived, overruns, starts, isRunning, serving, receiverVars, ringVars,
                 workerVars, loops>>

\* To the next shard, or to the next part of the stop after the last one.
Onward(next) ==
  IF call.shard < N THEN [call EXCEPT !.shard = @ + 1]
  ELSE [call EXCEPT !.at = next, !.shard = 1]

StopClosesRing ==
  /\ call.at = "rings"
  /\ closed' = [closed EXCEPT ![call.shard] = TRUE]
  /\ call' = Onward("join")
  /\ UNCHANGED <<ring, displacers, starts, isRunning, serving, socketVars, receiverVars,
                 workerVars, loops>>

Joinable(s) == worker[s] = "exited"

StopJoins ==
  /\ call.at = "join"
  /\ Joinable(call.shard)
  /\ worker' = [worker EXCEPT ![call.shard] = "none"]
  /\ call' = Onward("server")
  /\ UNCHANGED <<frame, starts, isRunning, serving, socketVars, receiverVars,
                 ringVars, loops>>

\* stopReliableSubscriptions, and stopGrpcServer, which waits for the streams
\* to end.
StopServer ==
  /\ call.at = "server"
  /\ call' = Idle
  /\ serving' = FALSE
  /\ UNCHANGED <<starts, isRunning, socketVars, receiverVars, ringVars, workerVars, loops>>

startAutoDiscovery ==
  \/ StartBegins \/ StartWorkers \/ StartReceive \/ StartTimers
  \/ \E ok \in BOOLEAN : StartServer(ok)
stopAutoDiscovery == StopClosesSocket \/ StopClosesRing \/ StopJoins \/ StopServer
receiver == ReceiveCompletes \/ ReceiveAborts \/ handleReceivedDatagram \/ DrainReads \/ DrainEnds
sender == (\E ok \in BOOLEAN : SendCompletes(ok)) \/ TimerFires
autoDiscoveryWorkerLoop(s) == WorkerPops(s) \/ WorkerExits(s) \/ HandlerReturns(s)

Next ==
  \/ \E d \in Datagrams : Arrive(d)
  \/ receiver
  \/ ReceiveFails
  \/ sender
  \/ \E s \in Shards : autoDiscoveryWorkerLoop(s)
  \/ startAutoDiscovery
  \/ \E by \in Shards \cup {App} : StopBegins(by)
  \/ stopAutoDiscovery

Spec == Init /\ [][Next]_vars

(***************************************************************************)
(* The application's io_context runs, the workers are scheduled and their  *)
(* handlers return, and a call that has begun goes on.  Nobody has to      *)
(* start, stop or send, no receive has to fail, and a walk that does not   *)
(* return may have taken the last thread of the io_context with it.        *)
(***************************************************************************)
FairSpec ==
  /\ Spec
  /\ WF_vars(receiver)
  /\ WF_vars(handler # "stuck" /\ \E ok \in BOOLEAN : SendCompletes(ok))
  /\ WF_vars(handler # "stuck" /\ TimerFires)
  /\ \A s \in Shards : WF_vars(autoDiscoveryWorkerLoop(s))
  /\ WF_vars(stopAutoDiscovery)
  /\ WF_vars(call.at # "idle" /\ startAutoDiscovery)

-------------------------------------------------------------------------------
(***************************************************************************)
(* Properties.                                                             *)
(***************************************************************************)
Phases == {"idle", "spawn", "arm", "timers", "serve", "close", "rings", "join", "server"}

\* Type invariant of the members of Edriel the pipeline uses (Edriel.hpp).
TypeOK ==
  /\ call \in [at : Phases, by : Shards \cup {App}, shard : 0..N]
  /\ starts \in 0..MaxStarts
  /\ isRunning \in BOOLEAN /\ open \in BOOLEAN /\ serving \in BOOLEAN
  /\ arrived \in 0..MaxArrivals
  /\ kernel \in Seq([datagram : Datagram, drops : 0..overruns])
  /\ Len(kernel) <= KernelSlots
  /\ overruns \in Nat
  /\ armed \in Nat
  /\ handler \in {"idle", "route", "drain", "failed", "stuck"}
  /\ receiverBuffer \in IF handler = "route" THEN Datagram ELSE {Nothing}
  /\ kernelOverrunDropped \in Nat
  /\ ring \in [Shards -> Seq(Datagram)]
  /\ \A s \in Shards : Len(ring[s]) <= RingSlots
  /\ closed \in [Shards -> BOOLEAN]
  /\ worker \in [Shards -> {"none", "pop", "handle", "exited"}]
  /\ frame \in [Shards -> Datagram \cup {Nothing}]
  /\ displacers \subseteq Datagram
  /\ loops \in [Stages -> Nat]

\* The kinds of datagram that decode to something about the same subject.
SameSubject ==
  LET decodes(d) == ParseFromArray(Wire[d].body) /\ ContentCase(Wire[d].body) # 0
  IN  {pair \in Datagrams \X Datagrams :
         /\ decodes(pair[1]) /\ decodes(pair[2])
         /\ Subject(Wire[pair[1]].body) = Subject(Wire[pair[2]].body)}

\* What the routing owes to the order: datagrams about one subject that are not
\* dropped go to one shard.
RoutesAgree ==
  \A pair \in SameSubject :
    Dropped \notin {Target[pair[1]], Target[pair[2]]} => Target[pair[1]] = Target[pair[2]]

\* The hypotheses under which the routes agree.  A body is a list of fields in
\* any order, with others this version does not know, and may be cut short; but
\* no field is in it twice, and it has one member of the oneof.
Once(fields, number) ==
  \A i, j \in Spans(fields) : fields[i].number = number /\ fields[j].number = number => i = j

WrittenOnce(fields) ==
  /\ IsList(fields)
  /\ \A i, j \in Members(fields) : i = j
  /\ \A i \in Members(fields) : fields[i].number = DataField =>
       LET data == fields[i].value
       IN  IsList(data) /\ Once(data, TopicNameField) /\ Once(data, MessageTypeField)

SentOnce == \A d \in Datagrams : WrittenOnce(Wire[d].body)

\* A uid is no topic.
UidsAreApart ==
  \A pair \in SameSubject :
    ContentCase(Wire[pair[1]].body) = IdentifierField
      => ContentCase(Wire[pair[2]].body) = IdentifierField

(***************************************************************************)
(* "One topic -> one shard -> one worker": no two workers are ever in the  *)
(* handlers of the same topic, or of the same peer's heartbeats, whether   *)
(* the datagrams were routed by the walk over their bytes or by the full   *)
(* decode, and whether they carry data or an advertisement.                *)
(***************************************************************************)
OneWorkerPerSubject ==
  \A s1, s2 \in Shards :
    s1 # s2 /\ Nothing \notin {frame[s1], frame[s2]}
      => <<frame[s1].what, frame[s2].what>> \notin SameSubject

\* The datagrams between the socket and the end of their handler.
Buffered == {kernel[i].datagram : i \in DOMAIN kernel} \cup ({receiverBuffer} \ {Nothing})
Ringed(s) == {ring[s][i] : i \in DOMAIN ring[s]}
Held == Buffered \cup UNION {Ringed(s) \cup ({frame[s]} \ {Nothing}) : s \in Shards}

(***************************************************************************)
(* The datagrams of a topic are handled in the order in which the socket   *)
(* received them, but for those that took the place of an older one in a   *)
(* full ring: when a handler runs, no older datagram about the same topic  *)
(* is still on its way through drain loop, routing, rings and workers.     *)
(***************************************************************************)
PerTopicOrder ==
  \A s \in Shards, g \in Held :
    /\ frame[s] \notin {Nothing} \cup displacers
    /\ g.n < frame[s].n
    => <<g.what, frame[s].what>> \notin SameSubject

(***************************************************************************)
(* receiverBuffer_ is "never re-armed until the datagram is consumed into  *)
(* a ring": a start brings one receive, which is either pending or in its  *)
(* handler, through every drain, error and stop.  So a node that was       *)
(* started once never has a receive that could write to the buffer while a *)
(* handler reads it.  After a second start there may be two, of which the  *)
(* new one can only fail (BufferIsFree, RestartReceives).                  *)
(***************************************************************************)
Busy == handler \in {"route", "drain"}
OneReceiver == armed + (IF Busy THEN 1 ELSE 0) <= starts

Stopped == starts > 0 /\ ~isRunning /\ call.at \in {"idle", "server"}

(***************************************************************************)
(* "Wake every worker and let it drain its ring, then leave it": once      *)
(* stopReceivePipeline has returned no callback runs, no worker is left,   *)
(* and no frame that was accepted is unhandled.                            *)
(***************************************************************************)
DrainedWhenStopped ==
  Stopped => \A s \in Shards : worker[s] = "none" /\ frame[s] = Nothing /\ ring[s] = <<>>

\* stopAutoDiscovery returns: every worker it joins comes to its end.
StopReturns == call.at = "close" ~> call = Idle

(***************************************************************************)
(* What the socket of a running node received is read, routed and handled  *)
(* (or displaced, or cut off by a stop): no datagram is left behind by a   *)
(* drain that ended, early or late, nor a frame in a ring by a worker.     *)
(* But a receive that had an error other than the abort is not armed       *)
(* again, and a walk over a length that wraps may not return: what is then *)
(* still in the socket stays there, while the node is running.             *)
(***************************************************************************)
Deaf == handler \in {"failed", "stuck"}
ArrivedIsHandled ==
  \A n \in 1..MaxArrivals :
    isRunning /\ (\E g \in Held : g.n = n)
      ~> \A g \in Held : g.n = n => Deaf /\ g \in Buffered

(***************************************************************************)
(* A running node goes on sending heartbeats, though sends and receives    *)
(* fail: its peers take it for gone otherwise.                             *)
(***************************************************************************)
HeartbeatsGoOn == []<>(loops["sending"] > 0 \/ ~isRunning \/ handler = "stuck")

(***************************************************************************)
(* "closing the socket cancels the pending receive, run() returns, and     *)
(* join() completes": after stopAutoDiscovery no receive handler runs.     *)
(***************************************************************************)
ReceiverStopped == Stopped /\ call = Idle => ~Busy

(***************************************************************************)
(* "never re-armed until the datagram is consumed into a ring", of every   *)
(* node: no receive is pending while a handler reads receiverBuffer_.      *)
(***************************************************************************)
BufferIsFree == handler = "route" => armed = 0

(***************************************************************************)
(* A running node can receive: a receive is pending or in its handler.     *)
(***************************************************************************)
RunningHears == isRunning /\ call = Idle /\ open => armed > 0 \/ Busy

(***************************************************************************)
(* "When the kernel drops a datagram it emits a SO_RXQ_OVFL message on the *)
(* next recvmsg; the receiver folds that count into droppedFrames()": the  *)
(* count that a datagram carries is known once the datagram is read.       *)
(***************************************************************************)
OverrunsReported ==
  [][\A i \in DOMAIN kernel :
       receiverBuffer' = kernel[i].datagram => kernelOverrunDropped' >= kernel[i].drops]_vars

(***************************************************************************)
(* "so user code (a callback) may safely re-enter the public API": no      *)
(* worker joins itself.                                                    *)
(***************************************************************************)
NoSelfJoin == call.at = "join" => call.shard # call.by

\* A callback "is invoked on this object's strand": one callback at a time.
OneCallbackAtATime == \A s1, s2 \in Shards : s1 # s2 => Nothing \in {frame[s1], frame[s2]}

\* "guards idempotent start/stop": a node that was started can receive.
RestartReceives == isRunning /\ call = Idle => open

\* "Stops all timers": a stopped node comes to send no heartbeats.
SenderStops == Stopped ~> isRunning \/ \A stage \in Stages : loops[stage] = 0
===============================================================================
