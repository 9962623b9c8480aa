-------------------------- MODULE SubscriberReactor --------------------------
(***************************************************************************)
(* The server side of one subscriber's reliable streams: the reactors that *)
(* its successive dials create and the service's table entry for its key   *)
(* (EdrielGrpcService.cpp).  The model is at the grain of the locks:       *)
(*                                                                         *)
(*   - each section under a reactor's m_ is one step;                      *)
(*   - subsMutex_ is held by pushData across the whole enqueue, from the   *)
(*     lookup to the StartWrite, and by (un)registerSubscriber for a step; *)
(*   - gRPC runs OnReadDone, OnWriteDone, OnCancel and the publisher's     *)
(*     pushData on threads of their own, and the OnWriteDone of a write    *)
(*     may overlap the tail of the OnWriteDone before it.                  *)
(*                                                                         *)
(* Heartbeats after the first one only re-arm the read, and the probes     *)
(* isSendable, outboxDepth and hasSubscriber only look: they are no steps. *)
(***************************************************************************)
EXTENDS Integers, Sequences

CONSTANTS
  Dials,       \* how many times the subscriber dials
  OutboxMax,   \* reliable_outbox_max_frames
  HwmConfig,   \* reliable_outbox_hwm * OutboxMax, rounded toward zero
  LwmConfig,   \* reliable_outbox_lwm * OutboxMax, rounded toward zero
  Presence,    \* length of snapshotParticipantData()
  MaxPushes    \* bound: the pushData calls of a behaviour

ASSUME DialsAssumption == Dials \in Nat
ASSUME WaterMarksAssumption ==
  /\ OutboxMax \in Nat \ {0}
  /\ HwmConfig \in 0..(OutboxMax - 1)
  /\ LwmConfig \in 0..HwmConfig
ASSUME FramesAssumption == Presence \in Nat /\ MaxPushes \in Nat

Reactors == 1..Dials     \* one per dial, in the order of the dials
None == 0

\* The coherence guard of the constructor.
hwmFrames ==
  LET atLeastOne == IF HwmConfig = 0 THEN 1 ELSE HwmConfig
  IN  IF atLeastOne >= OutboxMax THEN OutboxMax - 1 ELSE atLeastOne

lwmFrames == IF LwmConfig >= hwmFrames THEN hwmFrames \div 2 ELSE LwmConfig

VARIABLES
  table,      \* subscribers_[key]: the registered reactor, or None
  stream,     \* the RPC as gRPC and the client see it
  box,        \* what each reactor keeps under m_, and initialised_
  reading,    \* where each reactor's OnReadDone is, and presence frames left
  writeDone,  \* how many OnWriteDone calls are at each point
  cancel,     \* where each reactor's OnCancel is
  push,       \* where pushData is, and the reactor it holds
  pushes,     \* number of pushData calls so far: the next frame's name
  accepted,   \* history: the frames each outbox accepted, in order
  completed,  \* history: the frames whose write came to an end, in order
  finishes    \* history: how often Finish() was called on each RPC

vars == <<table, stream, box, reading, writeDone, cancel, push, pushes,
          accepted, completed, finishes>>

Streams  == {"undialled", "open", "halfClosed", "broken", "done"}
ReadPcs  == {"idle", "waiting", "heartbeat", "denied", "register", "presence",
             "presenceKick", "finish", "kick", "closed"}
WritePcs == {"drain", "settle", "finish", "broken"}
PresenceFrame == 0
Frames   == 0..MaxPushes

Boxes == [initialised : BOOLEAN, finished : BOOLEAN, cancelled : BOOLEAN,
          writing : BOOLEAN, finishPending : BOOLEAN, backpressured : BOOLEAN,
          writeBuffer : Frames, outbox : Seq(Frames)]

NewBox == [initialised |-> FALSE, finished |-> FALSE, cancelled |-> FALSE,
           writing |-> FALSE, finishPending |-> FALSE, backpressured |-> FALSE,
           writeBuffer |-> PresenceFrame, outbox |-> <<>>]

Idle == [at |-> "idle", to |-> None]

Init ==
  /\ table = None
  /\ stream = [r \in Reactors |-> "undialled"]
  /\ box = [r \in Reactors |-> NewBox]
  /\ reading = [r \in Reactors |-> [at |-> "idle", left |-> 0]]
  /\ writeDone = [r \in Reactors |-> [pc \in WritePcs |-> 0]]
  /\ cancel = [r \in Reactors |-> "no"]
  /\ push = Idle
  /\ pushes = 0
  /\ accepted = [r \in Reactors |-> <<>>]
  /\ completed = [r \in Reactors |-> <<>>]
  /\ finishes = [r \in Reactors |-> 0]

-------------------------------------------------------------------------------
(***************************************************************************)
(* The sections under m_, as functions of what m_ guards.                  *)
(***************************************************************************)
Dead(b) == b.finished \/ b.cancelled

\* Mutant: the gate opens one frame late.
AtHighWaterLate(b) == b.backpressured \/ Len(b.outbox) > hwmFrames

AtHighWater(b) == b.backpressured \/ Len(b.outbox) >= hwmFrames

Accepts(b) == ~Dead(b) /\ ~AtHighWater(b)

Enqueued(b, frame) ==
  IF Dead(b) THEN b
  ELSE IF AtHighWater(b) THEN [b EXCEPT !.backpressured = TRUE]
  ELSE [b EXCEPT !.outbox = Append(@, frame)]

\* needWrite of enqueue.
KicksWrite(b) == Accepts(b) /\ ~b.writing

\* Mutant: a write is started over the one in flight.
StartsWriteAnyway(b) == ~b.finished /\ b.outbox # <<>>

StartsWrite(b) == ~b.finished /\ ~b.writing /\ b.outbox # <<>>

\* startWrite_, with the StartWrite it ends in.
WriteStarted(b) ==
  IF StartsWrite(b)
  THEN [b EXCEPT !.writeBuffer = Head(b.outbox), !.outbox = Tail(b.outbox),
                 !.writing = TRUE]
  ELSE b

startWrite_(r) == box' = [box EXCEPT ![r] = WriteStarted(@)]

\* enqueue up to the release of m_.
EnqueueSection(r, frame) ==
  /\ box' = [box EXCEPT ![r] = Enqueued(@, frame)]
  /\ accepted' = [accepted EXCEPT ![r] = IF Accepts(box[r]) THEN Append(@, frame) ELSE @]

\* Mutant: the one-shot guard is missing.
finishAgain_(r) ==
  /\ box' = [box EXCEPT ![r].finished = TRUE]
  /\ finishes' = [finishes EXCEPT ![r] = @ + 1]

finish_(r) ==
  /\ box' = [box EXCEPT ![r].finished = TRUE]
  /\ finishes' = [finishes EXCEPT ![r] = IF box[r].finished THEN @ ELSE @ + 1]

-------------------------------------------------------------------------------
(***************************************************************************)
(* The table, under subsMutex_.                                            *)
(***************************************************************************)

\* Mutant: pushData gives subsMutex_ back before it uses the reactor.
SubsUnlocked == TRUE

SubsFree == push.at = "idle"

\* The pointer-guarded erase.
unregisterSubscriber(r) ==
  /\ SubsFree
  /\ table' = IF table = r THEN None ELSE table

\* Mutant: the predecessor is replaced but not told.
registerOnly(r) ==
  /\ SubsFree
  /\ table' = r
  /\ UNCHANGED box

registerSubscriber(r) ==
  /\ SubsFree
  /\ table' = r
  /\ box' = [q \in Reactors |->
               IF q = table /\ q # r THEN [box[q] EXCEPT !.cancelled = TRUE] ELSE box[q]]

-------------------------------------------------------------------------------
(***************************************************************************)
(* The client's side of the RPC.                                           *)
(***************************************************************************)

\* StreamParticipants creates the reactor, whose constructor starts the read.
StreamParticipants(r) ==
  /\ stream[r] = "undialled"
  /\ \A q \in Reactors : q < r => stream[q] # "undialled"
  /\ stream' = [stream EXCEPT ![r] = "open"]
  /\ reading' = [reading EXCEPT ![r].at = "waiting"]
  /\ UNCHANGED <<table, box, writeDone, cancel, push, pushes, accepted, completed, finishes>>

HalfClose(r) ==
  /\ stream[r] = "open"
  /\ stream' = [stream EXCEPT ![r] = "halfClosed"]
  /\ UNCHANGED <<table, box, reading, writeDone, cancel, push, pushes,
                 accepted, completed, finishes>>

\* The client cancels, or the connection is lost.
Break(r) ==
  /\ stream[r] \in {"open", "halfClosed"}
  /\ stream' = [stream EXCEPT ![r] = "broken"]
  /\ UNCHANGED <<table, box, reading, writeDone, cancel, push, pushes,
                 accepted, completed, finishes>>

\* The first heartbeat completes the read; its OnReadDone may run much later.
HeartbeatArrives(r) ==
  /\ stream[r] \in {"open", "halfClosed"}
  /\ reading[r].at = "waiting"
  /\ ~box[r].initialised
  /\ reading' = [reading EXCEPT ![r].at = "heartbeat"]
  /\ UNCHANGED <<table, stream, box, writeDone, cancel, push, pushes,
                 accepted, completed, finishes>>

-------------------------------------------------------------------------------
(***************************************************************************)
(* OnReadDone(true) on the first heartbeat.  OnCancel reads initialised_   *)
(* without m_: it sees the value before or after this step.                *)
(***************************************************************************)
OnHeartbeat(r) ==
  /\ reading[r].at = "heartbeat"
  /\ box' = [box EXCEPT ![r].initialised = TRUE]
  /\ \E known \in BOOLEAN :            \* isKnownParticipant
       reading' = [reading EXCEPT ![r].at = IF known THEN "register" ELSE "denied"]
  /\ UNCHANGED <<table, stream, writeDone, cancel, push, pushes, accepted, completed, finishes>>

\* PERMISSION_DENIED; the read is not started again.
DenyDialer(r) ==
  /\ reading[r].at = "denied"
  /\ finish_(r)
  /\ reading' = [reading EXCEPT ![r].at = "closed"]
  /\ UNCHANGED <<table, stream, writeDone, cancel, push, pushes, accepted, completed>>

Register(r) ==
  /\ reading[r].at = "register"
  /\ registerSubscriber(r)
  /\ reading' = [reading EXCEPT ![r] = [at |-> "presence", left |-> Presence]]
  /\ UNCHANGED <<stream, writeDone, cancel, push, pushes, accepted, completed, finishes>>

\* Mutant: the presence loop does not stop at the end of the snapshot.
EnqueuePresenceForever(r) ==
  /\ reading[r].at = "presence"
  /\ EnqueueSection(r, PresenceFrame)
  /\ reading' = [reading EXCEPT ![r] =
                   [at |-> IF KicksWrite(box[r]) THEN "presenceKick" ELSE "presence",
                    left |-> @.left - 1]]
  /\ UNCHANGED <<table, stream, writeDone, cancel, push, pushes, completed, finishes>>

\* One presence frame: enqueue, and the write it may have to start.
EnqueuePresence(r) ==
  /\ reading[r].at = "presence"
  /\ reading[r].left > 0
  /\ EnqueueSection(r, PresenceFrame)
  /\ reading' = [reading EXCEPT ![r] =
                   [at |-> IF KicksWrite(box[r]) THEN "presenceKick" ELSE "presence",
                    left |-> @.left - 1]]
  /\ UNCHANGED <<table, stream, writeDone, cancel, push, pushes, completed, finishes>>

KickPresence(r) ==
  /\ reading[r].at = "presenceKick"
  /\ startWrite_(r)
  /\ reading' = [reading EXCEPT ![r].at = "presence"]
  /\ UNCHANGED <<table, stream, writeDone, cancel, push, pushes, accepted, completed, finishes>>

RearmRead(r) ==
  /\ reading[r] = [at |-> "presence", left |-> 0]
  /\ reading' = [reading EXCEPT ![r].at = "waiting"]
  /\ UNCHANGED <<table, stream, box, writeDone, cancel, push, pushes,
                 accepted, completed, finishes>>

(***************************************************************************)
(* OnReadDone(false): the client half-closed, the stream broke, or the RPC *)
(* was finished under the pending read.                                    *)
(***************************************************************************)
OnReadFailed(r) ==
  /\ reading[r].at = "waiting"
  /\ stream[r] \in {"halfClosed", "broken"} \/ box[r].finished
  /\ LET b == box[r]
         drains == ~b.finished /\ (b.writing \/ b.outbox # <<>>)
     IN  /\ box' = [box EXCEPT ![r].finishPending = drains \/ @]
         /\ reading' = [reading EXCEPT ![r].at =
                          IF b.finished \/ b.writing THEN "closed"
                          ELSE IF b.outbox = <<>> THEN "finish" ELSE "kick"]
  /\ UNCHANGED <<table, stream, writeDone, cancel, push, pushes, accepted, completed, finishes>>

FinishAfterRead(r) ==
  /\ reading[r].at = "finish"
  /\ finish_(r)
  /\ reading' = [reading EXCEPT ![r].at = "closed"]
  /\ UNCHANGED <<table, stream, writeDone, cancel, push, pushes, accepted, completed>>

KickAfterRead(r) ==
  /\ reading[r].at = "kick"
  /\ startWrite_(r)
  /\ reading' = [reading EXCEPT ![r].at = "closed"]
  /\ UNCHANGED <<table, stream, writeDone, cancel, push, pushes, accepted, completed, finishes>>

-------------------------------------------------------------------------------
(***************************************************************************)
(* OnWriteDone.  The frame in flight is over: delivered to the client's    *)
(* side, or lost with the stream.                                          *)
(***************************************************************************)
Moves(r, from, to) ==
  writeDone' = [writeDone EXCEPT ![r] =
                  [pc \in WritePcs |-> @[pc] + (IF pc \in to THEN 1 ELSE 0)
                                             - (IF pc = from THEN 1 ELSE 0)]]

WriteEnds(r) ==
  /\ box[r].writing
  /\ box' = [box EXCEPT ![r].writing = FALSE]
  /\ completed' = [completed EXCEPT ![r] = Append(@, box[r].writeBuffer)]
  /\ UNCHANGED <<table, stream, reading, cancel, push, pushes, accepted, finishes>>

OnWriteDone(r) ==
  /\ WriteEnds(r)
  /\ Moves(r, "none", {"drain"})

OnWriteFailed(r) ==
  /\ stream[r] = "broken" \/ box[r].finished
  /\ WriteEnds(r)
  /\ Moves(r, "none", IF box[r].finished THEN {} ELSE {"broken"})

FinishBroken(r) ==
  /\ writeDone[r]["broken"] > 0
  /\ finish_(r)
  /\ Moves(r, "broken", {})
  /\ UNCHANGED <<table, stream, reading, cancel, push, pushes, accepted, completed>>

DrainNext(r) ==
  /\ writeDone[r]["drain"] > 0
  /\ startWrite_(r)
  /\ Moves(r, "drain", {"settle"})
  /\ UNCHANGED <<table, stream, reading, cancel, push, pushes, accepted, completed, finishes>>

\* Mutant: the latch is cleared only when the drain meets the mark exactly.
AtLowWaterExactly(b) == Len(b.outbox) = lwmFrames /\ b.writing

AtLowWater(b) == Len(b.outbox) <= lwmFrames

\* Mutant: a pending finish waits for an empty outbox only while a write runs.
CanFinishNever(b) == b.finishPending /\ b.writing /\ b.outbox = <<>>

CanFinish(b) == b.finishPending /\ ~b.writing /\ b.outbox = <<>>

Settle(r) ==
  /\ writeDone[r]["settle"] > 0
  /\ box' = [box EXCEPT ![r].backpressured = @ /\ ~AtLowWater(box[r])]
  /\ Moves(r, "settle", IF CanFinish(box[r]) THEN {"finish"} ELSE {})
  /\ UNCHANGED <<table, stream, reading, cancel, push, pushes, accepted, completed, finishes>>

FinishDrained(r) ==
  /\ writeDone[r]["finish"] > 0
  /\ finish_(r)
  /\ Moves(r, "finish", {})
  /\ UNCHANGED <<table, stream, reading, cancel, push, pushes, accepted, completed>>

-------------------------------------------------------------------------------
(***************************************************************************)
(* OnCancel, and the eviction after m_ is released; OnDone.                *)
(***************************************************************************)
OnCancel(r) ==
  /\ stream[r] = "broken"
  /\ cancel[r] = "no"
  /\ box' = [box EXCEPT ![r].cancelled = @ \/ ~box[r].finished]
  /\ cancel' = [cancel EXCEPT ![r] =
                  IF ~box[r].finished /\ box[r].initialised THEN "evict" ELSE "ran"]
  /\ UNCHANGED <<table, stream, reading, writeDone, push, pushes, accepted, completed, finishes>>

EvictCancelled(r) ==
  /\ cancel[r] = "evict"
  /\ unregisterSubscriber(r)
  /\ cancel' = [cancel EXCEPT ![r] = "ran"]
  /\ UNCHANGED <<stream, box, reading, writeDone, push, pushes, accepted, completed, finishes>>

\* gRPC calls OnDone once Finish() was called and no operation or callback is
\* left; the reactor is not to be used after it.
Quiescent(r) ==
  /\ box[r].finished
  /\ ~box[r].writing
  /\ reading[r].at = "closed"
  /\ \A pc \in WritePcs : writeDone[r][pc] = 0
  /\ stream[r] = "broken" => cancel[r] = "ran"

OnDone(r) ==
  /\ stream[r] \notin {"undialled", "done"}
  /\ Quiescent(r)
  /\ IF box[r].initialised THEN unregisterSubscriber(r) ELSE UNCHANGED table
  /\ stream' = [stream EXCEPT ![r] = "done"]
  /\ UNCHANGED <<box, reading, writeDone, cancel, push, pushes,
                 accepted, completed, finishes>>

-------------------------------------------------------------------------------
(***************************************************************************)
(* pushData, called by one publisher thread at a time (grpcServiceMutex_). *)
(***************************************************************************)
pushData ==
  /\ push.at = "idle"
  /\ pushes < MaxPushes
  /\ pushes' = pushes + 1
  /\ push' = IF table = None THEN Idle ELSE [at |-> "enqueue", to |-> table]
  /\ UNCHANGED <<table, stream, box, reading, writeDone, cancel, accepted, completed, finishes>>

PushEnqueue ==
  /\ push.at = "enqueue"
  /\ EnqueueSection(push.to, pushes)
  /\ push' = IF KicksWrite(box[push.to]) THEN [push EXCEPT !.at = "kick"] ELSE Idle
  /\ UNCHANGED <<table, stream, reading, writeDone, cancel, pushes, completed, finishes>>

PushKick ==
  /\ push.at = "kick"
  /\ startWrite_(push.to)
  /\ push' = Idle
  /\ UNCHANGED <<table, stream, reading, writeDone, cancel, pushes, accepted, completed, finishes>>

-------------------------------------------------------------------------------
\* What the client or the publisher may do.
Environment(r) ==
  StreamParticipants(r) \/ HalfClose(r) \/ Break(r)

\* OnReadDone once its read has completed, and the read's completion.
ReadSide(r) ==
  \/ HeartbeatArrives(r) \/ OnHeartbeat(r) \/ DenyDialer(r) \/ Register(r)
  \/ EnqueuePresence(r) \/ KickPresence(r) \/ RearmRead(r)
  \/ OnReadFailed(r) \/ FinishAfterRead(r) \/ KickAfterRead(r)

WriteSide(r) ==
  \/ OnWriteDone(r) \/ OnWriteFailed(r) \/ FinishBroken(r)
  \/ DrainNext(r) \/ Settle(r) \/ FinishDrained(r)

CancelSide(r) == OnCancel(r) \/ EvictCancelled(r)

PushSide == PushEnqueue \/ PushKick

Next ==
  \/ \E r \in Reactors : Environment(r)
  \/ \E r \in Reactors : ReadSide(r)
  \/ \E r \in Reactors : WriteSide(r)
  \/ \E r \in Reactors : CancelSide(r)
  \/ \E r \in Reactors : OnDone(r)
  \/ pushData
  \/ PushSide

Spec == Init /\ [][Next]_vars

(***************************************************************************)
(* gRPC runs the callbacks of what has completed, a write comes to an end  *)
(* (the client reads, or the stream breaks), and a thread that is inside a *)
(* call goes on.  Nobody has to dial, close, cancel or publish.  Weak      *)
(* fairness is enough for the threads that wait for subsMutex_ because the *)
(* publisher stops after MaxPushes pushes.                                 *)
(***************************************************************************)
Fairness ==
  /\ \A r \in Reactors :
       /\ WF_vars(ReadSide(r))
       /\ WF_vars(OnWriteDone(r) \/ OnWriteFailed(r))
       /\ WF_vars(DrainNext(r))
       /\ WF_vars(Settle(r))
       /\ WF_vars(FinishBroken(r) \/ FinishDrained(r))
       /\ WF_vars(CancelSide(r))
       /\ WF_vars(OnDone(r))
  /\ WF_vars(PushSide)

FairSpec == Spec /\ Fairness

-------------------------------------------------------------------------------
(***************************************************************************)
(* Properties.                                                             *)
(***************************************************************************)

\* Type invariant of the reactors and the table (EdrielGrpcService.hpp 153-171).
TypeOK ==
  /\ table \in Reactors \cup {None}
  /\ stream \in [Reactors -> Streams]
  /\ box \in [Reactors -> Boxes]
  /\ reading \in [Reactors -> [at : ReadPcs, left : Nat]]
  /\ writeDone \in [Reactors -> [WritePcs -> Nat]]
  /\ cancel \in [Reactors -> {"no", "evict", "ran"}]
  /\ push \in [at : {"enqueue", "kick"}, to : Reactors] \cup {Idle}
  /\ pushes \in Frames
  /\ accepted \in [Reactors -> Seq(Frames)]
  /\ completed \in [Reactors -> Seq(Frames)]
  /\ finishes \in [Reactors -> Nat]

(***************************************************************************)
(* Nothing is lost, doubled or overtaken between enqueue and the wire,     *)
(* however pushData, the presence loop and the OnWriteDone calls overlap:  *)
(* the frames written so far, the one in flight and the outbox are exactly *)
(* the frames that were accepted, in that order.                           *)
(***************************************************************************)
InFlight(r) == IF box[r].writing THEN <<box[r].writeBuffer>> ELSE <<>>

WrittenInOrder ==
  \A r \in Reactors : accepted[r] = completed[r] \o InFlight(r) \o box[r].outbox

(***************************************************************************)
(* "the in-flight write + buffered tail never overshoot past the bound"    *)
(* (the comment of enqueue's gate): a slow subscriber costs the publisher  *)
(* at most reliable_outbox_max_frames frames.                              *)
(***************************************************************************)
WithinBound ==
  \A r \in Reactors : Len(box[r].outbox) + Len(InFlight(r)) <= OutboxMax

(***************************************************************************)
(* A second Finish() trips a CHECK in gRPC and aborts the process: however *)
(* a failing read, a failing write and a drained outbox race, there is at  *)
(* most one, and once OnDone is due there was one.                         *)
(***************************************************************************)
FinishOnce ==
  \A r \in Reactors : finishes[r] = IF box[r].finished THEN 1 ELSE 0

(***************************************************************************)
(* No push uses a reactor whose OnDone has run: the table does not lead to *)
(* one, and OnDone waits for the push that found its reactor before.       *)
(***************************************************************************)
NoUseAfterDone ==
  /\ table # None => stream[table] # "done"
  /\ push.at # "idle" => stream[push.to] # "done"

(***************************************************************************)
(* The window registerSubscriber closes: a reactor that is not the table's *)
(* entry, because it was superseded or evicted, accepts no further frame.  *)
(***************************************************************************)
OnlyEntryAccepts ==
  [][\A r \in Reactors : accepted'[r] # accepted[r] => table = r]_vars

(***************************************************************************)
(* All of it together: the streams of a subscriber, with their locks and   *)
(* callbacks, implement BoundedStream.  The frames held are the one in     *)
(* flight and the outbox; that a refusal comes only from the mark on, and  *)
(* that a stream leaves the table only when it is over, or to one that has *)
(* made it so, is part of it.                                              *)
(***************************************************************************)
Stream ==
  INSTANCE BoundedStream WITH
    Streams <- Reactors, High <- hwmFrames, Low <- lwmFrames,
    entry <- table,
    held <- [r \in Reactors |-> InFlight(r) \o box[r].outbox],
    written <- completed,
    refusing <- [r \in Reactors |-> box[r].backpressured],
    over <- [r \in Reactors |-> Dead(box[r])]

ImplementsStream == Stream!Spec

(***************************************************************************)
(* "refuse until the drain crosses the LWM and clears the latch": a        *)
(* latched reactor is released or its stream ends; no order of enqueue and *)
(* OnWriteDone leaves it latched with nothing left to drain.               *)
(***************************************************************************)
LatchClears ==
  \A r \in Reactors :
    box[r].backpressured ~> ~box[r].backpressured \/ box[r].finished

(***************************************************************************)
(* No reactor leaks: once the client half-closed or the stream broke, the  *)
(* terminal callbacks finish the RPC and OnDone runs.                      *)
(***************************************************************************)
EndedStreamsAreDone ==
  \A r \in Reactors :
    stream[r] \in {"halfClosed", "broken"} ~> stream[r] = "done"

(***************************************************************************)
(* The inductive invariant of the proofs.  What carries it: subsMutex_ is  *)
(* held over the whole push, so its reactor stays the entry; a reactor is  *)
(* registered before it enqueues, and whoever takes its place in the table *)
(* has marked it first; and only a closed reactor is done.                 *)
(***************************************************************************)
BelowHighWater == \A r \in Reactors : Len(box[r].outbox) <= hwmFrames

PushHoldsEntry == push.at # "idle" => table = push.to

RegisteredOrDead ==
  \A r \in Reactors :
    reading[r].at \in {"presence", "presenceKick"} => table = r \/ Dead(box[r])

EntryIsKnown ==
  \A r \in Reactors :
    /\ stream[r] = "done" => reading[r].at = "closed" /\ table # r
    /\ table = r \/ reading[r].at = "register" => box[r].initialised

EvicteeIsDead == \A r \in Reactors : cancel[r] = "evict" => Dead(box[r])

ReactorInv ==
  /\ TypeOK
  /\ WrittenInOrder
  /\ FinishOnce
  /\ BelowHighWater
  /\ PushHoldsEntry
  /\ RegisteredOrDead
  /\ EntryIsKnown
  /\ EvicteeIsDead

\* A reactor that has yet to register has accepted nothing.
Unregistered(r) ==
  \/ reading[r].at \in {"idle", "heartbeat", "register"}
  \/ reading[r].at = "waiting" /\ ~box[r].initialised

EntersOnce ==
  \A r \in Reactors :
    /\ Unregistered(r) => table # r /\ accepted[r] = <<>>
    /\ reading[r].at \in {"presence", "presenceKick"} => box[r].initialised
    /\ stream[r] = "undialled" => reading[r].at = "idle"

(***************************************************************************)
(* EdrielGrpcService.hpp 214-217: "the table then maps the key to the      *)
(* newest live connection".  An open stream is retired only for a later    *)
(* dial.                                                                   *)
(***************************************************************************)
OnlyNewerSupersedes ==
  [][\A r \in Reactors :
       ~box[r].cancelled /\ box'[r].cancelled /\ stream[r] = "open" => table' > r]_vars

(***************************************************************************)
(* EdrielGrpcService.cpp 132-134: "must not cut the queued presence/data   *)
(* frames short: keep writing, and only finish once the outbox empties".   *)
(* A half-closed stream is not finished over frames it has accepted.       *)
(***************************************************************************)
HalfCloseDrains ==
  \A r \in Reactors :
    stream[r] = "halfClosed" /\ box[r].finished => box[r].outbox = <<>>
===============================================================================
