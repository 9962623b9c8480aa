----------------------- MODULE SubscriberReactor_proofs -----------------------
(***************************************************************************)
(* Proofs about SubscriberReactor, for every number of dials, presence     *)
(* frames and pushes and every coherent or incoherent pair of water marks. *)
(***************************************************************************)
EXTENDS SubscriberReactor, SequenceTheorems, TLAPS

-------------------------------------------------------------------------------
(***************************************************************************)
(* The water marks that the constructor computes.                          *)
(***************************************************************************)

\* The gate lies at least one frame inside the bound, at zero if need be.
LEMMA GateInsideBound == hwmFrames \in Nat /\ hwmFrames + 1 <= OutboxMax
BY WaterMarksAssumption DEF hwmFrames

\* The mark at which refusals stop is a number of frames.
LEMMA LowMarkIsNat == lwmFrames \in Nat
BY WaterMarksAssumption, GateInsideBound DEF lwmFrames

-------------------------------------------------------------------------------
(***************************************************************************)
(* The three moves of a frame from the caller to the wire, on sequences.   *)
(***************************************************************************)

\* enqueue appends to the outbox.
LEMMA AppendAtEnd ==
  ASSUME NEW c \in Seq(Frames), NEW i \in Seq(Frames), NEW o \in Seq(Frames), NEW f \in Frames
  PROVE  Append(c \o i \o o, f) = c \o i \o Append(o, f)
<1>1. /\ c \o i \in Seq(Frames) /\ <<f>> \in Seq(Frames)
      /\ (c \o i) \o o \in Seq(Frames)
  <2>1. c \o i \in Seq(Frames)
    BY ConcatProperties
  <2>2. (c \o i) \o o \in Seq(Frames)
    BY <2>1, ConcatProperties
  <2>3. <<f>> \in Seq(Frames)
    OBVIOUS
  <2>. QED
    BY <2>1, <2>2, <2>3
<1>2. Append((c \o i) \o o, f) = ((c \o i) \o o) \o <<f>>
  BY <1>1, AppendIsConcat
<1>3. Append(o, f) = o \o <<f>>
  BY AppendIsConcat
<1>4. ((c \o i) \o o) \o <<f>> = (c \o i) \o (o \o <<f>>)
  BY <1>1, ConcatAssociative
<1>. QED
  BY <1>2, <1>3, <1>4

\* startWrite_ moves the front of the outbox to the write buffer.
LEMMA FrontToFlight ==
  ASSUME NEW c \in Seq(Frames), NEW o \in Seq(Frames), o # <<>>
  PROVE  c \o <<>> \o o = c \o <<Head(o)>> \o Tail(o)
<1>1. /\ Head(o) \in Frames /\ Tail(o) \in Seq(Frames)
      /\ o = <<Head(o)>> \o Tail(o)
  BY HeadTailProperties
<1>2. c \o <<>> = c
  BY ConcatEmptySeq
<1>3. <<Head(o)>> \in Seq(Frames)
  BY <1>1
<1>4. c \o (<<Head(o)>> \o Tail(o)) = (c \o <<Head(o)>>) \o Tail(o)
  BY <1>1, <1>3, ConcatAssociative
<1>. QED
  BY <1>1, <1>2, <1>4

\* OnWriteDone retires the write buffer.
LEMMA FlightToCompleted ==
  ASSUME NEW c \in Seq(Frames), NEW f \in Frames, NEW o \in Seq(Frames)
  PROVE  c \o <<f>> \o o = Append(c, f) \o <<>> \o o
<1>1. Append(c, f) = c \o <<f>> /\ Append(c, f) \in Seq(Frames)
  BY AppendIsConcat, AppendProperties
<1>2. Append(c, f) \o <<>> = Append(c, f)
  BY <1>1, ConcatEmptySeq
<1>. QED
  BY <1>1, <1>2

-------------------------------------------------------------------------------
(***************************************************************************)
(* The queue part of the invariant, and what each section under m_ does to *)
(* it.                                                                     *)
(***************************************************************************)
QueueInv ==
  /\ box \in [Reactors -> Boxes]
  /\ accepted \in [Reactors -> Seq(Frames)]
  /\ completed \in [Reactors -> Seq(Frames)]
  /\ WrittenInOrder
  /\ BelowHighWater

\* The flags no section of the queue touches.
SameFlags(r) ==
  /\ box'[r].initialised = box[r].initialised
  /\ box'[r].finished = box[r].finished
  /\ box'[r].cancelled = box[r].cancelled

\* The queue itself is left alone.
SameQueue(r) ==
  /\ box'[r].outbox = box[r].outbox
  /\ box'[r].writing = box[r].writing
  /\ box'[r].writeBuffer = box[r].writeBuffer

\* A step that changes only flags keeps the queues in order.
LEMMA FlagsKeepQueue ==
  ASSUME QueueInv, box' \in [Reactors -> Boxes], UNCHANGED <<accepted, completed>>,
         \A r \in Reactors : SameQueue(r)
  PROVE  QueueInv'
BY DEF QueueInv, WrittenInOrder, BelowHighWater, InFlight, SameQueue

\* enqueue under m_ (EdrielGrpcService.cpp 225-239).
LEMMA EnqueueKeepsQueue ==
  ASSUME QueueInv, NEW r \in Reactors, NEW f \in Frames,
         EnqueueSection(r, f), UNCHANGED completed
  PROVE  QueueInv' /\ \A q \in Reactors : SameFlags(q)
<1> DEFINE b == box[r]
<1>1. b \in Boxes
  BY DEF QueueInv
<1>2. CASE Accepts(b)
  <2>1. /\ box' = [box EXCEPT ![r] = [b EXCEPT !.outbox = Append(b.outbox, f)]]
        /\ accepted' = [accepted EXCEPT ![r] = Append(accepted[r], f)]
    BY <1>2 DEF EnqueueSection, Enqueued, Accepts
  <2>2. b.outbox \in Seq(Frames) /\ Append(b.outbox, f) \in Seq(Frames)
    BY <1>1, AppendProperties DEF Boxes
  <2>3. box' \in [Reactors -> Boxes] /\ \A q \in Reactors : SameFlags(q)
    BY <1>1, <2>1, <2>2 DEF QueueInv, Boxes, SameFlags
  <2>4. accepted' \in [Reactors -> Seq(Frames)] /\ completed' \in [Reactors -> Seq(Frames)]
    BY <2>1, AppendProperties DEF QueueInv
  <2>5. Len(Append(b.outbox, f)) <= hwmFrames
    BY <1>2, <2>2, AppendProperties, GateInsideBound DEF Accepts, AtHighWater
  <2>6. BelowHighWater'
    BY <2>1, <2>5, <1>1 DEF QueueInv, BelowHighWater, Boxes
  <2>7. InFlight(r) \in Seq(Frames)
    BY <1>1 DEF InFlight, Boxes
  <2>8. Append(accepted[r], f) = completed[r] \o InFlight(r) \o Append(b.outbox, f)
    <3>1. completed[r] \in Seq(Frames)
      BY DEF QueueInv
    <3>2. accepted[r] = completed[r] \o InFlight(r) \o b.outbox
      BY DEF QueueInv, WrittenInOrder
    <3>3. Append(completed[r] \o InFlight(r) \o b.outbox, f)
            = completed[r] \o InFlight(r) \o Append(b.outbox, f)
      BY <2>2, <2>7, <3>1, AppendAtEnd, Zenon
    <3>. QED
      BY <3>2, <3>3, Zenon
  <2>9. \A q \in Reactors : accepted'[q] = completed'[q] \o InFlight(q)' \o box'[q].outbox
    <3> TAKE q \in Reactors
    <3>1. CASE q = r
      <4>1. InFlight(r)' = InFlight(r) /\ box'[r].outbox = Append(b.outbox, f)
        BY <2>1, <1>1 DEF InFlight, QueueInv, Boxes
      <4>2. accepted'[r] = Append(accepted[r], f) /\ completed'[r] = completed[r]
        BY <2>1 DEF QueueInv
      <4>. QED
        BY <3>1, <4>1, <4>2, <2>8
    <3>2. CASE q # r
      <4>1. box'[q] = box[q] /\ accepted'[q] = accepted[q] /\ completed'[q] = completed[q]
        BY <2>1, <3>2 DEF QueueInv
      <4>. QED
        BY <4>1 DEF QueueInv, WrittenInOrder, InFlight
    <3>. QED
      BY <3>1, <3>2
  <2>. QED
    BY <2>3, <2>4, <2>6, <2>9 DEF QueueInv, WrittenInOrder
<1>3. CASE ~Accepts(b)
  <2>1. /\ box' \in [Reactors -> Boxes]
        /\ accepted' = accepted
        /\ \A q \in Reactors : SameFlags(q) /\ SameQueue(q)
    BY <1>1, <1>3 DEF EnqueueSection, Enqueued, Accepts, QueueInv, SameFlags, SameQueue, Boxes
  <2>. QED
    BY <2>1, FlagsKeepQueue
<1>. QED
  BY <1>2, <1>3

\* startWrite_ (EdrielGrpcService.cpp 257-268).
LEMMA StartWriteKeepsQueue ==
  ASSUME QueueInv, NEW r \in Reactors, startWrite_(r), UNCHANGED <<accepted, completed>>
  PROVE  QueueInv' /\ \A q \in Reactors : SameFlags(q)
<1> DEFINE b == box[r]
<1>1. b \in Boxes
  BY DEF QueueInv
<1>2. CASE StartsWrite(b)
  <2>1. box' = [box EXCEPT ![r] = [b EXCEPT !.writeBuffer = Head(b.outbox),
                                            !.outbox = Tail(b.outbox), !.writing = TRUE]]
    BY <1>2 DEF startWrite_, WriteStarted
  <2>2. b.outbox \in Seq(Frames) /\ b.outbox # <<>> /\ ~b.writing
    BY <1>1, <1>2 DEF Boxes, StartsWrite
  <2>3. /\ Head(b.outbox) \in Frames /\ Tail(b.outbox) \in Seq(Frames)
        /\ Len(Tail(b.outbox)) = Len(b.outbox) - 1
    BY <2>2, HeadTailProperties
  <2>4. box' \in [Reactors -> Boxes] /\ \A q \in Reactors : SameFlags(q)
    BY <1>1, <2>1, <2>3 DEF QueueInv, Boxes, SameFlags
  <2>5. BelowHighWater'
    BY <1>1, <2>1, <2>2, <2>3, GateInsideBound DEF QueueInv, BelowHighWater, Boxes
  <2>6. \A q \in Reactors : accepted'[q] = completed'[q] \o InFlight(q)' \o box'[q].outbox
    <3> TAKE q \in Reactors
    <3>1. CASE q = r
      <4>1. InFlight(r)' = <<Head(b.outbox)>> /\ box'[r].outbox = Tail(b.outbox)
        BY <2>1, <1>1 DEF InFlight, QueueInv, Boxes
      <4>2. accepted[r] = completed[r] \o <<>> \o b.outbox
        BY <2>2 DEF QueueInv, WrittenInOrder, InFlight
      <4>3. completed[r] \in Seq(Frames)
        BY DEF QueueInv
      <4>4. completed[r] \o <<>> \o b.outbox
              = completed[r] \o <<Head(b.outbox)>> \o Tail(b.outbox)
        BY <2>2, <4>3, FrontToFlight
      <4>. QED
        BY <3>1, <4>1, <4>2, <4>4
    <3>2. CASE q # r
      <4>1. box'[q] = box[q]
        BY <2>1, <3>2 DEF QueueInv
      <4>. QED
        BY <4>1 DEF QueueInv, WrittenInOrder, InFlight
    <3>. QED
      BY <3>1, <3>2
  <2>. QED
    BY <2>4, <2>5, <2>6 DEF QueueInv, WrittenInOrder
<1>3. CASE ~StartsWrite(b)
  <2>1. box' = box
    BY <1>3 DEF startWrite_, WriteStarted, QueueInv
  <2>. QED
    BY <2>1 DEF QueueInv, WrittenInOrder, BelowHighWater, InFlight, SameFlags
<1>. QED
  BY <1>2, <1>3

\* The first section of OnWriteDone (EdrielGrpcService.cpp 115-125).
LEMMA WriteEndsKeepsQueue ==
  ASSUME QueueInv, NEW r \in Reactors, WriteEnds(r)
  PROVE  QueueInv' /\ \A q \in Reactors : SameFlags(q)
<1> DEFINE b == box[r]
<1>1. b \in Boxes
  BY DEF QueueInv
<1>2. /\ b.writing
      /\ box' = [box EXCEPT ![r].writing = FALSE]
      /\ completed' = [completed EXCEPT ![r] = Append(@, b.writeBuffer)]
      /\ accepted' = accepted
  BY DEF WriteEnds
<1>3. b.writeBuffer \in Frames /\ b.outbox \in Seq(Frames) /\ completed[r] \in Seq(Frames)
  BY <1>1 DEF Boxes, QueueInv
<1>4. box' \in [Reactors -> Boxes] /\ \A q \in Reactors : SameFlags(q)
  BY <1>1, <1>2 DEF QueueInv, Boxes, SameFlags
<1>5. completed' \in [Reactors -> Seq(Frames)]
  BY <1>2, <1>3, AppendProperties DEF QueueInv
<1>6. BelowHighWater'
  BY <1>1, <1>2 DEF QueueInv, BelowHighWater, Boxes
<1>7. \A q \in Reactors : accepted'[q] = completed'[q] \o InFlight(q)' \o box'[q].outbox
  <2> TAKE q \in Reactors
  <2>1. CASE q = r
    <3>1. InFlight(r)' = <<>> /\ box'[r].outbox = b.outbox
      BY <1>1, <1>2 DEF InFlight, QueueInv, Boxes
    <3>2. completed'[r] = Append(completed[r], b.writeBuffer)
      BY <1>2 DEF QueueInv
    <3>3. accepted[r] = completed[r] \o <<b.writeBuffer>> \o b.outbox
      BY <1>2 DEF QueueInv, WrittenInOrder, InFlight
    <3>4. completed[r] \o <<b.writeBuffer>> \o b.outbox
            = Append(completed[r], b.writeBuffer) \o <<>> \o b.outbox
      BY <1>3, FlightToCompleted
    <3>. QED
      BY <1>2, <2>1, <3>1, <3>2, <3>3, <3>4
  <2>2. CASE q # r
    <3>1. box'[q] = box[q] /\ completed'[q] = completed[q]
      BY <1>2, <2>2 DEF QueueInv
    <3>. QED
      BY <1>2, <3>1 DEF QueueInv, WrittenInOrder, InFlight
  <2>. QED
    BY <2>1, <2>2
<1>. QED
  BY <1>2, <1>4, <1>5, <1>6, <1>7 DEF QueueInv, WrittenInOrder

-------------------------------------------------------------------------------
(***************************************************************************)
(* The control part: types of the other variables, and the table part of   *)
(* the invariant with the steps that cannot disturb it.                    *)
(***************************************************************************)
ControlTypes ==
  /\ table \in Reactors \cup {None}
  /\ stream \in [Reactors -> Streams]
  /\ reading \in [Reactors -> [at : ReadPcs, left : Nat]]
  /\ writeDone \in [Reactors -> [WritePcs -> Nat]]
  /\ cancel \in [Reactors -> {"no", "evict", "ran"}]
  /\ push \in [at : {"enqueue", "kick"}, to : Reactors] \cup {Idle}
  /\ pushes \in Frames
  /\ finishes \in [Reactors -> Nat]

TableInv == PushHoldsEntry /\ RegisteredOrDead /\ EntryIsKnown /\ EvicteeIsDead

\* The invariant, regrouped by what the steps disturb.
LEMMA InvParts == ReactorInv <=> QueueInv /\ ControlTypes /\ FinishOnce /\ TableInv
BY DEF ReactorInv, QueueInv, ControlTypes, TableInv, TypeOK

\* The same after a step.
LEMMA InvPartsNext == ReactorInv' <=> QueueInv' /\ ControlTypes' /\ FinishOnce' /\ TableInv'
BY DEF ReactorInv, QueueInv, ControlTypes, TableInv, TypeOK

\* A step that opens no new way into the table and revives no reactor.
Quiet ==
  /\ UNCHANGED <<table, stream>>
  /\ push'.at # "idle" => push.at # "idle" /\ push'.to = push.to
  /\ \A r \in Reactors :
       /\ box'[r].initialised = box[r].initialised
       /\ Dead(box[r]) => Dead(box'[r])
       /\ reading'[r].at \in {"presence", "presenceKick"} =>
            reading[r].at \in {"presence", "presenceKick"}
       /\ reading'[r].at = "register" => reading[r].at = "register"
       /\ cancel'[r] = "evict" => cancel[r] = "evict" \/ Dead(box'[r])
       /\ reading[r].at = "closed" => reading'[r].at = "closed"

\* A quiet step keeps the table's part of the invariant.
LEMMA QuietKeepsTable ==
  ASSUME TableInv, Quiet
  PROVE  TableInv'
<1>1. PushHoldsEntry'
  BY DEF TableInv, Quiet, PushHoldsEntry
<1>2. RegisteredOrDead'
  BY DEF TableInv, Quiet, RegisteredOrDead
<1>3. EntryIsKnown'
  BY DEF TableInv, Quiet, EntryIsKnown
<1>4. EvicteeIsDead'
  BY DEF TableInv, Quiet, EvicteeIsDead
<1>. QED
  BY <1>1, <1>2, <1>3, <1>4 DEF TableInv

\* The finish count follows the flag when neither moves.
LEMMA FlagsKeepFinish ==
  ASSUME FinishOnce, UNCHANGED finishes,
         \A r \in Reactors : box'[r].finished = box[r].finished
  PROVE  FinishOnce'
BY DEF FinishOnce

\* The OnWriteDone counts stay natural numbers.
LEMMA MovesKeepsCounts ==
  ASSUME writeDone \in [Reactors -> [WritePcs -> Nat]], NEW r \in Reactors,
         NEW from, NEW to, from \in WritePcs => writeDone[r][from] > 0, Moves(r, from, to)
  PROVE  writeDone' \in [Reactors -> [WritePcs -> Nat]]
<1> DEFINE new == [pc \in WritePcs |-> writeDone[r][pc] + (IF pc \in to THEN 1 ELSE 0)
                                                       - (IF pc = from THEN 1 ELSE 0)]
<1>1. writeDone' = [writeDone EXCEPT ![r] = new]
  BY DEF Moves
<1>2. new \in [WritePcs -> Nat]
  <2> SUFFICES ASSUME NEW pc \in WritePcs
               PROVE  writeDone[r][pc] + (IF pc \in to THEN 1 ELSE 0)
                                       - (IF pc = from THEN 1 ELSE 0) \in Nat
    OBVIOUS
  <2>1. writeDone[r][pc] \in Nat
    OBVIOUS
  <2>. QED
    BY <2>1
<1> HIDE DEF new
<1>. QED
  BY <1>1, <1>2

\* finish_ (EdrielGrpcService.cpp 190-204).
LEMMA FinishKeeps ==
  ASSUME QueueInv, FinishOnce, finishes \in [Reactors -> Nat], NEW r \in Reactors,
         finish_(r), UNCHANGED <<accepted, completed>>
  PROVE  /\ QueueInv'
         /\ FinishOnce'
         /\ finishes' \in [Reactors -> Nat]
         /\ \A q \in Reactors : /\ box'[q].initialised = box[q].initialised
                                /\ Dead(box[q]) => Dead(box'[q])
<1>1. box[r] \in Boxes
  BY DEF QueueInv
<1>2. /\ box' \in [Reactors -> Boxes]
      /\ \A q \in Reactors : /\ SameQueue(q)
                             /\ box'[q].initialised = box[q].initialised
                             /\ Dead(box[q]) => Dead(box'[q])
  BY <1>1 DEF finish_, QueueInv, Boxes, SameQueue, Dead
<1>3. QueueInv'
  BY <1>2, FlagsKeepQueue
<1>4. finishes' \in [Reactors -> Nat]
  BY DEF finish_
<1>5. FinishOnce'
  BY <1>1 DEF finish_, FinishOnce, QueueInv, Boxes
<1>. QED
  BY <1>2, <1>3, <1>4, <1>5

-------------------------------------------------------------------------------
(***************************************************************************)
(* One lemma per side of the system: its steps preserve the invariant.     *)
(***************************************************************************)

\* The client dials, half-closes or cancels.
LEMMA EnvironmentStep ==
  ASSUME ReactorInv, NEW r \in Reactors, Environment(r)
  PROVE  ReactorInv'
<1>1. QueueInv /\ ControlTypes /\ FinishOnce /\ TableInv
  BY InvParts
<1>2. UNCHANGED <<table, box, push, pushes, writeDone, cancel, accepted, completed, finishes>>
  BY DEF Environment, StreamParticipants, HalfClose, Break
<1>3. QueueInv' /\ FinishOnce'
  BY <1>1, <1>2 DEF QueueInv, WrittenInOrder, BelowHighWater, InFlight, FinishOnce
<1>4. ControlTypes'
  <2>1. stream' \in [Reactors -> Streams]
    <3>1. stream \in [Reactors -> Streams]
      BY <1>1 DEF ControlTypes
    <3>2. \E x \in Streams : stream' = [stream EXCEPT ![r] = x]
      BY DEF Environment, StreamParticipants, HalfClose, Break, Streams
    <3>. QED
      BY <3>1, <3>2
  <2>2. reading' \in [Reactors -> [at : ReadPcs, left : Nat]]
    <3>1. reading \in [Reactors -> [at : ReadPcs, left : Nat]] /\ "waiting" \in ReadPcs
      BY <1>1 DEF ControlTypes, ReadPcs
    <3>2. reading' = reading \/ reading' = [reading EXCEPT ![r].at = "waiting"]
      BY DEF Environment, StreamParticipants, HalfClose, Break
    <3>. QED
      BY <3>1, <3>2
  <2>. QED
    BY <1>1, <1>2, <2>1, <2>2 DEF ControlTypes
<1>5. \A q \in Reactors : stream'[q] = "done" => stream[q] = "done" /\ reading'[q] = reading[q]
  BY <1>1 DEF ControlTypes, Environment, StreamParticipants, HalfClose, Break
<1>6. \A q \in Reactors : reading'[q].at \in {"register", "presence", "presenceKick"} =>
                             reading'[q].at = reading[q].at
  BY <1>1 DEF ControlTypes, Environment, StreamParticipants, HalfClose, Break
<1>7. TableInv'
  BY <1>1, <1>2, <1>5, <1>6 DEF TableInv, PushHoldsEntry, RegisteredOrDead, EntryIsKnown, EvicteeIsDead
<1>. QED
  BY <1>3, <1>4, <1>7, InvPartsNext

\* The callbacks of a write.
LEMMA WriteStep ==
  ASSUME ReactorInv, NEW r \in Reactors, WriteSide(r)
  PROVE  ReactorInv'
<1>1. QueueInv /\ ControlTypes /\ FinishOnce /\ TableInv
  BY InvParts
<1>2. UNCHANGED <<table, stream, reading, cancel, push, pushes>>
  BY DEF WriteSide, OnWriteDone, OnWriteFailed, WriteEnds, FinishBroken, DrainNext,
         Settle, FinishDrained
<1>3. SUFFICES /\ QueueInv' /\ FinishOnce'
               /\ writeDone' \in [Reactors -> [WritePcs -> Nat]]
               /\ finishes' \in [Reactors -> Nat]
               /\ \A q \in Reactors : /\ box'[q].initialised = box[q].initialised
                                      /\ Dead(box[q]) => Dead(box'[q])
  <2>1. ControlTypes'
    BY <1>1, <1>2, <1>3 DEF ControlTypes
  <2>2. Quiet
    BY <1>2, <1>3 DEF Quiet
  <2>. QED
    BY <1>1, <1>3, <2>1, <2>2, QuietKeepsTable, InvPartsNext
<1>4. writeDone \in [Reactors -> [WritePcs -> Nat]] /\ finishes \in [Reactors -> Nat]
  BY <1>1 DEF ControlTypes
<1>5. "none" \notin WritePcs
  BY DEF WritePcs
<1>6. CASE OnWriteDone(r) \/ OnWriteFailed(r)
  <2>1. WriteEnds(r) /\ UNCHANGED finishes /\ \E to : Moves(r, "none", to)
    BY <1>6 DEF OnWriteDone, OnWriteFailed, WriteEnds
  <2>2. QueueInv' /\ \A q \in Reactors : SameFlags(q)
    BY <1>1, <2>1, WriteEndsKeepsQueue
  <2>3. FinishOnce'
    BY <1>1, <2>1, <2>2, FlagsKeepFinish DEF SameFlags
  <2>4. writeDone' \in [Reactors -> [WritePcs -> Nat]]
    BY <1>4, <1>5, <2>1, MovesKeepsCounts
  <2>. QED
    BY <1>4, <2>1, <2>2, <2>3, <2>4 DEF SameFlags, Dead
<1>7. CASE FinishBroken(r) \/ FinishDrained(r)
  <2>1. /\ finish_(r) /\ UNCHANGED <<accepted, completed>>
        /\ \E from \in WritePcs : writeDone[r][from] > 0 /\ Moves(r, from, {})
    BY <1>7 DEF FinishBroken, FinishDrained, WritePcs
  <2>2. writeDone' \in [Reactors -> [WritePcs -> Nat]]
    BY <1>4, <2>1, MovesKeepsCounts
  <2>. QED
    BY <1>1, <1>4, <2>1, <2>2, FinishKeeps
<1>8. CASE DrainNext(r)
  <2>1. /\ startWrite_(r) /\ UNCHANGED <<accepted, completed, finishes>>
        /\ writeDone[r]["drain"] > 0 /\ Moves(r, "drain", {"settle"})
    BY <1>8 DEF DrainNext
  <2>2. QueueInv' /\ \A q \in Reactors : SameFlags(q)
    BY <1>1, <2>1, StartWriteKeepsQueue
  <2>3. FinishOnce'
    BY <1>1, <2>1, <2>2, FlagsKeepFinish DEF SameFlags
  <2>4. writeDone' \in [Reactors -> [WritePcs -> Nat]]
    BY <1>4, <2>1, MovesKeepsCounts
  <2>. QED
    BY <1>4, <2>1, <2>2, <2>3, <2>4 DEF SameFlags, Dead
<1>9. CASE Settle(r)
  <2>1. /\ UNCHANGED <<accepted, completed, finishes>>
        /\ box' = [box EXCEPT ![r].backpressured = @ /\ ~AtLowWater(box[r])]
        /\ writeDone[r]["settle"] > 0 /\ \E to : Moves(r, "settle", to)
    BY <1>9 DEF Settle
  <2>2. box \in [Reactors -> Boxes]
    BY <1>1 DEF QueueInv
  <2>3. box' \in [Reactors -> Boxes] /\ \A q \in Reactors : SameFlags(q) /\ SameQueue(q)
    <3>1. PICK latch \in BOOLEAN : box' = [box EXCEPT ![r].backpressured = latch]
      BY <2>1, <2>2 DEF Boxes
    <3>. QED
      BY <2>2, <3>1 DEF Boxes, SameFlags, SameQueue
  <2>4. QueueInv'
    BY <1>1, <2>1, <2>3, FlagsKeepQueue
  <2>5. FinishOnce'
    BY <1>1, <2>1, <2>3, FlagsKeepFinish DEF SameFlags
  <2>6. writeDone' \in [Reactors -> [WritePcs -> Nat]]
    BY <1>4, <2>1, MovesKeepsCounts
  <2>. QED
    BY <1>4, <2>1, <2>3, <2>4, <2>5, <2>6 DEF SameFlags, Dead
<1>. QED
  BY <1>6, <1>7, <1>8, <1>9 DEF WriteSide

\* Where a reactor's OnReadDone may go in a quiet step.
ReadKeeps(r) ==
  /\ reading'[r].at \in {"presence", "presenceKick"} =>
       reading[r].at \in {"presence", "presenceKick"}
  /\ reading'[r].at = "register" => reading[r].at = "register"
  /\ reading[r].at = "closed" => reading'[r].at = "closed"

\* The first heartbeat: initialised_ is set before anything is registered.
LEMMA HeartbeatStep ==
  ASSUME ReactorInv, NEW r \in Reactors, OnHeartbeat(r)
  PROVE  ReactorInv'
<1>1. QueueInv /\ ControlTypes /\ FinishOnce /\ TableInv
  BY InvParts
<1>2. /\ UNCHANGED <<table, stream, writeDone, cancel, push, pushes, accepted, completed, finishes>>
      /\ reading[r].at = "heartbeat"
      /\ box' = [box EXCEPT ![r].initialised = TRUE]
  BY DEF OnHeartbeat
<1>3. PICK at \in {"register", "denied"} : reading' = [reading EXCEPT ![r].at = at]
  BY DEF OnHeartbeat
<1>4. box \in [Reactors -> Boxes]
  BY <1>1 DEF QueueInv
<1>5. /\ box' \in [Reactors -> Boxes]
      /\ box'[r].initialised
      /\ \A q \in Reactors : /\ SameQueue(q)
                             /\ box'[q].finished = box[q].finished
                             /\ box'[q].cancelled = box[q].cancelled
                             /\ box[q].initialised => box'[q].initialised
  BY <1>2, <1>4 DEF Boxes, SameQueue
<1>6. QueueInv'
  BY <1>1, <1>2, <1>5, FlagsKeepQueue
<1>7. FinishOnce'
  BY <1>1, <1>2, <1>5, FlagsKeepFinish
<1>8. ControlTypes'
  BY <1>1, <1>2, <1>3 DEF ControlTypes, ReadPcs
<1>9. /\ reading'[r].at \in {"register", "denied"}
      /\ \A q \in Reactors \ {r} : reading'[q] = reading[q]
  BY <1>1, <1>3 DEF ControlTypes
<1>10. PushHoldsEntry'
  BY <1>1, <1>2 DEF TableInv, PushHoldsEntry
<1>11. RegisteredOrDead'
  <2> SUFFICES ASSUME NEW q \in Reactors, reading'[q].at \in {"presence", "presenceKick"}
               PROVE  table' = q \/ Dead(box'[q])
    BY DEF RegisteredOrDead
  <2>1. reading'[q] = reading[q]
    BY <1>9
  <2>2. table = q \/ Dead(box[q])
    BY <1>1, <2>1 DEF TableInv, RegisteredOrDead
  <2>. QED
    BY <1>2, <1>5, <2>2 DEF Dead
<1>12. EntryIsKnown'
  <2> SUFFICES ASSUME NEW q \in Reactors
               PROVE  /\ stream'[q] = "done" => reading'[q].at = "closed" /\ table' # q
                      /\ table' = q \/ reading'[q].at = "register" => box'[q].initialised
    BY DEF EntryIsKnown
  <2>1. /\ stream[q] = "done" => reading[q].at = "closed" /\ table # q
        /\ table = q \/ reading[q].at = "register" => box[q].initialised
    BY <1>1 DEF TableInv, EntryIsKnown
  <2>2. CASE q = r
    BY <1>2, <1>5, <2>1, <2>2
  <2>3. CASE q # r
    BY <1>2, <1>5, <1>9, <2>1, <2>3
  <2>. QED
    BY <2>2, <2>3
<1>13. EvicteeIsDead'
  BY <1>1, <1>2, <1>5 DEF TableInv, EvicteeIsDead, Dead
<1>. QED
  BY <1>6, <1>7, <1>8, <1>10, <1>11, <1>12, <1>13, InvPartsNext DEF TableInv

(***************************************************************************)
(* registerSubscriber: the reactor becomes the entry, and the one it       *)
(* replaces is marked in the same section.                                 *)
(***************************************************************************)
LEMMA RegisterStep ==
  ASSUME ReactorInv, NEW r \in Reactors, Register(r)
  PROVE  ReactorInv'
<1>1. QueueInv /\ ControlTypes /\ FinishOnce /\ TableInv
  BY InvParts
<1>2. /\ UNCHANGED <<stream, writeDone, cancel, push, pushes, accepted, completed, finishes>>
      /\ reading[r].at = "register"
      /\ reading' = [reading EXCEPT ![r] = [at |-> "presence", left |-> Presence]]
      /\ push.at = "idle"
      /\ table' = r
      /\ box' = [q \in Reactors |->
                   IF q = table /\ q # r THEN [box[q] EXCEPT !.cancelled = TRUE] ELSE box[q]]
  BY DEF Register, registerSubscriber, SubsFree
<1>3. box \in [Reactors -> Boxes]
  BY <1>1 DEF QueueInv
<1>4. /\ box' \in [Reactors -> Boxes]
      /\ \A q \in Reactors : /\ SameQueue(q)
                             /\ box'[q].finished = box[q].finished
                             /\ box'[q].initialised = box[q].initialised
                             /\ box[q].cancelled => box'[q].cancelled
                             /\ q = table /\ q # r => box'[q].cancelled
  BY <1>2, <1>3 DEF Boxes, SameQueue
<1>5. QueueInv'
  BY <1>1, <1>2, <1>4, FlagsKeepQueue
<1>6. FinishOnce'
  BY <1>1, <1>2, <1>4, FlagsKeepFinish
<1>7. ControlTypes'
  BY <1>1, <1>2, FramesAssumption DEF ControlTypes, ReadPcs
<1>8. \A q \in Reactors : q # r => reading'[q] = reading[q]
  BY <1>1, <1>2 DEF ControlTypes
<1>9. PushHoldsEntry'
  BY <1>2 DEF PushHoldsEntry
<1>10. RegisteredOrDead'
  <2> SUFFICES ASSUME NEW q \in Reactors,
                      reading'[q].at \in {"presence", "presenceKick"}, q # r
               PROVE  Dead(box'[q])
    BY <1>2 DEF RegisteredOrDead
  <2>1. table = q \/ Dead(box[q])
    BY <1>1, <1>8 DEF TableInv, RegisteredOrDead
  <2>. QED
    BY <1>4, <2>1 DEF Dead
<1>11. EntryIsKnown'
  <2>1. stream[r] # "done" /\ box[r].initialised
    BY <1>1, <1>2 DEF TableInv, EntryIsKnown
  <2>. QED
    BY <1>1, <1>2, <1>4, <1>8, <2>1 DEF TableInv, EntryIsKnown
<1>12. EvicteeIsDead'
  BY <1>1, <1>2, <1>4 DEF TableInv, EvicteeIsDead, Dead
<1>. QED
  BY <1>5, <1>6, <1>7, <1>9, <1>10, <1>11, <1>12, InvPartsNext DEF TableInv

\* The other steps of OnReadDone.
LEMMA ReadStep ==
  ASSUME ReactorInv, NEW r \in Reactors, ReadSide(r)
  PROVE  ReactorInv'
<1>1. QueueInv /\ ControlTypes /\ FinishOnce /\ TableInv
  BY InvParts
<1>2. /\ reading \in [Reactors -> [at : ReadPcs, left : Nat]]
      /\ box \in [Reactors -> Boxes]
      /\ finishes \in [Reactors -> Nat]
  BY <1>1 DEF ControlTypes, QueueInv
<1>3. ASSUME reading' \in [Reactors -> [at : ReadPcs, left : Nat]],
             \A q \in Reactors : ReadKeeps(q),
             UNCHANGED <<table, stream, writeDone, cancel, push, pushes>>,
             finishes' \in [Reactors -> Nat],
             QueueInv', FinishOnce',
             \A q \in Reactors : /\ box'[q].initialised = box[q].initialised
                                 /\ Dead(box[q]) => Dead(box'[q])
      PROVE  ReactorInv'
  <2>1. ControlTypes'
    BY <1>1, <1>3 DEF ControlTypes
  <2>2. Quiet
    BY <1>3 DEF Quiet, ReadKeeps
  <2>. QED
    BY <1>1, <1>3, <2>1, <2>2, QuietKeepsTable, InvPartsNext
<1>4. CASE HeartbeatArrives(r) \/ RearmRead(r)
  <2>1. /\ reading' \in [Reactors -> [at : ReadPcs, left : Nat]]
        /\ \A q \in Reactors : ReadKeeps(q)
    <3>1. PICK at \in {"heartbeat", "waiting"} : reading' = [reading EXCEPT ![r].at = at]
      BY <1>4 DEF HeartbeatArrives, RearmRead
    <3>2. reading[r].at # "closed"
      BY <1>2, <1>4 DEF HeartbeatArrives, RearmRead
    <3>. QED
      BY <1>2, <3>1, <3>2 DEF ReadKeeps, ReadPcs
  <2>2. UNCHANGED <<table, stream, box, writeDone, cancel, push, pushes,
                    accepted, completed, finishes>>
    BY <1>4 DEF HeartbeatArrives, RearmRead
  <2>3. QueueInv' /\ FinishOnce' /\ finishes' \in [Reactors -> Nat]
    BY <1>1, <1>2, <2>2 DEF QueueInv, WrittenInOrder, BelowHighWater, InFlight, FinishOnce
  <2>. QED
    BY <1>3, <2>1, <2>2, <2>3
<1>5. CASE DenyDialer(r) \/ FinishAfterRead(r)
  <2>1. /\ reading' \in [Reactors -> [at : ReadPcs, left : Nat]]
        /\ \A q \in Reactors : ReadKeeps(q)
    BY <1>2, <1>5 DEF DenyDialer, FinishAfterRead, ReadKeeps, ReadPcs
  <2>2. /\ finish_(r)
        /\ UNCHANGED <<table, stream, writeDone, cancel, push, pushes, accepted, completed>>
    BY <1>5 DEF DenyDialer, FinishAfterRead
  <2>3. /\ QueueInv' /\ FinishOnce' /\ finishes' \in [Reactors -> Nat]
        /\ \A q \in Reactors : /\ box'[q].initialised = box[q].initialised
                               /\ Dead(box[q]) => Dead(box'[q])
    BY <1>1, <1>2, <2>2, FinishKeeps
  <2>. QED
    BY <1>3, <2>1, <2>2, <2>3
<1>6. CASE EnqueuePresence(r)
  <2>1. PICK at \in {"presence", "presenceKick"} :
          reading' = [reading EXCEPT ![r] = [at |-> at, left |-> reading[r].left - 1]]
    BY <1>6 DEF EnqueuePresence
  <2>2. /\ EnqueueSection(r, PresenceFrame)
        /\ UNCHANGED <<table, stream, writeDone, cancel, push, pushes, completed, finishes>>
        /\ reading[r].at = "presence" /\ reading[r].left - 1 \in Nat
    BY <1>2, <1>6 DEF EnqueuePresence
  <2>3. /\ reading' \in [Reactors -> [at : ReadPcs, left : Nat]]
        /\ \A q \in Reactors : ReadKeeps(q)
    BY <1>2, <2>1, <2>2 DEF ReadKeeps, ReadPcs
  <2>4. PresenceFrame \in Frames
    BY FramesAssumption DEF PresenceFrame, Frames
  <2>5. QueueInv' /\ \A q \in Reactors : SameFlags(q)
    BY <1>1, <2>2, <2>4, EnqueueKeepsQueue
  <2>6. FinishOnce' /\ finishes' \in [Reactors -> Nat]
    BY <1>1, <1>2, <2>2, <2>5, FlagsKeepFinish DEF SameFlags
  <2>. QED
    BY <1>3, <2>2, <2>3, <2>5, <2>6 DEF SameFlags, Dead
<1>7. CASE KickPresence(r) \/ KickAfterRead(r)
  <2>1. /\ reading' \in [Reactors -> [at : ReadPcs, left : Nat]]
        /\ \A q \in Reactors : ReadKeeps(q)
    BY <1>2, <1>7 DEF KickPresence, KickAfterRead, ReadKeeps, ReadPcs
  <2>2. /\ startWrite_(r)
        /\ UNCHANGED <<table, stream, writeDone, cancel, push, pushes,
                       accepted, completed, finishes>>
    BY <1>7 DEF KickPresence, KickAfterRead
  <2>3. QueueInv' /\ \A q \in Reactors : SameFlags(q)
    BY <1>1, <2>2, StartWriteKeepsQueue
  <2>4. FinishOnce' /\ finishes' \in [Reactors -> Nat]
    BY <1>1, <1>2, <2>2, <2>3, FlagsKeepFinish DEF SameFlags
  <2>. QED
    BY <1>3, <2>1, <2>2, <2>3, <2>4 DEF SameFlags, Dead
<1>8. CASE OnReadFailed(r)
  <2>1. PICK at \in {"closed", "finish", "kick"} : reading' = [reading EXCEPT ![r].at = at]
    BY <1>8 DEF OnReadFailed
  <2>2. PICK pending \in BOOLEAN : box' = [box EXCEPT ![r].finishPending = pending]
    BY <1>2, <1>8 DEF OnReadFailed, Boxes
  <2>3. /\ UNCHANGED <<table, stream, writeDone, cancel, push, pushes,
                       accepted, completed, finishes>>
        /\ reading[r].at = "waiting"
    BY <1>8 DEF OnReadFailed
  <2>4. /\ reading' \in [Reactors -> [at : ReadPcs, left : Nat]]
        /\ \A q \in Reactors : ReadKeeps(q)
    BY <1>2, <2>1, <2>3 DEF ReadKeeps, ReadPcs
  <2>5. box' \in [Reactors -> Boxes] /\ \A q \in Reactors : SameFlags(q) /\ SameQueue(q)
    BY <1>2, <2>2 DEF Boxes, SameFlags, SameQueue
  <2>6. QueueInv' /\ FinishOnce' /\ finishes' \in [Reactors -> Nat]
    BY <1>1, <1>2, <2>3, <2>5, FlagsKeepQueue, FlagsKeepFinish DEF SameFlags
  <2>. QED
    BY <1>3, <2>3, <2>4, <2>5, <2>6 DEF SameFlags, Dead
<1>. QED
  BY <1>4, <1>5, <1>6, <1>7, <1>8, HeartbeatStep, RegisterStep DEF ReadSide

\* A table that loses at most its entry r.
LEMMA EvictionKeepsTable ==
  ASSUME ReactorInv, NEW r \in Reactors, unregisterSubscriber(r),
         UNCHANGED <<box, reading, push>>, Dead(box[r]),
         \A q \in Reactors : /\ \/ stream'[q] = stream[q]
                                \/ q = r /\ reading[q].at = "closed"
                             /\ cancel'[q] = "evict" => cancel[q] = "evict"
  PROVE  TableInv'
<1>1. TableInv /\ ControlTypes
  BY InvParts
<1>2. push.at = "idle" /\ table' = (IF table = r THEN None ELSE table)
  BY DEF unregisterSubscriber, SubsFree
<1>3. None \notin Reactors
  BY DialsAssumption DEF None, Reactors
<1>4. PushHoldsEntry'
  BY <1>2 DEF PushHoldsEntry
<1>5. RegisteredOrDead'
  BY <1>1, <1>2 DEF TableInv, RegisteredOrDead
<1>6. EntryIsKnown'
  BY <1>1, <1>2, <1>3 DEF TableInv, EntryIsKnown
<1>7. EvicteeIsDead'
  BY <1>1 DEF TableInv, EvicteeIsDead
<1>. QED
  BY <1>4, <1>5, <1>6, <1>7 DEF TableInv

\* OnCancel marks the reactor under m_ and evicts it afterwards.
LEMMA CancelStep ==
  ASSUME ReactorInv, NEW r \in Reactors, CancelSide(r)
  PROVE  ReactorInv'
<1>1. QueueInv /\ ControlTypes /\ FinishOnce /\ TableInv
  BY InvParts
<1>2. box \in [Reactors -> Boxes]
  BY <1>1 DEF QueueInv
<1>3. CASE OnCancel(r)
  <2>1. /\ UNCHANGED <<table, stream, reading, writeDone, push, pushes,
                       accepted, completed, finishes>>
        /\ box' = [box EXCEPT ![r].cancelled = @ \/ ~box[r].finished]
        /\ \E x \in {"evict", "ran"} : cancel' = [cancel EXCEPT ![r] = x]
        /\ cancel'[r] = "evict" => ~box[r].finished
    BY <1>1, <1>3 DEF OnCancel, ControlTypes
  <2>2. /\ box' \in [Reactors -> Boxes]
        /\ \A q \in Reactors : /\ SameQueue(q)
                               /\ box'[q].finished = box[q].finished
                               /\ box'[q].initialised = box[q].initialised
                               /\ Dead(box[q]) => Dead(box'[q])
        /\ ~box[r].finished => Dead(box'[r])
    <3>1. box[r] \in Boxes /\ box[r].cancelled \in BOOLEAN /\ box[r].finished \in BOOLEAN
      BY <1>2 DEF Boxes
    <3>2. PICK c \in BOOLEAN : /\ box' = [box EXCEPT ![r].cancelled = c]
                               /\ c = (box[r].cancelled \/ ~box[r].finished)
      BY <2>1, <3>1
    <3>3. box' \in [Reactors -> Boxes]
      BY <1>2, <3>1, <3>2 DEF Boxes
    <3>4. \A q \in Reactors \ {r} : box'[q] = box[q]
      BY <1>2, <3>2
    <3>5. /\ SameQueue(r)
          /\ box'[r].finished = box[r].finished
          /\ box'[r].initialised = box[r].initialised
          /\ box'[r].cancelled = c
      BY <1>2, <3>1, <3>2 DEF Boxes, SameQueue
    <3>. QED
      BY <3>2, <3>3, <3>4, <3>5 DEF SameQueue, Dead
  <2>3. QueueInv' /\ FinishOnce'
    BY <1>1, <2>1, <2>2, FlagsKeepQueue, FlagsKeepFinish
  <2>4. ControlTypes'
    BY <1>1, <2>1 DEF ControlTypes
  <2>5. \A q \in Reactors : cancel'[q] = "evict" => cancel[q] = "evict" \/ Dead(box'[q])
    BY <1>1, <2>1, <2>2 DEF ControlTypes
  <2>6. Quiet
    BY <2>1, <2>2, <2>5 DEF Quiet
  <2>. QED
    BY <1>1, <2>3, <2>4, <2>6, QuietKeepsTable, InvPartsNext
<1>4. CASE EvictCancelled(r)
  <2>1. /\ UNCHANGED <<stream, box, reading, writeDone, push, pushes,
                       accepted, completed, finishes>>
        /\ unregisterSubscriber(r)
        /\ cancel' = [cancel EXCEPT ![r] = "ran"]
        /\ cancel[r] = "evict"
    BY <1>4 DEF EvictCancelled
  <2>2. QueueInv' /\ FinishOnce'
    BY <1>1, <2>1 DEF QueueInv, WrittenInOrder, BelowHighWater, InFlight, FinishOnce
  <2>3. ControlTypes'
    BY <1>1, <2>1 DEF ControlTypes, unregisterSubscriber
  <2>4. Dead(box[r])
    BY <1>1, <2>1 DEF TableInv, EvicteeIsDead
  <2>5. TableInv'
    <3>1. \A q \in Reactors : cancel'[q] = "evict" => cancel[q] = "evict"
      BY <1>1, <2>1 DEF ControlTypes
    <3>. QED
      BY <2>1, <2>4, <3>1, EvictionKeepsTable
  <2>. QED
    BY <2>2, <2>3, <2>5, InvPartsNext
<1>. QED
  BY <1>3, <1>4 DEF CancelSide

\* OnDone leaves the table to the others and is the reactor's last step.
LEMMA DoneStep ==
  ASSUME ReactorInv, NEW r \in Reactors, OnDone(r)
  PROVE  ReactorInv'
<1>1. QueueInv /\ ControlTypes /\ FinishOnce /\ TableInv
  BY InvParts
<1>2. /\ UNCHANGED <<box, reading, writeDone, cancel, push, pushes,
                     accepted, completed, finishes>>
      /\ stream' = [stream EXCEPT ![r] = "done"]
      /\ reading[r].at = "closed" /\ box[r].finished
      /\ IF box[r].initialised THEN unregisterSubscriber(r) ELSE UNCHANGED table
  BY DEF OnDone, Quiescent
<1>3. QueueInv' /\ FinishOnce'
  BY <1>1, <1>2 DEF QueueInv, WrittenInOrder, BelowHighWater, InFlight, FinishOnce
<1>4. ControlTypes'
  BY <1>1, <1>2 DEF ControlTypes, Streams, unregisterSubscriber
<1>5. /\ stream'[r] = "done"
      /\ \A q \in Reactors \ {r} : stream'[q] = stream[q]
  BY <1>1, <1>2 DEF ControlTypes
<1>6. TableInv'
  <2>1. CASE box[r].initialised
    BY <1>2, <1>5, <2>1, EvictionKeepsTable DEF Dead
  <2>2. CASE ~box[r].initialised
    <3>1. table # r /\ table' = table
      BY <1>1, <1>2, <2>2 DEF TableInv, EntryIsKnown
    <3>. QED
      BY <1>1, <1>2, <1>5, <3>1 DEF TableInv, PushHoldsEntry, RegisteredOrDead, EntryIsKnown, EvicteeIsDead
  <2>. QED
    BY <2>1, <2>2
<1>. QED
  BY <1>3, <1>4, <1>6, InvPartsNext

\* pushData holds subsMutex_ from the lookup to the end of the enqueue.
LEMMA PushStep ==
  ASSUME ReactorInv, pushData \/ PushSide
  PROVE  ReactorInv'
<1>1. QueueInv /\ ControlTypes /\ FinishOnce /\ TableInv
  BY InvParts
<1>2. Idle.at = "idle"
  BY DEF Idle
<1>3. CASE pushData
  <2>1. /\ UNCHANGED <<table, stream, box, reading, writeDone, cancel,
                       accepted, completed, finishes>>
        /\ pushes < MaxPushes /\ pushes' = pushes + 1
        /\ push' = IF table = None THEN Idle ELSE [at |-> "enqueue", to |-> table]
    BY <1>3 DEF pushData
  <2>2. QueueInv' /\ FinishOnce'
    BY <1>1, <2>1 DEF QueueInv, WrittenInOrder, BelowHighWater, InFlight, FinishOnce
  <2>3. ControlTypes'
    BY <1>1, <2>1, FramesAssumption DEF ControlTypes, Frames
  <2>4. TableInv'
    BY <1>1, <1>2, <2>1 DEF TableInv, PushHoldsEntry, RegisteredOrDead, EntryIsKnown, EvicteeIsDead
  <2>. QED
    BY <2>2, <2>3, <2>4, InvPartsNext
<1>4. CASE PushSide
  <2>1. push.at # "idle" /\ push \in [at : {"enqueue", "kick"}, to : Reactors]
    BY <1>1, <1>2, <1>4 DEF ControlTypes, PushSide, PushEnqueue, PushKick
  <2>2. push.to \in Reactors /\ pushes \in Frames
    BY <1>1, <2>1 DEF ControlTypes
  <2>3. /\ UNCHANGED <<table, stream, reading, writeDone, cancel, pushes, completed, finishes>>
        /\ push' = Idle \/ push' = [push EXCEPT !.at = "kick"]
    BY <1>4 DEF PushSide, PushEnqueue, PushKick
  <2>4. QueueInv' /\ \A q \in Reactors : SameFlags(q)
    <3>1. CASE PushEnqueue
      BY <1>1, <2>2, <3>1, EnqueueKeepsQueue DEF PushEnqueue
    <3>2. CASE PushKick
      BY <1>1, <2>2, <3>2, StartWriteKeepsQueue DEF PushKick
    <3>. QED
      BY <1>4, <3>1, <3>2 DEF PushSide
  <2>5. FinishOnce'
    BY <1>1, <2>3, <2>4, FlagsKeepFinish DEF SameFlags
  <2>6. ControlTypes'
    BY <1>1, <2>1, <2>3 DEF ControlTypes
  <2>7. Quiet
    BY <1>2, <2>1, <2>3, <2>4 DEF Quiet, SameFlags, Dead
  <2>. QED
    BY <1>1, <2>4, <2>5, <2>6, <2>7, QuietKeepsTable, InvPartsNext
<1>. QED
  BY <1>3, <1>4

-------------------------------------------------------------------------------
(***************************************************************************)
(* The theorems.                                                           *)
(***************************************************************************)

\* The invariant holds before the first dial.
LEMMA InitReactor == Init => ReactorInv
<1> SUFFICES ASSUME Init PROVE ReactorInv
  OBVIOUS
<1>1. None \notin Reactors
  BY DialsAssumption DEF None, Reactors
<1>2. PresenceFrame \in Frames /\ 0 \in Frames
  BY FramesAssumption DEF PresenceFrame, Frames
<1>3. NewBox \in Boxes
  BY <1>2 DEF NewBox, Boxes
<1>4. TypeOK
  BY <1>2, <1>3 DEF Init, TypeOK, Streams, ReadPcs
<1>5. WrittenInOrder
  BY DEF Init, WrittenInOrder, InFlight, NewBox
<1>6. FinishOnce
  BY DEF Init, FinishOnce, NewBox
<1>7. BelowHighWater
  BY GateInsideBound DEF Init, BelowHighWater, NewBox
<1>8. PushHoldsEntry /\ RegisteredOrDead /\ EvicteeIsDead
  BY DEF Init, PushHoldsEntry, RegisteredOrDead, EvicteeIsDead, Idle
<1>9. EntryIsKnown
  BY <1>1 DEF Init, EntryIsKnown
<1>. QED
  BY <1>4, <1>5, <1>6, <1>7, <1>8, <1>9 DEF ReactorInv

\* A stuttering step changes nothing.
LEMMA StutterKeepsReactor == ReactorInv /\ UNCHANGED vars => ReactorInv'
BY DEF vars, ReactorInv, TypeOK, WrittenInOrder, InFlight, FinishOnce, BelowHighWater,
       PushHoldsEntry, RegisteredOrDead, EntryIsKnown, EvicteeIsDead

(***************************************************************************)
(* The inductive invariant holds in every behaviour, whatever the order in *)
(* which gRPC runs the callbacks.                                          *)
(***************************************************************************)
THEOREM ReactorInvHolds == Spec => []ReactorInv
<1>1. ReactorInv /\ [Next]_vars => ReactorInv'
  BY EnvironmentStep, ReadStep, WriteStep, CancelStep, DoneStep, PushStep, StutterKeepsReactor
     DEF Next
<1>. QED
  BY InitReactor, <1>1, PTL DEF Spec

\* Every variable keeps its type (EdrielGrpcService.hpp 153-171).
THEOREM ReactorTypes == Spec => []TypeOK
<1>1. ReactorInv => TypeOK
  BY DEF ReactorInv
<1>. QED
  BY ReactorInvHolds, <1>1, PTL

(***************************************************************************)
(* Frames leave in the order in which enqueue accepted them, none missing  *)
(* and none twice: WrittenInOrder for any interleaving of pushData, the    *)
(* presence loop and OnWriteDone.                                          *)
(***************************************************************************)
THEOREM FramesWrittenInOrder == Spec => []WrittenInOrder
<1>1. ReactorInv => WrittenInOrder
  BY DEF ReactorInv
<1>. QED
  BY ReactorInvHolds, <1>1, PTL

(***************************************************************************)
(* enqueue's gate bounds the publisher's memory: outbox and in-flight      *)
(* write together stay within reliable_outbox_max_frames.                  *)
(***************************************************************************)
THEOREM OutboxWithinBound == Spec => []WithinBound
<1>1. ReactorInv => WithinBound
  <2> SUFFICES ASSUME ReactorInv, NEW r \in Reactors
               PROVE  Len(box[r].outbox) + Len(InFlight(r)) <= OutboxMax
    BY DEF WithinBound
  <2>1. box[r].outbox \in Seq(Frames) /\ box[r].writeBuffer \in Frames
    BY DEF ReactorInv, TypeOK, Boxes
  <2>2. Len(box[r].outbox) \in Nat /\ Len(box[r].outbox) <= hwmFrames
    BY <2>1, LenProperties DEF ReactorInv, BelowHighWater
  <2>3. Len(InFlight(r)) \in {0, 1}
    <3>1. Len(<<box[r].writeBuffer>>) = 1 /\ Len(<<>>) = 0
      OBVIOUS
    <3>. QED
      BY <3>1 DEF InFlight
  <2> DEFINE n == Len(box[r].outbox)
             m == Len(InFlight(r))
  <2>4. n \in Nat /\ n <= hwmFrames /\ m \in {0, 1}
    BY <2>2, <2>3
  <2> HIDE DEF n, m
  <2>5. n + m <= OutboxMax
    BY <2>4, GateInsideBound, WaterMarksAssumption
  <2>. QED
    BY <2>5 DEF n, m
<1>. QED
  BY ReactorInvHolds, <1>1, PTL

\* finish_ issues at most one Finish() per RPC, and one when it is finished.
THEOREM OneFinish == Spec => []FinishOnce
<1>1. ReactorInv => FinishOnce
  BY DEF ReactorInv
<1>. QED
  BY ReactorInvHolds, <1>1, PTL

\* No push holds, and the table never names, a reactor after its OnDone.
THEOREM PushNeverUsesDone == Spec => []NoUseAfterDone
<1>1. ReactorInv => NoUseAfterDone
  <2> SUFFICES ASSUME ReactorInv PROVE NoUseAfterDone
    OBVIOUS
  <2>1. table # None => table \in Reactors /\ stream[table] # "done"
    BY DEF ReactorInv, TypeOK, EntryIsKnown
  <2>2. push.at # "idle" => push.to = table /\ push.to \in Reactors
    BY DEF ReactorInv, TypeOK, PushHoldsEntry, Idle
  <2>3. push.at # "idle" => stream[push.to] # "done"
    BY <2>2 DEF ReactorInv, EntryIsKnown
  <2>. QED
    BY <2>1, <2>3 DEF NoUseAfterDone
<1>. QED
  BY ReactorInvHolds, <1>1, PTL

(***************************************************************************)
(* A reactor that lost its place in the table accepts nothing any more:    *)
(* superseded and evicted streams swallow no frame.                        *)
(***************************************************************************)
THEOREM SupersededAcceptsNothing == Spec => OnlyEntryAccepts
<1>1. ReactorInv /\ [Next]_vars =>
        [\A r \in Reactors : accepted'[r] # accepted[r] => table = r]_vars
  <2> SUFFICES ASSUME ReactorInv, Next, NEW r \in Reactors, accepted'[r] # accepted[r]
               PROVE  table = r
    BY DEF vars
  <2>1. accepted \in [Reactors -> Seq(Frames)] /\ box \in [Reactors -> Boxes]
    BY DEF ReactorInv, TypeOK
  <2>2. CASE \E q \in Reactors : EnqueuePresence(q)
    <3>1. PICK q \in Reactors : EnqueuePresence(q)
      BY <2>2
    <3>2. q = r /\ Accepts(box[r])
      BY <2>1, <3>1 DEF EnqueuePresence, EnqueueSection
    <3>. QED
      BY <3>1, <3>2 DEF EnqueuePresence, ReactorInv, RegisteredOrDead, Accepts
  <2>3. CASE PushEnqueue
    <3>1. push.to = r
      BY <2>1, <2>3 DEF PushEnqueue, EnqueueSection
    <3>. QED
      BY <2>3, <3>1 DEF PushEnqueue, ReactorInv, PushHoldsEntry
  <2>4. CASE UNCHANGED accepted
    BY <2>4
  <2>. QED
    BY <2>2, <2>3, <2>4
       DEF Next, Environment, StreamParticipants, HalfClose, Break, ReadSide, HeartbeatArrives,
           OnHeartbeat, DenyDialer, Register, KickPresence, RearmRead, OnReadFailed,
           FinishAfterRead, KickAfterRead, WriteSide, OnWriteDone, OnWriteFailed, WriteEnds,
           FinishBroken, DrainNext, Settle, FinishDrained, CancelSide, OnCancel,
           EvictCancelled, OnDone, pushData, PushSide, PushKick
<1>. QED
  BY ReactorInvHolds, <1>1, PTL DEF Spec, OnlyEntryAccepts

-------------------------------------------------------------------------------
(***************************************************************************)
(* A reactor registers once, and before it has accepted anything.          *)
(***************************************************************************)
\* What a reactor holds, of what m_ guards.
HeldBy(b) == (IF b.writing THEN <<b.writeBuffer>> ELSE <<>>) \o b.outbox

\* startWrite_ only moves the front of what is held.
LEMMA StartKeepsHeld ==
  ASSUME NEW b \in Boxes
  PROVE  LET w == WriteStarted(b)
         IN  /\ w \in Boxes /\ HeldBy(w) = HeldBy(b)
             /\ w.initialised = b.initialised /\ w.finished = b.finished
             /\ w.cancelled = b.cancelled /\ w.backpressured = b.backpressured
<1>1. CASE StartsWrite(b)
  <2>1. b.outbox \in Seq(Frames) /\ b.outbox # <<>> /\ ~b.writing
    BY <1>1 DEF Boxes, StartsWrite
  <2>2. /\ Head(b.outbox) \in Frames /\ Tail(b.outbox) \in Seq(Frames)
        /\ b.outbox = <<Head(b.outbox)>> \o Tail(b.outbox)
    BY <2>1, HeadTailProperties
  <2> DEFINE w == [b EXCEPT !.writeBuffer = Head(b.outbox), !.outbox = Tail(b.outbox),
                            !.writing = TRUE]
  <2>3. WriteStarted(b) = w
    BY <1>1 DEF WriteStarted
  <2>4. /\ w.initialised = b.initialised /\ w.finished = b.finished
        /\ w.cancelled = b.cancelled /\ w.backpressured = b.backpressured
        /\ w.writing /\ w.writeBuffer = Head(b.outbox) /\ w.outbox = Tail(b.outbox)
    BY DEF Boxes
  <2>5. w \in Boxes
    BY <2>2 DEF Boxes
  <2> HIDE DEF w
  <2>6. HeldBy(w) = b.outbox
    BY <2>2, <2>4 DEF HeldBy
  <2>7. HeldBy(b) = b.outbox
    <3>1. <<>> \o b.outbox = b.outbox
      BY <2>1, ConcatEmptySeq
    <3>. QED
      BY <2>1, <3>1 DEF HeldBy
  <2>. QED
    BY <2>3, <2>4, <2>5, <2>6, <2>7
<1>2. CASE ~StartsWrite(b)
  BY <1>2 DEF WriteStarted
<1>. QED
  BY <1>1, <1>2

LEMMA StartKeepsView ==
  ASSUME box \in [Reactors -> Boxes], NEW r \in Reactors, startWrite_(r)
  PROVE  \A q \in Reactors :
           /\ HeldBy(box'[q]) = HeldBy(box[q])
           /\ box'[q].initialised = box[q].initialised
           /\ box'[q].backpressured = box[q].backpressured
           /\ Dead(box'[q]) = Dead(box[q])
<1>1. box' = [box EXCEPT ![r] = WriteStarted(box[r])] /\ box[r] \in Boxes
  BY DEF startWrite_
<1>2. box'[r] = WriteStarted(box[r]) /\ \A q \in Reactors \ {r} : box'[q] = box[q]
  BY <1>1
<1>3. /\ HeldBy(WriteStarted(box[r])) = HeldBy(box[r])
      /\ WriteStarted(box[r]).initialised = box[r].initialised
      /\ WriteStarted(box[r]).finished = box[r].finished
      /\ WriteStarted(box[r]).cancelled = box[r].cancelled
      /\ WriteStarted(box[r]).backpressured = box[r].backpressured
  BY <1>1, StartKeepsHeld
<1>. QED
  BY <1>2, <1>3 DEF Dead

LEMMA EntersInit == Init => EntersOnce
<1>1. None \notin Reactors
  BY DialsAssumption DEF None, Reactors
<1>. QED
  BY <1>1 DEF Init, EntersOnce

\* The steps that register nobody and enqueue nothing.
LEMMA QuietKeepsEnters ==
  ASSUME EntersOnce, UNCHANGED accepted,
         \A r \in Reactors :
           /\ table' = r => table = r
           /\ stream'[r] = "undialled" => stream[r] = "undialled"
           /\ reading'[r] = reading[r] \/ reading[r].at # "idle" \/ stream'[r] # "undialled"
           /\ box[r].initialised => box'[r].initialised
           /\ \/ reading'[r] = reading[r] /\ box'[r].initialised = box[r].initialised
              \/ Unregistered(r) /\ reading'[r].at \notin {"presence", "presenceKick"}
              \/ /\ reading[r].at \in {"presence", "presenceKick"}
                 /\ reading'[r].at \in {"presence", "presenceKick", "waiting"}
              \/ reading'[r].at \in {"denied", "finish", "kick", "closed"}
  PROVE  EntersOnce'
<1> SUFFICES ASSUME NEW r \in Reactors
             PROVE  /\ Unregistered(r)' => table' # r /\ accepted'[r] = <<>>
                    /\ reading'[r].at \in {"presence", "presenceKick"} => box'[r].initialised
                    /\ stream'[r] = "undialled" => reading'[r].at = "idle"
  BY DEF EntersOnce
<1>1. /\ Unregistered(r) => table # r /\ accepted[r] = <<>>
      /\ reading[r].at \in {"presence", "presenceKick"} => box[r].initialised
  BY DEF EntersOnce
<1>2. stream'[r] = "undialled" => reading'[r].at = "idle"
  <2>1. stream[r] = "undialled" => reading[r].at = "idle"
    BY DEF EntersOnce
  <2>. QED
    BY <2>1
<1>3. CASE reading'[r] = reading[r] /\ box'[r].initialised = box[r].initialised
  BY <1>1, <1>2, <1>3 DEF Unregistered
<1>4. CASE Unregistered(r) /\ reading'[r].at \notin {"presence", "presenceKick"}
  BY <1>1, <1>2, <1>4
<1>5. CASE /\ reading[r].at \in {"presence", "presenceKick"}
           /\ reading'[r].at \in {"presence", "presenceKick", "waiting"}
  BY <1>1, <1>2, <1>5 DEF Unregistered
<1>6. CASE reading'[r].at \in {"denied", "finish", "kick", "closed"}
  BY <1>2, <1>6 DEF Unregistered
<1>. QED
  BY <1>3, <1>4, <1>5, <1>6

\* enqueue: only the entry, or a reactor that was the entry, accepts.
LEMMA EnqueueKeepsEnters ==
  ASSUME ReactorInv, EntersOnce, NEW r \in Reactors, NEW f, EnqueueSection(r, f),
         ~Unregistered(r), UNCHANGED <<table, stream>>,
         \A q \in Reactors : \/ reading'[q] = reading[q]
                             \/ /\ reading[q].at = "presence"
                                /\ reading'[q].at \in {"presence", "presenceKick"}
  PROVE  EntersOnce'
<1>1. box \in [Reactors -> Boxes] /\ accepted \in [Reactors -> Seq(Frames)]
  BY DEF ReactorInv, TypeOK
<1>2. /\ \A q \in Reactors : box'[q].initialised = box[q].initialised
      /\ \A q \in Reactors \ {r} : accepted'[q] = accepted[q]
  BY <1>1 DEF EnqueueSection, Enqueued, Boxes
<1>3. ASSUME NEW q \in Reactors, Unregistered(q)' PROVE Unregistered(q) /\ q # r
  BY <1>2, <1>3 DEF Unregistered, EntersOnce
<1>. QED
  BY <1>2, <1>3 DEF EntersOnce

LEMMA EntersStep ==
  ASSUME ReactorInv, EntersOnce, [Next]_vars
  PROVE  EntersOnce'
<1>1. /\ box \in [Reactors -> Boxes] /\ stream \in [Reactors -> Streams]
      /\ reading \in [Reactors -> [at : ReadPcs, left : Nat]]
      /\ push \in [at : {"enqueue", "kick"}, to : Reactors] \cup {Idle}
      /\ None \notin Reactors
  BY DialsAssumption DEF ReactorInv, TypeOK, None, Reactors
<1>2. CASE UNCHANGED vars
  BY <1>2, QuietKeepsEnters DEF vars
<1>3. ASSUME NEW r \in Reactors, Environment(r) PROVE EntersOnce'
  <2>1. CASE StreamParticipants(r)
    <3>1. /\ UNCHANGED <<table, box, accepted>>
          /\ \A q \in Reactors \ {r} : reading'[q] = reading[q] /\ stream'[q] = stream[q]
          /\ reading'[r].at = "waiting" /\ stream'[r] # "undialled"
      BY <1>1, <2>1 DEF StreamParticipants
    <3>2. Unregistered(r)
      BY <2>1 DEF StreamParticipants, EntersOnce, Unregistered
    <3>. QED
      BY <3>1, <3>2, QuietKeepsEnters
  <2>2. CASE HalfClose(r) \/ Break(r)
    <3>1. /\ UNCHANGED <<table, box, accepted, reading>>
          /\ \A q \in Reactors : stream'[q] = "undialled" => stream[q] = "undialled"
      BY <1>1, <2>2 DEF HalfClose, Break
    <3>. QED
      BY <3>1, QuietKeepsEnters
  <2>. QED
    BY <1>3, <2>1, <2>2 DEF Environment
<1>4. ASSUME NEW r \in Reactors, ReadSide(r) PROVE EntersOnce'
  <2>1. CASE HeartbeatArrives(r) \/ OnHeartbeat(r)
    <3>1. /\ Unregistered(r) /\ reading[r].at # "idle" /\ UNCHANGED <<table, stream, accepted>>
          /\ reading'[r].at \in {"heartbeat", "register", "denied"}
          /\ \A q \in Reactors \ {r} : reading'[q] = reading[q]
      BY <1>1, <2>1 DEF HeartbeatArrives, OnHeartbeat, Unregistered
    <3>2. box' = box \/ box' = [box EXCEPT ![r].initialised = TRUE]
      BY <2>1 DEF HeartbeatArrives, OnHeartbeat
    <3>3. /\ \A q \in Reactors \ {r} : box'[q].initialised = box[q].initialised
          /\ box[r].initialised => box'[r].initialised
      BY <1>1, <3>2 DEF Boxes
    <3>. QED
      BY <3>1, <3>3, QuietKeepsEnters
  <2>2. CASE DenyDialer(r) \/ FinishAfterRead(r) \/ KickAfterRead(r) \/ OnReadFailed(r)
    <3>1. \A q \in Reactors : box'[q].initialised = box[q].initialised
      <4>1. CASE KickAfterRead(r)
        BY <1>1, <4>1, StartKeepsView DEF KickAfterRead
      <4>2. CASE DenyDialer(r) \/ FinishAfterRead(r)
        <5>1. box' = [box EXCEPT ![r].finished = TRUE]
          BY <4>2 DEF DenyDialer, FinishAfterRead, finish_
        <5>. QED
          BY <1>1, <5>1 DEF Boxes
      <4>3. CASE OnReadFailed(r)
        BY <1>1, <4>3 DEF OnReadFailed, Boxes
      <4>. QED
        BY <2>2, <4>1, <4>2, <4>3
    <3>2. /\ UNCHANGED <<table, stream, accepted>>
          /\ \A q \in Reactors \ {r} : reading'[q] = reading[q]
          /\ reading[r].at # "idle"
          /\ reading'[r].at \in {"finish", "kick", "closed"}
      BY <1>1, <2>2 DEF DenyDialer, FinishAfterRead, KickAfterRead, OnReadFailed
    <3>. QED
      BY <3>1, <3>2, QuietKeepsEnters
  <2>3. CASE Register(r)
    <3>1. /\ table' = r /\ UNCHANGED <<stream, accepted>>
          /\ reading' = [reading EXCEPT ![r] = [at |-> "presence", left |-> Presence]]
          /\ reading[r].at = "register"
          /\ \A q \in Reactors : box'[q].initialised = box[q].initialised
      BY <1>1, <2>3 DEF Register, registerSubscriber, Boxes
    <3>2. box[r].initialised
      BY <3>1 DEF ReactorInv, EntryIsKnown
    <3>. QED
      BY <1>1, <3>1, <3>2 DEF EntersOnce, Unregistered
  <2>4. CASE EnqueuePresence(r)
    <3>1. /\ reading[r].at = "presence" /\ ~Unregistered(r)
          /\ EnqueueSection(r, PresenceFrame) /\ UNCHANGED <<table, stream>>
          /\ \A q \in Reactors \ {r} : reading'[q] = reading[q]
          /\ reading'[r].at \in {"presence", "presenceKick"}
      BY <1>1, <2>4 DEF EnqueuePresence, Unregistered
    <3>. QED
      BY <3>1, EnqueueKeepsEnters
  <2>5. CASE KickPresence(r) \/ RearmRead(r)
    <3>1. \A q \in Reactors : box'[q].initialised = box[q].initialised
      BY <1>1, <2>5, StartKeepsView DEF KickPresence, RearmRead
    <3>2. /\ UNCHANGED <<table, stream, accepted>>
          /\ \A q \in Reactors \ {r} : reading'[q] = reading[q]
          /\ reading[r].at \in {"presence", "presenceKick"}
          /\ reading'[r].at \in {"presence", "waiting"}
      BY <1>1, <2>5 DEF KickPresence, RearmRead
    <3>. QED
      BY <3>1, <3>2, QuietKeepsEnters
  <2>. QED
    BY <1>4, <2>1, <2>2, <2>3, <2>4, <2>5 DEF ReadSide
<1>5. ASSUME NEW r \in Reactors, WriteSide(r) \/ CancelSide(r) \/ OnDone(r) PROVE EntersOnce'
  <2>1. /\ UNCHANGED <<reading, accepted>>
        /\ \A q \in Reactors : stream'[q] = "undialled" => stream[q] = "undialled"
    BY <1>1, <1>5 DEF WriteSide, CancelSide, OnWriteDone, OnWriteFailed, WriteEnds, FinishBroken,
                      DrainNext, Settle, FinishDrained, OnCancel, EvictCancelled, OnDone
  <2>2. \A q \in Reactors : box'[q].initialised = box[q].initialised
    <3>1. CASE DrainNext(r)
      BY <1>1, <3>1, StartKeepsView DEF DrainNext
    <3>2. CASE OnWriteDone(r) \/ OnWriteFailed(r)
      <4>1. box' = [box EXCEPT ![r].writing = FALSE]
        BY <3>2 DEF OnWriteDone, OnWriteFailed, WriteEnds
      <4>. QED
        BY <1>1, <4>1 DEF Boxes
    <3>3. CASE FinishBroken(r) \/ FinishDrained(r)
      <4>1. box' = [box EXCEPT ![r].finished = TRUE]
        BY <3>3 DEF FinishBroken, FinishDrained, finish_
      <4>. QED
        BY <1>1, <4>1 DEF Boxes
    <3>4. CASE Settle(r)
      <4>1. PICK latch \in BOOLEAN : box' = [box EXCEPT ![r].backpressured = latch]
        BY <1>1, <3>4 DEF Settle, Boxes
      <4>2. box \in [Reactors -> Boxes]
        BY <1>1
      <4>3. box'[r].initialised = box[r].initialised
        BY <4>1, <4>2 DEF Boxes
      <4>4. \A q \in Reactors \ {r} : box'[q] = box[q]
        BY <4>1, <4>2
      <4>. QED
        BY <4>3, <4>4
    <3>5. CASE OnCancel(r)
      BY <1>1, <3>5 DEF OnCancel, Boxes
    <3>6. CASE EvictCancelled(r) \/ OnDone(r)
      BY <3>6 DEF EvictCancelled, OnDone
    <3>. QED
      BY <1>5, <3>1, <3>2, <3>3, <3>4, <3>5, <3>6 DEF WriteSide, CancelSide
  <2>3. table' = table \/ table' = None
    BY <1>5 DEF WriteSide, CancelSide, OnWriteDone, OnWriteFailed, WriteEnds, FinishBroken,
                DrainNext, Settle, FinishDrained, OnCancel, EvictCancelled, OnDone,
                unregisterSubscriber
  <2>. QED
    BY <1>1, <2>1, <2>2, <2>3, QuietKeepsEnters
<1>6. CASE pushData
  BY <1>6, QuietKeepsEnters DEF pushData
<1>7. CASE PushEnqueue
  <2>1. push.to \in Reactors /\ table = push.to
    BY <1>1, <1>7 DEF PushEnqueue, Idle, ReactorInv, PushHoldsEntry
  <2>2. ~Unregistered(push.to)
    BY <2>1 DEF EntersOnce
  <2>. QED
    BY <1>7, <2>1, <2>2, EnqueueKeepsEnters DEF PushEnqueue
<1>8. CASE PushKick
  <2>1. \A q \in Reactors : box'[q].initialised = box[q].initialised
    <3>1. push.to \in Reactors
      BY <1>1, <1>8 DEF PushKick, Idle
    <3>. QED
      BY <1>1, <1>8, <3>1, StartKeepsView DEF PushKick
  <2>. QED
    BY <1>8, <2>1, QuietKeepsEnters DEF PushKick
<1>. QED
  BY <1>2, <1>3, <1>4, <1>5, <1>6, <1>7, <1>8 DEF Next, PushSide

LEMMA EntersHolds == Spec => []EntersOnce
<1>1. ReactorInv /\ EntersOnce /\ [Next]_vars => EntersOnce'
  BY EntersStep
<1>. QED
  BY EntersInit, ReactorInvHolds, <1>1, PTL DEF Spec

-------------------------------------------------------------------------------
(***************************************************************************)
(* The streams implement BoundedStream: what each section is of it.        *)
(***************************************************************************)

\* Retiring the frame in flight is taking the head of what is held.
LEMMA HeadAndTailOfHeld ==
  ASSUME NEW f \in Frames, NEW o \in Seq(Frames)
  PROVE  /\ <<f>> \o o # <<>> /\ Head(<<f>> \o o) = f /\ Tail(<<f>> \o o) = o
         /\ Len(<<f>> \o o) = Len(o) + 1
<1> DEFINE s == <<f>> \o o
<1>1. /\ <<f>> \in Seq(Frames) /\ s \in Seq(Frames) /\ Len(s) = Len(o) + 1 /\ Len(o) \in Nat
      /\ s[1] = f
  <2>1. <<f>> \in Seq(Frames) /\ Len(<<f>>) = 1 /\ <<f>>[1] = f /\ Len(o) \in Nat
    OBVIOUS
  <2>2. /\ s \in Seq(Frames) /\ Len(s) = Len(<<f>>) + Len(o)
        /\ \A i \in 1 .. Len(<<f>>) + Len(o) :
             s[i] = IF i <= Len(<<f>>) THEN <<f>>[i] ELSE o[i - Len(<<f>>)]
    BY <2>1, ConcatProperties
  <2>3. 1 \in 1 .. Len(<<f>>) + Len(o)
    BY <2>1
  <2> HIDE DEF s
  <2>. QED
    BY <2>1, <2>2, <2>3
<1>2. s # <<>>
  BY <1>1
<1>3. Head(s) = f
  BY <1>1, <1>2
<1>4. Tail(s) \in Seq(Frames) /\ s = <<Head(s)>> \o Tail(s)
  BY <1>1, <1>2, HeadTailProperties
<1>5. Tail(s) = o
  <2>1. <<f>> \o o = <<f>> \o Tail(s)
    BY <1>3, <1>4
  <2> HIDE DEF s
  <2>. QED
    BY <1>1, <1>4, <2>1, ConcatSimplifications
<1>. QED
  BY <1>1, <1>2, <1>3, <1>5

\* What is held is the outbox, and the frame in flight if there is one.
LEMMA HeldLength ==
  ASSUME NEW b \in Boxes
  PROVE  /\ HeldBy(b) \in Seq(Frames) /\ Len(b.outbox) \in Nat
         /\ Len(HeldBy(b)) \in {Len(b.outbox), Len(b.outbox) + 1}
<1>1. b.outbox \in Seq(Frames) /\ b.writeBuffer \in Frames /\ Len(b.outbox) \in Nat
  BY DEF Boxes
<1>2. CASE b.writing
  <2>1. HeldBy(b) = <<b.writeBuffer>> \o b.outbox /\ <<b.writeBuffer>> \in Seq(Frames)
    BY <1>1, <1>2 DEF HeldBy
  <2>. QED
    BY <1>1, <1>2, <2>1, HeadAndTailOfHeld, ConcatProperties
<1>3. CASE ~b.writing
  BY <1>1, <1>3, ConcatEmptySeq DEF HeldBy
<1>. QED
  BY <1>2, <1>3

\* A frame that is accepted is held last.
LEMMA AppendToHeld ==
  ASSUME NEW i \in Seq(Frames), NEW o \in Seq(Frames), NEW f \in Frames
  PROVE  i \o Append(o, f) = Append(i \o o, f)
<1>1. Append(o, f) = o \o <<f>> /\ <<f>> \in Seq(Frames)
  BY AppendIsConcat
<1>2. i \o o \in Seq(Frames)
  BY ConcatProperties
<1>3. Append(i \o o, f) = (i \o o) \o <<f>>
  BY <1>2, AppendIsConcat
<1>4. (i \o o) \o <<f>> = i \o (o \o <<f>>)
  BY <1>1, ConcatAssociative
<1>. QED
  BY <1>1, <1>3, <1>4

\* Nothing that shows has changed.
LEMMA SameView ==
  ASSUME UNCHANGED <<table, completed>>,
         \A q \in Reactors : /\ HeldBy(box'[q]) = HeldBy(box[q])
                             /\ box'[q].backpressured = box[q].backpressured
                             /\ Dead(box'[q]) = Dead(box[q])
  PROVE  UNCHANGED Stream!svars
<1>1. \A q \in Reactors : InFlight(q)' \o box'[q].outbox = InFlight(q) \o box[q].outbox
  BY DEF InFlight, HeldBy
<1>. QED
  BY <1>1 DEF Stream!svars

\* Only the flags of r move, and those that end a stream only up.
LEMMA EndRefines ==
  ASSUME UNCHANGED <<table, completed>>, NEW r \in Reactors,
         \A q \in Reactors : /\ SameQueue(q)
                             /\ box'[q].backpressured = box[q].backpressured,
         \A q \in Reactors \ {r} : Dead(box'[q]) = Dead(box[q]),
         Dead(box[r]) => Dead(box'[r])
  PROVE  [Stream!Next]_(Stream!svars)
<1>1. \A q \in Reactors : HeldBy(box'[q]) = HeldBy(box[q])
  BY DEF HeldBy, SameQueue
<1>2. CASE Dead(box'[r]) = Dead(box[r])
  BY <1>1, <1>2, SameView
<1>3. CASE Dead(box'[r]) # Dead(box[r])
  <2>1. Dead(box'[r])
    BY <1>3 DEF Dead
  <2>2. \A q \in Reactors : InFlight(q)' \o box'[q].outbox = InFlight(q) \o box[q].outbox
    BY <1>1 DEF InFlight, HeldBy
  <2>3. Stream!End(r)
    BY <2>1, <2>2 DEF Stream!End
  <2>. QED
    BY <2>3 DEF Stream!Next
<1>. QED
  BY <1>2, <1>3

LEMMA StartRefines ==
  ASSUME box \in [Reactors -> Boxes], NEW r \in Reactors, startWrite_(r),
         UNCHANGED <<table, completed>>
  PROVE  UNCHANGED Stream!svars
BY StartKeepsView, SameView

\* enqueue on the entry, or on a stream that is over.
LEMMA EnqueueRefines ==
  ASSUME box \in [Reactors -> Boxes], NEW r \in Reactors, NEW f \in Frames,
         EnqueueSection(r, f), UNCHANGED <<table, completed>>,
         table = r \/ Dead(box[r])
  PROVE  [Stream!Next]_(Stream!svars)
<1> DEFINE b == box[r]
<1>1. /\ b \in Boxes /\ box'[r] = Enqueued(b, f)
      /\ \A q \in Reactors \ {r} : box'[q] = box[q]
  BY DEF EnqueueSection
<1>2. b.outbox \in Seq(Frames) /\ b.writeBuffer \in Frames
  BY <1>1 DEF Boxes
<1>3. \A q \in Reactors : HeldBy(box[q]) = InFlight(q) \o box[q].outbox
                          /\ HeldBy(box'[q]) = InFlight(q)' \o box'[q].outbox
  BY DEF HeldBy, InFlight
<1>4. CASE Dead(b)
  BY <1>1, <1>4, SameView DEF Enqueued
<1>5. CASE ~Dead(b) /\ AtHighWater(b)
  <2>1. Enqueued(b, f) = [b EXCEPT !.backpressured = TRUE]
    BY <1>5 DEF Enqueued
  <2>2. /\ HeldBy(Enqueued(b, f)) = HeldBy(b) /\ Dead(Enqueued(b, f)) = Dead(b)
        /\ Enqueued(b, f).backpressured
    BY <1>1, <2>1 DEF HeldBy, Dead, Boxes
  <2>3. CASE b.backpressured
    <3>1. Enqueued(b, f).backpressured = b.backpressured
      BY <1>1, <2>1, <2>3 DEF Boxes
    <3>. QED
      BY <1>1, <2>2, <3>1, SameView
  <2>4. CASE ~b.backpressured
    <3>1. Len(HeldBy(b)) >= hwmFrames
      <4>1. Len(b.outbox) >= hwmFrames
        BY <1>5, <2>4 DEF AtHighWater
      <4>2. /\ Len(b.outbox) \in Nat
            /\ Len(HeldBy(b)) \in {Len(b.outbox), Len(b.outbox) + 1}
        BY <1>1, HeldLength
      <4> HIDE DEF b
      <4>. QED
        BY <4>1, <4>2, GateInsideBound
    <3>2. \A q \in Reactors : /\ InFlight(q)' \o box'[q].outbox = InFlight(q) \o box[q].outbox
                              /\ Dead(box'[q]) = Dead(box[q])
                              /\ q # r => box'[q].backpressured = box[q].backpressured
      BY <1>1, <1>3, <2>2
    <3>3. box'[r].backpressured = TRUE
      BY <1>1, <2>1 DEF Boxes
    <3>4. table = r /\ ~Dead(box[r]) /\ Len(InFlight(r) \o box[r].outbox) >= hwmFrames
      BY <1>3, <1>5, <3>1
    <3>5. Stream!Refuse(r)
      BY <3>2, <3>3, <3>4 DEF Stream!Refuse
    <3>. QED
      BY <3>5 DEF Stream!Next
  <2>. QED
    BY <2>3, <2>4
<1>6. CASE Accepts(b)
  <2>1. /\ Enqueued(b, f) = [b EXCEPT !.outbox = Append(b.outbox, f)]
        /\ ~Dead(b) /\ ~b.backpressured /\ Len(b.outbox) < hwmFrames
    BY <1>2, <1>6, GateInsideBound DEF Enqueued, Accepts, AtHighWater
  <2>2. /\ box'[r].outbox = Append(b.outbox, f) /\ box'[r].writing = b.writing
        /\ box'[r].writeBuffer = b.writeBuffer /\ box'[r].backpressured = b.backpressured
        /\ Dead(box'[r]) = Dead(b)
    BY <1>1, <2>1 DEF Dead, Boxes
  <2>3. InFlight(r)' = InFlight(r) /\ InFlight(r) \in Seq(Frames)
    BY <1>2, <2>2 DEF InFlight
  <2>4. InFlight(r)' \o box'[r].outbox = Append(InFlight(r) \o b.outbox, f)
    <3>1. InFlight(r) \o Append(b.outbox, f) = Append(InFlight(r) \o b.outbox, f)
      BY <1>2, <2>3, AppendToHeld
    <3>. QED
      BY <2>2, <2>3, <3>1
  <2>5. Len(InFlight(r) \o b.outbox) <= hwmFrames
    <3>1. Len(HeldBy(b)) <= hwmFrames
      <4>1. /\ Len(b.outbox) \in Nat
            /\ Len(HeldBy(b)) \in {Len(b.outbox), Len(b.outbox) + 1}
        BY <1>1, HeldLength
      <4>2. Len(b.outbox) < hwmFrames
        BY <2>1
      <4> HIDE DEF b
      <4>. QED
        BY <4>1, <4>2, GateInsideBound
    <3>. QED
      BY <1>3, <3>1
  <2>6. \A q \in Reactors : /\ Dead(box'[q]) = Dead(box[q])
                            /\ box'[q].backpressured = box[q].backpressured
                            /\ q # r => InFlight(q)' \o box'[q].outbox = InFlight(q) \o box[q].outbox
    BY <1>1, <2>2 DEF InFlight
  <2>7. table = r
    BY <2>1
  <2>8. Stream!Accept(r, f)
    BY <2>1, <2>4, <2>5, <2>6, <2>7 DEF Stream!Accept
  <2>. QED
    BY <2>8 DEF Stream!Next
<1>. QED
  BY <1>4, <1>5, <1>6 DEF Accepts

\* The end of a write, whether it came through or not.
LEMMA WriteRefines ==
  ASSUME box \in [Reactors -> Boxes], completed \in [Reactors -> Seq(Frames)],
         NEW r \in Reactors, WriteEnds(r)
  PROVE  Stream!Write(r)
<1> DEFINE b == box[r]
<1>1. /\ b \in Boxes /\ b.writing /\ UNCHANGED table
      /\ box' = [box EXCEPT ![r].writing = FALSE]
      /\ completed' = [completed EXCEPT ![r] = Append(@, b.writeBuffer)]
  BY DEF WriteEnds
<1>2. b.outbox \in Seq(Frames) /\ b.writeBuffer \in Frames
  BY <1>1 DEF Boxes
<1>3. /\ box'[r].outbox = b.outbox /\ ~box'[r].writing
      /\ \A q \in Reactors \ {r} : box'[q] = box[q]
      /\ \A q \in Reactors : /\ Dead(box'[q]) = Dead(box[q])
                             /\ box'[q].backpressured = box[q].backpressured
  BY <1>1 DEF Dead, Boxes
<1>4. InFlight(r) \o b.outbox = <<b.writeBuffer>> \o b.outbox
  BY <1>1 DEF InFlight
<1>5. InFlight(r)' \o box'[r].outbox = b.outbox
  <2>1. InFlight(r)' = <<>>
    BY <1>3 DEF InFlight
  <2>. QED
    BY <1>2, <1>3, <2>1, ConcatEmptySeq
<1>6. \A q \in Reactors \ {r} : InFlight(q)' \o box'[q].outbox = InFlight(q) \o box[q].outbox
  BY <1>3 DEF InFlight
<1>7. /\ InFlight(r) \o b.outbox # <<>>
      /\ Head(InFlight(r) \o b.outbox) = b.writeBuffer
      /\ Tail(InFlight(r) \o b.outbox) = b.outbox
  BY <1>2, <1>4, HeadAndTailOfHeld
<1>8. completed' = [completed EXCEPT ![r] = Append(@, Head(InFlight(r) \o b.outbox))]
  BY <1>1, <1>7
<1>9. [q \in Reactors |-> InFlight(q)' \o box'[q].outbox]
        = [[q \in Reactors |-> InFlight(q) \o box[q].outbox] EXCEPT
             ![r] = Tail(InFlight(r) \o b.outbox)]
  BY <1>5, <1>6, <1>7
<1>10. /\ [q \in Reactors |-> box'[q].backpressured] = [q \in Reactors |-> box[q].backpressured]
       /\ [q \in Reactors |-> Dead(box'[q])] = [q \in Reactors |-> Dead(box[q])]
  BY <1>3
<1> HIDE DEF b
<1>. QED
  BY <1>1, <1>7, <1>8, <1>9, <1>10 DEF Stream!Write, b

\* The low-water mark, met in OnWriteDone.
LEMMA SettleRefines ==
  ASSUME box \in [Reactors -> Boxes], NEW r \in Reactors, Settle(r)
  PROVE  [Stream!Next]_(Stream!svars)
<1>1. /\ UNCHANGED <<table, completed>>
      /\ box' = [box EXCEPT ![r].backpressured = @ /\ ~AtLowWater(box[r])]
      /\ box[r] \in Boxes
  BY DEF Settle
<1>2. PICK latch \in BOOLEAN : /\ box' = [box EXCEPT ![r].backpressured = latch]
                               /\ latch = (box[r].backpressured /\ ~AtLowWater(box[r]))
  BY <1>1 DEF Boxes
<1>3. /\ box'[r].backpressured = latch
      /\ \A q \in Reactors : SameQueue(q) /\ Dead(box'[q]) = Dead(box[q])
      /\ \A q \in Reactors \ {r} : box'[q].backpressured = box[q].backpressured
  BY <1>2 DEF SameQueue, Dead, Boxes
<1>4. CASE latch = box[r].backpressured
  <2>1. \A q \in Reactors : HeldBy(box'[q]) = HeldBy(box[q])
    BY <1>3 DEF SameQueue, HeldBy
  <2>2. \A q \in Reactors : box'[q].backpressured = box[q].backpressured
    BY <1>3, <1>4
  <2>. QED
    BY <1>1, <1>3, <2>1, <2>2, SameView
<1>5. CASE latch # box[r].backpressured
  <2>1. box[r].backpressured \in BOOLEAN
    BY <1>1 DEF Boxes
  <2>2. latch = FALSE /\ Len(box[r].outbox) <= lwmFrames
    BY <1>2, <1>5, <2>1 DEF AtLowWater
  <2>3. Len(HeldBy(box[r])) <= lwmFrames + 1
    <3>1. /\ Len(box[r].outbox) \in Nat
          /\ Len(HeldBy(box[r])) \in {Len(box[r].outbox), Len(box[r].outbox) + 1}
      BY <1>1, HeldLength
    <3>. QED
      BY <2>2, <3>1, LowMarkIsNat
  <2>4. Len(InFlight(r) \o box[r].outbox) <= lwmFrames + 1
    BY <2>3 DEF HeldBy, InFlight
  <2>5. \A q \in Reactors : InFlight(q)' \o box'[q].outbox = InFlight(q) \o box[q].outbox
    BY <1>3 DEF InFlight, SameQueue
  <2>6. Stream!Resume(r)
    BY <1>1, <1>3, <2>2, <2>4, <2>5 DEF Stream!Resume
  <2>. QED
    BY <2>6 DEF Stream!Next
<1>. QED
  BY <1>4, <1>5

\* The pointer-guarded erase, of a stream that is over.
LEMMA LeaveRefines ==
  ASSUME NEW r \in Reactors, unregisterSubscriber(r), Dead(box[r]), None \notin Reactors,
         UNCHANGED <<box, completed>>
  PROVE  [Stream!Next]_(Stream!svars)
<1>1. \A q \in Reactors : InFlight(q)' = InFlight(q)
  BY DEF InFlight
<1>2. CASE table = r
  <2>1. Stream!Leave
    BY <1>1, <1>2 DEF Stream!Leave, unregisterSubscriber
  <2>. QED
    BY <2>1 DEF Stream!Next
<1>3. CASE table # r
  BY <1>3, SameView DEF unregisterSubscriber
<1>. QED
  BY <1>2, <1>3

\* registerSubscriber: the predecessor is over in the same step.
LEMMA RegisterRefines ==
  ASSUME ReactorInv, EntersOnce, NEW r \in Reactors, Register(r)
  PROVE  Stream!Enter(r)
<1>1. /\ box \in [Reactors -> Boxes] /\ accepted \in [Reactors -> Seq(Frames)]
      /\ completed \in [Reactors -> Seq(Frames)]
  BY DEF ReactorInv, TypeOK
<1>2. /\ table' = r /\ UNCHANGED completed
      /\ box' = [q \in Reactors |->
                   IF q = table /\ q # r THEN [box[q] EXCEPT !.cancelled = TRUE] ELSE box[q]]
  BY DEF Register, registerSubscriber
<1>3. table # r /\ accepted[r] = <<>>
  BY DEF Register, EntersOnce, Unregistered
<1>4. completed[r] = <<>> /\ InFlight(r) \o box[r].outbox = <<>>
  <2>1. /\ box[r].outbox \in Seq(Frames) /\ InFlight(r) \in Seq(Frames)
        /\ completed[r] \in Seq(Frames)
    BY <1>1 DEF Boxes, InFlight
  <2>2. completed[r] \o InFlight(r) \o box[r].outbox = <<>>
    BY <1>3 DEF ReactorInv, WrittenInOrder
  <2>3. completed[r] \o InFlight(r) \in Seq(Frames)
    BY <2>1, ConcatProperties
  <2>4. completed[r] \o InFlight(r) = <<>> /\ box[r].outbox = <<>>
    BY <2>1, <2>2, <2>3, ConcatSimplifications
  <2>5. completed[r] = <<>> /\ InFlight(r) = <<>>
    BY <2>1, <2>4, ConcatSimplifications
  <2>6. <<>> \o box[r].outbox = box[r].outbox
    BY <2>1, ConcatEmptySeq
  <2>. QED
    BY <2>4, <2>5, <2>6
<1>5. \A q \in Reactors : /\ SameQueue(q) /\ box'[q].backpressured = box[q].backpressured
                          /\ Dead(box'[q]) = (Dead(box[q]) \/ q = table)
  BY <1>1, <1>2, <1>3 DEF SameQueue, Dead, Boxes
<1>6. \A q \in Reactors : InFlight(q)' \o box'[q].outbox = InFlight(q) \o box[q].outbox
  BY <1>5 DEF InFlight, SameQueue
<1>. QED
  BY <1>2, <1>3, <1>4, <1>5, <1>6 DEF Stream!Enter

LEMMA RefinesInit == Init => Stream!Init
<1>1. None \notin Reactors
  BY DialsAssumption DEF None, Reactors
<1>2. <<>> \o <<>> = <<>>
  OBVIOUS
<1> SUFFICES ASSUME Init PROVE Stream!Init
  OBVIOUS
<1>3. \A r \in Reactors : /\ InFlight(r) \o box[r].outbox = <<>>
                          /\ box[r].backpressured = FALSE /\ Dead(box[r]) = FALSE
  BY <1>2 DEF Init, InFlight, NewBox, Dead
<1>. QED
  BY <1>3 DEF Init, Stream!Init

LEMMA RefinesStep ==
  ASSUME ReactorInv, EntersOnce, [Next]_vars
  PROVE  [Stream!Next]_(Stream!svars)
<1>1. /\ box \in [Reactors -> Boxes] /\ completed \in [Reactors -> Seq(Frames)]
      /\ push \in [at : {"enqueue", "kick"}, to : Reactors] \cup {Idle}
      /\ pushes \in Frames /\ PresenceFrame \in Frames
      /\ None \notin Reactors
  BY DialsAssumption, FramesAssumption
     DEF ReactorInv, TypeOK, None, Reactors, PresenceFrame, Frames
<1>2. ASSUME UNCHANGED <<table, completed, box>> PROVE UNCHANGED Stream!svars
  BY <1>2, SameView
<1>3. ASSUME NEW r \in Reactors, UNCHANGED <<table, completed>>,
             \E b \in Boxes : /\ box' = [box EXCEPT ![r] = b]
                              /\ b.outbox = box[r].outbox /\ b.writing = box[r].writing
                              /\ b.writeBuffer = box[r].writeBuffer
                              /\ b.backpressured = box[r].backpressured
                              /\ Dead(box[r]) => Dead(b)
      PROVE  [Stream!Next]_(Stream!svars)
  <2>1. /\ \A q \in Reactors : SameQueue(q) /\ box'[q].backpressured = box[q].backpressured
        /\ \A q \in Reactors \ {r} : Dead(box'[q]) = Dead(box[q])
        /\ Dead(box[r]) => Dead(box'[r])
    BY <1>1, <1>3 DEF SameQueue
  <2>. QED
    BY <1>3, <2>1, EndRefines
<1>4. CASE UNCHANGED vars \/ pushData
  BY <1>2, <1>4 DEF vars, pushData
<1>5. ASSUME NEW r \in Reactors, Environment(r) PROVE [Stream!Next]_(Stream!svars)
  BY <1>2, <1>5 DEF Environment, StreamParticipants, HalfClose, Break
<1>6. ASSUME NEW r \in Reactors, finish_(r), UNCHANGED <<table, completed>>
      PROVE  [Stream!Next]_(Stream!svars)
  <2>1. box' = [box EXCEPT ![r] = [box[r] EXCEPT !.finished = TRUE]]
    BY <1>6 DEF finish_
  <2>2. [box[r] EXCEPT !.finished = TRUE] \in Boxes
    BY <1>1 DEF Boxes
  <2>. QED
    BY <1>1, <1>3, <1>6, <2>1, <2>2 DEF Dead, Boxes
<1>7. ASSUME NEW r \in Reactors, ReadSide(r) PROVE [Stream!Next]_(Stream!svars)
  <2>1. CASE HeartbeatArrives(r) \/ RearmRead(r)
    BY <1>2, <2>1 DEF HeartbeatArrives, RearmRead
  <2>2. CASE OnHeartbeat(r)
    <3>1. /\ UNCHANGED <<table, completed>>
          /\ box' = [box EXCEPT ![r] = [box[r] EXCEPT !.initialised = TRUE]]
      BY <2>2 DEF OnHeartbeat
    <3>2. [box[r] EXCEPT !.initialised = TRUE] \in Boxes
      BY <1>1 DEF Boxes
    <3>. QED
      BY <1>1, <1>3, <3>1, <3>2 DEF Dead, Boxes
  <2>3. CASE DenyDialer(r) \/ FinishAfterRead(r)
    BY <1>6, <2>3 DEF DenyDialer, FinishAfterRead
  <2>4. CASE Register(r)
    BY <2>4, RegisterRefines DEF Stream!Next
  <2>5. CASE EnqueuePresence(r)
    <3>1. table = r \/ Dead(box[r])
      BY <2>5 DEF EnqueuePresence, ReactorInv, RegisteredOrDead
    <3>. QED
      BY <1>1, <2>5, <3>1, EnqueueRefines DEF EnqueuePresence
  <2>6. CASE KickPresence(r) \/ KickAfterRead(r)
    BY <1>1, <2>6, StartRefines DEF KickPresence, KickAfterRead
  <2>7. CASE OnReadFailed(r)
    <3>1. UNCHANGED <<table, completed>>
      BY <2>7 DEF OnReadFailed
    <3>2. PICK pending \in BOOLEAN :
            box' = [box EXCEPT ![r] = [box[r] EXCEPT !.finishPending = pending]]
      BY <1>1, <2>7 DEF OnReadFailed, Boxes
    <3>3. [box[r] EXCEPT !.finishPending = pending] \in Boxes
      BY <1>1 DEF Boxes
    <3>. QED
      BY <1>1, <1>3, <3>1, <3>2, <3>3 DEF Dead, Boxes
  <2>. QED
    BY <1>7, <2>1, <2>2, <2>3, <2>4, <2>5, <2>6, <2>7 DEF ReadSide
<1>8. ASSUME NEW r \in Reactors, WriteSide(r) PROVE [Stream!Next]_(Stream!svars)
  <2>1. CASE OnWriteDone(r) \/ OnWriteFailed(r)
    <3>1. Stream!Write(r)
      BY <1>1, <2>1, WriteRefines DEF OnWriteDone, OnWriteFailed
    <3>. QED
      BY <3>1 DEF Stream!Next
  <2>2. CASE DrainNext(r)
    BY <1>1, <2>2, StartRefines DEF DrainNext
  <2>3. CASE Settle(r)
    BY <1>1, <2>3, SettleRefines
  <2>4. CASE FinishBroken(r) \/ FinishDrained(r)
    BY <1>6, <2>4 DEF FinishBroken, FinishDrained
  <2>. QED
    BY <1>8, <2>1, <2>2, <2>3, <2>4 DEF WriteSide
<1>9. ASSUME NEW r \in Reactors, CancelSide(r) PROVE [Stream!Next]_(Stream!svars)
  <2>1. CASE OnCancel(r)
    <3>1. UNCHANGED <<table, completed>>
      BY <2>1 DEF OnCancel
    <3>2. PICK over \in BOOLEAN :
            /\ box' = [box EXCEPT ![r] = [box[r] EXCEPT !.cancelled = over]]
            /\ box[r].cancelled => over
      BY <1>1, <2>1 DEF OnCancel, Boxes
    <3>3. [box[r] EXCEPT !.cancelled = over] \in Boxes
      BY <1>1 DEF Boxes
    <3>. QED
      BY <1>1, <1>3, <3>1, <3>2, <3>3 DEF Dead, Boxes
  <2>2. CASE EvictCancelled(r)
    BY <1>1, <2>2, LeaveRefines DEF EvictCancelled, ReactorInv, EvicteeIsDead
  <2>. QED
    BY <1>9, <2>1, <2>2 DEF CancelSide
<1>10. ASSUME NEW r \in Reactors, OnDone(r) PROVE [Stream!Next]_(Stream!svars)
  <2>1. Dead(box[r]) /\ UNCHANGED <<box, completed>>
    BY <1>10 DEF OnDone, Quiescent, Dead
  <2>2. CASE box[r].initialised
    BY <1>1, <1>10, <2>1, <2>2, LeaveRefines DEF OnDone
  <2>3. CASE ~box[r].initialised
    BY <1>2, <1>10, <2>1, <2>3 DEF OnDone
  <2>. QED
    BY <2>2, <2>3
<1>11. CASE PushSide
  <2>1. push.to \in Reactors /\ table = push.to
    BY <1>1, <1>11 DEF PushSide, PushEnqueue, PushKick, Idle, ReactorInv, PushHoldsEntry
  <2>2. CASE PushEnqueue
    BY <1>1, <2>1, <2>2, EnqueueRefines DEF PushEnqueue
  <2>3. CASE PushKick
    BY <1>1, <2>1, <2>3, StartRefines DEF PushKick
  <2>. QED
    BY <1>11, <2>2, <2>3 DEF PushSide
<1>. QED
  BY <1>4, <1>5, <1>7, <1>8, <1>9, <1>10, <1>11 DEF Next

(***************************************************************************)
(* For every number of dials, frames and marks: the reactors and the table *)
(* implement BoundedStream.  However the callbacks, the presence loop and  *)
(* pushData overlap, a publisher sees one stream at a time that keeps the  *)
(* order of what it took, refuses only when it is full, and takes no more  *)
(* once another has entered.                                               *)
(***************************************************************************)
THEOREM ReactorImplementsStream == Spec => ImplementsStream
BY RefinesInit, RefinesStep, ReactorInvHolds, EntersHolds, PTL
   DEF Spec, ImplementsStream, Stream!Spec

===============================================================================
