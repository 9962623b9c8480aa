----------------------------- MODULE BoundedStream -----------------------------
(***************************************************************************)
(* What the service promises a publisher about one subscriber's streams,   *)
(* with no locks, callbacks or writes in flight.  A dial is a stream, and  *)
(* one stream at a time is the entry, to which frames are pushed.  The     *)
(* entry holds what it accepts and writes it in that order; it refuses     *)
(* only from its high-water mark on, and then until it is down at its      *)
(* low-water mark.  A stream becomes the entry once, and is over before    *)
(* another one takes its place: what it still holds is written or lost,    *)
(* and it accepts no more.                                                 *)
(***************************************************************************)
EXTENDS Naturals, Sequences

CONSTANTS Streams,
          None,      \* no stream
          Frames,
          High, Low  \* the marks, in frames behind the one that is written

VARIABLES
  entry,     \* the stream that frames are pushed to, or None
  held,      \* the frames each stream has accepted and not written
  written,   \* the frames each stream has written
  refusing,  \* whether a stream that was full is not yet down at its mark
  over       \* whether a stream accepts no more

svars == <<entry, held, written, refusing, over>>

Init ==
  /\ entry = None
  /\ held = [s \in Streams |-> <<>>]
  /\ written = [s \in Streams |-> <<>>]
  /\ refusing = [s \in Streams |-> FALSE]
  /\ over = [s \in Streams |-> FALSE]

Enter(s) ==
  /\ entry # s
  /\ held[s] = <<>> /\ written[s] = <<>>
  /\ entry' = s
  /\ over' = [q \in Streams |-> over[q] \/ q = entry]
  /\ UNCHANGED <<held, written, refusing>>

Leave ==
  /\ entry # None
  /\ over[entry]
  /\ entry' = None
  /\ UNCHANGED <<held, written, refusing, over>>

End(s) ==
  /\ over' = [over EXCEPT ![s] = TRUE]
  /\ UNCHANGED <<entry, held, written, refusing>>

\* A frame more may be held than the mark says, the one that is being written.
Accept(s, f) ==
  /\ entry = s
  /\ ~over[s] /\ ~refusing[s]
  /\ Len(held[s]) <= High
  /\ held' = [held EXCEPT ![s] = Append(@, f)]
  /\ UNCHANGED <<entry, written, refusing, over>>

Refuse(s) ==
  /\ entry = s
  /\ ~over[s]
  /\ Len(held[s]) >= High
  /\ refusing' = [refusing EXCEPT ![s] = TRUE]
  /\ UNCHANGED <<entry, held, written, over>>

Write(s) ==
  /\ held[s] # <<>>
  /\ held' = [held EXCEPT ![s] = Tail(@)]
  /\ written' = [written EXCEPT ![s] = Append(@, Head(held[s]))]
  /\ UNCHANGED <<entry, refusing, over>>

Resume(s) ==
  /\ Len(held[s]) <= Low + 1
  /\ refusing' = [refusing EXCEPT ![s] = FALSE]
  /\ UNCHANGED <<entry, held, written, over>>

Next ==
  \/ Leave
  \/ \E s \in Streams :
       \/ Enter(s) \/ End(s) \/ Refuse(s) \/ Write(s) \/ Resume(s)
       \/ \E f \in Frames : Accept(s, f)

Spec == Init /\ [][Next]_svars
===============================================================================
