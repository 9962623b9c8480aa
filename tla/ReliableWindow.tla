---------------------------- MODULE ReliableWindow ----------------------------
(***************************************************************************)
(* The receiving side of the reliable path: handleReliableDataFrame,       *)
(* noteReliableStreamEstablished and the window pruning of                 *)
(* removeTimedOutParticipants, as the reader threads of the subscriber     *)
(* connections and the cleaner run them.                                   *)
(*                                                                         *)
(* The windows and the fresh set change under reliableMutex_; the frames   *)
(* that became deliverable are handed to the topic's callbacks after the   *)
(* lock is released, one by one, by the thread that received.  A frame may *)
(* arrive late, twice, out of order or never.                              *)
(***************************************************************************)
EXTENDS RxWindow

CONSTANTS
  Publishers,   \* publisher uids
  Topics,       \* topic keys
  Readers,      \* reader threads, one per ReliableSubscriberConnection
  PublisherOf,  \* the publisher each reader is connected to
  MaxTid        \* bound: the highest tid a publisher stamps

ASSUME ReadersAssumption == PublisherOf \in [Readers -> Publishers]
ASSUME MaxTidAssumption == MaxTid \in Nat

Wins == Publishers \X Topics     \* winKey: "<uid>|<topic key>"
WinsOf(p) == {p} \X Topics

VARIABLES
  stamped,   \* the last tid each publisher gave out for each topic
  windows,   \* reliableWindows_; a key not in known has the value of a new one
  known,     \* the keys present in reliableWindows_
  fresh,     \* reliableFreshPublishers_
  pending,   \* toDispatch of each reader: <<window, tid>> pairs
  accepted,  \* history: tids taken from each window since it was last reset
  handed,    \* history: tids passed to the callbacks since then, in order
  overtaken  \* history: tids dropped since then for being late, never taken

winVars == <<windows, known, fresh>>
vars    == <<stamped, windows, known, fresh, pending, accepted, handed, overtaken>>

Init ==
  /\ stamped = [w \in Wins |-> 0]
  /\ windows = [w \in Wins |-> NewWindow]
  /\ known = {}
  /\ fresh = {}
  /\ pending = [r \in Readers |-> <<>>]
  /\ accepted = [w \in Wins |-> {}]
  /\ handed = [w \in Wins |-> <<>>]
  /\ overtaken = [w \in Wins |-> {}]

\* The histories of the windows in W begin again.
Forget(W) ==
  /\ accepted' = [w \in Wins |-> IF w \in W THEN {} ELSE accepted[w]]
  /\ handed' = [w \in Wins |-> IF w \in W THEN <<>> ELSE handed[w]]
  /\ overtaken' = [w \in Wins |-> IF w \in W THEN {} ELSE overtaken[w]]

\* The publisher commits the next tid of a topic.
Stamp(w) ==
  /\ stamped[w] < MaxTid
  /\ stamped' = [stamped EXCEPT ![w] = @ + 1]
  /\ UNCHANGED <<winVars, pending, accepted, handed, overtaken>>

-------------------------------------------------------------------------------
(***************************************************************************)
(* A reader has opened a new stream to its publisher.                      *)
(***************************************************************************)
ResetWindows(W) == [w \in Wins |-> IF w \in W THEN Unbaselined ELSE windows[w]]

noteReliableStreamEstablished(r) ==
  LET p == PublisherOf[r]
  IN  /\ pending[r] = <<>>
      /\ fresh' = fresh \cup {p}
      /\ windows' = ResetWindows(WinsOf(p) \cap known)
      /\ Forget(WinsOf(p))
      /\ UNCHANGED <<stamped, known, pending>>

(***************************************************************************)
(* A reader passes a data frame to handleReliableDataFrame: the section    *)
(* under reliableMutex_.  The first frame after a new stream resets every  *)
(* window of its publisher that exists, and the frame's own window, which  *)
(* operator[] creates if need be.                                          *)
(***************************************************************************)
\* Mutant: the marker resets only windows that exist already.
FreshScopeKnown(w) == IF w[1] \in fresh THEN WinsOf(w[1]) \cap known ELSE {}

FreshScope(w) == IF w[1] \in fresh THEN (WinsOf(w[1]) \cap known) \cup {w} ELSE {}

Entries(w, tids) == [i \in DOMAIN tids |-> <<w, tids[i]>>]

Receive(r, w, tid) ==
  LET base == ResetWindows(FreshScope(w))
      batch == Batch(base[w], tid)
  IN  /\ pending[r] = <<>>
      /\ w[1] = PublisherOf[r]
      /\ tid <= stamped[w]
      /\ fresh' = fresh \ {w[1]}
      /\ known' = known \cup {w}
      /\ windows' = [base EXCEPT ![w] = Admit(base[w], tid)]
      /\ pending' = [pending EXCEPT ![r] = Entries(w, batch)]
      /\ accepted' = [accepted EXCEPT ![w] =
                        IF Delivers(base[w], tid) THEN @ \cup {tid} \cup base[w].buffer ELSE @]
      /\ overtaken' = [overtaken EXCEPT ![w] =
                         IF tid < base[w].nextExpected THEN @ \cup ({tid} \ accepted[w]) ELSE @]
      /\ UNCHANGED <<stamped, handed>>

\* The loop after the lock: one frame to the topic's callbacks.  A frame taken
\* before its window was reset belongs to no current history.
Dispatch(r) ==
  /\ pending[r] # <<>>
  /\ LET w == Head(pending[r])[1]
         tid == Head(pending[r])[2]
     IN  handed' = [handed EXCEPT ![w] = IF tid \in accepted[w] THEN Append(@, tid) ELSE @]
  /\ pending' = [pending EXCEPT ![r] = Tail(@)]
  /\ UNCHANGED <<stamped, winVars, accepted, overtaken>>

(***************************************************************************)
(* Phase 3 of removeTimedOutParticipants: the cleaner erases the windows   *)
(* of a publisher that timed out.  The fresh marker stays.                 *)
(***************************************************************************)
\* Mutant: the keys go but what they named stays.
PruneKeysOnly(p) ==
  /\ known' = known \ WinsOf(p)
  /\ Forget(WinsOf(p))
  /\ UNCHANGED <<stamped, windows, fresh, pending>>

PruneWindows(p) ==
  /\ windows' = [w \in Wins |-> IF w \in WinsOf(p) THEN NewWindow ELSE windows[w]]
  /\ known' = known \ WinsOf(p)
  /\ Forget(WinsOf(p))
  /\ UNCHANGED <<stamped, fresh, pending>>

Next ==
  \/ \E w \in Wins : Stamp(w)
  \/ \E r \in Readers : noteReliableStreamEstablished(r)
  \/ \E r \in Readers, w \in Wins, tid \in 1..MaxTid : Receive(r, w, tid)
  \/ \E r \in Readers : Dispatch(r)
  \/ \E p \in Publishers : PruneWindows(p)

Spec == Init /\ [][Next]_vars

-------------------------------------------------------------------------------
(***************************************************************************)
(* Properties.                                                             *)
(***************************************************************************)

\* Type invariant of the receive state (Edriel.hpp 265-291).
TypeOK ==
  /\ stamped \in [Wins -> Nat]
  /\ windows \in [Wins -> RxWindows]
  /\ known \subseteq Wins
  /\ \A w \in Wins \ known : windows[w] = NewWindow
  /\ fresh \subseteq Publishers
  /\ accepted \in [Wins -> SUBSET Nat]
  /\ overtaken \in [Wins -> SUBSET Nat]

(***************************************************************************)
(* The reorder buffer stays inside the window that opens behind            *)
(* nextExpected, whatever arrives: it never holds a frame that was already *)
(* passed, never more than WindowSize - 1 frames (so the size test of the  *)
(* handler never decides), and none at all before the baseline.            *)
(***************************************************************************)
BufferInsideWindow ==
  \A w \in Wins :
    LET win == windows[w]
    IN  /\ win.buffer \subseteq (win.nextExpected + 1)..(win.nextExpected + WindowSize - 1)
        /\ win.nextExpected = 0 => win.buffer = {}

(***************************************************************************)
(* nextExpected is a true frontier: everything taken since the last reset  *)
(* lies below it and nothing was taken from an unbaselined window.         *)
(***************************************************************************)
FrontierAboveAccepted ==
  \A w \in Wins :
    /\ windows[w].nextExpected = 0 => accepted[w] = {}
    /\ \A a \in accepted[w] : a < windows[w].nextExpected

(***************************************************************************)
(* Dedup and order at the window: between two resets a frame is taken at   *)
(* most once, and only after every frame with a smaller tid that is ever   *)
(* going to be taken.                                                      *)
(***************************************************************************)
TakesOnlyNewer ==
  [][\A w \in Wins : \A a \in accepted[w], b \in accepted'[w] \ accepted[w] : a < b]_vars

(***************************************************************************)
(* What the callbacks see from one connection: strictly ascending tids, so *)
(* no frame twice and none out of order, across flushes and fast-forwards. *)
(***************************************************************************)
CallbacksInOrder ==
  \A w \in Wins : \A i, j \in DOMAIN handed[w] : i < j => handed[w][i] < handed[w][j]

(***************************************************************************)
(* The marker set by noteReliableStreamEstablished does its work: the      *)
(* first frame received after it, however far the tids moved on, reaches   *)
(* the callbacks instead of waiting behind a gap.                          *)
(***************************************************************************)
FreshFrameIsTaken ==
  [][\A w \in Wins :
       w[1] \in fresh \ fresh' => \E v \in WinsOf(w[1]) : accepted[v] = {} /\ accepted'[v] # {}]_vars

(***************************************************************************)
(* The inductive invariant of the proofs: between the new stream and its   *)
(* first frame nothing has been taken from the publisher's windows.        *)
(***************************************************************************)
FreshIsUntouched == \A w \in Wins : w[1] \in fresh => accepted[w] = {}

WindowInv ==
  /\ TypeOK
  /\ BufferInsideWindow
  /\ FrontierAboveAccepted
  /\ FreshIsUntouched

(***************************************************************************)
(* The inductive invariant behind CallbacksInOrder.  What a reader still   *)
(* has to hand out belongs to one window of its publisher, in ascending    *)
(* order, and is newer than everything that window handed out; of a window *)
(* that was pruned meanwhile nothing is counted.                           *)
(***************************************************************************)
PendingOfReader ==
  /\ pending \in [Readers -> Seq(Wins \X Nat)]
  /\ \A r \in Readers : \A i \in DOMAIN pending[r] : pending[r][i][1][1] = PublisherOf[r]

PendingAscends ==
  \A r \in Readers : \A i, j \in DOMAIN pending[r] :
    i < j => /\ pending[r][i][1] = pending[r][j][1]
             /\ pending[r][i][2] < pending[r][j][2]

PendingAboveHanded ==
  \A r \in Readers : \A i \in DOMAIN pending[r] :
    LET w == pending[r][i][1]
        tid == pending[r][i][2]
    IN  tid \in accepted[w] => \A k \in DOMAIN handed[w] : handed[w][k] < tid

HandedWasAccepted ==
  /\ handed \in [Wins -> Seq(Nat)]
  /\ \A w \in Wins : \A i \in DOMAIN handed[w] : handed[w][i] \in accepted[w]

DispatchInv ==
  /\ PendingOfReader
  /\ PendingAscends
  /\ PendingAboveHanded
  /\ HandedWasAccepted
  /\ CallbacksInOrder

(***************************************************************************)
(* Edriel.cpp 1744-1749: a within-bound gap is buffered because jumping    *)
(* ahead "would silently drop frames of a genuine reorder".  The flush     *)
(* drops them all the same: it absorbs the holes.                          *)
(***************************************************************************)
ReorderDropsNothing ==
  \A w \in Wins : \A d \in overtaken[w], a \in accepted[w] : d < a
===============================================================================
