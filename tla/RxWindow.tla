------------------------------- MODULE RxWindow -------------------------------
(***************************************************************************)
(* One receive window of the reliable path, as a value: struct             *)
(* ReliableRxWindow in Edriel.hpp and what handleReliableDataFrame does to *)
(* the window of the frame it is given (Edriel.cpp 1706-1773).  A frame is *)
(* its tid, and the buffer is the set of the tids it holds: std::map keeps *)
(* one frame per tid and emplace() never replaces it.                      *)
(***************************************************************************)
EXTENDS Integers, Sequences, FiniteSets, FiniteSetsExt

CONSTANT WindowSize   \* kReliableWindowSize

ASSUME WindowSizeAssumption == WindowSize \in Nat \ {0}

RxWindows == [nextExpected : Nat, buffer : SUBSET Nat]

NewWindow    == [nextExpected |-> 1, buffer |-> {}]
Unbaselined  == [nextExpected |-> 0, buffer |-> {}]

-------------------------------------------------------------------------------
(***************************************************************************)
(* The branches of the handler, on window win and an arriving tid.         *)
(***************************************************************************)
Baselines(win, tid) == win.nextExpected = 0

InSequence(win, tid) == win.nextExpected # 0 /\ tid = win.nextExpected

Reorders(win, tid) ==
  /\ win.nextExpected # 0
  /\ tid > win.nextExpected
  /\ tid - win.nextExpected < WindowSize
  /\ Cardinality(win.buffer) < WindowSize

\* Mutant: the late-joiner jump is also taken over a window that buffers.
FastForwardsAlways(win, tid) ==
  /\ win.nextExpected # 0
  /\ tid > win.nextExpected
  /\ tid - win.nextExpected >= WindowSize

FastForwards(win, tid) ==
  /\ win.nextExpected # 0
  /\ tid > win.nextExpected
  /\ tid - win.nextExpected >= WindowSize
  /\ win.buffer = {}

Delivers(win, tid) ==
  Baselines(win, tid) \/ InSequence(win, tid) \/ FastForwards(win, tid)

-------------------------------------------------------------------------------
(***************************************************************************)
(* The deliver lambda, entered with nextExpected = tid: hand out the frame,*)
(* step past it, then flush the whole buffer in ascending order, holes     *)
(* included.  The flush sets nextExpected to max(nextExpected, b) + 1 for  *)
(* each b in turn; over an ascending buffer of k tids with the greatest m  *)
(* that comes to the greater of (tid + 1) + k and m + 1.                   *)
(***************************************************************************)
AfterFlush(buffer, tid) ==
  IF buffer = {} THEN tid + 1
  ELSE Max({tid + 1 + Cardinality(buffer), Max(buffer) + 1})

Delivery(win, tid) == [nextExpected |-> AfterFlush(win.buffer, tid), buffer |-> {}]

\* The order in which the map gives out the tids it holds.
Ascending(S) ==
  CHOOSE s \in [1..Cardinality(S) -> S] : \A i, j \in DOMAIN s : i < j => s[i] < s[j]

\* toDispatch: the frame, then the flushed ones.
Batch(win, tid) ==
  IF Delivers(win, tid) THEN <<tid>> \o Ascending(win.buffer) ELSE <<>>

\* Mutant: a buffered frame stays in the buffer once it is flushed.
AdmitKeepingBuffer(win, tid) ==
  IF Delivers(win, tid) THEN [Delivery(win, tid) EXCEPT !.buffer = win.buffer]
  ELSE IF Reorders(win, tid) THEN [win EXCEPT !.buffer = @ \cup {tid}]
  ELSE win

\* Mutant: the flush does not move nextExpected past the holes it absorbs.
AdmitWithoutAbsorbing(win, tid) ==
  IF Delivers(win, tid) THEN [Delivery(win, tid) EXCEPT !.nextExpected = tid + 1]
  ELSE IF Reorders(win, tid) THEN [win EXCEPT !.buffer = @ \cup {tid}]
  ELSE win

\* The window after the frame; any other frame is a duplicate, is too old or
\* lies behind a gap that is too wide, and is dropped.
Admit(win, tid) ==
  IF Delivers(win, tid) THEN Delivery(win, tid)
  ELSE IF Reorders(win, tid) THEN [win EXCEPT !.buffer = @ \cup {tid}]
  ELSE win
===============================================================================
