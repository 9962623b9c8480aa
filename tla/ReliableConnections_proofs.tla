--------------------- MODULE ReliableConnections_proofs ---------------------
(***************************************************************************)
(* Proofs about ReliableConnections: who owns a connection, for any number *)
(* of publishers, endpoints, connections and callers.                      *)
(***************************************************************************)
EXTENDS ReliableConnections, FiniteSetTheorems, WellFoundedInduction, TLAPS

-------------------------------------------------------------------------------
(***************************************************************************)
(* The slot of a new connection is one that is free.                       *)
(***************************************************************************)
LEMMA LeastNatural ==
  ASSUME NEW S, S \subseteq Nat, S # {}
  PROVE  \E n \in S : \A o \in S : n <= o
<1>. DEFINE R == StrictSubsetOrdering(Nat)
            T == {1..n : n \in S}
<1>1. IsWellFoundedOn(R, FiniteSubsetsOf(Nat))
  BY FS_StrictSubsetOrderingWellFounded
<1>2. T \subseteq FiniteSubsetsOf(Nat) /\ T # {}
  <2>1. \A n \in Nat : IsFiniteSet(1..n) /\ 1..n \subseteq Nat
    BY FS_Interval
  <2>. QED
    BY <2>1 DEF FiniteSubsetsOf
<1>3. \E x \in T : \A y \in T : ~(<<y, x>> \in R)
  <2>. HIDE DEF R, T
  <2>. QED
    BY <1>1, <1>2, WFMin, Zenon
<1>4. PICK x \in S : \A y \in S : <<1..y, 1..x>> \notin R
  BY <1>3
<1>5. ASSUME NEW y \in S, y < x PROVE FALSE
  <2>1. 1..y \subseteq 1..x /\ x \in 1..x /\ x \notin 1..y /\ 1..y \subseteq Nat /\ 1..x \subseteq Nat
    BY <1>5
  <2>2. <<1..y, 1..x>> \in R
    BY <2>1 DEF StrictSubsetOrdering
  <2>. QED
    BY <1>4, <2>2
<1>. QED
  BY <1>5

LEMMA SlotIsFree ==
  ASSUME NEW p \in Publishers, FreeSlots(p) # {}
  PROVE  Slot(p) \in 1..MaxConns /\ conn[<<p, Slot(p)>>].at = "free"
<1>1. FreeSlots(p) \subseteq Nat /\ FreeSlots(p) # {}
  BY ConnsAssumption DEF FreeSlots
<1>2. \E n \in FreeSlots(p) : \A o \in FreeSlots(p) : n <= o
  BY <1>1, LeastNatural
<1>3. Slot(p) \in FreeSlots(p)
  BY <1>2 DEF Slot
<1>. QED
  BY <1>3 DEF FreeSlots

-------------------------------------------------------------------------------
(***************************************************************************)
(* Types.                                                                  *)
(***************************************************************************)
ConnRecords == [at : ConnPcs, candidates : Seq(Endpoints), i : Nat \ {0}, connected : Seq(Endpoints),
                ctx : {"none", "active", "cancelled", "broken"}, stop : BOOLEAN]
CallerRecords == [at : CallerPcs, needed : [Publishers -> Seq(Endpoints)],
                  retire : SUBSET Conns, stopping : Conns \cup {Nobody}]

Types ==
  /\ advertised \in [Publishers -> Seq(Endpoints)]
  /\ table \in [Publishers -> 0..MaxConns]
  /\ conn \in [Conns -> ConnRecords]
  /\ caller \in [Callers -> CallerRecords]

\* A candidate is only dialled if there is one.
DialsCandidate == \A c \in Conns : conn[c].at = "connect" => conn[c].i \in DOMAIN conn[c].candidates

\* What a caller holds, by where it is.
Holdings ==
  \A k \in Callers :
    /\ caller[k].at \in {"idle", "swap"} => caller[k].retire = {}
    /\ caller[k].at \in {"cancel", "join"} <=> caller[k].stopping # Nobody
    /\ caller[k].stopping \notin caller[k].retire

Holds(k, c) == c \in caller[k].retire \/ caller[k].stopping = c
InTable(c) == table[c[1]] = c[2]
Free(c) == conn[c].at = "free"

\* A connection that was made is in the table or held by a caller, never both,
\* and never held by two.
Ownership ==
  \A c \in Conns :
    /\ InTable(c) => ~Free(c)
    /\ ~Free(c) => InTable(c) \/ \E k \in Callers : Holds(k, c)
    /\ \A k \in Callers : Holds(k, c) => ~InTable(c) /\ ~Free(c)
    /\ \A k, l \in Callers : Holds(k, c) /\ Holds(l, c) => k = l

OwnInv == Types /\ DialsCandidate /\ Holdings /\ Ownership

LEMMA NobodyIsNoConn == Nobody \notin Conns
BY DEF Nobody, Conns

LEMMA FreeConnType == FreeConn \in ConnRecords
BY DEF FreeConn, ConnRecords, ConnPcs, NoEndpoint

LEMMA RestingType == Resting \in CallerRecords
BY DEF Resting, CallerRecords, CallerPcs, Nothing

LEMMA InitOwns == Init => OwnInv
<1> SUFFICES ASSUME Init PROVE OwnInv
  OBVIOUS
<1>1. Types
  BY FreeConnType, RestingType, ConnsAssumption DEF Init, Types, Nothing
<1>2. /\ \A c \in Conns : conn[c].at = "free" /\ table[c[1]] = 0
      /\ \A k \in Callers : caller[k].at = "idle" /\ caller[k].retire = {} /\ caller[k].stopping = Nobody
  BY DEF Init, FreeConn, Resting, Conns
<1>3. \A c \in Conns : c[2] # 0
  BY ConnsAssumption DEF Conns
<1>. QED
  BY <1>1, <1>2, <1>3, NobodyIsNoConn
     DEF OwnInv, DialsCandidate, Holdings, Ownership, Holds, InTable, Free

\* The ownership is not touched by what leaves the table, the callers and the
\* free slots as they are.
LEMMA OwnershipKept ==
  ASSUME OwnInv, conn' \in [Conns -> ConnRecords], UNCHANGED <<advertised, table, caller>>,
         \A c \in Conns : Free(c)' <=> Free(c), DialsCandidate'
  PROVE  OwnInv'
<1>1. Types' /\ Holdings'
  BY DEF OwnInv, Types, Holdings
<1>2. Ownership'
  <2>1. /\ \A c \in Conns : InTable(c)' <=> InTable(c)
        /\ \A c \in Conns, k \in Callers : Holds(k, c)' <=> Holds(k, c)
    BY DEF InTable, Holds
  <2>. QED
    BY <2>1 DEF OwnInv, Ownership
<1>. QED
  BY <1>1, <1>2 DEF OwnInv

-------------------------------------------------------------------------------
(***************************************************************************)
(* The thread of a connection and the network.                             *)
(***************************************************************************)

\* A step of one connection's thread.
LEMMA ThreadStep ==
  ASSUME OwnInv, NEW c \in Conns, NEW r \in ConnRecords,
         conn' = [conn EXCEPT ![c] = r],
         conn[c].at # "free", r.at # "free", r.at = "connect" => r.i \in DOMAIN r.candidates,
         UNCHANGED <<advertised, table, caller>>
  PROVE  OwnInv'
<1>1. conn \in [Conns -> ConnRecords]
  BY DEF OwnInv, Types
<1>2. /\ conn' \in [Conns -> ConnRecords] /\ conn'[c] = r
      /\ \A d \in Conns \ {c} : conn'[d] = conn[d]
  BY <1>1
<1>3. \A d \in Conns : Free(d)' <=> Free(d)
  BY <1>2 DEF Free
<1>4. DialsCandidate'
  BY <1>2 DEF OwnInv, DialsCandidate
<1>. QED
  BY <1>2, <1>3, <1>4, OwnershipKept

LEMMA RunOwns ==
  ASSUME OwnInv, NEW c \in Conns, run_(c) \/ ReadFrame(c)
  PROVE  OwnInv'
<1>. DEFINE At(pc) == [conn[c] EXCEPT !.at = pc]
<1>1. conn \in [Conns -> ConnRecords] /\ conn[c] \in ConnRecords
  BY DEF OwnInv, Types
<1>2. ASSUME NEW pc \in ConnPcs \ {"free", "connect"}, RunsTo(c, pc), conn[c].at # "free"
      PROVE  OwnInv'
  <2>1. At(pc) \in ConnRecords /\ At(pc).at = pc
    BY <1>1 DEF ConnRecords
  <2>2. conn' = [conn EXCEPT ![c] = At(pc)] /\ UNCHANGED <<advertised, table, caller>>
    BY <1>1, <1>2 DEF RunsTo, managerVars
  <2>. QED
    BY <1>2, <2>1, <2>2, ThreadStep
<1>3. CASE Scan(c)
  <2>1. CASE conn[c].stop
    BY <1>2, <1>3, <2>1 DEF Scan, ConnPcs
  <2>2. CASE ~conn[c].stop /\ conn[c].i > Len(conn[c].candidates)
    BY <1>2, <1>3, <2>2 DEF Scan, ConnPcs
  <2>3. CASE ~conn[c].stop /\ ~(conn[c].i > Len(conn[c].candidates))
    <3>1. RunsTo(c, "connect") /\ conn[c].at = "scan"
      BY <1>3, <2>3 DEF Scan
    <3>2. /\ At("connect") \in ConnRecords /\ At("connect").at = "connect"
          /\ At("connect").i = conn[c].i /\ At("connect").candidates = conn[c].candidates
      BY <1>1 DEF ConnRecords, ConnPcs
    <3>3. conn' = [conn EXCEPT ![c] = At("connect")] /\ UNCHANGED <<advertised, table, caller>>
      BY <1>1, <3>1 DEF RunsTo, managerVars
    <3>4. conn[c].i \in DOMAIN conn[c].candidates
      BY <1>1, <2>3 DEF ConnRecords
    <3>. QED
      BY <3>1, <3>2, <3>3, <3>4, ThreadStep
  <2>. QED
    BY <2>1, <2>2, <2>3
<1>4. CASE Connect(c)
  <2>1. Target(c) \in Endpoints
    BY <1>1, <1>4 DEF Connect, Target, OwnInv, DialsCandidate, ConnRecords
  <2>2. conn[c].at = "connect" /\ UNCHANGED <<advertised, table, caller>>
    BY <1>4 DEF Connect, managerVars
  <2>3. CASE Target(c) \in reachable
    <3>. DEFINE r == [conn[c] EXCEPT !.at = "open", !.connected = <<Target(c)>>]
    <3>1. conn' = [conn EXCEPT ![c] = r]
      BY <1>1, <1>4, <2>3 DEF Connect
    <3>2. r \in ConnRecords /\ r.at = "open"
      <4>1. <<Target(c)>> \in Seq(Endpoints) /\ "open" \in ConnPcs
        BY <2>1 DEF ConnPcs
      <4>2. r = [conn[c] EXCEPT !.at = "open", !.connected = <<Target(c)>>]
        OBVIOUS
      <4>. HIDE DEF r
      <4>3. \A x \in Seq(Endpoints) : [conn[c] EXCEPT !.at = "open", !.connected = x] \in ConnRecords
        BY <1>1, <4>1 DEF ConnRecords
      <4>. QED
        BY <1>1, <4>1, <4>2, <4>3 DEF ConnRecords
    <3>. HIDE DEF r
    <3>. QED
      BY <2>2, <3>1, <3>2, ThreadStep
  <2>4. CASE Target(c) \notin reachable
    <3>. DEFINE r == [conn[c] EXCEPT !.at = "scan", !.i = @ + 1]
    <3>1. conn' = [conn EXCEPT ![c] = r]
      BY <1>1, <1>4, <2>4 DEF Connect
    <3>2. r \in ConnRecords /\ r.at = "scan"
      <4>1. conn[c].i + 1 \in Nat \ {0} /\ "scan" \in ConnPcs
        BY <1>1 DEF ConnRecords, ConnPcs
      <4>. QED
        BY <1>1, <4>1 DEF ConnRecords
    <3>. HIDE DEF r
    <3>. QED
      BY <2>2, <3>1, <3>2, ThreadStep
  <2>. QED
    BY <2>3, <2>4
<1>5. ASSUME NEW pc \in ConnPcs \ {"free", "connect"},
             NEW ctx \in {"none", "active", "cancelled", "broken"},
             conn' = [conn EXCEPT ![c].at = pc, ![c].ctx = ctx], conn[c].at # "free",
             UNCHANGED <<advertised, table, caller>>
      PROVE  OwnInv'
  <2>. DEFINE r == [conn[c] EXCEPT !.at = pc, !.ctx = ctx]
  <2>1. r \in ConnRecords /\ r.at = pc
    BY <1>1 DEF ConnRecords
  <2>2. conn' = [conn EXCEPT ![c] = r]
    BY <1>1, <1>5
  <2>. HIDE DEF r
  <2>. QED
    BY <1>5, <2>1, <2>2, ThreadStep
<1>6. CASE Open(c)
  <2>1. CASE Opens(c)
    BY <1>5, <1>6, <2>1 DEF Open, ConnPcs, managerVars
  <2>2. CASE ~Opens(c)
    BY <1>2, <1>6, <2>2 DEF Open, RunsTo, ConnPcs
  <2>. QED
    BY <2>1, <2>2
<1>7. CASE Write(c)
  <2>1. CASE StreamDead(c)
    BY <1>5, <1>7, <2>1 DEF Write, ConnPcs, managerVars
  <2>2. CASE ~StreamDead(c)
    BY <1>2, <1>7, <2>2 DEF Write, RunsTo, ConnPcs
  <2>. QED
    BY <2>1, <2>2
<1>8. CASE Loop(c)
  <2>1. CASE conn[c].stop
    BY <1>2, <1>8, <2>1 DEF Loop, ConnPcs
  <2>2. CASE ~conn[c].stop
    BY <1>2, <1>8, <2>2 DEF Loop, ConnPcs
  <2>. QED
    BY <2>1, <2>2
<1>9. CASE ReadFrame(c) \/ ReadBroken(c) \/ CallbackReturns(c)
  BY <1>2, <1>9 DEF ReadFrame, ReadBroken, CallbackReturns, ConnPcs
<1>10. CASE Finish(c)
  BY <1>5, <1>10 DEF Finish, ConnPcs, managerVars
<1>11. CASE Clear(c)
  <2>. DEFINE pc == IF conn[c].stop THEN "exited" ELSE "scan"
              j == IF conn[c].stop THEN conn[c].i ELSE conn[c].i + 1
              r == [conn[c] EXCEPT !.connected = NoEndpoint, !.at = pc, !.i = j]
  <2>1. r \in ConnRecords /\ r.at \notin {"free", "connect"}
    <3>1. pc \in ConnPcs \ {"free", "connect"} /\ j \in Nat \ {0} /\ NoEndpoint \in Seq(Endpoints)
      BY <1>1 DEF ConnRecords, ConnPcs, NoEndpoint
    <3>. HIDE DEF pc, j
    <3>. QED
      BY <1>1, <3>1 DEF ConnRecords
  <2>2. conn' = [conn EXCEPT ![c] = r] /\ conn[c].at # "free" /\ UNCHANGED <<advertised, table, caller>>
    BY <1>1, <1>11 DEF Clear, managerVars
  <2>. HIDE DEF r
  <2>. QED
    BY <2>1, <2>2, ThreadStep
<1>12. CASE Backoff(c)
  <2>. DEFINE pc == IF conn[c].stop THEN "exited" ELSE "scan"
              r == [conn[c] EXCEPT !.at = pc, !.i = 1]
  <2>1. r \in ConnRecords /\ r.at \notin {"free", "connect"}
    <3>1. pc \in ConnPcs \ {"free", "connect"} /\ 1 \in Nat \ {0}
      BY DEF ConnPcs
    <3>. HIDE DEF pc
    <3>. QED
      BY <1>1, <3>1 DEF ConnRecords
  <2>2. conn' = [conn EXCEPT ![c] = r] /\ conn[c].at # "free" /\ UNCHANGED <<advertised, table, caller>>
    BY <1>1, <1>12 DEF Backoff, managerVars
  <2>. HIDE DEF r
  <2>. QED
    BY <2>1, <2>2, ThreadStep
<1>. QED
  BY <1>3, <1>4, <1>6, <1>7, <1>8, <1>9, <1>10, <1>11, <1>12 DEF run_

LEMMA NetworkOwns ==
  ASSUME OwnInv,
         \/ \E p \in Publishers : Advertise(p)
         \/ \E e \in Endpoints : ServerUp(e) \/ ServerDown(e)
  PROVE  OwnInv'
<1>1. ASSUME NEW p \in Publishers, Advertise(p) PROVE OwnInv'
  <2>1. advertised' \in [Publishers -> Seq(Endpoints)]
    <3>1. \A eps \in EndpointSets \cup {<<>>} : eps \in Seq(Endpoints)
      <4>1. EndpointSets \subseteq Seq(Endpoints)
        <5>. DEFINE Lists == Seq(Endpoints)
        <5>1. EndpointSets \subseteq Lists \ {<<>>}
          BY EndpointsAssumption
        <5>. HIDE DEF Lists
        <5>2. EndpointSets \subseteq Lists
          BY <5>1
        <5>. QED
          BY <5>2 DEF Lists
      <4>2. <<>> \in Seq(Endpoints)
        OBVIOUS
      <4>. QED
        BY <4>1, <4>2
    <3>. QED
      BY <1>1, <3>1 DEF Advertise, OwnInv, Types
  <2>. QED
    BY <1>1, <2>1 DEF Advertise, managerVars, OwnInv, Types, DialsCandidate, Holdings, Ownership,
       Holds, InTable, Free
<1>2. ASSUME NEW e \in Endpoints, ServerUp(e) PROVE OwnInv'
  BY <1>2 DEF ServerUp, managerVars, OwnInv, Types, DialsCandidate, Holdings, Ownership,
     Holds, InTable, Free
<1>3. ASSUME NEW e \in Endpoints, ServerDown(e) PROVE OwnInv'
  <2>1. conn \in [Conns -> ConnRecords]
    BY DEF OwnInv, Types
  <2>2. \A c \in Conns : /\ conn'[c] \in ConnRecords
                         /\ conn'[c].at = conn[c].at /\ conn'[c].i = conn[c].i
                         /\ conn'[c].candidates = conn[c].candidates
    <3>1. SUFFICES ASSUME NEW c \in Conns
                   PROVE  /\ conn'[c] \in ConnRecords
                          /\ conn'[c].at = conn[c].at /\ conn'[c].i = conn[c].i
                          /\ conn'[c].candidates = conn[c].candidates
      OBVIOUS
    <3>2. conn'[c] = conn[c] \/ conn'[c] = [conn[c] EXCEPT !.ctx = "broken"]
      BY <1>3 DEF ServerDown
    <3>. QED
      BY <2>1, <3>2 DEF ConnRecords
  <2>3. conn' = [c \in Conns |-> conn'[c]]
    BY <1>3 DEF ServerDown
  <2>4. conn' \in [Conns -> ConnRecords] /\ DialsCandidate' /\ \A c \in Conns : Free(c)' <=> Free(c)
    BY <2>2, <2>3 DEF OwnInv, DialsCandidate, Free
  <2>. QED
    BY <1>3, <2>4, OwnershipKept DEF ServerDown, managerVars
<1>. QED
  BY <1>1, <1>2, <1>3

-------------------------------------------------------------------------------
(***************************************************************************)
(* The callers of the connection manager.                                  *)
(***************************************************************************)

\* A step of one caller that holds afterwards what it held, and touches no
\* slot's being free.
LEMMA CallerStep ==
  ASSUME OwnInv, NEW k \in Callers, NEW r \in CallerRecords, caller' = [caller EXCEPT ![k] = r],
         conn' \in [Conns -> ConnRecords], \A c \in Conns : Free(c)' <=> Free(c), DialsCandidate',
         UNCHANGED <<advertised, table>>,
         r.at \in {"idle", "swap"} => r.retire = {},
         r.at \in {"cancel", "join"} <=> r.stopping # Nobody,
         r.stopping \notin r.retire,
         \A c \in Conns : c \in r.retire \/ r.stopping = c <=> Holds(k, c)
  PROVE  OwnInv'
<1>1. caller \in [Callers -> CallerRecords]
  BY DEF OwnInv, Types
<1>2. caller' \in [Callers -> CallerRecords] /\ caller'[k] = r
      /\ \A l \in Callers \ {k} : caller'[l] = caller[l]
  BY <1>1
<1>3. Types' /\ Holdings'
  BY <1>2 DEF OwnInv, Types, Holdings
<1>4. /\ \A c \in Conns : InTable(c)' <=> InTable(c)
      /\ \A c \in Conns, l \in Callers : Holds(l, c)' <=> Holds(l, c)
  BY <1>2 DEF InTable, Holds
<1>5. Ownership'
  BY <1>4 DEF OwnInv, Ownership
<1>. QED
  BY <1>3, <1>5 DEF OwnInv

\* The connections are as they were.
LEMMA ConnsSame ==
  ASSUME OwnInv, UNCHANGED conn
  PROVE  conn' \in [Conns -> ConnRecords] /\ DialsCandidate' /\ \A c \in Conns : Free(c)' <=> Free(c)
BY DEF OwnInv, Types, DialsCandidate, Free

LEMMA ReconcileOwns ==
  ASSUME OwnInv, NEW k \in Callers, Reconcile(k)
  PROVE  OwnInv'
<1>. DEFINE r == [caller[k] EXCEPT !.at = "swap", !.needed = advertised]
<1>1. caller[k] \in CallerRecords /\ caller[k].at = "idle" /\ advertised \in [Publishers -> Seq(Endpoints)]
      /\ caller \in [Callers -> CallerRecords]
  BY DEF OwnInv, Types, Reconcile, MayReconcile
<1>2. r \in CallerRecords /\ r.at = "swap" /\ r.retire = caller[k].retire /\ r.stopping = caller[k].stopping
  BY <1>1 DEF CallerRecords, CallerPcs
<1>3. caller' = [caller EXCEPT ![k] = r] /\ UNCHANGED <<advertised, table, conn>>
  BY <1>1 DEF Reconcile
<1>4. caller[k].retire = {} /\ caller[k].stopping = Nobody
  BY <1>1 DEF OwnInv, Holdings
<1>. HIDE DEF r
<1>. QED
  BY <1>2, <1>3, <1>4, CallerStep, ConnsSame DEF Holds

LEMMA StopNextOwns ==
  ASSUME OwnInv, NEW k \in Callers, StopNext(k)
  PROVE  OwnInv'
<1>1. PICK c \in caller[k].retire :
        /\ conn' = [conn EXCEPT ![c].stop = TRUE]
        /\ caller' = [caller EXCEPT ![k].at = "cancel", ![k].retire = @ \ {c}, ![k].stopping = c]
  BY DEF StopNext
<1>. DEFINE r == [caller[k] EXCEPT !.at = "cancel", !.retire = caller[k].retire \ {c}, !.stopping = c]
<1>2. caller[k] \in CallerRecords /\ caller[k].at = "next" /\ c \in Conns
      /\ caller \in [Callers -> CallerRecords] /\ conn \in [Conns -> ConnRecords]
  BY DEF OwnInv, Types, StopNext, CallerRecords
<1>3. /\ r \in CallerRecords /\ r.at = "cancel"
      /\ r.retire = caller[k].retire \ {c} /\ r.stopping = c
  BY <1>2 DEF CallerRecords, CallerPcs
<1>4. caller' = [caller EXCEPT ![k] = r] /\ UNCHANGED <<advertised, table>>
  BY <1>1, <1>2 DEF StopNext
<1>5. caller[k].stopping = Nobody /\ c # Nobody
  BY <1>2, NobodyIsNoConn DEF OwnInv, Holdings
<1>6. /\ conn' \in [Conns -> ConnRecords]
      /\ \A d \in Conns : /\ conn'[d].at = conn[d].at /\ conn'[d].i = conn[d].i
                          /\ conn'[d].candidates = conn[d].candidates
  <2>1. conn[c] \in ConnRecords
    BY <1>2
  <2>2. /\ [conn[c] EXCEPT !.stop = TRUE] \in ConnRecords
        /\ [conn[c] EXCEPT !.stop = TRUE].at = conn[c].at
        /\ [conn[c] EXCEPT !.stop = TRUE].i = conn[c].i
        /\ [conn[c] EXCEPT !.stop = TRUE].candidates = conn[c].candidates
    BY <2>1 DEF ConnRecords
  <2>3. conn' = [conn EXCEPT ![c] = [conn[c] EXCEPT !.stop = TRUE]]
    BY <1>1, <1>2
  <2>. QED
    BY <1>2, <2>2, <2>3
<1>7. DialsCandidate' /\ \A d \in Conns : Free(d)' <=> Free(d)
  BY <1>6 DEF OwnInv, DialsCandidate, Free
<1>8. \A d \in Conns : d \in r.retire \/ r.stopping = d <=> Holds(k, d)
  BY <1>2, <1>3, <1>5, NobodyIsNoConn DEF Holds
<1>. HIDE DEF r
<1>. QED
  BY <1>3, <1>4, <1>5, <1>6, <1>7, <1>8, CallerStep

LEMMA StopCancelOwns ==
  ASSUME OwnInv, NEW k \in Callers, StopCancel(k)
  PROVE  OwnInv'
<1>. DEFINE c == caller[k].stopping
            r == [caller[k] EXCEPT !.at = "join"]
            ctx == IF conn[c].ctx = "active" THEN "cancelled" ELSE conn[c].ctx
<1>1. caller[k] \in CallerRecords /\ caller[k].at = "cancel"
      /\ caller \in [Callers -> CallerRecords] /\ conn \in [Conns -> ConnRecords]
  BY DEF OwnInv, Types, StopCancel
<1>2. c \in Conns /\ c # Nobody /\ c \notin caller[k].retire
  <2>1. c \in Conns \cup {Nobody}
    BY <1>1 DEF CallerRecords
  <2>2. c # Nobody /\ c \notin caller[k].retire
    BY <1>1 DEF OwnInv, Holdings
  <2>. QED
    BY <2>1, <2>2
<1>3. r \in CallerRecords /\ r.at = "join" /\ r.retire = caller[k].retire /\ r.stopping = c
  BY <1>1 DEF CallerRecords, CallerPcs
<1>4. /\ caller' = [caller EXCEPT ![k] = r] /\ UNCHANGED <<advertised, table>>
      /\ conn' = [conn EXCEPT ![c] = [conn[c] EXCEPT !.ctx = ctx]]
  BY <1>1, <1>2 DEF StopCancel
<1>5. /\ conn' \in [Conns -> ConnRecords]
      /\ \A d \in Conns : /\ conn'[d].at = conn[d].at /\ conn'[d].i = conn[d].i
                          /\ conn'[d].candidates = conn[d].candidates
  <2>1. conn[c] \in ConnRecords
    BY <1>1, <1>2
  <2>2. ctx \in {"none", "active", "cancelled", "broken"}
    BY <2>1 DEF ConnRecords
  <2>. HIDE DEF ctx
  <2>3. /\ [conn[c] EXCEPT !.ctx = ctx] \in ConnRecords
        /\ [conn[c] EXCEPT !.ctx = ctx].at = conn[c].at
        /\ [conn[c] EXCEPT !.ctx = ctx].i = conn[c].i
        /\ [conn[c] EXCEPT !.ctx = ctx].candidates = conn[c].candidates
    BY <2>1, <2>2 DEF ConnRecords
  <2>. QED
    BY <1>1, <1>2, <1>4, <2>3
<1>6. DialsCandidate' /\ \A d \in Conns : Free(d)' <=> Free(d)
  BY <1>5 DEF OwnInv, DialsCandidate, Free
<1>7. \A d \in Conns : d \in r.retire \/ r.stopping = d <=> Holds(k, d)
  BY <1>3 DEF Holds
<1>. HIDE DEF r
<1>. QED
  BY <1>2, <1>3, <1>4, <1>5, <1>6, <1>7, CallerStep

LEMMA ReturnOwns ==
  ASSUME OwnInv, NEW k \in Callers, Return(k)
  PROVE  OwnInv'
<1>1. caller[k].at = "next" /\ caller[k].retire = {} /\ caller' = [caller EXCEPT ![k] = Resting]
      /\ UNCHANGED <<advertised, table, conn>>
  BY DEF Return
<1>2. caller[k].stopping = Nobody
  <2>1. caller[k] \in CallerRecords
    BY DEF OwnInv, Types
  <2>. QED
    BY <1>1, <2>1 DEF OwnInv, Holdings
<1>3. Resting.at = "idle" /\ Resting.retire = {} /\ Resting.stopping = Nobody
  BY DEF Resting
<1>4. \A c \in Conns : c \in Resting.retire \/ Resting.stopping = c <=> Holds(k, c)
  BY <1>1, <1>2, <1>3 DEF Holds
<1>5. /\ Resting.at \in {"idle", "swap"} => Resting.retire = {}
      /\ Resting.at \in {"cancel", "join"} <=> Resting.stopping # Nobody
      /\ Resting.stopping \notin Resting.retire
  BY <1>3
<1>. QED
  BY <1>1, <1>4, <1>5, RestingType, CallerStep, ConnsSame

LEMMA StopJoinOwns ==
  ASSUME OwnInv, NEW k \in Callers, StopJoin(k)
  PROVE  OwnInv'
<1>. DEFINE r == [caller[k] EXCEPT !.at = "next", !.stopping = Nobody]
<1>1. caller[k] \in CallerRecords /\ caller[k].at = "join"
      /\ caller \in [Callers -> CallerRecords] /\ conn \in [Conns -> ConnRecords]
  BY DEF OwnInv, Types, StopJoin
<1>2. PICK c \in Conns : c = caller[k].stopping /\ c # Nobody /\ c \notin caller[k].retire
  <2>1. caller[k].stopping \in Conns \cup {Nobody}
    BY <1>1 DEF CallerRecords
  <2>2. caller[k].stopping # Nobody /\ caller[k].stopping \notin caller[k].retire
    BY <1>1 DEF OwnInv, Holdings
  <2>. QED
    BY <2>1, <2>2
<1>3. r \in CallerRecords /\ r.at = "next" /\ r.retire = caller[k].retire /\ r.stopping = Nobody
  BY <1>1 DEF CallerRecords, CallerPcs
<1>4. /\ caller' = [caller EXCEPT ![k] = r] /\ UNCHANGED <<advertised, table>>
      /\ conn' = [conn EXCEPT ![c] = FreeConn]
  BY <1>1, <1>2 DEF StopJoin
<1>. HIDE DEF r
<1>5. /\ caller' \in [Callers -> CallerRecords] /\ caller'[k] = r
      /\ \A l \in Callers \ {k} : caller'[l] = caller[l]
      /\ conn' \in [Conns -> ConnRecords] /\ conn'[c].at = "free"
      /\ \A d \in Conns \ {c} : conn'[d] = conn[d]
  <2>1. FreeConn.at = "free"
    BY DEF FreeConn
  <2>. QED
    BY <1>1, <1>2, <1>3, <1>4, <2>1, FreeConnType
<1>6. Types' /\ Holdings'
  <2>1. Nobody \notin caller[k].retire
    BY <1>1, NobodyIsNoConn DEF CallerRecords
  <2>. QED
    BY <1>3, <1>4, <1>5, <2>1 DEF OwnInv, Types, Holdings
<1>7. DialsCandidate'
  BY <1>5 DEF OwnInv, DialsCandidate
<1>8. /\ Free(c)' /\ \A d \in Conns \ {c} : Free(d)' <=> Free(d)
      /\ \A d \in Conns : InTable(d)' <=> InTable(d)
      /\ \A d \in Conns \ {c}, l \in Callers : Holds(l, d)' <=> Holds(l, d)
      /\ ~InTable(c) /\ \A l \in Callers : ~Holds(l, c)'
  <2>1. Holds(k, c)
    BY <1>2 DEF Holds
  <2>2. ~InTable(c) /\ \A l \in Callers \ {k} : ~Holds(l, c)
    BY <1>2, <2>1 DEF OwnInv, Ownership
  <2>3. ASSUME NEW d \in Conns \ {c}, NEW l \in Callers PROVE Holds(l, d)' <=> Holds(l, d)
    <3>1. CASE l = k
      BY <1>2, <1>3, <1>5, <3>1, NobodyIsNoConn DEF Holds
    <3>2. CASE l # k
      BY <1>5, <3>2 DEF Holds
    <3>. QED
      BY <3>1, <3>2
  <2>4. \A l \in Callers : ~Holds(l, c)'
    BY <1>2, <1>3, <1>5, <2>2 DEF Holds
  <2>. QED
    BY <1>4, <1>5, <2>2, <2>3, <2>4 DEF Free, InTable
<1>9. Ownership'
  BY <1>8 DEF OwnInv, Ownership
<1>. QED
  BY <1>6, <1>7, <1>9 DEF OwnInv

\* The entries of a set of publishers that have one go from the table to a
\* caller that held nothing, and free slots may be filled and entered.
LEMMA TakenOut ==
  ASSUME OwnInv, NEW k \in Callers, NEW out \in SUBSET Publishers, NEW made \in SUBSET Publishers,
         \A p \in out : Has(p),
         \A p \in made : p \in out \/ ~Has(p),
         \A p \in made : conn[<<p, table'[p]>>].at = "free" /\ table'[p] \in 1..MaxConns,
         \A p \in Publishers \ made : table'[p] = IF p \in out THEN 0 ELSE table[p],
         table' \in [Publishers -> 0..MaxConns],
         conn' \in [Conns -> ConnRecords],
         \A c \in Conns : IF c[1] \in made /\ c[2] = table'[c[1]]
                          THEN conn'[c].at = "scan" ELSE conn'[c] = conn[c],
         UNCHANGED advertised,
         caller' \in [Callers -> CallerRecords],
         \A l \in Callers \ {k} : caller'[l] = caller[l],
         caller[k].retire = {}, caller[k].stopping = Nobody,
         caller'[k].at = "next", caller'[k].stopping = Nobody,
         caller'[k].retire = {Entry(p) : p \in out}
  PROVE  OwnInv'
<1>1. \A c \in Conns : c[1] \in Publishers /\ c[2] \in 1..MaxConns /\ c = <<c[1], c[2]>> /\ c[2] # 0
  BY ConnsAssumption DEF Conns
<1>2. \A c \in Conns : Holds(k, c)' <=> c[1] \in out /\ InTable(c)
  <2>1. \A c \in Conns : Holds(k, c)' <=> c \in {Entry(p) : p \in out}
    BY NobodyIsNoConn DEF Holds
  <2>2. \A c \in Conns : c \in {Entry(p) : p \in out} <=> c[1] \in out /\ InTable(c)
    BY <1>1 DEF Entry, InTable
  <2>. QED
    BY <2>1, <2>2
<1>3. /\ \A c \in Conns : ~Holds(k, c)
      /\ \A c \in Conns, l \in Callers \ {k} : Holds(l, c)' <=> Holds(l, c)
  BY NobodyIsNoConn DEF Holds
<1>4. \A c \in Conns : Free(c)' <=> Free(c) /\ ~(c[1] \in made /\ c[2] = table'[c[1]])
  BY DEF Free
<1>5. \A c \in Conns :
        InTable(c)' <=> \/ c[1] \in made /\ c[2] = table'[c[1]]
                        \/ c[1] \notin made /\ c[1] \notin out /\ InTable(c)
  BY <1>1 DEF InTable
<1>6. \A c \in Conns : c[1] \in made /\ c[2] = table'[c[1]] => Free(c)
  BY <1>1 DEF Free
<1>7. \A c \in Conns : InTable(c) => c[1] \in out \/ c[1] \notin made
  BY <1>1 DEF InTable, Has
<1>8. Ownership'
  <2>. DEFINE New(c) == c[1] \in made /\ c[2] = table'[c[1]]
              Out(c) == c[1] \in out /\ InTable(c)
  <2>1. ASSUME NEW c \in Conns PROVE InTable(c)' => ~Free(c)'
    BY <1>4, <1>5 DEF OwnInv, Ownership
  <2>2. ASSUME NEW c \in Conns, ~Free(c)'
        PROVE  InTable(c)' \/ \E l \in Callers : Holds(l, c)'
    <3>1. CASE c[1] \in made /\ c[2] = table'[c[1]]
      BY <1>5, <3>1
    <3>2. CASE ~Free(c) /\ InTable(c)
      BY <1>2, <1>5, <1>7, <3>2
    <3>3. CASE ~Free(c) /\ \E l \in Callers : Holds(l, c)
      BY <1>3, <3>3
    <3>. QED
      BY <1>4, <2>2, <3>1, <3>2, <3>3 DEF OwnInv, Ownership
  <2>3. ASSUME NEW c \in Conns, NEW l \in Callers, Holds(l, c)'
        PROVE  ~InTable(c)' /\ ~Free(c)'
    <3>1. CASE l = k
      <4>1. c[1] \in out /\ InTable(c)
        BY <1>2, <2>3, <3>1
      <4>2. ~Free(c)
        BY <4>1 DEF OwnInv, Ownership
      <4>. QED
        BY <1>4, <1>5, <1>6, <4>1, <4>2
    <3>2. CASE l # k
      <4>1. Holds(l, c)
        BY <1>3, <2>3, <3>2
      <4>2. ~InTable(c) /\ ~Free(c)
        BY <4>1 DEF OwnInv, Ownership
      <4>. QED
        BY <1>4, <1>5, <1>6, <4>2
    <3>. QED
      BY <3>1, <3>2
  <2>4. ASSUME NEW c \in Conns, NEW l \in Callers, NEW m \in Callers, Holds(l, c)', Holds(m, c)'
        PROVE  l = m
    <3>1. CASE l # k /\ m # k
      BY <1>3, <2>4, <3>1 DEF OwnInv, Ownership
    <3>2. ASSUME NEW o \in Callers, o # k, Holds(o, c)', Holds(k, c)' PROVE FALSE
      BY <1>2, <1>3, <3>2 DEF OwnInv, Ownership
    <3>. QED
      BY <2>4, <3>1, <3>2
  <2>. QED
    BY <2>1, <2>2, <2>3, <2>4 DEF Ownership
<1>9. Types'
  BY DEF OwnInv, Types
<1>10. Holdings'
  <2>1. Nobody \notin caller'[k].retire
    BY NobodyIsNoConn DEF CallerRecords
  <2>. QED
    BY <2>1 DEF OwnInv, Holdings
<1>11. DialsCandidate'
  BY DEF OwnInv, DialsCandidate
<1>. QED
  BY <1>8, <1>9, <1>10, <1>11 DEF OwnInv

LEMMA SwapOwns ==
  ASSUME OwnInv, NEW k \in Callers, Swap(k)
  PROVE  OwnInv'
<1>1. PICK needed \in [Publishers -> Seq(Endpoints)] : needed = caller[k].needed
  BY DEF OwnInv, Types, CallerRecords
<1>2. PICK made \in SUBSET Publishers : made = {p \in Publishers : Creates(p, needed[p])}
  OBVIOUS
<1>3. PICK out \in SUBSET Publishers : out = {p \in Publishers : Retires(p, needed[p])}
  OBVIOUS
<1>4. /\ caller[k].at = "swap"
      /\ \A p \in made : FreeSlots(p) # {}
      /\ table' = [p \in Publishers |->
                     IF p \in made THEN Slot(p) ELSE IF p \in out THEN 0 ELSE table[p]]
      /\ conn' = [c \in Conns |->
                    IF c[1] \in made /\ c[2] = Slot(c[1])
                    THEN [FreeConn EXCEPT !.at = "scan", !.candidates = needed[c[1]]]
                    ELSE conn[c]]
      /\ caller' = [caller EXCEPT ![k].at = "next", ![k].needed = Nothing, ![k].retire = Retired(needed)]
      /\ UNCHANGED advertised
  BY <1>1, <1>2, <1>3 DEF Swap
<1>5. /\ conn \in [Conns -> ConnRecords] /\ caller \in [Callers -> CallerRecords]
      /\ table \in [Publishers -> 0..MaxConns] /\ caller[k] \in CallerRecords
      /\ caller[k].retire = {} /\ caller[k].stopping = Nobody
  BY <1>4 DEF OwnInv, Types, Holdings
<1>6. \A p \in made : Slot(p) \in 1..MaxConns /\ conn[<<p, Slot(p)>>].at = "free"
  BY <1>4, SlotIsFree
<1>7. /\ \A p \in made : table'[p] = Slot(p)
      /\ \A p \in Publishers \ made : table'[p] = IF p \in out THEN 0 ELSE table[p]
      /\ table' \in [Publishers -> 0..MaxConns]
  <2>1. ASSUME NEW p \in made PROVE Slot(p) \in 0..MaxConns
    <3>1. Slot(p) \in 1..MaxConns
      BY <1>6
    <3>. HIDE DEF Slot
    <3>. QED
      BY <3>1, ConnsAssumption
  <2>2. \A p \in Publishers : table[p] \in 0..MaxConns /\ 0 \in 0..MaxConns
    BY <1>5, ConnsAssumption
  <2>3. \A p \in Publishers :
          table'[p] = IF p \in made THEN Slot(p) ELSE IF p \in out THEN 0 ELSE table[p]
    BY <1>4
  <2>4. \A p \in Publishers : table'[p] \in 0..MaxConns
    BY <2>1, <2>2, <2>3
  <2>5. table' = [p \in Publishers |-> table'[p]]
    BY <1>4
  <2>. QED
    BY <2>3, <2>4, <2>5
<1>8. ASSUME NEW x \in Seq(Endpoints)
      PROVE  /\ [FreeConn EXCEPT !.at = "scan", !.candidates = x] \in ConnRecords
             /\ [FreeConn EXCEPT !.at = "scan", !.candidates = x].at = "scan"
  BY FreeConnType DEF FreeConn, ConnRecords, ConnPcs
<1>9. \A c \in Conns : c[1] \in Publishers
  BY DEF Conns
<1>10. /\ conn' \in [Conns -> ConnRecords]
       /\ \A c \in Conns : IF c[1] \in made /\ c[2] = table'[c[1]]
                           THEN conn'[c].at = "scan" ELSE conn'[c] = conn[c]
  <2>1. ASSUME NEW c \in Conns
        PROVE  /\ conn'[c] \in ConnRecords
               /\ IF c[1] \in made /\ c[2] = table'[c[1]]
                  THEN conn'[c].at = "scan" ELSE conn'[c] = conn[c]
    <3>1. CASE c[1] \in made /\ c[2] = Slot(c[1])
      <4>1. conn'[c] = [FreeConn EXCEPT !.at = "scan", !.candidates = needed[c[1]]]
            /\ needed[c[1]] \in Seq(Endpoints)
        BY <1>4, <1>9, <3>1
      <4>. QED
        BY <1>7, <1>8, <3>1, <4>1
    <3>2. CASE ~(c[1] \in made /\ c[2] = Slot(c[1]))
      BY <1>4, <1>5, <1>7, <3>2
    <3>. QED
      BY <3>1, <3>2
  <2>2. conn' = [c \in Conns |-> conn'[c]]
    BY <1>4
  <2>. QED
    BY <2>1, <2>2
<1>11. \A p \in out : Has(p)
  BY <1>3 DEF Retires
<1>12. \A p \in made : p \in out \/ ~Has(p)
  BY <1>2, <1>3 DEF Creates
<1>13. Retired(needed) = {Entry(p) : p \in out} /\ Retired(needed) \subseteq Conns
  <2>1. Retired(needed) = {Entry(p) : p \in out}
    BY <1>3 DEF Retired
  <2>2. \A p \in out : Entry(p) \in Conns
    BY <1>5, <1>11, ConnsAssumption DEF Entry, Has, Conns
  <2>. QED
    BY <2>1, <2>2
<1>. DEFINE r == [caller[k] EXCEPT !.at = "next", !.needed = Nothing, !.retire = Retired(needed)]
<1>14. /\ r \in CallerRecords /\ r.at = "next"
       /\ r.retire = {Entry(p) : p \in out} /\ r.stopping = Nobody
  <2>1. Nothing \in [Publishers -> Seq(Endpoints)] /\ "next" \in CallerPcs
    BY DEF Nothing, CallerPcs
  <2>. HIDE DEF Nothing
  <2>. QED
    BY <1>5, <1>13, <2>1 DEF CallerRecords
<1>15. caller' = [caller EXCEPT ![k] = r]
  BY <1>4, <1>5
<1>. HIDE DEF r
<1>16. /\ caller' \in [Callers -> CallerRecords] /\ caller'[k] = r
       /\ \A l \in Callers \ {k} : caller'[l] = caller[l]
  BY <1>5, <1>14, <1>15
<1>17. \A p \in made : conn[<<p, table'[p]>>].at = "free" /\ table'[p] \in 1..MaxConns
  BY <1>6, <1>7
<1>18. /\ caller'[k].at = "next" /\ caller'[k].stopping = Nobody
       /\ caller'[k].retire = {Entry(p) : p \in out}
  BY <1>14, <1>16
<1>19. UNCHANGED advertised
  BY <1>4
<1>. QED
  BY <1>5, <1>7, <1>10, <1>11, <1>12, <1>16, <1>17, <1>18, <1>19, TakenOut

LEMMA StopOwns ==
  ASSUME OwnInv, stopReliableSubscriptions
  PROVE  OwnInv'
<1>0. PICK k \in Callers : k = App
  BY DEF Callers
<1>1. PICK out \in SUBSET Publishers : out = {p \in Publishers : Has(p)}
  OBVIOUS
<1>2. /\ caller[k].at = "idle"
      /\ caller' = [caller EXCEPT ![k].at = "next", ![k].retire = {Entry(p) : p \in out}]
      /\ table' = [p \in Publishers |-> 0]
      /\ UNCHANGED <<advertised, conn>>
  BY <1>0, <1>1 DEF stopReliableSubscriptions
<1>3. /\ conn \in [Conns -> ConnRecords] /\ caller \in [Callers -> CallerRecords]
      /\ table \in [Publishers -> 0..MaxConns] /\ caller[k] \in CallerRecords
      /\ caller[k].retire = {} /\ caller[k].stopping = Nobody
  BY <1>2 DEF OwnInv, Types, Holdings
<1>4. \A p \in out : Entry(p) \in Conns
  BY <1>1, <1>3, ConnsAssumption DEF Entry, Has, Conns
<1>. DEFINE r == [caller[k] EXCEPT !.at = "next", !.retire = {Entry(p) : p \in out}]
<1>5. /\ r \in CallerRecords /\ r.at = "next"
      /\ r.retire = {Entry(p) : p \in out} /\ r.stopping = Nobody
  <2>1. {Entry(p) : p \in out} \in SUBSET Conns /\ "next" \in CallerPcs
    BY <1>4 DEF CallerPcs
  <2>. QED
    BY <1>3, <2>1 DEF CallerRecords
<1>6. caller' = [caller EXCEPT ![k] = r]
  BY <1>2, <1>3
<1>. HIDE DEF r
<1>7. /\ caller' \in [Callers -> CallerRecords] /\ caller'[k] = r
      /\ \A l \in Callers \ {k} : caller'[l] = caller[l]
  BY <1>2, <1>3, <1>5, <1>6
<1>8. /\ table' \in [Publishers -> 0..MaxConns]
      /\ \A p \in Publishers : table'[p] = IF p \in out THEN 0 ELSE table[p]
  BY <1>1, <1>2, <1>3, ConnsAssumption DEF Has
<1>9. \A p \in out : Has(p)
  BY <1>1
<1>10. PICK made \in SUBSET Publishers : made = {}
  OBVIOUS
<1>11. /\ \A p \in made : p \in out \/ ~Has(p)
       /\ \A p \in made : conn[<<p, table'[p]>>].at = "free" /\ table'[p] \in 1..MaxConns
       /\ \A p \in Publishers \ made : table'[p] = IF p \in out THEN 0 ELSE table[p]
  BY <1>8, <1>10
<1>12. /\ conn' \in [Conns -> ConnRecords]
       /\ \A c \in Conns : IF c[1] \in made /\ c[2] = table'[c[1]]
                           THEN conn'[c].at = "scan" ELSE conn'[c] = conn[c]
  BY <1>2, <1>3, <1>10
<1>13. /\ caller'[k].at = "next" /\ caller'[k].stopping = Nobody
       /\ caller'[k].retire = {Entry(p) : p \in out}
  BY <1>5, <1>7
<1>14. /\ table' \in [Publishers -> 0..MaxConns]
       /\ caller[k].retire = {} /\ caller[k].stopping = Nobody
       /\ UNCHANGED advertised
  BY <1>2, <1>3, <1>8
<1>. QED
  BY <1>7, <1>9, <1>11, <1>12, <1>13, <1>14, TakenOut

LEMMA NextOwns == OwnInv /\ [Next]_vars => OwnInv'
<1> SUFFICES ASSUME OwnInv, [Next]_vars PROVE OwnInv'
  OBVIOUS
<1>1. CASE UNCHANGED vars
  BY <1>1 DEF vars, OwnInv, Types, DialsCandidate, Holdings, Ownership, Holds, InTable, Free
<1>2. ASSUME NEW k \in Callers, Reconcile(k) \/ GoesOn(k) PROVE OwnInv'
  BY <1>2, ReconcileOwns, SwapOwns, StopNextOwns, StopCancelOwns, StopJoinOwns, ReturnOwns DEF GoesOn
<1>. QED
  BY <1>1, <1>2, NetworkOwns, RunOwns, StopOwns DEF Next

(***************************************************************************)
(* Every connection that was made has exactly one owner, the table or one  *)
(* caller that is stopping it, whoever reconciles at the same time and     *)
(* however old what it has read of the registry: no thread is orphaned and *)
(* none is joined by two.                                                  *)
(***************************************************************************)
THEOREM ConnectionHasOneOwner == Spec => []OwnedByOne
<1>1. OwnInv => OwnedByOne
  <2> SUFFICES ASSUME OwnInv, NEW c \in Conns
               PROVE  conn[c].at # "free" <=> \E o \in Owners(c) : Owners(c) = {o}
    BY DEF OwnedByOne
  <2>1. Owners(c) = {k \in Callers : Holds(k, c)} \cup (IF InTable(c) THEN {"table"} ELSE {})
    BY DEF Owners, Holds, InTable
  <2>2. CASE Free(c)
    BY <2>1, <2>2 DEF OwnInv, Ownership, Free
  <2>3. CASE ~Free(c) /\ InTable(c)
    <3>1. Owners(c) = {"table"}
      BY <2>1, <2>3 DEF OwnInv, Ownership
    <3>. QED
      BY <2>3, <3>1 DEF Free
  <2>4. CASE ~Free(c) /\ ~InTable(c)
    <3>1. PICK k \in Callers : Holds(k, c)
      BY <2>4 DEF OwnInv, Ownership
    <3>2. Owners(c) = {k}
      BY <2>1, <2>4, <3>1 DEF OwnInv, Ownership
    <3>. QED
      BY <2>4, <3>2 DEF Free
  <2>. QED
    BY <2>2, <2>3, <2>4
<1>. QED
  BY <1>1, InitOwns, NextOwns, PTL DEF Spec
=============================================================================
