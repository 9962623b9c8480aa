------------------------- MODULE ReliableConnections -------------------------
(***************************************************************************)
(* The subscriber's side of the reliable path: the connections this node   *)
(* keeps to the publishers it needs.  reconcileReliableConnections and     *)
(* stopReliableSubscriptions (Edriel.cpp) decide which connections there   *)
(* are, and each ReliableSubscriberConnection (EdrielReliableClient.cpp)   *)
(* runs a thread that dials its candidates in order, reads its stream and  *)
(* hands the frames to the callbacks.                                      *)
(*                                                                         *)
(* The connection objects of publisher p are the slots <<p, n>>: one is    *)
(* used when a connection is made and is free again once its thread was    *)
(* joined and the object destroyed.  Whoever calls into the connection     *)
(* manager is a caller: the strand that runs the cleaner, the application, *)
(* or a connection's own thread inside a user callback.                    *)
(***************************************************************************)
EXTENDS Integers, Sequences

CONSTANTS
  Publishers,   \* the publishers of the topics subscribed to with reliable QoS
  Endpoints,    \* "address:port" strings
  EndpointSets, \* the candidate lists a publisher may advertise
  MaxConns,     \* bound: the connection objects of a publisher at one time
  Moves,        \* whether a publisher may change its endpoints without leaving
  Reentrant,    \* whether a callback may call startReliableSubscriptions
  Stops         \* whether the application calls stopAutoDiscovery

ASSUME EndpointsAssumption == EndpointSets \subseteq Seq(Endpoints) \ {<<>>}
ASSUME ConnsAssumption == MaxConns \in Nat
ASSUME SwitchesAssumption == Moves \in BOOLEAN /\ Reentrant \in BOOLEAN /\ Stops \in BOOLEAN

Conns   == Publishers \X (1..MaxConns)
Strand  == <<"strand">>
App     == <<"app">>
Callers == {Strand, App} \cup Conns
Nobody  == <<>>
NoEndpoint == <<>>       \* connected_ is the empty string

VARIABLES
  advertised,  \* each publisher's endpoints in the registry; <<>> if not needed
  reachable,   \* the endpoints whose server accepts a stream
  table,       \* reliableConnections_: the publisher's slot, 0 if it has no entry
  conn,        \* the connection objects
  caller,      \* where each caller is in the connection manager
  timer,       \* whether the cleaner's timer is armed
  stopped      \* whether the application has called stopReliableSubscriptions

vars == <<advertised, reachable, table, conn, caller, timer, stopped>>
managerVars == <<table, caller, timer, stopped>>

ConnPcs   == {"free", "scan", "connect", "open", "write", "loop", "read", "callback",
              "finish", "clear", "backoff", "exited"}
CallerPcs == {"idle", "swap", "next", "cancel", "join"}

Nothing == [p \in Publishers |-> <<>>]

FreeConn == [at |-> "free", candidates |-> <<>>, i |-> 1, connected |-> NoEndpoint,
             ctx |-> "none", stop |-> FALSE]

Resting == [at |-> "idle", needed |-> Nothing, retire |-> {}, stopping |-> Nobody]

Init ==
  /\ advertised = Nothing
  /\ reachable = {}
  /\ table = [p \in Publishers |-> 0]
  /\ conn = [c \in Conns |-> FreeConn]
  /\ caller = [k \in Callers |-> Resting]
  /\ timer = TRUE
  /\ stopped = FALSE

-------------------------------------------------------------------------------
(***************************************************************************)
(* The registry and the network, as the connections find them.             *)
(***************************************************************************)
Advertise(p) ==
  /\ \E eps \in EndpointSets \cup {<<>>} :
       /\ eps # advertised[p]
       /\ Moves \/ eps = <<>> \/ advertised[p] = <<>>
       /\ advertised' = [advertised EXCEPT ![p] = eps]
  /\ UNCHANGED <<reachable, conn, managerVars>>

\* The candidate run_ is at.
Target(c) == conn[c].candidates[conn[c].i]

ServerUp(e) ==
  /\ e \notin reachable
  /\ reachable' = reachable \cup {e}
  /\ UNCHANGED <<advertised, conn, managerVars>>

\* A server that goes takes its streams with it, and a client sees that when
\* it reads next, even if the server is back by then.
ServerDown(e) ==
  /\ e \in reachable
  /\ reachable' = reachable \ {e}
  /\ conn' = [c \in Conns |-> IF conn[c].ctx = "active" /\ Target(c) = e
                              THEN [conn[c] EXCEPT !.ctx = "broken"] ELSE conn[c]]
  /\ UNCHANGED <<advertised, managerVars>>

-------------------------------------------------------------------------------
(***************************************************************************)
(* run_(): the thread of a connection.                                     *)
(***************************************************************************)
\* Read fails: the RPC was cancelled by stop(), or its server is gone.
StreamDead(c) == conn[c].ctx \in {"cancelled", "broken"} \/ Target(c) \notin reachable

RunsTo(c, pc) ==
  /\ conn' = [conn EXCEPT ![c].at = pc]
  /\ UNCHANGED <<advertised, reachable, managerVars>>

\* The head of the loop over the candidates, and the end of a pass.
Scan(c) ==
  /\ conn[c].at = "scan"
  /\ RunsTo(c, IF conn[c].stop THEN "exited"
               ELSE IF conn[c].i > Len(conn[c].candidates) THEN "backoff"
               ELSE "connect")

\* WaitForConnected within kConnectTimeout.
Connect(c) ==
  /\ conn[c].at = "connect"
  /\ conn' = IF Target(c) \in reachable
             THEN [conn EXCEPT ![c].at = "open", ![c].connected = <<Target(c)>>]
             ELSE [conn EXCEPT ![c].at = "scan", ![c].i = @ + 1]
  /\ UNCHANGED <<advertised, reachable, managerVars>>

\* Mutant: stop_ is tested by the loop only, before ctxMutex_ is taken.
OpensUnchecked(c) == TRUE

\* The section under ctxMutex_ sets activeCtx_ only if stop_ is not set yet.
Opens(c) == ~conn[c].stop

Open(c) ==
  /\ conn[c].at = "open"
  /\ conn' = IF Opens(c) THEN [conn EXCEPT ![c].at = "write", ![c].ctx = "active"]
             ELSE [conn EXCEPT ![c].at = "clear"]
  /\ UNCHANGED <<advertised, reachable, managerVars>>

\* StreamParticipants and the first Write; noteReliableStreamEstablished.
Write(c) ==
  /\ conn[c].at = "write"
  /\ conn' = IF StreamDead(c) THEN [conn EXCEPT ![c].at = "clear", ![c].ctx = "none"]
             ELSE [conn EXCEPT ![c].at = "loop"]
  /\ UNCHANGED <<advertised, reachable, managerVars>>

Loop(c) ==
  /\ conn[c].at = "loop"
  /\ RunsTo(c, IF conn[c].stop THEN "finish" ELSE "read")

\* Read returns a frame; handleReliableDataFrame runs the callbacks.
ReadFrame(c) ==
  /\ conn[c].at = "read"
  /\ ~StreamDead(c)
  /\ RunsTo(c, "callback")

ReadBroken(c) ==
  /\ conn[c].at = "read"
  /\ StreamDead(c)
  /\ RunsTo(c, "finish")

CallbackReturns(c) ==
  /\ conn[c].at = "callback"
  /\ caller[c].at = "idle"
  /\ RunsTo(c, "loop")

\* Reading the stream dry and Finish() return once the RPC is over.
Finish(c) ==
  /\ conn[c].at = "finish"
  /\ StreamDead(c)
  /\ conn' = [conn EXCEPT ![c].at = "clear", ![c].ctx = "none"]
  /\ UNCHANGED <<advertised, reachable, managerVars>>

\* The candidate is given up; the next one is tried.
Clear(c) ==
  /\ conn[c].at = "clear"
  /\ conn' = [conn EXCEPT ![c].connected = NoEndpoint,
                          ![c].at = IF conn[c].stop THEN "exited" ELSE "scan",
                          ![c].i = IF conn[c].stop THEN @ ELSE @ + 1]
  /\ UNCHANGED <<advertised, reachable, managerVars>>

\* Mutant: the next pass goes on where the last one ended.
BackoffGoesOn(c) ==
  /\ conn[c].at = "backoff"
  /\ RunsTo(c, IF conn[c].stop THEN "exited" ELSE "scan")

Backoff(c) ==
  /\ conn[c].at = "backoff"
  /\ conn' = [conn EXCEPT ![c].at = IF conn[c].stop THEN "exited" ELSE "scan", ![c].i = 1]
  /\ UNCHANGED <<advertised, reachable, managerVars>>

run_(c) ==
  \/ Scan(c) \/ Connect(c) \/ Open(c) \/ Write(c) \/ Loop(c) \/ ReadBroken(c)
  \/ CallbackReturns(c) \/ Finish(c) \/ Clear(c) \/ Backoff(c)

-------------------------------------------------------------------------------
(***************************************************************************)
(* reconcileReliableConnections, by any caller.  The registry is read      *)
(* first; what was read may be old when reliableConnMutex_ is taken.       *)
(***************************************************************************)
MayReconcile(k) ==
  /\ caller[k].at = "idle"
  /\ \/ k = Strand /\ timer
     \/ k = App /\ ~stopped
     \/ k \in Conns /\ Reentrant /\ conn[k].at = "callback"

Reconcile(k) ==
  /\ MayReconcile(k)
  /\ caller' = [caller EXCEPT ![k].at = "swap", ![k].needed = advertised]
  /\ timer' = (timer /\ k # Strand)
  /\ UNCHANGED <<advertised, reachable, table, conn, stopped>>

Has(p) == table[p] # 0
Entry(p) == <<p, table[p]>>

\* Connected to an endpoint that is no longer advertised.
ConnectedStale(p, eps) ==
  /\ conn[Entry(p)].connected # NoEndpoint
  /\ \A i \in DOMAIN eps : conn[Entry(p)].connected # <<eps[i]>>

Retires(p, eps) == Has(p) /\ (eps = <<>> \/ ConnectedStale(p, eps))
Creates(p, eps) == eps # <<>> /\ (~Has(p) \/ Retires(p, eps))

FreeSlots(p) == {n \in 1..MaxConns : conn[<<p, n>>].at = "free"}
Slot(p) == CHOOSE n \in FreeSlots(p) : \A o \in FreeSlots(p) : n <= o

\* Mutant: the entry is replaced, and what it held is forgotten.
RetiredDroppedOnly(needed) ==
  {Entry(p) : p \in {q \in Publishers : Has(q) /\ needed[q] = <<>>}}

\* Mutant: the connection of a publisher not needed is retired without a look
\* at whether there is one.
RetiredUnfound(needed) == {Entry(p) : p \in {q \in Publishers : needed[q] = <<>>}}

Retired(needed) == {Entry(p) : p \in {q \in Publishers : Retires(q, needed[q])}}

\* The section under reliableConnMutex_: retire, make, start.
Swap(k) ==
  LET needed == caller[k].needed
      created == {p \in Publishers : Creates(p, needed[p])}
  IN  /\ caller[k].at = "swap"
      /\ \A p \in created : FreeSlots(p) # {}
      /\ table' = [p \in Publishers |->
                     IF p \in created THEN Slot(p)
                     ELSE IF Retires(p, needed[p]) THEN 0 ELSE table[p]]
      /\ conn' = [c \in Conns |->
                    IF c[1] \in created /\ c[2] = Slot(c[1])
                    THEN [FreeConn EXCEPT !.at = "scan", !.candidates = needed[c[1]]]
                    ELSE conn[c]]
      /\ caller' = [caller EXCEPT ![k].at = "next", ![k].needed = Nothing,
                                  ![k].retire = Retired(needed)]
      /\ UNCHANGED <<advertised, reachable, timer, stopped>>

(***************************************************************************)
(* stopReliableSubscriptions, by stopAutoDiscovery, which has cancelled    *)
(* the cleaner's timer: every entry is taken out under the lock.           *)
(***************************************************************************)
stopReliableSubscriptions ==
  /\ Stops
  /\ ~stopped
  /\ caller[App].at = "idle"
  /\ timer' = FALSE
  /\ caller' = [caller EXCEPT ![App].at = "next",
                              ![App].retire = {Entry(p) : p \in {q \in Publishers : Has(q)}}]
  /\ table' = [p \in Publishers |-> 0]
  /\ stopped' = TRUE
  /\ UNCHANGED <<advertised, reachable, conn>>

(***************************************************************************)
(* The connections taken out are stopped one by one, outside the lock.     *)
(* stop(): set stop_, cancel the context in use, join the thread.          *)
(***************************************************************************)
StopNext(k) ==
  /\ caller[k].at = "next"
  /\ \E c \in caller[k].retire :
       /\ conn' = [conn EXCEPT ![c].stop = TRUE]
       /\ caller' = [caller EXCEPT ![k].at = "cancel", ![k].retire = @ \ {c},
                                   ![k].stopping = c]
  /\ UNCHANGED <<advertised, reachable, table, timer, stopped>>

StopCancel(k) ==
  /\ caller[k].at = "cancel"
  /\ LET c == caller[k].stopping
     IN  conn' = [conn EXCEPT ![c].ctx = IF @ = "active" THEN "cancelled" ELSE @]
  /\ caller' = [caller EXCEPT ![k].at = "join"]
  /\ UNCHANGED <<advertised, reachable, table, timer, stopped>>

StopJoin(k) ==
  /\ caller[k].at = "join"
  /\ conn[caller[k].stopping].at = "exited"
  /\ conn' = [conn EXCEPT ![caller[k].stopping] = FreeConn]
  /\ caller' = [caller EXCEPT ![k].at = "next", ![k].stopping = Nobody]
  /\ UNCHANGED <<advertised, reachable, table, timer, stopped>>

\* The cleaner arms its timer again, whether or not it was cancelled meanwhile.
Return(k) ==
  /\ caller[k].at = "next"
  /\ caller[k].retire = {}
  /\ caller' = [caller EXCEPT ![k] = Resting]
  /\ timer' = (timer \/ k = Strand)
  /\ UNCHANGED <<advertised, reachable, table, conn, stopped>>

GoesOn(k) == Swap(k) \/ StopNext(k) \/ StopCancel(k) \/ StopJoin(k) \/ Return(k)

Next ==
  \/ \E p \in Publishers : Advertise(p)
  \/ \E e \in Endpoints : ServerUp(e) \/ ServerDown(e)
  \/ \E c \in Conns : run_(c) \/ ReadFrame(c)
  \/ \E k \in Callers : Reconcile(k) \/ GoesOn(k)
  \/ stopReliableSubscriptions

Spec == Init /\ [][Next]_vars

(***************************************************************************)
(* The threads are scheduled, callbacks return, and the cleaner's timer    *)
(* fires.  Nothing is assumed of the network, of the publishers or of the  *)
(* application.                                                            *)
(***************************************************************************)
FairSpec ==
  /\ Spec
  /\ \A c \in Conns : WF_vars(run_(c))
  /\ \A k \in Callers : WF_vars(GoesOn(k))
  /\ WF_vars(Reconcile(Strand))

-------------------------------------------------------------------------------
(***************************************************************************)
(* Properties.                                                             *)
(***************************************************************************)

\* Type invariant of the connections (EdrielReliableClient.hpp) and the table.
TypeOK ==
  /\ advertised \in [Publishers -> EndpointSets \cup {<<>>}]
  /\ reachable \subseteq Endpoints
  /\ table \in [Publishers -> 0..MaxConns]
  /\ \A c \in Conns :
       /\ conn[c].at \in ConnPcs
       /\ conn[c].candidates \in EndpointSets \cup {<<>>}
       /\ conn[c].i \in 1..(Len(conn[c].candidates) + 1)
       /\ conn[c].ctx \in {"none", "active", "cancelled", "broken"}
  /\ \A k \in Callers :
       /\ caller[k].at \in CallerPcs
       /\ caller[k].retire \subseteq Conns
       /\ caller[k].stopping \in Conns \cup {Nobody}

Owners(c) ==
  {k \in Callers : c \in caller[k].retire \/ caller[k].stopping = c}
    \cup (IF table[c[1]] = c[2] THEN {"table"} ELSE {})

(***************************************************************************)
(* No thread is orphaned and none is joined twice: a connection that was   *)
(* made has exactly one owner, the table or one caller that is stopping    *)
(* it, however many reconcile at once and with whatever old snapshots.     *)
(***************************************************************************)
OwnedByOne ==
  \A c \in Conns : conn[c].at # "free" <=> \E o \in Owners(c) : Owners(c) = {o}

(***************************************************************************)
(* "Deadlock-free by construction: no stop()/join() runs under             *)
(* reliableConnMutex_": whoever stops a connection gets it joined, at      *)
(* whatever point of run_ the stop and the cancel meet its thread.         *)
(***************************************************************************)
StopReturns == \A k \in Callers : caller[k].at = "cancel" ~> caller[k].at = "idle"

Joins(c, d) == caller[c].at = "join" /\ caller[c].stopping = d

(***************************************************************************)
(* "a user frame callback dispatched on a reader thread may re-enter       *)
(* startReliableSubscriptions()" and the stop is "Deadlock-free by         *)
(* construction": no thread that is in a callback joins itself, and no two *)
(* join each other.                                                        *)
(***************************************************************************)
NoJoinCycle == \A c, d \in Conns : ~(Joins(c, d) /\ (c = d \/ Joins(d, c)))

Serves(p, eps) ==
  /\ Has(p)
  /\ conn[Entry(p)].at \in {"loop", "read", "callback"}
  /\ \E i \in DOMAIN eps : conn[Entry(p)].connected = <<eps[i]>>

(***************************************************************************)
(* A publisher that goes on advertising the same endpoints, one of which   *)
(* goes on being reachable, is reached and stays connected: whichever      *)
(* streams broke before, wherever in its candidates the connection is, and *)
(* "reconciliation separately wakes us up on endpoint changes".            *)
(***************************************************************************)
ReachableIsConnected ==
  \A p \in Publishers, eps \in EndpointSets : \A i \in DOMAIN eps :
    <>[](~stopped /\ advertised[p] = eps /\ eps[i] \in reachable) => <>[]Serves(p, eps)

(***************************************************************************)
(* stopAutoDiscovery: "Tear down subscriber-client connections to          *)
(* publishers".  Once it has, there are none.                              *)
(***************************************************************************)
StoppedStaysStopped ==
  stopped /\ caller[App].at = "idle" => \A c \in Conns : conn[c].at = "free"
===============================================================================
