----------------------- MODULE ReceivePipeline_proofs -----------------------
(***************************************************************************)
(* Proofs about ReceivePipeline, for every number of shards, sizes of      *)
(* socket buffer and rings, arrivals and starts, and every set of          *)
(* datagrams.                                                              *)
(***************************************************************************)
EXTENDS ReceivePipeline, WellFoundedInduction, TLAPS

-------------------------------------------------------------------------------
(***************************************************************************)
(* Types.                                                                  *)
(***************************************************************************)

\* A datagram is sent to a shard or dropped.
LEMMA TargetsType == Targets \in [Datagrams -> SUBSET (0..N)]
<1>1. \A d \in Datagrams : Target[d] \in 0..N
  BY SizesAssumption, WireAssumption DEF Target, Dropped
<1>. QED
  BY <1>1 DEF Targets

\* What publish leaves in a ring: its frames and the new one, never more than
\* it has slots for.
LEMMA PublishedType ==
  ASSUME ring \in [Shards -> Seq(Datagram)], \A r \in Shards : Len(ring[r]) <= RingSlots,
         NEW s \in Shards, NEW g \in Datagram
  PROVE  /\ Published(s, g) \in [Shards -> Seq(Datagram)]
         /\ \A r \in Shards : Len(Published(s, g)[r]) <= RingSlots
<1>1. CASE closed[s]
  <2>1. Published(s, g) = ring
    BY <1>1 DEF Published
  <2>. QED
    BY <2>1
<1>2. CASE ~closed[s] /\ Len(ring[s]) < RingSlots
  <2>1. /\ Append(ring[s], g) \in Seq(Datagram)
        /\ Len(Append(ring[s], g)) <= RingSlots
    BY <1>2, SizesAssumption
  <2>2. Published(s, g) = [ring EXCEPT ![s] = Append(@, g)]
    BY <1>2 DEF Published
  <2>. QED
    BY <2>1, <2>2
<1>3. CASE ~closed[s] /\ ~(Len(ring[s]) < RingSlots)
  <2>1. ring[s] \in Seq(Datagram) /\ Len(ring[s]) \in Nat /\ 1 \in 1..Len(ring[s])
    BY <1>3, SizesAssumption
  <2>2. [ring[s] EXCEPT ![1] = g] \in Seq(Datagram)
        /\ Len([ring[s] EXCEPT ![1] = g]) = Len(ring[s])
    BY <2>1
  <2>. QED
    BY <1>3, <2>2 DEF Published
<1>. QED
  BY <1>1, <1>2, <1>3

\* The socket buffer is left as it is, or loses its head.
LEMMA HeadAndTail ==
  ASSUME NEW S, NEW q \in Seq(S), q # <<>>
  PROVE  Head(q) \in S /\ Tail(q) \in Seq(S) /\ Len(Tail(q)) <= Len(q)
OBVIOUS

LEMMA KernelType ==
  ASSUME TypeOK, kernel # <<>>
  PROVE  /\ Head(kernel).datagram \in Datagram
         /\ Head(kernel).drops \in 0..overruns
         /\ Tail(kernel) \in Seq([datagram : Datagram, drops : 0..overruns])
         /\ Len(Tail(kernel)) <= KernelSlots
<1>. DEFINE Packets == [datagram : Datagram, drops : 0..overruns]
<1>1. kernel \in Seq(Packets) /\ Len(kernel) <= KernelSlots /\ Len(kernel) \in Nat
  BY DEF TypeOK
<1>. HIDE DEF Packets
<1>2. Head(kernel) \in Packets /\ Tail(kernel) \in Seq(Packets) /\ Len(Tail(kernel)) <= Len(kernel)
  BY <1>1, HeadAndTail
<1>3. Len(Tail(kernel)) <= KernelSlots
  BY <1>1, <1>2, SizesAssumption
<1>. QED
  BY <1>2, <1>3 DEF Packets

LEMMA InitTypes == Init => TypeOK
<1> SUFFICES ASSUME Init PROVE TypeOK
  OBVIOUS
<1>1. call \in [at : Phases, by : Shards \cup {App}, shard : 0..N]
  BY SizesAssumption DEF Init, Idle, Phases
<1>2. /\ kernel \in Seq([datagram : Datagram, drops : 0..overruns])
      /\ Len(kernel) <= KernelSlots
  BY SizesAssumption DEF Init
<1>3. ring \in [Shards -> Seq(Datagram)] /\ \A s \in Shards : Len(ring[s]) <= RingSlots
  BY SizesAssumption DEF Init
<1>4. loops \in [Stages -> Nat]
  BY DEF Init, Stages
<1>. QED
  <2>. USE SizesAssumption DEF Init
  <2>1. starts \in 0..MaxStarts /\ arrived \in 0..MaxArrivals /\ overruns \in Nat /\ armed \in Nat
    OBVIOUS
  <2>2. /\ closed \in [Shards -> BOOLEAN]
        /\ worker \in [Shards -> {"none", "pop", "handle", "exited"}]
        /\ frame \in [Shards -> Datagram \cup {Nothing}]
        /\ displacers \subseteq Datagram
    OBVIOUS
  <2>. QED
    BY <1>1, <1>2, <1>3, <1>4, <2>1, <2>2 DEF TypeOK

LEMMA ArriveTypes == TypeOK /\ (\E d \in Datagrams : Arrive(d)) => TypeOK'
<1> SUFFICES ASSUME TypeOK, NEW d \in Datagrams, Arrive(d) PROVE TypeOK'
  OBVIOUS
<1>. DEFINE g == [n |-> arrived + 1, what |-> d]
<1>1. g \in Datagram /\ arrived' \in 0..MaxArrivals
  BY SizesAssumption DEF TypeOK, Arrive, Datagram
<1>. DEFINE Packets(k) == [datagram : Datagram, drops : 0..k]
<1>2. kernel \in Seq(Packets(overruns)) /\ Len(kernel) <= KernelSlots /\ overruns \in Nat
  BY DEF TypeOK
<1>3. CASE Len(kernel) < KernelSlots
  <2>. DEFINE new == [datagram |-> g, drops |-> overruns]
  <2>1. new \in Packets(overruns)
    BY <1>1, <1>2
  <2>2. kernel' = Append(kernel, new) /\ overruns' = overruns
    BY <1>3 DEF Arrive
  <2>3. kernel' \in Seq(Packets(overruns)) /\ Len(kernel') <= KernelSlots
    <3>. HIDE DEF Packets, new
    <3>. QED
      BY <1>2, <1>3, <2>1, <2>2, SizesAssumption
  <2>. QED
    BY <1>1, <2>2, <2>3 DEF TypeOK, Arrive, callVars, receiverVars, ringVars, workerVars
<1>4. CASE ~(Len(kernel) < KernelSlots)
  <2>1. overruns' = overruns + 1 /\ kernel' = kernel
    BY <1>4 DEF Arrive
  <2>2. Packets(overruns) \subseteq Packets(overruns + 1)
    BY <1>2
  <2>3. kernel \in Seq(Packets(overruns + 1))
    <3>. HIDE DEF Packets
    <3>. QED
      BY <1>2, <2>2
  <2>. QED
    BY <1>1, <1>2, <2>1, <2>3 DEF TypeOK, Arrive, callVars, receiverVars, ringVars, workerVars
<1>. QED
  BY <1>3, <1>4

LEMMA ReceiverTypes == TypeOK /\ receiver => TypeOK'
<1> SUFFICES ASSUME TypeOK, receiver PROVE TypeOK'
  OBVIOUS
<1>1. CASE ReceiveCompletes
  <2>1. armed' \in Nat
    BY <1>1 DEF TypeOK, ReceiveCompletes, Consumed
  <2>2. /\ kernel' \in Seq([datagram : Datagram, drops : 0..overruns])
        /\ Len(kernel') <= KernelSlots
        /\ receiverBuffer' \in Datagram
    BY <1>1, KernelType DEF ReceiveCompletes
  <2>. QED
    BY <1>1, <2>1, <2>2 DEF TypeOK, ReceiveCompletes, callVars, ringVars, workerVars
<1>2. CASE ReceiveAborts
  BY <1>2 DEF TypeOK, ReceiveAborts, callVars, ringVars, workerVars, socketVars
<1>3. CASE handleReceivedDatagram
  <2>1. ring' \in [Shards -> Seq(Datagram)] /\ (\A r \in Shards : Len(ring'[r]) <= RingSlots)
        /\ displacers' \subseteq Datagram
    <3>. DEFINE g == receiverBuffer
    <3>1. CASE UNCHANGED <<ring, displacers>>
      BY <3>1 DEF TypeOK
    <3>2. ASSUME NEW s \in Targets[g.what], Enqueue(g, s), s # Dropped
          PROVE  ring' \in [Shards -> Seq(Datagram)] /\ (\A r \in Shards : Len(ring'[r]) <= RingSlots)
                 /\ displacers' \subseteq Datagram
      <4>1. g \in Datagram /\ s \in Shards
        BY <1>3, <3>2, TargetsType, SizesAssumption DEF TypeOK, handleReceivedDatagram, Datagram, Shards, Dropped
      <4>2. /\ ring' = Published(s, g)
            /\ displacers' = IF ~closed[s] /\ Len(ring[s]) = RingSlots
                             THEN (displacers \ {ring[s][1]}) \cup {g} ELSE displacers
        BY <3>2 DEF Enqueue
      <4>. QED
        BY <4>1, <4>2, PublishedType DEF TypeOK
    <3>. QED
      BY <1>3, <3>1, <3>2 DEF handleReceivedDatagram, Enqueue
  <2>. QED
    BY <1>3, <2>1 DEF TypeOK, handleReceivedDatagram, callVars, workerVars, socketVars
<1>4. CASE DrainReads
  <2>1. /\ kernel' \in Seq([datagram : Datagram, drops : 0..overruns])
        /\ Len(kernel') <= KernelSlots
        /\ receiverBuffer' \in Datagram
    BY <1>4, KernelType DEF DrainReads
  <2>2. kernelOverrunDropped' \in Nat
    <3>1. Head(kernel).drops \in Nat
      BY <1>4, KernelType DEF DrainReads, TypeOK
    <3>. QED
      BY <1>4, <3>1 DEF TypeOK, DrainReads, OverrunCount
  <2>. QED
    BY <1>4, <2>1, <2>2 DEF TypeOK, DrainReads, callVars, ringVars, workerVars
<1>5. CASE DrainEnds
  <2>1. /\ kernel' \in Seq([datagram : Datagram, drops : 0..overruns])
        /\ Len(kernel') <= KernelSlots
    BY <1>5, KernelType DEF DrainEnds, EmptyAtHead, TypeOK
  <2>. QED
    BY <1>5, <2>1 DEF TypeOK, DrainEnds, Rearmed, callVars, ringVars, workerVars
<1>. QED
  BY <1>1, <1>2, <1>3, <1>4, <1>5 DEF receiver

LEMMA FailTypes == TypeOK /\ ReceiveFails => TypeOK'
BY DEF TypeOK, ReceiveFails, callVars, ringVars, workerVars, socketVars

LEMMA WorkerTypes == TypeOK /\ (\E s \in Shards : autoDiscoveryWorkerLoop(s)) => TypeOK'
<1> SUFFICES ASSUME TypeOK, NEW s \in Shards, autoDiscoveryWorkerLoop(s) PROVE TypeOK'
  OBVIOUS
<1>1. CASE WorkerPops(s)
  <2>1. Head(ring[s]) \in Datagram /\ Tail(ring[s]) \in Seq(Datagram)
        /\ Len(Tail(ring[s])) <= RingSlots
    BY <1>1, SizesAssumption DEF TypeOK, WorkerPops
  <2>2. /\ ring' \in [Shards -> Seq(Datagram)]
        /\ \A r \in Shards : Len(ring'[r]) <= RingSlots
        /\ frame' \in [Shards -> Datagram \cup {Nothing}]
    BY <1>1, <2>1 DEF TypeOK, WorkerPops
  <2>. QED
    BY <1>1, <2>2 DEF TypeOK, WorkerPops, callVars, receiverVars, socketVars
<1>2. CASE WorkerExits(s)
  BY <1>2 DEF TypeOK, WorkerExits, callVars, receiverVars, socketVars, ringVars
<1>3. CASE HandlerReturns(s)
  BY <1>3 DEF TypeOK, HandlerReturns, callVars, receiverVars, socketVars
<1>. QED
  BY <1>1, <1>2, <1>3 DEF autoDiscoveryWorkerLoop

LEMMA SenderTypes == TypeOK /\ sender => TypeOK'
<1> SUFFICES ASSUME TypeOK, sender PROVE TypeOK'
  OBVIOUS
<1>1. "sending" \in Stages /\ "waiting" \in Stages
  BY DEF Stages
<1>2. ASSUME NEW ok \in BOOLEAN, SendCompletes(ok) PROVE TypeOK'
  <2>1. loops["sending"] - 1 \in Nat /\ loops \in [Stages -> Nat]
    BY <1>1, <1>2 DEF TypeOK, SendCompletes
  <2>2. loops' = [loops EXCEPT !["sending"] = loops["sending"] - 1, !["waiting"] = 1]
    BY <1>2 DEF SendCompletes, TimerSet
  <2>3. loops' \in [Stages -> Nat]
    BY <2>1, <2>2
  <2>. QED
    BY <1>2, <2>3 DEF TypeOK, SendCompletes, callVars, receiverVars, socketVars, ringVars, workerVars
<1>3. CASE TimerFires
  <2>1. /\ loops["waiting"] - 1 \in Nat /\ loops["sending"] + 1 \in Nat
        /\ loops \in [Stages -> Nat]
    BY <1>1, <1>3 DEF TypeOK, TimerFires
  <2>2. loops' = [loops EXCEPT !["waiting"] = loops["waiting"] - 1, !["sending"] = loops["sending"] + 1]
    BY <1>3 DEF TimerFires
  <2>3. loops' \in [Stages -> Nat]
    BY <2>1, <2>2
  <2>. QED
    BY <1>3, <2>3 DEF TypeOK, TimerFires, callVars, receiverVars, socketVars, ringVars, workerVars
<1>. QED
  BY <1>2, <1>3 DEF sender

\* A call goes on to another phase.
LEMMA StepType ==
  ASSUME TypeOK, NEW from \in Phases, NEW to \in Phases, Step(from, to)
  PROVE  call' \in [at : Phases, by : Shards \cup {App}, shard : 0..N]
BY DEF TypeOK, Step

LEMMA StartTypes == TypeOK /\ startAutoDiscovery => TypeOK'
<1> SUFFICES ASSUME TypeOK, startAutoDiscovery PROVE TypeOK'
  OBVIOUS
<1> USE SizesAssumption
<1>1. CASE StartBegins
  <2>1. call' \in [at : Phases, by : Shards \cup {App}, shard : 0..N]
    BY <1>1, StepType DEF StartBegins, Phases
  <2>2. starts' \in 0..MaxStarts
    BY <1>1 DEF TypeOK, StartBegins
  <2>. QED
    BY <1>1, <2>1, <2>2 DEF TypeOK, StartBegins, receiverVars, socketVars, ringVars, workerVars
<1>2. CASE StartWorkers
  <2>1. call' \in [at : Phases, by : Shards \cup {App}, shard : 0..N]
    BY <1>2, StepType DEF StartWorkers, Phases
  <2>. QED
    BY <1>2, <2>1 DEF TypeOK, StartWorkers, receiverVars, socketVars, ringVars
<1>3. CASE StartReceive
  <2>1. call' \in [at : Phases, by : Shards \cup {App}, shard : 0..N]
    BY <1>3, StepType DEF StartReceive, Phases
  <2>. QED
    BY <1>3, <2>1 DEF TypeOK, StartReceive, socketVars, ringVars, workerVars
<1>4. CASE StartTimers
  <2>1. loops' \in [Stages -> Nat]
    <3>1. "sending" \in Stages
      BY DEF Stages
    <3>. QED
      BY <1>4, <3>1 DEF TypeOK, StartTimers
  <2>2. call' \in [at : Phases, by : Shards \cup {App}, shard : 0..N]
    BY <1>4, StepType DEF StartTimers, Phases
  <2>. QED
    BY <1>4, <2>1, <2>2 DEF TypeOK, StartTimers, receiverVars, socketVars, ringVars, workerVars
<1>5. ASSUME NEW ok \in BOOLEAN, StartServer(ok) PROVE TypeOK'
  <2>1. call' \in [at : Phases, by : Shards \cup {App}, shard : 0..N]
    BY <1>5 DEF StartServer, Idle, Phases
  <2>2. serving' \in BOOLEAN
    BY <1>5 DEF TypeOK, StartServer
  <2>. QED
    BY <1>5, <2>1, <2>2 DEF TypeOK, StartServer, receiverVars, socketVars, ringVars, workerVars
<1>. QED
  BY <1>1, <1>2, <1>3, <1>4, <1>5 DEF startAutoDiscovery

LEMMA OnwardType ==
  ASSUME TypeOK, NEW next \in Phases
  PROVE  Onward(next) \in [at : Phases, by : Shards \cup {App}, shard : 0..N]
<1>. DEFINE Calls == [at : Phases, by : Shards \cup {App}, shard : 0..N]
<1>1. call \in Calls /\ call.shard \in 0..N
  BY DEF TypeOK
<1>2. CASE call.shard < N
  <2>1. call.shard + 1 \in 0..N
    BY <1>1, <1>2, SizesAssumption
  <2>2. Onward(next) = [call EXCEPT !.shard = call.shard + 1]
    BY <1>2 DEF Onward
  <2>. QED
    BY <1>1, <2>1, <2>2
<1>3. CASE ~(call.shard < N)
  <2>1. 1 \in 0..N
    BY SizesAssumption
  <2>2. Onward(next) = [call EXCEPT !.at = next, !.shard = 1]
    BY <1>3 DEF Onward
  <2>. QED
    BY <1>1, <2>1, <2>2
<1>. QED
  BY <1>2, <1>3

LEMMA StopTypes == TypeOK /\ (stopAutoDiscovery \/ \E by \in Shards \cup {App} : StopBegins(by)) => TypeOK'
<1> SUFFICES ASSUME TypeOK, stopAutoDiscovery \/ \E by \in Shards \cup {App} : StopBegins(by)
             PROVE  TypeOK'
  OBVIOUS
<1>1. ASSUME NEW by \in Shards \cup {App}, StopBegins(by) PROVE TypeOK'
  <2>1. call' \in [at : Phases, by : Shards \cup {App}, shard : 0..N]
    BY <1>1, SizesAssumption DEF StopBegins, Phases
  <2>2. loops' \in [Stages -> Nat]
    BY <1>1 DEF TypeOK, StopBegins
  <2>. QED
    BY <1>1, <2>1, <2>2 DEF TypeOK, StopBegins, receiverVars, socketVars, ringVars, workerVars
<1>2. CASE StopClosesSocket
  <2>1. call' \in [at : Phases, by : Shards \cup {App}, shard : 0..N]
    <3>1. 1 \in 0..N /\ {"rings", "server"} \subseteq Phases
      BY SizesAssumption DEF Phases
    <3>2. PICK to \in {"rings", "server"} : call' = [call EXCEPT !.at = to, !.shard = 1]
      BY <1>2 DEF StopClosesSocket, AfterSocket
    <3>. QED
      BY <3>1, <3>2 DEF TypeOK
  <2>2. kernel' \in Seq([datagram : Datagram, drops : 0..overruns]) /\ Len(kernel') <= KernelSlots
    BY <1>2, SizesAssumption DEF StopClosesSocket
  <2>. QED
    BY <1>2, <2>1, <2>2 DEF TypeOK, StopClosesSocket, receiverVars, ringVars, workerVars
<1>3. CASE StopClosesRing
  BY <1>3, OnwardType DEF TypeOK, StopClosesRing, Phases, receiverVars, socketVars, workerVars
<1>4. CASE StopJoins
  BY <1>4, OnwardType DEF TypeOK, StopJoins, Phases, receiverVars, socketVars, ringVars
<1>5. CASE StopServer
  <2>1. call' \in [at : Phases, by : Shards \cup {App}, shard : 0..N]
    BY <1>5, SizesAssumption DEF StopServer, Idle, Phases
  <2>. QED
    BY <1>5, <2>1 DEF TypeOK, StopServer, receiverVars, socketVars, ringVars, workerVars
<1>. QED
  BY <1>1, <1>2, <1>3, <1>4, <1>5 DEF stopAutoDiscovery

LEMMA NextTypes == TypeOK /\ [Next]_vars => TypeOK'
<1> SUFFICES ASSUME TypeOK, [Next]_vars PROVE TypeOK'
  OBVIOUS
<1>1. CASE UNCHANGED vars
  BY <1>1 DEF TypeOK, vars, callVars, receiverVars, socketVars, ringVars, workerVars
<1>. QED
  BY <1>1, ArriveTypes, ReceiverTypes, FailTypes, WorkerTypes, SenderTypes, StartTypes, StopTypes
     DEF Next

(***************************************************************************)
(* The members of the pipeline have their types, whatever the sizes.       *)
(***************************************************************************)
THEOREM PipelineTypes == Spec => []TypeOK
BY InitTypes, NextTypes, PTL DEF Spec

-------------------------------------------------------------------------------
(***************************************************************************)
(* The life cycle.  The socket is open only up to the first stop, and      *)
(* nothing is armed or handled before a start has come to it               *)
(* (BeforeReceive); each start brings one receive (ReceivesInv).  A ring   *)
(* whose worker is not there is either closed or not yet published into    *)
(* (FramesInv).                                                            *)
(***************************************************************************)
NotRunning == call.at = "idle" /\ ~isRunning
BeforeReceive == NotRunning \/ call.at \in {"spawn", "arm"}

ReceiveInv ==
  open => /\ call.at \in {"idle", "spawn", "arm", "timers", "serve", "close"}
          /\ BeforeReceive => armed = 0 /\ handler = "idle"

\* The receives there are, and the one that the start under way will arm.
Receives == armed + (IF Busy THEN 1 ELSE 0) + (IF call.at \in {"spawn", "arm"} THEN 1 ELSE 0)
ReceivesInv == Receives <= starts

WorkersInv ==
  /\ call.at \in {"spawn", "arm", "timers", "serve"} => isRunning
  /\ call.at \in {"close", "rings", "join", "server"} => ~isRunning
  /\ NotRunning \/ call.at \in {"spawn", "server"} => \A s \in Shards : worker[s] = "none"
  /\ call.at \in {"arm", "timers", "serve"} \/ (call.at = "idle" /\ isRunning)
       => \A s \in Shards : worker[s] # "none"
  /\ call.at \in {"rings", "join"} => call.shard \in Shards
  /\ call.at = "rings" => \A s \in Shards : worker[s] # "none" /\ (s < call.shard => closed[s])
  /\ call.at = "join" => \A s \in Shards : closed[s] /\ (s < call.shard => worker[s] = "none")
  /\ call.at = "close" => \/ \A s \in Shards : worker[s] = "none"
                          \/ \A s \in Shards : worker[s] # "none"

FramesInv ==
  \A s \in Shards :
    /\ worker[s] # "handle" => frame[s] = Nothing
    /\ worker[s] \in {"none", "exited"} => ring[s] = <<>>
    /\ worker[s] = "none" /\ ~closed[s] => armed = 0 /\ handler = "idle"
    /\ worker[s] = "exited" => closed[s]

LifeInv == TypeOK /\ ReceiveInv /\ WorkersInv /\ FramesInv

LEMMA InitLife == Init => LifeInv /\ ReceivesInv
BY InitTypes DEF Init, LifeInv, ReceiveInv, WorkersInv, FramesInv, NotRunning, BeforeReceive, Idle,
   ReceivesInv, Receives, Busy

\* publish changes a ring only while it is open.
LEMMA PublishedElsewhere ==
  ASSUME ring \in [Shards -> Seq(Datagram)], NEW s \in Shards, NEW g, NEW r \in Shards,
         r # s \/ closed[s]
  PROVE  Published(s, g)[r] = ring[r]
<1>1. CASE closed[s]
  BY <1>1 DEF Published
<1>2. CASE ~closed[s]
  BY <1>2 DEF Published
<1>. QED
  BY <1>1, <1>2

LEMMA ArriveLife == LifeInv /\ (\E d \in Datagrams : Arrive(d)) => LifeInv'
BY ArriveTypes DEF LifeInv, ReceiveInv, WorkersInv, FramesInv, NotRunning, BeforeReceive, Arrive,
   callVars, receiverVars, ringVars, workerVars

LEMMA ReceiverLife == LifeInv /\ receiver => LifeInv'
<1> SUFFICES ASSUME LifeInv, receiver PROVE LifeInv'
  OBVIOUS
<1>. USE DEF LifeInv, ReceiveInv, WorkersInv, FramesInv, NotRunning, BeforeReceive,
             callVars, socketVars, ringVars, workerVars
<1>1. TypeOK'
  BY ReceiverTypes
<1>2. CASE ReceiveCompletes
  <2>1. armed \in Nat /\ armed' = armed - 1
    BY <1>2 DEF ReceiveCompletes, Consumed, TypeOK
  <2>. QED
    BY <1>1, <1>2, <2>1 DEF ReceiveCompletes
<1>3. CASE ReceiveAborts
  <2>1. armed \in Nat
    BY DEF TypeOK
  <2>. QED
    BY <1>1, <1>3, <2>1 DEF ReceiveAborts
<1>4. CASE handleReceivedDatagram
  <2>1. FramesInv'
    <3> SUFFICES ASSUME NEW r \in Shards
                 PROVE  /\ worker[r] # "handle" => frame[r] = Nothing
                        /\ worker[r] \in {"none", "exited"} => ring'[r] = <<>>
                        /\ worker[r] = "none" => closed[r]
                        /\ worker[r] = "exited" => closed[r]
      BY <1>4 DEF handleReceivedDatagram
    <3>1. worker[r] \in {"none", "exited"} => closed[r]
      BY <1>4 DEF handleReceivedDatagram
    <3>2. closed[r] => ring'[r] = ring[r]
      <4>1. ASSUME NEW s \in Targets[receiverBuffer.what], Enqueue(receiverBuffer, s), s # Dropped
            PROVE  closed[r] => ring'[r] = ring[r]
        <5>1. s \in Shards
          BY <1>4, <4>1, TargetsType, SizesAssumption
          DEF TypeOK, handleReceivedDatagram, Datagram, Shards, Dropped
        <5>2. ring' = Published(s, receiverBuffer)
          BY <4>1 DEF Enqueue
        <5>. QED
          BY <5>1, <5>2, PublishedElsewhere DEF TypeOK
      <4>. QED
        BY <1>4, <4>1 DEF handleReceivedDatagram, Enqueue
    <3>. QED
      BY <3>1, <3>2
  <2>2. ReceiveInv' /\ WorkersInv'
    BY <1>4 DEF handleReceivedDatagram
  <2>. QED
    BY <1>1, <2>1, <2>2
<1>5. CASE DrainReads
  BY <1>1, <1>5 DEF DrainReads
<1>6. CASE DrainEnds
  <2>1. armed \in Nat /\ armed' \in {armed, armed + 1}
    BY <1>6 DEF DrainEnds, Rearmed, TypeOK
  <2>. QED
    BY <1>1, <1>6, <2>1 DEF DrainEnds
<1>. QED
  BY <1>2, <1>3, <1>4, <1>5, <1>6 DEF receiver

LEMMA FailLife == LifeInv /\ ReceiveFails => LifeInv'
BY FailTypes DEF LifeInv, ReceiveInv, WorkersInv, FramesInv, NotRunning, BeforeReceive, ReceiveFails,
   TypeOK, callVars, socketVars, ringVars, workerVars

LEMMA WorkerLife == LifeInv /\ (\E s \in Shards : autoDiscoveryWorkerLoop(s)) => LifeInv'
<1> SUFFICES ASSUME LifeInv, NEW s \in Shards, autoDiscoveryWorkerLoop(s) PROVE LifeInv'
  OBVIOUS
<1>. USE DEF LifeInv, ReceiveInv, WorkersInv, FramesInv, NotRunning, BeforeReceive,
             callVars, socketVars, ringVars, receiverVars
<1>1. TypeOK'
  BY WorkerTypes
<1>2. /\ worker \in [Shards -> {"none", "pop", "handle", "exited"}]
      /\ ring \in [Shards -> Seq(Datagram)]
      /\ frame \in [Shards -> Datagram \cup {Nothing}]
  BY DEF TypeOK
<1>3. CASE WorkerPops(s)
  BY <1>1, <1>2, <1>3 DEF WorkerPops
<1>4. CASE WorkerExits(s)
  BY <1>1, <1>2, <1>4 DEF WorkerExits, PopEnds
<1>5. CASE HandlerReturns(s)
  BY <1>1, <1>2, <1>5 DEF HandlerReturns
<1>. QED
  BY <1>3, <1>4, <1>5 DEF autoDiscoveryWorkerLoop

LEMMA SenderLife == LifeInv /\ sender => LifeInv'
BY SenderTypes DEF LifeInv, ReceiveInv, WorkersInv, FramesInv, NotRunning, BeforeReceive, sender,
   SendCompletes, TimerFires, callVars, receiverVars, ringVars, workerVars, socketVars

LEMMA StartLife == LifeInv /\ startAutoDiscovery => LifeInv'
<1> SUFFICES ASSUME LifeInv, startAutoDiscovery PROVE LifeInv'
  OBVIOUS
<1>. USE DEF LifeInv, ReceiveInv, WorkersInv, FramesInv, NotRunning, BeforeReceive, Step,
             socketVars, ringVars, receiverVars, workerVars
<1>1. TypeOK'
  BY StartTypes
<1>2. call \in [at : Phases, by : Shards \cup {App}, shard : 0..N] /\ isRunning \in BOOLEAN
  BY DEF TypeOK
<1>3. CASE StartBegins
  BY <1>1, <1>2, <1>3 DEF StartBegins
<1>4. CASE StartWorkers
  BY <1>1, <1>2, <1>4 DEF StartWorkers
<1>5. CASE StartReceive
  BY <1>1, <1>2, <1>5 DEF StartReceive
<1>6. CASE StartTimers
  BY <1>1, <1>2, <1>6 DEF StartTimers
<1>7. ASSUME NEW ok \in BOOLEAN, StartServer(ok) PROVE LifeInv'
  BY <1>1, <1>2, <1>7 DEF StartServer, Idle
<1>. QED
  BY <1>3, <1>4, <1>5, <1>6, <1>7 DEF startAutoDiscovery

LEMMA StopLife == LifeInv /\ (stopAutoDiscovery \/ \E by \in Shards \cup {App} : StopBegins(by)) => LifeInv'
<1> SUFFICES ASSUME LifeInv, stopAutoDiscovery \/ \E by \in Shards \cup {App} : StopBegins(by)
             PROVE  LifeInv'
  OBVIOUS
<1>. USE DEF LifeInv, ReceiveInv, WorkersInv, FramesInv, NotRunning, BeforeReceive,
             socketVars, ringVars, receiverVars, workerVars
<1>1. TypeOK'
  BY StopTypes
<1>2. call \in [at : Phases, by : Shards \cup {App}, shard : 0..N]
  BY DEF TypeOK
<1>3. N \in Nat \ {0} /\ Shards = 1..N
  BY SizesAssumption DEF Shards
<1>4. ASSUME NEW by \in Shards \cup {App}, StopBegins(by) PROVE LifeInv'
  BY <1>1, <1>2, <1>4 DEF StopBegins
<1>5. CASE StopClosesSocket
  BY <1>1, <1>2, <1>3, <1>5 DEF StopClosesSocket, AfterSocket, pipelineStarted
<1>6. CASE StopClosesRing
  <2>1. /\ call.shard \in 1..N
        /\ closed'[call.shard]
        /\ \A s \in Shards : closed[s] => closed'[s]
    BY <1>3, <1>6 DEF StopClosesRing, TypeOK
  <2>4. FramesInv'
    BY <1>6, <2>1 DEF StopClosesRing
  <2>2. CASE call.shard < N
    <3>1. call'.at = "rings" /\ call'.shard = call.shard + 1
      BY <1>2, <1>6, <2>2 DEF StopClosesRing, Onward
    <3>. QED
      BY <1>1, <1>3, <1>6, <2>1, <2>2, <2>4, <3>1 DEF StopClosesRing
  <2>3. CASE ~(call.shard < N)
    <3>1. call'.at = "join" /\ call'.shard = 1 /\ call.shard = N
      BY <1>2, <1>3, <1>6, <2>1, <2>3 DEF StopClosesRing, Onward
    <3>. QED
      BY <1>1, <1>3, <1>6, <2>1, <2>4, <3>1 DEF StopClosesRing
  <2>. QED
    BY <2>2, <2>3
<1>7. CASE StopJoins
  <2>1. /\ call.shard \in 1..N
        /\ worker[call.shard] = "exited"
        /\ \A s \in Shards : worker'[s] = IF s = call.shard THEN "none" ELSE worker[s]
    BY <1>3, <1>7 DEF StopJoins, Joinable, TypeOK
  <2>2. FramesInv'
    BY <1>3, <1>7, <2>1 DEF StopJoins
  <2>3. CASE call.shard < N
    <3>1. call'.at = "join" /\ call'.shard = call.shard + 1
      BY <1>2, <1>7, <2>3 DEF StopJoins, Onward
    <3>. QED
      BY <1>1, <1>3, <1>7, <2>1, <2>2, <2>3, <3>1 DEF StopJoins
  <2>4. CASE ~(call.shard < N)
    <3>1. call'.at = "server" /\ call.shard = N
      BY <1>2, <1>3, <1>7, <2>1, <2>4 DEF StopJoins, Onward
    <3>. QED
      BY <1>1, <1>3, <1>7, <2>1, <2>2, <3>1 DEF StopJoins
  <2>. QED
    BY <2>3, <2>4
<1>8. CASE StopServer
  BY <1>1, <1>2, <1>8 DEF StopServer, Idle
<1>. QED
  BY <1>4, <1>5, <1>6, <1>7, <1>8 DEF stopAutoDiscovery

LEMMA NextLife == LifeInv /\ [Next]_vars => LifeInv'
<1> SUFFICES ASSUME LifeInv, [Next]_vars PROVE LifeInv'
  OBVIOUS
<1>1. CASE UNCHANGED vars
  BY <1>1, NextTypes DEF LifeInv, ReceiveInv, WorkersInv, FramesInv, NotRunning, BeforeReceive,
     vars, callVars, receiverVars, socketVars, ringVars, workerVars
<1>. QED
  BY <1>1, ArriveLife, ReceiverLife, FailLife, WorkerLife, SenderLife, StartLife, StopLife DEF Next

LEMMA SumDecreases ==
  ASSUME NEW a \in Nat, NEW a1 \in Nat, NEW x \in 0..1, NEW x1 \in 0..1,
         NEW y \in 0..1, NEW n \in Nat, a + x + y <= n, a1 + x1 <= a + x
  PROVE  a1 + x1 + y <= n
OBVIOUS

\* A start brings one receive; a completion takes one to its handler, or ends
\* it, and the end of the drain arms it again.
LEMMA NextReceives == LifeInv /\ ReceivesInv /\ [Next]_vars => ReceivesInv'
<1> SUFFICES ASSUME LifeInv, ReceivesInv, [Next]_vars PROVE ReceivesInv'
  OBVIOUS
<1>1. /\ armed \in Nat /\ starts \in Nat
      /\ call \in [at : Phases, by : Shards \cup {App}, shard : 0..N]
  BY SizesAssumption DEF LifeInv, TypeOK
<1>. USE DEF ReceivesInv, Receives, Busy, callVars, receiverVars
<1>2. CASE UNCHANGED <<armed, handler, starts, call>>
  BY <1>2
<1>3. CASE receiver \/ ReceiveFails
  <2>1. UNCHANGED <<starts, call>>
    BY <1>3 DEF receiver, ReceiveCompletes, ReceiveAborts, ReceiveFails, handleReceivedDatagram,
       DrainReads, DrainEnds
  <2>2. armed' + (IF handler' \in {"route", "drain"} THEN 1 ELSE 0)
          <= armed + (IF handler \in {"route", "drain"} THEN 1 ELSE 0)
    <3>1. CASE ReceiveCompletes
      BY <1>1, <3>1 DEF ReceiveCompletes, Consumed
    <3>2. CASE ReceiveAborts \/ ReceiveFails
      BY <1>1, <3>2 DEF ReceiveAborts, ReceiveFails
    <3>3. CASE handleReceivedDatagram \/ DrainReads
      BY <1>1, <3>3 DEF handleReceivedDatagram, DrainReads
    <3>4. CASE DrainEnds
      BY <1>1, <3>4 DEF DrainEnds, Rearmed
    <3>. QED
      BY <1>3, <3>1, <3>2, <3>3, <3>4 DEF receiver
  <2>3. armed' \in Nat
    BY <1>1, <1>3 DEF receiver, ReceiveCompletes, Consumed, ReceiveAborts, ReceiveFails,
       handleReceivedDatagram, DrainReads, DrainEnds, Rearmed
  <2>. DEFINE b == IF Busy THEN 1 ELSE 0
              c == IF call.at \in {"spawn", "arm"} THEN 1 ELSE 0
  <2>4. /\ b \in 0..1 /\ b' \in 0..1 /\ c \in 0..1 /\ c' = c
        /\ armed + b + c <= starts
        /\ armed' + b' <= armed + b
    BY <2>1, <2>2
  <2>5. armed' + b' + c <= starts
    <3>. HIDE DEF b, c
    <3>. QED
      BY <1>1, <2>3, <2>4, SumDecreases
  <2>. QED
    BY <2>1, <2>5
<1>4. CASE startAutoDiscovery
  <2>1. CASE StartBegins
    <3>1. call.at = "idle" /\ call'.at = "spawn" /\ starts' = starts + 1
      BY <1>1, <2>1 DEF StartBegins, Step
    <3>2. UNCHANGED <<armed, handler>>
      BY <2>1 DEF StartBegins
    <3>. QED
      BY <1>1, <3>1, <3>2
  <2>2. CASE StartWorkers
    BY <1>1, <2>2 DEF StartWorkers, Step
  <2>3. CASE StartReceive
    BY <1>1, <2>3 DEF StartReceive, Step
  <2>4. CASE StartTimers
    BY <1>1, <2>4 DEF StartTimers, Step
  <2>5. ASSUME NEW ok \in BOOLEAN, StartServer(ok) PROVE ReceivesInv'
    BY <1>1, <2>5 DEF StartServer, Idle
  <2>. QED
    BY <1>4, <2>1, <2>2, <2>3, <2>4, <2>5 DEF startAutoDiscovery
<1>5. ASSUME NEW by \in Shards \cup {App}, StopBegins(by) PROVE ReceivesInv'
  BY <1>1, <1>5 DEF StopBegins
<1>6. CASE stopAutoDiscovery
  <2>1. UNCHANGED <<armed, handler, starts>>
    BY <1>6 DEF stopAutoDiscovery, StopClosesSocket, StopClosesRing, StopJoins, StopServer
  <2>2. call'.at \notin {"spawn", "arm"}
    <3>1. CASE StopClosesSocket
      BY <1>1, <3>1 DEF StopClosesSocket, AfterSocket
    <3>2. CASE StopClosesRing \/ StopJoins
      BY <1>1, <3>2 DEF StopClosesRing, StopJoins, Onward
    <3>3. CASE StopServer
      BY <3>3 DEF StopServer, Idle
    <3>. QED
      BY <1>6, <3>1, <3>2, <3>3 DEF stopAutoDiscovery
  <2>. QED
    BY <1>1, <2>1, <2>2
<1>7. CASE (\E d \in Datagrams : Arrive(d)) \/ sender \/ \E s \in Shards : autoDiscoveryWorkerLoop(s)
  BY <1>2, <1>7 DEF Arrive, sender, SendCompletes, TimerFires, autoDiscoveryWorkerLoop,
     WorkerPops, WorkerExits, HandlerReturns
<1>8. CASE UNCHANGED vars
  BY <1>2, <1>8 DEF vars
<1>. QED
  BY <1>3, <1>4, <1>5, <1>6, <1>7, <1>8 DEF Next

(***************************************************************************)
(* Each start brings one receive, pending or in its handler: a node never  *)
(* has more of them than it was started, whatever drains, errors and stops *)
(* come between, and so a node started once never has two.                 *)
(***************************************************************************)
THEOREM ReceiverIsOne == Spec => []OneReceiver
<1>1. LifeInv /\ ReceivesInv => OneReceiver
  BY SizesAssumption DEF LifeInv, TypeOK, ReceivesInv, Receives, OneReceiver
<1>. QED
  BY <1>1, InitLife, NextLife, NextReceives, PTL DEF Spec

(***************************************************************************)
(* When stopReceivePipeline has returned, no worker is left, none is in a  *)
(* callback, and every ring is empty.                                      *)
(***************************************************************************)
THEOREM StopDrains == Spec => []DrainedWhenStopped
<1>1. LifeInv => DrainedWhenStopped
  BY DEF LifeInv, WorkersInv, FramesInv, NotRunning, DrainedWhenStopped, Stopped
<1>. QED
  BY <1>1, InitLife, NextLife, PTL DEF Spec

-------------------------------------------------------------------------------
(***************************************************************************)
(* The order of the datagrams.  Routing is taken for right (RoutesAgree):  *)
(* datagrams about one subject that are not dropped go to one shard.       *)
(* Datagrams are numbered as they arrive, so that those in a ring or a     *)
(* handler are older than receiverBuffer_, and that is older than the      *)
(* socket buffer; in a ring, and between a handler and its ring, only a    *)
(* datagram that took another one's place comes before an older one.       *)
(***************************************************************************)
\* The numbers of the datagrams in rings and handlers.
Placed ==
  {n \in 1..MaxArrivals :
     \E s \in Shards : frame[s].n = n \/ \E i \in 1..Len(ring[s]) : ring[s][i].n = n}

InOwnShard ==
  \A s \in Shards :
    /\ frame[s] # Nothing => s \in Targets[frame[s].what]
    /\ \A i \in 1..Len(ring[s]) : s \in Targets[ring[s][i].what]

\* No datagram is with two shards.
ShardsApart ==
  \A r, s \in Shards : r # s =>
    /\ \A i \in 1..Len(ring[r]) :
         /\ \A j \in 1..Len(ring[s]) : ring[r][i].n # ring[s][j].n
         /\ frame[s] # Nothing => ring[r][i].n # frame[s].n
    /\ frame[r] # Nothing /\ frame[s] # Nothing => frame[r].n # frame[s].n

RingInOrder ==
  \A s \in Shards : \A i, j \in 1..Len(ring[s]) :
    /\ i # j => ring[s][i].n # ring[s][j].n
    /\ i < j /\ ring[s][i] \notin displacers => ring[s][i].n < ring[s][j].n

FrameBeforeRing ==
  \A s \in Shards : frame[s] # Nothing =>
    \A i \in 1..Len(ring[s]) :
      /\ frame[s].n # ring[s][i].n
      /\ frame[s] \notin displacers => frame[s].n < ring[s][i].n

SocketInOrder ==
  /\ \A n \in Placed :
       /\ n <= arrived
       /\ receiverBuffer # Nothing => n < receiverBuffer.n
       /\ \A k \in 1..Len(kernel) : n < kernel[k].datagram.n
  /\ receiverBuffer.n <= arrived
  /\ \A k \in 1..Len(kernel) :
       /\ receiverBuffer.n < kernel[k].datagram.n
       /\ kernel[k].datagram.n <= arrived
       /\ \A l \in 1..Len(kernel) : k < l => kernel[k].datagram.n < kernel[l].datagram.n

OrderInv == TypeOK /\ InOwnShard /\ ShardsApart /\ RingInOrder /\ FrameBeforeRing /\ SocketInOrder

\* The parts of the state the order is about.
orderVars == <<arrived, kernel, receiverBuffer, ring, frame, displacers>>

LEMMA OrderStutter == OrderInv /\ TypeOK' /\ UNCHANGED orderVars => OrderInv'
BY DEF OrderInv, orderVars, Placed, InOwnShard, ShardsApart, RingInOrder, FrameBeforeRing, SocketInOrder

LEMMA InitOrder == Init => OrderInv
<1> SUFFICES ASSUME Init PROVE OrderInv
  OBVIOUS
<1>1. TypeOK
  BY InitTypes
<1>2. /\ \A s \in Shards : frame[s] = Nothing /\ Len(ring[s]) = 0
      /\ Len(kernel) = 0 /\ receiverBuffer = Nothing /\ arrived = 0
  BY DEF Init
<1>. QED
  BY <1>1, <1>2 DEF OrderInv, Placed, InOwnShard, ShardsApart, RingInOrder, FrameBeforeRing, SocketInOrder, Nothing

\* The numbers of the datagrams held are numbers, and so is none's.
LEMMA Numbers ==
  ASSUME TypeOK
  PROVE  /\ arrived \in Nat /\ receiverBuffer.n \in Nat
         /\ \A s \in Shards : frame[s].n \in Nat
         /\ \A s \in Shards : \A i \in 1..Len(ring[s]) : ring[s][i].n \in Nat
         /\ \A k \in 1..Len(kernel) : kernel[k].datagram.n \in Nat
<1>1. \A g \in Datagram \cup {Nothing} : g.n \in Nat
  BY SizesAssumption DEF Datagram, Nothing
<1>2. arrived \in Nat /\ receiverBuffer \in Datagram \cup {Nothing}
  BY SizesAssumption DEF TypeOK
<1>3. \A s \in Shards : frame[s] \in Datagram \cup {Nothing}
  BY DEF TypeOK
<1>4. \A s \in Shards : \A i \in 1..Len(ring[s]) : ring[s][i] \in Datagram
  <2>. HIDE DEF Datagram
  <2>1. \A s \in Shards : ring[s] \in Seq(Datagram)
    BY DEF TypeOK
  <2>. QED
    BY <2>1
<1>5. \A k \in 1..Len(kernel) : kernel[k].datagram \in Datagram
  <2>. DEFINE Packets == [datagram : Datagram, drops : 0..overruns]
  <2>1. kernel \in Seq(Packets)
    BY DEF TypeOK
  <2>2. \A k \in 1..Len(kernel) : kernel[k] \in Packets
    <3>. HIDE DEF Packets
    <3>. QED
      BY <2>1
  <2>. QED
    BY <2>2
<1>. QED
  BY <1>1, <1>2, <1>3, <1>4, <1>5

LEMMA ArriveOrder == OrderInv /\ (\E d \in Datagrams : Arrive(d)) => OrderInv'
<1> SUFFICES ASSUME OrderInv, NEW d \in Datagrams, Arrive(d) PROVE OrderInv'
  OBVIOUS
<1>1. TypeOK /\ TypeOK' /\ arrived \in Nat
  BY ArriveTypes, Numbers DEF OrderInv
<1>2. UNCHANGED <<receiverBuffer, ring, frame, displacers>> /\ arrived' = arrived + 1
  BY DEF Arrive, receiverVars, ringVars, workerVars
<1>3. InOwnShard' /\ ShardsApart' /\ RingInOrder' /\ FrameBeforeRing'
  BY <1>2 DEF OrderInv, InOwnShard, ShardsApart, RingInOrder, FrameBeforeRing
<1>4. Placed' = Placed
  BY <1>2 DEF Placed
<1>5. \A n \in Placed : n \in Nat
  BY SizesAssumption DEF Placed
<1>6. /\ \A n \in Placed' : n <= arrived' /\ (receiverBuffer' # Nothing => n < receiverBuffer'.n)
      /\ receiverBuffer'.n <= arrived'
  BY <1>1, <1>2, <1>4, <1>5, Numbers DEF OrderInv, SocketInOrder
<1>7. CASE kernel' = kernel
  <2>1. SocketInOrder'
    BY <1>1, <1>2, <1>4, <1>6, <1>7, Numbers DEF OrderInv, SocketInOrder
  <2>. QED
    BY <1>1, <1>3, <2>1 DEF OrderInv
<1>8. CASE kernel' # kernel
  <2>. DEFINE new == [datagram |-> [n |-> arrived + 1, what |-> d], drops |-> overruns]
              Packets == [datagram : Datagram, drops : 0..overruns]
  <2>1. kernel' = Append(kernel, new) /\ kernel \in Seq(Packets) /\ new.datagram.n = arrived + 1
    BY <1>8 DEF Arrive, OrderInv, TypeOK
  <2>. HIDE DEF new, Packets
  <2>2. /\ Len(kernel') = Len(kernel) + 1 /\ Len(kernel) \in Nat
        /\ \A k \in 1..Len(kernel) : kernel'[k] = kernel[k]
        /\ kernel'[Len(kernel) + 1].datagram.n = arrived + 1
    BY <2>1
  <2>3. ASSUME NEW k \in 1..Len(kernel')
        PROVE  /\ \A n \in Placed : n < kernel'[k].datagram.n
               /\ receiverBuffer.n < kernel'[k].datagram.n
               /\ kernel'[k].datagram.n <= arrived + 1
               /\ \A l \in 1..Len(kernel') : k < l => kernel'[k].datagram.n < kernel'[l].datagram.n
    <3>1. CASE k \in 1..Len(kernel)
      <4>1. /\ kernel[k].datagram.n \in Nat /\ kernel'[k] = kernel[k]
            /\ \A n \in Placed : n < kernel[k].datagram.n
            /\ receiverBuffer.n < kernel[k].datagram.n
            /\ kernel[k].datagram.n <= arrived
        BY <1>1, <2>2, <3>1, Numbers DEF OrderInv, SocketInOrder
      <4>2. ASSUME NEW l \in 1..Len(kernel'), k < l
            PROVE  kernel'[k].datagram.n < kernel'[l].datagram.n
        <5>1. CASE l \in 1..Len(kernel)
          BY <2>2, <3>1, <4>2, <5>1 DEF OrderInv, SocketInOrder
        <5>2. CASE l = Len(kernel) + 1
          BY <1>1, <2>2, <4>1, <5>2
        <5>. QED
          BY <2>2, <5>1, <5>2
      <4>. QED
        BY <1>1, <4>1, <4>2
    <3>2. CASE k = Len(kernel) + 1
      <4>1. receiverBuffer.n < arrived + 1 /\ \A n \in Placed : n < arrived + 1
        BY <1>1, <1>5, Numbers DEF OrderInv, SocketInOrder
      <4>. QED
        BY <1>1, <2>2, <3>2, <4>1
    <3>. QED
      BY <2>2, <3>1, <3>2
  <2>4. SocketInOrder'
    BY <1>2, <1>4, <1>6, <2>3 DEF SocketInOrder
  <2>. QED
    BY <1>1, <1>3, <2>4 DEF OrderInv
<1>. QED
  BY <1>7, <1>8

\* A datagram is read from the socket buffer.
LEMMA TakeOrder ==
  ASSUME OrderInv, TypeOK', kernel # <<>>, receiverBuffer = Nothing,
         receiverBuffer' = Head(kernel).datagram, kernel' = Tail(kernel),
         UNCHANGED <<arrived, ring, frame, displacers>>
  PROVE  OrderInv'
<1>1. TypeOK
  BY DEF OrderInv
<1>2. InOwnShard' /\ ShardsApart' /\ RingInOrder' /\ FrameBeforeRing' /\ Placed' = Placed
  BY DEF OrderInv, InOwnShard, ShardsApart, RingInOrder, FrameBeforeRing, Placed
<1>3. /\ Len(kernel') \in Nat /\ Len(kernel) = Len(kernel') + 1
      /\ \A k \in 1..Len(kernel') : kernel'[k] = kernel[k + 1]
      /\ receiverBuffer' = kernel[1].datagram
  <2>. DEFINE Packets == [datagram : Datagram, drops : 0..overruns]
  <2>1. kernel \in Seq(Packets)
    BY <1>1 DEF TypeOK
  <2>. HIDE DEF Packets
  <2>. QED
    BY <2>1
<1>4. SocketInOrder'
  <2>1. \A k \in 1..Len(kernel') : k + 1 \in 1..Len(kernel)
    BY <1>3
  <2>2. 1 \in 1..Len(kernel)
    BY <1>3
  <2>3. /\ \A n \in Placed : n <= arrived /\ n < receiverBuffer'.n
        /\ receiverBuffer'.n <= arrived
    BY <1>3, <2>2 DEF OrderInv, SocketInOrder
  <2>4. ASSUME NEW k \in 1..Len(kernel')
        PROVE  /\ receiverBuffer'.n < kernel'[k].datagram.n
               /\ kernel'[k].datagram.n <= arrived
               /\ \A n \in Placed : n < kernel'[k].datagram.n
               /\ \A l \in 1..Len(kernel') : k < l => kernel'[k].datagram.n < kernel'[l].datagram.n
    <3>1. kernel'[k] = kernel[k + 1] /\ k + 1 \in 1..Len(kernel) /\ 1 < k + 1
      BY <1>3, <2>1
    <3>2. ASSUME NEW l \in 1..Len(kernel'), k < l
          PROVE  kernel'[k].datagram.n < kernel'[l].datagram.n
      <4>1. kernel'[l] = kernel[l + 1] /\ l + 1 \in 1..Len(kernel) /\ k + 1 < l + 1
        BY <1>3, <2>1, <3>2
      <4>. QED
        BY <3>1, <4>1 DEF OrderInv, SocketInOrder
    <3>. QED
      BY <1>3, <2>2, <3>1, <3>2 DEF OrderInv, SocketInOrder
  <2>. QED
    BY <1>2, <2>3, <2>4 DEF SocketInOrder
<1>. QED
  BY <1>2, <1>4 DEF OrderInv

\* Fewer datagrams are placed and the rest of the socket's side is as it was.
LEMMA SocketOrderKept ==
  ASSUME OrderInv, Placed' \subseteq Placed, UNCHANGED <<arrived, kernel, receiverBuffer>>
  PROVE  SocketInOrder'
BY DEF OrderInv, SocketInOrder

LEMMA PopOrder ==
  ASSUME OrderInv, TypeOK', NEW s \in Shards, WorkerPops(s)
  PROVE  OrderInv'
<1>1. TypeOK
  BY DEF OrderInv
<1>2. ring[s] \in Seq(Datagram) /\ ring[s] # <<>> /\ ring \in [Shards -> Seq(Datagram)]
      /\ frame \in [Shards -> Datagram \cup {Nothing}]
  BY <1>1 DEF TypeOK, WorkerPops
<1>3. /\ Len(ring'[s]) \in Nat /\ Len(ring[s]) = Len(ring'[s]) + 1
      /\ \A i \in 1..Len(ring'[s]) : ring'[s][i] = ring[s][i + 1]
      /\ frame'[s] = ring[s][1]
  <2>1. ring'[s] = Tail(ring[s]) /\ frame'[s] = Head(ring[s])
    BY <1>2 DEF WorkerPops
  <2>. HIDE DEF Datagram
  <2>. QED
    BY <1>2, <2>1
<1>4. \A r \in Shards \ {s} : ring'[r] = ring[r] /\ frame'[r] = frame[r]
  BY <1>2 DEF WorkerPops
<1>5. UNCHANGED <<displacers, arrived, kernel, receiverBuffer>>
  BY DEF WorkerPops, ringVars, receiverVars, socketVars
<1>6. /\ \A i \in 1..Len(ring'[s]) : i + 1 \in 1..Len(ring[s])
      /\ 1 \in 1..Len(ring[s])
  BY <1>3
<1>7. InOwnShard'
  <2>1. ASSUME NEW r \in Shards
        PROVE  /\ frame'[r] # Nothing => r \in Targets[frame'[r].what]
               /\ \A i \in 1..Len(ring'[r]) : r \in Targets[ring'[r][i].what]
    BY <1>3, <1>4, <1>6 DEF OrderInv, InOwnShard
  <2>. QED
    BY <2>1 DEF InOwnShard, Targets, Target, Astray
<1>11. ShardsApart'
  <2>1. ASSUME NEW r \in Shards, NEW q \in Shards, r # q
        PROVE  /\ \A i \in 1..Len(ring'[r]) :
                    /\ \A j \in 1..Len(ring'[q]) : ring'[r][i].n # ring'[q][j].n
                    /\ frame'[q] # Nothing => ring'[r][i].n # frame'[q].n
               /\ frame'[r] # Nothing /\ frame'[q] # Nothing => frame'[r].n # frame'[q].n
    <3>. DEFINE Rings(a, b) == \A i \in 1..Len(ring[a]), j \in 1..Len(ring[b]) : ring[a][i].n # ring[b][j].n
                Frame(a, b) == frame[b] # Nothing => \A i \in 1..Len(ring[a]) : ring[a][i].n # frame[b].n
    <3>1. Rings(r, q) /\ Rings(q, r) /\ Frame(r, q) /\ Frame(q, r)
          /\ (frame[r] # Nothing /\ frame[q] # Nothing => frame[r].n # frame[q].n)
      BY <2>1 DEF OrderInv, ShardsApart
    <3>2. CASE r = s
      <4>1. q # s /\ ring'[q] = ring[q] /\ frame'[q] = frame[q]
        BY <1>4, <2>1, <3>2
      <4>. QED
        BY <1>3, <1>6, <3>1, <3>2, <4>1
    <3>3. CASE q = s
      <4>1. ring'[r] = ring[r] /\ frame'[r] = frame[r]
        BY <1>4, <2>1, <3>3
      <4>. QED
        BY <1>3, <1>6, <3>1, <3>3, <4>1
    <3>4. CASE r # s /\ q # s
      BY <1>4, <3>1, <3>4
    <3>. QED
      BY <3>2, <3>3, <3>4
  <2>. QED
    BY <2>1 DEF ShardsApart
<1>8. RingInOrder'
  <2>1. ASSUME NEW r \in Shards, NEW i \in 1..Len(ring'[r]), NEW j \in 1..Len(ring'[r])
        PROVE  /\ i # j => ring'[r][i].n # ring'[r][j].n
               /\ i < j /\ ring'[r][i] \notin displacers => ring'[r][i].n < ring'[r][j].n
    <3>1. CASE r = s
      <4>1. i + 1 \in 1..Len(ring[s]) /\ j + 1 \in 1..Len(ring[s])
            /\ ring'[s][i] = ring[s][i + 1] /\ ring'[s][j] = ring[s][j + 1]
        BY <1>3, <1>6, <3>1
      <4>2. (i # j => i + 1 # j + 1) /\ (i < j => i + 1 < j + 1)
        BY <1>3, <3>1
      <4>. QED
        BY <3>1, <4>1, <4>2 DEF OrderInv, RingInOrder
    <3>2. CASE r # s
      BY <1>4, <3>2 DEF OrderInv, RingInOrder
    <3>. QED
      BY <3>1, <3>2
  <2>. QED
    BY <1>5, <2>1 DEF RingInOrder
<1>9. FrameBeforeRing'
  <2>1. ASSUME NEW r \in Shards, frame'[r] # Nothing, NEW i \in 1..Len(ring'[r])
        PROVE  /\ frame'[r].n # ring'[r][i].n
               /\ frame'[r] \notin displacers => frame'[r].n < ring'[r][i].n
    <3>1. CASE r = s
      <4>1. i + 1 \in 1..Len(ring[s]) /\ ring'[s][i] = ring[s][i + 1] /\ 1 # i + 1 /\ 1 < i + 1
        BY <1>3, <1>6, <3>1
      <4>. QED
        BY <1>3, <1>6, <3>1, <4>1 DEF OrderInv, RingInOrder
    <3>2. CASE r # s
      BY <1>4, <2>1, <3>2 DEF OrderInv, FrameBeforeRing
    <3>. QED
      BY <3>1, <3>2
  <2>. QED
    BY <1>5, <2>1 DEF FrameBeforeRing
<1>10. Placed' \subseteq Placed
  <2>1. SUFFICES ASSUME NEW n \in 1..MaxArrivals, NEW r \in Shards,
                        frame'[r].n = n \/ \E i \in 1..Len(ring'[r]) : ring'[r][i].n = n
                 PROVE  n \in Placed
    BY DEF Placed
  <2>2. CASE r = s
    <3>1. \E i \in 1..Len(ring[s]) : ring[s][i].n = n
      BY <1>3, <1>6, <2>1, <2>2
    <3>. QED
      BY <3>1 DEF Placed
  <2>3. CASE r # s
    BY <1>4, <2>1, <2>3 DEF Placed
  <2>. QED
    BY <2>2, <2>3
<1>. QED
  BY <1>5, <1>7, <1>8, <1>9, <1>10, <1>11, SocketOrderKept DEF OrderInv

LEMMA HandledOrder ==
  ASSUME OrderInv, TypeOK', NEW s \in Shards, HandlerReturns(s)
  PROVE  OrderInv'
<1>1. TypeOK
  BY DEF OrderInv
<1>2. /\ ring' = ring /\ UNCHANGED <<arrived, kernel, receiverBuffer>>
      /\ frame'[s] = Nothing /\ \A r \in Shards \ {s} : frame'[r] = frame[r]
      /\ displacers' = displacers \ {frame[s]}
  BY <1>1 DEF HandlerReturns, socketVars, receiverVars, TypeOK
<1>3. \A r \in Shards : \A i \in 1..Len(ring[r]) :
        ring[r][i] \notin displacers' => ring[r][i] \notin displacers
  <2>1. SUFFICES ASSUME NEW r \in Shards, NEW i \in 1..Len(ring[r]), ring[r][i] = frame[s]
                 PROVE  ring[r][i] \notin displacers
    BY <1>2
  <2>2. ring[r][i] \in Datagram
    <3>1. ring[r] \in Seq(Datagram)
      BY <1>1 DEF TypeOK
    <3>. HIDE DEF Datagram
    <3>. QED
      BY <3>1
  <2>3. ring[r][i] # Nothing
    BY <2>2, SizesAssumption DEF Datagram, Nothing
  <2>4. r = s
    BY <2>1, <2>3 DEF OrderInv, ShardsApart
  <2>. QED
    BY <2>1, <2>3, <2>4 DEF OrderInv, FrameBeforeRing
<1>4. InOwnShard' /\ ShardsApart'
  <2>1. InOwnShard'
    BY <1>2 DEF OrderInv, InOwnShard, Targets, Target, Astray
  <2>2. \A r \in Shards : frame'[r] # Nothing => frame'[r] = frame[r]
    BY <1>2
  <2>3. ShardsApart'
    BY <1>2, <2>2 DEF OrderInv, ShardsApart
  <2>. QED
    BY <2>1, <2>3
<1>5. RingInOrder'
  BY <1>2, <1>3 DEF OrderInv, RingInOrder
<1>6. FrameBeforeRing'
  <2>1. ASSUME NEW r \in Shards, frame'[r] # Nothing, NEW i \in 1..Len(ring[r])
        PROVE  /\ frame'[r].n # ring[r][i].n
               /\ frame'[r] \notin displacers' => frame'[r].n < ring[r][i].n
    <3>1. r # s /\ frame'[r] = frame[r]
      BY <1>2, <2>1
    <3>2. frame[r] # frame[s]
      BY <2>1, <3>1 DEF OrderInv, ShardsApart
    <3>. QED
      BY <1>2, <2>1, <3>1, <3>2 DEF OrderInv, FrameBeforeRing
  <2>. QED
    BY <1>2, <2>1 DEF FrameBeforeRing
<1>7. Placed' \subseteq Placed
  <2>1. Nothing.n = 0
    BY DEF Nothing
  <2>2. \A n \in 1..MaxArrivals : n # 0
    BY SizesAssumption
  <2>. QED
    BY <1>2, <2>1, <2>2 DEF Placed
<1>. QED
  BY <1>2, <1>4, <1>5, <1>6, <1>7, SocketOrderKept DEF OrderInv

\* What a publish in a ring leaves: the ring, the ring and the new frame at its
\* end, or the ring with the new frame in its first slot.
LEMMA PublishedRing ==
  ASSUME TypeOK, NEW s \in Shards, NEW g \in Datagram
  PROVE  /\ \A r \in Shards \ {s} : Published(s, g)[r] = ring[r]
         /\ LET q == Published(s, g)[s] IN
            \/ /\ closed[s]
               /\ q = ring[s]
            \/ /\ ~closed[s] /\ Len(ring[s]) # RingSlots
               /\ Len(q) = Len(ring[s]) + 1
               /\ \A i \in 1..Len(ring[s]) : q[i] = ring[s][i]
               /\ q[Len(ring[s]) + 1] = g
            \/ /\ ~closed[s] /\ Len(ring[s]) = RingSlots
               /\ Len(q) = Len(ring[s]) /\ 1 \in 1..Len(ring[s])
               /\ \A i \in 1..Len(ring[s]) : q[i] = IF i = 1 THEN g ELSE ring[s][i]
<1>1. ring \in [Shards -> Seq(Datagram)] /\ ring[s] \in Seq(Datagram) /\ Len(ring[s]) <= RingSlots
  BY DEF TypeOK
<1>2. Len(ring[s]) \in Nat /\ RingSlots \in Nat \ {0}
  BY <1>1, SizesAssumption
<1>. HIDE DEF Datagram
<1>3. CASE closed[s]
  BY <1>3 DEF Published
<1>4. CASE ~closed[s] /\ Len(ring[s]) < RingSlots
  <2>1. Published(s, g) = [ring EXCEPT ![s] = Append(ring[s], g)]
    BY <1>4 DEF Published
  <2>2. /\ Len(Append(ring[s], g)) = Len(ring[s]) + 1
        /\ \A i \in 1..Len(ring[s]) : Append(ring[s], g)[i] = ring[s][i]
        /\ Append(ring[s], g)[Len(ring[s]) + 1] = g
    BY <1>1
  <2>. QED
    BY <1>1, <1>2, <1>4, <2>1, <2>2
<1>5. CASE ~closed[s] /\ Len(ring[s]) = RingSlots
  <2>1. Published(s, g) = [ring EXCEPT ![s] = [ring[s] EXCEPT ![1] = g]]
    BY <1>2, <1>5 DEF Published
  <2>2. /\ Len([ring[s] EXCEPT ![1] = g]) = Len(ring[s])
        /\ 1 \in 1..Len(ring[s])
        /\ \A i \in 1..Len(ring[s]) : [ring[s] EXCEPT ![1] = g][i] = IF i = 1 THEN g ELSE ring[s][i]
    BY <1>1, <1>2, <1>5
  <2>. QED
    BY <1>1, <1>5, <2>1, <2>2
<1>. QED
  BY <1>1, <1>2, <1>3, <1>4, <1>5

LEMMA OlderThanBuffer ==
  ASSUME OrderInv, receiverBuffer # Nothing
  PROVE  /\ receiverBuffer \in Datagram
         /\ \A r \in Shards : frame[r].n < receiverBuffer.n
         /\ \A r \in Shards : \A i \in 1..Len(ring[r]) : ring[r][i].n < receiverBuffer.n
<1>1. TypeOK
  BY DEF OrderInv
<1>2. receiverBuffer \in Datagram
  BY <1>1 DEF TypeOK
<1>3. receiverBuffer.n \in Nat /\ 0 < receiverBuffer.n
  BY <1>2, SizesAssumption DEF Datagram
<1>4. ASSUME NEW r \in Shards PROVE frame[r].n < receiverBuffer.n
  <2>1. CASE frame[r] = Nothing
    BY <1>3, <2>1 DEF Nothing
  <2>2. CASE frame[r] # Nothing
    <3>1. frame[r].n \in 1..MaxArrivals
      BY <1>1, <2>2 DEF TypeOK, Datagram
    <3>2. frame[r].n \in Placed
      BY <3>1 DEF Placed
    <3>. QED
      BY <3>2 DEF OrderInv, SocketInOrder
  <2>. QED
    BY <2>1, <2>2
<1>5. ASSUME NEW r \in Shards, NEW i \in 1..Len(ring[r]) PROVE ring[r][i].n < receiverBuffer.n
  <2>1. ring[r][i] \in Datagram
    <3>1. ring[r] \in Seq(Datagram)
      BY <1>1 DEF TypeOK
    <3>. HIDE DEF Datagram
    <3>. QED
      BY <3>1
  <2>2. ring[r][i].n \in 1..MaxArrivals
    BY <2>1 DEF Datagram
  <2>3. ring[r][i].n \in Placed
    BY <2>2 DEF Placed
  <2>. QED
    BY <2>3 DEF OrderInv, SocketInOrder
<1>. QED
  BY <1>2, <1>4, <1>5

\* The shards stay apart when one of them gets a datagram newer than all.
LEMMA NewerStaysApart ==
  ASSUME ShardsApart, frame' = frame, NEW s \in Shards, NEW g, g.n \in Nat,
         \A r \in Shards : frame[r].n \in Nat /\ frame[r].n < g.n,
         \A r \in Shards : \A i \in 1..Len(ring[r]) : ring[r][i].n \in Nat /\ ring[r][i].n < g.n,
         \A r \in Shards : \A i \in 1..Len(ring'[r]) :
           \/ r = s /\ ring'[r][i] = g
           \/ i \in 1..Len(ring[r]) /\ ring'[r][i] = ring[r][i]
  PROVE  ShardsApart'
<1>1. ASSUME NEW r \in Shards, NEW q \in Shards, r # q, NEW i \in 1..Len(ring'[r])
      PROVE  /\ \A j \in 1..Len(ring'[q]) : ring'[r][i].n # ring'[q][j].n
             /\ frame[q] # Nothing => ring'[r][i].n # frame[q].n
  <2>1. CASE r = s /\ ring'[r][i] = g
    <3>1. frame[q].n # g.n
      OBVIOUS
    <3>2. ASSUME NEW j \in 1..Len(ring'[q]) PROVE ring'[q][j].n # g.n
      <4>1. j \in 1..Len(ring[q]) /\ ring'[q][j] = ring[q][j]
        BY <1>1, <2>1
      <4>. QED
        BY <4>1
    <3>. QED
      BY <2>1, <3>1, <3>2
  <2>2. CASE i \in 1..Len(ring[r]) /\ ring'[r][i] = ring[r][i]
    <3>1. ASSUME NEW j \in 1..Len(ring'[q]) PROVE ring'[q][j].n # ring[r][i].n
      <4>1. CASE ring'[q][j] = g
        BY <2>2, <4>1
      <4>2. CASE j \in 1..Len(ring[q]) /\ ring'[q][j] = ring[q][j]
        BY <1>1, <2>2, <4>2 DEF ShardsApart
      <4>. QED
        BY <4>1, <4>2
    <3>. QED
      BY <1>1, <2>2, <3>1 DEF ShardsApart
  <2>. QED
    BY <2>1, <2>2
<1>. QED
  BY <1>1 DEF ShardsApart

LEMMA HandleOrder ==
  ASSUME OrderInv, TypeOK', handleReceivedDatagram
  PROVE  OrderInv'
<1>. DEFINE g == receiverBuffer
<1>1. /\ TypeOK /\ g \in Datagram /\ g # Nothing
      /\ \A r \in Shards : frame[r].n < g.n
      /\ \A r \in Shards : \A i \in 1..Len(ring[r]) : ring[r][i].n < g.n
  <2>1. TypeOK /\ g \in Datagram
    BY DEF OrderInv, TypeOK, handleReceivedDatagram
  <2>2. g # Nothing
    BY <2>1, SizesAssumption DEF Datagram, Nothing
  <2>. QED
    BY <2>1, <2>2, OlderThanBuffer
<1>2. UNCHANGED <<frame, arrived, kernel>> /\ receiverBuffer' = Nothing
  BY DEF handleReceivedDatagram, socketVars, workerVars
<1>3. g.n \in Nat /\ g.n > 0 /\ g.n <= arrived
  BY <1>1, SizesAssumption DEF Datagram, OrderInv, SocketInOrder
<1>4. ASSUME Placed' \subseteq Placed \cup {g.n} PROVE SocketInOrder'
  <2>1. Nothing.n = 0
    BY DEF Nothing
  <2>2. \A k \in 1..Len(kernel) : g.n < kernel[k].datagram.n /\ kernel[k].datagram.n \in Nat
    BY <1>1, Numbers DEF OrderInv, SocketInOrder
  <2>3. \A n \in Placed : n <= arrived /\ \A k \in 1..Len(kernel) : n < kernel[k].datagram.n
    BY DEF OrderInv, SocketInOrder
  <2>4. arrived \in Nat
    BY <1>1, Numbers
  <2>5. \A k \in 1..Len(kernel) : 0 < kernel[k].datagram.n
    BY <1>3, <2>2
  <2>. QED
    BY <1>2, <1>3, <1>4, <2>1, <2>2, <2>3, <2>4, <2>5 DEF OrderInv, SocketInOrder
<1>5. CASE UNCHANGED <<ring, displacers>>
  <2>1. InOwnShard' /\ ShardsApart' /\ RingInOrder' /\ FrameBeforeRing' /\ Placed' = Placed
    BY <1>2, <1>5 DEF OrderInv, InOwnShard, ShardsApart, RingInOrder, FrameBeforeRing, Placed,
       Targets, Target, Astray
  <2>. QED
    BY <1>4, <2>1 DEF OrderInv
<1>6. ASSUME NEW s \in Targets[g.what], Enqueue(g, s), s # Dropped PROVE OrderInv'
  <2>. DEFINE overwrites == ~closed[s] /\ Len(ring[s]) = RingSlots
              appends == ~closed[s] /\ Len(ring[s]) # RingSlots
  <2>1. s \in Shards
    BY <1>1, <1>6, TargetsType, SizesAssumption DEF Datagram, Shards, Dropped
  <2>2. /\ ring' = Published(s, g)
        /\ displacers' = IF overwrites THEN (displacers \ {ring[s][1]}) \cup {g} ELSE displacers
    BY <1>6 DEF Enqueue
  <2>3. \A r \in Shards \ {s} : ring'[r] = ring[r]
    BY <1>1, <2>1, <2>2, PublishedRing
  <2>4. CASE closed[s]
    <3>1. UNCHANGED <<ring, displacers>>
      BY <2>2, <2>4 DEF Published
    <3>. QED
      BY <1>5, <3>1
  <2>5. CASE appends
    <3>. DEFINE last == Len(ring[s]) + 1
    <3>1. /\ Len(ring'[s]) = last
          /\ \A i \in 1..Len(ring[s]) : ring'[s][i] = ring[s][i]
          /\ ring'[s][last] = g
          /\ displacers' = displacers
      BY <1>1, <2>1, <2>2, <2>5, PublishedRing
    <3>2. /\ Len(ring[s]) \in Nat
          /\ \A i \in 1..Len(ring[s]) : ring[s][i].n \in Nat /\ i # last /\ i < last /\ ~(last < i)
          /\ 1..last = 1..Len(ring[s]) \cup {last}
      <4>1. ring[s] \in Seq(Datagram)
        BY <1>1, <2>1 DEF TypeOK
      <4>2. Len(ring[s]) \in Nat
        BY <4>1
      <4>. QED
        BY <1>1, <2>1, <4>2, Numbers
    <3>. HIDE DEF last
    <3>3. InOwnShard'
      <4>1. ASSUME NEW r \in Shards, NEW i \in 1..Len(ring'[r])
            PROVE  r \in Targets[ring'[r][i].what]
        <5>1. CASE r = s /\ i = last
          BY <1>6, <3>1, <5>1
        <5>2. CASE r = s /\ i # last
          BY <2>1, <3>1, <3>2, <5>2 DEF OrderInv, InOwnShard
        <5>3. CASE r # s
          BY <2>3, <5>3 DEF OrderInv, InOwnShard
        <5>. QED
          BY <5>1, <5>2, <5>3
      <4>. QED
        BY <1>2, <4>1 DEF OrderInv, InOwnShard, Targets, Target, Astray
    <3>7. ShardsApart'
      <4>1. \A r \in Shards : \A i \in 1..Len(ring'[r]) :
              \/ r = s /\ ring'[r][i] = g
              \/ i \in 1..Len(ring[r]) /\ ring'[r][i] = ring[r][i]
        BY <2>3, <3>1, <3>2
      <4>. QED
        BY <1>1, <1>2, <1>3, <2>1, <4>1, NewerStaysApart, Numbers DEF OrderInv
    <3>4. RingInOrder'
      <4>1. ASSUME NEW r \in Shards, NEW i \in 1..Len(ring'[r]), NEW j \in 1..Len(ring'[r])
            PROVE  /\ i # j => ring'[r][i].n # ring'[r][j].n
                   /\ i < j /\ ring'[r][i] \notin displacers => ring'[r][i].n < ring'[r][j].n
        <5>1. CASE r # s
          <6>1. ring'[r] = ring[r]
            BY <2>3, <5>1
          <6>. QED
            BY <6>1 DEF OrderInv, RingInOrder
        <5>2. CASE r = s /\ i # last /\ j # last
          <6>1. /\ i \in 1..Len(ring[s]) /\ j \in 1..Len(ring[s])
                /\ ring'[s][i] = ring[s][i] /\ ring'[s][j] = ring[s][j]
            BY <2>1, <3>1, <3>2, <5>2
          <6>. QED
            BY <2>1, <5>2, <6>1 DEF OrderInv, RingInOrder
        <5>3. CASE r = s /\ i # last /\ j = last
          <6>1. i \in 1..Len(ring[s]) /\ ring'[r][i] = ring[s][i] /\ ring'[r][j] = g
            BY <3>1, <3>2, <5>3
          <6>2. ring[s][i].n < g.n /\ ring[s][i].n \in Nat
            BY <1>1, <2>1, <3>2, <6>1
          <6>. QED
            BY <1>3, <6>1, <6>2
        <5>4. CASE r = s /\ i = last /\ j # last
          <6>1. j \in 1..Len(ring[s]) /\ ring'[r][i] = g /\ ring'[r][j] = ring[s][j] /\ ~(i < j)
            BY <3>1, <3>2, <5>4
          <6>2. ring[s][j].n < g.n /\ ring[s][j].n \in Nat
            BY <1>1, <2>1, <3>2, <6>1
          <6>. QED
            BY <1>3, <6>1, <6>2
        <5>5. CASE i = j
          <6>1. ~(i < i)
            BY <3>1, <3>2
          <6>. QED
            BY <5>5, <6>1
        <5>. QED
          BY <5>1, <5>2, <5>3, <5>4, <5>5
      <4>. QED
        BY <3>1, <4>1 DEF RingInOrder
    <3>5. FrameBeforeRing'
      <4>1. ASSUME NEW r \in Shards, frame[r] # Nothing, NEW i \in 1..Len(ring'[r])
            PROVE  /\ frame[r].n # ring'[r][i].n
                   /\ frame[r] \notin displacers => frame[r].n < ring'[r][i].n
        <5>1. CASE r # s
          BY <2>3, <4>1, <5>1 DEF OrderInv, FrameBeforeRing
        <5>2. CASE r = s /\ i # last
          BY <2>1, <3>1, <3>2, <4>1, <5>2 DEF OrderInv, FrameBeforeRing
        <5>3. CASE r = s /\ i = last
          <6>1. frame[s].n < g.n /\ frame[s].n \in Nat
            BY <1>1, <2>1, Numbers
          <6>. QED
            BY <1>3, <3>1, <5>3, <6>1
        <5>. QED
          BY <5>1, <5>2, <5>3
      <4>. QED
        BY <1>2, <3>1, <4>1 DEF FrameBeforeRing
    <3>6. Placed' \subseteq Placed \cup {g.n}
      <4>1. ASSUME NEW n \in 1..MaxArrivals, NEW r \in Shards, NEW i \in 1..Len(ring'[r]), ring'[r][i].n = n
            PROVE  n \in Placed \cup {g.n}
        <5>1. CASE r # s
          BY <2>3, <4>1, <5>1 DEF Placed
        <5>2. CASE r = s /\ i # last
          BY <2>1, <3>1, <3>2, <4>1, <5>2 DEF Placed
        <5>3. CASE r = s /\ i = last
          BY <3>1, <4>1, <5>3
        <5>. QED
          BY <5>1, <5>2, <5>3
      <4>. QED
        BY <1>2, <4>1 DEF Placed
    <3>. QED
      BY <1>4, <3>3, <3>4, <3>5, <3>6, <3>7 DEF OrderInv
  <2>6. CASE overwrites
    <3>1. /\ Len(ring'[s]) = Len(ring[s]) /\ 1 \in 1..Len(ring[s])
          /\ \A i \in 1..Len(ring[s]) : ring'[s][i] = IF i = 1 THEN g ELSE ring[s][i]
          /\ displacers' = (displacers \ {ring[s][1]}) \cup {g}
      BY <1>1, <2>1, <2>2, <2>6, PublishedRing
    <3>2. \A r \in Shards : \A i \in 1..Len(ring[r]) :
            (r # s \/ i # 1) /\ ring[r][i] \notin displacers' => ring[r][i] \notin displacers
      <4>1. SUFFICES ASSUME NEW r \in Shards, NEW i \in 1..Len(ring[r]), r # s \/ i # 1
                     PROVE  ring[r][i] # ring[s][1]
        BY <3>1
      <4>2. CASE r = s
        BY <2>1, <3>1, <4>1, <4>2 DEF OrderInv, RingInOrder
      <4>3. CASE r # s
        BY <2>1, <3>1, <4>1, <4>3 DEF OrderInv, ShardsApart
      <4>. QED
        BY <4>2, <4>3
    <3>3. \A r \in Shards :
            frame[r] # Nothing /\ frame[r] \notin displacers' => frame[r] \notin displacers
      <4>1. SUFFICES ASSUME NEW r \in Shards, frame[r] # Nothing PROVE frame[r] # ring[s][1]
        BY <3>1
      <4>2. CASE r = s
        BY <2>1, <3>1, <4>1, <4>2 DEF OrderInv, FrameBeforeRing
      <4>3. CASE r # s
        BY <2>1, <3>1, <4>1, <4>3 DEF OrderInv, ShardsApart
      <4>. QED
        BY <4>2, <4>3
    <3>4. \A i \in 1..Len(ring[s]) : ring[s][i].n \in Nat /\ i \in Nat /\ ~(i < 1)
      <4>1. ring[s] \in Seq(Datagram)
        BY <1>1, <2>1 DEF TypeOK
      <4>2. Len(ring[s]) \in Nat
        BY <4>1
      <4>. QED
        BY <1>1, <2>1, <4>2, Numbers
    <3>5. InOwnShard'
      <4>1. ASSUME NEW r \in Shards, NEW i \in 1..Len(ring'[r])
            PROVE  r \in Targets[ring'[r][i].what]
        BY <1>6, <2>1, <2>3, <3>1 DEF OrderInv, InOwnShard
      <4>. QED
        BY <1>2, <4>1 DEF OrderInv, InOwnShard, Targets, Target, Astray
    <3>9. ShardsApart'
      <4>1. \A r \in Shards : \A i \in 1..Len(ring'[r]) :
              \/ r = s /\ ring'[r][i] = g
              \/ i \in 1..Len(ring[r]) /\ ring'[r][i] = ring[r][i]
        BY <2>3, <3>1
      <4>. QED
        BY <1>1, <1>2, <1>3, <2>1, <4>1, NewerStaysApart, Numbers DEF OrderInv
    <3>6. RingInOrder'
      <4>1. ASSUME NEW r \in Shards, NEW i \in 1..Len(ring'[r]), NEW j \in 1..Len(ring'[r])
            PROVE  /\ i # j => ring'[r][i].n # ring'[r][j].n
                   /\ i < j /\ ring'[r][i] \notin displacers' => ring'[r][i].n < ring'[r][j].n
        <5>1. CASE r # s
          <6>1. /\ ring'[r] = ring[r]
                /\ ring[r][i] \notin displacers' => ring[r][i] \notin displacers
            BY <2>3, <3>2, <5>1
          <6>. QED
            BY <6>1 DEF OrderInv, RingInOrder
        <5>2. CASE r = s /\ i # 1 /\ j # 1
          <6>1. /\ i \in 1..Len(ring[s]) /\ j \in 1..Len(ring[s])
                /\ ring'[s][i] = ring[s][i] /\ ring'[s][j] = ring[s][j]
                /\ ring[s][i] \notin displacers' => ring[s][i] \notin displacers
            BY <2>1, <3>1, <3>2, <5>2
          <6>. QED
            BY <2>1, <5>2, <6>1 DEF OrderInv, RingInOrder
        <5>3. CASE r = s /\ i = 1
          <6>1. /\ j \in 1..Len(ring[s]) /\ ring'[r][i] = g /\ g \in displacers'
                /\ i # j => ring'[r][j] = ring[s][j]
            BY <2>1, <3>1, <5>3
          <6>2. ring[s][j].n < g.n /\ ring[s][j].n \in Nat
            BY <1>1, <2>1, <3>4, <6>1
          <6>. QED
            BY <1>3, <6>1, <6>2
        <5>4. CASE r = s /\ i # 1 /\ j = 1
          <6>1. /\ i \in 1..Len(ring[s]) /\ ring'[r][i] = ring[s][i] /\ ring'[r][j] = g
                /\ ~(i < j)
            BY <2>1, <3>1, <3>4, <5>4
          <6>2. ring[s][i].n < g.n /\ ring[s][i].n \in Nat
            BY <1>1, <2>1, <3>4, <6>1
          <6>. QED
            BY <1>3, <6>1, <6>2
        <5>. QED
          BY <5>1, <5>2, <5>3, <5>4
      <4>. QED
        BY <4>1 DEF RingInOrder
    <3>7. FrameBeforeRing'
      <4>1. ASSUME NEW r \in Shards, frame[r] # Nothing, NEW i \in 1..Len(ring'[r])
            PROVE  /\ frame[r].n # ring'[r][i].n
                   /\ frame[r] \notin displacers' => frame[r].n < ring'[r][i].n
        <5>1. CASE r # s
          BY <2>3, <3>3, <4>1, <5>1 DEF OrderInv, FrameBeforeRing
        <5>2. CASE r = s /\ i # 1
          BY <2>1, <3>1, <3>3, <4>1, <5>2 DEF OrderInv, FrameBeforeRing
        <5>3. CASE r = s /\ i = 1
          <6>1. frame[s].n < g.n /\ frame[s].n \in Nat
            BY <1>1, <2>1, Numbers
          <6>. QED
            BY <1>3, <3>1, <5>3, <6>1
        <5>. QED
          BY <5>1, <5>2, <5>3
      <4>. QED
        BY <1>2, <4>1 DEF FrameBeforeRing
    <3>8. Placed' \subseteq Placed \cup {g.n}
      <4>1. ASSUME NEW n \in 1..MaxArrivals, NEW r \in Shards, NEW i \in 1..Len(ring'[r]), ring'[r][i].n = n
            PROVE  n \in Placed \cup {g.n}
        BY <2>1, <2>3, <3>1, <4>1 DEF Placed
      <4>. QED
        BY <1>2, <4>1 DEF Placed
    <3>. QED
      BY <1>4, <3>5, <3>6, <3>7, <3>8, <3>9 DEF OrderInv
  <2>. QED
    BY <2>4, <2>5, <2>6
<1>. QED
  BY <1>5, <1>6 DEF handleReceivedDatagram, Enqueue

\* The socket buffer loses its head, or all of it.
LEMMA LostOrder ==
  ASSUME OrderInv, TypeOK', Len(kernel') = 0 \/ (kernel # <<>> /\ kernel' = Tail(kernel)),
         UNCHANGED <<arrived, receiverBuffer, ring, frame, displacers>>
  PROVE  OrderInv'
<1>1. TypeOK
  BY DEF OrderInv
<1>2. InOwnShard' /\ ShardsApart' /\ RingInOrder' /\ FrameBeforeRing' /\ Placed' = Placed
  BY DEF OrderInv, InOwnShard, ShardsApart, RingInOrder, FrameBeforeRing, Placed
<1>3. CASE Len(kernel') = 0
  BY <1>2, <1>3 DEF OrderInv, SocketInOrder
<1>4. CASE kernel # <<>> /\ kernel' = Tail(kernel)
  <2>1. /\ Len(kernel') \in Nat /\ Len(kernel) = Len(kernel') + 1
        /\ \A k \in 1..Len(kernel') : kernel'[k] = kernel[k + 1]
    <3>. DEFINE Packets == [datagram : Datagram, drops : 0..overruns]
    <3>1. kernel \in Seq(Packets)
      BY <1>1 DEF TypeOK
    <3>. HIDE DEF Packets
    <3>. QED
      BY <1>4, <3>1
  <2>2. \A k \in 1..Len(kernel') :
          /\ k + 1 \in 1..Len(kernel)
          /\ \A l \in 1..Len(kernel') : k < l => k + 1 < l + 1
    BY <2>1
  <2>. QED
    BY <1>2, <2>1, <2>2 DEF OrderInv, SocketInOrder
<1>. QED
  BY <1>3, <1>4

LEMMA ReceiverOrder == OrderInv /\ receiver => OrderInv'
<1> SUFFICES ASSUME OrderInv, receiver PROVE OrderInv'
  OBVIOUS
<1>1. TypeOK /\ TypeOK'
  BY ReceiverTypes DEF OrderInv
<1>2. CASE ReceiveCompletes
  BY <1>1, <1>2, TakeOrder DEF ReceiveCompletes, ringVars, workerVars, TypeOK
<1>3. CASE ReceiveAborts
  BY <1>1, <1>3, OrderStutter DEF ReceiveAborts, orderVars, socketVars, ringVars, workerVars
<1>4. CASE handleReceivedDatagram
  BY <1>1, <1>4, HandleOrder
<1>5. CASE DrainReads
  BY <1>1, <1>5, TakeOrder DEF DrainReads, ringVars, workerVars, TypeOK
<1>6. CASE DrainEnds
  <2>1. UNCHANGED <<arrived, receiverBuffer, ring, frame, displacers>>
    BY <1>6 DEF DrainEnds, ringVars, workerVars
  <2>. QED
    BY <1>1, <1>6, <2>1, OrderStutter, LostOrder DEF DrainEnds, EmptyAtHead, orderVars
<1>. QED
  BY <1>2, <1>3, <1>4, <1>5, <1>6 DEF receiver

LEMMA WorkerOrder == OrderInv /\ (\E s \in Shards : autoDiscoveryWorkerLoop(s)) => OrderInv'
<1> SUFFICES ASSUME OrderInv, NEW s \in Shards, autoDiscoveryWorkerLoop(s) PROVE OrderInv'
  OBVIOUS
<1>1. TypeOK'
  BY WorkerTypes DEF OrderInv
<1>2. CASE WorkerPops(s)
  BY <1>1, <1>2, PopOrder
<1>3. CASE WorkerExits(s)
  BY <1>1, <1>3, OrderStutter DEF WorkerExits, orderVars, socketVars, receiverVars, ringVars
<1>4. CASE HandlerReturns(s)
  BY <1>1, <1>4, HandledOrder
<1>. QED
  BY <1>2, <1>3, <1>4 DEF autoDiscoveryWorkerLoop

LEMMA NextOrder == OrderInv /\ [Next]_vars => OrderInv'
<1> SUFFICES ASSUME OrderInv, [Next]_vars PROVE OrderInv'
  OBVIOUS
<1>1. TypeOK'
  BY NextTypes DEF OrderInv
<1>. USE DEF orderVars, socketVars, receiverVars, ringVars, workerVars
<1>2. CASE UNCHANGED vars
  BY <1>1, <1>2, OrderStutter DEF vars
<1>3. CASE sender
  BY <1>1, <1>3, OrderStutter DEF sender, SendCompletes, TimerFires
<1>4. CASE startAutoDiscovery
  BY <1>1, <1>4, OrderStutter
     DEF startAutoDiscovery, StartBegins, StartWorkers, StartReceive, StartTimers, StartServer
<1>5. ASSUME NEW by \in Shards \cup {App}, StopBegins(by) PROVE OrderInv'
  BY <1>1, <1>5, OrderStutter DEF StopBegins
<1>6. CASE stopAutoDiscovery
  <2>1. CASE StopClosesSocket
    BY <1>1, <2>1, LostOrder DEF StopClosesSocket
  <2>. QED
    BY <1>1, <1>6, <2>1, OrderStutter DEF stopAutoDiscovery, StopClosesRing, StopJoins, StopServer
<1>7. CASE ReceiveFails
  BY <1>1, <1>7, OrderStutter DEF ReceiveFails
<1>. QED
  BY <1>2, <1>3, <1>4, <1>5, <1>6, <1>7, ArriveOrder, ReceiverOrder, WorkerOrder DEF Next

LEMMA LeastIsLeast ==
  ASSUME NEW S, S \subseteq Nat, S # {}
  PROVE  Least(S) \in S /\ \A j \in S : Least(S) <= j
<1>1. \E m \in S : \A k \in S : <<k, m>> \notin OpToRel(<, Nat)
  BY NatLessThanWellFounded, WFMin
<1>2. PICK m \in S : \A k \in S : <<k, m>> \notin OpToRel(<, Nat)
  BY <1>1
<1>3. \A k \in S : ~(k < m)
  BY <1>2 DEF OpToRel
<1>4. \A k \in S : m <= k
  BY <1>3
<1>. QED
  BY <1>4 DEF Least

\* A datagram that decodes has one way to go: a walk that a length leads astray
\* is over a data message protobuf rejects.
LEMMA DecodedGoesOneWay ==
  ASSUME NEW pair \in SameSubject
  PROVE  /\ Targets[pair[1]] = {Target[pair[1]]}
         /\ Targets[pair[2]] = {Target[pair[2]]}
<1>1. pair[1] \in Datagrams /\ pair[2] \in Datagrams
  BY DEF SameSubject
<1>2. ASSUME NEW d \in Datagrams, ParseFromArray(Wire[d].body) PROVE d \notin Astray
  <2>. DEFINE fields == Wire[d].body
  <2>1. SUFFICES ASSUME WalkWraps(fields) PROVE FALSE
    BY DEF Astray
  <2>2. /\ fields[First(fields)].number = DataField
        /\ ~WellFormed(fields[First(fields)].value)
    BY <2>1 DEF WalkWraps, StartsWithData
  <2>3. First(fields) \in Spans(fields)
    <3>1. Spans(fields) # {} /\ Spans(fields) \subseteq Nat
      BY <1>2, <2>1, WireAssumption DEF WalkWraps, StartsWithData, IsList, Spans
    <3>. QED
      BY <3>1, LeastIsLeast DEF First
  <2>. QED
    BY <1>2, <2>2, <2>3 DEF ParseFromArray, Members
<1>. QED
  BY <1>1, <1>2 DEF SameSubject, Targets

(***************************************************************************)
(* "One topic -> one shard -> one worker": wherever the routes agree, no   *)
(* two workers are ever in the handlers of one topic or of one peer.       *)
(***************************************************************************)
THEOREM TopicHasOneWorker ==
  ASSUME RoutesAgree
  PROVE  Spec => []OneWorkerPerSubject
<1>1. OrderInv => OneWorkerPerSubject
  <2> SUFFICES ASSUME OrderInv, NEW s1 \in Shards, NEW s2 \in Shards,
                      frame[s1] # Nothing, frame[s2] # Nothing,
                      <<frame[s1].what, frame[s2].what>> \in SameSubject
               PROVE  s1 = s2
    BY DEF OneWorkerPerSubject
  <2>1. Target[frame[s1].what] = s1 /\ Target[frame[s2].what] = s2
    BY DecodedGoesOneWay DEF OrderInv, InOwnShard
  <2>2. Dropped \notin {s1, s2}
    BY SizesAssumption DEF Shards, Dropped
  <2>3. ASSUME NEW pair \in SameSubject, Dropped \notin {Target[pair[1]], Target[pair[2]]}
        PROVE  Target[pair[1]] = Target[pair[2]]
    BY <2>3 DEF RoutesAgree
  <2>. QED
    BY <2>1, <2>2, <2>3
<1>. QED
  BY <1>1, InitOrder, NextOrder, PTL DEF Spec

(***************************************************************************)
(* The datagrams of a topic, or of a peer, are handled in the order in     *)
(* which the socket received them: wherever the routes agree, a handler    *)
(* that runs for a datagram that did not take another's place in a full    *)
(* ring has no older one about its subject behind it.                      *)
(***************************************************************************)
THEOREM TopicOrderKept ==
  ASSUME RoutesAgree
  PROVE  Spec => []PerTopicOrder
<1>1. OrderInv => PerTopicOrder
  <2> SUFFICES ASSUME OrderInv, NEW s \in Shards, NEW g \in Held,
                      frame[s] # Nothing, frame[s] \notin displacers, g.n < frame[s].n,
                      <<g.what, frame[s].what>> \in SameSubject
               PROVE  FALSE
    BY DEF PerTopicOrder
  <2>1. TypeOK /\ frame[s].n \in Nat /\ frame[s].n \in Placed
    <3>1. TypeOK
      BY DEF OrderInv
    <3>2. frame[s].n \in 1..MaxArrivals
      BY <3>1 DEF TypeOK, Datagram
    <3>. QED
      BY <3>1, <3>2, Numbers DEF Placed
  <2>2. CASE g \in Buffered
    <3>1. CASE receiverBuffer # Nothing /\ g = receiverBuffer
      BY <2>1, <3>1, Numbers DEF OrderInv, SocketInOrder
    <3>2. ASSUME NEW k \in DOMAIN kernel, g = kernel[k].datagram PROVE FALSE
      <4>1. k \in 1..Len(kernel)
        BY <2>1 DEF TypeOK
      <4>. QED
        BY <2>1, <3>2, <4>1, Numbers DEF OrderInv, SocketInOrder
    <3>. QED
      BY <2>2, <3>1, <3>2 DEF Buffered
  <2>3. ASSUME NEW r \in Shards, r \in Targets[g.what] PROVE r = s
    <3>1. Target[frame[s].what] = s /\ Target[g.what] = r
      BY <2>3, DecodedGoesOneWay DEF OrderInv, InOwnShard
    <3>2. Dropped \notin {r, s}
      BY SizesAssumption DEF Shards, Dropped
    <3>3. ASSUME NEW pair \in SameSubject, Dropped \notin {Target[pair[1]], Target[pair[2]]}
          PROVE  Target[pair[1]] = Target[pair[2]]
      BY <3>3 DEF RoutesAgree
    <3>. QED
      BY <2>3, <3>1, <3>2, <3>3
  <2>4. ASSUME NEW r \in Shards, NEW i \in DOMAIN ring[r], g = ring[r][i] PROVE FALSE
    <3>1. i \in 1..Len(ring[r])
      <4>1. ring[r] \in Seq(Datagram)
        BY <2>1 DEF TypeOK
      <4>. HIDE DEF Datagram
      <4>. QED
        BY <4>1
    <3>2. r = s
      BY <2>3, <2>4, <3>1 DEF OrderInv, InOwnShard
    <3>3. frame[s].n < g.n /\ g.n \in Nat
      BY <2>1, <2>4, <3>1, <3>2, Numbers DEF OrderInv, FrameBeforeRing
    <3>. QED
      BY <2>1, <3>3
  <2>5. ASSUME NEW r \in Shards, frame[r] # Nothing, g = frame[r] PROVE FALSE
    <3>1. r = s
      BY <2>3, <2>5 DEF OrderInv, InOwnShard
    <3>. QED
      BY <2>1, <2>5, <3>1
  <2>. QED
    BY <2>2, <2>4, <2>5 DEF Held, Ringed
<1>. QED
  BY <1>1, InitOrder, NextOrder, PTL DEF Spec

-------------------------------------------------------------------------------
(***************************************************************************)
(* The routes of datagrams whose fields are written once: the walk over    *)
(* the bytes, where it gives a key, gives the one of the full decode.      *)
(***************************************************************************)
LEMMA SoleIsGreatest ==
  ASSUME NEW j \in Nat
  PROVE  Greatest({j}) = j
BY DEF Greatest

LEMMA PrefixIsPart ==
  ASSUME NEW V, NEW s \in Seq(V), NEW i \in 0..Len(s)
  PROVE  DOMAIN Prefix(s, i) = 1..i /\ \A j \in 1..i : Prefix(s, i)[j] = s[j]
BY DEF Prefix

\* A string that is written once has its value as soon as it is read.
LEMMA StringOfPrefix ==
  ASSUME NEW V, NEW s \in Seq(V), NEW i \in 0..Len(s), NEW number, Once(s, number),
         LastString(Prefix(s, i), number) # EmptyString
  PROVE  LastString(Prefix(s, i), number) = LastString(s, number)
<1> DEFINE at(q) == {j \in Spans(q) : q[j].number = number}
<1>1. /\ DOMAIN Prefix(s, i) = 1..i /\ \A j \in 1..i : Prefix(s, i)[j] = s[j]
      /\ DOMAIN s = 1..Len(s) /\ Len(s) \in Nat
  BY PrefixIsPart
<1>2. PICK j \in Spans(Prefix(s, i)) : Prefix(s, i)[j].number = number
  BY DEF LastString
<1>3. j \in 1..i /\ j \in 1..Len(s) /\ j \in Nat /\ Prefix(s, i)[j] = s[j]
  BY <1>1, <1>2 DEF Spans
<1>4. \A k \in Spans(Prefix(s, i)) : k \in Spans(s) /\ Prefix(s, i)[k] = s[k]
  BY <1>1 DEF Spans
<1>5. j \in Spans(s) /\ s[j].number = number
  BY <1>2, <1>3, <1>4
<1>6. at(s) = {j}
  BY <1>5 DEF Once
<1>7. at(Prefix(s, i)) = {j}
  BY <1>2, <1>4, <1>5 DEF Once
<1>8. LastString(s, number) = s[Greatest({j})].value
  BY <1>6 DEF LastString
<1>9. LastString(Prefix(s, i), number) = Prefix(s, i)[Greatest({j})].value
  BY <1>7 DEF LastString
<1>. QED
  BY <1>3, <1>8, <1>9, SoleIsGreatest

\* readDataMessageRoutingKey stops early, but not before it has the key.
LEMMA WalkReadsKey ==
  ASSUME NEW V, NEW s \in Seq(V), Once(s, TopicNameField), Once(s, MessageTypeField)
  PROVE  readDataMessageRoutingKey(s) \in {NoKey, KeyOf(s)}
<1> DEFINE enough == {i \in 0..Len(s) :
                        /\ WellFormed(Prefix(s, i))
                        /\ \A k \in 1..2 : KeyOf(Prefix(s, i))[k] # EmptyString}
<1>1. CASE enough = {}
  BY <1>1 DEF readDataMessageRoutingKey
<1>2. CASE enough # {}
  <2>1. Least(enough) \in enough
    <3>1. enough \subseteq Nat
      OBVIOUS
    <3> HIDE DEF enough
    <3>. QED
      BY <1>2, <3>1, LeastIsLeast
  <2>2. PICK i \in enough : i = Least(enough)
    BY <2>1
  <2>3. readDataMessageRoutingKey(s) = KeyOf(Prefix(s, i))
    BY <1>2, <2>2 DEF readDataMessageRoutingKey
  <2>4. /\ LastString(Prefix(s, i), TopicNameField) # EmptyString
        /\ LastString(Prefix(s, i), MessageTypeField) # EmptyString
    BY <2>2 DEF KeyOf
  <2>5. KeyOf(Prefix(s, i)) = KeyOf(s)
    BY <2>4, StringOfPrefix DEF KeyOf
  <2>. QED
    BY <2>3, <2>5
<1>. QED
  BY <1>1, <1>2

\* A data message that is there once is not merged with anything.
LEMMA SoleDataMessage ==
  ASSUME NEW V, NEW fields \in Seq(V), NEW m \in Members(fields),
         \A i \in Members(fields) : i = m,
         NEW W, fields[m].value \in Seq(W)
  PROVE  MergedData(fields) = fields[m].value
<1> DEFINE n == Len(fields)
           value == fields[m].value
           Reads(f) == f = [i \in 0..n |->
             IF i = 0 THEN <<>>
             ELSE IF i \in Winning(fields) THEN f[i - 1] \o fields[i].value ELSE f[i - 1]]
           values == CHOOSE f : Reads(f)
           part == [i \in 0..n |-> IF i < m THEN <<>> ELSE value]
<1>1. n \in Nat /\ m \in 1..n
  BY DEF Members, Spans
<1>2. Members(fields) = {m}
  OBVIOUS
<1>3. Winning(fields) = {m}
  <2>1. Greatest(Members(fields)) = m
    BY <1>1, <1>2, SoleIsGreatest
  <2>2. ContentCase(fields) = fields[m].number
    BY <1>2, <2>1 DEF ContentCase
  <2>. QED
    BY <1>2, <2>2 DEF Winning
<1> HIDE DEF n, value
<1>4. Reads(part)
  <2>1. ASSUME NEW i \in 0..n
        PROVE  part[i] = IF i = 0 THEN <<>>
                 ELSE IF i \in Winning(fields) THEN part[i - 1] \o fields[i].value ELSE part[i - 1]
    <3>1. CASE i = 0
      BY <1>1, <3>1
    <3>2. CASE i # 0 /\ i = m
      <4>1. part[i - 1] = <<>> /\ part[i] = value
        BY <1>1, <3>2
      <4>2. <<>> \o value = value
        BY DEF value
      <4>. QED
        BY <1>3, <3>2, <4>1, <4>2 DEF value
    <3>3. CASE i # 0 /\ i # m
      <4>1. part[i] = part[i - 1]
        BY <1>1, <3>3
      <4>. QED
        BY <1>3, <3>3, <4>1
    <3>. QED
      BY <3>1, <3>2, <3>3
  <2> HIDE DEF part
  <2>2. part = [i \in 0..n |-> part[i]]
    BY DEF part
  <2>. QED
    BY <2>1, <2>2
<1>5. Reads(values) /\ MergedData(fields) = values[n]
  <2>1. \E f : Reads(f)
    BY <1>4
  <2>2. Reads(values)
    <3> HIDE DEF Reads
    <3>. QED
      BY <2>1
  <2>. QED
    BY <2>2 DEF MergedData, n
<1> HIDE DEF values
<1> DEFINE Other == {i \in 0..n : values[i] # part[i]}
<1>6. Other = {}
  <2> SUFFICES ASSUME Other # {} PROVE FALSE
    OBVIOUS
  <2>1. Other \subseteq Nat
    BY <1>1
  <2>2. PICK i \in Other : \A j \in Other : i <= j
    <3> HIDE DEF Other
    <3>. QED
      BY <2>1, LeastIsLeast
  <2>3. i \in 0..n /\ values[i] # part[i]
    BY <2>2
  <2>4. values[i] = IF i = 0 THEN <<>>
          ELSE IF i \in Winning(fields) THEN values[i - 1] \o fields[i].value ELSE values[i - 1]
    BY <1>5, <2>3
  <2>5. part[i] = IF i = 0 THEN <<>>
          ELSE IF i \in Winning(fields) THEN part[i - 1] \o fields[i].value ELSE part[i - 1]
    <3> HIDE DEF part
    <3>. QED
      BY <1>4, <2>3
  <2> HIDE DEF part
  <2>6. i # 0 /\ values[i - 1] # part[i - 1]
    BY <2>3, <2>4, <2>5
  <2>7. i - 1 \in 0..n /\ ~(i <= i - 1)
    BY <1>1, <2>3, <2>6
  <2>. QED
    BY <2>2, <2>6, <2>7
<1>7. n \in 0..n /\ part[n] = value
  BY <1>1
<1>. QED
  BY <1>5, <1>6, <1>7 DEF value

\* Whichever way it is chosen, the route is the shard of the subject.
LEMMA RouteIsOfSubject ==
  ASSUME NEW fields, WrittenOnce(fields), ParseFromArray(fields), ContentCase(fields) # 0
  PROVE  Route(fields) = IF ContentCase(fields) = IdentifierField THEN ShardOfUid[Subject(fields)]
                         ELSE ShardOfKey[Subject(fields)]
<1> DEFINE V == {fields[i] : i \in DOMAIN fields}
<1>1. fields \in Seq(V)
  BY DEF WrittenOnce, IsList
<1> HIDE DEF V
<1>2. PICK m \in Members(fields) : \A i \in Members(fields) : i = m
  BY DEF ContentCase, WrittenOnce
<1>3. m \in Nat /\ m \in Spans(fields) /\ Members(fields) = {m}
  BY <1>1, <1>2 DEF Members, Spans
<1>4. ContentCase(fields) = fields[m].number
  BY <1>3, SoleIsGreatest DEF ContentCase
<1> DEFINE first == First(fields)
<1>5. first \in Spans(fields)
  <2>1. Spans(fields) \subseteq Nat
    BY <1>1 DEF Spans
  <2>. QED
    BY <1>3, <2>1, LeastIsLeast DEF First
<1>6. fields[first].number = DataField => first = m
  BY <1>2, <1>5 DEF Members
<1>7. CASE fields[m].number # DataField
  <2>1. fields[first].number # DataField
    BY <1>6, <1>7
  <2>2. tryReadRoutingKey(fields) = NoKey
    BY <2>1 DEF tryReadRoutingKey, StartsWithData
  <2>. QED
    BY <2>2 DEF Route
<1>8. CASE fields[m].number = DataField
  <2> DEFINE data == fields[m].value
  <2>1. IsList(data) /\ Once(data, TopicNameField) /\ Once(data, MessageTypeField)
    BY <1>8 DEF WrittenOnce
  <2>2. data \in Seq({data[i] : i \in DOMAIN data})
    BY <2>1 DEF IsList
  <2>3. readDataMessageRoutingKey(data) \in {NoKey, KeyOf(data)}
    BY <2>1, <2>2, WalkReadsKey
  <2>4. MergedData(fields) = data
    BY <1>1, <1>2, <2>2, SoleDataMessage
  <2>5. Subject(fields) = KeyOf(data)
    BY <1>4, <1>8, <2>4 DEF Subject, DataField
  <2>6. tryReadRoutingKey(fields) \in {NoKey, KeyOf(data)}
    BY <1>6, <2>3 DEF tryReadRoutingKey, StartsWithData
  <2>7. ContentCase(fields) # IdentifierField
    BY <1>4, <1>8 DEF DataField, IdentifierField
  <2>. QED
    BY <2>5, <2>6, <2>7 DEF Route
<1>. QED
  BY <1>7, <1>8

(***************************************************************************)
(* "This is a safe acceleration, never a correctness risk": of datagrams   *)
(* whose fields are written once, those about one subject go to one shard, *)
(* whatever the order of their fields and the hash, and whether they were  *)
(* routed by the walk over their bytes or by the full decode.              *)
(***************************************************************************)
THEOREM WrittenOnceRoutesAgree ==
  ASSUME SentOnce, UidsAreApart
  PROVE  RoutesAgree
<1> SUFFICES ASSUME NEW pair \in SameSubject,
                    Dropped \notin {Target[pair[1]], Target[pair[2]]}
             PROVE  Target[pair[1]] = Target[pair[2]]
  BY DEF RoutesAgree
<1> DEFINE body(k) == Wire[pair[k]].body
<1>1. /\ pair \in Datagrams \X Datagrams
      /\ \A k \in 1..2 : ParseFromArray(body(k)) /\ ContentCase(body(k)) # 0
      /\ Subject(body(1)) = Subject(body(2))
  BY DEF SameSubject
<1>2. \A k \in 1..2 : pair[k] \in Datagrams /\ WrittenOnce(body(k))
  BY <1>1 DEF SentOnce
<1>3. \A k \in 1..2 : Target[pair[k]] = Route(body(k))
  BY <1>2 DEF Target
<1>4. <<pair[2], pair[1]>> \in SameSubject
  BY <1>1, <1>2 DEF SameSubject
<1>5. ContentCase(body(1)) = IdentifierField <=> ContentCase(body(2)) = IdentifierField
  BY <1>4 DEF UidsAreApart
<1>6. \A k \in 1..2 :
        Route(body(k)) = IF ContentCase(body(k)) = IdentifierField THEN ShardOfUid[Subject(body(k))]
                         ELSE ShardOfKey[Subject(body(k))]
  BY <1>1, <1>2, RouteIsOfSubject
<1>. QED
  BY <1>1, <1>3, <1>5, <1>6

=============================================================================
