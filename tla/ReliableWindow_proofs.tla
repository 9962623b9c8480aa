------------------------ MODULE ReliableWindow_proofs ------------------------
(***************************************************************************)
(* Proofs about ReliableWindow: for every window size, every set of        *)
(* publishers, topics and reader threads, and any arrival order.           *)
(***************************************************************************)
EXTENDS ReliableWindow, FiniteSetTheorems, WellFoundedInduction, TLAPS

-------------------------------------------------------------------------------
(***************************************************************************)
(* The greatest element of a bounded set of numbers.                       *)
(***************************************************************************)

\* A set of naturals that is not empty has a least element.
LEMMA LeastExists ==
  ASSUME NEW T, T \subseteq Nat, T # {}
  PROVE  \E x \in T : \A y \in T : x <= y
<1>1. \E x \in T : \A y \in T : ~(<<y, x>> \in OpToRel(<, Nat))
  BY NatLessThanWellFounded, WFMin
<1>2. PICK x \in T : \A y \in T : ~(<<y, x>> \in OpToRel(<, Nat))
  BY <1>1
<1>3. \A y \in T : ~(y < x)
  BY <1>2 DEF OpToRel
<1>. QED
  BY <1>3

\* A bounded set of naturals that is not empty contains its Max.
LEMMA MaxIsGreatest ==
  ASSUME NEW n \in Nat, NEW T, T \subseteq 0..n, T # {}
  PROVE  Max(T) \in T /\ \A y \in T : Max(T) >= y
<1> DEFINE Mirror == {n - t : t \in T}
<1>1. Mirror \subseteq Nat
  OBVIOUS
<1>2. Mirror # {}
  OBVIOUS
<1>3. PICK u \in Mirror : \A v \in Mirror : u <= v
  BY <1>1, <1>2, LeastExists
<1>4. PICK x \in T : u = n - x
  OBVIOUS
<1>5. \A y \in T : n - x <= n - y
  BY <1>3, <1>4
<1>6. x \in Nat /\ \A y \in T : y \in Nat
  <2>1. \A y \in 0..n : y \in Nat
    OBVIOUS
  <2>. QED
    BY <2>1
<1>7. \A y \in T : x >= y
  BY <1>5, <1>6
<1>. QED
  BY <1>7 DEF Max

-------------------------------------------------------------------------------
(***************************************************************************)
(* A finite set of numbers has an ascending enumeration.                   *)
(***************************************************************************)
Enumerates(s, T) ==
  /\ s \in [1..Cardinality(T) -> T]
  /\ \A i, j \in 1..Cardinality(T) : i < j => s[i] < s[j]

\* A bounded set of naturals is finite.
LEMMA BoundedIsFinite ==
  ASSUME NEW n \in Nat, NEW T \in SUBSET 0..n
  PROVE  IsFiniteSet(T) /\ Cardinality(T) \in Nat /\ T \subseteq Nat
<1>1. IsFiniteSet(0..n)
  BY FS_Interval
<1>2. \A x \in 0..n : x \in Nat
  OBVIOUS
<1>. QED
  BY <1>1, <1>2, FS_Subset, FS_CardinalityType

\* With its greatest element put after the enumeration of the others.
LEMMA EnumerationGrows ==
  ASSUME NEW n \in Nat, NEW T \in SUBSET 0..n, T # {},
         NEW s, Enumerates(s, T \ {Max(T)})
  PROVE  \E u : Enumerates(u, T)
<1> DEFINE m == Max(T)
           k == Cardinality(T)
           rest == T \ {m}
<1>1. m \in T /\ \A y \in T : m >= y
  BY MaxIsGreatest
<1>2. IsFiniteSet(T) /\ k \in Nat /\ T \subseteq Nat
  BY BoundedIsFinite
<1> HIDE DEF m, k
<1>3. k # 0 /\ Cardinality(rest) = k - 1
  BY <1>1, <1>2, FS_EmptySet, FS_RemoveElement DEF k
<1>4. /\ s \in [1..(k - 1) -> rest]
      /\ \A i, j \in 1..(k - 1) : i < j => s[i] < s[j]
  BY <1>3 DEF Enumerates, m
<1> DEFINE u == [i \in 1..k |-> IF i = k THEN m ELSE s[i]]
<1>5. \A i \in 1..k : i = k \/ i \in 1..(k - 1)
  BY <1>2
<1>6. \A i \in 1..(k - 1) : s[i] \in T /\ s[i] < m
  <2>1. ASSUME NEW i \in 1..(k - 1) PROVE s[i] \in T /\ s[i] < m
    <3>1. s[i] \in rest
      BY <1>4
    <3>2. s[i] \in T /\ s[i] # m
      BY <3>1
    <3>3. s[i] \in Nat /\ m \in Nat /\ m >= s[i]
      BY <1>1, <1>2, <3>2
    <3>. QED
      BY <3>2, <3>3
  <2>. QED
    BY <2>1
<1>7. u \in [1..k -> T]
  BY <1>1, <1>5, <1>6
<1>8. ASSUME NEW i \in 1..k, NEW j \in 1..k, i < j PROVE u[i] < u[j]
  <2>1. i \in 1..(k - 1) /\ u[i] = s[i]
    BY <1>2, <1>8
  <2>2. CASE j = k
    BY <1>6, <2>1, <2>2
  <2>3. CASE j # k
    <3>1. j \in 1..(k - 1) /\ u[j] = s[j]
      BY <1>5, <2>3
    <3>. QED
      BY <1>4, <1>8, <2>1, <3>1
  <2>. QED
    BY <2>2, <2>3
<1>. QED
  BY <1>7, <1>8 DEF Enumerates, k

\* The smallest set without an enumeration would have a smaller one.
LEMMA EnumerationExists ==
  ASSUME NEW n \in Nat, NEW S \in SUBSET 0..n
  PROVE  \E s : Enumerates(s, S)
<1> DEFINE Bad(T) == ~\E s : Enumerates(s, T)
           Sizes == {k \in Nat : \E T \in SUBSET 0..n : Cardinality(T) = k /\ Bad(T)}
<1> SUFFICES ASSUME Bad(S) PROVE FALSE
  OBVIOUS
<1>1. Cardinality(S) \in Sizes
  BY BoundedIsFinite
<1>2. PICK k \in Sizes : \A j \in Sizes : k <= j
  BY <1>1, LeastExists
<1>3. PICK T \in SUBSET 0..n : Cardinality(T) = k /\ Bad(T)
  BY <1>2
<1>4. IsFiniteSet(T) /\ T \subseteq Nat /\ k \in Nat
  BY <1>3, BoundedIsFinite
<1>5. CASE T = {}
  <2>1. Cardinality(T) = 0
    BY <1>5, FS_EmptySet
  <2>2. Enumerates([i \in 1..0 |-> 0], T)
    BY <2>1 DEF Enumerates
  <2>. QED
    BY <1>3, <2>2
<1>6. CASE T # {}
  <2> DEFINE rest == T \ {Max(T)}
  <2>1. Max(T) \in T
    BY <1>6, MaxIsGreatest
  <2>2. Cardinality(rest) = k - 1 /\ k # 0
    BY <1>3, <1>4, <1>6, <2>1, FS_RemoveElement, FS_EmptySet
  <2>3. k - 1 \notin Sizes
    BY <1>2, <1>4
  <2>4. k - 1 \in Nat /\ rest \in SUBSET 0..n
    <3>1. k \in Nat /\ k # 0
      BY <1>4, <2>2
    <3>2. k - 1 \in Nat
      BY <3>1
    <3>3. rest \in SUBSET 0..n
      BY <1>3
    <3>. QED
      BY <3>2, <3>3
  <2>5. ~Bad(rest)
    BY <2>2, <2>3, <2>4
  <2>6. PICK s : Enumerates(s, rest)
    BY <2>5
  <2>. QED
    BY <1>3, <1>6, <2>6, EnumerationGrows
<1>. QED
  BY <1>5, <1>6

\* The flush hands out every tid of the buffer, once, in ascending order.
LEMMA AscendingEnumerates ==
  ASSUME NEW n \in Nat, NEW S \in SUBSET 0..n
  PROVE  /\ Ascending(S) \in Seq(S)
         /\ \A i, j \in DOMAIN Ascending(S) : i < j => Ascending(S)[i] < Ascending(S)[j]
         /\ \A x \in S : \E i \in DOMAIN Ascending(S) : Ascending(S)[i] = x
<1> DEFINE k == Cardinality(S)
           s == Ascending(S)
<1>1. IsFiniteSet(S) /\ k \in Nat /\ S \subseteq Nat
  BY BoundedIsFinite
<1>2. PICK u : Enumerates(u, S)
  BY EnumerationExists
<1>3. /\ s \in [1..k -> S]
      /\ \A i, j \in DOMAIN s : i < j => s[i] < s[j]
  BY <1>2 DEF Enumerates, Ascending
<1> HIDE DEF s, k
<1>4. s \in Seq(S) /\ DOMAIN s = 1..k
  BY <1>1, <1>3
<1>5. s \in Injection(1..k, S)
  <2>1. ASSUME NEW i \in 1..k, NEW j \in 1..k, i # j PROVE s[i] # s[j]
    <3>1. s[i] \in Nat /\ s[j] \in Nat
      BY <1>1, <1>3
    <3>2. i < j \/ j < i
      BY <2>1
    <3>. QED
      BY <1>3, <1>4, <3>1, <3>2
  <2>. QED
    BY <1>3, <2>1 DEF Injection, IsInjective
<1>6. Cardinality(1..k) = Cardinality(S)
  BY <1>1, FS_Interval DEF k
<1>7. s \in Surjection(1..k, S)
  BY <1>1, <1>5, <1>6, FS_Injection
<1>8. \A x \in S : \E i \in 1..k : s[i] = x
  BY <1>7 DEF Surjection
<1>. QED
  BY <1>3, <1>4, <1>8 DEF s

-------------------------------------------------------------------------------
(***************************************************************************)
(* The flush moves nextExpected past everything it hands out.              *)
(***************************************************************************)
LEMMA FlushPassesAll ==
  ASSUME NEW n \in Nat, NEW buffer \in SUBSET (n + 1)..(n + WindowSize - 1),
         NEW tid \in Nat
  PROVE  /\ AfterFlush(buffer, tid) \in Nat
         /\ AfterFlush(buffer, tid) > tid
         /\ \A b \in buffer : AfterFlush(buffer, tid) > b
<1> USE WindowSizeAssumption
<1>1. CASE buffer = {}
  BY <1>1 DEF AfterFlush
<1>2. CASE buffer # {}
  <2> DEFINE m == Max(buffer)
             k == Cardinality(buffer)
             top == n + WindowSize + tid + 1 + k
  <2>1. m \in buffer /\ \A b \in buffer : m >= b
    <3>1. n + WindowSize \in Nat /\ buffer \subseteq 0..(n + WindowSize)
      OBVIOUS
    <3>. QED
      BY <1>2, <3>1, MaxIsGreatest
  <2>2. k \in Nat
    <3>1. IsFiniteSet((n + 1)..(n + WindowSize - 1))
      BY FS_Interval
    <3>. QED
      BY <3>1, FS_Subset, FS_CardinalityType
  <2> HIDE DEF m, k
  <2>3. m \in Nat /\ m <= n + WindowSize - 1
    <3>1. m \in (n + 1)..(n + WindowSize - 1)
      BY <2>1
    <3>. QED
      BY <3>1
  <2>4. top \in Nat /\ {tid + 1 + k, m + 1} \subseteq 0..top
    BY <2>2, <2>3
  <2> DEFINE a == Max({tid + 1 + k, m + 1})
  <2>5. a \in {tid + 1 + k, m + 1} /\ a >= tid + 1 + k /\ a >= m + 1
    BY <2>4, MaxIsGreatest
  <2>6. AfterFlush(buffer, tid) = a
    BY <1>2 DEF AfterFlush, m, k
  <2> HIDE DEF a
  <2>7. a \in Nat /\ a > tid /\ a > m
    BY <2>2, <2>3, <2>5
  <2>8. \A b \in buffer : b \in Nat /\ a > b
    BY <2>1, <2>3, <2>7
  <2>. QED
    BY <2>6, <2>7, <2>8
<1>. QED
  BY <1>1, <1>2

-------------------------------------------------------------------------------
(***************************************************************************)
(* One frame into one window.                                              *)
(***************************************************************************)
Sound(win) ==
  /\ win \in RxWindows
  /\ win.buffer \subseteq (win.nextExpected + 1)..(win.nextExpected + WindowSize - 1)
  /\ win.nextExpected = 0 => win.buffer = {}

\* A frame that is delivered: it and the buffer lie at or above nextExpected,
\* and the new nextExpected lies above them.
LEMMA DeliveryIsSound ==
  ASSUME NEW win, Sound(win), NEW tid \in Nat, Delivers(win, tid)
  PROVE  /\ Sound(Admit(win, tid))
         /\ Admit(win, tid).nextExpected # 0
         /\ \A b \in {tid} \cup win.buffer : /\ b >= win.nextExpected
                                           /\ b < Admit(win, tid).nextExpected
         /\ Admit(win, tid).nextExpected >= win.nextExpected
<1> DEFINE n == win.nextExpected
           next == AfterFlush(win.buffer, tid)
<1>1. n \in Nat /\ win.buffer \in SUBSET (n + 1)..(n + WindowSize - 1)
  BY DEF Sound, RxWindows
<1>2. next \in Nat /\ next > tid /\ \A b \in win.buffer : next > b
  BY <1>1, FlushPassesAll
<1>3. tid >= n
  BY <1>1 DEF Delivers, Baselines, InSequence, FastForwards
<1>4. Admit(win, tid) = [nextExpected |-> next, buffer |-> {}]
  BY DEF Admit, Delivery
<1> HIDE DEF next
<1>5. \A b \in win.buffer : b \in Nat /\ b >= n
  BY <1>1, WindowSizeAssumption
<1>6. Sound(Admit(win, tid))
  BY <1>2, <1>4 DEF Sound, RxWindows
<1>. QED
  BY <1>1, <1>2, <1>3, <1>4, <1>5, <1>6

\* A frame that is not delivered leaves nextExpected where it is.
LEMMA HoldingIsSound ==
  ASSUME NEW win, Sound(win), NEW tid \in Nat, ~Delivers(win, tid)
  PROVE  /\ Sound(Admit(win, tid))
         /\ Admit(win, tid).nextExpected = win.nextExpected
<1> DEFINE n == win.nextExpected
<1>1. n \in Nat /\ win.buffer \subseteq (n + 1)..(n + WindowSize - 1) /\ win \in RxWindows
  BY DEF Sound, RxWindows
<1>2. CASE Reorders(win, tid)
  <2>1. Admit(win, tid) = [win EXCEPT !.buffer = @ \cup {tid}]
    BY <1>2 DEF Admit
  <2>2. tid \in (n + 1)..(n + WindowSize - 1) /\ n # 0
    BY <1>1, <1>2, WindowSizeAssumption DEF Reorders
  <2>3. win.buffer \subseteq Nat
    BY <1>1 DEF RxWindows
  <2>4. /\ Admit(win, tid) \in RxWindows
        /\ Admit(win, tid).nextExpected = n
        /\ Admit(win, tid).buffer = win.buffer \cup {tid}
    BY <1>1, <2>1, <2>3 DEF RxWindows
  <2>. QED
    BY <1>1, <2>2, <2>4 DEF Sound
<1>3. CASE ~Reorders(win, tid)
  BY <1>3 DEF Admit
<1>. QED
  BY <1>2, <1>3

-------------------------------------------------------------------------------
(***************************************************************************)
(* What one frame sets free: the frame, then the buffer, in order.         *)
(***************************************************************************)
LEMMA BatchAscends ==
  ASSUME NEW win, Sound(win), NEW tid \in Nat, Delivers(win, tid)
  PROVE  /\ Batch(win, tid) \in Seq(Nat)
         /\ \A i \in DOMAIN Batch(win, tid) : Batch(win, tid)[i] \in {tid} \cup win.buffer
         /\ \A i, j \in DOMAIN Batch(win, tid) :
              i < j => Batch(win, tid)[i] < Batch(win, tid)[j]
<1> DEFINE n == win.nextExpected
           s == Ascending(win.buffer)
           batch == <<tid>> \o s
<1>1. /\ n \in Nat /\ win.buffer \subseteq (n + 1)..(n + WindowSize - 1)
      /\ n = 0 => win.buffer = {}
  BY DEF Sound, RxWindows
<1>2. n + WindowSize \in Nat /\ win.buffer \in SUBSET 0..(n + WindowSize)
  BY <1>1, WindowSizeAssumption
<1>3. /\ s \in Seq(win.buffer)
      /\ \A i, j \in DOMAIN s : i < j => s[i] < s[j]
  BY <1>2, AscendingEnumerates
<1>4. \A b \in win.buffer : b \in Nat /\ tid < b
  <2>1. CASE win.buffer = {}
    BY <2>1
  <2>2. CASE win.buffer # {}
    <3>1. tid = n
      BY <1>1, <2>2 DEF Delivers, Baselines, InSequence, FastForwards
    <3>. QED
      BY <1>1, <3>1, WindowSizeAssumption
  <2>. QED
    BY <2>1, <2>2
<1>5. Batch(win, tid) = batch
  BY DEF Batch
<1> HIDE DEF s
<1>6. s \in Seq(Nat) /\ Len(s) \in Nat /\ DOMAIN s = 1..Len(s)
  BY <1>3, <1>4
<1>7. \A i \in 1..Len(s) : s[i] \in win.buffer
  BY <1>3, <1>6
<1>8. /\ batch \in Seq(Nat) /\ DOMAIN batch = 1..(Len(s) + 1) /\ batch[1] = tid
      /\ \A i \in 2..(Len(s) + 1) : i - 1 \in 1..Len(s) /\ batch[i] = s[i - 1]
  BY <1>6
<1> HIDE DEF batch
<1>9. \A i \in DOMAIN batch : i = 1 \/ i \in 2..(Len(s) + 1)
  BY <1>6, <1>8
<1>10. \A i \in DOMAIN batch : batch[i] \in {tid} \cup win.buffer
  BY <1>7, <1>8, <1>9
<1>11. ASSUME NEW i \in DOMAIN batch, NEW j \in DOMAIN batch, i < j
       PROVE  batch[i] < batch[j]
  <2>1. i \in Nat /\ j \in Nat /\ j \in 2..(Len(s) + 1)
    BY <1>6, <1>8, <1>11
  <2>2. j - 1 \in 1..Len(s) /\ batch[j] = s[j - 1] /\ s[j - 1] \in win.buffer
    BY <1>7, <1>8, <2>1
  <2>3. CASE i = 1
    BY <1>4, <1>8, <2>2, <2>3
  <2>4. CASE i # 1
    <3>1. i - 1 \in 1..Len(s) /\ batch[i] = s[i - 1]
      BY <1>8, <1>9, <2>4
    <3>2. i - 1 < j - 1
      BY <1>11, <2>1
    <3>. QED
      BY <1>3, <1>6, <2>2, <3>1, <3>2
  <2>. QED
    BY <2>3, <2>4
<1>. QED
  BY <1>5, <1>8, <1>10, <1>11

-------------------------------------------------------------------------------
(***************************************************************************)
(* The invariant, step by step.                                            *)
(***************************************************************************)

\* A new or an unbaselined window is sound.
LEMMA EmptyWindowsSound == Sound(NewWindow) /\ Sound(Unbaselined)
BY DEF Sound, NewWindow, Unbaselined, RxWindows

\* What the invariant says of one window.
LEMMA WindowInvAt ==
  ASSUME WindowInv, NEW w \in Wins
  PROVE  /\ Sound(windows[w])
         /\ w \notin known => windows[w] = NewWindow
         /\ windows[w].nextExpected = 0 => accepted[w] = {}
         /\ \A a \in accepted[w] : a \in Nat /\ a < windows[w].nextExpected
         /\ w[1] \in fresh => accepted[w] = {}
BY DEF WindowInv, TypeOK, BufferInsideWindow, FrontierAboveAccepted, FreshIsUntouched, Sound

\* And what has to be shown of each window after a step.
LEMMA WindowInvFrom ==
  ASSUME stamped' \in [Wins -> Nat],
         windows' \in [Wins -> RxWindows],
         known' \subseteq Wins,
         fresh' \subseteq Publishers,
         accepted' \in [Wins -> SUBSET Nat],
         overtaken' \in [Wins -> SUBSET Nat],
         \A w \in Wins :
           /\ Sound(windows'[w])
           /\ w \notin known' => windows'[w] = NewWindow
           /\ windows'[w].nextExpected = 0 => accepted'[w] = {}
           /\ \A a \in accepted'[w] : a < windows'[w].nextExpected
           /\ w[1] \in fresh' => accepted'[w] = {}
  PROVE  WindowInv'
BY DEF WindowInv, TypeOK, BufferInsideWindow, FrontierAboveAccepted, FreshIsUntouched, Sound

\* A new stream keeps the invariant.
LEMMA NoteStep ==
  ASSUME WindowInv, NEW r \in Readers, noteReliableStreamEstablished(r)
  PROVE  WindowInv'
<1> DEFINE p == PublisherOf[r]
<1>1. p \in Publishers
  BY ReadersAssumption
<1>2. /\ stamped' = stamped /\ known' = known /\ fresh' = fresh \cup {p}
      /\ windows' = [w \in Wins |-> IF w \in WinsOf(p) \cap known THEN Unbaselined ELSE windows[w]]
      /\ accepted' = [w \in Wins |-> IF w \in WinsOf(p) THEN {} ELSE accepted[w]]
      /\ overtaken' = [w \in Wins |-> IF w \in WinsOf(p) THEN {} ELSE overtaken[w]]
  BY DEF noteReliableStreamEstablished, ResetWindows, Forget
<1> HIDE DEF p
<1>3. /\ stamped \in [Wins -> Nat] /\ windows \in [Wins -> RxWindows] /\ known \subseteq Wins
      /\ fresh \subseteq Publishers /\ accepted \in [Wins -> SUBSET Nat]
      /\ overtaken \in [Wins -> SUBSET Nat]
  BY DEF WindowInv, TypeOK
<1>4. Unbaselined \in RxWindows /\ Unbaselined.nextExpected = 0
  BY DEF Unbaselined, RxWindows
<1>5. ASSUME NEW w \in Wins
      PROVE  /\ Sound(windows'[w])
             /\ w \notin known' => windows'[w] = NewWindow
             /\ windows'[w].nextExpected = 0 => accepted'[w] = {}
             /\ \A a \in accepted'[w] : a < windows'[w].nextExpected
             /\ w[1] \in fresh' => accepted'[w] = {}
  <2>1. CASE w \in WinsOf(p) \cap known
    BY <1>2, <2>1, EmptyWindowsSound
  <2>2. CASE w \in WinsOf(p) /\ w \notin known
    BY <1>2, <2>2, WindowInvAt
  <2>3. CASE w \notin WinsOf(p)
    <3>1. w[1] # p
      BY <2>3 DEF Wins, WinsOf
    <3>. QED
      BY <1>2, <2>3, <3>1, WindowInvAt
  <2>. QED
    BY <2>1, <2>2, <2>3
<1>6. windows' \in [Wins -> RxWindows]
  BY <1>2, <1>3, <1>4
<1>7. accepted' \in [Wins -> SUBSET Nat] /\ overtaken' \in [Wins -> SUBSET Nat]
  BY <1>2, <1>3
<1>. QED
  BY <1>1, <1>2, <1>3, <1>5, <1>6, <1>7, WindowInvFrom

\* Pruning a publisher's windows keeps the invariant.
LEMMA PruneStep ==
  ASSUME WindowInv, NEW p \in Publishers, PruneWindows(p)
  PROVE  WindowInv'
<1>1. /\ stamped' = stamped /\ known' = known \ WinsOf(p) /\ fresh' = fresh
      /\ windows' = [w \in Wins |-> IF w \in WinsOf(p) THEN NewWindow ELSE windows[w]]
      /\ accepted' = [w \in Wins |-> IF w \in WinsOf(p) THEN {} ELSE accepted[w]]
      /\ overtaken' = [w \in Wins |-> IF w \in WinsOf(p) THEN {} ELSE overtaken[w]]
  BY DEF PruneWindows, Forget
<1>2. /\ stamped \in [Wins -> Nat] /\ windows \in [Wins -> RxWindows] /\ known \subseteq Wins
      /\ fresh \subseteq Publishers /\ accepted \in [Wins -> SUBSET Nat]
      /\ overtaken \in [Wins -> SUBSET Nat]
  BY DEF WindowInv, TypeOK
<1>3. NewWindow \in RxWindows
  BY DEF NewWindow, RxWindows
<1>4. ASSUME NEW w \in Wins
      PROVE  /\ Sound(windows'[w])
             /\ w \notin known' => windows'[w] = NewWindow
             /\ windows'[w].nextExpected = 0 => accepted'[w] = {}
             /\ \A a \in accepted'[w] : a < windows'[w].nextExpected
             /\ w[1] \in fresh' => accepted'[w] = {}
  <2>1. CASE w \in WinsOf(p)
    BY <1>1, <2>1, EmptyWindowsSound
  <2>2. CASE w \notin WinsOf(p)
    BY <1>1, <2>2, WindowInvAt
  <2>. QED
    BY <2>1, <2>2
<1>5. windows' \in [Wins -> RxWindows]
  BY <1>1, <1>2, <1>3
<1>6. accepted' \in [Wins -> SUBSET Nat] /\ overtaken' \in [Wins -> SUBSET Nat]
  BY <1>1, <1>2
<1>. QED
  BY <1>1, <1>2, <1>4, <1>5, <1>6, WindowInvFrom

(***************************************************************************)
(* The windows a frame meets, once the fresh marker has done its work.     *)
(***************************************************************************)
LEMMA BaseIsSound ==
  ASSUME WindowInv, NEW w \in Wins
  PROVE  LET base == ResetWindows(FreshScope(w))
         IN  /\ base \in [Wins -> RxWindows]
             /\ \A v \in Wins :
                  /\ Sound(base[v])
                  /\ v \notin known \cup {w} => base[v] = NewWindow
                  /\ base[v].nextExpected = 0 => accepted[v] = {}
                  /\ \A a \in accepted[v] : a \in Nat /\ a < base[v].nextExpected
<1> DEFINE S == FreshScope(w)
           base == ResetWindows(S)
<1>1. S \subseteq known \cup {w} /\ \A v \in S : v[1] \in fresh
  BY DEF FreshScope, WinsOf
<1> HIDE DEF S
<1>2. base = [v \in Wins |-> IF v \in S THEN Unbaselined ELSE windows[v]]
  BY DEF ResetWindows
<1>3. Unbaselined \in RxWindows /\ Unbaselined.nextExpected = 0
  BY DEF Unbaselined, RxWindows
<1>4. base \in [Wins -> RxWindows]
  BY <1>2, <1>3 DEF WindowInv, TypeOK
<1> HIDE DEF base
<1>5. ASSUME NEW v \in Wins
      PROVE  /\ Sound(base[v])
             /\ v \notin known \cup {w} => base[v] = NewWindow
             /\ base[v].nextExpected = 0 => accepted[v] = {}
             /\ \A a \in accepted[v] : a \in Nat /\ a < base[v].nextExpected
  <2>1. CASE v \in S
    <3>1. base[v] = Unbaselined /\ accepted[v] = {}
      BY <1>1, <1>2, <2>1, WindowInvAt
    <3>. QED
      BY <1>1, <2>1, <3>1, EmptyWindowsSound
  <2>2. CASE v \notin S
    BY <1>2, <2>2, WindowInvAt
  <2>. QED
    BY <2>1, <2>2
<1>. QED
  BY <1>4, <1>5 DEF base, S

\* What Receive does to the frame's window and to what was taken from it.
LEMMA ReceiveEffect ==
  ASSUME WindowInv, NEW r \in Readers, NEW w \in Wins, NEW tid \in 1..MaxTid,
         Receive(r, w, tid)
  PROVE  /\ WindowInv'
         /\ \A v \in Wins : \A a \in accepted[v], b \in accepted'[v] \ accepted[v] : a < b
<1> DEFINE base == ResetWindows(FreshScope(w))
<1>0. tid \in Nat
  BY MaxTidAssumption
<1>1. /\ fresh' = fresh \ {w[1]} /\ known' = known \cup {w} /\ stamped' = stamped
      /\ windows' = [base EXCEPT ![w] = Admit(base[w], tid)]
      /\ accepted' = [accepted EXCEPT ![w] =
                        IF Delivers(base[w], tid) THEN @ \cup {tid} \cup base[w].buffer ELSE @]
      /\ overtaken' = [overtaken EXCEPT ![w] =
                         IF tid < base[w].nextExpected THEN @ \cup ({tid} \ accepted[w]) ELSE @]
  BY DEF Receive
<1>2. /\ base \in [Wins -> RxWindows]
      /\ \A v \in Wins :
           /\ Sound(base[v])
           /\ v \notin known \cup {w} => base[v] = NewWindow
           /\ base[v].nextExpected = 0 => accepted[v] = {}
           /\ \A a \in accepted[v] : a \in Nat /\ a < base[v].nextExpected
  BY BaseIsSound
<1> HIDE DEF base
<1>3. /\ stamped \in [Wins -> Nat] /\ known \subseteq Wins
      /\ fresh \subseteq Publishers /\ accepted \in [Wins -> SUBSET Nat]
      /\ overtaken \in [Wins -> SUBSET Nat]
  BY DEF WindowInv, TypeOK
<1>4. Sound(base[w]) /\ base[w].buffer \in SUBSET Nat /\ base[w].nextExpected \in Nat
  BY <1>2 DEF RxWindows
<1>5. /\ windows'[w] = Admit(base[w], tid)
      /\ \A v \in Wins \ {w} : windows'[v] = base[v] /\ accepted'[v] = accepted[v]
  BY <1>1, <1>2, <1>3
<1>6. Admit(base[w], tid) \in RxWindows /\ Sound(Admit(base[w], tid))
  BY <1>0, <1>4, DeliveryIsSound, HoldingIsSound DEF Sound
<1>7. windows' \in [Wins -> RxWindows]
  BY <1>1, <1>2, <1>6
<1>8. accepted' \in [Wins -> SUBSET Nat] /\ overtaken' \in [Wins -> SUBSET Nat]
  BY <1>0, <1>1, <1>3, <1>4
<1>9. /\ windows'[w].nextExpected = 0 => accepted'[w] = {}
      /\ \A a \in accepted'[w] : a < windows'[w].nextExpected
      /\ \A a \in accepted[w], b \in accepted'[w] \ accepted[w] : a < b
  <2>1. CASE Delivers(base[w], tid)
    <3>1. accepted'[w] = accepted[w] \cup {tid} \cup base[w].buffer
      BY <1>1, <1>3, <2>1
    <3>2. /\ windows'[w].nextExpected # 0
          /\ windows'[w].nextExpected >= base[w].nextExpected
          /\ \A b \in {tid} \cup base[w].buffer : /\ b >= base[w].nextExpected
                                                /\ b < windows'[w].nextExpected
      BY <1>0, <1>4, <1>5, <2>1, DeliveryIsSound
    <3>3. windows'[w].nextExpected \in Nat
      BY <1>5, <1>6 DEF RxWindows
    <3>4. \A a \in accepted[w] : a \in Nat /\ a < base[w].nextExpected
      BY <1>2
    <3>5. \A a \in accepted[w] : a < windows'[w].nextExpected
      BY <1>4, <3>2, <3>3, <3>4
    <3>6. \A a \in accepted[w], b \in {tid} \cup base[w].buffer : a < b
      BY <1>0, <1>4, <3>2, <3>4
    <3>. QED
      BY <3>1, <3>2, <3>5, <3>6
  <2>2. CASE ~Delivers(base[w], tid)
    <3>1. accepted'[w] = accepted[w]
      BY <1>1, <1>3, <2>2
    <3>2. windows'[w].nextExpected = base[w].nextExpected
      BY <1>0, <1>4, <1>5, <2>2, HoldingIsSound
    <3>. QED
      BY <1>2, <3>1, <3>2
  <2>. QED
    BY <2>1, <2>2
<1>10. ASSUME NEW v \in Wins
       PROVE  /\ Sound(windows'[v])
              /\ v \notin known' => windows'[v] = NewWindow
              /\ windows'[v].nextExpected = 0 => accepted'[v] = {}
              /\ \A a \in accepted'[v] : a < windows'[v].nextExpected
              /\ v[1] \in fresh' => accepted'[v] = {}
  <2>1. CASE v = w
    BY <1>1, <1>5, <1>6, <1>9, <2>1
  <2>2. CASE v # w
    BY <1>1, <1>2, <1>5, <2>2, WindowInvAt
  <2>. QED
    BY <2>1, <2>2
<1>11. WindowInv'
  BY <1>1, <1>3, <1>7, <1>8, <1>10, WindowInvFrom
<1>12. \A v \in Wins : \A a \in accepted[v], b \in accepted'[v] \ accepted[v] : a < b
  BY <1>5, <1>9
<1>. QED
  BY <1>11, <1>12

-------------------------------------------------------------------------------
(***************************************************************************)
(* What the callbacks see, where each publisher has one reader.            *)
(***************************************************************************)
OneReaderEach == \A r, q \in Readers : PublisherOf[r] = PublisherOf[q] => r = q

\* An entry that waits to be handed out is a frame of a window.
LEMMA PendingEntry ==
  ASSUME DispatchInv, NEW r \in Readers, NEW i \in DOMAIN pending[r]
  PROVE  /\ pending[r] \in Seq(Wins \X Nat)
         /\ pending[r][i] \in Wins \X Nat
         /\ pending[r][i][1] \in Wins /\ pending[r][i][2] \in Nat
<1> DEFINE Entry == Wins \X Nat
<1> HIDE DEF Entry
<1>1. pending[r] \in Seq(Entry)
  BY DEF DispatchInv, PendingOfReader, Entry
<1>2. pending[r][i] \in Entry
  BY <1>1
<1>. QED
  BY <1>1, <1>2 DEF Entry

\* A reset forgets on both sides.
LEMMA ForgetKeepsDispatch ==
  ASSUME DispatchInv, NEW W, Forget(W), pending' = pending
  PROVE  DispatchInv'
<1>1. /\ accepted' = [w \in Wins |-> IF w \in W THEN {} ELSE accepted[w]]
      /\ handed' = [w \in Wins |-> IF w \in W THEN <<>> ELSE handed[w]]
  BY DEF Forget
<1>2. \A w \in Wins : \/ w \in W /\ accepted'[w] = {} /\ handed'[w] = <<>>
                      \/ w \notin W /\ accepted'[w] = accepted[w] /\ handed'[w] = handed[w]
  BY <1>1
<1>3. PendingOfReader' /\ PendingAscends'
  BY DEF DispatchInv, PendingOfReader, PendingAscends
<1>4. PendingAboveHanded'
  <2> SUFFICES ASSUME NEW r \in Readers, NEW i \in DOMAIN pending[r],
                      pending[r][i][2] \in accepted'[pending[r][i][1]],
                      NEW k \in DOMAIN handed'[pending[r][i][1]]
               PROVE  handed'[pending[r][i][1]][k] < pending[r][i][2]
    BY DEF PendingAboveHanded
  <2>1. pending[r][i][1] \in Wins
    BY PendingEntry
  <2>. QED
    BY <1>2, <2>1 DEF DispatchInv, PendingAboveHanded
<1>5. HandedWasAccepted'
  <2>1. handed \in [Wins -> Seq(Nat)]
    BY DEF DispatchInv, HandedWasAccepted
  <2>2. handed' \in [Wins -> Seq(Nat)]
    BY <1>1, <2>1
  <2>3. ASSUME NEW w \in Wins, NEW i \in DOMAIN handed'[w] PROVE handed'[w][i] \in accepted'[w]
    <3>1. CASE w \in W
      BY <1>2, <2>3, <3>1
    <3>2. CASE w \notin W
      BY <1>2, <2>3, <3>2 DEF DispatchInv, HandedWasAccepted
    <3>. QED
      BY <3>1, <3>2
  <2>. QED
    BY <2>2, <2>3 DEF HandedWasAccepted
<1>6. CallbacksInOrder'
  <2> SUFFICES ASSUME NEW w \in Wins, NEW i \in DOMAIN handed'[w], NEW j \in DOMAIN handed'[w], i < j
               PROVE  handed'[w][i] < handed'[w][j]
    BY DEF CallbacksInOrder
  <2>1. CASE w \in W
    BY <1>2, <2>1
  <2>2. CASE w \notin W
    BY <1>2, <2>2 DEF DispatchInv, CallbacksInOrder
  <2>. QED
    BY <2>1, <2>2
<1>. QED
  BY <1>3, <1>4, <1>5, <1>6 DEF DispatchInv

\* A frame is taken by the only reader of its publisher, which has handed out
\* everything that it took before.
LEMMA ReceiveKeepsDispatch ==
  ASSUME WindowInv, DispatchInv, OneReaderEach,
         NEW r \in Readers, NEW w \in Wins, NEW tid \in 1..MaxTid, Receive(r, w, tid)
  PROVE  DispatchInv'
<1> DEFINE base == ResetWindows(FreshScope(w))
           batch == Batch(base[w], tid)
<1>0. tid \in Nat
  BY MaxTidAssumption
<1>1. /\ handed' = handed /\ w[1] = PublisherOf[r] /\ pending[r] = <<>>
      /\ pending' = [pending EXCEPT ![r] = Entries(w, batch)]
      /\ accepted' = [accepted EXCEPT ![w] =
                        IF Delivers(base[w], tid) THEN @ \cup {tid} \cup base[w].buffer ELSE @]
  BY DEF Receive
<1>2. /\ Sound(base[w])
      /\ \A a \in accepted[w] : a \in Nat /\ a < base[w].nextExpected
  BY BaseIsSound
<1>3. accepted \in [Wins -> SUBSET Nat]
  BY DEF WindowInv, TypeOK
<1>4. pending \in [Readers -> Seq(Wins \X Nat)] /\ handed \in [Wins -> Seq(Nat)]
  BY DEF DispatchInv, PendingOfReader, HandedWasAccepted
<1>5. /\ batch \in Seq(Nat)
      /\ \A i \in DOMAIN batch : \A a \in accepted[w] : a < batch[i]
      /\ \A i, j \in DOMAIN batch : i < j => batch[i] < batch[j]
  <2>1. CASE Delivers(base[w], tid)
    <3>1. \A b \in {tid} \cup base[w].buffer : b \in Nat /\ b >= base[w].nextExpected
      BY <1>0, <1>2, <2>1, DeliveryIsSound DEF Sound, RxWindows
    <3>2. base[w].nextExpected \in Nat
      BY <1>2 DEF Sound, RxWindows
    <3>3. \A b \in {tid} \cup base[w].buffer : \A a \in accepted[w] : a < b
      BY <1>2, <3>1, <3>2
    <3>4. \A i \in DOMAIN batch : batch[i] \in {tid} \cup base[w].buffer
      BY <1>0, <1>2, <2>1, BatchAscends
    <3>5. \A i \in DOMAIN batch : \A a \in accepted[w] : a < batch[i]
      BY <3>3, <3>4
    <3>. QED
      BY <1>0, <1>2, <2>1, <3>5, BatchAscends
  <2>2. CASE ~Delivers(base[w], tid)
    <3>1. batch = <<>>
      BY <2>2 DEF Batch
    <3>. QED
      BY <3>1
  <2>. QED
    BY <2>1, <2>2
<1>6. accepted[w] \subseteq accepted'[w] /\ \A v \in Wins \ {w} : accepted'[v] = accepted[v]
  BY <1>1, <1>3
<1> HIDE DEF batch, base
<1> DEFINE new == Entries(w, batch)
<1>7. /\ new \in Seq(Wins \X Nat) /\ DOMAIN new = DOMAIN batch
      /\ \A i \in DOMAIN batch : new[i][1] = w /\ new[i][2] = batch[i]
  BY <1>5 DEF Entries
<1> HIDE DEF new
<1>8. pending'[r] = new /\ \A q \in Readers \ {r} : pending'[q] = pending[q]
  BY <1>1, <1>4 DEF new
<1>9. \A q \in Readers \ {r} : \A i \in DOMAIN pending[q] :
        pending[q][i][1] \in Wins /\ pending[q][i][1] # w
  <2>1. ASSUME NEW q \in Readers \ {r}, NEW i \in DOMAIN pending[q]
        PROVE  pending[q][i][1] \in Wins /\ pending[q][i][1] # w
    <3>1. pending[q][i][1][1] = PublisherOf[q]
      BY DEF DispatchInv, PendingOfReader
    <3>. QED
      BY <1>1, <3>1, PendingEntry DEF OneReaderEach
  <2>. QED
    BY <2>1
<1>10. PendingOfReader'
  <2>1. pending' \in [Readers -> Seq(Wins \X Nat)]
    BY <1>1, <1>4, <1>7 DEF new
  <2>2. ASSUME NEW q \in Readers, NEW i \in DOMAIN pending'[q]
        PROVE  pending'[q][i][1][1] = PublisherOf[q]
    <3>1. CASE q = r
      BY <1>1, <1>7, <1>8, <2>2, <3>1
    <3>2. CASE q # r
      BY <1>8, <2>2, <3>2 DEF DispatchInv, PendingOfReader
    <3>. QED
      BY <3>1, <3>2
  <2>. QED
    BY <2>1, <2>2 DEF PendingOfReader
<1>11. PendingAscends'
  <2> SUFFICES ASSUME NEW q \in Readers, NEW i \in DOMAIN pending'[q],
                      NEW j \in DOMAIN pending'[q], i < j
               PROVE  /\ pending'[q][i][1] = pending'[q][j][1]
                      /\ pending'[q][i][2] < pending'[q][j][2]
    BY DEF PendingAscends
  <2>1. CASE q = r
    BY <1>5, <1>7, <1>8, <2>1
  <2>2. CASE q # r
    BY <1>8, <2>2 DEF DispatchInv, PendingAscends
  <2>. QED
    BY <2>1, <2>2
<1>12. PendingAboveHanded'
  <2> SUFFICES ASSUME NEW q \in Readers, NEW i \in DOMAIN pending'[q],
                      pending'[q][i][2] \in accepted'[pending'[q][i][1]],
                      NEW k \in DOMAIN handed[pending'[q][i][1]]
               PROVE  handed[pending'[q][i][1]][k] < pending'[q][i][2]
    BY <1>1 DEF PendingAboveHanded
  <2>1. CASE q = r
    <3>1. pending'[q][i][1] = w /\ pending'[q][i][2] = batch[i] /\ i \in DOMAIN batch
      BY <1>7, <1>8, <2>1
    <3>2. handed[w][k] \in accepted[w]
      BY <3>1 DEF DispatchInv, HandedWasAccepted
    <3>. QED
      BY <1>5, <3>1, <3>2
  <2>2. CASE q # r
    <3>1. pending'[q] = pending[q] /\ accepted'[pending[q][i][1]] = accepted[pending[q][i][1]]
      BY <1>6, <1>8, <1>9, <2>2
    <3>. QED
      BY <3>1 DEF DispatchInv, PendingAboveHanded
  <2>. QED
    BY <2>1, <2>2
<1>13. HandedWasAccepted'
  <2>1. \A v \in Wins : accepted[v] \subseteq accepted'[v]
    BY <1>6
  <2>. QED
    BY <1>1, <2>1 DEF DispatchInv, HandedWasAccepted
<1>14. CallbacksInOrder'
  BY <1>1 DEF DispatchInv, CallbacksInOrder
<1>. QED
  BY <1>10, <1>11, <1>12, <1>13, <1>14 DEF DispatchInv

\* The next frame of a batch is newer than what its window handed out, and
\* older than the rest of the batch.
LEMMA DispatchKeepsDispatch ==
  ASSUME DispatchInv, OneReaderEach, NEW r \in Readers, Dispatch(r)
  PROVE  DispatchInv'
<1> DEFINE w == pending[r][1][1]
           tid == pending[r][1][2]
           Entry == Wins \X Nat
<1>1. /\ pending[r] # <<>> /\ accepted' = accepted
      /\ handed' = [handed EXCEPT ![w] = IF tid \in accepted[w] THEN Append(@, tid) ELSE @]
      /\ pending' = [pending EXCEPT ![r] = Tail(@)]
  BY DEF Dispatch
<1>2. pending \in [Readers -> Seq(Entry)] /\ handed \in [Wins -> Seq(Nat)]
  BY DEF DispatchInv, PendingOfReader, HandedWasAccepted
<1> HIDE DEF Entry
<1>3. /\ 1 \in DOMAIN pending[r]
      /\ pending'[r] \in Seq(Entry)
      /\ \A i \in DOMAIN pending'[r] : i + 1 \in DOMAIN pending[r] /\ pending'[r][i] = pending[r][i + 1]
                                       /\ i \in Nat /\ i + 1 > 1
  BY <1>1, <1>2
<1>4. w \in Wins /\ tid \in Nat /\ w[1] = PublisherOf[r]
  BY <1>3, PendingEntry DEF DispatchInv, PendingOfReader
<1>5. /\ \A q \in Readers \ {r} : pending'[q] = pending[q]
      /\ \A v \in Wins \ {w} : handed'[v] = handed[v]
      /\ handed'[w] = IF tid \in accepted[w] THEN Append(handed[w], tid) ELSE handed[w]
  BY <1>1, <1>2, <1>4
<1>6. \A i \in DOMAIN pending'[r] : pending'[r][i][1] = w /\ pending'[r][i][2] > tid
  BY <1>3 DEF DispatchInv, PendingAscends
<1>7. tid \in accepted[w] => \A k \in DOMAIN handed[w] : handed[w][k] < tid
  BY <1>3 DEF DispatchInv, PendingAboveHanded
<1> HIDE DEF w, tid
<1>8. handed[w] \in Seq(Nat)
  BY <1>2, <1>4
<1>9. \A k \in DOMAIN handed'[w] : \/ k \in DOMAIN handed[w] /\ handed'[w][k] = handed[w][k]
                                   \/ /\ tid \in accepted[w] /\ k = Len(handed[w]) + 1
                                      /\ handed'[w][k] = tid
  BY <1>4, <1>5, <1>8
<1>10. \A q \in Readers \ {r} : \A i \in DOMAIN pending[q] :
         pending[q][i][1] \in Wins /\ pending[q][i][1] # w
  <2>1. ASSUME NEW q \in Readers \ {r}, NEW i \in DOMAIN pending[q]
        PROVE  pending[q][i][1] \in Wins /\ pending[q][i][1] # w
    <3>1. pending[q][i][1][1] = PublisherOf[q]
      BY DEF DispatchInv, PendingOfReader
    <3>. QED
      BY <1>4, <3>1, PendingEntry DEF OneReaderEach
  <2>. QED
    BY <2>1
<1>11. PendingOfReader'
  <2>1. pending' \in [Readers -> Seq(Entry)]
    BY <1>1, <1>2, <1>3
  <2>2. ASSUME NEW q \in Readers, NEW i \in DOMAIN pending'[q]
        PROVE  pending'[q][i][1][1] = PublisherOf[q]
    <3>1. CASE q = r
      BY <1>4, <1>6, <3>1
    <3>2. CASE q # r
      BY <1>5, <3>2 DEF DispatchInv, PendingOfReader
    <3>. QED
      BY <3>1, <3>2
  <2>. QED
    BY <2>1, <2>2 DEF PendingOfReader, Entry
<1>12. PendingAscends'
  <2> SUFFICES ASSUME NEW q \in Readers, NEW i \in DOMAIN pending'[q],
                      NEW j \in DOMAIN pending'[q], i < j
               PROVE  /\ pending'[q][i][1] = pending'[q][j][1]
                      /\ pending'[q][i][2] < pending'[q][j][2]
    BY DEF PendingAscends
  <2>1. CASE q = r
    <3>1. i + 1 < j + 1
      BY <1>3, <2>1
    <3>. QED
      BY <1>3, <2>1, <3>1 DEF DispatchInv, PendingAscends
  <2>2. CASE q # r
    BY <1>5, <2>2 DEF DispatchInv, PendingAscends
  <2>. QED
    BY <2>1, <2>2
<1>13. PendingAboveHanded'
  <2> SUFFICES ASSUME NEW q \in Readers, NEW i \in DOMAIN pending'[q],
                      pending'[q][i][2] \in accepted[pending'[q][i][1]],
                      NEW k \in DOMAIN handed'[pending'[q][i][1]]
               PROVE  handed'[pending'[q][i][1]][k] < pending'[q][i][2]
    BY <1>1 DEF PendingAboveHanded
  <2>1. CASE q = r
    <3>1. pending'[r][i][1] = w /\ pending'[r][i][2] > tid /\ k \in DOMAIN handed'[w]
      BY <1>6, <2>1
    <3>2. CASE handed'[w][k] = tid
      BY <1>4, <2>1, <3>1, <3>2
    <3>3. CASE k \in DOMAIN handed[w] /\ handed'[w][k] = handed[w][k]
      BY <1>3, <2>1, <3>1, <3>3 DEF DispatchInv, PendingAboveHanded
    <3>. QED
      BY <1>9, <3>1, <3>2, <3>3
  <2>2. CASE q # r
    <3>1. pending'[q] = pending[q] /\ handed'[pending[q][i][1]] = handed[pending[q][i][1]]
      BY <1>5, <1>10, <2>2
    <3>. QED
      BY <2>2, <3>1 DEF DispatchInv, PendingAboveHanded
  <2>. QED
    BY <2>1, <2>2
<1>14. HandedWasAccepted'
  <2>1. handed' \in [Wins -> Seq(Nat)]
    <3>1. (IF tid \in accepted[w] THEN Append(handed[w], tid) ELSE handed[w]) \in Seq(Nat)
      BY <1>4, <1>8
    <3>. QED
      BY <1>1, <1>2, <3>1 DEF w, tid
  <2>2. ASSUME NEW v \in Wins, NEW k \in DOMAIN handed'[v] PROVE handed'[v][k] \in accepted[v]
    <3>1. CASE v = w
      BY <1>9, <2>2, <3>1 DEF DispatchInv, HandedWasAccepted
    <3>2. CASE v # w
      BY <1>5, <2>2, <3>2 DEF DispatchInv, HandedWasAccepted
    <3>. QED
      BY <3>1, <3>2
  <2>. QED
    BY <1>1, <2>1, <2>2 DEF HandedWasAccepted
<1>15. CallbacksInOrder'
  <2> SUFFICES ASSUME NEW v \in Wins, NEW i \in DOMAIN handed'[v], NEW j \in DOMAIN handed'[v], i < j
               PROVE  handed'[v][i] < handed'[v][j]
    BY DEF CallbacksInOrder
  <2>1. CASE v = w
    <3>1. CASE j \in DOMAIN handed[w] /\ handed'[w][j] = handed[w][j]
      <4>1. i # Len(handed[w]) + 1
        BY <1>8, <3>1
      <4>2. i \in DOMAIN handed[w] /\ handed'[w][i] = handed[w][i]
        BY <1>9, <2>1, <4>1
      <4>. QED
        BY <2>1, <3>1, <4>2, <1>4 DEF DispatchInv, CallbacksInOrder
    <3>2. CASE tid \in accepted[w] /\ j = Len(handed[w]) + 1 /\ handed'[w][j] = tid
      <4>1. i # j
        BY <1>8, <3>2
      <4>2. i \in DOMAIN handed[w] /\ handed'[w][i] = handed[w][i]
        BY <1>9, <2>1, <3>2, <4>1
      <4>. QED
        BY <1>7, <2>1, <3>2, <4>2
    <3>. QED
      BY <1>9, <2>1, <3>1, <3>2
  <2>2. CASE v # w
    BY <1>5, <2>2 DEF DispatchInv, CallbacksInOrder
  <2>. QED
    BY <2>1, <2>2
<1>. QED
  BY <1>11, <1>12, <1>13, <1>14, <1>15 DEF DispatchInv

\* Nothing waits and nothing was handed out at first.
LEMMA DispatchInvInit == Init => DispatchInv
<1> SUFFICES ASSUME Init PROVE DispatchInv
  OBVIOUS
<1>1. /\ pending = [r \in Readers |-> <<>>] /\ handed = [w \in Wins |-> <<>>]
  BY DEF Init
<1>2. /\ \A r \in Readers : pending[r] = <<>> /\ DOMAIN pending[r] = {}
      /\ \A w \in Wins : handed[w] = <<>> /\ DOMAIN handed[w] = {}
      /\ pending \in [Readers -> Seq(Wins \X Nat)] /\ handed \in [Wins -> Seq(Nat)]
  BY <1>1
<1>. QED
  BY <1>2 DEF DispatchInv, PendingOfReader, PendingAscends, PendingAboveHanded,
              HandedWasAccepted, CallbacksInOrder

\* Every step keeps the order of what was and will be handed out.
LEMMA DispatchInvStep ==
  ASSUME WindowInv, DispatchInv, OneReaderEach, [Next]_vars
  PROVE  DispatchInv'
<1>1. ASSUME UNCHANGED <<pending, accepted, handed>> PROVE DispatchInv'
  BY <1>1 DEF DispatchInv, PendingOfReader, PendingAscends, PendingAboveHanded,
              HandedWasAccepted, CallbacksInOrder
<1>2. ASSUME NEW w \in Wins, Stamp(w) PROVE DispatchInv'
  BY <1>1, <1>2 DEF Stamp
<1>3. ASSUME NEW r \in Readers, noteReliableStreamEstablished(r) PROVE DispatchInv'
  BY <1>3, ForgetKeepsDispatch DEF noteReliableStreamEstablished
<1>4. ASSUME NEW p \in Publishers, PruneWindows(p) PROVE DispatchInv'
  BY <1>4, ForgetKeepsDispatch DEF PruneWindows
<1>5. CASE UNCHANGED vars
  BY <1>1, <1>5 DEF vars
<1>. QED
  BY <1>2, <1>3, <1>4, <1>5, ReceiveKeepsDispatch, DispatchKeepsDispatch DEF Next

-------------------------------------------------------------------------------
(***************************************************************************)
(* The theorems.                                                           *)
(***************************************************************************)

\* A node that has received nothing satisfies the invariant.
LEMMA WindowInvInit == Init => WindowInv
<1> SUFFICES ASSUME Init PROVE WindowInv
  OBVIOUS
<1>1. NewWindow \in RxWindows /\ NewWindow.nextExpected = 1 /\ NewWindow.buffer = {}
  BY DEF NewWindow, RxWindows
<1>2. /\ windows \in [Wins -> RxWindows] /\ \A w \in Wins : windows[w] = NewWindow
      /\ accepted \in [Wins -> SUBSET Nat] /\ \A w \in Wins : accepted[w] = {}
      /\ overtaken \in [Wins -> SUBSET Nat] /\ stamped \in [Wins -> Nat]
      /\ known = {} /\ fresh = {}
  BY <1>1 DEF Init
<1>. QED
  BY <1>1, <1>2 DEF WindowInv, TypeOK, BufferInsideWindow, FrontierAboveAccepted, FreshIsUntouched

\* Every step keeps the invariant and takes only frames newer than those taken.
LEMMA WindowInvStep ==
  WindowInv /\ [Next]_vars =>
    /\ WindowInv'
    /\ \A w \in Wins : \A a \in accepted[w], b \in accepted'[w] \ accepted[w] : a < b
<1> SUFFICES ASSUME WindowInv, [Next]_vars
             PROVE  /\ WindowInv'
                    /\ \A w \in Wins : \A a \in accepted[w], b \in accepted'[w] \ accepted[w] : a < b
  OBVIOUS
<1>1. ASSUME NEW w \in Wins, Stamp(w)
      PROVE  WindowInv' /\ accepted' = accepted
  <2>1. stamped' \in [Wins -> Nat]
    BY <1>1 DEF Stamp, WindowInv, TypeOK
  <2>2. UNCHANGED <<windows, known, fresh, accepted, overtaken>>
    BY <1>1 DEF Stamp, winVars
  <2>. QED
    BY <2>1, <2>2 DEF WindowInv, TypeOK, BufferInsideWindow, FrontierAboveAccepted, FreshIsUntouched
<1>2. ASSUME NEW r \in Readers, noteReliableStreamEstablished(r)
      PROVE  WindowInv' /\ \A w \in Wins : accepted'[w] \subseteq accepted[w]
  BY <1>2, NoteStep DEF noteReliableStreamEstablished, Forget
<1>3. ASSUME NEW r \in Readers, Dispatch(r)
      PROVE  WindowInv' /\ accepted' = accepted
  BY <1>3 DEF Dispatch, winVars, WindowInv, TypeOK, BufferInsideWindow,
              FrontierAboveAccepted, FreshIsUntouched
<1>4. ASSUME NEW p \in Publishers, PruneWindows(p)
      PROVE  WindowInv' /\ \A w \in Wins : accepted'[w] \subseteq accepted[w]
  BY <1>4, PruneStep DEF PruneWindows, Forget
<1>5. CASE UNCHANGED vars
  BY <1>5 DEF vars, WindowInv, TypeOK, BufferInsideWindow, FrontierAboveAccepted, FreshIsUntouched
<1>. QED
  BY <1>1, <1>2, <1>3, <1>4, <1>5, ReceiveEffect DEF Next

\* The invariant holds in every reachable state.
THEOREM WindowInvHolds == Spec => []WindowInv
BY WindowInvInit, WindowInvStep, PTL DEF Spec

\* For every window size and any arrivals: the reorder buffer stays inside the
\* window behind nextExpected, so it never fills and never holds an old frame.
THEOREM BufferBounded == Spec => []BufferInsideWindow
<1>1. WindowInv => BufferInsideWindow
  BY DEF WindowInv
<1>. QED
  BY <1>1, WindowInvHolds, PTL

\* For every window size and any arrivals: everything taken lies below
\* nextExpected, so a duplicate of it is recognised and dropped.
THEOREM FrontierHolds == Spec => []FrontierAboveAccepted
<1>1. WindowInv => FrontierAboveAccepted
  BY DEF WindowInv
<1>. QED
  BY <1>1, WindowInvHolds, PTL

\* For every window size and any arrivals, with any number of reader threads:
\* between two resets the windows take each tid at most once, in ascending order.
THEOREM TakenOnceInOrder == Spec => TakesOnlyNewer
<1>1. WindowInv /\ [Next]_vars =>
        [\A w \in Wins : \A a \in accepted[w], b \in accepted'[w] \ accepted[w] : a < b]_vars
  BY WindowInvStep
<1>. QED
  BY <1>1, WindowInvHolds, PTL DEF Spec, TakesOnlyNewer

\* For every window size, any arrivals and any number of publishers, each read
\* by one thread: although frames are handed out after the lock is released,
\* the callbacks of a topic see strictly ascending tids between two resets.
THEOREM CallbacksSeeOrder ==
  ASSUME OneReaderEach
  PROVE  Spec => []CallbacksInOrder
<1>1. WindowInv /\ DispatchInv /\ [Next]_vars => DispatchInv'
  BY OneReaderEach, DispatchInvStep
<1>2. DispatchInv => CallbacksInOrder
  BY DEF DispatchInv
<1>. QED
  BY <1>1, <1>2, DispatchInvInit, WindowInvHolds, PTL DEF Spec

\* For every window size and any number of reader threads: the first frame
\* after a new stream is taken, whatever its tid.
THEOREM FreshIsTaken == Spec => FreshFrameIsTaken
<1> DEFINE Taken == \A w \in Wins :
             w[1] \in fresh \ fresh' => \E v \in WinsOf(w[1]) : accepted[v] = {} /\ accepted'[v] # {}
<1>1. WindowInv /\ [Next]_vars => [Taken]_vars
  <2> SUFFICES ASSUME WindowInv, Next, NEW w \in Wins, w[1] \in fresh, w[1] \notin fresh'
               PROVE  \E v \in WinsOf(w[1]) : accepted[v] = {} /\ accepted'[v] # {}
    OBVIOUS
  <2>1. PICK r \in Readers, v \in Wins, tid \in 1..MaxTid : Receive(r, v, tid)
    <3>1. \A u \in Wins : ~Stamp(u)
      BY DEF Stamp, winVars
    <3>2. \A r \in Readers : ~noteReliableStreamEstablished(r) /\ ~Dispatch(r)
      BY DEF noteReliableStreamEstablished, Dispatch, winVars
    <3>3. \A p \in Publishers : ~PruneWindows(p)
      BY DEF PruneWindows
    <3>. QED
      BY <3>1, <3>2, <3>3 DEF Next
  <2> DEFINE base == ResetWindows(FreshScope(v))
  <2>2. /\ fresh' = fresh \ {v[1]}
        /\ accepted' = [accepted EXCEPT ![v] =
                          IF Delivers(base[v], tid) THEN @ \cup {tid} \cup base[v].buffer ELSE @]
    BY <2>1 DEF Receive
  <2>3. w[1] = v[1] /\ v \in WinsOf(w[1]) /\ v[1] \in fresh
    BY <2>2 DEF Wins, WinsOf
  <2>4. accepted[v] = {} /\ accepted \in [Wins -> SUBSET Nat]
    BY <2>3 DEF WindowInv, FreshIsUntouched, TypeOK
  <2>5. base[v] = Unbaselined
    BY <2>3 DEF ResetWindows, FreshScope
  <2>6. Delivers(base[v], tid)
    BY <2>5 DEF Delivers, Baselines, Unbaselined
  <2> HIDE DEF base
  <2>7. tid \in accepted'[v]
    BY <2>2, <2>4, <2>6
  <2>. QED
    BY <2>3, <2>4, <2>7
<1>. QED
  BY <1>1, WindowInvHolds, PTL DEF Spec, FreshFrameIsTaken

===============================================================================
