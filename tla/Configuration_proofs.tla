------------------------- MODULE Configuration_proofs -------------------------
(***************************************************************************)
(* Proofs about Configuration, for every width of the machine's words,     *)
(* every limit and default, and every file.                                *)
(***************************************************************************)
EXTENDS Configuration, FiniteSetTheorems, WellFoundedInduction, TLAPS

\* The configuration is made of the file, once and for all.
LEMMA ReadFromFileHolds == Spec => []ReadFromFile
<1>1. Init => ReadFromFile
  BY DEF Init, ReadFromFile
<1>2. ReadFromFile /\ [Next]_vars => ReadFromFile'
  BY DEF ReadFromFile, Next, vars, loadConfig, RefreshEndpoints
<1>. QED
  BY <1>1, <1>2, PTL DEF Spec

-------------------------------------------------------------------------------
(***************************************************************************)
(* The outbox.                                                             *)
(***************************************************************************)

\* A text that is a number, and one of a mark.
LEMMA NumberTyped ==
  ASSUME NEW f, Typed(f), NEW key \in DOMAIN Defaults, IsScalar(f, key),
         key # "multicast_ip", key \notin Marks
  PROVE  f[key].value \in Int
BY DEF Typed

LEMMA MarkTyped ==
  ASSUME NEW f, Typed(f), NEW key \in DOMAIN Defaults, IsScalar(f, key), key \in Marks
  PROVE  f[key].value \in [strict : BOOLEAN, mark : Int] /\ f[key].value.mark \in Int
<1>1. f[key].value \in [strict : BOOLEAN, mark : Int]
  BY DEF Typed, Marks
<1>. QED
  BY <1>1

\* The trio that is used, however the keys are missing, invalid or crossed.
LEMMA TrioInOrder ==
  ASSUME NEW f, Typed(f)
  PROVE  /\ OutboxValue(f, "reliable_outbox_lwm") \in Int
         /\ OutboxValue(f, "reliable_outbox_hwm") \in Int
         /\ OutboxValue(f, "reliable_outbox_max_frames") \in Nat \ {0}
         /\ 0 < OutboxValue(f, "reliable_outbox_lwm")
         /\ OutboxValue(f, "reliable_outbox_lwm") < OutboxValue(f, "reliable_outbox_hwm")
         /\ OutboxValue(f, "reliable_outbox_hwm") < One
<1> DEFINE lwm == "reliable_outbox_lwm"
           hwm == "reliable_outbox_hwm"
           frames == "reliable_outbox_max_frames"
<1>1. /\ Defaults[lwm] \in Int /\ Defaults[hwm] \in Int /\ Defaults[frames] \in Nat \ {0}
      /\ 0 < Defaults[lwm] /\ Defaults[lwm] < Defaults[hwm] /\ Defaults[hwm] < One
      /\ One \in Int
  BY DefaultsAssumption DEF Outbox
<1>2. ASSUME NEW key \in Marks, Valid(f, key)
      PROVE  /\ Value(f, key) \in Int /\ 0 < Value(f, key) /\ Value(f, key) < One
  <2>0. key \in DOMAIN Defaults /\ IsScalar(f, key)
    BY <1>2, DefaultsAssumption DEF Valid, Outbox, Marks
  <2>1. f[key].value.mark \in Int
    BY <1>2, <2>0, MarkTyped
  <2>2. Parsed(key, f[key].value) = parseWaterMark(f[key].value, 0, One, Sentinel(key))
    BY <1>2 DEF Parsed, Ports, Durations, Marks
  <2>3. /\ Parsed(key, f[key].value) = f[key].value.mark
        /\ 0 < f[key].value.mark /\ f[key].value.mark < One
    BY <1>2, <2>1, <2>2 DEF Valid, parseWaterMark
  <2>. QED
    BY <1>2, <2>1, <2>3 DEF Value
<1>3. ASSUME Valid(f, frames) PROVE Value(f, frames) \in Nat \ {0}
  <2>1. f[frames].value \in Int
    <3>1. frames \in DOMAIN Defaults /\ IsScalar(f, frames)
      BY <1>3, DefaultsAssumption DEF Valid, Outbox
    <3>. QED
      BY <3>1, NumberTyped DEF Marks
  <2>2. Parsed(frames, f[frames].value) = parseOutboxMaxFrames(f[frames].value, 0)
    BY DEF Parsed, Sentinel, Ports, Durations, Marks
  <2>3. Parsed(frames, f[frames].value) \in Nat \ {0}
    BY <1>3, <2>1, <2>2 DEF Valid, parseOutboxMaxFrames, Decimal, Sentinel, Marks
  <2>. QED
    BY <1>3, <2>3 DEF Value
<1>4. \A key \in Outbox : ~Valid(f, key) => Value(f, key) = Defaults[key]
  BY DEF Value
<1>5. /\ Value(f, lwm) \in Int /\ Value(f, hwm) \in Int /\ Value(f, frames) \in Nat \ {0}
      /\ 0 < Value(f, lwm) /\ Value(f, hwm) < One
  BY <1>1, <1>2, <1>3, <1>4 DEF Outbox, Marks
<1>6. CASE OutboxCoherent(f)
  BY <1>5, <1>6 DEF OutboxValue, OutboxCoherent
<1>7. CASE ~OutboxCoherent(f)
  BY <1>1, <1>7 DEF OutboxValue
<1>. QED
  BY <1>6, <1>7

\* A fraction of a number of frames is a number of frames.
LEMMA FractionIsNat ==
  ASSUME NEW a \in Nat, NEW m \in Nat, NEW d \in Nat \ {0}
  PROVE  (a * m) \div d \in Nat
<1> DEFINE n == a * m
<1>1. n \in Nat
  OBVIOUS
<1> HIDE DEF n
<1>2. n \div d \in Nat
  BY <1>1
<1>. QED
  BY <1>2 DEF n

(***************************************************************************)
(* Whatever trio the file gives, the outbox is usable: the guards of the   *)
(* constructor make thresholds of frames that are in order, from fractions *)
(* that the checks of loadConfig have put in order.                        *)
(***************************************************************************)
THEOREM OutboxAlwaysUsable == Spec => []OutboxUsable
<1>1. ReadFromFile => OutboxUsable
  <2> SUFFICES ASSUME ReadFromFile, loaded PROVE OutboxUsable
    BY DEF OutboxUsable
  <2> DEFINE v == config.values
             low == v["reliable_outbox_lwm"]
             high == v["reliable_outbox_hwm"]
  <2>1. /\ low \in Int /\ high \in Int /\ MaxFrames \in Nat \ {0}
        /\ 0 < low /\ low < high /\ high < One /\ One \in Int
    <3>1. CASE file.readable
      <4>1. Typed(file.root)
        BY <3>1, FilesAssumption DEF ReadFromFile
      <4>2. \A key \in Outbox : v[key] = OutboxValue(file.root, key)
        BY <3>1, DefaultsAssumption DEF ReadFromFile, Loaded
      <4>. QED
        BY <4>1, <4>2, TrioInOrder, DefaultsAssumption DEF Outbox, MaxFrames
    <3>2. CASE ~file.readable
      <4>1. v = Defaults
        BY <3>2 DEF ReadFromFile, DefaultConfig
      <4>. QED
        BY <4>1, DefaultsAssumption DEF Outbox, MaxFrames
    <3>. QED
      BY <3>1, <3>2
  <2>2. Frames("reliable_outbox_hwm") \in Nat /\ Frames("reliable_outbox_lwm") \in Nat
    <3>1. low \in Nat /\ high \in Nat /\ MaxFrames \in Nat /\ One \in Nat \ {0}
      BY <2>1
    <3> HIDE DEF MaxFrames
    <3>2. (high * MaxFrames) \div One \in Nat
      BY <3>1, FractionIsNat
    <3>3. (low * MaxFrames) \div One \in Nat
      BY <3>1, FractionIsNat
    <3>. QED
      BY <3>2, <3>3 DEF Frames
  <2>3. ASSUME MaxFrames > 1
        PROVE  HighWaterFrames \in Nat /\ 0 < HighWaterFrames /\ HighWaterFrames < MaxFrames
    BY <2>1, <2>2, <2>3 DEF HighWaterFrames
  <2>4. ASSUME MaxFrames > 1 PROVE LowWaterFrames < HighWaterFrames
    BY <2>2, <2>3, <2>4 DEF LowWaterFrames
  <2>. QED
    BY <2>1, <2>3, <2>4 DEF OutboxUsable
<1>. QED
  BY <1>1, ReadFromFileHolds, PTL

-------------------------------------------------------------------------------
(***************************************************************************)
(* What is written is used, or the node says that it fell back.            *)
(***************************************************************************)

\* A value that is in range is read as what it means, and the others as the
\* sentinel.
Accepted(key, text) == InRange(key, IF key \in Marks THEN text.mark ELSE text)
ReadAsDocumented(f, key) ==
  LET text == f[key].value
  IN  IF Accepted(key, text)
      THEN Parsed(key, text) = Meant(key, text) /\ Parsed(key, text) # Sentinel(key)
      ELSE Parsed(key, text) = Sentinel(key)

LEMMA LimitsAreNat ==
  /\ U32 \in Nat /\ I64 \in Nat /\ U64 \in Nat /\ U32 < I64 /\ I64 < U64
  /\ MaxDuration \in 1..(U32 - 2) /\ MaxPort \in 1..(U32 - 2)
  /\ EndpointsCap \in 1..(U32 - 2) /\ MaxReceivers \in 1..(U32 - 2)
  /\ MaxWorkers \in 1..(U32 - 2) /\ MaxRcvbuf \in 1..(U32 - 2)
BY WordsAssumption

LEMMA ParsersAsDocumented ==
  ASSUME NEW f, Typed(f), NEW key \in DOMAIN Defaults, IsScalar(f, key), Fits(key, f[key].value)
  PROVE  ReadAsDocumented(f, key)
<1> DEFINE n == f[key].value
<1>1. key \in Required \cup Optional \cup Outbox
  BY DefaultsAssumption
<1>2. key # "multicast_ip" /\ key \notin Marks => n \in Int
  BY NumberTyped
<1>13. /\ key \notin Marks => (Accepted(key, n) <=> InRange(key, n))
       /\ key \notin Marks \cup {"max_advertised_endpoints"} => Meant(key, n) = n
  BY DEF Accepted, Meant
<1>3. CASE key \in Ports
  <2>1. Sentinel(key) = 0 /\ Parsed(key, n) = parsePort(n, 0) /\ key # "max_advertised_endpoints"
    BY <1>3 DEF Sentinel, Parsed, Ports, Durations, Marks
  <2>2. Accepted(key, n) <=> n \in 1..MaxPort
    BY <1>3, <1>13 DEF InRange, Marks, Ports, Durations
  <2>3. n \in Int
    BY <1>2, <1>3 DEF Ports, Marks
  <2>. QED
    BY <1>3, <1>13, <2>1, <2>2, <2>3, LimitsAreNat
       DEF ReadAsDocumented, parsePort, Decimal, Ports, Marks
<1>4. CASE key \in Durations
  <2>1. Sentinel(key) = 0 /\ Parsed(key, n) = parseDurationSeconds(n, 0)
        /\ key # "max_advertised_endpoints"
    BY <1>4 DEF Sentinel, Parsed, Ports, Durations, Marks
  <2>2. Accepted(key, n) <=> n \in 1..MaxDuration
    BY <1>4, <1>13 DEF InRange, Marks, Ports, Durations
  <2>3. n \in Int /\ n < I64
    BY <1>2, <1>4 DEF Durations, Fits, Marks
  <2>4. Signed(n) = n
    BY <2>3, LimitsAreNat DEF Signed
  <2>. QED
    BY <1>4, <1>13, <2>1, <2>2, <2>3, <2>4, LimitsAreNat
       DEF ReadAsDocumented, parseDurationSeconds, Decimal, Durations, Marks
<1>5. CASE key = "multicast_ip"
  <2>1. Sentinel(key) = <<>> /\ Parsed(key, n) = parseMulticastAddress(n, <<>>)
    BY <1>5 DEF Sentinel, Parsed, Ports, Durations, Marks
  <2>2. Accepted(key, n) <=>
          Len(n) = 4 /\ n[1] \in 224..239 /\ \A i \in 2..4 : n[i] \in 0..255
    <3>1. Accepted(key, n) <=> InRange(key, n)
      BY <1>5, <1>13 DEF Marks
    <3> HIDE DEF n
    <3>. QED
      BY <1>5, <3>1 DEF InRange, Marks, Ports, Durations
  <2>3. n \in Seq(Int)
    BY <1>5 DEF Typed, Marks
  <2>4. (\A i \in 1..4 : n[i] \in 0..255) /\ n[1] \in 224..239
          <=> n[1] \in 224..239 /\ \A i \in 2..4 : n[i] \in 0..255
    OBVIOUS
  <2>5. Len(n) = 4 => n # <<>>
    OBVIOUS
  <2> HIDE DEF n
  <2>6. Parsed(key, n) = IF Accepted(key, n) THEN n ELSE <<>>
    BY <2>1, <2>2, <2>4 DEF parseMulticastAddress
  <2>7. Meant(key, n) = n
    BY <1>5, <1>13 DEF Marks
  <2>. QED
    BY <2>1, <2>2, <2>5, <2>6, <2>7 DEF ReadAsDocumented, n
<1>6. CASE key = "max_advertised_endpoints"
  <2>1. Sentinel(key) = 0 /\ Parsed(key, n) = parseMaxEndpoints(n, 0)
    BY <1>6 DEF Sentinel, Parsed, Ports, Durations, Marks
  <2>2. Accepted(key, n) <=> n \in 1..(U64 - 1)
    BY <1>6, <1>13 DEF InRange, Marks, Ports, Durations
  <2>. QED
    BY <1>2, <1>6, <2>1, <2>2, LimitsAreNat
       DEF ReadAsDocumented, Meant, parseMaxEndpoints, Decimal, Marks
<1>7. CASE key \in {"receiver_threads", "worker_threads"}
  <2>1. PICK most \in 1..(U32 - 2) :
          /\ Parsed(key, n) = parseCountRange(n, 1, most, 0)
          /\ Accepted(key, n) <=> n \in 1..most
    BY <1>7, <1>13, LimitsAreNat DEF Sentinel, Parsed, Ports, Durations, InRange, Marks
  <2>2. Sentinel(key) = 0 /\ key # "max_advertised_endpoints" /\ n \in Int
    BY <1>2, <1>7 DEF Sentinel, Ports, Durations, Marks
  <2>. QED
    BY <1>7, <1>13, <2>1, <2>2, LimitsAreNat
       DEF ReadAsDocumented, parseCountRange, Decimal, Marks
<1>8. CASE key = "rx_ring_slots"
  <2>1. Sentinel(key) = 0 /\ Parsed(key, n) = parseRingSlots(n, 0)
    BY <1>8 DEF Sentinel, Parsed, Ports, Durations, Marks
  <2>2. Accepted(key, n) <=> n >= 2 /\ n < U64 /\ PowerOfTwo(n)
    BY <1>8, <1>13 DEF InRange, Marks, Ports, Durations
  <2>. QED
    BY <1>2, <1>8, <1>13, <2>1, <2>2, LimitsAreNat
       DEF ReadAsDocumented, parseRingSlots, Decimal, Marks
<1>9. CASE key = "so_rcvbuf_bytes"
  <2>1. Sentinel(key) = U32 - 1 /\ Parsed(key, n) = parseCountRange(n, 0, MaxRcvbuf, U32 - 1)
    BY <1>9 DEF Sentinel, Parsed, Ports, Durations, Marks
  <2>2. Accepted(key, n) <=> n \in 0..MaxRcvbuf
    BY <1>9, <1>13 DEF InRange, Marks, Ports, Durations
  <2>. QED
    BY <1>2, <1>9, <1>13, <2>1, <2>2, LimitsAreNat
       DEF ReadAsDocumented, parseCountRange, Decimal, Marks
<1>10. CASE key = "reliable_send_rate_limit"
  <2>1. Sentinel(key) = U32 - 1 /\ Parsed(key, n) = parseRateLimit(n, U32 - 1)
    BY <1>10 DEF Sentinel, Parsed, Ports, Durations, Marks
  <2>2. Accepted(key, n) <=> n \in 0..(U32 - 1)
    BY <1>10, <1>13 DEF InRange, Marks, Ports, Durations
  <2>3. n \in Int /\ n < U32 - 1
    BY <1>2, <1>10 DEF Fits, Marks
  <2>4. n >= 0 => n % U32 = n
    BY <2>3, LimitsAreNat
  <2>. QED
    BY <1>2, <1>10, <1>13, <2>1, <2>2, <2>3, <2>4, LimitsAreNat
       DEF ReadAsDocumented, parseRateLimit, Decimal, Marks
<1>11. CASE key = "reliable_outbox_max_frames"
  <2>1. Sentinel(key) = 0 /\ Parsed(key, n) = parseOutboxMaxFrames(n, 0)
    BY <1>11 DEF Sentinel, Parsed, Ports, Durations, Marks
  <2>2. Accepted(key, n) <=> n \in 1..(U64 - 1)
    BY <1>11, <1>13 DEF InRange, Marks, Ports, Durations
  <2>. QED
    BY <1>2, <1>11, <1>13, <2>1, <2>2, LimitsAreNat
       DEF ReadAsDocumented, parseOutboxMaxFrames, Decimal, Marks
<1>12. CASE key \in Marks
  <2>1. Sentinel(key) = -One /\ Parsed(key, n) = parseWaterMark(n, 0, One, -One)
    BY <1>12 DEF Sentinel, Parsed, Ports, Durations, Marks
  <2>2. Accepted(key, n) <=> 0 < n.mark /\ n.mark < One
    <3>1. Accepted(key, n) <=> InRange(key, n.mark)
      BY <1>12 DEF Accepted
    <3> HIDE DEF n
    <3>. QED
      BY <1>12, <3>1 DEF InRange, Ports, Durations, Marks
  <2>3. One \in Int /\ 0 < One
    BY DefaultsAssumption DEF Outbox
  <2>4. NotDecimal \in Int /\ NotDecimal < 0
    BY DEF NotDecimal
  <2>5. n.mark \in Int /\ Meant(key, n) = n.mark
    <3>1. n.mark \in Int
      BY <1>12, MarkTyped
    <3>2. Meant(key, n) = n.mark
      BY <1>12 DEF Meant, Marks
    <3>. QED
      BY <3>1, <3>2
  <2>. QED
    BY <2>1, <2>2, <2>3, <2>4, <2>5 DEF ReadAsDocumented, parseWaterMark
<1>. QED
  BY <1>1, <1>3, <1>4, <1>5, <1>6, <1>7, <1>8, <1>9, <1>10, <1>11, <1>12
     DEF Required, Optional, Outbox, Marks

\* A key that is validated on its own.
LEMMA PlainKey ==
  ASSUME NEW f, Typed(f), NEW key \in DOMAIN Defaults \ Outbox,
         NEW used, used = Loaded(f).values[key]
  PROVE  /\ ~IsScalar(f, key) => used = Defaults[key] /\ (key \in Required => FellBack(f))
         /\ IsScalar(f, key) /\ Fits(key, f[key].value) =>
              IF Documented(key, f[key].value) THEN used = Meant(key, f[key].value)
              ELSE used = Defaults[key] /\ FellBack(f)
<1>1. used = Value(f, key)
  BY DEF Loaded
<1>2. ~Valid(f, key) => used = Defaults[key]
  BY <1>1 DEF Value
<1>3. FallsBack(f, key) => FellBack(f)
  BY DefaultsAssumption DEF FellBack
<1>4. ASSUME ~IsScalar(f, key) PROVE used = Defaults[key] /\ (key \in Required => FellBack(f))
  BY <1>2, <1>3, <1>4 DEF Valid, FallsBack
<1>5. ASSUME IsScalar(f, key), Fits(key, f[key].value)
      PROVE  IF Documented(key, f[key].value) THEN used = Meant(key, f[key].value)
             ELSE used = Defaults[key] /\ FellBack(f)
  <2>1. Documented(key, f[key].value) <=> Accepted(key, f[key].value)
    BY DEF Documented, Accepted, Outbox, Marks
  <2>2. ReadAsDocumented(f, key)
    BY <1>5, ParsersAsDocumented
  <2>3. CASE Documented(key, f[key].value)
    BY <1>1, <1>5, <2>1, <2>2, <2>3 DEF ReadAsDocumented, Valid, Value
  <2>4. CASE ~Documented(key, f[key].value)
    <3>1. ~Valid(f, key)
      BY <2>1, <2>2, <2>4 DEF ReadAsDocumented, Valid
    <3>2. FallsBack(f, key)
      BY <1>5, <3>1 DEF FallsBack, Invalid
    <3>. QED
      BY <1>2, <1>3, <2>4, <3>1, <3>2
  <2>. QED
    BY <2>3, <2>4
<1>. QED
  BY <1>4, <1>5

\* The keys of the outbox, as the file has them or by default.
Written(f, key) == IF IsScalar(f, key) THEN Meant(key, f[key].value) ELSE Defaults[key]

LEMMA TrioTogether ==
  ASSUME NEW f, Typed(f), NEW values, values = Loaded(f).values
  PROVE  IF /\ \A key \in Outbox : InRange(key, Written(f, key))
            /\ Written(f, "reliable_outbox_lwm") < Written(f, "reliable_outbox_hwm")
         THEN \A key \in Outbox : values[key] = Written(f, key)
         ELSE (\A key \in Outbox : values[key] = Defaults[key]) /\ FellBack(f)
<1>1. Outbox \subseteq DOMAIN Defaults
  BY DefaultsAssumption
<1>2. \A key \in Outbox : values[key] = OutboxValue(f, key)
  BY <1>1 DEF Loaded
<1>3. ASSUME NEW key \in Outbox
      PROVE  /\ Invalid(f, key) <=> ~InRange(key, Written(f, key))
             /\ ~Invalid(f, key) => Value(f, key) = Written(f, key)
  <2>1. CASE IsScalar(f, key)
    <3>1. Fits(key, f[key].value)
      BY DEF Fits, Outbox, Durations
    <3>2. ReadAsDocumented(f, key)
      BY <1>1, <2>1, <3>1, ParsersAsDocumented
    <3>3. Accepted(key, f[key].value) <=> InRange(key, Written(f, key))
      BY <2>1 DEF Accepted, Written, Meant, Outbox, Marks
    <3>. QED
      BY <2>1, <3>2, <3>3 DEF ReadAsDocumented, Invalid, Valid, Value, Written
  <2>2. CASE ~IsScalar(f, key)
    BY <1>1, <2>2, DocumentedDefaults DEF Invalid, Valid, Value, Written
  <2>. QED
    BY <2>1, <2>2
<1>4. OutboxCoherent(f) <=>
        /\ \A key \in Outbox : InRange(key, Written(f, key))
        /\ Written(f, "reliable_outbox_lwm") < Written(f, "reliable_outbox_hwm")
  BY <1>3 DEF OutboxCoherent, Outbox
<1>5. CASE OutboxCoherent(f)
  BY <1>2, <1>3, <1>4, <1>5 DEF OutboxCoherent, OutboxValue
<1>6. CASE ~OutboxCoherent(f)
  BY <1>2, <1>4, <1>6 DEF OutboxValue, FellBack
<1>. QED
  BY <1>5, <1>6

(***************************************************************************)
(* Of every file: what the documents accept is what the node runs with, or *)
(* it has fallen back and says so; the keys of the outbox together.        *)
(***************************************************************************)
THEOREM WrittenIsUsedOrFlagged == Spec => []UsedOrFlagged
<1>1. ReadFromFile => UsedOrFlagged
  <2> SUFFICES ASSUME ReadFromFile, loaded, file.readable PROVE UsedOrFlagged
    BY DEF UsedOrFlagged
  <2>1. Typed(file.root)
    BY FilesAssumption DEF ReadFromFile
  <2>2. config = Loaded(file.root)
    BY DEF ReadFromFile
  <2>3. config.fellBack = FellBack(file.root)
    BY <2>2 DEF Loaded
  <2>4. \A key \in DOMAIN Defaults \ Outbox :
          /\ ~IsScalar(file.root, key) =>
               config.values[key] = Defaults[key] /\ (key \in Required => config.fellBack)
          /\ IsScalar(file.root, key) /\ Fits(key, file.root[key].value) =>
               IF Documented(key, file.root[key].value)
               THEN config.values[key] = Meant(key, file.root[key].value)
               ELSE config.values[key] = Defaults[key] /\ config.fellBack
    BY <2>1, <2>2, <2>3, PlainKey
  <2>5. IF /\ \A key \in Outbox : InRange(key, Written(file.root, key))
           /\ Written(file.root, "reliable_outbox_lwm") < Written(file.root, "reliable_outbox_hwm")
        THEN \A key \in Outbox : config.values[key] = Written(file.root, key)
        ELSE (\A key \in Outbox : config.values[key] = Defaults[key]) /\ config.fellBack
    BY <2>1, <2>2, <2>3, TrioTogether
  <2>. QED
    BY <2>4, <2>5 DEF UsedOrFlagged, Written
<1>. QED
  BY <1>1, ReadFromFileHolds, PTL

-------------------------------------------------------------------------------
(***************************************************************************)
(* The loops over lists.  A loop is a function of the iteration, which     *)
(* exists because there is no least iteration it does not reach.           *)
(***************************************************************************)

\* Every set of natural numbers has a least element.
LEMMA LeastIteration ==
  ASSUME NEW S, S \subseteq Nat, NEW n \in S
  PROVE  \E m \in S : \A k \in S : m <= k
<1>1. IsWellFoundedOn(OpToRel(<, Nat), Nat)
  BY NatLessThanWellFounded
<1>2. PICK m \in S : \A k \in S : <<k, m>> \notin OpToRel(<, Nat)
  BY <1>1, WFMin
<1>3. \A k \in S : ~(k < m)
  BY <1>2 DEF OpToRel
<1>. QED
  BY <1>3

\* What the first iteration gives and each one keeps holds of all.
LEMMA EveryIteration ==
  ASSUME NEW n \in Nat, NEW T, 0 \in T, \A k \in 1..n : k - 1 \in T => k \in T
  PROVE  0..n \subseteq T
<1> DEFINE Missed == {k \in 0..n : k \notin T}
<1> SUFFICES ASSUME NEW k \in Missed PROVE FALSE
  OBVIOUS
<1>1. Missed \subseteq Nat
  OBVIOUS
<1>2. PICK m \in Missed : \A j \in Missed : m <= j
  <2> HIDE DEF Missed
  <2>. QED
    BY <1>1, LeastIteration
<1>3. m \in 1..n /\ m - 1 \in 0..n /\ ~(m <= m - 1)
  BY <1>2
<1>. QED
  BY <1>2, <1>3

\* A run of a loop of n iterations, each of which applies its body.
Iterates(run, n, S, base, body) ==
  /\ run \in [0..n -> S]
  /\ run[0] = base
  /\ \A k \in 1..n : run[k] = body[k][run[k - 1]]

LEMMA LoopRuns ==
  ASSUME NEW n \in Nat, NEW S, NEW base \in S, NEW body,
         \A k \in 1..n : \A q \in S : body[k][q] \in S
  PROVE  \E run : Iterates(run, n, S, base, body)
<1> USE DEF Iterates
<1> DEFINE Reaches(run, m) == Iterates(run, m, S, base, body)
           T == {m \in 0..n : \E run : Reaches(run, m)}
<1>1. 0 \in T
  <2>1. Reaches([k \in 0..0 |-> base], 0)
    OBVIOUS
  <2>2. 0 \in 0..n
    OBVIOUS
  <2> HIDE DEF Reaches
  <2>. QED
    BY <2>1, <2>2
<1>2. ASSUME NEW m \in 1..n, m - 1 \in T PROVE m \in T
  <2>1. PICK run : Reaches(run, m - 1)
    BY <1>2
  <2> DEFINE longer == [k \in 0..m |-> IF k = m THEN body[m][run[m - 1]] ELSE run[k]]
  <2>2. m - 1 \in 0..(m - 1) /\ \A k \in 0..m : k # m => k \in 0..(m - 1)
    OBVIOUS
  <2>3. run[m - 1] \in S
    BY <2>1, <2>2
  <2>4. body[m][run[m - 1]] \in S
    BY <2>3
  <2>5. longer \in [0..m -> S]
    BY <2>1, <2>2, <2>4
  <2>6. longer[0] = base
    BY <2>1
  <2>7. ASSUME NEW k \in 1..m PROVE longer[k] = body[k][longer[k - 1]]
    <3>1. k - 1 \in 0..m /\ k - 1 # m /\ longer[k - 1] = run[k - 1]
      OBVIOUS
    <3>2. CASE k = m
      BY <3>1, <3>2
    <3>3. CASE k # m
      <4>1. k \in 1..(m - 1) /\ longer[k] = run[k]
        BY <3>3
      <4>. QED
        BY <2>1, <3>1, <4>1
    <3>. QED
      BY <3>2, <3>3
  <2>8. Reaches(longer, m)
    BY <2>5, <2>6, <2>7
  <2> HIDE DEF Reaches, longer
  <2>. QED
    BY <2>8
<1>3. n \in T
  <2> HIDE DEF T
  <2>1. 0..n \subseteq T
    BY <1>1, <1>2, EveryIteration
  <2>. QED
    BY <2>1
<1>. QED
  BY <1>3

\* The list as it is after each item.
KeepsInTurn(run, items, wanted, V) ==
  /\ run \in [0..Len(items) -> Seq(V)]
  /\ Kept(items, wanted) = run[Len(items)]
  /\ run[0] = <<>>
  /\ \A k \in 1..Len(items) :
       run[k] = IF items[k] \in wanted THEN Append(run[k - 1], items[k]) ELSE run[k - 1]

LEMMA KeptItemByItem ==
  ASSUME NEW V, NEW items \in Seq(V), NEW wanted
  PROVE  \E run : KeepsInTurn(run, items, wanted, V)
<1> DEFINE n == Len(items)
           S == Seq(V)
           body == [k \in 1..n |-> [q \in S |-> IF items[k] \in wanted THEN Append(q, items[k]) ELSE q]]
           Runs(run) == run = [k \in 0..n |-> IF k = 0 THEN <<>>
                                 ELSE IF items[k] \in wanted THEN Append(run[k - 1], items[k])
                                 ELSE run[k - 1]]
<1>1. n \in Nat /\ <<>> \in S /\ \A k \in 1..n : items[k] \in V
  OBVIOUS
<1>2. \A k \in 1..n : \A q \in S : body[k][q] \in S
  BY <1>1
<1>3. \E run : Iterates(run, n, S, <<>>, body)
  <2> HIDE DEF body, S, n
  <2>. QED
    BY <1>1, <1>2, LoopRuns
<1>4. PICK run \in [0..n -> S] :
        run[0] = <<>> /\ \A k \in 1..n : run[k] = body[k][run[k - 1]]
  BY <1>3 DEF Iterates
<1>5. \A k \in 1..n : k - 1 \in 0..n
  BY <1>1
<1>6. \A k \in 1..n : body[k][run[k - 1]] =
        IF items[k] \in wanted THEN Append(run[k - 1], items[k]) ELSE run[k - 1]
  BY <1>4, <1>5
<1>7. Runs(run)
  <2> HIDE DEF body, S
  <2>1. \A k \in 0..n : k = 0 \/ k \in 1..n
    BY <1>1
  <2>2. run = [k \in 0..n |-> run[k]]
    BY <1>4
  <2>3. \A k \in 0..n : run[k] = IF k = 0 THEN <<>>
          ELSE IF items[k] \in wanted THEN Append(run[k - 1], items[k]) ELSE run[k - 1]
    BY <1>4, <1>6, <2>1
  <2>. QED
    BY <2>2, <2>3
<1> DEFINE kept == CHOOSE g : Runs(g)
<1>8. Runs(kept) /\ Kept(items, wanted) = kept[n]
  <2>1. \E g : Runs(g)
    BY <1>7
  <2>2. Runs(kept)
    <3> HIDE DEF Runs
    <3>. QED
      BY <2>1
  <2>. QED
    BY <2>2 DEF Kept
<1> HIDE DEF kept
<1>9. /\ kept[0] = <<>>
      /\ \A k \in 1..n : kept[k] = IF items[k] \in wanted THEN Append(kept[k - 1], items[k])
                                  ELSE kept[k - 1]
  <2>1. DOMAIN kept = 0..n /\ \A k \in 0..n : kept[k] = IF k = 0 THEN <<>>
             ELSE IF items[k] \in wanted THEN Append(kept[k - 1], items[k]) ELSE kept[k - 1]
    BY <1>8
  <2> HIDE DEF n
  <2>2. 0 \in 0..n /\ \A k \in 1..n : k \in 0..n /\ k # 0
    BY <1>1
  <2>. QED
    BY <2>1, <2>2
<1> DEFINE T == {k \in 0..n : kept[k] \in S}
<1>10. 0..n \subseteq T
  <2>1. 0 \in T
    <3>1. kept[0] \in S /\ 0 \in 0..n
      BY <1>1, <1>9
    <3>. QED
      BY <3>1
  <2>2. ASSUME NEW k \in 1..n, k - 1 \in T PROVE k \in T
    <3>1. kept[k - 1] \in S /\ items[k] \in V /\ k \in 0..n
      BY <1>1, <2>2
    <3>2. Append(kept[k - 1], items[k]) \in S
      BY <3>1
    <3>3. kept[k] = Append(kept[k - 1], items[k]) \/ kept[k] = kept[k - 1]
      BY <1>9
    <3>. QED
      BY <3>1, <3>2, <3>3
  <2> HIDE DEF T
  <2>. QED
    BY <1>1, <2>1, <2>2, EveryIteration
<1>11. kept \in [0..n -> S]
  BY <1>8, <1>10
<1>. QED
  BY <1>8, <1>9, <1>11 DEF KeepsInTurn

\* The rank of a place grows with the places up to it.
LEMMA RankGrows ==
  ASSUME NEW n \in Nat, NEW places, places \subseteq 1..n
  PROVE  /\ \A k \in 0..n : Rank(places, k) \in Nat
         /\ Rank(places, 0) = 0
         /\ Rank(places, n) = Cardinality(places)
         /\ \A k \in 1..n : Rank(places, k) =
              IF k \in places THEN Rank(places, k - 1) + 1 ELSE Rank(places, k - 1)
         /\ \A k \in 0..n : \A j \in places : j <= k =>
              Rank(places, j) \in 1..Rank(places, k)
<1> DEFINE UpTo(k) == {m \in places : m <= k}
<1>1. UpTo(0) = {} /\ UpTo(n) = places
  <2>1. \A m \in places : ~(m <= 0) /\ m <= n
    OBVIOUS
  <2>. QED
    BY <2>1
<1>2. ASSUME NEW k \in 1..n
      PROVE  UpTo(k) = IF k \in places THEN UpTo(k - 1) \cup {k} ELSE UpTo(k - 1)
  <2>1. \A m \in places : m <= k <=> m <= k - 1 \/ m = k
    OBVIOUS
  <2>. QED
    BY <2>1
<1>3. \A k \in 1..n : k \notin UpTo(k - 1)
  OBVIOUS
<1> HIDE DEF UpTo
<1> DEFINE Finite == {k \in 0..n : IsFiniteSet(UpTo(k))}
<1>4. 0..n \subseteq Finite
  <2>1. 0 \in Finite
    BY <1>1, FS_EmptySet
  <2>2. ASSUME NEW k \in 1..n, k - 1 \in Finite PROVE k \in Finite
    <3>1. IsFiniteSet(UpTo(k - 1)) /\ k \in 0..n
      BY <2>2
    <3>2. IsFiniteSet(UpTo(k - 1) \cup {k})
      BY <3>1, FS_AddElement
    <3>. QED
      BY <1>2, <3>1, <3>2
  <2> HIDE DEF Finite
  <2>. QED
    BY <2>1, <2>2, EveryIteration
<1>5. \A k \in 0..n : Rank(places, k) = Cardinality(UpTo(k))
  BY DEF Rank, UpTo
<1>6. \A k \in 0..n : Rank(places, k) \in Nat
  BY <1>4, <1>5, FS_CardinalityType
<1>7. Rank(places, 0) = 0 /\ Rank(places, n) = Cardinality(places)
  BY <1>1, <1>5, FS_EmptySet
<1>8. ASSUME NEW k \in 1..n
      PROVE  Rank(places, k) = IF k \in places THEN Rank(places, k - 1) + 1 ELSE Rank(places, k - 1)
  <2>1. k \in 0..n /\ k - 1 \in 0..n
    OBVIOUS
  <2>2. IsFiniteSet(UpTo(k - 1))
    BY <1>4, <2>1
  <2>3. Cardinality(UpTo(k - 1) \cup {k}) = Cardinality(UpTo(k - 1)) + 1
    BY <1>3, <2>2, FS_AddElement
  <2>. QED
    BY <1>2, <1>5, <2>1, <2>3
<1> DEFINE Below == {k \in 0..n : \A j \in places : j <= k => Rank(places, j) \in 1..Rank(places, k)}
<1>9. 0..n \subseteq Below
  <2>1. 0 \in Below
    OBVIOUS
  <2>2. ASSUME NEW k \in 1..n, k - 1 \in Below PROVE k \in Below
    <3>1. k \in 0..n /\ k - 1 \in 0..n /\ Rank(places, k) \in Nat /\ Rank(places, k - 1) \in Nat
      BY <1>6
    <3>2. ASSUME NEW j \in places, j <= k PROVE Rank(places, j) \in 1..Rank(places, k)
      <4>1. CASE j = k
        BY <1>8, <3>1, <4>1
      <4>2. CASE j # k
        <5>1. j <= k - 1
          BY <3>2, <4>2
        <5>2. Rank(places, j) \in 1..Rank(places, k - 1)
          BY <2>2, <5>1
        <5>3. Rank(places, k - 1) <= Rank(places, k)
          BY <1>8, <3>1
        <5>. QED
          BY <3>1, <5>2, <5>3
      <4>. QED
        BY <4>1, <4>2
    <3>. QED
      BY <3>1, <3>2
  <2> HIDE DEF Below
  <2>. QED
    BY <2>1, <2>2, EveryIteration
<1>. QED
  BY <1>6, <1>7, <1>8, <1>9

\* The places of a list that hold what is wanted.
WantedPlaces(items, wanted) == {j \in DOMAIN items : items[j] \in wanted}

\* What is kept is what is wanted, each at its rank.
LEMMA KeptInTurn ==
  ASSUME NEW V, NEW items \in Seq(V), NEW wanted
  PROVE  /\ Kept(items, wanted) \in Seq(V)
         /\ Len(Kept(items, wanted)) = Cardinality(WantedPlaces(items, wanted))
         /\ \A j \in WantedPlaces(items, wanted) :
              /\ Rank(WantedPlaces(items, wanted), j) \in 1..Len(Kept(items, wanted))
              /\ Kept(items, wanted)[Rank(WantedPlaces(items, wanted), j)] = items[j]
<1> DEFINE n == Len(items)
           places == WantedPlaces(items, wanted)
<1>0. PICK run : KeepsInTurn(run, items, wanted, V)
  BY KeptItemByItem
<1>1. /\ run \in [0..n -> Seq(V)]
      /\ Kept(items, wanted) = run[n]
      /\ run[0] = <<>>
      /\ \A k \in 1..n :
           run[k] = IF items[k] \in wanted THEN Append(run[k - 1], items[k]) ELSE run[k - 1]
  BY <1>0 DEF KeepsInTurn
<1>2. n \in Nat /\ DOMAIN items = 1..n /\ \A k \in 1..n : items[k] \in V
  OBVIOUS
<1>3. places \subseteq 1..n /\ \A k \in 1..n : items[k] \in wanted <=> k \in places
  BY <1>2 DEF WantedPlaces
<1> HIDE DEF n, places
<1>4. /\ \A k \in 0..n : Rank(places, k) \in Nat
      /\ Rank(places, 0) = 0
      /\ Rank(places, n) = Cardinality(places)
      /\ \A k \in 1..n : Rank(places, k) =
           IF k \in places THEN Rank(places, k - 1) + 1 ELSE Rank(places, k - 1)
      /\ \A k \in 0..n : \A j \in places : j <= k => Rank(places, j) \in 1..Rank(places, k)
  BY <1>2, <1>3, RankGrows
<1> DEFINE Placed(k) == \A j \in places : j <= k => run[k][Rank(places, j)] = items[j]
           T == {k \in 0..n : Len(run[k]) = Rank(places, k) /\ Placed(k)}
<1>5. 0 \in T
  <2>1. \A j \in places : ~(j <= 0)
    BY <1>2, <1>3
  <2>. QED
    BY <1>1, <1>2, <1>4, <2>1
<1>6. ASSUME NEW k \in 1..n, k - 1 \in T PROVE k \in T
  <2> DEFINE q == run[k - 1]
  <2>1. k \in 0..n /\ k - 1 \in 0..n /\ q \in Seq(V) /\ Len(q) = Rank(places, k - 1) /\ Placed(k - 1)
    BY <1>1, <1>2, <1>6
  <2>2. \A j \in places : j <= k - 1 => Rank(places, j) \in 1..Len(q)
    BY <1>4, <2>1
  <2>3. \A j \in places : j <= k <=> j <= k - 1 \/ j = k
    BY <1>2, <1>3
  <2>4. CASE k \in places
    <3>1. run[k] = Append(q, items[k]) /\ items[k] \in V
      BY <1>1, <1>2, <1>3, <2>4
    <3>2. /\ Len(run[k]) = Len(q) + 1
          /\ \A i \in 1..Len(q) : run[k][i] = q[i]
          /\ run[k][Len(q) + 1] = items[k]
      <4> HIDE DEF q
      <4>. QED
        BY <2>1, <3>1
    <3>3. Rank(places, k) = Len(q) + 1
      BY <1>4, <2>1, <2>4
    <3>4. Placed(k)
      <4>1. ASSUME NEW j \in places, j <= k PROVE run[k][Rank(places, j)] = items[j]
        <5>1. CASE j <= k - 1
          BY <2>1, <2>2, <3>2, <5>1
        <5>2. CASE j = k
          BY <3>2, <3>3, <5>2
        <5>. QED
          BY <2>3, <4>1, <5>1, <5>2
      <4>. QED
        BY <4>1
    <3>. QED
      BY <2>1, <3>2, <3>3, <3>4
  <2>5. CASE k \notin places
    <3>1. run[k] = q /\ Rank(places, k) = Rank(places, k - 1)
      BY <1>1, <1>3, <1>4, <2>5
    <3>2. Placed(k)
      BY <2>1, <2>3, <2>5, <3>1
    <3>. QED
      BY <2>1, <3>1, <3>2
  <2>. QED
    BY <2>4, <2>5
<1>7. n \in T
  <2> HIDE DEF T
  <2>1. 0..n \subseteq T
    BY <1>2, <1>5, <1>6, EveryIteration
  <2>. QED
    BY <1>2, <2>1
<1>8. \A j \in places : j <= n /\ n \in 0..n
  BY <1>2, <1>3
<1>9. run[n] \in Seq(V)
  BY <1>1, <1>2
<1>. QED
  BY <1>1, <1>4, <1>7, <1>8, <1>9 DEF places

(***************************************************************************)
(* The peers of the configuration are the entries of the file that are     *)
(* peers, in order, each at the port it names or at the port of this node; *)
(* an entry that is no peer is flagged.                                    *)
(***************************************************************************)
THEOREM PeersAlwaysResolved == Spec => []PeersResolved
<1>1. ReadFromFile => PeersResolved
  <2> SUFFICES ASSUME ReadFromFile, loaded, file.readable PROVE PeersResolved
    BY DEF PeersResolved
  <2> DEFINE f == file.root
             items == Items(f["peers"])
             wanted == {item \in ToSet(items) : IsPeer(item)}
             kept == Kept(items, wanted)
             port == Value(f, "grpc_port")
             good == {j \in DOMAIN items : \/ items[j].kind = "host"
                                           \/ items[j].kind = "endpoint" /\ items[j].port \in 1..MaxPort}
  <2>1. config = Loaded(f)
    BY DEF ReadFromFile
  <2>2. config.peers = Peers(f["peers"], port) /\ config.fellBack = FellBack(f)
    BY <2>1 DEF Loaded
  <2>3. config.values["grpc_port"] = port
    BY <2>1, DefaultsAssumption DEF Loaded, Required, Ports, Outbox
  <2>4. /\ items \in Seq(ToSet(items))
        /\ \A item \in ToSet(items) : item.kind = "endpoint" => item.port \in Int
    BY FilesAssumption DEF ReadFromFile, Lists
  <2>5. config.peers = [i \in DOMAIN kept |-> Peer(kept[i], port)]
    BY <2>2 DEF Peers
  <2>6. PeersInvalid(f["peers"]) <=>
          \/ f["peers"].form \in {"null", "map"}
          \/ \E i \in DOMAIN items : ~IsPeer(items[i])
    BY DEF PeersInvalid
  <2> HIDE DEF items, port
  <2>7. good = WantedPlaces(items, wanted)
    <3>1. \A item \in ToSet(items) : IsPeer(item) <=>
            item.kind = "host" \/ (item.kind = "endpoint" /\ item.port \in 1..MaxPort)
      BY <2>4, LimitsAreNat DEF IsPeer, parsePort, Decimal
    <3>2. \A j \in DOMAIN items : items[j] \in ToSet(items)
      BY DEF ToSet
    <3>. QED
      BY <3>1, <3>2 DEF WantedPlaces
  <2>8. \A j \in good : items[j].kind = "host" \/ items[j].kind = "endpoint"
    OBVIOUS
  <2>9. \A j \in DOMAIN items : j \notin good => ~IsPeer(items[j])
    BY <2>7 DEF WantedPlaces, ToSet
  <2>10. good \subseteq DOMAIN items
    OBVIOUS
  <2> HIDE DEF wanted, good
  <2>11. /\ kept \in Seq(ToSet(items))
         /\ Len(kept) = Cardinality(good)
         /\ \A j \in good : Rank(good, j) \in 1..Len(kept) /\ kept[Rank(good, j)] = items[j]
    BY <2>4, <2>7, KeptInTurn
  <2> HIDE DEF kept
  <2>12. DOMAIN kept = 1..Len(kept) /\ Len(config.peers) = Len(kept)
    BY <2>5, <2>11
  <2>13. ASSUME NEW j \in good
         PROVE  config.peers[Rank(good, j)] =
                  [host |-> items[j].host,
                   port |-> IF items[j].kind = "host" THEN config.values["grpc_port"]
                            ELSE items[j].port]
    BY <2>3, <2>5, <2>11, <2>12 DEF Peer
  <2>14. good # DOMAIN items \/ f["peers"].form = "map" => config.fellBack
    <3>1. good # DOMAIN items => \E j \in DOMAIN items : ~IsPeer(items[j])
      BY <2>9, <2>10
    <3>. QED
      BY <2>2, <2>6, <3>1 DEF FellBack
  <2>. QED
    BY <2>11, <2>12, <2>13, <2>14 DEF PeersResolved, items, good
<1>. QED
  BY <1>1, ReadFromFileHolds, PTL

-------------------------------------------------------------------------------
(***************************************************************************)
(* The endpoints of a heartbeat.                                           *)
(***************************************************************************)

\* The endpoints as they are after each address.
AppendsInTurn(run, addresses, V) ==
  /\ run \in [0..Len(addresses) -> Seq(V)]
  /\ run[0] = <<>>
  /\ \A k \in 1..Len(addresses) : run[k] = Appended(run[k - 1], addresses[k])

LEMMA AppendedIsSeq ==
  ASSUME NEW V, NEW q \in Seq(V), NEW address \in V
  PROVE  Appended(q, address) \in Seq(V)
<1>1. Append(q, address) \in Seq(V)
  OBVIOUS
<1>2. Appended(q, address) = q \/ Appended(q, address) = Append(q, address)
  BY DEF Appended
<1>. QED
  BY <1>1, <1>2

LEMMA AppendedAddressByAddress ==
  ASSUME NEW V, NEW discovered, config.advertise \o discovered \in Seq(V)
  PROVE  \E run : /\ AppendsInTurn(run, config.advertise \o discovered, V)
                  /\ buildSelfEndpoints(discovered) = run[Len(config.advertise \o discovered)]
<1> DEFINE addresses == config.advertise \o discovered
           n == Len(addresses)
           S == Seq(V)
           body == [k \in 1..n |-> [q \in S |-> Appended(q, addresses[k])]]
           Runs(run) == run = [k \in 0..n |-> IF k = 0 THEN <<>>
                                 ELSE Appended(run[k - 1], addresses[k])]
<1> HIDE DEF addresses
<1>1. n \in Nat /\ <<>> \in S /\ \A k \in 1..n : addresses[k] \in V
  BY DEF addresses
<1>2. \A k \in 1..n : \A q \in S : body[k][q] \in S
  BY <1>1, AppendedIsSeq
<1>3. \E run : Iterates(run, n, S, <<>>, body)
  <2> HIDE DEF body, S, n
  <2>. QED
    BY <1>1, <1>2, LoopRuns
<1>4. PICK run \in [0..n -> S] :
        run[0] = <<>> /\ \A k \in 1..n : run[k] = body[k][run[k - 1]]
  BY <1>3 DEF Iterates
<1>5. \A k \in 1..n : k - 1 \in 0..n
  BY <1>1
<1>6. \A k \in 1..n : body[k][run[k - 1]] = Appended(run[k - 1], addresses[k])
  BY <1>4, <1>5
<1>7. Runs(run)
  <2> HIDE DEF body, S, n
  <2>1. \A k \in 0..n : k = 0 \/ k \in 1..n
    BY <1>1
  <2>2. run = [k \in 0..n |-> run[k]]
    BY <1>4
  <2>3. \A k \in 0..n : run[k] = IF k = 0 THEN <<>> ELSE Appended(run[k - 1], addresses[k])
    BY <1>4, <1>6, <2>1
  <2>. QED
    BY <2>2, <2>3
<1> DEFINE result == CHOOSE g : Runs(g)
<1>8. Runs(result) /\ buildSelfEndpoints(discovered) = result[n]
  <2>1. \E g : Runs(g)
    BY <1>7
  <2>2. Runs(result)
    <3> HIDE DEF Runs
    <3>. QED
      BY <2>1
  <2>. QED
    BY <2>2 DEF buildSelfEndpoints, addresses
<1> HIDE DEF result
<1>9. result[0] = <<>> /\ \A k \in 1..n : result[k] = Appended(result[k - 1], addresses[k])
  <2>1. DOMAIN result = 0..n /\ \A k \in 0..n : result[k] =
          IF k = 0 THEN <<>> ELSE Appended(result[k - 1], addresses[k])
    BY <1>8
  <2> HIDE DEF n
  <2>2. 0 \in 0..n /\ \A k \in 1..n : k \in 0..n /\ k # 0
    BY <1>1
  <2>. QED
    BY <2>1, <2>2
<1> DEFINE T == {k \in 0..n : result[k] \in S}
<1>10. 0..n \subseteq T
  <2>1. 0 \in T
    <3>1. result[0] \in S /\ 0 \in 0..n
      BY <1>1, <1>9
    <3>. QED
      BY <3>1
  <2>2. ASSUME NEW k \in 1..n, k - 1 \in T PROVE k \in T
    <3>1. result[k - 1] \in S /\ addresses[k] \in V /\ k \in 0..n
      BY <1>1, <2>2
    <3>2. Appended(result[k - 1], addresses[k]) \in S
      BY <3>1, AppendedIsSeq
    <3>. QED
      BY <1>9, <3>1, <3>2
  <2> HIDE DEF T
  <2>. QED
    BY <1>1, <2>1, <2>2, EveryIteration
<1>11. result \in [0..n -> S]
  BY <1>8, <1>10
<1>. QED
  BY <1>8, <1>9, <1>11 DEF AppendsInTurn, addresses

\* Where a list has an address for the first time.
Firsts(addresses) ==
  {n \in DOMAIN addresses : \A m \in 1..(n - 1) : addresses[m] # addresses[n]}

LEMMA FirstExists ==
  ASSUME NEW V, NEW addresses \in Seq(V), NEW k \in 1..Len(addresses)
  PROVE  \E m \in Firsts(addresses) : m <= k /\ addresses[m] = addresses[k]
<1> DEFINE Same == {m \in 1..Len(addresses) : addresses[m] = addresses[k]}
<1>1. PICK m \in Same : \A j \in Same : m <= j
  <2>1. Same \subseteq Nat /\ k \in Same
    OBVIOUS
  <2> HIDE DEF Same
  <2>. QED
    BY <2>1, LeastIteration
<1>2. \A j \in 1..(m - 1) : j \in 1..Len(addresses) /\ ~(m <= j)
  BY <1>1
<1>3. \A j \in 1..(m - 1) : addresses[j] # addresses[m]
  BY <1>1, <1>2
<1>4. m \in Firsts(addresses)
  BY <1>1, <1>3 DEF Firsts
<1>. QED
  BY <1>1, <1>4

\* What the loop has made of the first k addresses: those that come for the
\* first time, each at its rank, as far as there is room, and nothing else.
InTurnSoFar(q, addresses, k, most) ==
  LET firsts == Firsts(addresses)
  IN  /\ Len(q) = IF Rank(firsts, k) < most THEN Rank(firsts, k) ELSE most
      /\ \A n \in firsts : n <= k /\ Rank(firsts, n) <= most => q[Rank(firsts, n)] = addresses[n]
      /\ \A i \in 1..Len(q) : \E n \in 1..k : q[i] = addresses[n]

LEMMA AppendKeepsTurn ==
  ASSUME NEW V, NEW addresses \in Seq(V), NEW k \in 1..Len(addresses), NEW q \in Seq(V),
         config.values["max_advertised_endpoints"] \in Nat,
         InTurnSoFar(q, addresses, k - 1, config.values["max_advertised_endpoints"])
  PROVE  InTurnSoFar(Appended(q, addresses[k]), addresses, k,
                     config.values["max_advertised_endpoints"])
<1> DEFINE most == config.values["max_advertised_endpoints"]
           firsts == Firsts(addresses)
           rank(n) == Rank(firsts, n)
           p == Appended(q, addresses[k])
<1>1. /\ Len(addresses) \in Nat /\ k \in 0..Len(addresses) /\ k - 1 \in 0..Len(addresses)
      /\ addresses[k] \in V /\ Len(q) \in Nat /\ DOMAIN q = 1..Len(q)
  OBVIOUS
<1>2. firsts \subseteq 1..Len(addresses)
  BY DEF Firsts
<1>3. /\ rank(k) \in Nat /\ rank(k - 1) \in Nat
      /\ rank(k) = IF k \in firsts THEN rank(k - 1) + 1 ELSE rank(k - 1)
      /\ \A n \in firsts : n <= k - 1 => rank(n) \in 1..rank(k - 1)
  <2> DEFINE total == Len(addresses)
  <2>1. total \in Nat /\ k \in 1..total /\ k \in 0..total /\ k - 1 \in 0..total
    BY <1>1
  <2> HIDE DEF total, firsts
  <2>2. firsts \subseteq 1..total
    BY <1>2 DEF total
  <2>3. /\ \A m \in 0..total : Rank(firsts, m) \in Nat
        /\ \A m \in 1..total : Rank(firsts, m) =
             IF m \in firsts THEN Rank(firsts, m - 1) + 1 ELSE Rank(firsts, m - 1)
        /\ \A m \in 0..total : \A j \in firsts : j <= m => Rank(firsts, j) \in 1..Rank(firsts, m)
    BY <2>1, <2>2, RankGrows
  <2>. QED
    BY <2>1, <2>3
<1>4. /\ Len(q) = IF rank(k - 1) < most THEN rank(k - 1) ELSE most
      /\ \A n \in firsts : n <= k - 1 /\ rank(n) <= most => q[rank(n)] = addresses[n]
      /\ \A i \in 1..Len(q) : \E n \in 1..(k - 1) : q[i] = addresses[n]
  BY DEF InTurnSoFar
<1>5. \A n \in firsts : n <= k <=> n <= k - 1 \/ n = k
  BY <1>1, <1>2
<1>6. \A n \in 1..(k - 1) : n \in 1..k
  BY <1>1
<1>7. k \in firsts <=> \A m \in 1..(k - 1) : addresses[m] # addresses[k]
  BY <1>1 DEF Firsts
<1>8. \E m \in firsts : m <= k /\ addresses[m] = addresses[k]
  BY FirstExists
<1> HIDE DEF firsts, rank
<1>9. CASE Len(q) >= most
  <2>1. p = q
    BY <1>9 DEF Appended
  <2>2. rank(k - 1) >= most /\ Len(q) = most
    BY <1>3, <1>4, <1>9
  <2>3. rank(k) >= most /\ (k \in firsts => ~(rank(k) <= most))
    BY <1>3, <2>2
  <2>4. Len(q) = IF rank(k) < most THEN rank(k) ELSE most
    BY <1>3, <2>2, <2>3
  <2>5. \A n \in firsts : n <= k /\ rank(n) <= most => q[rank(n)] = addresses[n]
    BY <1>4, <1>5, <2>3
  <2>. QED
    BY <1>4, <1>6, <2>1, <2>4, <2>5 DEF InTurnSoFar, firsts, rank
<1>10. CASE Len(q) < most /\ k \in firsts
  <2>1. Len(q) = rank(k - 1) /\ rank(k) = Len(q) + 1
    BY <1>3, <1>4, <1>10
  <2>2. \A i \in DOMAIN q : q[i] # addresses[k]
    BY <1>1, <1>4, <1>7, <1>10
  <2>3. p = Append(q, addresses[k])
    BY <1>1, <1>10, <2>2 DEF Appended
  <2>4. /\ Len(p) = Len(q) + 1
        /\ \A i \in 1..Len(q) : p[i] = q[i]
        /\ p[Len(q) + 1] = addresses[k]
    BY <1>1, <2>3
  <2> HIDE DEF p
  <2>5. Len(p) = IF rank(k) < most THEN rank(k) ELSE most
    BY <1>1, <1>10, <2>1, <2>4
  <2>6. ASSUME NEW n \in firsts, n <= k, rank(n) <= most PROVE p[rank(n)] = addresses[n]
    <3>1. CASE n <= k - 1
      BY <1>3, <1>4, <2>1, <2>4, <2>6, <3>1
    <3>2. CASE n = k
      BY <2>1, <2>4, <3>2
    <3>. QED
      BY <1>5, <2>6, <3>1, <3>2
  <2>7. ASSUME NEW i \in 1..Len(p) PROVE \E n \in 1..k : p[i] = addresses[n]
    <3>1. CASE i \in 1..Len(q)
      BY <1>4, <1>6, <2>4, <3>1
    <3>2. CASE i = Len(q) + 1
      BY <2>4, <3>2
    <3>. QED
      BY <1>1, <2>4, <3>1, <3>2
  <2>. QED
    BY <2>5, <2>6, <2>7 DEF InTurnSoFar, firsts, rank, p
<1>11. CASE Len(q) < most /\ k \notin firsts
  <2>1. Len(q) = rank(k - 1) /\ rank(k) = rank(k - 1)
    BY <1>3, <1>4, <1>11
  <2>2. PICK m \in firsts : m <= k - 1 /\ addresses[m] = addresses[k]
    BY <1>5, <1>8, <1>11
  <2>3. rank(m) \in 1..Len(q) /\ rank(m) <= most
    BY <1>1, <1>3, <1>11, <2>1, <2>2
  <2>4. q[rank(m)] = addresses[k]
    BY <1>4, <2>2, <2>3
  <2>5. p = q
    BY <1>1, <2>3, <2>4 DEF Appended
  <2>6. Len(q) = IF rank(k) < most THEN rank(k) ELSE most
    BY <1>11, <2>1
  <2>7. \A n \in firsts : n <= k /\ rank(n) <= most => q[rank(n)] = addresses[n]
    BY <1>4, <1>5, <1>11
  <2>. QED
    BY <1>4, <1>6, <2>5, <2>6, <2>7 DEF InTurnSoFar, firsts, rank
<1>. QED
  BY <1>1, <1>9, <1>10, <1>11

LEMMA HeartbeatInTurn ==
  ASSUME NEW V, config.advertise \in Seq(V), NEW discovered \in Seq(V),
         config.values["max_advertised_endpoints"] \in Nat
  PROVE  InTurn(buildSelfEndpoints(discovered), config.advertise \o discovered,
                config.values["max_advertised_endpoints"])
<1> DEFINE most == config.values["max_advertised_endpoints"]
           addresses == config.advertise \o discovered
           n == Len(addresses)
<1>1. addresses \in Seq(V) /\ n \in Nat /\ DOMAIN addresses = 1..n
  OBVIOUS
<1>2. PICK run : /\ AppendsInTurn(run, addresses, V)
                 /\ buildSelfEndpoints(discovered) = run[n]
  BY <1>1, AppendedAddressByAddress
<1> HIDE DEF addresses
<1>3. /\ run \in [0..n -> Seq(V)] /\ run[0] = <<>>
      /\ \A k \in 1..n : run[k] = Appended(run[k - 1], addresses[k])
  BY <1>2 DEF AppendsInTurn
<1>4. Firsts(addresses) \subseteq 1..n
  BY <1>1 DEF Firsts
<1>5. Rank(Firsts(addresses), 0) = 0 /\ Rank(Firsts(addresses), n) = Cardinality(Firsts(addresses))
  BY <1>1, <1>4, RankGrows
<1> DEFINE T == {k \in 0..n : InTurnSoFar(run[k], addresses, k, most)}
<1>6. 0 \in T
  <2>1. \A m \in Firsts(addresses) : ~(m <= 0)
    BY <1>1, <1>4
  <2>2. InTurnSoFar(<<>>, addresses, 0, most)
    BY <1>5, <2>1 DEF InTurnSoFar
  <2>. QED
    BY <1>1, <1>3, <2>2
<1>7. ASSUME NEW k \in 1..n, k - 1 \in T PROVE k \in T
  <2>1. k - 1 \in 0..n /\ k \in 0..n /\ run[k - 1] \in Seq(V)
    <3> HIDE DEF n
    <3>. QED
      BY <1>1, <1>3
  <2>2. InTurnSoFar(run[k - 1], addresses, k - 1, most)
    BY <1>7
  <2>3. InTurnSoFar(Appended(run[k - 1], addresses[k]), addresses, k, most)
    BY <1>1, <2>1, <2>2, AppendKeepsTurn
  <2>. QED
    BY <1>3, <2>1, <2>3
<1>8. InTurnSoFar(run[n], addresses, n, most)
  <2> HIDE DEF T, n
  <2>1. 0..n \subseteq T
    BY <1>1, <1>6, <1>7, EveryIteration
  <2>2. n \in T
    BY <1>1, <2>1
  <2>. QED
    BY <2>2 DEF T
<1>9. \A m \in Firsts(addresses) : m <= n
  BY <1>1, <1>4
<1>10. InTurn(run[n], addresses, most)
  BY <1>5, <1>8, <1>9 DEF InTurn, InTurnSoFar, Firsts
<1>. QED
  BY <1>2, <1>10 DEF addresses

\* What buildSelfEndpoints reads is a list, and a number.
LEMMA ListsAndCap ==
  ASSUME ReadFromFile
  PROVE  /\ config.advertise \in Seq(ToSet(config.advertise))
         /\ config.values["max_advertised_endpoints"] \in Nat
<1> DEFINE cap == "max_advertised_endpoints"
           f == file.root
<1>1. Defaults[cap] \in Nat
  BY DefaultsAssumption, DocumentedDefaults DEF InRange, Required, Ports, Durations
<1>2. CASE loaded /\ file.readable
  <2>1. config = Loaded(f) /\ Typed(f)
    BY <1>2, FilesAssumption DEF ReadFromFile
  <2>2. config.values[cap] = Value(f, cap) /\ config.advertise = Addresses(f["advertise_address"])
    BY <2>1, DefaultsAssumption DEF Loaded, Required, Outbox
  <2>3. Value(f, cap) \in Nat
    <3>1. Parsed(cap, f[cap].value) = parseMaxEndpoints(f[cap].value, 0) /\ Sentinel(cap) = 0
      BY DEF Parsed, Sentinel, Ports, Durations, Marks
    <3>2. IsScalar(f, cap) => f[cap].value \in Int
      <4>1. cap \in DOMAIN Defaults /\ cap # "multicast_ip" /\ cap \notin Marks
        BY DefaultsAssumption DEF Required, Marks
      <4>. QED
        BY <2>1, <4>1, NumberTyped
    <3>3. Valid(f, cap) => parseMaxEndpoints(f[cap].value, 0) \in Nat
      BY <3>2, LimitsAreNat DEF Valid, parseMaxEndpoints, Decimal
    <3>. QED
      BY <1>1, <3>1, <3>3 DEF Value
  <2>4. Addresses(f["advertise_address"]) \in Seq(ToSet(Addresses(f["advertise_address"])))
    <3> DEFINE items == Items(f["advertise_address"])
               wanted == ToSet(items) \ {Empty, NoScalar}
               kept == Kept(items, wanted)
    <3>1. items \in Seq(ToSet(items))
      BY <1>2, FilesAssumption DEF ReadFromFile, Lists
    <3> HIDE DEF items, wanted
    <3>2. kept \in Seq(ToSet(items))
      BY <3>1, KeptInTurn
    <3> HIDE DEF kept
    <3>3. Len(kept) \in Nat /\ kept \in [1..Len(kept) -> ToSet(kept)]
      BY <3>2 DEF ToSet
    <3>4. kept \in Seq(ToSet(kept))
      BY <3>3
    <3>. QED
      BY <3>4 DEF Addresses, kept, wanted, items
  <2>. QED
    BY <2>2, <2>3, <2>4
<1>3. CASE ~(loaded /\ file.readable)
  <2>1. config = DefaultConfig
    BY <1>3 DEF ReadFromFile
  <2>. QED
    BY <1>1, <2>1 DEF DefaultConfig
<1>. QED
  BY <1>2, <1>3

(***************************************************************************)
(* The endpoints of every heartbeat are the distinct addresses, configured *)
(* ones first, each source in its order, as far as the cap allows.         *)
(***************************************************************************)
THEOREM EndpointsAlwaysInOrder == Spec => []EndpointsInOrder
<1>1. Init => EndpointsInOrder
  BY DEF Init, EndpointsInOrder
<1>2. ReadFromFile /\ EndpointsInOrder /\ [Next]_vars => EndpointsInOrder'
  <2> SUFFICES ASSUME ReadFromFile, EndpointsInOrder, [Next]_vars PROVE EndpointsInOrder'
    OBVIOUS
  <2>1. CASE loadConfig
    <3>1. found' = {}
      BY <2>1 DEF loadConfig, ReadFromFile
    <3>. QED
      BY <3>1 DEF EndpointsInOrder
  <2>2. ASSUME NEW discovered \in Interfaces, RefreshEndpoints(discovered) PROVE EndpointsInOrder'
    <3> DEFINE V == ToSet(config.advertise) \cup ToSet(discovered)
    <3>1. config.advertise \in Seq(ToSet(config.advertise))
          /\ config.values["max_advertised_endpoints"] \in Nat
      BY ListsAndCap
    <3>2. discovered \in Seq(ToSet(discovered))
      BY <2>2, InterfacesAssumption
    <3>3. config.advertise \in Seq(V) /\ discovered \in Seq(V)
      BY <3>1, <3>2
    <3> HIDE DEF V
    <3>4. InTurn(buildSelfEndpoints(discovered), config.advertise \o discovered,
                 config.values["max_advertised_endpoints"])
      BY <3>1, <3>3, HeartbeatInTurn
    <3>5. /\ found' = {discovered} /\ config' = config
          /\ advertised' = buildSelfEndpoints(discovered)
      BY <2>2 DEF RefreshEndpoints
    <3>. QED
      BY <3>4, <3>5 DEF EndpointsInOrder
  <2>3. CASE UNCHANGED vars
    BY <2>3 DEF vars, EndpointsInOrder
  <2>. QED
    BY <2>1, <2>2, <2>3 DEF Next
<1>. QED
  BY <1>1, <1>2, ReadFromFileHolds, PTL DEF Spec

===============================================================================
