--------------------------- MODULE MCConfiguration ---------------------------
(***************************************************************************)
(* The configuration for TLC.  The limits are those of the header; the     *)
(* words of the machine are smaller than they are, but in the same order   *)
(* and above the limits.  A file is a valid one of which one key, or one   *)
(* group of keys that are read together, is anything.                      *)
(***************************************************************************)
EXTENDS Configuration

MCU32 == 2 ^ 20
MCI64 == 2 ^ 24
MCBits == 25
MCU64 == 2 ^ MCBits
MCMaxRcvbuf == 2 ^ 18

MCDefaults ==
  [port |-> 30002, grpc_port |-> 4000, multicast_ip |-> <<239, 255, 0, 1>>,
   discovery_period_seconds |-> 2, participant_timeout_seconds |-> 10,
   max_advertised_endpoints |-> 4, receiver_threads |-> 1, worker_threads |-> 4,
   rx_ring_slots |-> 4096, so_rcvbuf_bytes |-> 0, reliable_outbox_max_frames |-> 1024,
   reliable_outbox_hwm |-> 6, reliable_outbox_lwm |-> 2, reliable_send_rate_limit |-> 0]

Absent == [form |-> "absent"]
Scalar(v) == [form |-> "scalar", value |-> v]
Sequence(v) == [form |-> "sequence", value |-> v]

\* The limits, their neighbours, and the ends of the words.
Edges == {NotDecimal, 0, 1, 2, 3, 4, 5, 16, 17, 64, 65, 4096, MaxPort, MaxPort + 1,
          MaxDuration, MaxDuration + 1, MaxRcvbuf, MaxRcvbuf + 1,
          U32 - 1, U32, U32 + 5, I64 - 1, I64, U64 - 5, U64 - 1, U64}
Octets == {0, 223, 224, 239, 240, 255, 256}
Groups == {<<a, 255, b, 1>> : a, b \in Octets} \cup {<<>>, <<239, 255, 1>>, <<239, 1, 1, 1, 1>>}

Basis == [key \in Keys |-> Absent]
Complete == [key \in Keys |-> IF key \in Required THEN Scalar(MCDefaults[key]) ELSE Absent]
Others == {Absent, [form |-> "null"], [form |-> "map"]}

OneNumber ==
  UNION {{[Complete EXCEPT ![key] = node] : node \in Others \cup {Scalar(n) : n \in Edges}} :
           key \in (Required \cup Optional) \ {"multicast_ip"}}
OneGroup == {[Complete EXCEPT !["multicast_ip"] = Scalar(g)] : g \in Groups}

Text(strict, m) == [strict |-> strict, mark |-> m]
MarkTexts == {Text(TRUE, m) : m \in {NotDecimal, -1, 0, 1, 2, 6, 7, 8}} \cup {Text(FALSE, m) : m \in {1, 7}}
OutboxFrames == {NotDecimal, 0, 1, 2, 3, 4, 5, 1024, U64 - 1, U64}
OutboxFiles ==
  {[Complete EXCEPT !["reliable_outbox_max_frames"] = n, !["reliable_outbox_hwm"] = h,
                    !["reliable_outbox_lwm"] = l] :
     n \in {Absent} \cup {Scalar(k) : k \in OutboxFrames},
     h \in {Absent} \cup {Scalar(k) : k \in MarkTexts},
     l \in {Absent} \cup {Scalar(k) : k \in MarkTexts}}

Sequences(S) == {<<>>} \cup {<<a>> : a \in S} \cup (S \X S) \cup (S \X S \X S)

PeerItems ==
  {Empty, NoScalar, [kind |-> "host", host |-> "a"], [kind |-> "endpoint", host |-> "a", port |-> 1],
   [kind |-> "endpoint", host |-> "b", port |-> MaxPort], [kind |-> "endpoint", host |-> "b", port |-> 0]}
PeerFiles ==
  {[Complete EXCEPT !["peers"] = p, !["grpc_port"] = g] :
     p \in Others \cup {Scalar(i) : i \in PeerItems \ {NoScalar}} \cup {Sequence(s) : s \in Sequences(PeerItems)},
     g \in {Absent, Scalar(1), Scalar(0), Scalar(MaxPort)}}

Host(a) == [kind |-> "host", host |-> a]
AddressItems == {Empty, NoScalar, Host(1), Host(2)}
AddressFiles ==
  {[Complete EXCEPT !["advertise_address"] = a, !["max_advertised_endpoints"] = c] :
     a \in Others \cup {Scalar(i) : i \in AddressItems \ {NoScalar}} \cup {Sequence(s) : s \in Sequences(AddressItems)},
     c \in {Scalar(1), Scalar(2), Scalar(3)}}

Readable(roots) == {[readable |-> TRUE, root |-> r] : r \in roots}
MCFiles ==
  Readable(OneNumber \cup OneGroup \cup OutboxFiles \cup PeerFiles \cup AddressFiles)
    \cup {[readable |-> FALSE, root |-> Basis], [readable |-> TRUE, root |-> Basis]}

MCInterfaces == {<<>>, <<Host(2)>>, <<Host(3), Host(1), Host(3)>>}

\* A mark in each notation.
MCNotations ==
  Readable({[Complete EXCEPT !["reliable_outbox_hwm"] = Scalar(Text(strict, 5))] : strict \in BOOLEAN})
\* Durations of any size.
MCLongDurations ==
  Readable({[Complete EXCEPT !["discovery_period_seconds"] = Scalar(n)] : n \in Edges})
\* Rates of any size.
MCRates ==
  Readable({[Complete EXCEPT !["reliable_send_rate_limit"] = Scalar(n)] : n \in Edges})
\* A node with many addresses, all of which it is told to advertise.
MCManyAddresses ==
  Readable({[Complete EXCEPT !["max_advertised_endpoints"] = Scalar(EndpointsCap),
               !["advertise_address"] = Sequence([i \in 1..n |-> Host(i)])] :
               n \in {1, 59, 60, 64, 65}})
===============================================================================
