---------------------------- MODULE Configuration ----------------------------
(***************************************************************************)
(* The configuration of a node: config.yml as it is read and validated key *)
(* by key (EdrielConfig.cpp), and what the node makes of it: the endpoints *)
(* of its heartbeats, the marks of its outboxes (Edriel.cpp,               *)
(* EdrielGrpcService.cpp).  A scalar of the file is a number, or NotDecimal *)
(* for a text that is no strict decimal integer; that of a water mark is   *)
(* what stod makes of it, and whether it is written in plain decimals.     *)
(* The words of the machine are parameters: a number that does not fit     *)
(* unsigned long is an error of from_chars, a cast wraps.                  *)
(***************************************************************************)
EXTENDS Integers, Sequences, FiniteSets, SequencesExt

CONSTANTS
  U32, I64, U64,   \* 2^32, 2^63 and 2^64
  Bits,            \* the width of unsigned long
  One,             \* 1.0 as a water mark; marks are counted in fractions of it
  MaxDuration,     \* kMaxConfigurableDuration in seconds
  MaxPort,
  EndpointsCap,    \* kMaxAdvertisedEndpointsCap
  MaxReceivers, MaxWorkers,
  MaxRcvbuf,       \* kMaxSoRcvbufBytes
  Defaults,        \* the defaults of the keys that hold one value
  HeaderBytes, EndpointBytes, \* what a heartbeat and an endpoint of it take
  recvBufferSize,
  Files,           \* the contents of config.yml
  Interfaces       \* what discoverLocalUnicastIpv4 may return

ASSUME WordsAssumption ==
  /\ {U32, I64, U64} \subseteq Nat
  /\ {MaxDuration, MaxPort, EndpointsCap, MaxReceivers, MaxWorkers, MaxRcvbuf} \subseteq 1..(U32 - 2)
  /\ U32 < I64 /\ I64 < U64
  /\ Bits \in Nat /\ U64 = 2 ^ Bits

VARIABLES
  file,        \* the content of the file, of Files
  loaded,      \* loadConfig has returned
  config,      \* the Config
  advertised,  \* the endpoints in discoveryMessage
  found        \* {} before they are first built, then {the interfaces found last}

vars == <<file, loaded, config, advertised, found>>

NotDecimal == -9

-------------------------------------------------------------------------------
(***************************************************************************)
(* The parsers of single values.                                           *)
(***************************************************************************)
Decimal(n) == n >= 0 /\ n < U64      \* from_chars succeeds
Signed(n) == IF n >= I64 THEN n - U64 ELSE n

parseDurationSeconds(n, fallback) ==
  IF ~Decimal(n) \/ n < 1 \/ Signed(n) > MaxDuration THEN fallback ELSE Signed(n)

parsePort(n, fallback) == IF ~Decimal(n) \/ n < 1 \/ n > MaxPort THEN fallback ELSE n

parseMaxEndpoints(n, fallback) ==
  IF ~Decimal(n) \/ n < 1 THEN fallback
  ELSE IF n >= EndpointsCap THEN EndpointsCap ELSE n

parseCountRange(n, min, max, fallback) ==
  IF ~Decimal(n) \/ n < min \/ n > max THEN fallback ELSE n

\* A single bit of the word.
PowerOfTwo(n) == \E k \in 0..(Bits - 1) : n = 2 ^ k

parseRingSlots(n, fallback) ==
  IF ~Decimal(n) \/ n < 2 \/ ~PowerOfTwo(n) THEN fallback ELSE n

parseOutboxMaxFrames(n, fallback) == IF ~Decimal(n) \/ n = 0 THEN fallback ELSE n

\* An open interval; a mark may be negative.  stod also takes exponents, hex
\* digits, leading blanks and signs: the notation is not looked at.
parseWaterMark(text, low, high, fallback) ==
  IF text.mark # NotDecimal /\ text.mark > low /\ text.mark < high THEN text.mark ELSE fallback

parseRateLimit(n, fallback) == IF ~Decimal(n) THEN fallback ELSE n % U32

\* An address is its octets; one that is no octet is out of 0..255.
parseMulticastAddress(octets, fallback) ==
  IF /\ Len(octets) = 4
     /\ \A i \in 1..4 : octets[i] \in 0..255
     /\ octets[1] \in 224..239
  THEN octets ELSE fallback

-------------------------------------------------------------------------------
(***************************************************************************)
(* loadConfig.  A node of the file is absent, null, a scalar, a sequence   *)
(* of items or a map.                                                      *)
(***************************************************************************)
Durations == {"discovery_period_seconds", "participant_timeout_seconds"}
Ports == {"port", "grpc_port"}
Required == Durations \cup Ports \cup {"multicast_ip", "max_advertised_endpoints"}
Optional == {"receiver_threads", "worker_threads", "rx_ring_slots", "so_rcvbuf_bytes",
             "reliable_send_rate_limit"}
Outbox == {"reliable_outbox_max_frames", "reliable_outbox_hwm", "reliable_outbox_lwm"}
Marks == {"reliable_outbox_hwm", "reliable_outbox_lwm"}
Lists == {"advertise_address", "peers"}
Keys == Required \cup Optional \cup Outbox \cup Lists

IsScalar(f, key) == f[key].form = "scalar"

\* The value no valid text gives: loadConfig passes it as the fallback.
Sentinel(key) ==
  CASE key = "multicast_ip" -> <<>>
    [] key \in {"so_rcvbuf_bytes", "reliable_send_rate_limit"} -> U32 - 1
    [] key \in Marks -> -One
    [] OTHER -> 0

Parsed(key, v) ==
  CASE key \in Ports                        -> parsePort(v, Sentinel(key))
    [] key \in Durations                    -> parseDurationSeconds(v, Sentinel(key))
    [] key = "multicast_ip"                 -> parseMulticastAddress(v, Sentinel(key))
    [] key = "max_advertised_endpoints"     -> parseMaxEndpoints(v, Sentinel(key))
    [] key = "receiver_threads"             -> parseCountRange(v, 1, MaxReceivers, Sentinel(key))
    [] key = "worker_threads"               -> parseCountRange(v, 1, MaxWorkers, Sentinel(key))
    [] key = "rx_ring_slots"                -> parseRingSlots(v, Sentinel(key))
    [] key = "so_rcvbuf_bytes"              -> parseCountRange(v, 0, MaxRcvbuf, Sentinel(key))
    [] key = "reliable_send_rate_limit"     -> parseRateLimit(v, Sentinel(key))
    [] key = "reliable_outbox_max_frames"   -> parseOutboxMaxFrames(v, Sentinel(key))
    [] OTHER                                -> parseWaterMark(v, 0, One, Sentinel(key))

Valid(f, key) == IsScalar(f, key) /\ Parsed(key, f[key].value) # Sentinel(key)
Invalid(f, key) == IsScalar(f, key) /\ ~Valid(f, key)
Value(f, key) == IF Valid(f, key) THEN Parsed(key, f[key].value) ELSE Defaults[key]

\* A required key falls back also when it is not there, or is no scalar.
FallsBack(f, key) == IF key \in Required THEN ~Valid(f, key) ELSE Invalid(f, key)

\* Mutant: the marks are not compared.
EachMarkValid(f) == \A key \in Outbox : ~Invalid(f, key)

\* The three keys of the outbox stand or fall together.
OutboxCoherent(f) ==
  /\ \A key \in Outbox : ~Invalid(f, key)
  /\ Value(f, "reliable_outbox_lwm") < Value(f, "reliable_outbox_hwm")

OutboxValue(f, key) == IF OutboxCoherent(f) THEN Value(f, key) ELSE Defaults[key]

\* The items of a list; an item is no scalar, empty, or an address or a peer.
Items(node) ==
  CASE node.form = "scalar"   -> <<node.value>>
    [] node.form = "sequence" -> node.value
    [] OTHER                  -> <<>>
Empty == [kind |-> "empty"]
NoScalar == [kind |-> "map"]

\* The loops over a list: an item that is wanted is pushed back.
Kept(items, wanted) ==
  LET kept[n \in 0..Len(items)] ==
        IF n = 0 THEN <<>>
        ELSE IF items[n] \in wanted THEN Append(kept[n - 1], items[n])
        ELSE kept[n - 1]
  IN  kept[Len(items)]

Addresses(node) == Kept(Items(node), ToSet(Items(node)) \ {Empty, NoScalar})
AddressesInvalid(node) ==
  node.form = "map" \/ \E i \in DOMAIN Items(node) : Items(node)[i] = NoScalar

\* A peer is a host, with the text after the last colon if there is one.
IsPeer(item) ==
  item.kind = "host" \/ (item.kind = "endpoint" /\ parsePort(item.port, 0) # 0)

\* Mutant: a bare host gets the default port.
PeerAtDefault(item, port) ==
  [host |-> item.host,
   port |-> IF item.kind = "host" THEN Defaults["grpc_port"] ELSE item.port]

Peer(item, port) ==
  [host |-> item.host, port |-> IF item.kind = "host" THEN port ELSE item.port]

Peers(node, port) ==
  LET good == Kept(Items(node), {item \in ToSet(Items(node)) : IsPeer(item)})
  IN  [i \in DOMAIN good |-> Peer(good[i], port)]

\* A null is no sequence and no scalar, so that it is invalid here.
PeersInvalid(node) ==
  \/ node.form \in {"null", "map"}
  \/ \E i \in DOMAIN Items(node) : ~IsPeer(Items(node)[i])

\* The defaults of the header: an entry for each key of one value, the marks in
\* order.
ASSUME DefaultsAssumption ==
  /\ DOMAIN Defaults = Required \cup Optional \cup Outbox
  /\ \A key \in DOMAIN Defaults \ {"multicast_ip"} : Defaults[key] \in Int
  /\ Defaults["max_advertised_endpoints"] < EndpointsCap
  /\ One \in Int
  /\ 0 < Defaults["reliable_outbox_lwm"]
  /\ Defaults["reliable_outbox_lwm"] < Defaults["reliable_outbox_hwm"]
  /\ Defaults["reliable_outbox_hwm"] < One
  /\ Defaults["reliable_outbox_max_frames"] > 0

\* The text of a scalar is a number or NotDecimal, that of an address its octets,
\* that of a mark its value and its notation.
Typed(f) ==
  \A key \in DOMAIN Defaults : IsScalar(f, key) =>
    f[key].value \in CASE key = "multicast_ip" -> Seq(Int)
                       [] key \in Marks        -> [strict : BOOLEAN, mark : Int]
                       [] OTHER                -> Int

\* A list has its items in order; the text after a colon is a number or NotDecimal.
ASSUME FilesAssumption ==
  \A content \in Files : content.readable =>
    /\ Typed(content.root)
    /\ \A key \in Lists : Items(content.root[key]) \in Seq(ToSet(Items(content.root[key])))
    /\ \A item \in ToSet(Items(content.root["peers"])) : item.kind = "endpoint" => item.port \in Int

ASSUME InterfacesAssumption == \A discovered \in Interfaces : discovered \in Seq(ToSet(discovered))

DefaultConfig == [values |-> Defaults, advertise |-> <<>>, peers |-> <<>>, fellBack |-> FALSE]

\* Mutant: an invalid value of the outbox falls back without a word.
SilentFallback(f) == \E key \in Required \cup Optional : FallsBack(f, key)

FellBack(f) ==
  \/ \E key \in Required \cup Optional : FallsBack(f, key)
  \/ ~OutboxCoherent(f)
  \/ AddressesInvalid(f["advertise_address"])
  \/ PeersInvalid(f["peers"])

Loaded(f) ==
  [values    |-> [key \in DOMAIN Defaults |->
                    IF key \in Outbox THEN OutboxValue(f, key) ELSE Value(f, key)],
   advertise |-> Addresses(f["advertise_address"]),
   peers     |-> Peers(f["peers"], Value(f, "grpc_port")),
   fellBack  |-> FellBack(f)]

\* A file that is missing, empty, no YAML or no map gives the defaults.
loadConfig ==
  /\ ~loaded
  /\ loaded' = TRUE
  /\ config' = IF file.readable THEN Loaded(file.root) ELSE DefaultConfig
  /\ UNCHANGED <<file, advertised, found>>

-------------------------------------------------------------------------------
(***************************************************************************)
(* What the node makes of it.                                              *)
(***************************************************************************)
\* Mutant: an address that is there already is appended again.
AppendedAgain(result, address) ==
  IF Len(result) >= config.values["max_advertised_endpoints"] THEN result
  ELSE Append(result, address)

\* The append of buildSelfEndpoints: every endpoint has the port grpcPort, so
\* that one is a duplicate if its address is.
Appended(result, address) ==
  IF \/ Len(result) >= config.values["max_advertised_endpoints"]
     \/ \E i \in DOMAIN result : result[i] = address
  THEN result ELSE Append(result, address)

buildSelfEndpoints(discovered) ==
  LET addresses == config.advertise \o discovered
      result[n \in 0..Len(addresses)] ==
        IF n = 0 THEN <<>> ELSE Appended(result[n - 1], addresses[n])
  IN  result[Len(addresses)]

\* The constructor, and startAutoDiscoverySender before each heartbeat.
RefreshEndpoints(discovered) ==
  /\ loaded
  /\ advertised' = buildSelfEndpoints(discovered)
  /\ found' = {discovered}
  /\ UNCHANGED <<file, loaded, config>>

\* The thresholds of SubscriberReactor, and its guards.
MaxFrames == config.values["reliable_outbox_max_frames"]
Frames(mark) == (config.values[mark] * MaxFrames) \div One

\* Mutant: a mark that rounds to no frame stays zero.
HighUnguarded == Frames("reliable_outbox_hwm")

HighWaterFrames ==
  LET raw == IF Frames("reliable_outbox_hwm") = 0 THEN 1 ELSE Frames("reliable_outbox_hwm")
  IN  IF raw >= MaxFrames THEN MaxFrames - 1 ELSE raw

LowWaterFrames ==
  IF Frames("reliable_outbox_lwm") >= HighWaterFrames THEN HighWaterFrames \div 2
  ELSE Frames("reliable_outbox_lwm")

Init ==
  /\ file \in Files
  /\ loaded = FALSE
  /\ config = DefaultConfig
  /\ advertised = <<>>
  /\ found = {}

Next == loadConfig \/ \E discovered \in Interfaces : RefreshEndpoints(discovered)

Spec == Init /\ [][Next]_vars

-------------------------------------------------------------------------------
(***************************************************************************)
(* Properties.  Each is a reference definition of what the header, the     *)
(* comments of config.yml and the modules that use the value require.      *)
(***************************************************************************)
(***************************************************************************)
(* "Values are always valid" (Config): whatever is in the file, every      *)
(* value is in the range its member documents, the durations in "[1,       *)
(* 86400] seconds".                                                        *)
(***************************************************************************)
RangesHold ==
  loaded =>
    LET v == config.values
    IN  /\ \A key \in Durations : v[key] \in 1..MaxDuration
        /\ \A key \in Ports : v[key] \in 1..MaxPort
        /\ Len(v["multicast_ip"]) = 4 /\ v["multicast_ip"][1] \in 224..239
        /\ v["max_advertised_endpoints"] \in 1..EndpointsCap
        /\ v["receiver_threads"] \in 1..MaxReceivers
        /\ v["worker_threads"] \in 1..MaxWorkers
        /\ v["rx_ring_slots"] >= 2 /\ PowerOfTwo(v["rx_ring_slots"])
        /\ v["so_rcvbuf_bytes"] \in 0..MaxRcvbuf
        /\ v["reliable_send_rate_limit"] \in 0..(U32 - 1)
        /\ v["reliable_outbox_max_frames"] \in 1..(U64 - 1)
        /\ \A i \in DOMAIN config.peers : config.peers[i].port \in 1..MaxPort

\* What the documents make of a text, and the values they accept for a key.
Meant(key, text) ==
  CASE key \in Marks -> text.mark
    [] key = "max_advertised_endpoints" /\ text > EndpointsCap -> EndpointsCap
    [] OTHER -> text
InRange(key, n) ==
  CASE key \in Ports                                 -> n \in 1..MaxPort
    [] key \in Durations                             -> n \in 1..MaxDuration
    [] key = "max_advertised_endpoints"              -> n \in 1..(U64 - 1)
    [] key = "receiver_threads"                      -> n \in 1..MaxReceivers
    [] key = "worker_threads"                        -> n \in 1..MaxWorkers
    [] key = "rx_ring_slots"                         -> n >= 2 /\ n < U64 /\ PowerOfTwo(n)
    [] key = "so_rcvbuf_bytes"                       -> n \in 0..MaxRcvbuf
    [] key = "reliable_send_rate_limit"              -> n \in 0..(U32 - 1)
    [] key = "reliable_outbox_max_frames"            -> n \in 1..(U64 - 1)
    [] key \in Marks                                 -> 0 < n /\ n < One
    [] OTHER -> Len(n) = 4 /\ n[1] \in 224..239 /\ \A i \in 2..4 : n[i] \in 0..255

\* "Scientific notation is not accepted" of a mark.
Documented(key, text) ==
  IF key \in Marks THEN text.strict /\ InRange(key, text.mark) ELSE InRange(key, text)

\* The defaults of the header are what it documents, too.
ASSUME DocumentedDefaults == \A key \in DOMAIN Defaults : InRange(key, Defaults[key])

\* The numbers that survive the casts of parseDurationSeconds and parseRateLimit,
\* and that are not the sentinel of the latter.
Fits(key, n) ==
  /\ key \in Durations => n < I64
  /\ key = "reliable_send_rate_limit" => n < U32 - 1

(***************************************************************************)
(* "Any key that is missing, unparseable, or out of range retains its      *)
(* default", and fellBackToDefaults tells: what the documents accept is    *)
(* what the node runs with, and only that.  The keys of the outbox are     *)
(* accepted together, if each is in range and the marks are in order, and  *)
(* are the defaults together otherwise, which is flagged.  Through the     *)
(* sentinels and casts of loadConfig, for the numbers that fit them.       *)
(***************************************************************************)
UsedOrFlagged ==
  loaded /\ file.readable =>
    LET f == file.root
        v == config.values
        Plain == DOMAIN Defaults \ Outbox
        written(key) == IF IsScalar(f, key) THEN Meant(key, f[key].value) ELSE Defaults[key]
        together == /\ \A key \in Outbox : InRange(key, written(key))
                    /\ written("reliable_outbox_lwm") < written("reliable_outbox_hwm")
    IN  /\ \A key \in Plain : ~IsScalar(f, key) =>
             v[key] = Defaults[key] /\ (key \in Required => config.fellBack)
        /\ \A key \in Plain : IsScalar(f, key) /\ Fits(key, f[key].value) =>
             IF Documented(key, f[key].value) THEN v[key] = written(key)
             ELSE v[key] = Defaults[key] /\ config.fellBack
        /\ IF together THEN \A key \in Outbox : v[key] = written(key)
           ELSE (\A key \in Outbox : v[key] = Defaults[key]) /\ config.fellBack

(***************************************************************************)
(* The same of every text: one that the documents refuse, a mark in        *)
(* scientific notation (EdrielConfig.cpp:120-122) or a number out of       *)
(* range, leaves the default.                                              *)
(***************************************************************************)
RefusedKeepsDefault ==
  loaded /\ file.readable =>
    \A key \in DOMAIN Defaults :
      IsScalar(file.root, key) /\ ~Documented(key, file.root[key].value) =>
        config.values[key] = Defaults[key] /\ config.fellBack

\* How many of the places there are up to one of them.
Rank(places, n) == Cardinality({m \in places : m <= n})

(***************************************************************************)
(* Static peers are dialled where the file says: each entry that is a peer *)
(* is one peer of the configuration, in the order of the file, with the    *)
(* port it is written with, or this node's own grpc_port if it is a bare   *)
(* host; an entry that is left out is flagged, also if all are.            *)
(***************************************************************************)
PeersResolved ==
  loaded /\ file.readable =>
    LET node == file.root["peers"]
        items == Items(node)
        good == {j \in DOMAIN items : \/ items[j].kind = "host"
                                      \/ items[j].kind = "endpoint" /\ items[j].port \in 1..MaxPort}
    IN  /\ Len(config.peers) = Cardinality(good)
        /\ \A j \in good :
             config.peers[Rank(good, j)] =
               [host |-> items[j].host,
                port |-> IF items[j].kind = "host" THEN config.values["grpc_port"]
                         ELSE items[j].port]
        /\ good # DOMAIN items \/ node.form = "map" => config.fellBack

\* The distinct addresses of a list in the order they first come, up to a number.
InTurn(endpoints, addresses, most) ==
  LET firsts == {n \in DOMAIN addresses : \A m \in 1..(n - 1) : addresses[m] # addresses[n]}
  IN  /\ Len(endpoints) = IF Cardinality(firsts) < most THEN Cardinality(firsts) ELSE most
      /\ \A n \in firsts : Rank(firsts, n) <= most => endpoints[Rank(firsts, n)] = addresses[n]

(***************************************************************************)
(* The endpoints of a heartbeat are the distinct addresses, the configured *)
(* ones first and each source in its order, as far as the cap allows, none *)
(* twice and none left out below the cap.                                  *)
(***************************************************************************)
EndpointsInOrder ==
  \A discovered \in found :
    InTurn(advertised, config.advertise \o discovered, config.values["max_advertised_endpoints"])

(***************************************************************************)
(* The marks of an outbox leave it usable, from whatever trio the file     *)
(* gives: the fractions are in (0, 1) and in order, and an outbox of more  *)
(* than one frame accepts a frame when it is empty, refuses one before it  *)
(* is full, and resumes below where it refused.                            *)
(***************************************************************************)
OutboxUsable ==
  loaded =>
    /\ 0 < config.values["reliable_outbox_lwm"]
    /\ config.values["reliable_outbox_lwm"] < config.values["reliable_outbox_hwm"]
    /\ config.values["reliable_outbox_hwm"] < One
    /\ MaxFrames > 1 => /\ 0 < HighWaterFrames /\ HighWaterFrames < MaxFrames
                        /\ LowWaterFrames < HighWaterFrames

\* What the configuration is, once it is loaded: the invariant of the proofs.
ReadFromFile ==
  /\ file \in Files
  /\ config = IF loaded /\ file.readable THEN Loaded(file.root) ELSE DefaultConfig
  /\ ~loaded => advertised = <<>> /\ found = {}

\* "Empty peers = discover peers via multicast only", not a fallback.
EmptyPeersAreNoFallback ==
  loaded /\ file.readable =>
    (config.fellBack => \/ \E key \in Required \cup Optional : FallsBack(file.root, key)
                        \/ ~OutboxCoherent(file.root)
                        \/ file.root["advertise_address"].form \notin {"absent", "null"}
                        \/ file.root["peers"].form \notin {"absent", "null"})

(***************************************************************************)
(* "Cap on advertised Endpoint candidates per heartbeat (MTU guard)": a    *)
(* heartbeat is no longer than what a peer reads of a datagram.            *)
(***************************************************************************)
HeartbeatFits == HeaderBytes + EndpointBytes * Len(advertised) <= recvBufferSize
===============================================================================
