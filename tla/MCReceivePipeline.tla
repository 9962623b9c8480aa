-------------------------- MODULE MCReceivePipeline --------------------------
(***************************************************************************)
(* The receive pipeline for TLC: two shards, two topics and the datagrams  *)
(* a sender produces, with the forms of body that are routed differently.  *)
(***************************************************************************)
EXTENDS ReceivePipeline

CONSTANTS u1   \* the uid of a peer

F(number, form, value) == [number |-> number, form |-> form, value |-> value]
Text(number, value) == F(number, "len", value)
Bytes == F(4, "len", "")
Sender == F(1, "len", "")

DataOf(topic, type) == << Text(3, <<Sender, Text(2, topic), Text(3, type), Bytes>>) >>

\* As SerializeToString writes them: data of topic a, its advertisement, data
\* of topic b, data of topic a without a message type, a heartbeat.  Then data
\* of topic a by a newer writer, with fields this version does not know, and
\* what is not of this protocol, of no bytes, cut short, or damaged in a length.
Message(body) == [empty |-> FALSE, magic |-> TRUE, body |-> body]
Foreign(empty) == [empty |-> empty, magic |-> FALSE, body |-> <<>>]

MCWire ==
  [a         |-> Message(DataOf("a", "x")),
   advert    |-> Message(<< Text(2, <<"a", "x">>) >>),
   b         |-> Message(DataOf("b", "x")),
   untyped   |-> Message(<< Text(3, <<Sender, Text(2, "a"), Bytes>>) >>),
   heartbeat |-> Message(<< Text(1, u1) >>),
   newer     |-> Message(<< F(9, "scalar", ""),
                            Text(3, <<F(7, "scalar", ""), Text(3, "x"), Text(2, "a"), Bytes>>) >>),
   foreign   |-> Foreign(FALSE),
   empty     |-> Foreign(TRUE),
   cut       |-> Message(<< Text(3, <<Sender, Text(2, "a"), F(3, "bad", "")>>) >>),
   damaged   |-> Message(<< Text(3, <<Sender, Text(2, "a"), F(3, "wrap", "")>>) >>),
   \* Two data messages in one body, which protobuf merges.
   merged    |-> Message(DataOf("b", "x") \o DataOf("a", "x"))]

MCDatagrams == {"a", "advert", "b", "damaged", "empty"}
MCEvery == DOMAIN MCWire

MCShardOfUid == [u \in {u1} |-> 2]
MCShardOfKey == [key \in {"", "a", "b"} \X {"", "x"} |-> IF key = <<"a", "x">> THEN 1 ELSE 2]
===============================================================================
