----------------------------- MODULE WireRouting -----------------------------
(***************************************************************************)
(* How the receiver chooses the shard of a datagram before it is decoded   *)
(* (Edriel.cpp).  A body is a sequence of protobuf fields; a field has a   *)
(* number, a form and a value.  The form is "len" for a length-delimited   *)
(* field, "scalar" for one that is skipped by its width, "wrap" for one    *)
(* with a length near 2^64, which the sum `p + length` wraps around, and   *)
(* "bad" for other bytes that are no field: a truncated varint, a span     *)
(* that runs past the end, a group.  Strings are values of which one is    *)
(* the empty string.                                                       *)
(***************************************************************************)
EXTENDS Integers, Sequences, FiniteSets

CONSTANTS
  EmptyString,  \* the empty std::string
  ShardOfUid,   \* shardIndexForUid
  ShardOfKey    \* shardIndexForTopic, of a topic name and a message type

Dropped == 0            \* no shard: the datagram is not enqueued
NoKey == <<EmptyString, EmptyString>>

\* The field numbers of Message and of DataMessage (autoDiscovery.proto).
IdentifierField == 1
AdvertisementField == 2
DataField == 3
TopicNameField == 2
MessageTypeField == 3

IsList(fields) == fields \in Seq({fields[i] : i \in DOMAIN fields})
Prefix(fields, i) == SubSeq(fields, 1, i)
IllFormed(fields) == {i \in DOMAIN fields : fields[i].form \in {"bad", "wrap"}}
WellFormed(fields) == IllFormed(fields) = {}
Spans(fields) == {i \in DOMAIN fields : fields[i].form = "len"}
Greatest(S) == CHOOSE i \in S : \A j \in S : j <= i
Least(S) == CHOOSE i \in S : \A j \in S : i <= j

\* The value a string field has after the fields were read in order.
LastString(fields, number) ==
  LET at == {i \in Spans(fields) : fields[i].number = number}
  IN  IF at = {} THEN EmptyString ELSE fields[Greatest(at)].value

KeyOf(fields) == <<LastString(fields, TopicNameField), LastString(fields, MessageTypeField)>>

\* Mutant: the walk over a data message returns with the topic name alone.
KeyAtTopicName(fields) ==
  LET enough == {i \in 0..Len(fields) :
                   LastString(Prefix(fields, i), TopicNameField) # EmptyString}
  IN  IF enough = {} THEN NoKey ELSE KeyOf(Prefix(fields, Least(enough)))

\* readDataMessageRoutingKey: it returns as soon as both strings have been
\* read, and gives up at the first bytes that are no field.
readDataMessageRoutingKey(fields) ==
  LET enough == {i \in 0..Len(fields) :
                   /\ WellFormed(Prefix(fields, i))
                   /\ \A k \in 1..2 : KeyOf(Prefix(fields, i))[k] # EmptyString}
  IN  IF enough = {} THEN NoKey ELSE KeyOf(Prefix(fields, Least(enough)))

\* The first length-delimited field ends the walk over the message; a length
\* that wraps there leaves no data message to read.
First(fields) == Least(Spans(fields))
StartsWithData(fields) ==
  /\ Spans(fields) # {}
  /\ WellFormed(Prefix(fields, First(fields)))
  /\ fields[First(fields)].number = DataField

\* tryReadRoutingKey: only a message whose first length-delimited field is the
\* data message is routed here.
tryReadRoutingKey(fields) ==
  IF StartsWithData(fields) THEN readDataMessageRoutingKey(fields[First(fields)].value) ELSE NoKey

\* lengthDelimited accepts a length that wraps and moves the cursor back.  The
\* walk over a data message that meets one before it has the key reads on
\* anywhere: it may find some key, give up, or not return (a string of that
\* length is an exception, and the bytes it went back to may lead it there again).
WalkWraps(fields) ==
  /\ StartsWithData(fields)
  /\ tryReadRoutingKey(fields) = NoKey
  /\ LET data == fields[First(fields)].value
     IN  ~WellFormed(data) /\ data[Least(IllFormed(data))].form = "wrap"

-------------------------------------------------------------------------------
(***************************************************************************)
(* ParseFromArray of the generated Message: the last member of the oneof   *)
(* wins, and a message field that occurs again is merged.                  *)
(***************************************************************************)
Members(fields) == {i \in Spans(fields) :
                      fields[i].number \in {IdentifierField, AdvertisementField, DataField}}

ContentCase(fields) ==
  IF Members(fields) = {} THEN 0 ELSE fields[Greatest(Members(fields))].number

\* The places of the field that wins, after the last member of another kind.
Winning(fields) ==
  {i \in Members(fields) :
     \A j \in Members(fields) : j >= i => fields[j].number = ContentCase(fields)}

\* The fields of the data message that wins: of all of its occurrences.
MergedData(fields) ==
  LET values[i \in 0..Len(fields)] ==
        IF i = 0 THEN <<>>
        ELSE IF i \in Winning(fields) THEN values[i - 1] \o fields[i].value
        ELSE values[i - 1]
  IN  values[Len(fields)]

ParseFromArray(fields) ==
  /\ WellFormed(fields)
  /\ \A i \in Members(fields) :
       fields[i].number = DataField => WellFormed(fields[i].value)

\* The topic or the peer a decoded message is about: what the worker's handler
\* locks the shard of.
Subject(fields) ==
  CASE ContentCase(fields) = DataField -> KeyOf(MergedData(fields))
    [] ContentCase(fields) = 0         -> NoKey
    [] OTHER                           -> fields[Greatest(Members(fields))].value

-------------------------------------------------------------------------------
\* Mutant: after a full decode the topic name alone is hashed.
RouteByName(fields) ==
  LET fast == tryReadRoutingKey(fields)
  IN  IF fast # NoKey THEN ShardOfKey[fast]
      ELSE IF ~ParseFromArray(fields) \/ ContentCase(fields) = 0 THEN Dropped
      ELSE IF ContentCase(fields) = IdentifierField THEN ShardOfUid[Subject(fields)]
      ELSE ShardOfKey[<<Subject(fields)[1], EmptyString>>]

\* The route of the body of a datagram.  A heartbeat goes by its uid, all else
\* by its topic; what does not parse, or has no content, is dropped.
Route(fields) ==
  LET fast == tryReadRoutingKey(fields)
  IN  IF fast # NoKey THEN ShardOfKey[fast]
      ELSE IF ~ParseFromArray(fields) \/ ContentCase(fields) = 0 THEN Dropped
      ELSE IF ContentCase(fields) = IdentifierField THEN ShardOfUid[Subject(fields)]
      ELSE ShardOfKey[Subject(fields)]
===============================================================================
