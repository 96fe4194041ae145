------------------------------ MODULE MqttWire ------------------------------
(***************************************************************************)
(* The packet format of coreMQTT (core_mqtt_serializer.c): the bytes of    *)
(* each request, and what is read out of the bytes of each answer.         *)
(*                                                                         *)
(* A byte is a number below 256 and a buffer or a string a sequence of     *)
(* bytes.  What a caller may leave out (NULL) is the empty sequence or a   *)
(* sequence of one; a buffer to write to is its size, NoBuffer if NULL.    *)
(***************************************************************************)
EXTENDS Integers, Sequences, FiniteSets, SequencesExt

CONNECT == 16
CONNACK == 32
PUBLISH == 48
PUBACK == 64
PUBREC == 80
PUBREL == 98
PUBCOMP == 112
SUBSCRIBE == 130
SUBACK == 144
UNSUBSCRIBE == 162
UNSUBACK == 176
PINGREQ == 192
PINGRESP == 208
DISCONNECT == 224

Byte == 0 .. 2^8 - 1
Word == 0 .. 2^16 - 1     \* uint16_t
MaxRemaining == 268435455  \* MQTT_MAX_REMAINING_LENGTH
NoBuffer == -1

Kind(b) == b - (b % 16)   \* the upper four bits
Flag(b, i) == (b \div 2^i) % 2 = 1
Bit(on, i) == IF on THEN 2^i ELSE 0
U16(n) == <<(n \div 256) % 256, n % 256>>
Decode16(b, i) == b[i] * 256 + b[i + 1]

-----------------------------------------------------------------------------
(* The remaining length                                                    *)

RemainingLengthEncodedSize(n) ==
  IF n < 128 THEN 1 ELSE IF n < 16384 THEN 2 ELSE IF n < 2097152 THEN 3 ELSE 4

\* Faulty: a full last byte is followed by an empty one.
EncodePadded(n) ==
  LET size == IF n % 128 = 127 THEN RemainingLengthEncodedSize(n) + 1 ELSE RemainingLengthEncodedSize(n)
  IN [i \in 1 .. size |-> ((n \div 128^(i - 1)) % 128) + Bit(i < size, 7)]

\* encodeRemainingLength: seven bits to a byte, the lowest first, as long as
\* something remains.
EncodeRemainingLength(n) ==
  LET size == CHOOSE k \in 1 .. 4 : n < 128^k /\ \A j \in 1 .. k - 1 : n >= 128^j
  IN [i \in 1 .. size |-> ((n \div 128^(i - 1)) % 128) + Bit(i < size, 7)]

\* Where the length that begins at b[2] ends: 0 if it goes on behind b, -1 if
\* behind the fourth byte.
LengthEnd(b) ==
  LET ends == {k \in 1 .. 4 : k < Len(b) /\ ~Flag(b[k + 1], 7) /\ \A j \in 1 .. k - 1 : Flag(b[j + 1], 7)}
  IN IF ends # {} THEN CHOOSE k \in ends : TRUE
     ELSE IF Len(b) >= 5 THEN -1 ELSE 0
LengthValue(b, k) == LET v[i \in 0 .. k] == IF i = 0 THEN 0 ELSE v[i - 1] + (b[i + 1] % 128) * 128^(i - 1) IN v[k]

\* processRemainingLength, on the bytes received so far.
ProcessRemainingLength(b) ==
  LET k == LengthEnd(b)
      n == LengthValue(b, k)
  IN IF k = 0 THEN [status |-> "NeedMoreBytes", remaining |-> 0, header |-> 0]
     ELSE IF k = -1 \/ RemainingLengthEncodedSize(n) # k THEN [status |-> "BadResponse", remaining |-> 0, header |-> 0]
     ELSE [status |-> "Success", remaining |-> n, header |-> k + 1]

\* getRemainingLength: byte by byte from the transport, which has only the
\* bytes b; one that has not arrived makes the length invalid.
GetRemainingLength(b) ==
  LET k == LengthEnd(b)
      n == LengthValue(b, k)
  IN IF k <= 0 \/ RemainingLengthEncodedSize(n) # k THEN [valid |-> FALSE, n |-> 0, used |-> Len(b)]
     ELSE [valid |-> TRUE, n |-> n, used |-> k + 1]

-----------------------------------------------------------------------------
(* Requests.  A publish is a record of qos, dup, retain, topic, payload and *)
(* noPayload (pPayload is NULL).                                           *)

EncodeString(s) == U16(Len(s)) \o s

\* MQTT_GetPublishPacketSize and calculatePublishPacketSize, on the lengths
\* of the topic and of the payload.
GetPublishPacketSize(topicLen, payloadLen, qos) ==
  LET header == topicLen + 2 + IF qos > 0 THEN 2 ELSE 0
      limit == MaxRemaining - header - 1
      n == header + payloadLen
  IN IF topicLen = 0 \/ payloadLen > limit \/ payloadLen > limit - RemainingLengthEncodedSize(n)
     THEN [status |-> "BadParameter", remaining |-> 0, size |-> 0]
     ELSE [status |-> "Success", remaining |-> n, size |-> n + 1 + RemainingLengthEncodedSize(n)]

PublishFlags(p) == Bit(p.retain, 0) + Bit(p.qos = 1, 1) + Bit(p.qos = 2, 2) + Bit(p.dup, 3)

SerializePublishHeaderWithoutTopic(p, n) ==
  [bytes |-> <<PUBLISH + PublishFlags(p)>> \o EncodeRemainingLength(n) \o U16(Len(p.topic)),
   size |-> 1 + RemainingLengthEncodedSize(n) + 2]

\* serializePublishCommon
SerializePublishCommon(p, n, id, withPayload) ==
  <<PUBLISH + PublishFlags(p)>> \o EncodeRemainingLength(n) \o EncodeString(p.topic)
    \o (IF p.qos > 0 THEN U16(id) ELSE <<>>) \o (IF withPayload THEN p.payload ELSE <<>>)

Fits(n, size) == 1 + RemainingLengthEncodedSize(n) + n <= size
BadPublish(p, id) == p.topic = <<>> \/ (p.qos # 0 /\ id = 0) \/ (p.dup /\ p.qos = 0)
Refused(status) == [status |-> status, bytes |-> <<>>]
Written(bytes) == [status |-> "Success", bytes |-> bytes]

\* MQTT_SerializePublish
SerializePublish(p, id, n, size) ==
  IF size = NoBuffer \/ (p.payload # <<>> /\ p.noPayload) \/ BadPublish(p, id) THEN Refused("BadParameter")
  ELSE IF ~Fits(n, size) THEN Refused("NoMemory")
  ELSE Written(SerializePublishCommon(p, n, id, TRUE))

\* MQTT_SerializePublishHeader
SerializePublishHeader(p, id, n, size) ==
  IF size = NoBuffer \/ BadPublish(p, id) THEN Refused("BadParameter")
  ELSE IF ~Fits(n, size + Len(p.payload)) THEN Refused("NoMemory")
  ELSE Written(SerializePublishCommon(p, n, id, FALSE))

\* MQTT_UpdateDuplicatePublishFlag
UpdateDuplicatePublishFlag(b, set) ==
  IF Kind(b) # PUBLISH THEN b ELSE b - Bit(Flag(b, 3), 3) + Bit(set, 3)

\* MQTT_GetConnectPacketSize; c has clean, keepAlive, client, user and
\* password, and will is empty or one publish.
GetConnectPacketSize(c, will) ==
  LET n == 10 + Len(c.client) + 2
              + (IF will = <<>> THEN 0 ELSE Len(will[1].topic) + 2 + Len(will[1].payload) + 2)
              + (IF c.user = <<>> THEN 0 ELSE Len(c.user[1]) + 2)
              + (IF c.password = <<>> THEN 0 ELSE Len(c.password[1]) + 2)
  IN IF c.client = <<>> \/ (will # <<>> /\ Len(will[1].payload) > 65535)
     THEN [status |-> "BadParameter", remaining |-> 0, size |-> 0]
     ELSE [status |-> "Success", remaining |-> n, size |-> n + 1 + RemainingLengthEncodedSize(n)]

\* MQTT_SerializeConnectFixedHeader
SerializeConnectFixedHeader(c, will, n) ==
  <<CONNECT>> \o EncodeRemainingLength(n) \o EncodeString(<<77, 81, 84, 84>>)
    \o <<4,
         Bit(c.clean, 1) + Bit(c.user # <<>>, 7) + Bit(c.password # <<>>, 6)
           + IF will = <<>> THEN 0
             ELSE Bit(TRUE, 2) + Bit(will[1].qos = 1, 3) + Bit(will[1].qos = 2, 4) + Bit(will[1].retain, 5)>>
    \o U16(c.keepAlive)

\* serializeConnectPacket
SerializeConnectPacket(c, will, n) ==
  SerializeConnectFixedHeader(c, will, n) \o EncodeString(c.client)
    \o (IF will = <<>> THEN <<>> ELSE EncodeString(will[1].topic) \o EncodeString(will[1].payload))
    \o (IF c.user = <<>> THEN <<>> ELSE EncodeString(c.user[1]))
    \o (IF c.password = <<>> THEN <<>> ELSE EncodeString(c.password[1]))

\* MQTT_SerializeConnect
SerializeConnect(c, will, n, size) ==
  IF size = NoBuffer \/ (will # <<>> /\ will[1].topic = <<>>) THEN Refused("BadParameter")
  ELSE IF ~Fits(n, size) THEN Refused("NoMemory")
  ELSE Written(SerializeConnectPacket(c, will, n))

\* calculateSubscriptionPacketSize; a list holds records of filter and qos.
CalculateSubscriptionPacketSize(list, perTopic) ==
  LET sum[i \in 0 .. Len(list)] == IF i = 0 THEN 2 ELSE sum[i - 1] + Len(list[i].filter) + 2 + perTopic
      n == sum[Len(list)]
  IN IF n > MaxRemaining \/ \E i \in DOMAIN list : list[i].filter = <<>>
     THEN [status |-> "BadParameter", remaining |-> 0, size |-> 0]
     ELSE [status |-> "Success", remaining |-> n, size |-> n + 1 + RemainingLengthEncodedSize(n)]

NoSubscription == [status |-> "BadParameter", remaining |-> 0, size |-> 0]

\* MQTT_GetSubscribePacketSize
GetSubscribePacketSize(list) ==
  IF list = <<>> THEN NoSubscription ELSE CalculateSubscriptionPacketSize(list, 1)

\* MQTT_GetUnsubscribePacketSize
GetUnsubscribePacketSize(list) ==
  IF list = <<>> THEN NoSubscription ELSE CalculateSubscriptionPacketSize(list, 0)

\* validateSubscriptionSerializeParams
ValidateSubscription(list, id, n, size) ==
  IF size = NoBuffer \/ list = <<>> \/ id = 0 THEN "BadParameter"
  ELSE IF ~Fits(n, size) THEN "NoMemory" ELSE "Success"

SerializeSubscribeHeader(n, id) == <<SUBSCRIBE>> \o EncodeRemainingLength(n) \o U16(id)
SerializeUnsubscribeHeader(n, id) == <<UNSUBSCRIBE>> \o EncodeRemainingLength(n) \o U16(id)

\* MQTT_SerializeSubscribe
SerializeSubscribe(list, id, n, size) ==
  LET st == ValidateSubscription(list, id, n, size)
  IN IF st # "Success" THEN Refused(st)
     ELSE Written(SerializeSubscribeHeader(n, id)
                    \o FlattenSeq([i \in DOMAIN list |-> EncodeString(list[i].filter) \o <<list[i].qos>>]))

\* MQTT_SerializeUnsubscribe
SerializeUnsubscribe(list, id, n, size) ==
  LET st == ValidateSubscription(list, id, n, size)
  IN IF st # "Success" THEN Refused(st)
     ELSE Written(SerializeUnsubscribeHeader(n, id) \o FlattenSeq([i \in DOMAIN list |-> EncodeString(list[i].filter)]))

\* MQTT_SerializeAck
SerializeAck(type, id, size) ==
  IF size = NoBuffer THEN Refused("BadParameter")
  ELSE IF size < 4 THEN Refused("NoMemory")
  ELSE IF id = 0 \/ type \notin {PUBACK, PUBREC, PUBREL, PUBCOMP} THEN Refused("BadParameter")
  ELSE Written(<<type, 2>> \o U16(id))

Fixed(type, size) ==
  IF size = NoBuffer THEN Refused("BadParameter") ELSE IF size < 2 THEN Refused("NoMemory") ELSE Written(<<type, 0>>)

SerializeDisconnect(size) == Fixed(DISCONNECT, size)  \* MQTT_SerializeDisconnect
SerializePingreq(size) == Fixed(PINGREQ, size)        \* MQTT_SerializePingreq

-----------------------------------------------------------------------------
(* Answers.  A packet is its first byte and the bytes behind its header.   *)

\* incomingPacketValid
IncomingPacketValid(b) ==
  \/ Kind(b) \in {CONNACK, PUBLISH, PUBACK, PUBREC, PUBCOMP, SUBACK, UNSUBACK, PINGRESP}
  \/ Kind(b) = 96 /\ Flag(b, 1)

Bad == [status |-> "BadResponse"]

\* deserializeConnack
DeserializeConnack(d) ==
  IF Len(d) # 2 \/ d[1] > 1 \/ (d[1] = 1 /\ d[2] # 0) \/ d[2] > 5 THEN Bad
  ELSE [status |-> IF d[2] > 0 THEN "ServerRefused" ELSE "Success", present |-> d[1] = 1]

\* Faulty: the codes behind a refusal are not looked at.
SubackStopsEarly(codes) ==
  LET first == {i \in DOMAIN codes : codes[i] \notin {0, 1, 2}}
  IN IF first = {} THEN "Success"
     ELSE IF codes[CHOOSE i \in first : \A j \in first : i <= j] = 128 THEN "ServerRefused" ELSE "BadResponse"

\* readSubackStatus
ReadSubackStatus(codes) ==
  IF \E i \in DOMAIN codes : codes[i] \notin {0, 1, 2, 128} THEN "BadResponse"
  ELSE IF 128 \in ToSet(codes) THEN "ServerRefused" ELSE "Success"

\* deserializeSuback
DeserializeSuback(d) ==
  IF Len(d) < 3 \/ Decode16(d, 1) = 0 THEN Bad
  ELSE [status |-> ReadSubackStatus(SubSeq(d, 3, Len(d))), id |-> Decode16(d, 1)]

\* deserializeSimpleAck
DeserializeSimpleAck(d) ==
  IF Len(d) # 2 \/ Decode16(d, 1) = 0 THEN Bad ELSE [status |-> "Success", id |-> Decode16(d, 1)]

\* deserializePingresp
DeserializePingresp(d) == IF d # <<>> THEN Bad ELSE [status |-> "Success"]

\* MQTT_DeserializeAck
DeserializeAck(type, d) ==
  CASE type = CONNACK -> DeserializeConnack(d)
    [] type = SUBACK -> DeserializeSuback(d)
    [] type = PINGRESP -> DeserializePingresp(d)
    [] type \in {UNSUBACK, PUBACK, PUBREC, PUBREL, PUBCOMP} -> DeserializeSimpleAck(d)
    [] OTHER -> Bad

\* processPublishFlags
ProcessPublishFlags(f) ==
  IF Flag(f, 2) /\ Flag(f, 1) THEN Bad
  ELSE [status |-> "Success", qos |-> IF Flag(f, 2) THEN 2 ELSE IF Flag(f, 1) THEN 1 ELSE 0,
        retain |-> Flag(f, 0), dup |-> Flag(f, 3)]

\* checkPublishRemainingLength
CheckPublishRemainingLength(len, qos, least) == len >= least + IF qos = 0 THEN 0 ELSE 2

\* MQTT_DeserializePublish, deserializePublish
DeserializePublish(type, d) ==
  LET f == ProcessPublishFlags(type % 16)
      topicLen == Decode16(d, 1)
      rest == topicLen + 2 + IF f.qos = 0 THEN 0 ELSE 2
      id == IF f.qos = 0 THEN 0 ELSE Decode16(d, topicLen + 3)
  IN IF f.status # "Success" \/ ~CheckPublishRemainingLength(Len(d), f.qos, 3) THEN Bad
     ELSE IF ~CheckPublishRemainingLength(Len(d), f.qos, topicLen + 2) THEN Bad
     ELSE IF f.qos > 0 /\ id = 0 THEN Bad
     ELSE [status |-> "Success", id |-> id,
           p |-> [qos |-> f.qos, dup |-> f.dup, retain |-> f.retain, topic |-> SubSeq(d, 3, topicLen + 2),
                  payload |-> SubSeq(d, rest + 1, Len(d)), noPayload |-> Len(d) = rest]]

\* MQTT_ProcessIncomingPacketTypeAndLength
ProcessIncoming(b) ==
  IF b = <<>> THEN [status |-> "NoDataAvailable", remaining |-> 0, header |-> 0]
  ELSE IF ~IncomingPacketValid(b[1]) THEN [status |-> "BadResponse", remaining |-> 0, header |-> 0]
  ELSE ProcessRemainingLength(b)

\* MQTT_GetIncomingPacketTypeAndLength; lost: the transport reports an error
\* behind the bytes b.
GetIncoming(b, lost) ==
  LET l == GetRemainingLength(b)
  IN IF b = <<>> THEN [status |-> IF lost THEN "RecvFailed" ELSE "NoDataAvailable", n |-> 0, used |-> 0]
     ELSE IF ~(IncomingPacketValid(b[1]) /\ l.valid) THEN [status |-> "BadResponse", n |-> 0, used |-> l.used]
     ELSE [status |-> "Success", n |-> l.n, used |-> l.used]
=============================================================================
