----------------------------- MODULE MqttStream -----------------------------
(***************************************************************************)
(* coreMQTT on a byte stream (core_mqtt.c over core_mqtt_serializer.c): a  *)
(* request leaves as a list of vectors that the transport writes in pieces *)
(* of any size, and answers are cut out of whatever bytes have arrived.    *)
(*                                                                         *)
(* Each behaviour has one job: a request to send, a stream to receive, or  *)
(* a packet, a length or a topic that only is to be judged.                *)
(***************************************************************************)
EXTENDS MqttWire, MqttTopic

CONSTANTS
  Sends, Receives, Answers, Lengths, Topics,  \* the jobs, by their kind
  BufferSize                                  \* networkBuffer.size

\* A header fits into the buffer.
ASSUME BufferSizeOK == BufferSize \in Nat /\ BufferSize >= 5

\* What the types of core_mqtt.h and core_mqtt_serializer.h let a caller pass;
\* an optional field is a sequence of at most one.
Text == {s \in Seq(Byte) : Len(s) <= 65535}
Optional(S) == {s \in Seq(S) : Len(s) <= 1}
PublishInfo == [qos: 0 .. 2, dup: BOOLEAN, retain: BOOLEAN, topic: Text, payload: Seq(Byte), noPayload: BOOLEAN]
ConnectInfo == [clean: BOOLEAN, keepAlive: Word, client: Text, user: Optional(Text), password: Optional(Text)]
Subscription == [filter: Text, qos: 0 .. 2]

RequestOK(j) ==
  /\ j.op \in {"connect", "subscribe", "unsubscribe", "publish", "ack", "ping", "disconnect"}
  /\ j.op = "connect" => j.c \in ConnectInfo /\ j.will \in Optional(PublishInfo)
  /\ j.op \in {"subscribe", "unsubscribe"} => j.list \in Seq(Subscription) /\ j.id \in Word
  /\ j.op = "publish" => j.p \in PublishInfo /\ j.id \in Word
  /\ j.op = "ack" => j.type \in Byte /\ j.id \in Word

ASSUME JobsOK ==
  /\ \A j \in Sends : j.kind = "send" /\ j.stream = <<>> /\ j.writev \in BOOLEAN /\ RequestOK(j)
  /\ \A j \in Receives : j.kind = "receive" /\ j.stream \in Seq(Byte) /\ j.clean \in BOOLEAN
  /\ \A j \in Answers : /\ j.kind = "packet" /\ j.stream = <<>>
                        /\ j.type \in Byte /\ j.d \in Seq(Byte) /\ Len(j.d) <= MaxRemaining
  /\ \A j \in Lengths : j.kind = "length" /\ j.stream = <<>> /\ j.n \in 0 .. MaxRemaining /\ j.qos \in 0 .. 2
  /\ \A j \in Topics : /\ j.kind = "topic" /\ j.stream = <<>>
                       /\ j.name \in Seq(STRING) /\ j.filter \in Seq(STRING)

VARIABLES
  job,
  ctx,   \* MQTTContext_t: conn and what is in networkBuffer; the call under way
  net,   \* in: bytes still to come; out: bytes written
  app    \* packets handled, the packet the application stored, why it stopped

streamVars == <<job, ctx, net, app>>

StreamTypeOK ==
  /\ ctx.conn \in {"NotConnected", "Connected", "DisconnectPending"}
  /\ ctx.pc \in {"call", "write", "connack", "loop", "end"}
  /\ ctx.buf \in Seq(Byte) /\ Len(ctx.buf) < BufferSize /\ ctx.vecs \in Seq(Seq(Seq(Byte)))
  /\ net.in \in Seq(Byte) /\ net.out \in Seq(Byte)
  /\ app.stored \in Seq(Byte) /\ app.handled \in Seq(Seq(Byte))

StreamInit ==
  /\ job \in Sends \/ job \in Receives \/ job \in Answers \/ job \in Lengths \/ job \in Topics
  /\ ctx = [conn |-> IF job.kind = "receive" \/ (job.kind = "send" /\ job.op = "connect") THEN "NotConnected" ELSE "Connected",
            pc |-> CASE job.kind = "send" -> "call" [] job.kind = "receive" -> "connack" [] OTHER -> "end",
            buf |-> <<>>, vecs |-> <<>>]
  /\ net = [in |-> job.stream, out |-> <<>>]
  /\ app = [handled |-> <<>>, stored |-> <<>>, status |-> "Success"]

Stop(status) == app' = [app EXCEPT !.status = status]

-----------------------------------------------------------------------------
(* Requests.  The vectors of a packet, in the batches they are written in.  *)

\* validatePublishParams
PublishParamsOK(p, id) == ~(p.qos # 0 /\ id = 0) /\ ~(p.payload # <<>> /\ p.noPayload)

\* addEncodedStringToVector
EncodedString(s) == IF s = <<>> THEN <<U16(0)>> ELSE <<U16(Len(s)), s>>

\* sendConnectWithoutCopy
ConnectVectors(c, will, n) ==
  <<SerializeConnectFixedHeader(c, will, n)>> \o EncodedString(c.client)
    \o (IF will = <<>> THEN <<>> ELSE EncodedString(will[1].topic) \o EncodedString(will[1].payload))
    \o (IF c.user = <<>> THEN <<>> ELSE EncodedString(c.user[1]))
    \o (IF c.password = <<>> THEN <<>> ELSE EncodedString(c.password[1]))

\* sendPublishWithoutCopy
PublishVectors(p, id, n) ==
  LET h == SerializePublishHeaderWithoutTopic(p, n)
  IN <<SubSeq(h.bytes, 1, h.size), p.topic>> \o (IF p.qos > 0 THEN <<U16(id)>> ELSE <<>>)
       \o (IF p.payload # <<>> THEN <<p.payload>> ELSE <<>>)

\* What the store function is given: the duplicate that will be sent.
StoredPacket(vecs) ==
  FlattenSeq([vecs EXCEPT ![1][1] = UpdateDuplicatePublishFlag(@, TRUE)])

\* Faulty: the quality of service is left out of all but the first batch.
SubscribeForgetsQos(list, id, n) ==
  [i \in DOMAIN list |-> (IF i = 1 THEN <<SerializeSubscribeHeader(n, id)>> ELSE <<>>)
                           \o EncodedString(list[i].filter) \o (IF i = 1 THEN <<<<list[i].qos>>>> ELSE <<>>)]

\* sendSubscribeWithoutCopy: MQTT_SUB_UNSUB_MAX_VECTORS, 4, has room for one
\* topic, of three vectors, in each batch.
SubscribeBatches(list, id, n) ==
  [i \in DOMAIN list |-> (IF i = 1 THEN <<SerializeSubscribeHeader(n, id)>> ELSE <<>>)
                           \o EncodedString(list[i].filter) \o <<<<list[i].qos>>>>]

\* sendUnsubscribeWithoutCopy: topics of two vectors; the header leaves room
\* for one, the other batches have two.
UnsubscribeBatches(list, id, n) ==
  LET topics(from, to) == FlattenSeq([i \in 1 .. to - from + 1 |-> EncodedString(list[from + i - 1].filter)])
      count == 1 + Len(list) \div 2
  IN [b \in 1 .. count |->
        IF b = 1 THEN <<SerializeUnsubscribeHeader(n, id)>> \o topics(1, 1)
        ELSE topics(2 * b - 2, IF 2 * b - 1 <= Len(list) THEN 2 * b - 1 ELSE Len(list))]

Call(op) == ctx.pc = "call" /\ job.op = op

\* A request that is refused, or the batches that are to be written.
Begin(status, batches, stored) ==
  /\ ctx' = [ctx EXCEPT !.pc = IF status = "Success" THEN "write" ELSE "end",
                        !.vecs = IF status = "Success" THEN batches ELSE <<>>]
  /\ app' = [app EXCEPT !.status = status, !.stored = IF status = "Success" THEN stored ELSE <<>>]
  /\ UNCHANGED <<job, net>>

\* MQTT_Connect, up to the CONNACK
MQTT_Connect ==
  /\ Call("connect")
  /\ LET s == GetConnectPacketSize(job.c, job.will)
         st == IF job.will # <<>> /\ job.will[1].topic = <<>> THEN "BadParameter" ELSE s.status
     IN Begin(st, <<ConnectVectors(job.c, job.will, s.remaining)>>, <<>>)

\* validateSubscribeUnsubscribeParams is job.id # 0 here: the list is not
\* empty or GetSubscribePacketSize refuses it, and the tables exist.
MQTT_Subscribe ==
  /\ Call("subscribe")
  /\ LET s == GetSubscribePacketSize(job.list)
     IN Begin(IF job.id = 0 THEN "BadParameter" ELSE s.status, SubscribeBatches(job.list, job.id, s.remaining), <<>>)

MQTT_Unsubscribe ==
  /\ Call("unsubscribe")
  /\ LET s == GetUnsubscribePacketSize(job.list)
     IN Begin(IF job.id = 0 THEN "BadParameter" ELSE s.status, UnsubscribeBatches(job.list, job.id, s.remaining), <<>>)

\* MQTT_Publish; what it does to the records is in MqttQos.
MQTT_Publish ==
  /\ Call("publish")
  /\ LET p == job.p
         s == GetPublishPacketSize(Len(p.topic), Len(p.payload), p.qos)
         v == PublishVectors(p, job.id, s.remaining)
     IN Begin(IF PublishParamsOK(p, job.id) THEN s.status ELSE "BadParameter", <<v>>,
              IF p.qos > 0 THEN StoredPacket(v) ELSE <<>>)

\* The packets of fixed length: MQTT_Ping, MQTT_Disconnect and sendPublishAcks
\* serialize into a buffer of their own.
FixedPacket ==
  /\ ctx.pc = "call" /\ job.op \in {"ping", "disconnect", "ack"}
  /\ LET s == CASE job.op = "ping" -> SerializePingreq(2)
                [] job.op = "disconnect" -> SerializeDisconnect(2)
                [] OTHER -> SerializeAck(job.type, job.id, 4)
     IN Begin(s.status, <<<<s.bytes>>>>, <<>>)

\* What is left of the vectors when n bytes are written.
Advance(vecs, n) ==
  LET starts == [i \in 1 .. Len(vecs) + 1 |-> Len(FlattenSeq(SubSeq(vecs, 1, i - 1)))]
      first == {i \in DOMAIN vecs : starts[i + 1] > n}
      i == CHOOSE k \in first : \A l \in first : k <= l
  IN IF first = {} THEN <<>>
     ELSE <<SubSeq(vecs[i], n - starts[i] + 1, Len(vecs[i]))>> \o SubSeq(vecs, i + 1, Len(vecs))

\* One write of sendMessageVector or sendBuffer: some bytes of the first
\* vector, or with writev of all.  A batch that is through makes place for
\* the next.
Write ==
  /\ ctx.pc = "write"
  /\ LET batch == Head(ctx.vecs)
         room == IF job.writev THEN FlattenSeq(batch) ELSE Head(batch)
     IN \E n \in 1 .. Len(room) :
          LET rest == Advance(batch, n)
              left == (IF rest = <<>> THEN <<>> ELSE <<rest>>) \o Tail(ctx.vecs)
          IN /\ net' = [net EXCEPT !.out = @ \o SubSeq(room, 1, n)]
             /\ ctx' = [ctx EXCEPT !.vecs = left, !.pc = IF left = <<>> THEN "end" ELSE @]
  /\ UNCHANGED <<job, app>>

\* The transport fails, or takes nothing until MQTT_SEND_TIMEOUT_MS.
WriteFails ==
  /\ ctx.pc = "write"
  /\ \E error \in BOOLEAN :
       ctx' = [ctx EXCEPT !.pc = "end",
                          !.conn = IF error /\ @ = "Connected" THEN "DisconnectPending" ELSE @]
  /\ Stop("SendFailed")
  /\ UNCHANGED <<job, net>>

-----------------------------------------------------------------------------
(* Answers                                                                 *)

Take(n) == SubSeq(net.in, 1, n)
Behind(n) == SubSeq(net.in, n + 1, Len(net.in))
Ended(status) == ctx' = [ctx EXCEPT !.pc = "end"] /\ Stop(status)

\* receiveConnack: the header is there when the first bytes of it are, and
\* the rest arrives in time (whole) or not; cleanSession is job.clean.
ReceiveConnack ==
  /\ ctx.pc = "connack"
  /\ \E k \in 0 .. Len(net.in), lost, whole \in BOOLEAN :
       LET g == GetIncoming(Take(k), lost)
           d == SubSeq(net.in, g.used + 1, g.used + g.n)
           r == DeserializeConnack(d)
           all == whole /\ g.used + g.n <= Len(net.in)
       IN CASE g.status # "Success" ->
                 Ended(g.status) /\ UNCHANGED net
            [] g.status = "Success" /\ net.in[1] # CONNACK ->
                 Ended("BadResponse") /\ net' = [net EXCEPT !.in = Behind(g.used)]
            [] g.status = "Success" /\ net.in[1] = CONNACK /\ ~all ->
                 Ended("RecvFailed") /\ net' = [net EXCEPT !.in = Behind(g.used)]
            [] g.status = "Success" /\ net.in[1] = CONNACK /\ all /\ g.n > BufferSize ->
                 Ended("NoDataAvailable") /\ net' = [net EXCEPT !.in = Behind(g.used + g.n)]
            [] OTHER ->
                 /\ net' = [net EXCEPT !.in = Behind(g.used + g.n)]
                 /\ IF r.status = "Success" /\ ~(job.clean /\ r.present)
                    THEN ctx' = [ctx EXCEPT !.conn = "Connected", !.pc = "loop"] /\ UNCHANGED app
                    ELSE Ended(IF r.status = "Success" THEN "BadResponse" ELSE r.status)
  /\ UNCHANGED job

\* handleIncomingPublish and handleIncomingAck: the verdict, and whether the
\* packet is handled: it is given to the application (with records that expect
\* it, see MqttQos), but for a PINGRESP, which MQTT_ProcessLoop takes itself.
Handle(type, d) ==
  LET r == IF Kind(type) = PUBLISH THEN DeserializePublish(type, d) ELSE DeserializeAck(type, d)
      ok == r.status = "Success" \/ (r.status = "ServerRefused" /\ type = SUBACK)
  IN [handled |-> ok /\ type # CONNACK,
      status |-> IF type = CONNACK THEN "BadResponse" ELSE IF ok THEN "Success" ELSE r.status]

\* Faulty: without new bytes nothing is done.
LoopNeedsBytes ==
  /\ ctx.pc = "loop"
  /\ \E k \in 1 .. Len(net.in) :
       LET b == ctx.buf \o Take(k)
           h == ProcessIncoming(b)
           total == h.header + h.remaining
           v == Handle(b[1], SubSeq(b, h.header + 1, total))
       IN /\ k <= BufferSize - Len(ctx.buf)
          /\ net' = [net EXCEPT !.in = Behind(k)]
          /\ IF h.status = "NeedMoreBytes" \/ (h.status = "Success" /\ total <= BufferSize /\ total > Len(b))
             THEN ctx' = [ctx EXCEPT !.buf = b] /\ UNCHANGED app
             ELSE IF h.status # "Success" \/ total > BufferSize THEN Ended(h.status)
             ELSE /\ ctx' = [ctx EXCEPT !.buf = SubSeq(b, total + 1, Len(b)), !.pc = IF v.status = "Success" THEN @ ELSE "end"]
                  /\ app' = [app EXCEPT !.status = v.status,
                                        !.handled = IF v.handled THEN Append(@, SubSeq(b, 1, total)) ELSE @]
  /\ UNCHANGED job

\* receiveSingleIteration: k more bytes (none, if what is in the buffer may
\* hold a packet), and then at most one packet.
ProcessLoop ==
  /\ ctx.pc = "loop"
  /\ \E k \in 0 .. Len(net.in) :
       LET b == ctx.buf \o Take(k)
           h == ProcessIncoming(b)
           total == h.header + h.remaining
           v == Handle(b[1], SubSeq(b, h.header + 1, total))
       IN /\ k <= BufferSize - Len(ctx.buf) /\ b # <<>>
          /\ ~(h.status = "Success" /\ total > BufferSize)
          /\ net' = [net EXCEPT !.in = Behind(k)]
          /\ IF h.status = "NeedMoreBytes" \/ (h.status = "Success" /\ total > Len(b))
             THEN ctx' = [ctx EXCEPT !.buf = b] /\ UNCHANGED app
             ELSE IF h.status # "Success" THEN Ended(h.status)
             ELSE /\ ctx' = [ctx EXCEPT !.buf = SubSeq(b, total + 1, Len(b)), !.pc = IF v.status = "Success" THEN @ ELSE "end"]
                  /\ app' = [app EXCEPT !.status = v.status,
                                        !.handled = IF v.handled THEN Append(@, SubSeq(b, 1, total)) ELSE @]
  /\ UNCHANGED job

\* Faulty: the bytes that are there already are discarded once more.
DiscardWhole ==
  /\ ctx.pc = "loop"
  /\ \E k \in 0 .. Len(net.in), whole \in BOOLEAN :
       LET b == ctx.buf \o Take(k)
           h == ProcessIncoming(b)
           total == h.header + h.remaining
           more == k + total
       IN /\ k <= BufferSize - Len(ctx.buf) /\ h.status = "Success" /\ total > BufferSize
          /\ IF whole /\ more <= Len(net.in)
             THEN /\ ctx' = [ctx EXCEPT !.buf = <<>>]
                  /\ net' = [net EXCEPT !.in = Behind(more)] /\ UNCHANGED app
             ELSE /\ \E c \in {"Connected", "DisconnectPending"} :
                       ctx' = [ctx EXCEPT !.pc = "end", !.buf = <<>>, !.conn = c]
                  /\ Stop("RecvFailed") /\ net' = [net EXCEPT !.in = Behind(k)]
  /\ UNCHANGED job

\* receiveSingleIteration, discardStoredPacket: a packet that does not fit
\* into the buffer is read to its end, if that comes in time, and dropped.
DiscardStoredPacket ==
  /\ ctx.pc = "loop"
  /\ \E k \in 0 .. Len(net.in), whole \in BOOLEAN :
       LET b == ctx.buf \o Take(k)
           h == ProcessIncoming(b)
           total == h.header + h.remaining
           more == k + total - Len(b)
       IN /\ k <= BufferSize - Len(ctx.buf) /\ h.status = "Success" /\ total > BufferSize
          /\ IF whole /\ more <= Len(net.in)
             THEN /\ ctx' = [ctx EXCEPT !.buf = <<>>]
                  /\ net' = [net EXCEPT !.in = Behind(more)] /\ UNCHANGED app
             ELSE /\ \E c \in {"Connected", "DisconnectPending"} :
                       ctx' = [ctx EXCEPT !.pc = "end", !.buf = <<>>, !.conn = c]
                  /\ Stop("RecvFailed") /\ net' = [net EXCEPT !.in = Behind(k)]
  /\ UNCHANGED job

\* recv reports an error.
ReceiveFails ==
  /\ ctx.pc = "loop"
  /\ ctx' = [ctx EXCEPT !.pc = "end", !.conn = "DisconnectPending"] /\ Stop("RecvFailed")
  /\ UNCHANGED <<job, net>>

StreamNext ==
  \/ MQTT_Connect \/ MQTT_Subscribe \/ MQTT_Unsubscribe \/ MQTT_Publish \/ FixedPacket
  \/ Write \/ WriteFails \/ ReceiveConnack \/ ProcessLoop \/ DiscardStoredPacket \/ ReceiveFails

\* The application calls MQTT_ProcessLoop until it fails, and the transport
\* hands over what it has.
StreamSpec == StreamInit /\ [][StreamNext]_streamVars /\ WF_streamVars(ProcessLoop \/ DiscardStoredPacket)

-----------------------------------------------------------------------------
(* The formats of MQTT 3.1.1, read from the other side                     *)

\* The fixed header at the front of b: how long it is and what it announces;
\* size 0 if it is malformed or not complete.
Header(b) ==
  LET ok == {k \in 1 .. 4 : /\ k < Len(b) /\ b[k + 1] < 128 /\ \A j \in 2 .. k : b[j] >= 128
                            /\ k > 1 => b[k + 1] # 0}
      k == CHOOSE i \in ok : TRUE
      n == (b[2] % 128) + (IF k > 1 THEN 128 * (b[3] % 128) ELSE 0)
             + (IF k > 2 THEN 16384 * (b[4] % 128) ELSE 0) + (IF k > 3 THEN 2097152 * b[5] ELSE 0)
  IN IF ok = {} THEN [size |-> 0, n |-> 0] ELSE [size |-> k + 1, n |-> n]

\* What a server may send to a connected client.
WellFormed(type, d) ==
  LET id(i) == Decode16(d, i) # 0
      qos == (type \div 2) % 4
      topicEnd == 2 + Decode16(d, 1)
  IN CASE type = SUBACK -> Len(d) >= 3 /\ id(1) /\ \A i \in 3 .. Len(d) : d[i] \in {0, 1, 2, 128}
       [] type \in {PUBACK, PUBREC, PUBREL, PUBCOMP, UNSUBACK} -> Len(d) = 2 /\ id(1)
       [] type = PINGRESP -> d = <<>>
       [] type \in PUBLISH .. PUBLISH + 15 ->
            /\ qos # 3 /\ (qos = 0 => type < PUBLISH + 8)
            /\ Len(d) >= 3 /\ topicEnd > 2 /\ topicEnd + (IF qos = 0 THEN 0 ELSE 2) <= Len(d)
            /\ qos > 0 => id(topicEnd + 1)
       [] OTHER -> FALSE

\* A publish that a server must not send and that is accepted: a duplicate of
\* QoS 0, or one with an empty topic and a payload.
Tolerated(type, d) ==
  LET qos == (type \div 2) % 4
  IN /\ type \in PUBLISH .. PUBLISH + 15 /\ qos # 3 /\ Len(d) >= IF qos = 0 THEN 3 ELSE 5
     /\ Decode16(d, 1) = 0 \/ (qos = 0 /\ type >= PUBLISH + 8)
     /\ 2 + Decode16(d, 1) + (IF qos = 0 THEN 0 ELSE 2) <= Len(d)
     /\ qos > 0 => Decode16(d, 3) # 0

Accepted(type, d) == WellFormed(type, d) \/ Tolerated(type, d)

\* The packets of a stream, from each place on, that fit into the buffer, up
\* to a malformed one; of one that does not fit only the header is looked at.
PacketsFrom(b) ==
  LET from[i \in 1 .. Len(b) + 1] ==
        LET h == Header(SubSeq(b, i, Len(b)))
            next == i + h.size + h.n
        IN IF h.size = 0 \/ next > Len(b) + 1 \/ ~IncomingPacketValid(b[i]) THEN <<>>
           ELSE IF h.size + h.n > BufferSize THEN from[next]
           ELSE IF ~Accepted(b[i], SubSeq(b, i + h.size, next - 1)) THEN <<>>
           ELSE <<SubSeq(b, i, next - 1)>> \o from[next]
  IN from
Packets(b) == PacketsFrom(b)[1]

Str(d, i) == SubSeq(d, i + 2, i + 1 + Decode16(d, i))
Skip(d, i) == i + 2 + Decode16(d, i)

\* The filters from d[3] on, each followed by width bytes, up to one that the
\* packet tears.
Filters(d, width) ==
  LET torn(i) == i = Len(d) \/ Skip(d, i) + width > Len(d) + 1
      next(i) == IF torn(i) THEN Len(d) + 1 ELSE Skip(d, i) + width
      first(i) == IF torn(i) THEN [filter |-> <<>>, qos |-> -1]
                  ELSE [filter |-> Str(d, i), qos |-> IF width = 0 THEN 0 ELSE d[Skip(d, i)]]
      from[i \in 3 .. Len(d) + 1] == IF i > Len(d) THEN <<>> ELSE <<first(i)>> \o from[next(i)]
  IN from[3]

\* What a server reads in a request of this kind.
Says(op, b) ==
  LET h == Header(b)
      d == SubSeq(b, h.size + 1, Len(b))
      f(i) == Flag(d[8], i)
      afterClient == Skip(d, 11)
      afterWill == IF f(2) THEN Skip(d, Skip(d, afterClient)) ELSE afterClient
      afterUser == IF f(7) THEN Skip(d, afterWill) ELSE afterWill
      qos == (b[1] \div 2) % 4
      afterTopic == Skip(d, 1)
      payloadAt == afterTopic + IF qos = 0 THEN 0 ELSE 2
  IN CASE Len(d) # h.n -> <<"torn">>
       [] Len(d) = h.n /\ op = "connect" ->
            <<b[1], SubSeq(d, 1, 7), ~f(0) /\ f(1), Decode16(d, 9), Str(d, 11),
              IF f(2) THEN <<Str(d, afterClient), Str(d, Skip(d, afterClient)), (d[8] \div 8) % 4, f(5)>> ELSE <<>>,
              IF f(7) THEN <<Str(d, afterWill)>> ELSE <<>>, IF f(6) THEN <<Str(d, afterUser)>> ELSE <<>>>>
       [] Len(d) = h.n /\ op = "subscribe" -> <<b[1], Decode16(d, 1), Filters(d, 1)>>
       [] Len(d) = h.n /\ op = "unsubscribe" -> <<b[1], Decode16(d, 1), Filters(d, 0)>>
       [] Len(d) = h.n /\ op = "publish" ->
            <<Kind(b[1]), Flag(b[1], 3), qos, Flag(b[1], 0), Str(d, 1),
              IF qos = 0 THEN 0 ELSE Decode16(d, afterTopic), SubSeq(d, payloadAt, Len(d))>>
       [] Len(d) = h.n /\ op = "ack" -> <<b[1], Decode16(d, 1)>>
       [] OTHER -> <<b[1]>>

\* What the request of the job ought to say.
Asked ==
  LET will == job.will[1]
  IN CASE job.op = "connect" ->
            <<16, <<0, 4, 77, 81, 84, 84, 4>>, job.c.clean, job.c.keepAlive, job.c.client,
              IF job.will = <<>> THEN <<>> ELSE <<will.topic, will.payload, will.qos, will.retain>>,
              job.c.user, job.c.password>>
       [] job.op = "subscribe" -> <<130, job.id, job.list>>
       [] job.op = "unsubscribe" -> <<162, job.id, [i \in DOMAIN job.list |-> [job.list[i] EXCEPT !.qos = 0]]>>
       [] job.op = "publish" ->
            <<48, job.p.dup, job.p.qos, job.p.retain, job.p.topic, IF job.p.qos = 0 THEN 0 ELSE job.id, job.p.payload>>
       [] job.op = "ack" -> <<job.type, job.id>>
       [] job.op = "ping" -> <<192>>
       [] job.op = "disconnect" -> <<224>>

-----------------------------------------------------------------------------
(* Properties                                                              *)

\* core_mqtt_serializer.h's way to make the packet, in a buffer of just its
\* size.  (Only MQTT_Publish lets a duplicate of QoS 0 through.)
Copied ==
  CASE job.op = "connect" ->
         LET s == GetConnectPacketSize(job.c, job.will)
         IN IF s.status = "Success" THEN SerializeConnect(job.c, job.will, s.remaining, s.size) ELSE Refused(s.status)
    [] job.op = "subscribe" ->
         LET s == GetSubscribePacketSize(job.list)
         IN IF s.status = "Success" THEN SerializeSubscribe(job.list, job.id, s.remaining, s.size) ELSE Refused(s.status)
    [] job.op = "unsubscribe" ->
         LET s == GetUnsubscribePacketSize(job.list)
         IN IF s.status = "Success" THEN SerializeUnsubscribe(job.list, job.id, s.remaining, s.size) ELSE Refused(s.status)
    [] job.op = "publish" ->
         LET p == [job.p EXCEPT !.dup = @ /\ job.p.qos > 0]
             s == GetPublishPacketSize(Len(p.topic), Len(p.payload), p.qos)
             w == SerializePublish(p, job.id, s.remaining, s.size)
         IN IF s.status # "Success" THEN Refused(s.status)
            ELSE IF p = job.p \/ w.status # "Success" THEN w
            ELSE Written(<<w.bytes[1] + 8>> \o Tail(w.bytes))
    [] job.op = "ack" -> SerializeAck(job.type, job.id, 4)
    [] job.op = "ping" -> SerializePingreq(2)
    [] job.op = "disconnect" -> SerializeDisconnect(2)

\* In whatever pieces and batches the vectors are written, what has gone out
\* is the front of the packet that the copying serializer makes, and all of
\* it when the call succeeds, which says to a server what the caller asked
\* for; the two refuse the same requests, and what is stored is that packet
\* with DUP set.
WholePacket ==
  job.kind = "send" /\ ctx.pc # "call" =>
    /\ IsPrefix(net.out, Copied.bytes)
    /\ app.status = "BadParameter" <=> Copied.status = "BadParameter"
    /\ ctx.pc = "end" /\ app.status = "Success" =>
         net.out = Copied.bytes /\ Says(job.op, net.out) = Asked
    /\ job.op = "publish" /\ Copied.status = "Success" /\ ~(job.p.dup /\ job.p.qos = 0) =>
         LET s == GetPublishPacketSize(Len(job.p.topic), Len(job.p.payload), job.p.qos)
         IN SerializePublishHeader(job.p, job.id, s.remaining, s.size - Len(job.p.payload)).bytes \o job.p.payload = Copied.bytes
    /\ app.stored # <<>> => app.stored = <<UpdateDuplicatePublishFlag(Copied.bytes[1], TRUE)>> \o Tail(Copied.bytes)

Received == Packets(SubSeq(job.stream, 5, Len(job.stream)))

\* However the stream is cut into pieces, its packets are handled (given to
\* the application, or taken as a PINGRESP) once each, in order and whole;
\* those that do not fit are skipped without a trace, whatever is behind their
\* header; and the session ends at the first that is neither well-formed nor
\* tolerated, and not before.  It only begins after a CONNACK that accepts it.
FramesInOrder ==
  /\ StreamTypeOK
  /\ job.kind = "receive" =>
       /\ IsPrefix(app.handled, Received)
       /\ ctx.conn = "Connected" /\ (net.in \o ctx.buf = <<>> \/ app.status = "BadResponse") => app.handled = Received
       /\ ctx.conn # "NotConnected" =>
            \E p \in {0, 1} : SubSeq(job.stream, 1, 4) = <<CONNACK, 2, p, 0>> /\ ~(job.clean /\ p = 1)

\* What has arrived is read to its end: no packet waits in the buffer for
\* bytes behind it.
AllRead == ctx.pc = "loop" ~> ctx.pc = "end" \/ app.handled = Received

\* Of the packets a server could send, just the well-formed ones are handled,
\* and two kinds of publish that are not; and the application reads in a
\* publish what the server wrote.
OnlyWellFormed ==
  job.kind = "packet" =>
    LET good == WellFormed(job.type, job.d)
        r == DeserializePublish(job.type, job.d)
    IN /\ (IncomingPacketValid(job.type) /\ Handle(job.type, job.d).handled) <=> Accepted(job.type, job.d)
       /\ good /\ Kind(job.type) = PUBLISH =>
            <<48, r.p.dup, r.p.qos, r.p.retain, r.p.topic, r.id, r.p.payload>>
              = Says("publish", <<job.type>> \o EncodeRemainingLength(Len(job.d)) \o job.d)

\* Every length comes back as it went, in as many bytes as the sizes say and
\* no fewer, by either decoder; a publish is let through only up to
\* the longest packet.
LengthExact ==
  job.kind = "length" =>
    LET e == EncodeRemainingLength(job.n)
        b == <<PUBLISH>> \o e
        size == GetPublishPacketSize(5, job.n, job.qos)
    IN /\ Len(e) = RemainingLengthEncodedSize(job.n)
       /\ Header(b) = [size |-> Len(b), n |-> job.n]
       /\ ProcessIncoming(b) = [status |-> "Success", remaining |-> job.n, header |-> Len(b)]
       /\ GetIncoming(b, TRUE) = [status |-> "Success", n |-> job.n, used |-> Len(b)]
       /\ \A k \in 1 .. Len(b) - 1 : ProcessIncoming(SubSeq(b, 1, k)).status = "NeedMoreBytes"
       /\ size.status = "Success" => size.size <= MaxRemaining + 5 /\ size.remaining <= MaxRemaining
       /\ job.n < MaxRemaining - 20 => size.status = "Success"

\* core_mqtt.h:1080: a name matches a filter as in MQTT 3.1.1, but for the
\* matches that Missed lists.
TopicMatches ==
  job.kind = "topic" /\ ValidName(job.name) /\ ValidFilter(job.filter) =>
    (MatchTopic(job.name, job.filter) <=> Matches(job.name, job.filter) /\ ~Missed(job.name, job.filter))
=============================================================================
