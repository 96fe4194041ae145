---------------------------- MODULE MqttSession ----------------------------
(***************************************************************************)
(* One MQTT session as the firmware uses coreMQTT: QoS 0, clean session,   *)
(* MQTT_Init before every MQTT_Connect, one task.                          *)
(*                                                                         *)
(* A call is a set of results over the session mq (MQTTContext_t) and the  *)
(* connection net it runs on; each result names what the call returns.     *)
(* Time is abstract: a timer that can expire may do so.                    *)
(***************************************************************************)
EXTENDS Integers, Sequences, FiniteSets

CONSTANTS
  Msg,      \* numbers of the messages the device publishes
  OnCmd,    \* those of them on TOPIC_CMD, which the device subscribes to
  Url,      \* OTA requests a server can send
  Faults    \* what may go wrong: "tcp", "send", "slow", "late", "partial", "discard"

ASSUME SessionConstants == Msg \subseteq Nat /\ OnCmd \subseteq Msg

Status == {"NotConnected", "Connected", "DisconnectPending"}

\* What the broker sends: "bad" is a message its handler rejects, "big" is
\* longer than the network buffer, "other" is a packet type the client does
\* not expect.
Packet == {"SUBACK", "PINGRESP", "echo", "cmd", "bad", "big", "other"} \cup Url

\* mq.wait is waitingForPingResp.  net.torn: what cut short the packet that was
\* written last, a transport error or the send timeout; net.behind: behind which
\* of the two the device wrote more.
Cut == {"error", "slow"}
Session == [status: Status, wait: BOOLEAN]
Network == [peer: {"alive", "silent", "closed"}, subs: BOOLEAN, torn: Cut \cup {"no"},
            behind: SUBSET Cut, in: Seq(Packet), out: Seq(Msg)]

\* MQTT_Init
Fresh == [status |-> "NotConnected", wait |-> FALSE]

\* A new TLS connection; the messages the broker has received stay received.
Dialled(n) ==
  [n EXCEPT !.peer = "alive", !.subs = FALSE, !.torn = "no", !.behind = {}, !.in = <<>>]

-----------------------------------------------------------------------------
(* sendMessageVector, sendBuffer                                           *)

\* The broker takes a packet, answers it, and sends a message on a topic the
\* device subscribes to back to it.  Behind a packet that was cut short it sees
\* no packet: it takes the bytes for the rest of the one it waits for.
Received(n, pkt) ==
  IF n.peer # "alive" \/ n.torn # "no" THEN n
  ELSE CASE pkt[1] = "SUBSCRIBE" -> [n EXCEPT !.subs = TRUE, !.in = Append(@, "SUBACK")]
         [] pkt[1] = "PINGREQ" -> [n EXCEPT !.in = Append(@, "PINGRESP")]
         [] OTHER -> [n EXCEPT !.out = Append(@, pkt[2]),
                               !.in = IF n.subs /\ pkt[2] \in OnCmd THEN Append(@, "echo") ELSE @]

Fails(mq, n, why) == {[mq |-> mq, net |-> n, ret |-> why]}

Writing(n) == IF n.torn = "no" THEN n ELSE [n EXCEPT !.behind = @ \cup {n.torn}]

\* The whole packet; or a transport error, which ends the session's writing;
\* or MQTT_SEND_TIMEOUT_MS passes before or within the packet, and it does not.
SendResults(mq, n, pkt) ==
  LET w == Writing(n)
      cut(how) == [w EXCEPT !.torn = how]
  IN (IF n.peer = "closed" THEN {} ELSE {[mq |-> mq, net |-> Received(w, pkt), ret |-> "OK"]})
     \cup (IF "send" \in Faults \/ n.peer = "closed"
           THEN Fails([mq EXCEPT !.status = "DisconnectPending"], cut("error"), "SendFailed")
           ELSE {})
     \cup (IF "slow" \in Faults
           THEN Fails(mq, cut("slow"), "SendFailed") \cup Fails(mq, n, "SendFailed") ELSE {})

Refused(mq) == IF mq.status = "NotConnected" THEN "NotConnected" ELSE "DisconnectPending"

\* Faulty: the connection status is not looked at.
WriteAlways(mq, n, pkt) == SendResults(mq, n, pkt)

\* MQTT_Publish at QoS 0, MQTT_Subscribe
WriteResults(mq, n, pkt) ==
  IF mq.status = "Connected" THEN SendResults(mq, n, pkt) ELSE Fails(mq, n, Refused(mq))

\* MQTT_Ping
PingResults(mq, n) ==
  {IF r.ret = "OK" THEN [r EXCEPT !.mq.wait = TRUE] ELSE r : r \in WriteResults(mq, n, <<"PINGREQ">>)}

\* MQTT_Connect: CONNECT is sent and a CONNACK is read, or either fails.
ConnectResults(mq, n) ==
  {[mq |-> [status |-> "Connected", wait |-> FALSE], net |-> n, ret |-> "OK"]}
  \cup Fails(mq, n, "Failed")

-----------------------------------------------------------------------------
(* MQTT_ProcessLoop: receiveSingleIteration with handleKeepAlive           *)

\* recv fails.
RecvError(mq, n) ==
  [mq |-> IF mq.status = "Connected" THEN [mq EXCEPT !.status = "DisconnectPending"] ELSE mq,
   net |-> n, ret |-> "RecvFailed"]

\* Faulty: an answer that is overdue is not looked for.
DueKeepsPinging(mq, n) == PingResults(mq, n)

\* Nothing arrives and a ping is due, or the answer to one is overdue.
DueResults(mq, n) ==
  IF mq.wait THEN Fails(mq, n, "KeepAliveTimeout") ELSE PingResults(mq, n)

\* One packet is in the buffer, whole.  One longer than the buffer is
\* discarded, which fails when its rest is late.
PacketResults(mq, n) ==
  LET p == Head(n.in)
      rest == [n EXCEPT !.in = Tail(@)]
  IN CASE p = "PINGRESP" -> {[mq |-> [mq EXCEPT !.wait = FALSE], net |-> rest, ret |-> "OK"]}
       [] p = "other" -> Fails(mq, rest, "BadResponse")
       [] p = "big" -> {[mq |-> mq, net |-> rest, ret |-> "OK"]}
                       \cup (IF "discard" \in Faults THEN Fails(mq, rest, "RecvFailed") ELSE {})
       [] OTHER -> {[mq |-> mq, net |-> rest, ret |-> "OK"]}

\* A packet has arrived in part: not an error of the connection.
NeedMoreBytes(mq, n) == [mq |-> mq, net |-> n, ret |-> "NeedMoreBytes"]
=============================================================================
