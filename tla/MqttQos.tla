------------------------------ MODULE MqttQos ------------------------------
(***************************************************************************)
(* QoS 1 and QoS 2 in coreMQTT (core_mqtt.c over core_mqtt_state.c): one   *)
(* client with a persistent session, used as core_mqtt.h documents it, and *)
(* a broker that keeps to MQTT 3.1.1.                                      *)
(*                                                                         *)
(* Messages are numbered in the order they are published.  An unacked      *)
(* PUBLISH is sent again by MQTT_Connect when the application registered   *)
(* store, retrieve and clear functions (cb), and otherwise by the loop     *)
(* around MQTT_PublishToResend that core_mqtt_state.h:243-272 gives.       *)
(***************************************************************************)
EXTENDS MqttState, SequencesExt

CONSTANTS
  Out,       \* messages the client publishes
  In,        \* messages the broker publishes to it
  Qos1,      \* those of QoS 1; the others are QoS 2
  Slots,     \* outgoingPublishRecordMaxCount, for each value that cb may have
  InCount,   \* incomingPublishRecordMaxCount
  MaxId,     \* UINT16_MAX, the last packet identifier
  InIds,     \* the broker's identifiers
  MaxDrops,  \* connections lost (bound)
  MaxExpiry  \* sessions the broker forgets (bound)

ASSUME QosConstants ==
  /\ 0 \notin Out \cup In /\ Out \cup In \subseteq Nat /\ Out \cap In = {}
  /\ Slots \in [DOMAIN Slots -> Nat \ {0}] /\ DOMAIN Slots \subseteq BOOLEAN /\ InCount \in Nat \ {0}
  /\ MaxId \in Nat \ {0} /\ InIds \subseteq 1 .. MaxId /\ InIds # {}
  /\ MaxDrops \in Nat /\ MaxExpiry \in Nat

VARIABLES
  cb,     \* MQTT_InitRetransmits was called
  cli,    \* MQTTContext_t, and where MQTT_Connect is
  net,    \* the connection: up, and what is on its way
  brk,    \* the broker's half of the session
  app,    \* the application
  drops, expiries  \* used up of the bounds

qosVars == <<cb, cli, net, brk, app, drops, expiries>>

Ids == 1 .. MaxId
Msgs == Out \cup In
QosOf(m) == IF m \in Qos1 THEN 1 ELSE 2
OutCount == Slots[cb]
Type == {"PUBLISH", "PUBACK", "PUBREC", "PUBREL", "PUBCOMP"}
Packet == [type: Type, id: Ids, m: Msgs \cup {0}]
Pkt(type, id, m) == [type |-> type, id |-> id, m |-> m]

Client == [conn: {"NotConnected", "Connected", "DisconnectPending"},
           pc: {"idle", "pubrels", "publishes", "resend"},
           out: [1 .. OutCount -> Record(Ids)], in: [1 .. InCount -> Record(InIds)],
           next: Ids, cursor: 0 .. OutCount, bad: BOOLEAN]
Network == [up: BOOLEAN, c2b: Seq(Packet), b2c: Seq(Packet)]
Broker == [sess: BOOLEAN, rx: SUBSET Ids, got: Seq(Out), twice: SUBSET Out,
           tx: Seq([m: In, id: InIds, rel: BOOLEAN]), sent: SUBSET In]
Application == [own: [Ids -> Out \cup {0}], kept: SUBSET Ids, pub: SUBSET Out, done: SUBSET Out,
                lost: SUBSET Msgs, got: Seq(In), twice: SUBSET In,
                astray: BOOLEAN, skipped: BOOLEAN]

\* cli.bad: the last call failed, so that the application will reconnect.
\* app.own[id]: the message last published under id, 0 when it is done;
\* app.kept: the identifiers whose PUBLISH can be sent again.
QosTypeOK ==
  /\ cb \in DOMAIN Slots
  /\ cli \in Client /\ net \in Network /\ brk \in Broker /\ app \in Application
  /\ drops \in 0 .. MaxDrops /\ expiries \in 0 .. MaxExpiry

Wiped(n) == [i \in 1 .. n |-> Empty]

QosInit ==
  /\ cb \in DOMAIN Slots
  /\ cli = [conn |-> "NotConnected", pc |-> "idle", out |-> Wiped(OutCount), in |-> Wiped(InCount),
            next |-> 1, cursor |-> 0, bad |-> FALSE]
  /\ net = [up |-> FALSE, c2b |-> <<>>, b2c |-> <<>>]
  /\ brk = [sess |-> FALSE, rx |-> {}, got |-> <<>>, twice |-> {}, tx |-> <<>>, sent |-> {}]
  /\ app = [own |-> [i \in Ids |-> 0], kept |-> {}, pub |-> {}, done |-> {}, lost |-> {},
            got |-> <<>>, twice |-> {}, astray |-> FALSE, skipped |-> FALSE]
  /\ drops = 0 /\ expiries = 0

-----------------------------------------------------------------------------
(* Sending                                                                 *)

Broken(n) == [n EXCEPT !.up = FALSE, !.c2b = <<>>]

\* sendBuffer, sendMessageVector: the packet is handed to the transport, or
\* the connection is gone.
SendOutcomes(c, n, p) ==
  (IF n.up THEN {[ok |-> TRUE, c |-> c, n |-> [n EXCEPT !.c2b = Append(@, p)]]} ELSE {})
  \cup (IF n.up /\ drops = MaxDrops THEN {}
        ELSE {[ok |-> FALSE, c |-> [c EXCEPT !.conn = "DisconnectPending"], n |-> Broken(n)]})

Spent(n) == drops' = IF net.up /\ ~n.up THEN drops + 1 ELSE drops

\* getAckTypeToSend
AckTypeToSend ==
  [PubAckSend |-> "PUBACK", PubRecSend |-> "PUBREC", PubRelSend |-> "PUBREL", PubCompSend |-> "PUBCOMP"]

\* sendPublishAcks
PublishAcks(c, n, id, st) ==
  LET type == AckTypeToSend[st]
      r == MQTT_UpdateStateAck(c.out, c.in, id, type, "SEND")
  IN IF st \notin DOMAIN AckTypeToSend THEN {[ok |-> TRUE, c |-> c, n |-> n]}
     ELSE IF c.conn # "Connected" THEN {[ok |-> FALSE, c |-> c, n |-> n]}
     ELSE {IF o.ok THEN [o EXCEPT !.ok = (r.status = "Success"), !.c.out = r.out, !.c.in = r.in]
           ELSE o : o \in SendOutcomes(c, n, Pkt(type, id, 0))}

\* A side hands message m over: got keeps the first times, in order.
HandOver(side, m) ==
  IF m \in ToSet(side.got) THEN [side EXCEPT !.twice = @ \cup {m}]
  ELSE [side EXCEPT !.got = Append(@, m)]

\* What a failed call leaves to the application.
Returns(o) == cli' = [o.c EXCEPT !.bad = ~o.ok] /\ net' = o.n /\ Spent(o.n)

-----------------------------------------------------------------------------
(* MQTT_Publish                                                            *)

NextId(c) == [c EXCEPT !.next = IF @ + 1 \in Ids THEN @ + 1 ELSE 1]

\* The record is updated when the packet has been sent.
SendPublish(c, n, id, m) ==
  LET u == MQTT_UpdateStatePublish(c.out, c.in, id, "SEND", QosOf(m))
  IN {IF o.ok THEN [o EXCEPT !.ok = (u.status = "Success"), !.c.out = u.out] ELSE o :
      o \in SendOutcomes(c, n, Pkt("PUBLISH", id, m))}

\* MQTT_GetPacketId and MQTT_Publish of a new message; a refusal uses up the
\* identifier only.
Publish ==
  /\ cli.pc = "idle" /\ cli.conn = "Connected" /\ ~cli.bad
  /\ \E m \in Out \ app.pub :
       /\ \A k \in Out \ app.pub : m <= k
       /\ LET id == cli.next
              r == MQTT_ReserveState(cli.out, id, QosOf(m))
              c == NextId([cli EXCEPT !.out = r.recs])
          IN IF r.status # "Success"
             THEN cli' = c /\ UNCHANGED <<net, app, drops>>
             ELSE /\ app' = [app EXCEPT !.own[id] = m, !.kept = @ \cup {id}, !.pub = @ \cup {m}]
                  /\ \E o \in SendPublish(c, net, id, m) : Returns(o)
  /\ UNCHANGED <<cb, brk, expiries>>

-----------------------------------------------------------------------------
(* MQTT_ProcessLoop                                                        *)

Reading(types) ==
  /\ cli.pc = "idle" /\ cli.conn # "NotConnected" /\ ~cli.bad
  /\ net.b2c # <<>> /\ Head(net.b2c).type \in types
  /\ UNCHANGED <<cb, brk, expiries>>
Read == [net EXCEPT !.b2c = Tail(@)]

\* Faulty: a message that was recorded already is given to the application.
PublishAgain ==
  /\ Reading({"PUBLISH"})
  /\ LET p == Head(net.b2c)
         r == MQTT_UpdateStatePublish(cli.out, cli.in, p.id, "RECEIVE", QosOf(p.m))
         c == [cli EXCEPT !.in = r.in]
         known == r.status = "StateCollision"
         st == IF known THEN CalculateStatePublish("RECEIVE", QosOf(p.m)) ELSE r.new
     IN IF r.status = "Success" \/ known
        THEN /\ app' = HandOver(app, p.m)
             /\ \E o \in PublishAcks(c, Read, p.id, st) : Returns(o)
        ELSE Returns([ok |-> FALSE, c |-> c, n |-> Read]) /\ UNCHANGED app

\* handleIncomingPublish: a message whose identifier has a record is a
\* duplicate and is acknowledged only.
ReceivePublish ==
  /\ Reading({"PUBLISH"})
  /\ LET p == Head(net.b2c)
         r == MQTT_UpdateStatePublish(cli.out, cli.in, p.id, "RECEIVE", QosOf(p.m))
         c == [cli EXCEPT !.in = r.in]
         known == r.status = "StateCollision"
         st == IF known THEN CalculateStatePublish("RECEIVE", QosOf(p.m)) ELSE r.new
     IN IF r.status = "Success" \/ known
        THEN /\ app' = IF known THEN app ELSE HandOver(app, p.m)
             /\ \E o \in PublishAcks(c, Read, p.id, st) : Returns(o)
        ELSE Returns([ok |-> FALSE, c |-> c, n |-> Read]) /\ UNCHANGED app

\* handleIncomingAck, handlePublishAcks: PUBACK and PUBREC clear the stored
\* packet; the callback tells the application.
ReceiveAck ==
  /\ Reading(Type \ {"PUBLISH"})
  /\ LET p == Head(net.b2c)
         r == MQTT_UpdateStateAck(cli.out, cli.in, p.id, p.type, "RECEIVE")
         ends == p.type \in {"PUBACK", "PUBCOMP"}
     IN IF r.status = "Success"
        THEN /\ app' = [app EXCEPT !.kept = IF p.type \in {"PUBACK", "PUBREC"} THEN @ \ {p.id} ELSE @,
                                   !.done = IF ends THEN @ \cup {app.own[p.id]} ELSE @,
                                   !.own = IF ends THEN [@ EXCEPT ![p.id] = 0] ELSE @]
             /\ \E o \in PublishAcks([cli EXCEPT !.out = r.out, !.in = r.in], Read, p.id, r.new) : Returns(o)
        ELSE Returns([ok |-> FALSE, c |-> cli, n |-> Read]) /\ UNCHANGED app

\* recv fails on a connection that is gone.
ReceiveFails ==
  /\ cli.pc = "idle" /\ cli.conn # "NotConnected" /\ ~cli.bad /\ ~net.up
  /\ Returns([ok |-> FALSE, c |-> [cli EXCEPT !.conn = "DisconnectPending"], n |-> net])
  /\ UNCHANGED <<cb, brk, app, expiries>>

-----------------------------------------------------------------------------
(* Reconnecting                                                            *)

\* MQTT_Disconnect, and the application closes the transport.
Disconnect ==
  /\ cli.pc = "idle" /\ cli.bad /\ cli.conn # "NotConnected"
  /\ cli' = [cli EXCEPT !.conn = "NotConnected", !.bad = FALSE]
  /\ net' = [net EXCEPT !.up = FALSE]
  /\ UNCHANGED <<cb, brk, app, drops, expiries>>

\* What the broker sends again on a session it has.
Again == [i \in DOMAIN brk.tx |->
            LET t == brk.tx[i] IN IF t.rel THEN Pkt("PUBREL", t.id, 0) ELSE Pkt("PUBLISH", t.id, t.m)]
Unfinished == {m \in app.pub : \E id \in Ids : app.own[id] = m}

\* A new transport, and a CONNACK with the session present.
ConnectPresent ==
  /\ cli.pc = "idle" /\ cli.conn = "NotConnected" /\ brk.sess
  /\ net' = [up |-> TRUE, c2b |-> <<>>, b2c |-> Again]
  /\ cli' = [cli EXCEPT !.conn = "Connected", !.pc = "pubrels", !.cursor = 0]
  /\ app' = [app EXCEPT !.skipped = FALSE]
  /\ UNCHANGED <<cb, brk, drops, expiries>>

\* Faulty: the incoming records are kept.
CleanKeepsIncoming ==
  /\ cli.pc = "idle" /\ cli.conn = "NotConnected" /\ ~brk.sess
  /\ net' = [up |-> TRUE, c2b |-> <<>>, b2c |-> <<>>]
  /\ cli' = [cli EXCEPT !.conn = "Connected", !.out = Wiped(OutCount)]
  /\ brk' = [brk EXCEPT !.sess = TRUE]
  /\ app' = [app EXCEPT !.lost = @ \cup Unfinished, !.own = [i \in Ids |-> 0], !.kept = {}]
  /\ UNCHANGED <<cb, drops, expiries>>

\* handleCleanSession: without a session every record is forgotten; the
\* stored packets of those still to be sent are cleared.
ConnectClean ==
  /\ cli.pc = "idle" /\ cli.conn = "NotConnected" /\ ~brk.sess
  /\ net' = [up |-> TRUE, c2b |-> <<>>, b2c |-> <<>>]
  /\ cli' = [cli EXCEPT !.conn = "Connected", !.out = Wiped(OutCount), !.in = Wiped(InCount)]
  /\ brk' = [brk EXCEPT !.sess = TRUE]
  /\ app' = [app EXCEPT !.lost = @ \cup Unfinished, !.own = [i \in Ids |-> 0], !.kept = {}]
  /\ UNCHANGED <<cb, drops, expiries>>

\* The CONNACK is lost: the broker has a session now, and the client the
\* records of the one before.
ConnackLost ==
  /\ cli.pc = "idle" /\ cli.conn = "NotConnected" /\ drops < MaxDrops /\ ~brk.sess
  /\ drops' = drops + 1
  /\ brk' = [brk EXCEPT !.sess = TRUE]
  /\ app' = [app EXCEPT !.astray = @ \/ Used(cli.out) \cup Used(cli.in) # {}]
  /\ UNCHANGED <<cb, cli, net, expiries>>

\* handleUncleanSessionResumption, the PUBRELs: one round of the loop.
ResendPubrel ==
  /\ cli.pc = "pubrels"
  /\ LET s == MQTT_PubrelToResend(cli.out, cli.cursor)
     IN IF s.id = 0
        THEN /\ cli' = [cli EXCEPT !.pc = IF cb THEN "publishes" ELSE "resend", !.cursor = 0]
             /\ UNCHANGED <<net, drops>>
        ELSE \E o \in PublishAcks([cli EXCEPT !.cursor = s.cursor], net, s.id, "PubRelSend") :
               Returns([o EXCEPT !.c.pc = IF o.ok THEN @ ELSE "idle"])
  /\ UNCHANGED <<cb, brk, app, expiries>>

\* handleUncleanSessionResumption, the stored PUBLISHes: the packet is sent
\* again, its record is not touched.
ResendStored ==
  /\ cli.pc = "publishes"
  /\ LET s == MQTT_PublishToResend(cli.out, cli.cursor)
         c == [cli EXCEPT !.cursor = s.cursor]
     IN IF s.id = 0 THEN Returns([ok |-> TRUE, c |-> [c EXCEPT !.pc = "idle"], n |-> net])
        ELSE IF s.id \notin app.kept
        THEN Returns([ok |-> FALSE, n |-> net, c |-> [c EXCEPT !.pc = "idle", !.conn = "DisconnectPending"]])
        ELSE \E o \in SendOutcomes(c, net, Pkt("PUBLISH", s.id, app.own[s.id])) :
               Returns([o EXCEPT !.c.pc = IF o.ok THEN @ ELSE "idle"])
  /\ UNCHANGED <<cb, brk, app, expiries>>

\* The loop of core_mqtt_state.h: MQTT_Publish with dup set, to which a
\* collision is no error.  Reserving the record may close a gap, and a record
\* that this moves to where the cursor has been is passed over.
ResendByApp ==
  /\ cli.pc = "resend"
  /\ LET s == MQTT_PublishToResend(cli.out, cli.cursor)
         m == app.own[s.id]
         r == MQTT_ReserveState(cli.out, s.id, QosOf(m))
         c == [cli EXCEPT !.cursor = s.cursor]
         behind == {cli.out[i].id : i \in {j \in s.cursor + 1 .. Len(cli.out) : cli.out[j].st \in Unacked}}
     IN IF s.id = 0
        THEN Returns([ok |-> TRUE, c |-> [c EXCEPT !.pc = "idle"], n |-> net]) /\ UNCHANGED app
        ELSE /\ app' = [app EXCEPT !.skipped = @ \/ \E id \in behind : FindInRecord(r.recs, id) <= s.cursor]
             /\ \E o \in SendPublish([c EXCEPT !.out = r.recs], net, s.id, m) :
                  Returns([o EXCEPT !.c.pc = IF o.ok THEN @ ELSE "idle"])
  /\ UNCHANGED <<cb, brk, expiries>>

MQTT_ProcessLoop == ReceivePublish \/ ReceiveAck \/ ReceiveFails
Reconnect ==
  Disconnect \/ ConnectPresent \/ ConnectClean \/ ResendPubrel \/ ResendStored \/ ResendByApp

-----------------------------------------------------------------------------
(* The broker, and the connection                                          *)

Answer(p) == net' = [net EXCEPT !.c2b = Tail(@), !.b2c = IF net.up THEN Append(@, p) ELSE @]
Silent == net' = [net EXCEPT !.c2b = Tail(@)]

BrokerReads ==
  /\ net.c2b # <<>>
  /\ LET p == Head(net.c2b)
         mine(t) == t.id = p.id
     IN CASE p.type = "PUBLISH" /\ QosOf(p.m) = 1 ->
               Answer(Pkt("PUBACK", p.id, 0)) /\ brk' = HandOver(brk, p.m)
          [] p.type = "PUBLISH" /\ QosOf(p.m) = 2 ->
               /\ Answer(Pkt("PUBREC", p.id, 0))
               /\ brk' = [(IF p.id \in brk.rx THEN brk ELSE HandOver(brk, p.m)) EXCEPT !.rx = @ \cup {p.id}]
          [] p.type = "PUBREL" ->
               Answer(Pkt("PUBCOMP", p.id, 0)) /\ brk' = [brk EXCEPT !.rx = @ \ {p.id}]
          [] p.type = "PUBREC" ->
               /\ Answer(Pkt("PUBREL", p.id, 0))
               /\ brk' = [brk EXCEPT !.tx = [i \in DOMAIN @ |-> IF mine(@[i]) THEN [@[i] EXCEPT !.rel = TRUE] ELSE @[i]]]
          [] p.type \in {"PUBACK", "PUBCOMP"} ->
               /\ Silent
               /\ brk' = IF \E i \in DOMAIN brk.tx : mine(brk.tx[i])
                         THEN [brk EXCEPT !.tx = RemoveAt(@, CHOOSE i \in DOMAIN @ : mine(@[i]))] ELSE brk
  /\ UNCHANGED <<cb, cli, app, drops, expiries>>

\* An identifier is used again as soon as it is free.
BrokerPublishes ==
  /\ net.up /\ brk.sess
  /\ \E m \in In \ brk.sent : \E id \in InIds \ {brk.tx[i].id : i \in DOMAIN brk.tx} :
       /\ \A k \in In \ brk.sent : m <= k
       /\ \A k \in InIds \ {brk.tx[i].id : i \in DOMAIN brk.tx} : id <= k
       /\ brk' = [brk EXCEPT !.sent = @ \cup {m}, !.tx = Append(@, [m |-> m, id |-> id, rel |-> FALSE])]
       /\ net' = [net EXCEPT !.b2c = Append(@, Pkt("PUBLISH", id, m))]
  /\ UNCHANGED <<cb, cli, app, drops, expiries>>

\* What was on its way to the broker is gone; what has arrived can be read.
Drop ==
  /\ net.up /\ drops < MaxDrops /\ drops' = drops + 1
  /\ net' = Broken(net)
  /\ UNCHANGED <<cb, cli, brk, app, expiries>>

\* The broker forgets the session of a client that is away.
Expire ==
  /\ brk.sess /\ cli.conn = "NotConnected" /\ expiries < MaxExpiry
  /\ expiries' = expiries + 1
  /\ net' = [net EXCEPT !.c2b = <<>>, !.b2c = <<>>]
  /\ app' = [app EXCEPT !.lost = @ \cup {brk.tx[i].m : i \in DOMAIN brk.tx}]
  /\ brk' = [brk EXCEPT !.sess = FALSE, !.rx = {}, !.tx = <<>>]
  /\ UNCHANGED <<cb, cli, drops>>

QosNext ==
  \/ Publish \/ MQTT_ProcessLoop \/ Reconnect \/ ConnackLost
  \/ BrokerReads \/ BrokerPublishes \/ Drop \/ Expire

QosSpec == QosInit /\ [][QosNext]_qosVars

CanPublish == cli.pc = "idle" /\ cli.conn = "Connected" /\ ~cli.bad /\ app.pub # Out
CanProcess ==
  cli.pc = "idle" /\ cli.conn # "NotConnected" /\ ~cli.bad /\ (net.b2c # <<>> \/ ~net.up)
CanReconnect == cli.pc # "idle" \/ cli.bad \/ cli.conn = "NotConnected"
BrokerCanPublish == net.up /\ brk.sent # In /\ \E id \in InIds : \A i \in DOMAIN brk.tx : brk.tx[i].id # id

\* The application calls MQTT_ProcessLoop, publishes, and reconnects after an
\* error; the broker reads what arrives.  Weak fairness, with what enables
\* each action written out (TLC takes a second for each ENABLED of these).
QosFairSpec ==
  /\ QosSpec
  /\ <>[]CanPublish => []<><<Publish>>_qosVars
  /\ <>[]CanProcess => []<><<MQTT_ProcessLoop>>_qosVars
  /\ <>[]CanReconnect => []<><<Reconnect>>_qosVars
  /\ <>[](net.c2b # <<>>) => []<><<BrokerReads>>_qosVars
  /\ <>[]BrokerCanPublish => []<><<BrokerPublishes>>_qosVars

-----------------------------------------------------------------------------
(* Properties                                                              *)

\* MQTT_QoS2: over lost connections, sessions that are forgotten and packets
\* sent again, neither side hands over a QoS 2 message twice.  (astray: a
\* CONNACK was lost that said that the session is new.)
ExactlyOnce ==
  ~app.astray => brk.twice \cup app.twice \subseteq Qos1

\* What the application is told is acknowledged has reached the broker, and
\* what the client has acknowledged has reached the application, though
\* identifiers are used again.
AckedMeansDelivered ==
  /\ app.done \subseteq ToSet(brk.got)
  /\ ~app.astray => \A m \in brk.sent \ app.lost :
       (\A i \in DOMAIN brk.tx : brk.tx[i].m # m) => m \in ToSet(app.got)

\* The records are the client's half of the session: an unfinished message
\* has one and can be sent again until the broker is known to have it, and
\* every message that the broker will not take twice has one.
RecordsCoverSession ==
  LET rec(id) == cli.out[FindInRecord(cli.out, id)]
      ids == {cli.out[i].id : i \in Used(cli.out)}
  IN /\ QosTypeOK
     /\ ids = {id \in Ids : app.own[id] # 0}
     /\ brk.rx \subseteq ids
     /\ \A id \in ids : IF rec(id).st \in {"PubRelSend", "PubCompPending"}
                        THEN app.own[id] \in ToSet(brk.got)
                        ELSE id \in app.kept

\* core_mqtt_state.c:472-577 keeps the table in the order of the publishes:
\* through gaps, compaction and resumption the broker first receives the
\* messages in that order, when MQTT_Connect is what sends them again.
FirstInOrder ==
  cb => \A i, j \in DOMAIN brk.got : i < j => brk.got[i] < brk.got[j]

\* The states the session may never leave.  A packet that MQTT_Connect
\* sends again leaves its record in PublishSend, in which its answer is
\* illegal; a PUBREL without a record (the PUBCOMP was sent, and lost) is a
\* bad response; a message for which there is no slot ends each connection
\* before those behind it are read; after a lost CONNACK the two halves may
\* not fit.
Stalled ==
  \/ cb /\ \E i \in DOMAIN cli.out : cli.out[i].st = "PublishSend"
  \/ \E i \in DOMAIN brk.tx : brk.tx[i].rel /\ FindInRecord(cli.in, brk.tx[i].id) = 0
  \/ Len(brk.tx) > InCount
  \/ app.skipped
  \/ app.astray

Complete ==
  /\ app.pub = Out /\ Out \subseteq app.done \cup app.lost
  /\ brk.sent = In /\ In \subseteq ToSet(app.got) \cup app.lost /\ brk.tx = <<>>

\* When connections stop failing every message is delivered and acknowledged,
\* unless the session is in one of those states for good.
SessionCompletes == <>Complete \/ <>[]Stalled
=============================================================================
