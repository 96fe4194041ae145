------------------------------ MODULE MqttTask ------------------------------
(***************************************************************************)
(* The MQTT task (modules/MQTT/mqtt_task.c): waits for Wi-Fi, dials the    *)
(* broker with backoff, publishes what other tasks queue and handles what  *)
(* the broker sends, until Wi-Fi or the session is lost, and again.        *)
(*                                                                         *)
(* EVT_WIFI_CONNECTED (bit) changes at any moment: Wifi models its owner.  *)
(***************************************************************************)
EXTENDS MqttSession

CONSTANTS
  BaseDelay,  \* MQTT_RECONNECT_DELAY_MS
  MaxDelay,   \* 60000
  QueueLen,   \* MQTT_PUBLISH_QUEUE_SIZE
  SubLen,     \* MQTT_SUBSCRIBE_QUEUE_SIZE
  CtlLen,     \* slots of g_control_queue
  NoUrl,      \* s_ota_pending = false
  MaxTls,     \* TLS handles in a behaviour (bound)
  MaxFaults,  \* failures of the network and the broker (bound)
  MaxFlaps,   \* times EVT_WIFI_CONNECTED is cleared (bound)
  MaxIn       \* packets the broker sends of its own accord (bound)

ASSUME TaskConstants ==
  /\ BaseDelay \in Nat \ {0} /\ MaxDelay \in Nat /\ BaseDelay <= MaxDelay
  /\ QueueLen \in Nat \ {0} /\ SubLen \in Nat \ {0} /\ CtlLen \in Nat \ {0}
  /\ NoUrl \notin Url
  /\ {MaxTls, MaxFaults, MaxFlaps, MaxIn} \subseteq Nat

VARIABLES
  bit,    \* EVT_WIFI_CONNECTED
  evt,    \* EVT_MQTT_CONNECTED
  pc,     \* where mqtt_task is
  delay,  \* s_reconnect_delay_ms
  tls,    \* s_net_ctx.tls: a handle, 0 for NULL; it may dangle
  live,   \* the esp_tls handles that are allocated
  dialled, \* handles allocated so far
  mq,     \* mqtt_ctx
  net,    \* the connection under it
  pubq,   \* g_mqtt_publish_queue
  made,   \* messages made by the sensor task so far
  subq,   \* messages in g_mqtt_subscribe_queue
  ctlq,   \* commands in g_control_queue
  ota,    \* g_ota_url, NoUrl until s_ota_pending
  flaps, faults, sent  \* used up of the bounds

taskVars == <<evt, pc, delay, tls, live, dialled>>
sessVars == <<mq, net>>
appVars == <<subq, ctlq, ota>>
mqttVars == <<bit, taskVars, sessVars, pubq, made, appVars, flaps, faults, sent>>

SessionPc == {"connect", "subscribe", "signal", "check", "drain", "loop", "cleanup"}
Pc == {"wait", "ip", "dns", "tls", "again"} \cup SessionPc

MqttTypeOK ==
  /\ bit \in BOOLEAN /\ evt \in BOOLEAN /\ pc \in Pc
  /\ delay \in BaseDelay..MaxDelay
  /\ dialled \in 0..MaxTls /\ tls \in 0..dialled /\ live \subseteq 1..dialled
  /\ mq \in Session /\ net \in Network
  /\ pubq \in Seq(Msg) /\ Len(pubq) <= QueueLen
  /\ made \in Nat
  /\ subq \in 0..SubLen /\ ctlq \in 0..CtlLen /\ ota \in Url \cup {NoUrl}
  /\ flaps \in 0..MaxFlaps /\ faults \in 0..MaxFaults /\ sent \in 0..MaxIn

MqttInit ==
  /\ bit = FALSE /\ evt = FALSE /\ pc = "wait" /\ delay = BaseDelay
  /\ tls = 0 /\ live = {} /\ dialled = 0
  /\ mq = Fresh
  /\ net = [peer |-> "closed", subs |-> FALSE, torn |-> "no", behind |-> {},
            in |-> <<>>, out |-> <<>>]
  /\ pubq = <<>> /\ made = 0
  /\ subq = 0 /\ ctlq = 0 /\ ota = NoUrl
  /\ flaps = 0 /\ faults = 0 /\ sent = 0

Capped(d) == IF d > MaxDelay THEN MaxDelay ELSE d

BackOff == delay' = Capped(2 * delay)
Fault == faults < MaxFaults /\ faults' = faults + 1

\* Without Wi-Fi everything may fail; with it a failure is one of the bound.
NetFault == (~bit /\ UNCHANGED faults) \/ Fault

Elsewhere == UNCHANGED <<bit, pubq, made, flaps, sent>>

-----------------------------------------------------------------------------
(* Dialling                                                                *)

WaitWifi ==
  /\ pc = "wait" /\ bit
  /\ pc' = "ip" /\ delay' = BaseDelay
  /\ Elsewhere /\ UNCHANGED <<evt, tls, live, dialled, sessVars, appVars, faults>>

\* wait_for_ip_stable and wait_for_dns_and_internet_ready: a failure waits
\* out the backoff and starts over.
Probe(here, next) ==
  /\ pc = here
  /\ \/ bit /\ pc' = next /\ UNCHANGED <<delay, faults>>
     \/ NetFault /\ pc' = "ip" /\ BackOff
  /\ Elsewhere /\ UNCHANGED <<evt, tls, live, dialled, sessVars, appVars>>

IpStable == Probe("ip", "dns")
DnsReady == Probe("dns", "tls")

\* tlsconnect destroys the handle of a connection that fails.
TlsConnect ==
  /\ pc = "tls"
  /\ \/ /\ dialled < MaxTls
        /\ dialled' = dialled + 1 /\ tls' = dialled + 1 /\ live' = live \cup {dialled + 1}
        /\ net' = Dialled(net)
        /\ pc' = "connect" /\ UNCHANGED <<delay, faults>>
     \/ /\ NetFault
        /\ tls' = 0 /\ pc' = "ip" /\ BackOff /\ UNCHANGED <<live, dialled, net>>
  /\ Elsewhere /\ UNCHANGED <<evt, mq, appVars>>

Destroy == live' = live \ {tls}

\* Faulty: the handle is kept when MQTT_Connect fails.
ConnectKeepsTls ==
  /\ pc = "connect"
  /\ \E r \in ConnectResults(Fresh, net) :
       /\ mq' = r.mq /\ net' = r.net
       /\ IF r.ret = "OK" THEN pc' = "subscribe" /\ delay' = BaseDelay /\ UNCHANGED faults
          ELSE /\ NetFault /\ pc' = "ip" /\ BackOff
  /\ Elsewhere /\ UNCHANGED <<evt, tls, live, dialled, appVars>>

\* MQTT_Init and MQTT_Connect
MqttConnect ==
  /\ pc = "connect"
  /\ \E r \in ConnectResults(Fresh, net) :
       /\ mq' = r.mq /\ net' = r.net
       /\ IF r.ret = "OK"
          THEN pc' = "subscribe" /\ delay' = BaseDelay /\ UNCHANGED <<live, faults>>
          ELSE /\ NetFault /\ Destroy /\ pc' = "ip" /\ BackOff
  /\ Elsewhere /\ UNCHANGED <<evt, tls, dialled, appVars>>

Budget(r) == IF r.ret = "SendFailed" /\ net.peer = "alive" THEN Fault ELSE UNCHANGED faults

\* A failed MQTT_Subscribe is logged.
SubscribeAll ==
  /\ pc = "subscribe" /\ pc' = "signal"
  /\ \E r \in WriteResults(mq, net, <<"SUBSCRIBE">>) :
       mq' = r.mq /\ net' = r.net /\ Budget(r)
  /\ Elsewhere /\ UNCHANGED <<evt, delay, tls, live, dialled, appVars>>

Signal ==
  /\ pc = "signal" /\ pc' = "check" /\ evt' = TRUE
  /\ Elsewhere /\ UNCHANGED <<delay, tls, live, dialled, sessVars, appVars, faults>>

-----------------------------------------------------------------------------
(* The session loop                                                        *)

CheckWifi ==
  /\ pc = "check"
  /\ pc' = IF bit THEN "drain" ELSE "cleanup"
  /\ Elsewhere /\ UNCHANGED <<evt, delay, tls, live, dialled, sessVars, appVars, faults>>

\* Faulty: a message that could not be sent goes back to the queue.
PublishRequeues ==
  /\ pc = "drain" /\ pubq # <<>>
  /\ \E r \in WriteResults(mq, net, <<"PUBLISH", Head(pubq)>>) :
       /\ mq' = r.mq /\ net' = r.net /\ Budget(r)
       /\ pubq' = IF r.ret = "OK" THEN Tail(pubq) ELSE Append(Tail(pubq), Head(pubq))
       /\ pc' = IF r.ret = "OK" THEN "drain" ELSE "loop"
  /\ UNCHANGED <<bit, evt, delay, tls, live, dialled, made, appVars, flaps, sent>>

\* publish_pending_messages: a message that could not be sent is gone.
PublishPending ==
  /\ pc = "drain" /\ pubq # <<>>
  /\ pubq' = Tail(pubq)
  /\ \E r \in WriteResults(mq, net, <<"PUBLISH", Head(pubq)>>) :
       mq' = r.mq /\ net' = r.net /\ Budget(r)
  /\ UNCHANGED <<bit, evt, pc, delay, tls, live, dialled, made, appVars, flaps, sent>>

Drained ==
  /\ pc = "drain" /\ pubq = <<>> /\ pc' = "loop"
  /\ Elsewhere /\ UNCHANGED <<evt, delay, tls, live, dialled, sessVars, appVars, faults>>

\* mqtt_event_cb: every message goes to the subscribe queue and then to its
\* topic's handler; a full queue drops it.
Up(n, max) == IF n < max THEN n + 1 ELSE n

Callback(p) ==
  IF p \notin {"echo", "cmd", "bad"} \cup Url THEN UNCHANGED appVars
  ELSE /\ subq' = Up(subq, SubLen)
       /\ ctlq' = IF p = "cmd" THEN Up(ctlq, CtlLen) ELSE ctlq
       /\ ota' = IF p \in Url /\ ota = NoUrl THEN p ELSE ota

\* Faulty: the status is not looked at.
AfterIgnores(r) == mq' = r.mq /\ net' = r.net /\ pc' = "check"

\* Any status but MQTTSuccess ends the session.
After(r) ==
  /\ mq' = r.mq /\ net' = r.net
  /\ pc' = IF r.ret = "OK" THEN "check" ELSE "cleanup"
Looping == pc = "loop" /\ Elsewhere /\ UNCHANGED <<evt, delay, tls, live, dialled>>

LoopPacket ==
  /\ Looping /\ net.in # <<>>
  /\ \E r \in PacketResults(mq, net) : After(r)
  /\ Callback(Head(net.in)) /\ UNCHANGED faults

LoopPartial ==
  /\ Looping /\ net.in # <<>> /\ "partial" \in Faults
  /\ After(NeedMoreBytes(mq, net)) /\ Fault /\ UNCHANGED appVars

LoopIdle ==
  /\ Looping /\ net.in = <<>>
  /\ pc' = "check" /\ UNCHANGED <<sessVars, appVars, faults>>

\* A ping is sent, or refused by a broken session.
LoopPing ==
  /\ Looping /\ net.in = <<>> /\ ~mq.wait
  /\ \E r \in DueResults(mq, net) : After(r) /\ Budget(r)
  /\ UNCHANGED appVars

\* No answer came: the broker is gone, or its ping fell behind a cut packet.
LoopTimeout ==
  /\ Looping /\ net.in = <<>> /\ mq.wait
  /\ \E r \in DueResults(mq, net) : After(r)
  /\ UNCHANGED <<appVars, faults>>

\* The answer, and what comes before it, is still on its way when it is overdue.
LoopLate ==
  /\ Looping /\ net.in # <<>> /\ mq.wait /\ "late" \in Faults /\ Fault
  /\ \E r \in DueResults(mq, net) : After(r)
  /\ UNCHANGED appVars

LoopRecvError ==
  /\ Looping /\ net.in = <<>> /\ net.peer = "closed"
  /\ After(RecvError(mq, net)) /\ UNCHANGED <<appVars, faults>>

Cleanup ==
  /\ pc = "cleanup" /\ pc' = "again"
  /\ evt' = FALSE /\ Destroy
  /\ IF bit THEN BackOff ELSE UNCHANGED delay
  /\ Elsewhere /\ UNCHANGED <<tls, dialled, sessVars, appVars, faults>>

WaitAgain ==
  /\ pc = "again" /\ bit /\ pc' = "ip"
  /\ Elsewhere /\ UNCHANGED <<evt, delay, tls, live, dialled, sessVars, appVars, faults>>

Task ==
  \/ WaitWifi \/ IpStable \/ DnsReady \/ TlsConnect \/ MqttConnect \/ SubscribeAll \/ Signal
  \/ CheckWifi \/ PublishPending \/ Drained
  \/ LoopPacket \/ LoopPartial \/ LoopIdle \/ LoopPing \/ LoopTimeout \/ LoopLate
  \/ LoopRecvError \/ Cleanup \/ WaitAgain

-----------------------------------------------------------------------------
(* The other tasks, Wi-Fi, and the broker                                  *)

\* sensor_task and bno055_accel_read queue a message, or drop it.
Produce ==
  /\ made + 1 \in Msg /\ made' = made + 1
  /\ pubq' = IF Len(pubq) < QueueLen THEN Append(pubq, made + 1) ELSE pubq
  /\ UNCHANGED <<bit, taskVars, sessVars, appVars, flaps, faults, sent>>

WifiUp ==
  /\ ~bit /\ bit' = TRUE
  /\ UNCHANGED <<taskVars, sessVars, pubq, made, appVars, flaps, faults, sent>>

WifiDown ==
  /\ bit /\ flaps < MaxFlaps
  /\ bit' = FALSE /\ flaps' = flaps + 1
  /\ UNCHANGED <<taskVars, sessVars, pubq, made, appVars, faults, sent>>

\* The broker closes the connection, or vanishes without a word.
PeerGone ==
  /\ live # {} /\ net.peer = "alive" /\ Fault /\ "tcp" \in Faults
  /\ \E how \in {"silent", "closed"} : net' = [net EXCEPT !.peer = how]
  /\ UNCHANGED <<bit, taskVars, mq, pubq, made, appVars, flaps, sent>>

BrokerSends ==
  /\ net.peer = "alive" /\ net.subs /\ sent < MaxIn
  /\ sent' = sent + 1
  /\ \E p \in {"cmd", "bad", "big", "other"} \cup Url :
       /\ net' = [net EXCEPT !.in = Append(@, p)]
       /\ IF p \in {"big", "other"} THEN Fault ELSE UNCHANGED faults
  /\ UNCHANGED <<bit, taskVars, mq, pubq, made, appVars, flaps>>

MqttNext == Task \/ Produce \/ WifiUp \/ WifiDown \/ PeerGone \/ BrokerSends

MqttSpec == MqttInit /\ [][MqttNext]_mqttVars

\* The task runs.  Its clock advances, so a ping falls due and its answer is
\* overdue sooner or later, however often the loop finds nothing to do.
MqttFairSpec ==
  /\ MqttSpec /\ WF_mqttVars(Task)
  /\ SF_mqttVars(LoopPing) /\ SF_mqttVars(LoopTimeout)

-----------------------------------------------------------------------------
(* Properties                                                              *)

\* mqtt_task.c:204 sends and receives through s_net_ctx.tls and :533 destroys
\* it: on every path the pointer is the one live handle while a session uses
\* it, and none is left over when the task dials again.
TlsOwned == MqttTypeOK /\ live = IF pc \in SessionPc THEN {tls} ELSE {}

\* The broker sees each whole message at most once and in the order it was
\* queued, over all connections, failed publishes and full queues.
PublishedInOrder ==
  LET all == net.out \o pubq IN
  \A i, j \in 1..Len(all) : i < j => all[i] < all[j]

\* core_mqtt.c:837-840: after a packet a transport error cut short nothing more
\* is written on that connection.  It is not so after a packet the send timeout
\* cut short (:848-853 leaves the session connected), which this leaves out.
FramingKept == "error" \notin net.behind

\* A session that can send no more, or whose broker is gone, is given up.
DeadSessionNoticed ==
  (pc = "loop" /\ (mq.status = "DisconnectPending" \/ net.peer # "alive")) ~> (pc = "cleanup")

\* When Wi-Fi stays up and failures end, the task is connected for good.
Reconnects == <>[]bit => <>[](evt /\ mq.status = "Connected")

\* core_mqtt.h:968, "#MQTTNeedMoreBytes if MQTT_ProcessLoop has received
\* incomplete data; it should be called again": it does not end the session.
PartialIsNoError == [][pc = "loop" /\ pc' = "cleanup" => net.in = <<>> \/ net'.in # net.in]_mqttVars
=============================================================================
