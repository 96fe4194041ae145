--------------------------- MODULE MqttTask_proofs ---------------------------
(***************************************************************************)
(* Proofs about the MQTT task: who owns the TLS handle, the order in which *)
(* brokers receive messages, and that a packet cut short by a transport    *)
(* error is the last on its connection; for queues, messages and failures  *)
(* of any number and kind.                                                 *)
(***************************************************************************)
EXTENDS MqttTask, TLAPS

-----------------------------------------------------------------------------
(* The calls keep the types                                                *)

\* A packet the device writes.
Written == {<<"SUBSCRIBE">>, <<"PINGREQ">>} \cup {<<"PUBLISH", m>> : m \in Msg}

LEMMA ReceivedType ==
  ASSUME NEW n \in Network, NEW pkt \in Written
  PROVE  /\ Received(n, pkt) \in Network
         /\ Received(n, pkt).torn = n.torn /\ Received(n, pkt).behind = n.behind
         /\ \/ Received(n, pkt).out = n.out
            \/ pkt[1] = "PUBLISH" /\ Received(n, pkt).out = Append(n.out, pkt[2])
<1> USE DEF Network, Packet
<1>1. CASE n.peer # "alive" \/ n.torn # "no"
  BY <1>1 DEF Received
<1>2. CASE n.peer = "alive" /\ n.torn = "no" /\ pkt[1] \in {"SUBSCRIBE", "PINGREQ"}
  <2>1. Append(n.in, "SUBACK") \in Seq(Packet) /\ Append(n.in, "PINGRESP") \in Seq(Packet)
    OBVIOUS
  <2> QED BY <1>2, <2>1 DEF Received
<1>3. CASE n.peer = "alive" /\ n.torn = "no" /\ pkt[1] = "PUBLISH"
  <2>1. pkt[2] \in Msg
    BY <1>3 DEF Written
  <2>2. Append(n.out, pkt[2]) \in Seq(Msg) /\ Append(n.in, "echo") \in Seq(Packet)
    BY <2>1
  <2> QED BY <1>3, <2>2 DEF Received
<1> QED BY <1>1, <1>2, <1>3 DEF Written

\* What a call leaves of the framing of connection n: an error ends the
\* session's writing, and only a connected session writes behind a cut packet.
Framed(m, n, r) ==
  /\ r.net.torn = "error" => n.torn = "error" \/ r.mq.status = "DisconnectPending"
  /\ r.net.behind # n.behind =>
       m.status = "Connected" /\ r.net.behind = n.behind \cup {n.torn}

LEMMA WritingType ==
  ASSUME NEW n \in Network
  PROVE  /\ Writing(n) \in Network /\ Writing(n).torn = n.torn /\ Writing(n).out = n.out
         /\ Writing(n).behind \in {n.behind, n.behind \cup {n.torn}}
<1>1. CASE n.torn = "no"
  BY <1>1 DEF Writing
<1>2. CASE n.torn # "no"
  <2>1. n.torn \in Cut /\ n.behind \in SUBSET Cut
    BY <1>2 DEF Network
  <2>2. n.behind \cup {n.torn} \in SUBSET Cut
    BY <2>1
  <2>3. Writing(n) = [n EXCEPT !.behind = n.behind \cup {n.torn}]
    BY <1>2 DEF Writing
  <2> QED BY <2>2, <2>3 DEF Network
<1> QED BY <1>1, <1>2

\* What a write of pkt leaves: the packet is the broker's, or it is not and
\* may be cut short; and only a connected session writes.
Wrote(m, n, pkt, r) ==
  /\ r.mq \in Session /\ r.net \in Network
  /\ r.mq.status \in {m.status, "DisconnectPending"}
  /\ \/ r.net.out = n.out
     \/ pkt[1] = "PUBLISH" /\ m.status = "Connected" /\ r.net.out = Append(n.out, pkt[2])
  /\ Framed(m, n, r)

LEMMA WriteEffect ==
  ASSUME NEW m \in Session, NEW n \in Network, NEW pkt \in Written,
         NEW r \in WriteResults(m, n, pkt)
  PROVE  Wrote(m, n, pkt, r)
<1>1. CASE m.status # "Connected"
  <2>1. r.mq = m /\ r.net = n
    BY <1>1 DEF WriteResults, Fails
  <2> QED BY <2>1 DEF Wrote, Framed
<1>2. CASE m.status = "Connected"
  <2> DEFINE w == Writing(n)
             cut(how) == [w EXCEPT !.torn = how]
             ended == [m EXCEPT !.status = "DisconnectPending"]
  <2>1. /\ w \in Network /\ w.torn = n.torn /\ w.out = n.out
        /\ w.behind \in {n.behind, n.behind \cup {n.torn}}
    BY WritingType
  <2>2. r \in SendResults(m, n, pkt)
    BY <1>2 DEF WriteResults
  <2>3. \/ r = [mq |-> m, net |-> Received(w, pkt), ret |-> "OK"]
        \/ r = [mq |-> ended, net |-> cut("error"), ret |-> "SendFailed"]
        \/ r = [mq |-> m, net |-> cut("slow"), ret |-> "SendFailed"]
        \/ r = [mq |-> m, net |-> n, ret |-> "SendFailed"]
    BY <2>2, ZenonT(30) DEF SendResults, Fails
  <2> HIDE DEF w
  <2>4. \A how \in Cut : /\ cut(how) \in Network /\ cut(how).torn = how
                         /\ cut(how).out = n.out /\ cut(how).behind = w.behind
    BY <2>1 DEF Network
  <2>5. CASE r = [mq |-> m, net |-> Received(w, pkt), ret |-> "OK"]
    <3>1. r.mq = m /\ r.net = Received(w, pkt)
      BY <2>5
    <3>2. /\ r.net \in Network /\ r.net.torn = n.torn /\ r.net.behind = w.behind
          /\ r.net.out = n.out \/ (pkt[1] = "PUBLISH" /\ r.net.out = Append(n.out, pkt[2]))
      BY <2>1, <3>1, ReceivedType
    <3> QED BY <1>2, <2>1, <3>1, <3>2 DEF Wrote, Framed
  <2>6. CASE r = [mq |-> ended, net |-> cut("error"), ret |-> "SendFailed"]
    <3>1. r.mq \in Session /\ r.mq.status = "DisconnectPending"
      BY <2>6 DEF Session, Status
    <3>2. r.net = cut("error")
      BY <2>6
    <3>3. r.net \in Network /\ r.net.out = n.out /\ r.net.behind = w.behind
      BY <2>4, <3>2 DEF Cut
    <3> QED BY <1>2, <2>1, <3>1, <3>3 DEF Wrote, Framed
  <2>7. CASE r = [mq |-> m, net |-> cut("slow"), ret |-> "SendFailed"]
    <3>1. r.mq = m /\ r.net = cut("slow")
      BY <2>7
    <3>2. r.net \in Network /\ r.net.out = n.out /\ r.net.behind = w.behind /\ r.net.torn = "slow"
      BY <2>4, <3>1 DEF Cut
    <3> QED BY <1>2, <2>1, <3>1, <3>2 DEF Wrote, Framed
  <2>8. CASE r = [mq |-> m, net |-> n, ret |-> "SendFailed"]
    BY <2>8 DEF Wrote, Framed
  <2> QED BY <2>3, <2>5, <2>6, <2>7, <2>8
<1> QED BY <1>1, <1>2

\* What handling an incoming packet or a timer leaves: nothing is published.
Handled(m, n, r) ==
  /\ r.mq \in Session /\ r.net \in Network
  /\ r.mq.status \in {m.status, "DisconnectPending"}
  /\ r.net.out = n.out
  /\ Framed(m, n, r)

LEMMA DueEffect ==
  ASSUME NEW m \in Session, NEW n \in Network, NEW r \in DueResults(m, n)
  PROVE  Handled(m, n, r)
<1>1. CASE m.wait
  <2>1. r.mq = m /\ r.net = n
    BY <1>1 DEF DueResults, Fails
  <2> QED BY <2>1 DEF Handled, Framed
<1>2. CASE ~m.wait
  <2> DEFINE pkt == <<"PINGREQ">>
  <2>1. PICK w \in WriteResults(m, n, pkt) :
          r = IF w.ret = "OK" THEN [w EXCEPT !.mq.wait = TRUE] ELSE w
    BY <1>2 DEF DueResults, PingResults
  <2>2. Wrote(m, n, pkt, w) /\ pkt[1] # "PUBLISH"
    BY WriteEffect DEF Written
  <2>3. CASE w.ret # "OK"
    BY <2>1, <2>2, <2>3 DEF Wrote, Handled, Framed
  <2>4. CASE w.ret = "OK"
    <3>0. w = [mq |-> w.mq, net |-> w.net, ret |-> w.ret]
      BY DEF WriteResults, SendResults, Fails
    <3>1. r.mq = [w.mq EXCEPT !.wait = TRUE] /\ r.net = w.net
      BY <2>1, <2>4, <3>0
    <3>2. r.mq \in Session /\ r.mq.status = w.mq.status
      BY <2>2, <3>1 DEF Wrote, Session
    <3> QED BY <2>2, <3>1, <3>2 DEF Wrote, Handled, Framed
  <2> QED BY <2>3, <2>4
<1> QED BY <1>1, <1>2

LEMMA PacketEffect ==
  ASSUME NEW m \in Session, NEW n \in Network, n.in # <<>>, NEW r \in PacketResults(m, n)
  PROVE  Handled(m, n, r)
<1> DEFINE rest == [n EXCEPT !.in = Tail(n.in)]
<1>1. Tail(n.in) \in Seq(Packet)
  <2>1. n.in \in Seq(Packet)
    BY DEF Network
  <2> QED BY <2>1
<1>2. rest \in Network /\ rest.out = n.out /\ rest.torn = n.torn /\ rest.behind = n.behind
  BY <1>1 DEF Network
<1>3. [m EXCEPT !.wait = FALSE] \in Session /\ [m EXCEPT !.wait = FALSE].status = m.status
  BY DEF Session
<1>4. CASE Head(n.in) = "PINGRESP"
  <2>1. r = [mq |-> [m EXCEPT !.wait = FALSE], net |-> rest, ret |-> "OK"]
    BY <1>4 DEF PacketResults
  <2> QED BY <2>1, <1>2, <1>3 DEF Handled, Framed
<1>5. CASE Head(n.in) = "other"
  <2>1. r = [mq |-> m, net |-> rest, ret |-> "BadResponse"]
    BY <1>5 DEF PacketResults, Fails
  <2> QED BY <2>1, <1>2 DEF Handled, Framed
<1>6. CASE Head(n.in) = "big"
  <2>1. \/ r = [mq |-> m, net |-> rest, ret |-> "OK"]
        \/ r = [mq |-> m, net |-> rest, ret |-> "RecvFailed"]
    BY <1>6 DEF PacketResults, Fails
  <2>2. r.mq = m /\ r.net = rest
    BY <2>1
  <2> QED BY <2>2, <1>2 DEF Handled, Framed
<1>7. CASE Head(n.in) \notin {"PINGRESP", "other", "big"}
  <2>1. r = [mq |-> m, net |-> rest, ret |-> "OK"]
    BY <1>7 DEF PacketResults
  <2> QED BY <2>1, <1>2 DEF Handled, Framed
<1> QED BY <1>4, <1>5, <1>6, <1>7

LEMMA RecvErrorEffect ==
  ASSUME NEW m \in Session, NEW n \in Network
  PROVE  Handled(m, n, RecvError(m, n)) /\ Handled(m, n, NeedMoreBytes(m, n))
<1>1. [m EXCEPT !.status = "DisconnectPending"] \in Session
      /\ [m EXCEPT !.status = "DisconnectPending"].status = "DisconnectPending"
  BY DEF Session, Status
<1> QED BY <1>1 DEF Handled, Framed, RecvError, NeedMoreBytes

LEMMA ConnectEffect ==
  ASSUME NEW n \in Network, NEW r \in ConnectResults(Fresh, n)
  PROVE  r.mq \in Session /\ r.net = n /\ (r.ret # "OK" => r.mq.status = "NotConnected")
<1>1. CASE r = [mq |-> [status |-> "Connected", wait |-> FALSE], net |-> n, ret |-> "OK"]
  BY <1>1 DEF Session, Status
<1>2. CASE r = [mq |-> Fresh, net |-> n, ret |-> "Failed"]
  BY <1>2 DEF Fresh, Session, Status
<1> QED BY <1>1, <1>2 DEF ConnectResults, Fails

-----------------------------------------------------------------------------
(* The order of messages                                                   *)

\* Brokers got out, q waits, and n messages were made: every number in out is
\* below every number in q, and none is above n.
InOrder(out, q, n) ==
  /\ \A i, j \in 1..Len(out) : i < j => out[i] < out[j]
  /\ \A i, j \in 1..Len(q) : i < j => q[i] < q[j]
  /\ \A i \in 1..Len(out), j \in 1..Len(q) : out[i] < q[j]
  /\ \A i \in 1..Len(out) : out[i] <= n
  /\ \A j \in 1..Len(q) : q[j] <= n

LEMMA MsgIsNat == ASSUME NEW q \in Seq(Msg) PROVE \A i \in 1..Len(q) : q[i] \in Nat
<1>1. \A i \in 1..Len(q) : q[i] \in Msg
  OBVIOUS
<1> QED BY <1>1, SessionConstants

LEMMA Bounds == MaxTls \in Nat /\ MaxFaults \in Nat /\ MaxFlaps \in Nat /\ MaxIn \in Nat
BY TaskConstants

\* A message leaves the queue, for the broker or for nobody.
LEMMA TakeInOrder ==
  ASSUME NEW out \in Seq(Msg), NEW q \in Seq(Msg), q # <<>>, NEW n \in Nat, InOrder(out, q, n),
         NEW out2, out2 = out \/ out2 = Append(out, Head(q))
  PROVE  Tail(q) \in Seq(Msg) /\ Len(Tail(q)) <= Len(q) /\ InOrder(out2, Tail(q), n)
<1>1. /\ Tail(q) \in Seq(Msg) /\ Len(q) \in Nat \ {0} /\ Len(Tail(q)) = Len(q) - 1
      /\ Head(q) = q[1] /\ \A i \in 1..Len(q) - 1 : Tail(q)[i] = q[i + 1]
  OBVIOUS
<1>2. \A i \in 1..Len(q) : q[i] \in Nat
  BY MsgIsNat
<1>3. \A i \in 1..Len(out) : out[i] \in Nat
  BY MsgIsNat
<1>4. CASE out2 = out
  BY <1>1, <1>2, <1>3, <1>4 DEF InOrder
<1>5. CASE out2 = Append(out, Head(q))
  <2>1. /\ Len(out2) = Len(out) + 1 /\ Len(out) \in Nat /\ out2[Len(out) + 1] = q[1]
        /\ \A i \in 1..Len(out) : out2[i] = out[i]
    BY <1>1, <1>5
  <2>3. ASSUME NEW i \in 1..Len(out2), NEW j \in 1..Len(out2), i < j PROVE out2[i] < out2[j]
    <3>1. i \in 1..Len(out) /\ out2[i] = out[i]
      BY <2>1, <2>3
    <3>2. CASE j \in 1..Len(out)
      BY <2>1, <2>3, <3>1, <3>2 DEF InOrder
    <3>3. CASE j = Len(out) + 1
      <4>1. 1 \in 1..Len(q) /\ out[i] < q[1]
        BY <1>1, <3>1 DEF InOrder
      <4> QED BY <2>1, <3>1, <3>3, <4>1
    <3> QED BY <2>1, <3>2, <3>3
  <2>4. ASSUME NEW i \in 1..Len(out2), NEW j \in 1..Len(q) - 1 PROVE out2[i] < q[j + 1]
    <3>1. CASE i \in 1..Len(out)
      BY <1>1, <2>1, <3>1 DEF InOrder
    <3>2. CASE i = Len(out) + 1
      <4>1. 1 \in 1..Len(q) /\ j + 1 \in 1..Len(q) /\ 1 < j + 1
        BY <1>1
      <4> QED BY <2>1, <3>2, <4>1 DEF InOrder
    <3> QED BY <2>1, <3>1, <3>2
  <2>5. \A i \in 1..Len(out2) : out2[i] <= n
    BY <1>1, <1>2, <1>3, <2>1 DEF InOrder
  <2>6. /\ \A i, j \in 1..Len(Tail(q)) : i < j => Tail(q)[i] < Tail(q)[j]
        /\ \A j \in 1..Len(Tail(q)) : Tail(q)[j] <= n
    BY <1>1, <1>2 DEF InOrder
  <2>7. \A i \in 1..Len(out2), j \in 1..Len(Tail(q)) : out2[i] < Tail(q)[j]
    BY <1>1, <2>4
  <2> QED BY <2>3, <2>5, <2>6, <2>7 DEF InOrder
<1> QED BY <1>1, <1>4, <1>5

\* A new message joins the queue, or is dropped.
LEMMA MakeInOrder ==
  ASSUME NEW out \in Seq(Msg), NEW q \in Seq(Msg), NEW n \in Nat, InOrder(out, q, n), n + 1 \in Msg,
         NEW q2, q2 = q \/ q2 = Append(q, n + 1)
  PROVE  InOrder(out, q2, n + 1)
<1>1. n + 1 \in Nat /\ (\A i \in 1..Len(q) : q[i] \in Nat) /\ (\A i \in 1..Len(out) : out[i] \in Nat)
  BY MsgIsNat
<1>2. CASE q2 = q
  BY <1>1, <1>2 DEF InOrder
<1>3. CASE q2 = Append(q, n + 1)
  <2>1. /\ Len(q2) = Len(q) + 1 /\ Len(q) \in Nat /\ q2[Len(q) + 1] = n + 1
        /\ \A i \in 1..Len(q) : q2[i] = q[i]
    BY <1>3
  <2>2. ASSUME NEW i \in 1..Len(q2), NEW j \in 1..Len(q2), i < j PROVE q2[i] < q2[j]
    <3>1. i \in 1..Len(q) /\ q2[i] = q[i] /\ q[i] <= n
      BY <2>1, <2>2 DEF InOrder
    <3>2. CASE j \in 1..Len(q)
      BY <2>1, <2>2, <3>1, <3>2 DEF InOrder
    <3>3. CASE j = Len(q) + 1
      BY <1>1, <2>1, <3>1, <3>3
    <3> QED BY <2>1, <3>2, <3>3
  <2>3. \A i \in 1..Len(out), j \in 1..Len(q2) : out[i] < q2[j]
    BY <1>1, <2>1 DEF InOrder
  <2>4. \A i \in 1..Len(out) : out[i] <= n + 1
    BY <1>1 DEF InOrder
  <2>5. ASSUME NEW j \in 1..Len(q2) PROVE q2[j] <= n + 1
    <3>1. CASE j \in 1..Len(q)
      BY <1>1, <2>1, <3>1 DEF InOrder
    <3>2. CASE j = Len(q) + 1
      BY <1>1, <2>1, <3>2
    <3> QED BY <2>1, <3>1, <3>2
  <2> QED BY <2>2, <2>3, <2>4, <2>5 DEF InOrder
<1> QED BY <1>2, <1>3

-----------------------------------------------------------------------------
(* The invariant                                                           *)

Owned == live = IF pc \in SessionPc THEN {tls} ELSE {}
Ordered == InOrder(net.out, pubq, made)

MqttInv == MqttTypeOK /\ Owned /\ Ordered

LEMMA EmptyQueue == <<>> \in Seq(Packet)
OBVIOUS

LEMMA MqttInitInv == MqttInit => MqttInv
<1> SUFFICES ASSUME MqttInit PROVE MqttInv
  OBVIOUS
<1>0. <<>> \in Seq(Msg) /\ Len(<<>>) = 0 /\ <<>> \in Seq(Packet)
  OBVIOUS
<1>1. mq \in Session /\ net \in Network
  BY <1>0 DEF MqttInit, Fresh, Session, Status, Network
<1>2. MqttTypeOK
  <2>1. BaseDelay \in BaseDelay..MaxDelay /\ 0 <= QueueLen /\ 0 \in 0..SubLen /\ 0 \in 0..CtlLen
    BY TaskConstants
  <2>2. dialled \in 0..MaxTls /\ tls \in 0..dialled /\ live \subseteq 1..dialled
        /\ flaps \in 0..MaxFlaps /\ faults \in 0..MaxFaults /\ sent \in 0..MaxIn
    BY Bounds DEF MqttInit
  <2>3. pubq \in Seq(Msg) /\ Len(pubq) <= QueueLen /\ made \in Nat
    BY <1>0, <2>1 DEF MqttInit
  <2> QED BY <1>1, <2>1, <2>2, <2>3 DEF MqttInit, MqttTypeOK, Pc
<1>3. Owned
  BY DEF MqttInit, Owned, SessionPc
<1>4. Ordered
  BY DEF MqttInit, Ordered, InOrder
<1> QED BY <1>2, <1>3, <1>4 DEF MqttInv

\* What a loop iteration does to the session.
LEMMA AfterHandled ==
  ASSUME MqttInv, Looping, NEW r, Handled(mq, net, r), After(r),
         faults' \in 0..MaxFaults, subq' \in 0..SubLen, ctlq' \in 0..CtlLen, ota' \in Url \cup {NoUrl}
  PROVE  MqttInv'
<1> USE DEF MqttInv, Looping, Elsewhere
<1>1. mq' \in Session /\ net' \in Network /\ net'.out = net.out /\ pc' \in {"check", "cleanup"}
  BY DEF After, Handled
<1>2. MqttTypeOK'
  BY <1>1 DEF MqttTypeOK, Pc, SessionPc
<1>3. Owned'
  BY <1>1 DEF Owned, SessionPc
<1>4. Ordered'
  BY <1>1 DEF Ordered
<1> QED BY <1>2, <1>3, <1>4

LEMMA MqttInvStep == MqttInv /\ [MqttNext]_mqttVars => MqttInv'
<1> SUFFICES ASSUME MqttInv, [MqttNext]_mqttVars PROVE MqttInv'
  OBVIOUS
<1> USE DEF MqttInv
<1> USE TaskConstants DEF Elsewhere, taskVars, sessVars, appVars
<1>0. Fault => faults' \in 0..MaxFaults
  BY DEF Fault, MqttTypeOK
<1>1. (NetFault \/ UNCHANGED faults) => faults' \in 0..MaxFaults
  BY <1>0 DEF NetFault, MqttTypeOK
<1>2. BackOff => delay' \in BaseDelay..MaxDelay
  BY DEF BackOff, Capped, MqttTypeOK
<1>3. ASSUME WaitWifi PROVE MqttInv'
  BY <1>3 DEF WaitWifi, MqttTypeOK, Owned, Ordered, Pc, SessionPc
<1>4. ASSUME NEW here \in {"ip", "dns"}, NEW next \in {"dns", "tls"}, Probe(here, next) PROVE MqttInv'
  <2>1. pc = here /\ pc' \in {next, "ip"} /\ faults' \in 0..MaxFaults /\ delay' \in BaseDelay..MaxDelay
    BY <1>4, <1>1, <1>2 DEF Probe, MqttTypeOK
  <2> QED BY <1>4, <2>1 DEF Probe, MqttTypeOK, Owned, Ordered, Pc, SessionPc
<1>5. ASSUME TlsConnect PROVE MqttInv'
  <2>1. CASE /\ dialled < MaxTls /\ dialled' = dialled + 1 /\ tls' = dialled + 1
             /\ live' = live \cup {dialled + 1} /\ net' = Dialled(net) /\ pc' = "connect"
             /\ UNCHANGED <<delay, faults>>
    <3>1. net' \in Network /\ net'.out = net.out
      BY <2>1, EmptyQueue DEF Dialled, Network, MqttTypeOK
    <3>2. live = {}
      BY <1>5 DEF TlsConnect, Owned, SessionPc
    <3>3. dialled' \in 0..MaxTls /\ tls' \in 0..dialled' /\ live' = {tls'} /\ live' \subseteq 1..dialled'
      BY <2>1, <3>2, Bounds DEF MqttTypeOK
    <3>4. MqttTypeOK'
      BY <1>5, <2>1, <3>1, <3>3 DEF TlsConnect, MqttTypeOK, Pc, SessionPc
    <3>5. Owned' /\ Ordered'
      BY <1>5, <2>1, <3>1, <3>3 DEF TlsConnect, Owned, Ordered, SessionPc
    <3> QED BY <3>4, <3>5
  <2>2. CASE NetFault /\ tls' = 0 /\ pc' = "ip" /\ BackOff /\ UNCHANGED <<live, dialled, net>>
    <3>1. tls' \in 0..dialled'
      BY <2>2 DEF MqttTypeOK
    <3>2. MqttTypeOK'
      BY <1>5, <2>2, <1>1, <1>2, <3>1 DEF TlsConnect, MqttTypeOK, Pc, SessionPc
    <3>3. Owned' /\ Ordered'
      BY <1>5, <2>2 DEF TlsConnect, Owned, Ordered, SessionPc
    <3> QED BY <3>2, <3>3
  <2> QED BY <1>5, <2>1, <2>2 DEF TlsConnect
<1>6. ASSUME MqttConnect PROVE MqttInv'
  <2>1. PICK r \in ConnectResults(Fresh, net) :
          /\ mq' = r.mq /\ net' = r.net
          /\ IF r.ret = "OK"
             THEN pc' = "subscribe" /\ delay' = BaseDelay /\ UNCHANGED <<live, faults>>
             ELSE NetFault /\ Destroy /\ pc' = "ip" /\ BackOff
    BY <1>6 DEF MqttConnect
  <2>2. mq' \in Session /\ net' = net
    BY <2>1, ConnectEffect DEF MqttTypeOK
  <2>3. live = {tls}
    BY <1>6 DEF MqttConnect, Owned, SessionPc
  <2>4. delay' \in BaseDelay..MaxDelay /\ faults' \in 0..MaxFaults
    BY <2>1, <1>1, <1>2
  <2>5. \/ pc' = "subscribe" /\ live' = {tls}
        \/ pc' = "ip" /\ live' = {}
    BY <2>1, <2>3 DEF Destroy
  <2>6. MqttTypeOK'
    BY <1>6, <2>2, <2>3, <2>4, <2>5 DEF MqttConnect, MqttTypeOK, Pc, SessionPc
  <2>7. Owned' /\ Ordered'
    BY <1>6, <2>2, <2>5 DEF MqttConnect, Owned, Ordered, SessionPc
  <2> QED BY <2>6, <2>7
<1>7. ASSUME SubscribeAll PROVE MqttInv'
  <2> DEFINE pkt == <<"SUBSCRIBE">>
  <2>1. PICK r \in WriteResults(mq, net, pkt) : mq' = r.mq /\ net' = r.net /\ Budget(r)
    BY <1>7 DEF SubscribeAll
  <2>2. Wrote(mq, net, pkt, r) /\ pkt[1] # "PUBLISH"
    BY WriteEffect DEF MqttTypeOK, Written
  <2>3. mq' \in Session /\ net' \in Network /\ net'.out = net.out /\ faults' \in 0..MaxFaults
    BY <2>1, <2>2, <1>0, <1>1 DEF Wrote, Budget
  <2>4. MqttTypeOK'
    BY <1>7, <2>3 DEF SubscribeAll, MqttTypeOK, Pc, SessionPc
  <2>5. Owned' /\ Ordered'
    BY <1>7, <2>3 DEF SubscribeAll, Owned, Ordered, SessionPc
  <2> QED BY <2>4, <2>5
<1>8. ASSUME Signal \/ CheckWifi \/ Drained PROVE MqttInv'
  BY <1>8 DEF Signal, CheckWifi, Drained, MqttTypeOK, Owned, Ordered, Pc, SessionPc
<1>9. ASSUME PublishPending PROVE MqttInv'
  <2> DEFINE pkt == <<"PUBLISH", Head(pubq)>>
  <2>1. PICK r \in WriteResults(mq, net, pkt) : mq' = r.mq /\ net' = r.net /\ Budget(r)
    BY <1>9 DEF PublishPending
  <2>2. pubq \in Seq(Msg) /\ pubq # <<>> /\ Head(pubq) \in Msg /\ net.out \in Seq(Msg)
    <3>1. pubq \in Seq(Msg) /\ pubq # <<>> /\ net \in Network
      BY <1>9 DEF PublishPending, MqttTypeOK
    <3>2. Head(pubq) \in Msg
      BY <3>1
    <3> QED BY <3>1, <3>2 DEF Network
  <2>3. Wrote(mq, net, pkt, r)
    BY <2>2, WriteEffect DEF MqttTypeOK, Written
  <2>4. mq' \in Session /\ net' \in Network /\ faults' \in 0..MaxFaults
    BY <2>1, <2>3, <1>0, <1>1 DEF Wrote, Budget
  <2>5. net'.out = net.out \/ net'.out = Append(net.out, Head(pubq))
    BY <2>1, <2>3 DEF Wrote
  <2>6. Tail(pubq) \in Seq(Msg) /\ Len(Tail(pubq)) <= Len(pubq) /\ InOrder(net'.out, Tail(pubq), made)
    BY <2>2, <2>5, TakeInOrder DEF Ordered, MqttTypeOK
  <2>7. Len(Tail(pubq)) <= QueueLen
    BY <2>2, <2>6 DEF MqttTypeOK
  <2>8. MqttTypeOK'
    BY <1>9, <2>4, <2>6, <2>7 DEF PublishPending, MqttTypeOK
  <2>9. Owned' /\ Ordered'
    BY <1>9, <2>6 DEF PublishPending, Owned, Ordered
  <2> QED BY <2>8, <2>9
<1>10. ASSUME LoopPacket PROVE MqttInv'
  <2>1. PICK r \in PacketResults(mq, net) : After(r)
    BY <1>10 DEF LoopPacket
  <2>2. Handled(mq, net, r)
    BY <1>10, PacketEffect DEF LoopPacket, MqttTypeOK
  <2>3. subq' \in 0..SubLen /\ ctlq' \in 0..CtlLen /\ ota' \in Url \cup {NoUrl}
    BY <1>10 DEF LoopPacket, Callback, Up, MqttTypeOK
  <2> QED BY <1>10, <2>1, <2>2, <2>3, <1>1, AfterHandled DEF LoopPacket
<1>11. ASSUME LoopPartial \/ LoopRecvError PROVE MqttInv'
  <2>1. PICK r : After(r) /\ Handled(mq, net, r)
    BY <1>11, RecvErrorEffect DEF LoopPartial, LoopRecvError, MqttTypeOK
  <2> QED BY <1>11, <2>1, <1>0, <1>1, AfterHandled DEF LoopPartial, LoopRecvError, MqttTypeOK
<1>12. ASSUME LoopPing \/ LoopTimeout \/ LoopLate PROVE MqttInv'
  <2>1. PICK r \in DueResults(mq, net) : After(r) /\ (Budget(r) \/ Fault \/ UNCHANGED faults)
    BY <1>12 DEF LoopPing, LoopTimeout, LoopLate
  <2>2. Handled(mq, net, r)
    BY DueEffect DEF MqttTypeOK
  <2>3. faults' \in 0..MaxFaults
    BY <2>1, <1>0, <1>1 DEF Budget
  <2> QED BY <1>12, <2>1, <2>2, <2>3, AfterHandled DEF LoopPing, LoopTimeout, LoopLate, MqttTypeOK
<1>13. ASSUME LoopIdle PROVE MqttInv'
  BY <1>13 DEF LoopIdle, Looping, MqttTypeOK, Owned, Ordered, Pc, SessionPc
<1>14. ASSUME Cleanup \/ WaitAgain PROVE MqttInv'
  <2>1. delay' \in BaseDelay..MaxDelay
    BY <1>14, <1>2 DEF Cleanup, WaitAgain, MqttTypeOK
  <2>2. pc' \in {"again", "ip"} /\ live' = {}
    BY <1>14 DEF Cleanup, WaitAgain, Owned, SessionPc, Destroy
  <2> QED BY <1>14, <2>1, <2>2 DEF Cleanup, WaitAgain, MqttTypeOK, Owned, Ordered, Pc, SessionPc
<1>15. ASSUME Produce PROVE MqttInv'
  <2>1. pubq \in Seq(Msg) /\ net.out \in Seq(Msg) /\ made \in Nat /\ made + 1 \in Msg /\ QueueLen \in Nat
    BY <1>15 DEF Produce, MqttTypeOK, Network
  <2>2. pubq' \in Seq(Msg) /\ Len(pubq') <= QueueLen /\ made' \in Nat
    <3>1. CASE pubq' = pubq
      BY <1>15, <2>1, <3>1 DEF Produce, MqttTypeOK
    <3>2. CASE Len(pubq) < QueueLen /\ pubq' = Append(pubq, made + 1)
      <4>1. Append(pubq, made + 1) \in Seq(Msg) /\ Len(Append(pubq, made + 1)) = Len(pubq) + 1 /\ Len(pubq) \in Nat
        BY <2>1
      <4>2. Len(pubq) + 1 <= QueueLen
        BY <2>1, <3>2, <4>1
      <4>3. made' \in Nat
        BY <1>15, <2>1 DEF Produce
      <4> QED BY <3>2, <4>1, <4>2, <4>3
    <3> QED BY <1>15, <3>1, <3>2 DEF Produce
  <2>3. InOrder(net.out, pubq', made + 1)
    BY <1>15, <2>1, MakeInOrder DEF Produce, Ordered
  <2> QED BY <1>15, <2>2, <2>3 DEF Produce, MqttTypeOK, Owned, Ordered
<1>16. ASSUME WifiUp \/ WifiDown PROVE MqttInv'
  <2>1. bit' \in BOOLEAN /\ flaps' \in 0..MaxFlaps
    <3>1. flaps \in 0..MaxFlaps
      BY DEF MqttTypeOK
    <3>2. bit' \in BOOLEAN /\ (flaps' = flaps \/ (flaps < MaxFlaps /\ flaps' = flaps + 1))
      BY <1>16 DEF WifiUp, WifiDown
    <3> QED BY <3>1, <3>2, Bounds
  <2>2. UNCHANGED <<taskVars, sessVars, pubq, made, appVars, faults, sent>>
    BY <1>16 DEF WifiUp, WifiDown
  <2> QED BY <2>1, <2>2 DEF MqttTypeOK, Owned, Ordered
<1>17. ASSUME PeerGone \/ BrokerSends PROVE MqttInv'
  <2>1. net' \in Network /\ net'.out = net.out
    <3>1. CASE PeerGone
      BY <3>1 DEF PeerGone, MqttTypeOK, Network
    <3>2. CASE BrokerSends
      <4>1. PICK p \in Packet : net' = [net EXCEPT !.in = Append(net.in, p)]
        BY <3>2 DEF BrokerSends, Packet
      <4>2. net \in Network /\ Append(net.in, p) \in Seq(Packet)
        BY DEF MqttTypeOK, Network
      <4> QED BY <4>1, <4>2 DEF Network
    <3> QED BY <1>17, <3>1, <3>2
  <2>2. faults' \in 0..MaxFaults
    BY <1>17, <1>0, <1>1 DEF PeerGone, BrokerSends
  <2>3. sent' \in 0..MaxIn
    <3>1. sent \in 0..MaxIn
      BY DEF MqttTypeOK
    <3>2. sent' = sent \/ (sent < MaxIn /\ sent' = sent + 1)
      BY <1>17 DEF PeerGone, BrokerSends
    <3> QED BY <3>1, <3>2, Bounds
  <2>4. UNCHANGED <<bit, taskVars, mq, pubq, made, appVars, flaps>>
    BY <1>17 DEF PeerGone, BrokerSends
  <2> QED BY <2>1, <2>2, <2>3, <2>4 DEF MqttTypeOK, Owned, Ordered
<1>18. CASE UNCHANGED mqttVars
  BY <1>18 DEF mqttVars, MqttTypeOK, Owned, Ordered
<1> QED
  BY <1>3, <1>4, <1>5, <1>6, <1>7, <1>8, <1>9, <1>10, <1>11, <1>12, <1>13, <1>14, <1>15, <1>16, <1>17, <1>18
     DEF MqttNext, Task, IpStable, DnsReady

-----------------------------------------------------------------------------
(* The theorems                                                            *)

LEMMA MqttInvariant == MqttSpec => []MqttInv
<1>1. MqttInit => MqttInv
  BY MqttInitInv
<1>2. MqttInv /\ [MqttNext]_mqttVars => MqttInv'
  BY MqttInvStep
<1> QED BY <1>1, <1>2, PTL DEF MqttSpec

\* mqtt_task.c:204, :533: while a session uses s_net_ctx.tls it is the one
\* live handle, and when the task dials again none is left, after failed
\* connects, lost sessions and lost Wi-Fi in any number.
THEOREM TlsHandleOwned == MqttSpec => []TlsOwned
<1>1. MqttInv => TlsOwned
  BY DEF MqttInv, Owned, TlsOwned
<1> QED BY <1>1, MqttInvariant, PTL

\* publish_pending_messages: the broker sees each message at most once and in
\* the order of the queue, whatever fails and however often it reconnects.
THEOREM BrokerSeesOrder == MqttSpec => []PublishedInOrder
<1>1. ASSUME MqttInv PROVE PublishedInOrder
  <2>1. net.out \in Seq(Msg) /\ pubq \in Seq(Msg) /\ InOrder(net.out, pubq, made)
    BY <1>1 DEF MqttInv, MqttTypeOK, Network, Ordered
  <2> DEFINE all == net.out \o pubq
  <2>2. /\ Len(net.out) \in Nat /\ Len(pubq) \in Nat /\ Len(all) = Len(net.out) + Len(pubq)
        /\ \A i \in 1..Len(all) : all[i] = IF i <= Len(net.out) THEN net.out[i] ELSE pubq[i - Len(net.out)]
    BY <2>1
  <2>3. ASSUME NEW i \in 1..Len(all), NEW j \in 1..Len(all), i < j PROVE all[i] < all[j]
    <3>1. CASE j <= Len(net.out)
      BY <2>1, <2>2, <2>3, <3>1 DEF InOrder
    <3>2. CASE i <= Len(net.out) /\ j > Len(net.out)
      <4>1. i \in 1..Len(net.out) /\ j - Len(net.out) \in 1..Len(pubq)
        BY <2>2, <3>2
      <4>2. net.out[i] < pubq[j - Len(net.out)]
        BY <2>1, <4>1 DEF InOrder
      <4>3. all[i] = net.out[i] /\ all[j] = pubq[j - Len(net.out)]
        BY <2>2, <3>2
      <4> QED BY <4>2, <4>3
    <3>3. CASE i > Len(net.out)
      <4>1. i - Len(net.out) \in 1..Len(pubq) /\ j - Len(net.out) \in 1..Len(pubq)
            /\ i - Len(net.out) < j - Len(net.out)
        BY <2>2, <2>3, <3>3
      <4>2. pubq[i - Len(net.out)] < pubq[j - Len(net.out)]
        BY <2>1, <4>1 DEF InOrder
      <4>3. all[i] = pubq[i - Len(net.out)] /\ all[j] = pubq[j - Len(net.out)]
        BY <2>2, <2>3, <3>3
      <4> QED BY <4>2, <4>3
    <3> QED BY <2>2, <3>1, <3>2, <3>3
  <2> QED BY <2>3 DEF PublishedInOrder
<1> QED BY <1>1, MqttInvariant, PTL

\* A connection on which a send failed has a session that writes no more, and is
\* not handed to MQTT_Connect again.
TornIsOver ==
  /\ net.torn = "error" => mq.status # "Connected"
  /\ pc = "connect" => net.torn = "no"
  /\ FramingKept

\* sendBuffer, sendMessageVector (core_mqtt.c:837-840): whatever else fails,
\* the send timeout included, nothing is written behind a packet that a
\* transport error cut short.
THEOREM NothingAfterTornPacket == MqttSpec => []FramingKept
<1>1. MqttInit => TornIsOver
  BY DEF MqttInit, TornIsOver, FramingKept
<1>2. ASSUME MqttInv, TornIsOver, [MqttNext]_mqttVars
      PROVE  TornIsOver'
  <2> USE DEF TornIsOver, FramingKept
  <2>1. ASSUME NEW r, Framed(mq, net, r), r.mq.status \in {mq.status, "DisconnectPending"},
               mq' = r.mq, net' = r.net, pc' # "connect"
        PROVE  TornIsOver'
    BY <1>2, <2>1 DEF Framed
  <2>2. ASSUME NEW pkt \in Written, NEW r \in WriteResults(mq, net, pkt), mq' = r.mq, net' = r.net,
               pc' # "connect"
        PROVE  TornIsOver'
    <3>1. Wrote(mq, net, pkt, r)
      BY <1>2, WriteEffect DEF MqttInv, MqttTypeOK
    <3> QED BY <2>1, <2>2, <3>1 DEF Wrote
  <2>3. ASSUME NEW r, Handled(mq, net, r), After(r)
        PROVE  TornIsOver'
    BY <2>1, <2>3 DEF Handled, After
  <2>4. CASE TlsConnect
    <3>1. mq' = mq /\ (net' = Dialled(net) \/ (net' = net /\ pc' = "ip"))
      BY <2>4 DEF TlsConnect
    <3>2. net' = Dialled(net) => net'.torn = "no" /\ net'.behind = {}
      BY <1>2 DEF Dialled, MqttInv, MqttTypeOK, Network
    <3> QED BY <1>2, <3>1, <3>2
  <2>5. CASE MqttConnect
    <3>1. PICK r \in ConnectResults(Fresh, net) : net' = r.net
      BY <2>5 DEF MqttConnect
    <3>2. net' = net /\ pc = "connect" /\ pc' \in {"subscribe", "ip"}
      BY <2>5, <3>1, <1>2, ConnectEffect DEF MqttConnect, MqttInv, MqttTypeOK
    <3> QED BY <1>2, <3>2
  <2>6. CASE SubscribeAll
    BY <2>2, <2>6 DEF SubscribeAll, Written
  <2>7. CASE PublishPending
    <3>1. Head(pubq) \in Msg
      <4>1. pubq \in Seq(Msg) /\ pubq # <<>>
        BY <1>2, <2>7 DEF PublishPending, MqttInv, MqttTypeOK
      <4> QED BY <4>1
    <3>2. <<"PUBLISH", Head(pubq)>> \in Written
      BY <3>1 DEF Written
    <3>3. pc' # "connect"
      BY <2>7 DEF PublishPending
    <3> QED BY <2>2, <2>7, <3>2, <3>3 DEF PublishPending
  <2>8. CASE LoopPacket
    <3>1. PICK r \in PacketResults(mq, net) : After(r)
      BY <2>8 DEF LoopPacket
    <3>2. Handled(mq, net, r)
      BY <1>2, <2>8, PacketEffect DEF LoopPacket, MqttInv, MqttTypeOK
    <3> QED BY <2>3, <3>1, <3>2
  <2>9. CASE LoopPartial \/ LoopRecvError
    <3>1. \E r : After(r) /\ Handled(mq, net, r)
      BY <1>2, <2>9, RecvErrorEffect DEF LoopPartial, LoopRecvError, MqttInv, MqttTypeOK
    <3> QED BY <2>3, <3>1
  <2>10. CASE LoopPing \/ LoopTimeout \/ LoopLate
    <3>1. PICK r \in DueResults(mq, net) : After(r)
      BY <2>10 DEF LoopPing, LoopTimeout, LoopLate
    <3>2. Handled(mq, net, r)
      BY <1>2, DueEffect DEF MqttInv, MqttTypeOK
    <3> QED BY <2>3, <3>1, <3>2
  <2>11. CASE PeerGone \/ BrokerSends
    <3>1. mq' = mq /\ pc' = pc /\ net'.torn = net.torn /\ net'.behind = net.behind
      BY <1>2, <2>11 DEF PeerGone, BrokerSends, taskVars, MqttInv, MqttTypeOK, Network
    <3> QED BY <1>2, <3>1
  <2>12. ASSUME UNCHANGED sessVars, pc' # "connect" \/ pc' = pc
         PROVE  TornIsOver'
    BY <1>2, <2>12 DEF sessVars
  <2>13. CASE \/ WaitWifi \/ IpStable \/ DnsReady \/ Signal \/ CheckWifi \/ Drained \/ LoopIdle
              \/ Cleanup \/ WaitAgain
    <3>1. UNCHANGED sessVars /\ pc' # "connect"
      BY <2>13 DEF WaitWifi, IpStable, DnsReady, Probe, Signal, CheckWifi, Drained, LoopIdle, Cleanup, WaitAgain
    <3> QED BY <2>12, <3>1
  <2>14. CASE Produce \/ WifiUp \/ WifiDown \/ UNCHANGED mqttVars
    <3>1. UNCHANGED sessVars /\ pc' = pc
      BY <2>14 DEF Produce, WifiUp, WifiDown, taskVars, mqttVars
    <3> QED BY <2>12, <3>1
  <2> QED
    BY <1>2, <2>4, <2>5, <2>6, <2>7, <2>8, <2>9, <2>10, <2>11, <2>13, <2>14 DEF MqttNext, Task
<1>3. MqttInv /\ TornIsOver /\ [MqttNext]_mqttVars => TornIsOver'
  BY <1>2
<1>4. TornIsOver => FramingKept
  BY DEF TornIsOver
<1> QED BY <1>1, <1>3, <1>4, MqttInvariant, PTL DEF MqttSpec
=============================================================================
