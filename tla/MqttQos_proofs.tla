--------------------------- MODULE MqttQos_proofs ---------------------------
(***************************************************************************)
(* Proofs about QoS 1 and QoS 2 in coreMQTT: exactly once, at least once,  *)
(* the records and the order, for messages, identifiers, slots, lost       *)
(* connections and forgotten sessions of any number.                       *)
(*                                                                         *)
(* In each direction an identifier stands for one message, and has at most *)
(* one packet on its way: the PUBLISH or PUBREL of its sender, or the      *)
(* answer to it.  The invariant says for every such packet what the record *)
(* of its identifier, and the other side, know.                            *)
(***************************************************************************)
EXTENDS MqttQos, FiniteSetTheorems, WellFoundedInduction, TLAPS

-----------------------------------------------------------------------------
(* Packets on their way                                                    *)

Orders == {"PUBLISH", "PUBREL"}
Acks == {"PUBACK", "PUBREC", "PUBCOMP"}

Fwd(s) == {p \in ToSet(s) : p.type \in Orders}
Back(s) == {p \in ToSet(s) : p.type \in Acks}

OneEach(s, T) ==
  \A i, j \in DOMAIN s : s[i].type \in T /\ s[j].type \in T /\ s[i].id = s[j].id => i = j

\* There is the queue of the orders of one direction, back that of their answers.
OnePacket(there, back) ==
  /\ OneEach(there, Orders) /\ OneEach(back, Acks)
  /\ \A p \in Fwd(there), q \in Back(back) : p.id # q.id

Rising(s) ==
  \A i, j \in DOMAIN s : i < j /\ s[i].type = "PUBLISH" /\ s[j].type = "PUBLISH" => s[i].m < s[j].m

-----------------------------------------------------------------------------
(* Records                                                                 *)

Recs(t) == {t[i] : i \in Used(t)}
Has(t, id) == \E r \in Recs(t) : r.id = id
StateIn(t, id, S) == \E r \in Recs(t) : r.id = id /\ r.st \in S
Distinct(t) == \A i, j \in Used(t) : t[i].id = t[j].id => i = j

\* c has the records of t in their order, none of them further back.
Keeps(t, c) ==
  /\ \A i \in Used(t) : \E j \in Used(c) : j <= i /\ c[j] = t[i]
  /\ \A j \in Used(c) : \E i \in Used(t) : j <= i /\ c[j] = t[i]
  /\ \A j, k \in Used(c) : j < k => \E i, l \in Used(t) : i < l /\ c[j] = t[i] /\ c[k] = t[l]

\* And behind them a new one.
Grows(t, c, new) ==
  \E at \in DOMAIN c : /\ c[at] = new /\ \A i \in Used(c) : i <= at
                       /\ Keeps(t, [c EXCEPT ![at] = Empty])

-----------------------------------------------------------------------------
(* The invariant: what the client publishes                                *)

Late == {"PubRelSend", "PubCompPending"}
Fits(st, m) == IF QosOf(m) = 1 THEN st \in {"PublishSend", "PubAckPending"}
               ELSE st \in {"PublishSend", "PubRecPending"} \cup Late

Connection ==
  /\ cli.conn = "NotConnected" => cli.pc = "idle" /\ ~cli.bad /\ ~net.up
  /\ cli.pc # "idle" => cli.conn = "Connected" /\ ~cli.bad
  /\ cli.pc = "publishes" => cb
  /\ cli.pc = "resend" => ~cb
  /\ net.up => brk.sess
  /\ ~brk.sess => /\ cli.conn = "NotConnected" /\ net.c2b = <<>> /\ net.b2c = <<>>
                  /\ brk.rx = {} /\ brk.tx = <<>>

Delivered(id) == app.own[id] \in ToSet(brk.got)

\* An identifier is in use for one message, and has one record that fits it.
Owned ==
  /\ Distinct(cli.out)
  /\ \A id \in Ids : Has(cli.out, id) <=> app.own[id] # 0
  /\ \A r \in Recs(cli.out) :
       /\ r.qos = QosOf(app.own[r.id]) /\ Fits(r.st, app.own[r.id])
       /\ r.st \in Unacked => r.id \in app.kept
       /\ r.st \in Late => Delivered(r.id)
  /\ \A x, y \in Ids : app.own[x] = app.own[y] /\ app.own[x] # 0 => x = y

Published ==
  /\ \A id \in Ids : app.own[id] \in app.pub \cup {0}
  /\ ToSet(brk.got) \subseteq app.pub
  /\ app.done \subseteq ToSet(brk.got)
  /\ \A a \in app.pub, b \in Out \ app.pub : a < b

\* What a packet on its way says of its record and of the other side.
OutPackets ==
  /\ OnePacket(net.c2b, net.b2c)
  /\ \A p \in Fwd(net.c2b) :
       IF p.type = "PUBLISH" THEN p.m = app.own[p.id] /\ p.m # 0 /\ StateIn(cli.out, p.id, Unacked)
       ELSE StateIn(cli.out, p.id, {"PubCompPending"})
  /\ \A p \in Back(net.b2c) :
       IF p.type = "PUBCOMP" THEN StateIn(cli.out, p.id, {"PubCompPending"}) /\ p.id \notin brk.rx
       ELSE /\ StateIn(cli.out, p.id, Unacked) /\ Delivered(p.id)
            /\ p.type = "PUBACK" <=> app.own[p.id] \in Qos1

OutBusy(id) == \E p \in Fwd(net.c2b) \cup Back(net.b2c) : p.id = id

\* What a resuming client has yet to send again is not on its way.
Resending ==
  /\ cli.pc = "pubrels" => \A i \in Used(cli.out) :
       (cli.out[i].st \in Late => i > cli.cursor) => ~ OutBusy(cli.out[i].id)
  /\ cli.pc \in {"publishes", "resend"} => \A i \in Used(cli.out) :
       cli.out[i].st \in Unacked /\ i > cli.cursor => ~ OutBusy(cli.out[i].id)

\* The broker remembers the QoS 2 messages that it may see again.
Received ==
  /\ \A id \in brk.rx : app.own[id] # 0 /\ app.own[id] \notin Qos1 /\ Delivered(id)
  /\ ~app.astray =>
       /\ brk.sess => \A id \in Ids :
            StateIn(cli.out, id, Unacked) /\ Delivered(id) /\ app.own[id] \notin Qos1 => id \in brk.rx
       /\ brk.twice \subseteq Qos1

\* Unacked records are in the order of their messages; those the broker has
\* not got are newer than all it has; what is on its way rises, and nothing
\* older than a packet on its way waits for the next connection.
Waits(r) == r.st \in Unacked /\ ~ Delivered(r.id)
Sent(id) == Pkt("PUBLISH", id, app.own[id]) \in Fwd(net.c2b)
TableOrder ==
  /\ \A i, j \in Used(cli.out) : i < j /\ cli.out[i].st \in Unacked /\ cli.out[j].st \in Unacked
       => app.own[cli.out[i].id] < app.own[cli.out[j].id]
  /\ \A r \in Recs(cli.out) : Waits(r) => \A k \in ToSet(brk.got) : k < app.own[r.id]
QueueOrder ==
  /\ Rising(net.c2b)
  /\ \A p \in Fwd(net.c2b), r \in Recs(cli.out) :
       p.type = "PUBLISH" /\ Waits(r) /\ app.own[r.id] < p.m => Sent(r.id)
  /\ net.up /\ cli.conn = "Connected" /\ ~cli.bad /\ cli.pc \in {"idle", "publishes"} =>
       \A i \in Used(cli.out) : Waits(cli.out[i]) /\ (cli.pc = "publishes" => i <= cli.cursor)
                                => Sent(cli.out[i].id)
Ordered == cb => FirstInOrder /\ TableOrder /\ QueueOrder

OutInv == Owned /\ Published /\ OutPackets /\ Resending /\ Received /\ Ordered

-----------------------------------------------------------------------------
(* The invariant: what the broker publishes                                *)

InFits(r) == IF r.qos = 1 THEN r.st = "PubAckSend" ELSE r.st \in {"PubRecSend", "PubRelPending", "PubCompSend"}
Tx == ToSet(brk.tx)
Taking(m) == m \in ToSet(app.got)

Sending ==
  /\ Distinct(cli.in) /\ \A r \in Recs(cli.in) : InFits(r)
  /\ \A i, j \in DOMAIN brk.tx : brk.tx[i].id = brk.tx[j].id \/ brk.tx[i].m = brk.tx[j].m => i = j
  /\ \A t \in Tx : t.m \in brk.sent /\ (t.rel => t.m \notin Qos1)
  /\ ToSet(app.got) \subseteq brk.sent

InPackets ==
  /\ OnePacket(net.b2c, net.c2b)
  /\ \A p \in Fwd(net.b2c) : \E t \in Tx :
       t.id = p.id /\ IF p.type = "PUBLISH" THEN t.m = p.m /\ ~t.rel ELSE t.rel
  /\ \A p \in Back(net.c2b) : \E t \in Tx :
       /\ t.id = p.id /\ (p.type = "PUBACK" <=> t.m \in Qos1) /\ (p.type = "PUBCOMP" <=> t.rel)
       /\ ~app.astray => Taking(t.m) /\ (p.type # "PUBREC" => ~ Has(cli.in, p.id))

Taken ==
  ~app.astray =>
    /\ brk.sess => \A r \in Recs(cli.in) : \E t \in Tx :
         t.id = r.id /\ r.qos = QosOf(t.m) /\ Taking(t.m)
    /\ \A t \in Tx : /\ t.rel => Taking(t.m)
                     /\ ~t.rel /\ Taking(t.m) /\ t.m \notin Qos1 => Has(cli.in, t.id)
    /\ \A m \in brk.sent \ app.lost : Taking(m) \/ \E t \in Tx : t.m = m
    /\ app.twice \subseteq Qos1

InInv == Sending /\ InPackets /\ Taken

QosInv == QosTypeOK /\ Connection /\ OutInv /\ InInv

-----------------------------------------------------------------------------
(* Lemmas about queues                                                     *)

LEMMA AppendAt ==
  ASSUME NEW P, NEW s \in Seq(P), NEW p \in P
  PROVE  /\ Append(s, p) \in Seq(P)
         /\ DOMAIN s = 1 .. Len(s) /\ DOMAIN Append(s, p) = 1 .. Len(s) + 1 /\ Len(s) \in Nat
         /\ \A i \in 1 .. Len(s) : Append(s, p)[i] = s[i]
         /\ Append(s, p)[Len(s) + 1] = p
  OBVIOUS

LEMMA TailAt ==
  ASSUME NEW P, NEW s \in Seq(P), s # <<>>
  PROVE  /\ Tail(s) \in Seq(P) /\ Head(s) \in P /\ Head(s) = s[1]
         /\ DOMAIN s = 1 .. Len(s) /\ DOMAIN Tail(s) = 1 .. Len(s) - 1 /\ Len(s) \in Nat \ {0}
         /\ \A i \in 1 .. Len(s) - 1 : Tail(s)[i] = s[i + 1]
  OBVIOUS

LEMMA AppendSet ==
  ASSUME NEW P, NEW s \in Seq(P), NEW p \in P
  PROVE  ToSet(Append(s, p)) = ToSet(s) \cup {p}
<1>1. ASSUME NEW x \in ToSet(s) \cup {p} PROVE x \in ToSet(Append(s, p))
  BY AppendAt DEF ToSet
<1>2. ASSUME NEW x \in ToSet(Append(s, p)) PROVE x \in ToSet(s) \cup {p}
  BY AppendAt DEF ToSet
<1> QED BY <1>1, <1>2

LEMMA TailSet ==
  ASSUME NEW P, NEW s \in Seq(P), s # <<>>
  PROVE  ToSet(s) = ToSet(Tail(s)) \cup {Head(s)}
<1>1. ASSUME NEW x \in ToSet(Tail(s)) \cup {Head(s)} PROVE x \in ToSet(s)
  BY TailAt DEF ToSet
<1>2. ASSUME NEW x \in ToSet(s) PROVE x \in ToSet(Tail(s)) \cup {Head(s)}
  <2>1. PICK i \in 1 .. Len(s) : x = s[i] BY TailAt DEF ToSet
  <2>2. CASE i = 1 BY <2>1, <2>2, TailAt
  <2>3. CASE i # 1
    <3>1. i - 1 \in 1 .. Len(s) - 1 /\ Tail(s)[i - 1] = s[i] BY <2>3, TailAt
    <3> QED BY <2>1, <3>1, TailAt DEF ToSet
  <2> QED BY <2>2, <2>3
<1> QED BY <1>1, <1>2

LEMMA EmptySet == ToSet(<<>>) = {} /\ Fwd(<<>>) = {} /\ Back(<<>>) = {}
  BY DEF ToSet, Fwd, Back

LEMMA AppendOneEach ==
  ASSUME NEW s \in Seq(Packet), NEW p \in Packet, NEW T, OneEach(s, T),
         p.type \in T => \A q \in ToSet(s) : q.type \in T => q.id # p.id
  PROVE  OneEach(Append(s, p), T)
<1> DEFINE z == Append(s, p)
<1> SUFFICES ASSUME NEW i \in DOMAIN z, NEW j \in DOMAIN z, z[i].type \in T, z[j].type \in T,
                    z[i].id = z[j].id
             PROVE  i = j
  BY DEF OneEach
<1>1. \A k \in DOMAIN z : \/ k \in DOMAIN s /\ z[k] = s[k] /\ z[k] \in ToSet(s)
                          \/ k = Len(s) + 1 /\ z[k] = p
  BY AppendAt DEF ToSet
<1> HIDE DEF z
<1>2. CASE z[i] = s[i] /\ z[j] = s[j] /\ i \in DOMAIN s /\ j \in DOMAIN s
  BY <1>2 DEF OneEach
<1> QED BY <1>1, <1>2

LEMMA TailOneEach ==
  ASSUME NEW s \in Seq(Packet), s # <<>>, NEW T, OneEach(s, T)
  PROVE  /\ OneEach(Tail(s), T)
         /\ Head(s).type \in T => \A q \in ToSet(Tail(s)) : q.type \in T => q.id # Head(s).id
<1>1. OneEach(Tail(s), T)
  <2> SUFFICES ASSUME NEW i \in 1 .. Len(s) - 1, NEW j \in 1 .. Len(s) - 1, s[i + 1].type \in T,
                      s[j + 1].type \in T, s[i + 1].id = s[j + 1].id
               PROVE  i = j
    BY TailAt DEF OneEach
  <2>1. i + 1 \in DOMAIN s /\ j + 1 \in DOMAIN s BY TailAt
  <2> QED BY <2>1 DEF OneEach
<1>2. ASSUME Head(s).type \in T, NEW q \in ToSet(Tail(s)), q.type \in T, q.id = Head(s).id PROVE FALSE
  <2>1. PICK k \in 1 .. Len(s) - 1 : q = s[k + 1] BY TailAt DEF ToSet
  <2>2. k + 1 \in DOMAIN s /\ 1 \in DOMAIN s /\ Head(s) = s[1] BY TailAt
  <2> QED BY <1>2, <2>1, <2>2 DEF OneEach
<1> QED BY <1>1, <1>2

\* What a queue has, by kind of packet.
LEMMA AppendKinds ==
  ASSUME NEW s \in Seq(Packet), NEW p \in Packet
  PROVE  /\ Append(s, p) \in Seq(Packet)
         /\ p.type \in Orders => Fwd(Append(s, p)) = Fwd(s) \cup {p} /\ Back(Append(s, p)) = Back(s)
         /\ p.type \in Acks => Fwd(Append(s, p)) = Fwd(s) /\ Back(Append(s, p)) = Back(s) \cup {p}
<1>1. \A t \in Orders : t \notin Acks BY DEF Orders, Acks
<1> QED BY <1>1, AppendAt, AppendSet DEF Fwd, Back

LEMMA TailKinds ==
  ASSUME NEW s \in Seq(Packet), s # <<>>
  PROVE  /\ Tail(s) \in Seq(Packet) /\ Head(s) \in Packet
         /\ Head(s).type \in Orders => Fwd(s) = Fwd(Tail(s)) \cup {Head(s)} /\ Back(Tail(s)) = Back(s)
         /\ Head(s).type \in Acks => Fwd(Tail(s)) = Fwd(s) /\ Back(s) = Back(Tail(s)) \cup {Head(s)}
         /\ Head(s).type \in Orders \cup Acks
<1>1. \A t \in Orders : t \notin Acks BY DEF Orders, Acks
<1>2. Tail(s) \in Seq(Packet) /\ Head(s) \in Packet BY TailAt
<1>3. Head(s).type \in Orders \cup Acks BY <1>2 DEF Packet, Type, Orders, Acks
<1> QED BY <1>1, <1>2, <1>3, TailSet DEF Fwd, Back

LEMMA AppendRising ==
  ASSUME NEW s \in Seq(Packet), NEW p \in Packet, Rising(s),
         p.type = "PUBLISH" => \A q \in Fwd(s) : q.type = "PUBLISH" => q.m < p.m
  PROVE  Rising(Append(s, p))
<1> DEFINE z == Append(s, p)
<1> SUFFICES ASSUME NEW i \in DOMAIN z, NEW j \in DOMAIN z, i < j, z[i].type = "PUBLISH",
                    z[j].type = "PUBLISH"
             PROVE  z[i].m < z[j].m
  BY DEF Rising
<1>1. \A k \in DOMAIN z : \/ k \in DOMAIN s /\ z[k] = s[k] /\ z[k] \in ToSet(s) /\ k < Len(s) + 1
                          \/ k = Len(s) + 1 /\ z[k] = p
  BY AppendAt DEF ToSet
<1>2. i \in Nat /\ j \in Nat /\ Len(s) \in Nat BY AppendAt
<1> HIDE DEF z
<1>3. CASE j \in DOMAIN s /\ z[j] = s[j] /\ j < Len(s) + 1
  <2>1. i \in DOMAIN s /\ z[i] = s[i] BY <1>1, <1>2, <1>3
  <2> QED BY <1>3, <2>1 DEF Rising
<1>4. CASE j = Len(s) + 1 /\ z[j] = p
  <2>1. z[i] \in ToSet(s) BY <1>1, <1>2, <1>4
  <2> QED BY <1>4, <2>1 DEF Fwd, Orders
<1> QED BY <1>1, <1>3, <1>4

LEMMA TailRising ==
  ASSUME NEW s \in Seq(Packet), s # <<>>, Rising(s)
  PROVE  /\ Rising(Tail(s))
         /\ Head(s).type = "PUBLISH" => \A q \in Fwd(Tail(s)) : q.type = "PUBLISH" => Head(s).m < q.m
<1>1. Rising(Tail(s))
  <2> SUFFICES ASSUME NEW i \in 1 .. Len(s) - 1, NEW j \in 1 .. Len(s) - 1, i < j,
                      s[i + 1].type = "PUBLISH", s[j + 1].type = "PUBLISH"
               PROVE  s[i + 1].m < s[j + 1].m
    BY TailAt DEF Rising
  <2>1. i + 1 \in DOMAIN s /\ j + 1 \in DOMAIN s /\ i + 1 < j + 1 BY TailAt
  <2> QED BY <2>1 DEF Rising
<1>2. ASSUME Head(s).type = "PUBLISH", NEW q \in Fwd(Tail(s)), q.type = "PUBLISH"
      PROVE  Head(s).m < q.m
  <2>1. PICK k \in 1 .. Len(s) - 1 : q = s[k + 1] BY TailAt DEF ToSet, Fwd
  <2>2. k + 1 \in DOMAIN s /\ 1 \in DOMAIN s /\ 1 < k + 1 /\ Head(s) = s[1] BY TailAt
  <2> QED BY <1>2, <2>1, <2>2 DEF Rising
<1> QED BY <1>1, <1>2

LEMMA RisingEmpty == Rising(<<>>) /\ OneEach(<<>>, Orders) /\ OneEach(<<>>, Acks)
  BY DEF Rising, OneEach

-----------------------------------------------------------------------------
(* One packet for an identifier                                            *)

LEMMA OneSent ==
  ASSUME NEW there \in Seq(Packet), NEW back \in Seq(Packet), OnePacket(there, back),
         NEW p \in Packet, p.type \in Orders,
         \A q \in Fwd(there) \cup Back(back) : q.id # p.id
  PROVE  OnePacket(Append(there, p), back)
<1>1. OneEach(Append(there, p), Orders)
  <2>1. \A q \in ToSet(there) : q.type \in Orders => q.id # p.id BY DEF Fwd
  <2> QED BY <2>1, AppendOneEach DEF OnePacket
<1>2. Fwd(Append(there, p)) = Fwd(there) \cup {p} BY AppendKinds
<1> QED BY <1>1, <1>2 DEF OnePacket

LEMMA OneTaken ==
  ASSUME NEW there \in Seq(Packet), NEW back \in Seq(Packet), OnePacket(there, back)
  PROVE  /\ there # <<>> => /\ OnePacket(Tail(there), back)
                            /\ Head(there).type \in Orders =>
                                 \A q \in Fwd(Tail(there)) \cup Back(back) : q.id # Head(there).id
         /\ back # <<>> => /\ OnePacket(there, Tail(back))
                           /\ Head(back).type \in Acks =>
                                \A q \in Fwd(there) \cup Back(Tail(back)) : q.id # Head(back).id
<1>1. ASSUME there # <<>>
      PROVE  /\ OnePacket(Tail(there), back)
             /\ Head(there).type \in Orders =>
                  \A q \in Fwd(Tail(there)) \cup Back(back) : q.id # Head(there).id
  <2>1. OneEach(Tail(there), Orders) BY <1>1, TailOneEach DEF OnePacket
  <2>2. Fwd(Tail(there)) \subseteq Fwd(there) BY <1>1, TailKinds
  <2>3. OnePacket(Tail(there), back) BY <2>1, <2>2 DEF OnePacket
  <2>4. ASSUME Head(there).type \in Orders
        PROVE  \A q \in Fwd(Tail(there)) \cup Back(back) : q.id # Head(there).id
    <3>1. Head(there) \in Fwd(there) BY <1>1, <2>4, TailKinds
    <3>2. \A q \in Fwd(Tail(there)) : q.id # Head(there).id
      BY <1>1, <2>4, TailOneEach DEF OnePacket, Fwd
    <3> QED BY <3>1, <3>2 DEF OnePacket
  <2> QED BY <2>3, <2>4
<1>2. ASSUME back # <<>>
      PROVE  /\ OnePacket(there, Tail(back))
             /\ Head(back).type \in Acks =>
                  \A q \in Fwd(there) \cup Back(Tail(back)) : q.id # Head(back).id
  <2>1. OneEach(Tail(back), Acks) BY <1>2, TailOneEach DEF OnePacket
  <2>2. Back(Tail(back)) \subseteq Back(back) BY <1>2, TailKinds
  <2>3. OnePacket(there, Tail(back)) BY <2>1, <2>2 DEF OnePacket
  <2>4. ASSUME Head(back).type \in Acks
        PROVE  \A q \in Fwd(there) \cup Back(Tail(back)) : q.id # Head(back).id
    <3>1. Head(back) \in Back(back) BY <1>2, <2>4, TailKinds
    <3>2. \A q \in Back(Tail(back)) : q.id # Head(back).id
      BY <1>2, <2>4, TailOneEach DEF OnePacket, Back
    <3> QED BY <3>1, <3>2 DEF OnePacket
  <2> QED BY <2>3, <2>4
<1> QED BY <1>1, <1>2

LEMMA OneAnswered ==
  ASSUME NEW there \in Seq(Packet), NEW back \in Seq(Packet), OnePacket(there, back),
         there # <<>>, Head(there).type \in Orders,
         NEW q \in Packet, q.type \in Acks, q.id = Head(there).id
  PROVE  OnePacket(Tail(there), Append(back, q))
<1>1. /\ OnePacket(Tail(there), back)
      /\ \A p \in Fwd(Tail(there)) \cup Back(back) : p.id # q.id
  BY OneTaken
<1>2. OneEach(Append(back, q), Acks)
  <2>1. \A p \in ToSet(back) : p.type \in Acks => p.id # q.id BY <1>1 DEF Back
  <2> QED BY <2>1, AppendOneEach DEF OnePacket
<1>3. Back(Append(back, q)) = Back(back) \cup {q} BY AppendKinds
<1> QED BY <1>1, <1>2, <1>3 DEF OnePacket

LEMMA OneReplied ==
  ASSUME NEW there \in Seq(Packet), NEW back \in Seq(Packet), OnePacket(there, back),
         back # <<>>, Head(back).type \in Acks,
         NEW p \in Packet, p.type \in Orders, p.id = Head(back).id
  PROVE  OnePacket(Append(there, p), Tail(back))
<1>1. /\ OnePacket(there, Tail(back)) /\ Tail(back) \in Seq(Packet)
      /\ \A q \in Fwd(there) \cup Back(Tail(back)) : q.id # p.id
  BY OneTaken, TailKinds
<1> QED BY <1>1, OneSent

\* A packet of the other direction, and queues that are gone.
LEMMA OneForeign ==
  ASSUME NEW there \in Seq(Packet), NEW back \in Seq(Packet), OnePacket(there, back),
         NEW p \in Packet
  PROVE  /\ p.type \in Acks => OnePacket(Append(there, p), back)
         /\ p.type \in Orders => OnePacket(there, Append(back, p))
<1>1. \A t \in Orders : t \notin Acks BY DEF Orders, Acks
<1>2. ASSUME p.type \in Acks PROVE OnePacket(Append(there, p), back)
  <2>1. OneEach(Append(there, p), Orders) BY <1>1, <1>2, AppendOneEach DEF OnePacket
  <2> QED BY <1>2, <2>1, AppendKinds DEF OnePacket
<1>3. ASSUME p.type \in Orders PROVE OnePacket(there, Append(back, p))
  <2>1. OneEach(Append(back, p), Acks) BY <1>1, <1>3, AppendOneEach DEF OnePacket
  <2> QED BY <1>3, <2>1, AppendKinds DEF OnePacket
<1> QED BY <1>2, <1>3

LEMMA OneGone ==
  ASSUME NEW there, NEW back, OnePacket(there, back)
  PROVE  OnePacket(<<>>, back) /\ OnePacket(there, <<>>)
  BY RisingEmpty, EmptySet DEF OnePacket

-----------------------------------------------------------------------------
(* Lemmas about tables of records                                          *)

Table(n, Id) == [1 .. n -> Record(Id)]

LEMMA Rows ==
  ASSUME NEW n \in Nat, NEW Id, 0 \notin Id, NEW t \in Table(n, Id)
  PROVE  /\ DOMAIN t = 1 .. n /\ Len(t) = n /\ Used(t) \subseteq 1 .. n
         /\ Empty.id = 0 /\ Empty.st = "Null" /\ Empty \in Record(Id)
         /\ \A i \in Used(t) : t[i] \in [id: Id, qos: {1, 2}, st: PublishState \ {"Null", "PublishDone"}]
         /\ \A i \in 1 .. n : i \notin Used(t) => t[i] = Empty
<1>1. t \in Seq(Record(Id)) /\ Len(t) = n BY DEF Table
<1> QED BY <1>1 DEF Table, Used, Record, Empty

LEMMA PlaceIn ==
  ASSUME NEW n \in Nat, NEW Id, 0 \notin Id, NEW t \in Table(n, Id), NEW j \in Used(t)
  PROVE  /\ Place(t, j) \in 1 .. j
         /\ \A k \in Used(t) : j < k => Place(t, j) < Place(t, k)
<1> DEFINE below(k) == {l \in Used(t) : l <= k}
<1>1. Used(t) \subseteq 1 .. n BY Rows
<1>2. \A k \in Used(t) : below(k) \subseteq 1 .. k /\ k \in below(k) BY <1>1
<1>3. \A k \in Used(t) : IsFiniteSet(1 .. k) /\ Cardinality(1 .. k) = k
  <2> TAKE k \in Used(t)
  <2> QED BY <1>1, FS_Interval
<1>4. \A k \in Used(t) : /\ IsFiniteSet(below(k)) /\ Cardinality(below(k)) \in 0 .. k
                         /\ Cardinality(below(k)) # 0
  <2> TAKE k \in Used(t)
  <2>1. IsFiniteSet(below(k)) /\ Cardinality(below(k)) <= Cardinality(1 .. k)
    BY <1>2, <1>3, FS_Subset
  <2>2. Cardinality(below(k)) \in Nat BY <2>1, FS_CardinalityType
  <2>3. Cardinality(below(k)) # 0 BY <1>2, <2>1, FS_EmptySet
  <2> QED BY <1>3, <2>1, <2>2, <2>3
<1>5. ASSUME NEW k \in Used(t), j < k PROVE Cardinality(below(j)) < Cardinality(below(k))
  <2>1. below(j) \subseteq below(k) /\ k \notin below(j) /\ k \in below(k) BY <1>1, <1>5
  <2>2. Cardinality(below(j)) <= Cardinality(below(k)) BY <1>4, <2>1, FS_Subset
  <2>3. Cardinality(below(j)) # Cardinality(below(k)) BY <1>4, <2>1, FS_Subset
  <2> QED BY <1>1, <1>4, <2>2, <2>3
<1> QED BY <1>1, <1>4, <1>5 DEF Place

\* compactRecords keeps the records and their order, and frees the last slot
\* of a table that has a gap.
LEMMA CompactKeeps ==
  ASSUME NEW n \in Nat, NEW Id, 0 \notin Id, NEW t \in Table(n, Id)
  PROVE  /\ CompactRecords(t) \in Table(n, Id) /\ Keeps(t, CompactRecords(t))
<1> DEFINE c == CompactRecords(t)
<1>1. /\ DOMAIN t = 1 .. n /\ Used(t) \subseteq 1 .. n /\ Empty.id = 0 /\ Empty \in Record(Id)
      /\ \A i \in Used(t) : t[i] \in Record(Id) /\ t[i].id # 0
  BY Rows DEF Used, Table
<1>2. \A j \in Used(t) : Place(t, j) \in 1 .. j /\ \A k \in Used(t) : j < k => Place(t, j) < Place(t, k)
  BY PlaceIn
<1>3. \A j, k \in Used(t) : Place(t, j) = Place(t, k) => j = k
  BY <1>1, <1>2
<1>4. ASSUME NEW j \in Used(t) PROVE Place(t, j) \in 1 .. n /\ c[Place(t, j)] = t[j]
  <2>1. Place(t, j) \in 1 .. n BY <1>1, <1>2
  <2>2. (CHOOSE k \in Used(t) : Place(t, k) = Place(t, j)) = j BY <1>3
  <2> QED BY <1>1, <2>1, <2>2 DEF CompactRecords
<1>5. ASSUME NEW i \in 1 .. n, \A j \in Used(t) : Place(t, j) # i PROVE c[i] = Empty
  BY <1>1, <1>5 DEF CompactRecords
<1>6. DOMAIN c = 1 .. n /\ c = [i \in 1 .. n |-> c[i]] BY <1>1 DEF CompactRecords
<1> HIDE DEF c
<1>7. \A i \in 1 .. n : c[i] = Empty \/ \E j \in Used(t) : Place(t, j) = i /\ c[i] = t[j]
  BY <1>4, <1>5
<1>8. c \in Table(n, Id) BY <1>1, <1>6, <1>7 DEF Table
<1>9. ASSUME NEW i \in Used(c) PROVE \E j \in Used(t) : Place(t, j) = i /\ c[i] = t[j]
  BY <1>1, <1>6, <1>7, <1>9 DEF Used
<1>10. ASSUME NEW j \in Used(t) PROVE Place(t, j) \in Used(c)
  BY <1>1, <1>4, <1>6, <1>10 DEF Used
<1>11. Keeps(t, c)
  <2>1. ASSUME NEW i \in Used(t) PROVE \E j \in Used(c) : j <= i /\ c[j] = t[i]
    BY <1>2, <1>4, <1>10
  <2>2. ASSUME NEW j \in Used(c) PROVE \E i \in Used(t) : j <= i /\ c[j] = t[i]
    BY <1>2, <1>9
  <2>3. ASSUME NEW j \in Used(c), NEW k \in Used(c), j < k
        PROVE  \E i, l \in Used(t) : i < l /\ c[j] = t[i] /\ c[k] = t[l]
    <3>1. PICK i \in Used(t) : Place(t, i) = j /\ c[j] = t[i] BY <1>9
    <3>2. PICK l \in Used(t) : Place(t, l) = k /\ c[k] = t[l] BY <1>9
    <3>3. i < l BY <1>1, <1>2, <2>3, <3>1, <3>2
    <3> QED BY <3>1, <3>2, <3>3
  <2> QED BY <2>1, <2>2, <2>3 DEF Keeps
<1> QED BY <1>8, <1>11 DEF c

\* What Keeps and Grows say of the set of records.
LEMMA KeepsRecs ==
  ASSUME NEW n \in Nat, NEW Id, 0 \notin Id, NEW t \in Table(n, Id), NEW c \in Table(n, Id),
         Keeps(t, c), Distinct(t)
  PROVE  Distinct(c) /\ Recs(c) = Recs(t)
<1>1. Used(t) \subseteq 1 .. n /\ Used(c) \subseteq 1 .. n BY Rows
<1>2. Recs(c) = Recs(t) BY DEF Keeps, Recs
<1>3. ASSUME NEW j \in Used(c), NEW k \in Used(c), c[j].id = c[k].id, j < k PROVE FALSE
  <2>1. PICK i \in Used(t), l \in Used(t) : i < l /\ c[j] = t[i] /\ c[k] = t[l] BY <1>3 DEF Keeps
  <2> QED BY <1>1, <1>3, <2>1 DEF Distinct
<1>4. Distinct(c)
  <2> SUFFICES ASSUME NEW j \in Used(c), NEW k \in Used(c), c[j].id = c[k].id PROVE j = k
    BY DEF Distinct
  <2> QED BY <1>1, <1>3
<1> QED BY <1>2, <1>4

LEMMA GrowsRecs ==
  ASSUME NEW n \in Nat, NEW Id, 0 \notin Id, NEW t \in Table(n, Id), NEW c \in Table(n, Id),
         NEW new, new.id # 0, Grows(t, c, new), Distinct(t), ~ Has(t, new.id)
  PROVE  Distinct(c) /\ Recs(c) = Recs(t) \cup {new}
<1>1. PICK at \in DOMAIN c : /\ c[at] = new /\ \A i \in Used(c) : i <= at
                             /\ Keeps(t, [c EXCEPT ![at] = Empty])
  BY DEF Grows
<1> DEFINE d == [c EXCEPT ![at] = Empty]
<1>2. DOMAIN c = 1 .. n /\ Empty \in Record(Id) /\ Empty.id = 0 BY Rows
<1>3. d \in Table(n, Id) BY <1>1, <1>2 DEF Table
<1>4. Distinct(d) /\ Recs(d) = Recs(t) BY <1>1, <1>3, KeepsRecs
<1>5. /\ Used(c) = Used(d) \cup {at} /\ at \notin Used(d) /\ \A i \in Used(d) : d[i] = c[i]
  BY <1>1, <1>2 DEF Used, Table
<1> HIDE DEF d
<1>6. Recs(c) = Recs(t) \cup {new} BY <1>1, <1>4, <1>5 DEF Recs
<1>7. \A i \in Used(d) : c[i].id # new.id BY <1>4, <1>5 DEF Has, Recs
<1>8. Distinct(c) BY <1>1, <1>4, <1>5, <1>7 DEF Distinct
<1> QED BY <1>6, <1>8

LEMMA KeepsSelf ==
  ASSUME NEW n \in Nat, NEW Id, 0 \notin Id, NEW t \in Table(n, Id)
  PROVE  Keeps(t, t)
<1>1. Used(t) \subseteq 1 .. n BY Rows
<1> QED BY <1>1 DEF Keeps

LEMMA LeastOf ==
  ASSUME NEW n \in Nat, NEW S \in SUBSET (0 .. n), S # {}
  PROVE  \E x \in S : \A y \in S : x <= y
<1> DEFINE upto == {0 .. x : x \in S}
           R == StrictSubsetOrdering(0 .. n)
<1>1. IsWellFoundedOn(R, SUBSET (0 .. n))
  <2>1. IsFiniteSet(0 .. n) BY FS_Interval
  <2>2. FiniteSubsetsOf(0 .. n) = SUBSET (0 .. n) BY <2>1, FS_FiniteSubsetsOfFinite
  <2> QED BY <2>2, FS_StrictSubsetOrderingWellFounded
<1>2. \A x \in S : 0 .. x \in SUBSET (0 .. n) OBVIOUS
<1>3. upto \subseteq SUBSET (0 .. n) /\ upto # {} BY <1>2
<1>4. PICK b \in upto : \A c \in upto : ~(<<c, b>> \in R)
  <2> HIDE DEF upto, R
  <2> QED BY <1>1, <1>3, WFMin
<1>5. PICK x \in S : b = 0 .. x OBVIOUS
<1>6. ASSUME NEW y \in S, y < x PROVE FALSE
  <2>1. ~(<<0 .. y, 0 .. x>> \in R) BY <1>4, <1>5
  <2>2. 0 .. y \subseteq 0 .. x /\ x \in 0 .. x /\ x \notin 0 .. y BY <1>6
  <2> QED BY <1>2, <2>1, <2>2 DEF StrictSubsetOrdering
<1> QED BY <1>6

LEMMA AddRecordDoes ==
  ASSUME NEW n \in Nat \ {0}, NEW Id, 0 \notin Id, NEW t \in Table(n, Id),
         NEW id \in Id, NEW qos \in {1, 2}, NEW st \in PublishState \ {"Null", "PublishDone"}
  PROVE  LET r == AddRecord(t, id, qos, st)
         IN /\ r.recs \in Table(n, Id)
            /\ r.status \in {"Success", "StateCollision", "NoMemory"}
            /\ r.status = "StateCollision" <=> Has(t, id)
            /\ r.status = "Success" => Grows(t, r.recs, [id |-> id, qos |-> qos, st |-> st])
            /\ r.status # "Success" => Keeps(t, r.recs)
<1> DEFINE r == AddRecord(t, id, qos, st)
           new == [id |-> id, qos |-> qos, st |-> st]
           c == IF t[Len(t)].id # 0 THEN CompactRecords(t) ELSE t
           behind == {i \in DOMAIN c : \A j \in i .. Len(c) : c[j].id = 0}
           at == CHOOSE i \in behind : \A j \in behind : i <= j
<1>1. c \in Table(n, Id) /\ Keeps(t, c) BY CompactKeeps, KeepsSelf
<1>2. new \in Record(Id) /\ new.id = id /\ id # 0 BY DEF Record
<1>3. r = IF \E i \in DOMAIN c : c[i].id = id THEN [status |-> "StateCollision", recs |-> c]
          ELSE IF behind = {} THEN [status |-> "NoMemory", recs |-> c]
          ELSE [status |-> "Success", recs |-> [c EXCEPT ![at] = new]]
  BY DEF AddRecord
<1> HIDE DEF r, c, new
<1>4. DOMAIN c = 1 .. n /\ Len(c) = n /\ \A i \in 1 .. n : c[i].id = 0 => c[i] = Empty
  BY <1>1, Rows DEF Used
<1>5. (\E i \in DOMAIN c : c[i].id = id) <=> Has(t, id)
  <2>1. (\E i \in DOMAIN c : c[i].id = id) <=> \E x \in Recs(c) : x.id = id
    BY <1>2 DEF Recs, Used
  <2>2. Recs(c) = Recs(t) BY <1>1 DEF Keeps, Recs
  <2> QED BY <2>1, <2>2 DEF Has
<1>6. CASE behind # {} /\ ~ \E i \in DOMAIN c : c[i].id = id
  <2>1. at \in behind /\ \A j \in behind : at <= j
    <3>1. behind \in SUBSET (0 .. n) BY <1>4
    <3>2. \E x \in behind : \A y \in behind : x <= y
      <4> HIDE DEF behind
      <4> QED BY <1>6, <3>1, LeastOf
    <3> QED BY <3>2
  <2> HIDE DEF at
  <2>2. at \in 1 .. n /\ \A j \in at .. n : c[j].id = 0 BY <1>4, <2>1
  <2>3. r.status = "Success" /\ r.recs = [c EXCEPT ![at] = new] BY <1>3, <1>6
  <2>4. r.recs \in Table(n, Id) BY <1>1, <1>2, <2>2, <2>3 DEF Table
  <2>5. [r.recs EXCEPT ![at] = Empty] = c
    <3>1. c[at] = Empty BY <1>4, <2>2
    <3>2. c = [i \in 1 .. n |-> c[i]] BY <1>1 DEF Table
    <3>3. [r.recs EXCEPT ![at] = Empty] = [i \in 1 .. n |-> IF i = at THEN Empty ELSE c[i]]
      BY <2>3, <3>2
    <3>4. [i \in 1 .. n |-> IF i = at THEN Empty ELSE c[i]] = [i \in 1 .. n |-> c[i]] BY <3>1
    <3> QED BY <3>2, <3>3, <3>4
  <2>6. \A i \in Used(r.recs) : i <= at BY <1>4, <2>2, <2>3 DEF Used
  <2>7. r.recs[at] = new /\ at \in DOMAIN r.recs BY <1>4, <2>2, <2>3
  <2>8. Grows(t, r.recs, new) BY <1>1, <2>5, <2>6, <2>7 DEF Grows
  <2> QED BY <1>5, <1>6, <2>3, <2>4, <2>8 DEF r, new
<1>7. CASE behind = {} /\ ~ \E i \in DOMAIN c : c[i].id = id
  BY <1>1, <1>3, <1>5, <1>7 DEF r
<1>8. CASE \E i \in DOMAIN c : c[i].id = id
  BY <1>1, <1>3, <1>5, <1>8 DEF r
<1> QED BY <1>6, <1>7, <1>8

LEMMA FindIs ==
  ASSUME NEW n \in Nat, NEW Id, 0 \notin Id, NEW t \in Table(n, Id), NEW id, id # 0
  PROVE  /\ Has(t, id) => /\ FindInRecord(t, id) \in Used(t) /\ t[FindInRecord(t, id)].id = id
                          /\ FindInRecord(t, id) # 0
         /\ ~ Has(t, id) => FindInRecord(t, id) = 0
<1> DEFINE hits == {i \in DOMAIN t : t[i].id = id}
<1>1. DOMAIN t = 1 .. n BY Rows
<1>2. hits \subseteq Used(t) /\ hits \in SUBSET (0 .. n) BY <1>1 DEF Used
<1>3. Has(t, id) <=> hits # {}
  <2>1. ASSUME Has(t, id) PROVE hits # {}
    <3>1. PICK i \in Used(t) : t[i].id = id BY <2>1 DEF Has, Recs
    <3> QED BY <3>1 DEF Used
  <2>2. ASSUME NEW i \in hits PROVE Has(t, id)
    BY <1>2 DEF Has, Recs
  <2> QED BY <2>1, <2>2
<1>4. FindInRecord(t, id) = IF hits = {} THEN 0 ELSE CHOOSE i \in hits : \A j \in hits : i <= j
  BY DEF FindInRecord
<1>5. hits # {} => \E x \in hits : \A y \in hits : x <= y
  <2> HIDE DEF hits
  <2> QED BY <1>2, LeastOf
<1>6. hits # {} => FindInRecord(t, id) \in hits
  <2> HIDE DEF hits
  <2> QED BY <1>4, <1>5
<1>7. CASE hits # {}
  <2>1. FindInRecord(t, id) \in hits BY <1>6, <1>7
  <2>2. FindInRecord(t, id) \in 1 .. n BY <1>1, <2>1
  <2> QED BY <1>2, <1>3, <1>7, <2>1, <2>2
<1>8. CASE hits = {}
  BY <1>3, <1>4, <1>8
<1> QED BY <1>7, <1>8

LEMMA SelectIs ==
  ASSUME NEW n \in Nat, NEW Id, 0 \notin Id, NEW t \in Table(n, Id), NEW cursor \in 0 .. n,
         NEW states, "Null" \notin states
  PROVE  LET s == StateSelect(t, states, cursor)
         IN /\ s.cursor \in 0 .. n
            /\ s.id = 0 => \A i \in Used(t) : i > cursor => t[i].st \notin states
            /\ s.id # 0 => /\ s.cursor \in Used(t) /\ s.cursor > cursor
                           /\ s.id = t[s.cursor].id /\ t[s.cursor].st \in states
                           /\ \A i \in Used(t) : cursor < i /\ i < s.cursor => t[i].st \notin states
<1> DEFINE s == StateSelect(t, states, cursor)
           hits == {i \in cursor + 1 .. Len(t) : t[i].st \in states}
           first == CHOOSE h \in hits : \A k \in hits : h <= k
<1>1. /\ DOMAIN t = 1 .. n /\ Len(t) = n /\ Used(t) \subseteq 1 .. n
      /\ \A i \in 1 .. n : i \notin Used(t) => t[i].st = "Null"
  BY Rows
<1>2. /\ hits \in SUBSET (0 .. n) /\ hits \subseteq Used(t)
      /\ \A i \in Used(t) : i > cursor /\ t[i].st \in states => i \in hits
      /\ \A i \in hits : i > cursor /\ t[i].st \in states
  BY <1>1
<1>3. s = IF hits = {} THEN [id |-> 0, cursor |-> Len(t)] ELSE [id |-> t[first].id, cursor |-> first]
  BY DEF StateSelect
<1>4. hits # {} => \E x \in hits : \A y \in hits : x <= y
  <2> HIDE DEF hits
  <2> QED BY <1>2, LeastOf
<1>5. hits # {} => first \in hits /\ \A k \in hits : first <= k
  <2> HIDE DEF hits
  <2> QED BY <1>4
<1> HIDE DEF s, hits, first
<1>6. CASE hits = {}
  <2>1. s.id = 0 /\ s.cursor = n BY <1>1, <1>3, <1>6
  <2> QED BY <1>2, <1>6, <2>1 DEF s
<1>7. CASE hits # {}
  <2>1. s.id = t[first].id /\ s.cursor = first BY <1>3, <1>7
  <2>2. s.id # 0 BY <1>2, <1>5, <1>7, <2>1 DEF Used
  <2>3. \A i \in Used(t) : cursor < i /\ i < first => t[i].st \notin states
    <3> SUFFICES ASSUME NEW i \in Used(t), cursor < i, i < first, t[i].st \in states PROVE FALSE
      OBVIOUS
    <3>1. i \in hits /\ i \in 0 .. n /\ first \in 0 .. n BY <1>1, <1>2, <1>5, <1>7
    <3> QED BY <1>5, <1>7, <3>1
  <2> QED BY <1>1, <1>2, <1>5, <1>7, <2>1, <2>2, <2>3 DEF s
<1> QED BY <1>6, <1>7

\* A record changed in its slot, and one deleted.
Put(t, i, v) == [t EXCEPT ![i] = v]
InState(r, st) == [r EXCEPT !.st = st]

LEMMA PutRecs ==
  ASSUME NEW n \in Nat, NEW Id, 0 \notin Id, NEW t \in Table(n, Id), Distinct(t),
         NEW i \in Used(t), NEW v \in Record(Id), v.id = t[i].id
  PROVE  /\ Put(t, i, v) \in Table(n, Id) /\ Distinct(Put(t, i, v)) /\ Used(Put(t, i, v)) = Used(t)
         /\ Recs(Put(t, i, v)) = (Recs(t) \ {t[i]}) \cup {v}
         /\ \A j \in Used(t) : Put(t, i, v)[j] = IF j = i THEN v ELSE t[j]
<1> DEFINE c == Put(t, i, v)
<1>1. DOMAIN t = 1 .. n /\ Used(t) \subseteq 1 .. n BY Rows
<1>2. c \in Table(n, Id) /\ DOMAIN c = 1 .. n /\ \A j \in 1 .. n : c[j] = IF j = i THEN v ELSE t[j]
  BY <1>1 DEF Table, Put
<1> HIDE DEF c
<1>3. Used(c) = Used(t) BY <1>1, <1>2 DEF Used
<1>4. Distinct(c) BY <1>1, <1>2, <1>3 DEF Distinct
<1>5. \A j \in Used(t) : t[j] = t[i] => j = i BY DEF Distinct
<1>6. Recs(c) = (Recs(t) \ {t[i]}) \cup {v} BY <1>1, <1>2, <1>3, <1>5 DEF Recs
<1> QED BY <1>1, <1>2, <1>3, <1>4, <1>6 DEF c

LEMMA DropRecs ==
  ASSUME NEW n \in Nat, NEW Id, 0 \notin Id, NEW t \in Table(n, Id), Distinct(t), NEW i \in Used(t)
  PROVE  /\ Put(t, i, Empty) \in Table(n, Id) /\ Distinct(Put(t, i, Empty))
         /\ Used(Put(t, i, Empty)) = Used(t) \ {i}
         /\ Recs(Put(t, i, Empty)) = Recs(t) \ {t[i]} /\ ~ Has(Put(t, i, Empty), t[i].id)
         /\ \A j \in Used(t) : j # i => Put(t, i, Empty)[j] = t[j]
<1> DEFINE c == Put(t, i, Empty)
<1>1. DOMAIN t = 1 .. n /\ Used(t) \subseteq 1 .. n /\ Empty \in Record(Id) /\ Empty.id = 0 BY Rows
<1>2. c \in Table(n, Id) /\ DOMAIN c = 1 .. n /\ \A j \in 1 .. n : c[j] = IF j = i THEN Empty ELSE t[j]
  BY <1>1 DEF Table, Put
<1> HIDE DEF c
<1>3. Used(c) = Used(t) \ {i} /\ \A j \in Used(c) : c[j] = t[j] BY <1>1, <1>2 DEF Used
<1>4. Distinct(c) BY <1>3 DEF Distinct
<1>5. \A j \in Used(t) : t[j].id = t[i].id => j = i BY DEF Distinct
<1>6. Recs(c) = Recs(t) \ {t[i]} /\ ~ Has(c, t[i].id) BY <1>3, <1>5 DEF Recs, Has
<1> QED BY <1>2, <1>3, <1>4, <1>6 DEF c

-----------------------------------------------------------------------------
(* What the calls of the state engine do                                   *)

LEMMA NoZero == 0 \notin Ids /\ 0 \notin InIds /\ InIds \subseteq Ids /\ Ids \subseteq Nat
  BY QosConstants DEF Ids

\* A PUBLISH was sent: its record waits for the acknowledgement.
Pending(m) == IF QosOf(m) = 1 THEN "PubAckPending" ELSE "PubRecPending"
PubWaits(t, c, id, m) ==
  \/ c = t
  \/ \E i \in Used(t) : t[i].id = id /\ c = Put(t, i, InState(t[i], Pending(m)))

LEMMA PublishSent ==
  ASSUME NEW n \in Nat, NEW out \in Table(n, Ids), NEW in, NEW id \in Ids, NEW m,
         NEW r, r = MQTT_UpdateStatePublish(out, in, id, "SEND", QosOf(m))
  PROVE  PubWaits(out, r.out, id, m)
<1> DEFINE i == FindInRecord(out, id)
           new == Pending(m)
           u == UpdateStatePublish(out, in, i, id, "SEND", QosOf(m), out[i].st, new)
<1>1. id # 0 /\ 0 \notin Ids BY NoZero
<1>2. CalculateStatePublish("SEND", QosOf(m)) = new BY DEF CalculateStatePublish, Pending, QosOf
<1>3. r.out = out \/ (i # 0 /\ r.out = u.out)
  BY <1>1, <1>2 DEF MQTT_UpdateStatePublish
<1>4. u.out = out \/ u.out = Put(out, i, InState(out[i], new))
  BY DEF UpdateStatePublish, UpdateRecord, Put, InState
<1>5. i # 0 => i \in Used(out) /\ out[i].id = id BY <1>1, FindIs
<1> HIDE DEF i, new, u
<1>6. CASE r.out = out BY <1>6 DEF PubWaits
<1>7. CASE i # 0 /\ r.out = Put(out, i, InState(out[i], new))
  <2>1. \E k \in Used(out) : out[k].id = id /\ r.out = Put(out, k, InState(out[k], new)) BY <1>5, <1>7
  <2> QED BY <2>1 DEF PubWaits, new
<1> QED BY <1>3, <1>4, <1>6, <1>7

LEMMA WaitsRecs ==
  ASSUME NEW n \in Nat, NEW t \in Table(n, Ids), Distinct(t), NEW id, NEW m, NEW c, PubWaits(t, c, id, m),
         \A x \in Recs(t) : x.id = id => x.st \in Unacked /\ x.qos = QosOf(m) /\ Fits(x.st, m)
  PROVE  /\ c \in Table(n, Ids) /\ Distinct(c) /\ Used(c) = Used(t)
         /\ \A j \in Used(t) : c[j].id = t[j].id /\ (t[j].id # id => c[j] = t[j])
         /\ \A x \in Recs(c) : x.id = id => x.st \in Unacked /\ x.qos = QosOf(m) /\ Fits(x.st, m)
<1>1. 0 \notin Ids BY NoZero
<1>2. CASE c = t BY <1>2
<1>3. ASSUME NEW i \in Used(t), t[i].id = id, c = Put(t, i, InState(t[i], Pending(m)))
      PROVE  /\ c \in Table(n, Ids) /\ Distinct(c) /\ Used(c) = Used(t)
             /\ \A j \in Used(t) : c[j].id = t[j].id /\ (t[j].id # id => c[j] = t[j])
             /\ \A x \in Recs(c) : x.id = id => x.st \in Unacked /\ x.qos = QosOf(m) /\ Fits(x.st, m)
  <2> DEFINE u == t[i]
             v == InState(u, Pending(m))
  <2>1. u \in [id: Ids, qos: {1, 2}, st: PublishState \ {"Null", "PublishDone"}] /\ u \in Recs(t)
    BY <1>1, Rows DEF Recs
  <2>2. u.id = id /\ u.qos = QosOf(m) BY <1>3, <2>1
  <2>3. v.id = id /\ v.qos = QosOf(m) /\ v.st = Pending(m) /\ v \in Record(Ids)
    BY <2>1, <2>2 DEF InState, Record, Pending, PublishState
  <2>4. v.st \in Unacked /\ Fits(v.st, m) BY <2>3 DEF Pending, Unacked, Fits
  <2>5. c = Put(t, i, v) /\ v.id = t[i].id BY <1>3, <2>3
  <2> HIDE DEF v
  <2>6. /\ c \in Table(n, Ids) /\ Distinct(c) /\ Used(c) = Used(t)
        /\ Recs(c) = (Recs(t) \ {u}) \cup {v}
        /\ \A j \in Used(t) : c[j] = IF j = i THEN v ELSE t[j]
    BY <1>1, <2>3, <2>5, PutRecs
  <2>7. \A j \in Used(t) : c[j].id = t[j].id /\ (t[j].id # id => c[j] = t[j]) BY <1>3, <2>3, <2>6
  <2>8. \A x \in Recs(c) : x.id = id => x.st \in Unacked /\ x.qos = QosOf(m) /\ Fits(x.st, m)
    BY <2>3, <2>4, <2>6
  <2> QED BY <2>6, <2>7, <2>8
<1> QED BY <1>2, <1>3 DEF PubWaits

\* A PUBLISH was received: it gets a record, or has one.
InNew(id, m) == [id |-> id, qos |-> QosOf(m), st |-> IF QosOf(m) = 1 THEN "PubAckSend" ELSE "PubRecSend"]

LEMMA PublishTaken ==
  ASSUME NEW in \in Table(InCount, InIds), Distinct(in), NEW out, NEW id \in InIds, NEW m \in In,
         NEW r, r = MQTT_UpdateStatePublish(out, in, id, "RECEIVE", QosOf(m))
  PROVE  /\ r.out = out /\ r.in \in Table(InCount, InIds)
         /\ (r.status = "StateCollision" <=> Has(in, id))
         /\ r.status = "Success" => r.new = InNew(id, m).st
         /\ r.status = "Success" => Distinct(r.in) /\ Recs(r.in) = Recs(in) \cup {InNew(id, m)}
         /\ r.status # "Success" => Keeps(in, r.in)
         /\ r.status # "Success" => Distinct(r.in) /\ Recs(r.in) = Recs(in)
         /\ CalculateStatePublish("RECEIVE", QosOf(m)) = InNew(id, m).st
<1> DEFINE st == IF QosOf(m) = 1 THEN "PubAckSend" ELSE "PubRecSend"
           new == InNew(id, m)
           a == AddRecord(in, id, QosOf(m), st)
<1>1. QosOf(m) \in {1, 2} /\ QosOf(m) # 0 /\ id # 0 BY NoZero DEF QosOf
<1>2. InCount \in Nat \ {0} /\ InCount \in Nat /\ 0 \notin InIds BY NoZero, QosConstants
<1>3. new = [id |-> id, qos |-> QosOf(m), st |-> st] /\ new.id = id /\ new.st = st
  BY DEF InNew
<1>4. CalculateStatePublish("RECEIVE", QosOf(m)) = st
  BY <1>1 DEF CalculateStatePublish
<1>5. st \in PublishState \ {"Null", "PublishDone"}
  BY DEF PublishState
<1>6. /\ r.status = a.status /\ r.out = out /\ r.in = a.recs
      /\ r.status = "Success" => r.new = st
  BY <1>1, <1>4 DEF MQTT_UpdateStatePublish, UpdateStatePublish, ValidTransitionPublish
<1>7. /\ a.recs \in Table(InCount, InIds)
      /\ a.status = "StateCollision" <=> Has(in, id)
      /\ a.status = "Success" => Grows(in, a.recs, new)
      /\ a.status # "Success" => Keeps(in, a.recs)
  BY <1>1, <1>2, <1>3, <1>5, AddRecordDoes
<1> HIDE DEF new, a, st
<1>8. r.status # "Success" => Distinct(r.in) /\ Recs(r.in) = Recs(in)
  BY <1>2, <1>6, <1>7, KeepsRecs
<1>9. ASSUME r.status = "Success" PROVE Distinct(r.in) /\ Recs(r.in) = Recs(in) \cup {new}
  <2>1. ~ Has(in, new.id) /\ Grows(in, r.in, new) /\ new.id # 0 BY <1>1, <1>3, <1>6, <1>7, <1>9
  <2> QED BY <1>2, <1>6, <1>7, <2>1, GrowsRecs
<1> QED BY <1>3, <1>4, <1>6, <1>7, <1>8, <1>9 DEF new

\* PUBREL is sent, for the first time or again.
LEMMA PubrelSent ==
  ASSUME NEW n \in Nat, NEW out \in Table(n, Ids), Distinct(out), NEW in,
         NEW i \in Used(out), out[i].st \in Late, out[i].qos = 2
  PROVE  LET r == MQTT_UpdateStateAck(out, in, out[i].id, "PUBREL", "SEND")
         IN /\ r.in = in /\ r.status = "Success"
            /\ r.out = Put(out, i, InState(out[i], "PubCompPending"))
<1> DEFINE id == out[i].id
           r == MQTT_UpdateStateAck(out, in, id, "PUBREL", "SEND")
           u == UpdateStateAck(out, i, out[i].st, "PubCompPending")
<1>1. id # 0 /\ 0 \notin Ids BY NoZero DEF Used
<1>2. FindInRecord(out, id) = i /\ i # 0
  <2>1. Has(out, id) BY DEF Has, Recs
  <2> QED BY <1>1, <2>1, FindIs DEF Distinct
<1>3. CalculateStateAck("PUBREL", "SEND", out[i].qos) = "PubCompPending" BY DEF CalculateStateAck
<1>4. r.status = u.status /\ r.in = in /\ r.out = u.recs
  BY <1>1, <1>2, <1>3 DEF MQTT_UpdateStateAck, IsPublishOutgoing
<1> HIDE DEF r
<1>5. u.status = "Success" /\ u.recs = Put(out, i, InState(out[i], "PubCompPending"))
  <2>1. ValidTransitionAck(out[i].st, "PubCompPending") BY DEF ValidTransitionAck, AckTransitions, Late
  <2>2. CASE out[i].st = "PubRelSend"
    BY <2>1, <2>2 DEF UpdateStateAck, UpdateRecord, Put, InState
  <2>3. CASE out[i].st = "PubCompPending"
    <3>1. u.status = "Success" /\ u.recs = out BY <2>1, <2>3 DEF UpdateStateAck
    <3>2. out = Put(out, i, InState(out[i], "PubCompPending"))
      <4>1. out[i] \in [id: Ids, qos: {1, 2}, st: PublishState \ {"Null", "PublishDone"}] BY <1>1, Rows
      <4>2. InState(out[i], "PubCompPending") = out[i] BY <2>3, <4>1 DEF InState
      <4> QED BY <4>2 DEF Table, Put
    <3> QED BY <3>1, <3>2
  <2> QED BY <2>2, <2>3 DEF Late
<1> QED BY <1>4, <1>5 DEF r

\* An acknowledgement is sent, of a publish that has a record or had one.
LEMMA AckSent ==
  ASSUME NEW k \in Nat, NEW in \in Table(k, InIds), Distinct(in), \A x \in Recs(in) : InFits(x),
         NEW out, NEW id \in Ids, NEW type \in Acks
  PROVE  LET r == MQTT_UpdateStateAck(out, in, id, type, "SEND")
         IN /\ r.out = out
            /\ \/ r.in = in /\ \A x \in Recs(in) : x.id = id =>
                    (type = "PUBACK" => x.qos # 1) /\ (type = "PUBCOMP" => x.st # "PubCompSend")
               \/ \E i \in Used(in) :
                    /\ in[i].id = id
                    /\ \/ type = "PUBACK" /\ in[i].qos = 1 /\ r.in = Put(in, i, Empty)
                       \/ type = "PUBCOMP" /\ in[i].st = "PubCompSend" /\ r.in = Put(in, i, Empty)
                       \/ /\ type = "PUBREC" /\ in[i].st = "PubRecSend"
                          /\ r.in = Put(in, i, InState(in[i], "PubRelPending"))
<1> DEFINE i == FindInRecord(in, id)
           x == in[i]
           r == MQTT_UpdateStateAck(out, in, id, type, "SEND")
           new == CalculateStateAck(type, "SEND", x.qos)
           u == UpdateStateAck(in, i, x.st, new)
<1>1. id # 0 /\ 0 \notin InIds BY NoZero
<1>2. ~ IsPublishOutgoing(type, "SEND") BY DEF IsPublishOutgoing, Acks
<1>3. CASE ~ Has(in, id)
  <2>1. i = 0 BY <1>1, <1>3, FindIs
  <2>2. r.out = out /\ r.in = in BY <1>1, <1>2, <2>1 DEF MQTT_UpdateStateAck
  <2> QED BY <1>3, <2>2 DEF Has
<1>4. CASE Has(in, id)
  <2>1. i \in Used(in) /\ x.id = id /\ i # 0 BY <1>1, <1>4, FindIs
  <2>2. \A y \in Recs(in) : y.id = id => y = x BY <2>1 DEF Distinct, Recs
  <2>3. InFits(x) /\ x.qos \in {1, 2} BY <1>1, <2>1, Rows DEF Recs
  <2>4. r.out = out /\ r.in = u.recs BY <1>1, <1>2, <2>1 DEF MQTT_UpdateStateAck
  <2> HIDE DEF r, i
  <2>5. CASE type = "PUBACK"
    <3>1. CASE x.qos = 1
      <4>1. new = "PublishDone" /\ x.st = "PubAckSend" BY <2>3, <2>5, <3>1 DEF CalculateStateAck, InFits
      <4>2. ValidTransitionAck(x.st, new) BY <4>1 DEF ValidTransitionAck, AckTransitions
      <4>3. u.recs = Put(in, i, Empty) BY <4>1, <4>2 DEF UpdateStateAck, UpdateRecord, Put, InState
      <4> QED BY <2>1, <2>4, <2>5, <3>1, <4>3 DEF r
    <3>2. CASE x.qos # 1
      <4>1. new = "Null" BY <2>5, <3>2 DEF CalculateStateAck
      <4>2. ~ ValidTransitionAck(x.st, new) BY <4>1 DEF ValidTransitionAck, AckTransitions
      <4>3. u.recs = in BY <4>2 DEF UpdateStateAck
      <4> QED BY <2>2, <2>4, <2>5, <3>2, <4>3 DEF r
    <3> QED BY <3>1, <3>2
  <2>6. CASE type = "PUBCOMP"
    <3>1. CASE x.st = "PubCompSend"
      <4>1. new = "PublishDone" BY <2>3, <2>6, <3>1 DEF CalculateStateAck, InFits
      <4>2. ValidTransitionAck(x.st, new) BY <3>1, <4>1 DEF ValidTransitionAck, AckTransitions
      <4>3. u.recs = Put(in, i, Empty) BY <3>1, <4>1, <4>2 DEF UpdateStateAck, UpdateRecord, Put, InState
      <4> QED BY <2>1, <2>4, <2>6, <3>1, <4>3 DEF r
    <3>2. CASE x.st # "PubCompSend"
      <4>1. new = "Null" \/ (new = "PublishDone" /\ x.st \in {"PubRecSend", "PubRelPending"})
        BY <2>3, <2>6, <3>2 DEF CalculateStateAck, InFits
      <4>2. ~ ValidTransitionAck(x.st, new) BY <4>1 DEF ValidTransitionAck, AckTransitions
      <4>3. u.recs = in BY <4>2 DEF UpdateStateAck
      <4> QED BY <2>2, <2>4, <2>6, <3>2, <4>3 DEF r
    <3> QED BY <3>1, <3>2
  <2>7. CASE type = "PUBREC"
    <3>1. CASE x.st = "PubRecSend"
      <4>1. new = "PubRelPending" BY <2>3, <2>7, <3>1 DEF CalculateStateAck, InFits
      <4>2. ValidTransitionAck(x.st, new) BY <3>1, <4>1 DEF ValidTransitionAck, AckTransitions
      <4>3. u.recs = Put(in, i, InState(in[i], "PubRelPending"))
        BY <3>1, <4>1, <4>2 DEF UpdateStateAck, UpdateRecord, Put, InState
      <4> QED BY <2>1, <2>4, <2>7, <3>1, <4>3 DEF r
    <3>2. CASE x.st # "PubRecSend"
      <4>1. \/ new = "Null"
            \/ new = "PubRelPending" /\ x.st \in {"PubRelPending", "PubCompSend"}
        BY <2>3, <2>7, <3>2 DEF CalculateStateAck, InFits
      <4>2. ~ ValidTransitionAck(x.st, new) \/ x.st = new
        BY <4>1 DEF ValidTransitionAck, AckTransitions
      <4>3. u.recs = in BY <4>2 DEF UpdateStateAck
      <4> QED BY <2>2, <2>4, <2>7, <3>2, <4>3 DEF r
    <3> QED BY <3>1, <3>2
  <2> QED BY <2>5, <2>6, <2>7 DEF Acks
<1> QED BY <1>3, <1>4

\* An acknowledgement is received and accepted: its record goes, or a PUBREC
\* moves it to the end.
AckDrops(t, id, c) == \E i \in Used(t) : t[i].id = id /\ c = Put(t, i, Empty)
AckMoves(t, id, c) ==
  \E i \in Used(t) : /\ t[i].id = id /\ t[i].qos = 2
                     /\ Grows(Put(t, i, Empty), c, [id |-> id, qos |-> 2, st |-> "PubRelSend"])

LEMMA AckReceived ==
  ASSUME NEW n \in Nat \ {0}, NEW out \in Table(n, Ids), NEW in, NEW id \in Ids, NEW type \in Acks,
         NEW r, r = MQTT_UpdateStateAck(out, in, id, type, "RECEIVE"), r.status = "Success"
  PROVE  /\ r.in = in
         /\ type # "PUBREC" => AckDrops(out, id, r.out) /\ r.new = "PublishDone"
         /\ type = "PUBREC" => AckMoves(out, id, r.out) /\ r.out \in Table(n, Ids) /\ r.new = "PubRelSend"
<1> DEFINE i == FindInRecord(out, id)
           x == out[i]
           new == CalculateStateAck(type, "RECEIVE", x.qos)
           u == UpdateStateAck(out, i, x.st, new)
           moved == UpdateRecord(out, i, new, new \in {"PublishDone", "PubRelSend"})
<1>1. id # 0 /\ 0 \notin Ids BY NoZero
<1>2. IsPublishOutgoing(type, "RECEIVE") BY DEF IsPublishOutgoing, Acks
<1>3. i # 0 BY <1>1, <1>2 DEF MQTT_UpdateStateAck
<1>4. i \in Used(out) /\ x.id = id BY <1>1, <1>3, FindIs
<1>5. /\ r.status = u.status /\ r.in = in /\ r.out = u.recs /\ r.new = new
  BY <1>1, <1>2, <1>3 DEF MQTT_UpdateStateAck
<1> HIDE DEF i
<1>6. u.status = "Success" BY <1>5
<1>7. ValidTransitionAck(x.st, new) BY <1>6 DEF UpdateStateAck
<1>8. new # "Null" BY <1>7 DEF ValidTransitionAck, AckTransitions
<1>9. x.qos = IF type = "PUBACK" THEN 1 ELSE 2 BY <1>8 DEF CalculateStateAck
<1>10. CASE type # "PUBREC"
  <2>1. new = "PublishDone" BY <1>9, <1>10 DEF CalculateStateAck, Acks
  <2>2. x.st \notin {"PublishSend", "PubRecPending", "PubRelSend", "PublishDone"}
    BY <1>7, <2>1 DEF ValidTransitionAck, AckTransitions
  <2>3. u.recs = Put(out, i, Empty) BY <1>7, <2>1, <2>2 DEF UpdateStateAck, UpdateRecord, Put
  <2> QED BY <1>4, <1>5, <1>10, <2>1, <2>3 DEF AckDrops
<1>11. CASE type = "PUBREC"
  <2>1. new = "PubRelSend" BY <1>9, <1>11 DEF CalculateStateAck
  <2>2. x.st = "PubRecPending" BY <1>7, <2>1 DEF ValidTransitionAck, AckTransitions
  <2>3. u = AddRecord(Put(out, i, Empty), id, 2, "PubRelSend")
    BY <1>4, <1>7, <2>1, <2>2 DEF UpdateStateAck, UpdateRecord, Put
  <2>4. Put(out, i, Empty) \in Table(n, Ids)
    <3>1. Empty \in Record(Ids) /\ DOMAIN out = 1 .. n BY <1>1, Rows
    <3> QED BY <3>1 DEF Table, Put
  <2>5. "PubRelSend" \in PublishState \ {"Null", "PublishDone"} BY DEF PublishState
  <2>6. /\ u.recs \in Table(n, Ids)
        /\ Grows(Put(out, i, Empty), u.recs, [id |-> id, qos |-> 2, st |-> "PubRelSend"])
    BY <1>1, <1>6, <2>3, <2>4, <2>5, AddRecordDoes
  <2> QED BY <1>4, <1>5, <1>9, <1>11, <2>1, <2>6 DEF AckMoves
<1> QED BY <1>10, <1>11

RelTakes(t, id, c) ==
  \E i \in Used(t) : t[i].id = id /\ t[i].qos = 2 /\ c = Put(t, i, InState(t[i], "PubCompSend"))

LEMMA PubrelReceived ==
  ASSUME NEW k \in Nat, NEW in \in Table(k, InIds), NEW out, NEW id \in Ids,
         NEW r, r = MQTT_UpdateStateAck(out, in, id, "PUBREL", "RECEIVE"), r.status = "Success"
  PROVE  r.out = out /\ r.new = "PubCompSend" /\ RelTakes(in, id, r.in)
<1> DEFINE i == FindInRecord(in, id)
           x == in[i]
           new == CalculateStateAck("PUBREL", "RECEIVE", x.qos)
           u == UpdateStateAck(in, i, x.st, new)
<1>1. id # 0 /\ 0 \notin InIds BY NoZero
<1>2. ~ IsPublishOutgoing("PUBREL", "RECEIVE") BY DEF IsPublishOutgoing
<1>3. i # 0 BY <1>1, <1>2 DEF MQTT_UpdateStateAck
<1>4. i \in Used(in) /\ x.id = id BY <1>1, <1>3, FindIs
<1>5. /\ r.status = u.status /\ r.out = out /\ r.in = u.recs /\ r.new = new
  BY <1>1, <1>2, <1>3 DEF MQTT_UpdateStateAck
<1> HIDE DEF i
<1>6. u.status = "Success" BY <1>5
<1>7. ValidTransitionAck(x.st, new) BY <1>6 DEF UpdateStateAck
<1>8. new # "Null" BY <1>7 DEF ValidTransitionAck, AckTransitions
<1>9. x.qos = 2 /\ new = "PubCompSend" BY <1>8 DEF CalculateStateAck
<1>10. u.recs = Put(in, i, InState(in[i], "PubCompSend"))
  <2>1. CASE x.st # new BY <1>7, <1>9, <2>1 DEF UpdateStateAck, UpdateRecord, Put, InState
  <2>2. CASE x.st = new
    <3>1. u.recs = in BY <1>7, <2>2 DEF UpdateStateAck
    <3>2. x \in [id: InIds, qos: {1, 2}, st: PublishState \ {"Null", "PublishDone"}] BY <1>1, <1>4, Rows
    <3>3. InState(x, "PubCompSend") = x BY <1>9, <2>2, <3>2 DEF InState
    <3> QED BY <1>4, <3>1, <3>3 DEF Table, Put
  <2> QED BY <2>1, <2>2
<1> QED BY <1>4, <1>5, <1>9, <1>10 DEF RelTakes

-----------------------------------------------------------------------------
(* Types, and steps that one direction does not notice                     *)

TxEntry == [m: In, id: InIds, rel: BOOLEAN]

LEMMA Types ==
  ASSUME QosTypeOK
  PROVE  /\ OutCount \in Nat \ {0} /\ InCount \in Nat \ {0} /\ cb \in BOOLEAN
         /\ cli.out \in Table(OutCount, Ids) /\ cli.in \in Table(InCount, InIds)
         /\ net.c2b \in Seq(Packet) /\ net.b2c \in Seq(Packet)
         /\ brk.got \in Seq(Out) /\ brk.tx \in Seq(TxEntry)
         /\ app.own \in [Ids -> Out \cup {0}] /\ app.got \in Seq(In)
         /\ drops \in Nat /\ expiries \in Nat
<1>1. cb \in DOMAIN Slots BY DEF QosTypeOK
<1>2. OutCount \in Nat \ {0} /\ InCount \in Nat \ {0} /\ cb \in BOOLEAN
  BY <1>1, QosConstants DEF OutCount
<1>3. drops \in Nat /\ expiries \in Nat BY QosConstants DEF QosTypeOK
<1> QED BY <1>2, <1>3 DEF QosTypeOK, Client, Network, Broker, Application, Table, TxEntry

LEMMA KindsOf ==
  /\ \A t \in Orders : t \notin Acks
  /\ "PUBLISH" \in Orders /\ "PUBREL" \in Orders
  /\ "PUBACK" \in Acks /\ "PUBREC" \in Acks /\ "PUBCOMP" \in Acks
  BY DEF Orders, Acks

LEMMA PktIs ==
  ASSUME NEW type \in Type, NEW id \in Ids, NEW m \in Msgs \cup {0}
  PROVE  /\ Pkt(type, id, m) \in Packet
         /\ Pkt(type, id, m).type = type /\ Pkt(type, id, m).id = id /\ Pkt(type, id, m).m = m
  BY DEF Pkt, Packet

\* k is n without some of the packets of one direction.
OutNet(n, k) ==
  /\ OnePacket(n.c2b, n.b2c) => OnePacket(k.c2b, k.b2c)
  /\ Rising(n.c2b) => Rising(k.c2b)
  /\ Fwd(k.c2b) \in {Fwd(n.c2b), {}}
  /\ Back(k.b2c) \subseteq Back(n.b2c)
  /\ k.up => n.up /\ Fwd(k.c2b) = Fwd(n.c2b)
InNet(n, k) ==
  /\ OnePacket(n.b2c, n.c2b) => OnePacket(k.b2c, k.c2b)
  /\ Fwd(k.b2c) \subseteq Fwd(n.b2c)
  /\ Back(k.c2b) \subseteq Back(n.c2b)

LEMMA NetTrans ==
  ASSUME NEW n, NEW k, NEW l
  PROVE  /\ OutNet(n, n) /\ InNet(n, n)
         /\ OutNet(n, k) /\ OutNet(k, l) => OutNet(n, l)
         /\ InNet(n, k) /\ InNet(k, l) => InNet(n, l)
<1>1. OutNet(n, n) /\ InNet(n, n) BY DEF OutNet, InNet
<1>2. ASSUME OutNet(n, k), OutNet(k, l) PROVE OutNet(n, l) BY <1>2 DEF OutNet
<1>3. ASSUME InNet(n, k), InNet(k, l) PROVE InNet(n, l) BY <1>3 DEF InNet
<1> QED BY <1>1, <1>2, <1>3

LEMMA NetBroken ==
  ASSUME NEW n \in Network
  PROVE  /\ Broken(n) \in Network /\ OutNet(n, Broken(n)) /\ InNet(n, Broken(n))
         /\ ~ Broken(n).up /\ Broken(n).c2b = <<>> /\ Broken(n).b2c = n.b2c
<1> DEFINE k == Broken(n)
<1>1. k \in Network /\ ~k.up /\ k.c2b = <<>> /\ k.b2c = n.b2c
  <2>1. <<>> \in Seq(Packet) OBVIOUS
  <2> QED BY <2>1 DEF Broken, Network
<1> HIDE DEF k
<1>2. OutNet(n, k) BY <1>1, EmptySet, RisingEmpty, OneGone DEF OutNet
<1>3. InNet(n, k) BY <1>1, EmptySet, OneGone DEF InNet
<1> QED BY <1>1, <1>2, <1>3 DEF k

\* A packet is read, by the client or by the broker.
LEMMA NetRead ==
  ASSUME NEW n \in Network, n.b2c # <<>>
  PROVE  LET k == [n EXCEPT !.b2c = Tail(@)]
         IN k \in Network /\ OutNet(n, k) /\ InNet(n, k)
<1> DEFINE k == [n EXCEPT !.b2c = Tail(@)]
<1>1. n.c2b \in Seq(Packet) /\ n.b2c \in Seq(Packet) BY DEF Network
<1>2. Tail(n.b2c) \in Seq(Packet) BY <1>1, TailKinds
<1>3. k \in Network /\ k.up = n.up /\ k.c2b = n.c2b /\ k.b2c = Tail(n.b2c) BY <1>2 DEF Network
<1> HIDE DEF k
<1>4. Fwd(k.b2c) \subseteq Fwd(n.b2c) /\ Back(k.b2c) \subseteq Back(n.b2c)
  BY <1>1, <1>3, TailKinds
<1>5. OutNet(n, k) BY <1>1, <1>3, <1>4, OneTaken DEF OutNet
<1>6. InNet(n, k) BY <1>1, <1>3, <1>4, OneTaken DEF InNet
<1> QED BY <1>3, <1>5, <1>6 DEF k

LEMMA NetServed ==
  ASSUME NEW n \in Network, n.c2b # <<>>
  PROVE  LET k == [n EXCEPT !.c2b = Tail(@)]
         IN k \in Network /\ InNet(n, k) /\ (Head(n.c2b).type \in Acks => OutNet(n, k))
<1> DEFINE k == [n EXCEPT !.c2b = Tail(@)]
<1>1. n.c2b \in Seq(Packet) /\ n.b2c \in Seq(Packet) BY DEF Network
<1>2. Tail(n.c2b) \in Seq(Packet) BY <1>1, TailKinds
<1>3. k \in Network /\ k.up = n.up /\ k.b2c = n.b2c /\ k.c2b = Tail(n.c2b) BY <1>2 DEF Network
<1> HIDE DEF k
<1>4. Back(k.c2b) \subseteq Back(n.c2b) BY <1>1, <1>3, TailKinds
<1>5. InNet(n, k) BY <1>1, <1>3, <1>4, OneTaken DEF InNet
<1>6. ASSUME Head(n.c2b).type \in Acks PROVE OutNet(n, k)
  <2>1. Fwd(k.c2b) = Fwd(n.c2b) BY <1>1, <1>3, <1>6, TailKinds
  <2> QED BY <1>1, <1>3, <2>1, OneTaken, TailRising DEF OutNet
<1> QED BY <1>3, <1>5, <1>6 DEF k

\* A packet of the other direction is sent.
LEMMA NetSends ==
  ASSUME NEW n \in Network, NEW p \in Packet
  PROVE  LET k == [n EXCEPT !.c2b = Append(@, p)]
             l == [n EXCEPT !.b2c = Append(@, p)]
         IN /\ k \in Network /\ l \in Network
            /\ p.type \in Acks => OutNet(n, k) /\ InNet(n, l)
            /\ p.type \in Orders => InNet(n, k) /\ OutNet(n, l)
<1> DEFINE k == [n EXCEPT !.c2b = Append(@, p)]
           l == [n EXCEPT !.b2c = Append(@, p)]
<1>1. n.c2b \in Seq(Packet) /\ n.b2c \in Seq(Packet) BY DEF Network
<1>2. Append(n.c2b, p) \in Seq(Packet) /\ Append(n.b2c, p) \in Seq(Packet) BY <1>1, AppendKinds
<1>3. /\ k \in Network /\ k.up = n.up /\ k.b2c = n.b2c /\ k.c2b = Append(n.c2b, p)
      /\ l \in Network /\ l.up = n.up /\ l.c2b = n.c2b /\ l.b2c = Append(n.b2c, p)
  BY <1>2 DEF Network
<1> HIDE DEF k, l
<1>4. ASSUME p.type \in Acks PROVE OutNet(n, k) /\ InNet(n, l)
  <2>1. Fwd(k.c2b) = Fwd(n.c2b) /\ Fwd(l.b2c) = Fwd(n.b2c) BY <1>1, <1>3, <1>4, AppendKinds
  <2>2. p.type # "PUBLISH" BY <1>4 DEF Acks
  <2>3. OutNet(n, k) BY <1>1, <1>3, <1>4, <2>1, <2>2, OneForeign, AppendRising DEF OutNet
  <2>4. InNet(n, l) BY <1>1, <1>3, <1>4, <2>1, OneForeign DEF InNet
  <2> QED BY <2>3, <2>4
<1>5. ASSUME p.type \in Orders PROVE InNet(n, k) /\ OutNet(n, l)
  <2>1. Back(k.c2b) = Back(n.c2b) /\ Back(l.b2c) = Back(n.b2c) BY <1>1, <1>3, <1>5, AppendKinds
  <2>2. InNet(n, k) BY <1>1, <1>3, <1>5, <2>1, OneForeign DEF InNet
  <2>3. OutNet(n, l) BY <1>1, <1>3, <1>5, <2>1, OneForeign DEF OutNet
  <2> QED BY <2>2, <2>3
<1> QED BY <1>3, <1>4, <1>5 DEF k, l

\* What the direction of the client's publishes depends on, the tables and
\* the network aside.
OutSame ==
  /\ cb' = cb
  /\ brk'.sess = brk.sess /\ brk'.rx = brk.rx /\ brk'.got = brk.got /\ brk'.twice = brk.twice
  /\ app'.own = app.own /\ app'.kept = app.kept /\ app'.pub = app.pub /\ app'.done = app.done
  /\ app'.astray = app.astray
\* What a client that is not resuming, or gets no further, has to keep.
ClientStays ==
  /\ cli'.pc = "idle" \/ (cli'.out = cli.out /\ cli'.pc = cli.pc /\ cli'.cursor = cli.cursor)
  /\ cb /\ cli'.conn = "Connected" /\ ~cli'.bad /\ net'.up => 
       cli.conn = "Connected" /\ ~cli.bad /\ cli.pc = cli'.pc

LEMMA OutQuiet ==
  ASSUME QosTypeOK, OutInv, OutSame, ClientStays, OutNet(net, net'),
         cli'.out \in Table(OutCount, Ids), Keeps(cli.out, cli'.out)
  PROVE  OutInv'
<1>1. Distinct(cli'.out) /\ Recs(cli'.out) = Recs(cli.out)
  BY Types, NoZero, KeepsRecs DEF OutInv, Owned
<1>2. /\ \A id : Has(cli'.out, id) <=> Has(cli.out, id)
      /\ \A id, S : StateIn(cli'.out, id, S) <=> StateIn(cli.out, id, S)
  BY <1>1 DEF Has, StateIn
<1>3. \A id : Delivered(id)' <=> Delivered(id) BY DEF OutSame, Delivered
<1>4. Owned'
  <2>1. \A r \in Recs(cli.out) :
           /\ r.qos = QosOf(app.own[r.id]) /\ Fits(r.st, app.own[r.id])
           /\ r.st \in Unacked => r.id \in app.kept
           /\ r.st \in Late => Delivered(r.id)
    BY DEF OutInv, Owned
  <2>2. \A id \in Ids : Has(cli.out, id) <=> app.own[id] # 0 BY DEF OutInv, Owned
  <2>3. \A x, y \in Ids : app.own[x] = app.own[y] /\ app.own[x] # 0 => x = y BY DEF OutInv, Owned
  <2> QED BY <1>1, <1>2, <1>3, <2>1, <2>2, <2>3 DEF Owned, OutSame
<1>5. Published' BY DEF OutInv, Published, OutSame
<1>6. OutPackets'
  <2>1. OnePacket(net'.c2b, net'.b2c) BY DEF OutNet, OutInv, OutPackets
  <2>2. Fwd(net'.c2b) \subseteq Fwd(net.c2b) /\ Back(net'.b2c) \subseteq Back(net.b2c) BY DEF OutNet
  <2>3. \A p \in Fwd(net.c2b) :
          IF p.type = "PUBLISH" THEN p.m = app.own[p.id] /\ p.m # 0 /\ StateIn(cli.out, p.id, Unacked)
          ELSE StateIn(cli.out, p.id, {"PubCompPending"})
    BY DEF OutInv, OutPackets
  <2>4. \A p \in Back(net.b2c) :
          IF p.type = "PUBCOMP" THEN StateIn(cli.out, p.id, {"PubCompPending"}) /\ p.id \notin brk.rx
          ELSE /\ StateIn(cli.out, p.id, Unacked) /\ Delivered(p.id)
               /\ p.type = "PUBACK" <=> app.own[p.id] \in Qos1
    BY DEF OutInv, OutPackets
  <2> QED BY <1>2, <1>3, <2>1, <2>2, <2>3, <2>4 DEF OutPackets, OutSame
<1>7. \A id : OutBusy(id)' => OutBusy(id) BY DEF OutBusy, OutNet
<1>8. Resending'
  <2>1. CASE cli'.pc = "idle" BY <2>1 DEF Resending
  <2>2. CASE cli'.out = cli.out /\ cli'.pc = cli.pc /\ cli'.cursor = cli.cursor
    BY <1>7, <2>2 DEF Resending, OutInv
  <2> QED BY <2>1, <2>2 DEF ClientStays
<1>9. Received' BY <1>2, <1>3 DEF OutInv, Received, OutSame
<1>10. ASSUME cb' PROVE FirstInOrder' /\ TableOrder' /\ QueueOrder'
  <2>1. FirstInOrder /\ TableOrder /\ QueueOrder BY <1>10 DEF OutInv, Ordered, OutSame
  <2>2. FirstInOrder' BY <2>1 DEF FirstInOrder, OutSame
  <2>3. \A r : Waits(r)' <=> Waits(r) BY <1>3 DEF Waits
  <2>4. TableOrder'
    <3>1. \A i, j \in Used(cli'.out) : i < j =>
             \E k, l \in Used(cli.out) : k < l /\ cli'.out[i] = cli.out[k] /\ cli'.out[j] = cli.out[l]
      BY DEF Keeps
    <3>2. \A k, l \in Used(cli.out) : k < l /\ cli.out[k].st \in Unacked /\ cli.out[l].st \in Unacked
             => app.own[cli.out[k].id] < app.own[cli.out[l].id]
      BY <2>1 DEF TableOrder
    <3>3. \A i, j \in Used(cli'.out) : i < j /\ cli'.out[i].st \in Unacked /\ cli'.out[j].st \in Unacked
             => app.own[cli'.out[i].id] < app.own[cli'.out[j].id]
      BY <3>1, <3>2
    <3>4. \A r \in Recs(cli.out) : Waits(r) => \A k \in ToSet(brk.got) : k < app.own[r.id]
      BY <2>1 DEF TableOrder
    <3> QED BY <1>1, <2>3, <3>3, <3>4 DEF TableOrder, OutSame
  <2>5. QueueOrder'
    <3>1. Rising(net'.c2b) BY <2>1 DEF QueueOrder, OutNet
    <3>2. Fwd(net'.c2b) = Fwd(net.c2b) => \A id : Sent(id)' <=> Sent(id) BY DEF Sent, OutSame
    <3>3. \A p \in Fwd(net'.c2b), r \in Recs(cli'.out) :
             p.type = "PUBLISH" /\ Waits(r)' /\ app'.own[r.id] < p.m => Sent(r.id)'
      <4>1. CASE Fwd(net'.c2b) = {} BY <4>1
      <4>2. CASE Fwd(net'.c2b) = Fwd(net.c2b)
        BY <1>1, <2>1, <2>3, <3>2, <4>2 DEF QueueOrder, OutSame
      <4> QED BY <4>1, <4>2 DEF OutNet
    <3>4. ASSUME net'.up, cli'.conn = "Connected", ~cli'.bad, cli'.pc \in {"idle", "publishes"},
                 NEW i \in Used(cli'.out), cli'.pc = "publishes" => i <= cli'.cursor,
                 NEW r, r = cli'.out[i], Waits(r)'
          PROVE  Sent(r.id)'
      <4>1. /\ cli.conn = "Connected" /\ ~cli.bad /\ cli.pc = cli'.pc /\ net.up
            /\ Fwd(net'.c2b) = Fwd(net.c2b)
        BY <1>10, <3>4 DEF ClientStays, OutNet, OutSame
      <4>2. PICK k \in Used(cli.out) : r = cli.out[k] /\ (cli.pc = "publishes" => k <= cli.cursor)
        <5>1. CASE cli'.pc = "idle" BY <3>4, <4>1, <5>1 DEF Keeps
        <5>2. CASE cli'.pc # "idle" BY <3>4, <4>1, <5>2 DEF ClientStays
        <5> QED BY <5>1, <5>2
      <4>3. Sent(cli.out[k].id) BY <2>1, <2>3, <3>4, <4>1, <4>2 DEF QueueOrder
      <4> QED BY <3>2, <4>1, <4>2, <4>3
    <3> QED BY <3>1, <3>3, <3>4 DEF QueueOrder, Waits, Delivered, Sent
  <2> QED BY <2>2, <2>4, <2>5
<1> QED BY <1>4, <1>5, <1>6, <1>8, <1>9, <1>10 DEF OutInv, Ordered

\* The same for the direction of the broker's publishes.
InSame ==
  /\ brk'.sess = brk.sess /\ brk'.tx = brk.tx /\ brk'.sent = brk.sent
  /\ app'.got = app.got /\ app'.twice = app.twice /\ app.lost \subseteq app'.lost
  /\ app'.astray = app.astray

LEMMA InQuiet ==
  ASSUME QosTypeOK, InInv, InSame, InNet(net, net'),
         cli'.in \in Table(InCount, InIds), Keeps(cli.in, cli'.in)
  PROVE  InInv'
<1>1. Distinct(cli'.in) /\ Recs(cli'.in) = Recs(cli.in)
  BY Types, NoZero, KeepsRecs DEF InInv, Sending
<1>2. \A id : Has(cli'.in, id) <=> Has(cli.in, id) BY <1>1 DEF Has
<1>3. Tx' = Tx /\ \A m : Taking(m)' <=> Taking(m) BY DEF Tx, Taking, InSame
<1>4. Sending' BY <1>1, <1>3 DEF InInv, Sending, InSame
<1>5. InPackets'
  <2>1. OnePacket(net'.b2c, net'.c2b) BY DEF InNet, InInv, InPackets
  <2>2. Fwd(net'.b2c) \subseteq Fwd(net.b2c) /\ Back(net'.c2b) \subseteq Back(net.c2b) BY DEF InNet
  <2>3. \A p \in Fwd(net'.b2c) : \E t \in Tx' :
          t.id = p.id /\ IF p.type = "PUBLISH" THEN t.m = p.m /\ ~t.rel ELSE t.rel
    BY <1>3, <2>2 DEF InInv, InPackets
  <2>4. ASSUME NEW p \in Back(net'.c2b)
        PROVE  \E t \in Tx' :
                  /\ t.id = p.id /\ (p.type = "PUBACK" <=> t.m \in Qos1) /\ (p.type = "PUBCOMP" <=> t.rel)
                  /\ ~app'.astray => Taking(t.m)' /\ (p.type # "PUBREC" => ~ Has(cli'.in, p.id))
    <3>1. PICK t \in Tx :
            /\ t.id = p.id /\ (p.type = "PUBACK" <=> t.m \in Qos1) /\ (p.type = "PUBCOMP" <=> t.rel)
            /\ ~app.astray => Taking(t.m) /\ (p.type # "PUBREC" => ~ Has(cli.in, p.id))
      BY <2>2 DEF InInv, InPackets
    <3> QED BY <1>2, <1>3, <3>1 DEF InSame
  <2> QED BY <2>1, <2>3, <2>4 DEF InPackets
<1>6. Taken' BY <1>1, <1>2, <1>3 DEF InInv, Taken, InSame
<1> QED BY <1>4, <1>5, <1>6 DEF InInv

-----------------------------------------------------------------------------
(* What a handler of the client leaves                                     *)

LEMMA HandOverIn ==
  ASSUME NEW a \in Application, NEW m \in In
  PROVE  LET b == HandOver(a, m)
         IN /\ b \in Application /\ ToSet(b.got) = ToSet(a.got) \cup {m}
            /\ b.twice = IF m \in ToSet(a.got) THEN a.twice \cup {m} ELSE a.twice
            /\ b.own = a.own /\ b.kept = a.kept /\ b.pub = a.pub /\ b.done = a.done
            /\ b.lost = a.lost /\ b.astray = a.astray
<1>1. a.got \in Seq(In) BY DEF Application
<1>2. Append(a.got, m) \in Seq(In) /\ ToSet(Append(a.got, m)) = ToSet(a.got) \cup {m}
  BY <1>1, AppendSet
<1> QED BY <1>1, <1>2 DEF HandOver, Application

LEMMA HandOverOut ==
  ASSUME NEW a \in Broker, NEW m \in Out
  PROVE  LET b == HandOver(a, m)
         IN /\ b \in Broker /\ ToSet(b.got) = ToSet(a.got) \cup {m}
            /\ b.twice = IF m \in ToSet(a.got) THEN a.twice \cup {m} ELSE a.twice
            /\ b.got = IF m \in ToSet(a.got) THEN a.got ELSE Append(a.got, m)
            /\ b.sess = a.sess /\ b.rx = a.rx /\ b.tx = a.tx /\ b.sent = a.sent
<1>1. a.got \in Seq(Out) BY DEF Broker
<1>2. Append(a.got, m) \in Seq(Out) /\ ToSet(Append(a.got, m)) = ToSet(a.got) \cup {m}
  BY <1>1, AppendSet
<1> QED BY <1>1, <1>2 DEF HandOver, Broker

\* What a client and a network become.
Loses(c) == [c EXCEPT !.conn = "DisconnectPending"]
WithTables(c, r) == [c EXCEPT !.out = r.out, !.in = r.in]
WithSent(n, q) == [n EXCEPT !.c2b = Append(@, q)]

\* The outcomes of sendPublishAcks: nothing is sent, the connection breaks,
\* or the packet is sent and then the record is updated.
AckResult(c, id, st) == MQTT_UpdateStateAck(c.out, c.in, id, AckTypeToSend[st], "SEND")
AckPacket(id, st) == Pkt(AckTypeToSend[st], id, 0)

LEMMA AckOutcomes ==
  ASSUME NEW c, NEW n, NEW id, NEW st \in DOMAIN AckTypeToSend,
         NEW o \in PublishAcks(c, n, id, st)
  PROVE  \/ o.c = c /\ o.n = n /\ o.ok = FALSE
         \/ /\ o.c = Loses(c) /\ o.n = Broken(n) /\ o.ok = FALSE
            /\ n.up => drops # MaxDrops
         \/ /\ o.c = WithTables(c, AckResult(c, id, st)) /\ o.n = WithSent(n, AckPacket(id, st))
            /\ o.ok = (AckResult(c, id, st).status = "Success") /\ n.up /\ c.conn = "Connected"
<1> DEFINE r == AckResult(c, id, st)
           pkt == AckPacket(id, st)
<1>0. /\ r = MQTT_UpdateStateAck(c.out, c.in, id, AckTypeToSend[st], "SEND")
      /\ pkt = Pkt(AckTypeToSend[st], id, 0)
  BY DEF AckResult, AckPacket
<1> HIDE DEF r, pkt
<1>1. CASE c.conn # "Connected"
  <2>1. o = [ok |-> FALSE, c |-> c, n |-> n] BY <1>1 DEF PublishAcks
  <2> QED BY <2>1
<1>2. CASE c.conn = "Connected"
  <2>1. PICK s \in SendOutcomes(c, n, pkt) :
          o = IF s.ok THEN [s EXCEPT !.ok = (r.status = "Success"), !.c.out = r.out, !.c.in = r.in] ELSE s
    BY <1>0, <1>2 DEF PublishAcks
  <2>2. CASE n.up /\ s = [ok |-> TRUE, c |-> c, n |-> [n EXCEPT !.c2b = Append(@, pkt)]]
    <3>1. o.c = WithTables(c, r) /\ o.n = WithSent(n, pkt) /\ o.ok = (r.status = "Success")
      BY <2>1, <2>2 DEF WithTables, WithSent
    <3> QED BY <1>2, <2>2, <3>1 DEF r, pkt
  <2>3. CASE /\ s = [ok |-> FALSE, c |-> [c EXCEPT !.conn = "DisconnectPending"], n |-> Broken(n)]
             /\ n.up => drops # MaxDrops
    <3>1. o = s BY <2>1, <2>3
    <3> QED BY <2>3, <3>1 DEF Loses
  <2> QED BY <2>2, <2>3 DEF SendOutcomes
<1> QED BY <1>1, <1>2

LEMMA AckTypes ==
  /\ DOMAIN AckTypeToSend = {"PubAckSend", "PubRecSend", "PubRelSend", "PubCompSend"}
  /\ AckTypeToSend["PubAckSend"] = "PUBACK" /\ AckTypeToSend["PubRecSend"] = "PUBREC"
  /\ AckTypeToSend["PubRelSend"] = "PUBREL" /\ AckTypeToSend["PubCompSend"] = "PUBCOMP"
  BY DEF AckTypeToSend

\* A handler that MQTT_ProcessLoop or the application calls, and what it
\* returns.
Handler(o) ==
  /\ cli.pc = "idle" /\ cli.conn # "NotConnected" /\ ~cli.bad
  /\ cb' = cb /\ brk' = brk /\ expiries' = expiries /\ Returns(o)
  /\ o.c \in Client /\ o.n \in Network /\ o.ok \in BOOLEAN
  /\ o.c.pc = "idle" /\ o.c.conn \in {cli.conn, "DisconnectPending"}
  /\ o.n.up => net.up
  /\ net.up /\ ~o.n.up => drops # MaxDrops

LEMMA HandlerReturns ==
  ASSUME QosTypeOK, Connection, NEW o, Handler(o), app' \in Application
  PROVE  /\ QosTypeOK' /\ Connection'
         /\ cli'.out = o.c.out /\ cli'.in = o.c.in /\ net' = o.n /\ ClientStays
<1>1. /\ cli' = [o.c EXCEPT !.bad = ~o.ok] /\ net' = o.n
      /\ drops' = IF net.up /\ ~o.n.up THEN drops + 1 ELSE drops
  BY DEF Handler, Returns, Spent
<1>2. o.c \in Client /\ o.ok \in BOOLEAN /\ o.n \in Network BY DEF Handler
<1>3. cli' \in Client
  BY <1>1, <1>2 DEF Client
<1>4. /\ cli'.out = o.c.out /\ cli'.in = o.c.in /\ cli'.conn = o.c.conn /\ cli'.pc = o.c.pc
  BY <1>1, <1>2 DEF Client
<1>5. drops' \in 0 .. MaxDrops
  BY <1>1, QosConstants DEF QosTypeOK, Handler
<1>6. Client' = Client BY DEF Handler, Client, OutCount
<1>7. QosTypeOK'
  <2>1. cb' \in DOMAIN Slots /\ brk' \in Broker /\ expiries' \in 0 .. MaxExpiry
    BY DEF QosTypeOK, Handler
  <2> QED BY <1>1, <1>2, <1>3, <1>5, <1>6, <2>1 DEF QosTypeOK
<1>8. brk.sess BY DEF Handler, Connection
<1>9. Connection'
  BY <1>1, <1>4, <1>8 DEF Handler, Connection
<1>10. ClientStays
  <2>1. cli.pc = "idle" /\ ~cli.bad /\ cli'.pc = "idle" BY <1>4 DEF Handler
  <2>2. cli'.conn \in {cli.conn, "DisconnectPending"} BY <1>4 DEF Handler
  <2>3. cli'.conn = "Connected" => cli.conn = "Connected" BY <2>2
  <2> QED BY <2>1, <2>3 DEF ClientStays
<1> QED BY <1>1, <1>4, <1>7, <1>9, <1>10

-----------------------------------------------------------------------------
(* ReceivePublish                                                          *)

\* What the in table holds once the message m has been recorded under id,
\* or was found recorded, and the application has it.
Recorded(t, id, m, a) ==
  /\ t \in Table(InCount, InIds) /\ Distinct(t) /\ \A r \in Recs(t) : InFits(r)
  /\ \A r \in Recs(t) : r \in Recs(cli.in) \/ r.id = id
  /\ \A r \in Recs(cli.in) : r \in Recs(t)
  /\ Has(t, id)
  /\ ~app.astray => \A r \in Recs(t) : r.id = id => r.qos = QosOf(m)
  /\ a \in Application /\ ToSet(a.got) \subseteq ToSet(app.got) \cup {m}
  /\ ToSet(app.got) \subseteq ToSet(a.got)
  /\ ~app.astray => m \in ToSet(a.got) /\ a.twice \subseteq Qos1
  /\ a.own = app.own /\ a.kept = app.kept /\ a.pub = app.pub /\ a.done = app.done
  /\ a.lost = app.lost /\ a.astray = app.astray

\* The PUBLISH at the head of the queue is an entry of the broker's.
LEMMA HeadPublish ==
  ASSUME QosInv, net.b2c # <<>>, Head(net.b2c).type = "PUBLISH"
  PROVE  /\ Head(net.b2c) \in Packet /\ Head(net.b2c) \in Fwd(net.b2c) /\ brk.sess
         /\ Head(net.b2c).id \in InIds /\ Head(net.b2c).id \in Ids /\ Head(net.b2c).m \in In
         /\ \E t \in Tx : t.id = Head(net.b2c).id /\ t.m = Head(net.b2c).m /\ ~t.rel
<1> DEFINE p == Head(net.b2c)
<1>1. p \in Packet /\ p \in Fwd(net.b2c) BY Types, KindsOf, TailKinds DEF QosInv
<1>2. PICK t \in Tx : t.id = p.id /\ t.m = p.m /\ ~t.rel
  BY <1>1 DEF QosInv, InInv, InPackets
<1>3. t \in TxEntry BY Types DEF QosInv, Tx, ToSet
<1>4. brk.sess BY DEF QosInv, Connection
<1> QED BY <1>1, <1>2, <1>3, <1>4, NoZero DEF TxEntry

LEMMA TxUnique ==
  ASSUME QosInv, NEW t \in Tx, NEW u \in Tx, t.id = u.id \/ t.m = u.m
  PROVE  t = u
  BY DEF QosInv, InInv, Sending, Tx, ToSet

\* What handleIncomingPublish does with it.
PublishResult(id, m) == MQTT_UpdateStatePublish(cli.out, cli.in, id, "RECEIVE", QosOf(m))
PublishApp(id, m) == IF PublishResult(id, m).status = "StateCollision" THEN app ELSE HandOver(app, m)

LEMMA RecordsPublish ==
  ASSUME QosInv, brk.sess, NEW t \in Tx, ~t.rel, NEW id \in InIds, NEW m \in In, t.id = id, t.m = m,
         PublishResult(id, m).status \in {"Success", "StateCollision"}
  PROVE  Recorded(PublishResult(id, m).in, id, m, PublishApp(id, m))
<1> DEFINE in == cli.in
           out == cli.out
           ap == app
           r == PublishResult(id, m)
           tab == r.in
           new == InNew(id, m)
           a == PublishApp(id, m)
<1>0. r.status \in {"Success", "StateCollision"} OBVIOUS
<1>1. in \in Table(InCount, InIds) /\ ap \in Application
  BY Types DEF QosInv, QosTypeOK
<1>2. Distinct(in) /\ \A x \in Recs(in) : InFits(x) BY DEF QosInv, InInv, Sending
<1>3. r = MQTT_UpdateStatePublish(out, in, id, "RECEIVE", QosOf(m)) BY DEF PublishResult
<1>4. new.id = id /\ new.qos = QosOf(m) /\ InFits(new) BY DEF InNew, InFits, QosOf
<1>5. ~app.astray => \A x \in Recs(in) : \E u \in Tx :
         u.id = x.id /\ x.qos = QosOf(u.m) /\ Taking(u.m)
  BY DEF QosInv, InInv, Taken
<1>6. /\ ~app.astray => app.twice \subseteq Qos1
      /\ ~app.astray /\ Taking(m) /\ m \notin Qos1 => Has(in, id)
  BY DEF QosInv, InInv, Taken
<1>7. /\ r.status = "StateCollision" => a = ap
      /\ r.status = "Success" => a = HandOver(ap, m)
  BY DEF PublishApp
<1>8. Recorded(tab, id, m, a) <=>
        /\ tab \in Table(InCount, InIds) /\ Distinct(tab) /\ \A x \in Recs(tab) : InFits(x)
        /\ \A x \in Recs(tab) : x \in Recs(in) \/ x.id = id
        /\ \A x \in Recs(in) : x \in Recs(tab)
        /\ Has(tab, id)
        /\ ~app.astray => \A x \in Recs(tab) : x.id = id => x.qos = QosOf(m)
        /\ a \in Application /\ ToSet(a.got) \subseteq ToSet(ap.got) \cup {m}
        /\ ToSet(ap.got) \subseteq ToSet(a.got)
        /\ ~app.astray => m \in ToSet(a.got) /\ a.twice \subseteq Qos1
        /\ a.own = ap.own /\ a.kept = ap.kept /\ a.pub = ap.pub /\ a.done = ap.done
        /\ a.lost = ap.lost /\ a.astray = ap.astray
  BY DEF Recorded
<1>9. tab = r.in /\ ap.twice = app.twice /\ (Taking(m) <=> m \in ToSet(ap.got)) BY DEF Taking
<1> HIDE DEF in, out, ap, r, new, a, tab
<1>10. /\ tab \in Table(InCount, InIds)
       /\ (r.status = "StateCollision" <=> Has(in, id))
       /\ r.status = "Success" => Distinct(tab) /\ Recs(tab) = Recs(in) \cup {new}
       /\ r.status # "Success" => Distinct(tab) /\ Recs(tab) = Recs(in)
  BY <1>1, <1>2, <1>3, <1>9, PublishTaken DEF new
<1>11. ASSUME r.status = "StateCollision" PROVE Recorded(tab, id, m, a)
  <2>1. Distinct(tab) /\ Recs(tab) = Recs(in) /\ a = ap BY <1>7, <1>10, <1>11
  <2>2. Has(tab, id) BY <1>10, <1>11, <2>1 DEF Has
  <2>3. ASSUME ~app.astray, NEW x \in Recs(tab), x.id = id
        PROVE  x.qos = QosOf(m) /\ Taking(m)
    <3>1. PICK u \in Tx : u.id = x.id /\ x.qos = QosOf(u.m) /\ Taking(u.m) BY <1>5, <2>1, <2>3
    <3>2. u = t BY <2>3, <3>1, TxUnique
    <3> QED BY <3>1, <3>2
  <2>4. ~app.astray => Taking(m) BY <2>2, <2>3 DEF Has
  <2> QED BY <1>1, <1>2, <1>6, <1>8, <1>9, <1>10, <2>1, <2>2, <2>3, <2>4
<1>12. ASSUME r.status = "Success" PROVE Recorded(tab, id, m, a)
  <2>1. ~ Has(in, id) /\ Distinct(tab) /\ Recs(tab) = Recs(in) \cup {new} BY <1>10, <1>12
  <2>2. Has(tab, id) BY <1>4, <2>1 DEF Has
  <2>3. \A x \in Recs(tab) : x.id = id => x.qos = QosOf(m) BY <1>4, <2>1 DEF Has
  <2>4. a = HandOver(ap, m) BY <1>7, <1>12
  <2>5. /\ a \in Application /\ ToSet(a.got) = ToSet(ap.got) \cup {m}
        /\ a.twice = IF m \in ToSet(ap.got) THEN ap.twice \cup {m} ELSE ap.twice
        /\ a.own = ap.own /\ a.kept = ap.kept /\ a.pub = ap.pub /\ a.done = ap.done
        /\ a.lost = ap.lost /\ a.astray = ap.astray
    BY <1>1, <2>4, HandOverIn
  <2>6. ASSUME ~app.astray PROVE a.twice \subseteq Qos1
    <3>1. m \in ToSet(ap.got) => m \in Qos1 BY <1>6, <1>9, <2>1, <2>6
    <3> QED BY <1>6, <1>9, <2>5, <2>6, <3>1
  <2> QED BY <1>2, <1>4, <1>8, <1>10, <2>1, <2>2, <2>3, <2>5, <2>6
<1>13. Recorded(tab, id, m, a) BY <1>0, <1>11, <1>12
<1> QED BY <1>13 DEF tab, r, a

-----------------------------------------------------------------------------
(* The direction of the broker's publishes after a step of the client      *)

\* c is the in table t after a step that concerns the identifier id only.
Touched(t, c, id) ==
  /\ c \in Table(InCount, InIds) /\ Distinct(c) /\ \A x \in Recs(c) : InFits(x)
  /\ \A x \in Recs(c) : \E y \in Recs(t) : y.id = x.id /\ y.qos = x.qos
  /\ \A z : z # id => (Has(c, z) <=> Has(t, z))

LEMMA TouchedSelf ==
  ASSUME NEW t \in Table(InCount, InIds), Distinct(t), \A x \in Recs(t) : InFits(x), NEW id
  PROVE  Touched(t, t, id)
  BY DEF Touched

LEMMA TouchedDrop ==
  ASSUME NEW t \in Table(InCount, InIds), Distinct(t), \A x \in Recs(t) : InFits(x),
         NEW i \in Used(t), NEW id, t[i].id = id, NEW c, c = Put(t, i, Empty)
  PROVE  Touched(t, c, id) /\ ~ Has(c, id)
<1> DEFINE u == t[i]
<1>1. InCount \in Nat /\ 0 \notin InIds BY NoZero, QosConstants
<1>2. c \in Table(InCount, InIds) /\ Distinct(c) /\ Recs(c) = Recs(t) \ {u} /\ ~ Has(c, id)
  BY <1>1, DropRecs
<1>3. u \in Recs(t) /\ u.id = id BY DEF Recs
<1> HIDE DEF u
<1>4. \A z : z # id => (Has(c, z) <=> Has(t, z)) BY <1>2, <1>3 DEF Has
<1> QED BY <1>2, <1>4 DEF Touched

LEMMA TouchedPut ==
  ASSUME NEW t \in Table(InCount, InIds), Distinct(t), \A x \in Recs(t) : InFits(x),
         NEW i \in Used(t), NEW id, t[i].id = id, t[i].qos = 2,
         NEW st \in {"PubRelPending", "PubCompSend"},
         NEW c, c = Put(t, i, InState(t[i], st))
  PROVE  /\ Touched(t, c, id) /\ Has(c, id)
         /\ \A x \in Recs(c) : x.id = id => x.st = st
<1> DEFINE u == t[i]
           v == InState(t[i], st)
<1>1. InCount \in Nat /\ 0 \notin InIds BY NoZero, QosConstants
<1>2. u \in [id: InIds, qos: {1, 2}, st: PublishState \ {"Null", "PublishDone"}] BY <1>1, Rows
<1>3. v \in Record(InIds) /\ v.id = id /\ v.qos = 2 /\ v.st = st /\ u.qos = 2 /\ u.id = id
  BY <1>2 DEF Record, PublishState, InState
<1>4. InFits(v) BY <1>3 DEF InFits
<1>5. c = Put(t, i, v) /\ t[i].id = v.id BY <1>3
<1> HIDE DEF v
<1>6. c \in Table(InCount, InIds) /\ Distinct(c) /\ Recs(c) = (Recs(t) \ {u}) \cup {v}
  BY <1>1, <1>3, <1>5, PutRecs
<1>7. u \in Recs(t) BY DEF Recs
<1> HIDE DEF u
<1>8. \A z : z # id => (Has(c, z) <=> Has(t, z)) BY <1>3, <1>6, <1>7 DEF Has
<1>9. \A x \in Recs(c) : \E y \in Recs(t) : y.id = x.id /\ y.qos = x.qos
  BY <1>3, <1>6, <1>7
<1>10. v \in Recs(c) BY <1>6
<1>11. \A x \in Recs(c) : x.id = id => x = v BY <1>3, <1>6, <1>10 DEF Distinct, Recs
<1>12. Touched(t, c, id) /\ Has(c, id) BY <1>3, <1>4, <1>6, <1>8, <1>9, <1>10 DEF Touched, Has
<1> QED BY <1>3, <1>11, <1>12

LEMMA AckTouches ==
  ASSUME NEW t \in Table(InCount, InIds), Distinct(t), \A x \in Recs(t) : InFits(x),
         NEW out, NEW id \in Ids, NEW type \in Acks
  PROVE  LET r == MQTT_UpdateStateAck(out, t, id, type, "SEND")
         IN /\ r.out = out /\ Touched(t, r.in, id)
            /\ type = "PUBREC" /\ Has(t, id) => Has(r.in, id)
            /\ type = "PUBACK" /\ (\A x \in Recs(t) : x.id = id => x.qos = 1) => ~ Has(r.in, id)
            /\ type = "PUBCOMP" /\ (\A x \in Recs(t) : x.id = id => x.st = "PubCompSend") => ~ Has(r.in, id)
<1> DEFINE r == MQTT_UpdateStateAck(out, t, id, type, "SEND")
           c == r.in
<1>1. InCount \in Nat BY QosConstants
<1>2. /\ r.out = out
      /\ \/ c = t /\ \A x \in Recs(t) : x.id = id =>
                 (type = "PUBACK" => x.qos # 1) /\ (type = "PUBCOMP" => x.st # "PubCompSend")
         \/ \E i \in Used(t) :
              /\ t[i].id = id
              /\ \/ type = "PUBACK" /\ t[i].qos = 1 /\ c = Put(t, i, Empty)
                 \/ type = "PUBCOMP" /\ t[i].st = "PubCompSend" /\ c = Put(t, i, Empty)
                 \/ /\ type = "PUBREC" /\ t[i].st = "PubRecSend"
                    /\ c = Put(t, i, InState(t[i], "PubRelPending"))
  BY <1>1, AckSent
<1> HIDE DEF c
<1>3. CASE c = t /\ \A x \in Recs(t) : x.id = id =>
                 (type = "PUBACK" => x.qos # 1) /\ (type = "PUBCOMP" => x.st # "PubCompSend")
  <2>1. Touched(t, c, id) BY <1>3, TouchedSelf
  <2>2. (type = "PUBACK" /\ \A x \in Recs(t) : x.id = id => x.qos = 1) => ~ Has(c, id)
    BY <1>3 DEF Has
  <2>3. (type = "PUBCOMP" /\ \A x \in Recs(t) : x.id = id => x.st = "PubCompSend") => ~ Has(c, id)
    BY <1>3 DEF Has
  <2> QED BY <1>2, <1>3, <2>1, <2>2, <2>3 DEF c
<1>4. ASSUME NEW i \in Used(t), t[i].id = id, type \in {"PUBACK", "PUBCOMP"}, c = Put(t, i, Empty)
      PROVE  Touched(t, c, id) /\ ~ Has(c, id)
  BY <1>4, TouchedDrop
<1>5. ASSUME NEW i \in Used(t), t[i].id = id, type = "PUBREC", t[i].st = "PubRecSend",
             c = Put(t, i, InState(t[i], "PubRelPending"))
      PROVE  Touched(t, c, id) /\ Has(c, id)
  <2>1. InFits(t[i]) /\ t[i].qos \in {1, 2}
    <3>1. 0 \notin InIds BY NoZero
    <3>2. t[i].qos \in {1, 2} BY <1>1, <3>1, Rows
    <3> QED BY <3>2 DEF Recs
  <2>2. t[i].qos = 2 BY <1>5, <2>1 DEF InFits
  <2>3. "PubRelPending" \in {"PubRelPending", "PubCompSend"} OBVIOUS
  <2> QED BY <1>5, <2>2, <2>3, TouchedPut
<1>6. CASE \E i \in Used(t) :
              /\ t[i].id = id
              /\ \/ type = "PUBACK" /\ t[i].qos = 1 /\ c = Put(t, i, Empty)
                 \/ type = "PUBCOMP" /\ t[i].st = "PubCompSend" /\ c = Put(t, i, Empty)
                 \/ /\ type = "PUBREC" /\ t[i].st = "PubRecSend"
                    /\ c = Put(t, i, InState(t[i], "PubRelPending"))
  <2>1. Touched(t, c, id) /\ (type = "PUBREC" => Has(c, id)) /\ (type # "PUBREC" => ~ Has(c, id))
    BY <1>4, <1>5, <1>6
  <2> QED BY <1>2, <2>1 DEF c
<1> QED BY <1>2, <1>3, <1>6

\* The packets after a PUBLISH or PUBREL has been read: the answer q to it is
\* on its way, or none is.
Answered(n, k, q) ==
  /\ q \in Packet /\ q.type \in Acks /\ q.id = Head(n.b2c).id
  /\ k.b2c = Tail(n.b2c) /\ k.c2b = Append(n.c2b, q)

\* The in table and the application after it: what concerns the entry t.
SettledIn(t, c) ==
  /\ c \in Table(InCount, InIds) /\ Distinct(c) /\ \A x \in Recs(c) : InFits(x)
  /\ \A z : z # t.id => (Has(c, z) <=> Has(cli.in, z))
  /\ \A x \in Recs(c) : x.id # t.id => \E y \in Recs(cli.in) : y.id = x.id /\ y.qos = x.qos
  /\ ~app.astray => \A x \in Recs(c) : x.id = t.id => x.qos = QosOf(t.m)
  /\ ~app.astray /\ ~t.rel /\ t.m \notin Qos1 => Has(c, t.id)
SettledApp(t) ==
  /\ ToSet(app.got) \subseteq ToSet(app'.got) /\ ToSet(app'.got) \subseteq ToSet(app.got) \cup {t.m}
  /\ ~app.astray => Taking(t.m)' /\ app'.twice \subseteq Qos1
  /\ app'.lost = app.lost /\ app'.astray = app.astray

LEMMA InSettled ==
  ASSUME QosInv, brk' = brk, net.b2c # <<>>, Head(net.b2c).type \in Orders,
         NEW t \in Tx, t.id = Head(net.b2c).id, SettledIn(t, cli'.in), SettledApp(t),
         \/ InNet(net, net')
         \/ \E q : /\ Answered(net, net', q)
                   /\ (q.type = "PUBACK" <=> t.m \in Qos1) /\ (q.type = "PUBCOMP" <=> t.rel)
                   /\ ~app.astray /\ q.type # "PUBREC" => ~ Has(cli'.in, t.id)
  PROVE  InInv'
<1> DEFINE c == cli'.in
           in == cli.in
           id == t.id
<1>1. Tx' = Tx /\ brk'.tx = brk.tx /\ brk'.sent = brk.sent /\ brk'.sess = brk.sess BY DEF Tx
<1>2. /\ c \in Table(InCount, InIds) /\ Distinct(c) /\ \A x \in Recs(c) : InFits(x)
      /\ \A z : z # id => (Has(c, z) <=> Has(in, z))
      /\ \A x \in Recs(c) : x.id # id => \E y \in Recs(in) : y.id = x.id /\ y.qos = x.qos
      /\ ~app.astray => \A x \in Recs(c) : x.id = id => x.qos = QosOf(t.m)
      /\ ~app.astray /\ ~t.rel /\ t.m \notin Qos1 => Has(c, id)
  BY DEF SettledIn
<1>3. /\ \A m : Taking(m) => Taking(m)'
      /\ \A m : Taking(m)' => Taking(m) \/ m = t.m
      /\ ~app.astray => Taking(t.m)'
  BY DEF SettledApp, Taking
<1>4. Sending'
  <2>1. \A i, j \in DOMAIN brk.tx : brk.tx[i].id = brk.tx[j].id \/ brk.tx[i].m = brk.tx[j].m => i = j
    BY DEF QosInv, InInv, Sending
  <2>2. \A u \in Tx : u.m \in brk.sent /\ (u.rel => u.m \notin Qos1) BY DEF QosInv, InInv, Sending
  <2>3. ToSet(app'.got) \subseteq brk.sent BY <2>2 DEF QosInv, InInv, Sending, SettledApp
  <2> QED BY <1>1, <1>2, <2>1, <2>2, <2>3 DEF Sending
<1> DEFINE F == Fwd(net.b2c)
           B == Back(net.c2b)
           F1 == Fwd(net'.b2c)
           B1 == Back(net'.c2b)
<1>5. net.b2c \in Seq(Packet) /\ net.c2b \in Seq(Packet) /\ OnePacket(net.b2c, net.c2b)
  BY Types DEF QosInv, InInv, InPackets
<1>6. Head(net.b2c) \in F /\ \A q \in B : q.id # id
  BY <1>5, TailKinds DEF OnePacket
<1>7. \A p \in F : \E u \in Tx : u.id = p.id /\ IF p.type = "PUBLISH" THEN u.m = p.m /\ ~u.rel ELSE u.rel
  BY DEF QosInv, InInv, InPackets
<1>8. \A p \in B : \E u \in Tx :
       /\ u.id = p.id /\ (p.type = "PUBACK" <=> u.m \in Qos1) /\ (p.type = "PUBCOMP" <=> u.rel)
       /\ ~app.astray => Taking(u.m) /\ (p.type # "PUBREC" => ~ Has(in, p.id))
  BY DEF QosInv, InInv, InPackets
<1>9. /\ OnePacket(net'.b2c, net'.c2b) /\ F1 \subseteq F
      /\ \A q \in B1 : \/ q \in B
                       \/ /\ q.id = id /\ (q.type = "PUBACK" <=> t.m \in Qos1) /\ (q.type = "PUBCOMP" <=> t.rel)
                          /\ ~app.astray /\ q.type # "PUBREC" => ~ Has(c, id)
  <2>1. CASE InNet(net, net') BY <1>5, <2>1 DEF InNet
  <2>2. ASSUME NEW q, Answered(net, net', q), q.type = "PUBACK" <=> t.m \in Qos1,
               q.type = "PUBCOMP" <=> t.rel, ~app.astray /\ q.type # "PUBREC" => ~ Has(c, id)
        PROVE  /\ OnePacket(net'.b2c, net'.c2b) /\ F1 \subseteq F /\ B1 = B \cup {q} /\ q.id = id
    <3>1. q \in Packet /\ q.type \in Acks /\ q.id = id BY <2>2 DEF Answered
    <3>2. net'.b2c = Tail(net.b2c) /\ net'.c2b = Append(net.c2b, q) BY <2>2 DEF Answered
    <3>3. OnePacket(Tail(net.b2c), Append(net.c2b, q)) BY <1>5, <3>1, OneAnswered
    <3>4. Fwd(Tail(net.b2c)) \subseteq F BY <1>5, TailKinds
    <3>5. Back(Append(net.c2b, q)) = B \cup {q} BY <1>5, <3>1, AppendKinds
    <3> QED BY <3>1, <3>2, <3>3, <3>4, <3>5
  <2> QED BY <2>1, <2>2
<1> HIDE DEF c, in, id, F, B, F1, B1
<1>10. \A p \in F1 : \E u \in Tx : u.id = p.id /\ IF p.type = "PUBLISH" THEN u.m = p.m /\ ~u.rel ELSE u.rel
  BY <1>7, <1>9
<1>11. ASSUME NEW p \in B1
       PROVE  \E u \in Tx :
                /\ u.id = p.id /\ (p.type = "PUBACK" <=> u.m \in Qos1) /\ (p.type = "PUBCOMP" <=> u.rel)
                /\ ~app.astray => Taking(u.m)' /\ (p.type # "PUBREC" => ~ Has(c, p.id))
  <2>1. CASE p \in B
    <3>1. PICK u \in Tx :
            /\ u.id = p.id /\ (p.type = "PUBACK" <=> u.m \in Qos1) /\ (p.type = "PUBCOMP" <=> u.rel)
            /\ ~app.astray => Taking(u.m) /\ (p.type # "PUBREC" => ~ Has(in, p.id))
      BY <1>8, <2>1
    <3>2. p.id # id BY <1>6, <2>1
    <3> QED BY <1>2, <1>3, <3>1, <3>2
  <2>2. CASE /\ p.id = id /\ (p.type = "PUBACK" <=> t.m \in Qos1) /\ (p.type = "PUBCOMP" <=> t.rel)
             /\ ~app.astray /\ p.type # "PUBREC" => ~ Has(c, id)
    <3>1. t.id = id BY DEF id
    <3> QED BY <1>3, <2>2, <3>1
  <2> QED BY <1>9, <2>1, <2>2
<1>12. InPackets'
  BY <1>1, <1>9, <1>10, <1>11 DEF InPackets, SettledApp, c, F1, B1
<1>13. ASSUME ~app.astray
       PROVE  /\ brk.sess => \A r \in Recs(c) : \E u \in Tx :
                   u.id = r.id /\ r.qos = QosOf(u.m) /\ Taking(u.m)'
              /\ \A u \in Tx : /\ u.rel => Taking(u.m)'
                               /\ ~u.rel /\ Taking(u.m)' /\ u.m \notin Qos1 => Has(c, u.id)
              /\ \A m \in brk.sent \ app.lost : Taking(m)' \/ \E u \in Tx : u.m = m
  <2>1. /\ brk.sess => \A r \in Recs(in) : \E u \in Tx : u.id = r.id /\ r.qos = QosOf(u.m) /\ Taking(u.m)
        /\ \A u \in Tx : /\ u.rel => Taking(u.m)
                         /\ ~u.rel /\ Taking(u.m) /\ u.m \notin Qos1 => Has(in, u.id)
        /\ \A m \in brk.sent \ app.lost : Taking(m) \/ \E u \in Tx : u.m = m
    BY <1>13 DEF QosInv, InInv, Taken, in
  <2>2. t.id = id BY DEF id
  <2>3. ASSUME brk.sess, NEW r \in Recs(c)
        PROVE  \E u \in Tx : u.id = r.id /\ r.qos = QosOf(u.m) /\ Taking(u.m)'
    <3>1. CASE r.id = id BY <1>2, <1>3, <1>13, <2>2, <3>1
    <3>2. CASE r.id # id
      <4>1. PICK y \in Recs(in) : y.id = r.id /\ y.qos = r.qos BY <1>2, <3>2
      <4>2. PICK u \in Tx : u.id = y.id /\ y.qos = QosOf(u.m) /\ Taking(u.m) BY <2>1, <2>3
      <4> QED BY <1>3, <4>1, <4>2
    <3> QED BY <3>1, <3>2
  <2>4. ASSUME NEW u \in Tx, ~u.rel, Taking(u.m)', u.m \notin Qos1 PROVE Has(c, u.id)
    <3>1. CASE u = t BY <1>2, <1>13, <2>2, <2>4, <3>1
    <3>2. CASE u # t
      <4>1. u.id # id /\ u.m # t.m BY <2>2, <3>2, TxUnique
      <4>2. Taking(u.m) BY <1>3, <2>4, <4>1
      <4> QED BY <1>2, <2>1, <2>4, <4>1, <4>2
    <3> QED BY <3>1, <3>2
  <2> QED BY <1>3, <2>1, <2>3, <2>4
<1>14. Taken' BY <1>1, <1>13 DEF Taken, SettledApp, c
<1> QED BY <1>4, <1>12, <1>14 DEF InInv

-----------------------------------------------------------------------------
(* MQTT_ProcessLoop                                                        *)

\* The client is c when it has read a packet, and answers with the packet
\* that st calls for.
LEMMA AnswerRead ==
  ASSUME QosInv, net.b2c # <<>>, cli.pc = "idle", cli.conn # "NotConnected", ~cli.bad,
         UNCHANGED <<cb, brk, expiries>>,
         NEW c \in Client, c.pc = "idle", c.conn = cli.conn,
         NEW id \in Ids, NEW st \in DOMAIN AckTypeToSend,
         AckResult(c, id, st).out \in Table(OutCount, Ids),
         AckResult(c, id, st).in \in Table(InCount, InIds),
         NEW o \in PublishAcks(c, Read, id, st), Returns(o)
  PROVE  /\ Handler(o)
         /\ \/ /\ o.c.out = c.out /\ o.c.in = c.in
               /\ OutNet(net, o.n) /\ InNet(net, o.n) /\ OutNet(Read, o.n)
            \/ /\ o.c.out = AckResult(c, id, st).out /\ o.c.in = AckResult(c, id, st).in
               /\ o.n = WithSent(Read, AckPacket(id, st)) /\ net.up
<1> DEFINE k == Read
           r == AckResult(c, id, st)
           q == AckPacket(id, st)
<1>1. net \in Network BY DEF QosInv, QosTypeOK
<1>2. k \in Network /\ OutNet(net, k) /\ InNet(net, k) /\ k.up = net.up BY <1>1, NetRead DEF Read, Network
<1>3. AckTypeToSend[st] \in Type BY AckTypes DEF Type
<1>4. q \in Packet BY <1>3, PktIs DEF AckPacket
<1>5. \/ o.c = c /\ o.n = k /\ o.ok = FALSE
      \/ /\ o.c = Loses(c) /\ o.n = Broken(k) /\ o.ok = FALSE
         /\ k.up => drops # MaxDrops
      \/ /\ o.c = WithTables(c, r)
         /\ o.n = WithSent(k, q)
         /\ o.ok = (r.status = "Success") /\ k.up /\ c.conn = "Connected"
  BY <1>2, AckOutcomes
<1>0. r.out \in Table(OutCount, Ids) /\ r.in \in Table(InCount, InIds) OBVIOUS
<1> HIDE DEF k, q, r
<1>6. CASE o.c = c /\ o.n = k /\ o.ok = FALSE
  <2>1. Handler(o) BY <1>2, <1>6 DEF Handler
  <2>2. OutNet(k, k) BY NetTrans
  <2> QED BY <1>2, <1>6, <2>1, <2>2 DEF k
<1>7. CASE /\ o.c = Loses(c) /\ o.n = Broken(k) /\ o.ok = FALSE
           /\ k.up => drops # MaxDrops
  <2>1. /\ o.c \in Client /\ o.c.pc = "idle" /\ o.c.conn = "DisconnectPending"
        /\ o.c.out = c.out /\ o.c.in = c.in
    BY <1>7 DEF Client, Loses
  <2>2. o.n \in Network /\ OutNet(k, o.n) /\ InNet(k, o.n) /\ ~o.n.up BY <1>2, <1>7, NetBroken
  <2>3. OutNet(net, o.n) /\ InNet(net, o.n) BY <1>2, <2>2, NetTrans
  <2>4. Handler(o) BY <1>2, <1>7, <2>1, <2>2 DEF Handler
  <2> QED BY <2>1, <2>2, <2>3, <2>4 DEF k
<1>8. CASE /\ o.c = WithTables(c, r)
           /\ o.n = WithSent(k, q)
           /\ o.ok = (r.status = "Success") /\ k.up /\ c.conn = "Connected"
  <2>1. /\ o.c \in Client /\ o.c.pc = "idle" /\ o.c.conn = cli.conn
        /\ o.c.out = r.out /\ o.c.in = r.in
    BY <1>0, <1>8 DEF Client, Table, WithTables
  <2>2. o.n \in Network /\ o.n.up = k.up
    <3>1. Append(k.c2b, q) \in Seq(Packet) BY <1>2, <1>4, AppendKinds DEF Network
    <3> QED BY <1>2, <1>8, <3>1 DEF Network, WithSent
  <2>3. o.ok \in BOOLEAN BY <1>8
  <2>4. Handler(o) BY <1>2, <2>1, <2>2, <2>3 DEF Handler
  <2> QED BY <1>2, <1>8, <2>1, <2>4 DEF k, q, r
<1> QED BY <1>5, <1>6, <1>7, <1>8

\* handleIncomingPublish, in these terms.
PublishReads(id, m, c) ==
  LET r == PublishResult(id, m)
  IN \/ /\ r.status \in {"Success", "StateCollision"} /\ app' = PublishApp(id, m)
        /\ \E o \in PublishAcks(c, Read, id, InNew(id, m).st) : Returns(o)
     \/ /\ r.status \notin {"Success", "StateCollision"} /\ app' = app
        /\ Returns([ok |-> FALSE, c |-> c, n |-> Read])

LEMMA PublishReadsIs ==
  ASSUME QosInv, ReceivePublish
  PROVE  /\ cli.pc = "idle" /\ cli.conn # "NotConnected" /\ ~cli.bad /\ net.b2c # <<>>
         /\ Head(net.b2c).type = "PUBLISH" /\ UNCHANGED <<cb, brk, expiries>>
         /\ LET id == Head(net.b2c).id
                m == Head(net.b2c).m
                c == [cli EXCEPT !.in = PublishResult(id, m).in]
            IN /\ PublishReads(id, m, c)
               /\ c \in Client /\ c.out = cli.out /\ c.in = PublishResult(id, m).in
               /\ c.pc = cli.pc /\ c.conn = cli.conn
               /\ PublishResult(id, m).in \in Table(InCount, InIds)
<1> DEFINE p == Head(net.b2c)
           id == p.id
           m == p.m
           r == PublishResult(id, m)
           new == InNew(id, m)
           in == cli.in
           out == cli.out
           known == r.status = "StateCollision"
           c == [cli EXCEPT !.in = r.in]
<1>1. /\ cli.pc = "idle" /\ cli.conn # "NotConnected" /\ ~cli.bad /\ net.b2c # <<>>
      /\ p.type = "PUBLISH" /\ UNCHANGED <<cb, brk, expiries>>
  BY DEF ReceivePublish, Reading
<1>2. id \in InIds /\ m \in In BY <1>1, HeadPublish
<1>3. in \in Table(InCount, InIds) /\ Distinct(in) BY Types DEF QosInv, InInv, Sending
<1>4. r = MQTT_UpdateStatePublish(out, in, id, "RECEIVE", QosOf(m)) BY DEF PublishResult
<1>5. IF r.status = "Success" \/ known
      THEN /\ app' = PublishApp(id, m)
           /\ \E o \in PublishAcks(c, Read, id,
                         IF known THEN CalculateStatePublish("RECEIVE", QosOf(m)) ELSE r.new) : Returns(o)
      ELSE Returns([ok |-> FALSE, c |-> c, n |-> Read]) /\ UNCHANGED app
  BY DEF ReceivePublish, PublishResult, PublishApp
<1>6. cli \in Client BY DEF QosInv, QosTypeOK
<1> HIDE DEF r, in, out, p, id, m, new
<1>7. /\ r.in \in Table(InCount, InIds)
      /\ r.status = "Success" => r.new = new.st
      /\ CalculateStatePublish("RECEIVE", QosOf(m)) = new.st
  BY <1>2, <1>3, <1>4, PublishTaken DEF new
<1>8. c \in Client /\ c.out = cli.out /\ c.in = r.in /\ c.pc = cli.pc /\ c.conn = cli.conn
  BY <1>6, <1>7 DEF Client, Table
<1> HIDE DEF c
<1>9. CASE r.status = "Success" \/ known
  <2>1. (IF known THEN CalculateStatePublish("RECEIVE", QosOf(m)) ELSE r.new) = new.st BY <1>7, <1>9
  <2>2. app' = PublishApp(id, m) /\ \E o \in PublishAcks(c, Read, id, new.st) : Returns(o)
    BY <1>5, <1>9, <2>1
  <2>3. PublishReads(id, m, c) BY <1>9, <2>2 DEF PublishReads, r, new
  <2> QED BY <1>1, <1>7, <1>8, <2>3 DEF p, id, m, c, r
<1>10. CASE ~ (r.status = "Success" \/ known)
  <2>1. PublishReads(id, m, c) BY <1>5, <1>10 DEF PublishReads, r
  <2> QED BY <1>1, <1>7, <1>8, <2>1 DEF p, id, m, c, r
<1> QED BY <1>9, <1>10

LEMMA RecordedSettles ==
  ASSUME NEW t, NEW id, NEW m, t.id = id, t.m = m, NEW tab, Recorded(tab, id, m, app'),
         NEW c, Touched(tab, c, id), m \notin Qos1 => Has(c, id)
  PROVE  SettledIn(t, c) /\ SettledApp(t)
<1> DEFINE in == cli.in
<1>1. /\ \A x \in Recs(tab) : x \in Recs(in) \/ x.id = id
      /\ \A x \in Recs(in) : x \in Recs(tab)
      /\ Has(tab, id)
      /\ ~app.astray => \A x \in Recs(tab) : x.id = id => x.qos = QosOf(m)
  BY DEF Recorded
<1>2. SettledApp(t)
  BY DEF Recorded, SettledApp, Taking
<1>3. /\ c \in Table(InCount, InIds) /\ Distinct(c) /\ \A x \in Recs(c) : InFits(x)
      /\ \A x \in Recs(c) : \E y \in Recs(tab) : y.id = x.id /\ y.qos = x.qos
      /\ \A z : z # id => (Has(c, z) <=> Has(tab, z))
  BY DEF Touched
<1> HIDE DEF in
<1>4. \A z : z # id => (Has(c, z) <=> Has(in, z)) BY <1>1, <1>3 DEF Has
<1>5. \A x \in Recs(c) : x.id # id => \E y \in Recs(in) : y.id = x.id /\ y.qos = x.qos
  <2> TAKE x \in Recs(c)
  <2> HAVE x.id # id
  <2>1. PICK y \in Recs(tab) : y.id = x.id /\ y.qos = x.qos BY <1>3
  <2> QED BY <1>1, <2>1
<1>6. ~app.astray => \A x \in Recs(c) : x.id = id => x.qos = QosOf(m)
  BY <1>1, <1>3
<1>7. SettledIn(t, c) BY <1>3, <1>4, <1>5, <1>6 DEF SettledIn, in
<1> QED BY <1>2, <1>7

LEMMA ReceivePublishKeeps ==
  ASSUME QosInv, ReceivePublish
  PROVE  QosInv'
<1> DEFINE id == Head(net.b2c).id
           m == Head(net.b2c).m
           res == PublishResult(id, m)
           tab == res.in
           c == [cli EXCEPT !.in = PublishResult(id, m).in]
           st == InNew(id, m).st
           ack == AckResult(c, id, st)
           after == ack.in
           q == AckPacket(id, st)
<1>1. /\ cli.pc = "idle" /\ cli.conn # "NotConnected" /\ ~cli.bad /\ net.b2c # <<>>
      /\ Head(net.b2c).type = "PUBLISH" /\ UNCHANGED <<cb, brk, expiries>>
      /\ PublishReads(id, m, c)
      /\ c \in Client /\ c.out = cli.out /\ c.in = tab /\ c.pc = cli.pc /\ c.conn = cli.conn
      /\ tab \in Table(InCount, InIds)
  BY PublishReadsIs
<1>2. /\ id \in InIds /\ id \in Ids /\ m \in In /\ brk.sess /\ Head(net.b2c).id = id
      /\ \E t \in Tx : t.id = id /\ t.m = m /\ ~t.rel
  BY <1>1, HeadPublish
<1>3. PICK t \in Tx : t.id = id /\ t.m = m /\ ~t.rel BY <1>2
<1>4. QosTypeOK /\ Connection /\ OutInv /\ InInv /\ brk' = brk /\ cb' = cb BY <1>1 DEF QosInv
<1>5. cli.out \in Table(OutCount, Ids) /\ OutCount \in Nat /\ InCount \in Nat /\ 0 \notin Ids /\ 0 \notin InIds
  BY <1>4, Types, NoZero
<1>6. Keeps(cli.out, cli.out) BY <1>5, KeepsSelf
<1>7. net \in Network BY <1>4 DEF QosTypeOK
<1>8. Read \in Network /\ OutNet(net, Read) /\ InNet(net, Read) BY <1>1, <1>7, NetRead DEF Read
<1>9. /\ st = IF m \in Qos1 THEN "PubAckSend" ELSE "PubRecSend"
      /\ st \in DOMAIN AckTypeToSend
      /\ AckTypeToSend[st] = IF m \in Qos1 THEN "PUBACK" ELSE "PUBREC"
      /\ AckTypeToSend[st] \in Acks /\ AckTypeToSend[st] \in Type
  BY AckTypes DEF InNew, QosOf, Acks, Type
<1>10. /\ q \in Packet /\ q.type = AckTypeToSend[st] /\ q.id = id BY <1>2, <1>9, PktIs DEF AckPacket
<1>11. ack = MQTT_UpdateStateAck(cli.out, tab, id, AckTypeToSend[st], "SEND") BY <1>1 DEF AckResult
<1> HIDE DEF st, q, ack, tab, c
<1>12. ASSUME res.status \in {"Success", "StateCollision"}, app' = PublishApp(id, m),
              NEW o \in PublishAcks(c, Read, id, st), Returns(o)
       PROVE  QosInv'
  <2>1. Recorded(tab, id, m, app') BY <1>2, <1>3, <1>12, RecordsPublish DEF tab
  <2>2. /\ app' \in Application /\ tab \in Table(InCount, InIds) /\ Distinct(tab)
        /\ \A r \in Recs(tab) : InFits(r)
        /\ app'.own = app.own /\ app'.kept = app.kept /\ app'.pub = app.pub /\ app'.done = app.done
        /\ app'.astray = app.astray /\ Has(tab, id)
        /\ ~app.astray => \A r \in Recs(tab) : r.id = id => r.qos = QosOf(m)
    BY <2>1 DEF Recorded
  <2>3. /\ ack.out = cli.out /\ Touched(tab, ack.in, id)
        /\ AckTypeToSend[st] = "PUBREC" /\ Has(tab, id) => Has(ack.in, id)
        /\ AckTypeToSend[st] = "PUBACK" /\ (\A x \in Recs(tab) : x.id = id => x.qos = 1) => ~ Has(ack.in, id)
    <3>1. /\ ack.out = cli.out /\ Touched(tab, ack.in, id) BY <1>2, <1>9, <1>11, <2>2, AckTouches
    <3>2. AckTypeToSend[st] = "PUBREC" /\ Has(tab, id) => Has(ack.in, id)
      BY <1>2, <1>9, <1>11, <2>2, AckTouches
    <3>3. AckTypeToSend[st] = "PUBACK" /\ (\A x \in Recs(tab) : x.id = id => x.qos = 1) => ~ Has(ack.in, id)
      BY <1>2, <1>9, <1>11, <2>2, AckTouches
    <3> QED BY <3>1, <3>2, <3>3
  <2>4. ack.in \in Table(InCount, InIds) BY <2>3 DEF Touched
  <2>5. /\ Handler(o)
        /\ \/ /\ o.c.out = cli.out /\ o.c.in = tab /\ OutNet(net, o.n) /\ InNet(net, o.n)
           \/ /\ o.c.out = cli.out /\ o.c.in = ack.in /\ o.n = WithSent(Read, q) /\ net.up
    BY <1>1, <1>2, <1>5, <1>9, <1>12, <2>3, <2>4, AnswerRead DEF ack, q
  <2>6. /\ QosTypeOK' /\ Connection' /\ cli'.out = o.c.out /\ cli'.in = o.c.in /\ net' = o.n /\ ClientStays
    BY <1>4, <2>2, <2>5, HandlerReturns
  <2>7. OutNet(net, net')
    <3>1. CASE OutNet(net, o.n) BY <2>6, <3>1
    <3>2. CASE o.n = WithSent(Read, q)
      <4>1. OutNet(Read, o.n) BY <1>8, <1>9, <1>10, <3>2, NetSends DEF WithSent
      <4> QED BY <1>8, <2>6, <4>1, NetTrans
    <3> QED BY <2>5, <3>1, <3>2
  <2>8. OutInv'
    <3>1. OutSame BY <1>1, <2>2 DEF OutSame
    <3>2. cli'.out = cli.out BY <2>5, <2>6
    <3> QED BY <1>4, <1>5, <1>6, <2>6, <2>7, <3>1, <3>2, OutQuiet
  <2>9. InInv'
    <3>1. Head(net.b2c).type \in Orders BY <1>1, KindsOf
    <3>2. Touched(tab, tab, id) BY <2>2, TouchedSelf
    <3>3. SettledIn(t, tab) /\ SettledApp(t) BY <1>3, <2>1, <2>2, <3>2, RecordedSettles
    <3>4. CASE o.c.in = tab /\ InNet(net, o.n)
      BY <1>1, <1>2, <1>3, <1>4, <2>6, <3>1, <3>3, <3>4, InSettled
    <3>5. CASE o.c.in = ack.in /\ o.n = WithSent(Read, q)
      <4>1. m \notin Qos1 => Has(ack.in, id) BY <1>9, <2>2, <2>3
      <4>2. SettledIn(t, ack.in) BY <1>3, <2>1, <2>3, <4>1, RecordedSettles
      <4>3. ~app.astray /\ q.type # "PUBREC" => ~ Has(ack.in, id)
        BY <1>9, <1>10, <2>2, <2>3 DEF QosOf
      <4>4. Answered(net, net', q)
        BY <1>2, <1>7, <1>9, <1>10, <2>6, <3>5 DEF Answered, WithSent, Read, Network
      <4>5. (q.type = "PUBACK" <=> t.m \in Qos1) /\ (q.type = "PUBCOMP" <=> t.rel)
        BY <1>3, <1>9, <1>10
      <4> QED BY <1>1, <1>2, <1>3, <1>4, <2>6, <3>1, <3>3, <3>5, <4>2, <4>3, <4>4, <4>5, InSettled
    <3> QED BY <2>5, <3>4, <3>5
  <2> QED BY <2>6, <2>8, <2>9 DEF QosInv
<1>13. ASSUME res.status \notin {"Success", "StateCollision"}, app' = app,
              NEW o, o = [ok |-> FALSE, c |-> c, n |-> Read], Returns(o)
       PROVE  QosInv'
  <2>1. o.c = c /\ o.n = Read /\ o.ok = FALSE BY <1>13
  <2>2. Handler(o) BY <1>1, <1>7, <1>8, <1>13, <2>1 DEF Handler, Read, Network
  <2>3. app' \in Application BY <1>4, <1>13 DEF QosTypeOK
  <2>4. /\ QosTypeOK' /\ Connection' /\ cli'.out = cli.out /\ cli'.in = tab /\ net' = Read /\ ClientStays
    BY <1>1, <1>4, <2>1, <2>2, <2>3, HandlerReturns
  <2>5. Keeps(cli.in, tab)
    <3> DEFINE in == cli.in
               out == cli.out
    <3>1. in \in Table(InCount, InIds) /\ Distinct(in) BY <1>4, Types DEF InInv, Sending
    <3>2. res = MQTT_UpdateStatePublish(out, in, id, "RECEIVE", QosOf(m)) BY DEF PublishResult
    <3> HIDE DEF in, out, res
    <3>3. Keeps(in, res.in) BY <1>2, <1>13, <3>1, <3>2, PublishTaken
    <3> QED BY <3>3 DEF in, tab
  <2>6. OutInv'
    <3>1. OutSame BY <1>1, <1>13 DEF OutSame
    <3> QED BY <1>4, <1>5, <1>6, <1>8, <2>4, <3>1, OutQuiet
  <2>7. InInv'
    <3>1. InSame BY <1>1, <1>13 DEF InSame
    <3> QED BY <1>1, <1>4, <1>8, <2>4, <2>5, <3>1, InQuiet
  <2> QED BY <2>4, <2>6, <2>7 DEF QosInv
<1>14. \/ /\ res.status \in {"Success", "StateCollision"} /\ app' = PublishApp(id, m)
          /\ \E o \in PublishAcks(c, Read, id, st) : Returns(o)
       \/ /\ res.status \notin {"Success", "StateCollision"} /\ app' = app
          /\ Returns([ok |-> FALSE, c |-> c, n |-> Read])
  BY <1>1 DEF PublishReads, st
<1> HIDE DEF id, m, res
<1> QED BY <1>12, <1>13, <1>14

-----------------------------------------------------------------------------
(* Acknowledgements                                                        *)

\* c is the out table after the record of id has gone, or has become one of
\* a PUBREL.
OutTouched(c, id) ==
  /\ c \in Table(OutCount, Ids) /\ Distinct(c)
  /\ \A x : x.id # id => (x \in Recs(c) <=> x \in Recs(cli.out))
  /\ \A x \in Recs(c) : x.id = id => x.st \in Late /\ x.qos = 2
  /\ \A j, k \in Used(c) : j < k /\ c[j].id # id /\ c[k].id # id =>
       \E i, l \in Used(cli.out) : i < l /\ c[j] = cli.out[i] /\ c[k] = cli.out[l]

\* What the application and the network become: the message of id is
\* delivered, and id perhaps free again; a PUBREL for it perhaps on its way.
AppAcked(c, id) ==
  /\ DOMAIN app'.own = Ids /\ \A z \in Ids : z # id => app'.own[z] = app.own[z]
  /\ IF Has(c, id) THEN app'.own[id] = app.own[id] /\ app.own[id] # 0 /\ QosOf(app.own[id]) = 2
     ELSE app'.own[id] = 0 /\ id \notin brk.rx
  /\ \A z \in app.kept : z # id => z \in app'.kept
  /\ app'.done \subseteq app.done \cup {app.own[id]} /\ Delivered(id)
  /\ app'.pub = app.pub /\ app'.astray = app.astray
NetAcked(c, id) ==
  /\ OnePacket(net'.c2b, net'.b2c)
  /\ \A p \in Fwd(net'.c2b) :
       \/ p \in Fwd(net.c2b) /\ p.id # id
       \/ p.type = "PUBREL" /\ p.id = id /\ StateIn(c, id, {"PubCompPending"})
  /\ Fwd(net'.c2b) = {} \/ Fwd(net.c2b) \subseteq Fwd(net'.c2b)
  /\ net'.up => net.up /\ Fwd(net.c2b) \subseteq Fwd(net'.c2b)
  /\ \A p \in Back(net'.b2c) : p \in Back(net.b2c) /\ p.id # id
  /\ Rising(net.c2b) => Rising(net'.c2b)

LEMMA OutAcked ==
  ASSUME QosInv, NEW id \in Ids, cb' = cb, brk' = brk,
         OutTouched(cli'.out, id), AppAcked(cli'.out, id), NetAcked(cli'.out, id),
         Resending',
         net'.up /\ cli'.conn = "Connected" /\ ~cli'.bad /\ cli'.pc \in {"idle", "publishes"} =>
           cli.conn = "Connected" /\ ~cli.bad /\ cli.pc = "idle" /\ cli'.pc = "idle"
  PROVE  OutInv'
<1> DEFINE c == cli'.out
           out == cli.out
           own == app.own
           own1 == app'.own
           F == Fwd(net.c2b)
           F1 == Fwd(net'.c2b)
           B == Back(net.b2c)
           B1 == Back(net'.b2c)
<1>1. /\ c \in Table(OutCount, Ids) /\ Distinct(c)
      /\ \A x : x.id # id => (x \in Recs(c) <=> x \in Recs(out))
      /\ \A x \in Recs(c) : x.id = id => x.st \in Late /\ x.qos = 2
      /\ \A j, k \in Used(c) : j < k /\ c[j].id # id /\ c[k].id # id =>
           \E i, l \in Used(out) : i < l /\ c[j] = out[i] /\ c[k] = out[l]
  BY DEF OutTouched
<1>2. /\ \A z \in Ids : z # id => own1[z] = own[z]
      /\ Has(c, id) => own1[id] = own[id] /\ own[id] # 0 /\ QosOf(own[id]) = 2
      /\ ~ Has(c, id) => own1[id] = 0 /\ id \notin brk.rx
      /\ \A z \in app.kept : z # id => z \in app'.kept
      /\ app'.done \subseteq app.done \cup {own[id]} /\ own[id] \in ToSet(brk.got)
      /\ app'.pub = app.pub /\ app'.astray = app.astray
  BY DEF AppAcked, Delivered
<1>3. /\ \A z \in Ids : Has(out, z) <=> own[z] # 0
      /\ \A r \in Recs(out) : /\ r.qos = QosOf(own[r.id]) /\ Fits(r.st, own[r.id])
                              /\ r.st \in Unacked => r.id \in app.kept
                              /\ r.st \in Late => own[r.id] \in ToSet(brk.got)
      /\ \A x, y \in Ids : own[x] = own[y] /\ own[x] # 0 => x = y
  BY DEF QosInv, OutInv, Owned, Delivered
<1>4. \A r \in Recs(c) \cup Recs(out) : r.id \in Ids
  <2>1. out \in Table(OutCount, Ids) /\ OutCount \in Nat /\ 0 \notin Ids BY Types, NoZero DEF QosInv
  <2> HIDE DEF c, out
  <2>2. /\ \A i \in Used(c) : c[i] \in [id: Ids, qos: {1, 2}, st: PublishState \ {"Null", "PublishDone"}]
        /\ \A i \in Used(out) : out[i] \in [id: Ids, qos: {1, 2}, st: PublishState \ {"Null", "PublishDone"}]
    BY <1>1, <2>1, Rows
  <2> QED BY <2>2 DEF Recs
<1>5. \A s \in Late : s \notin Unacked BY DEF Late, Unacked
<1>6. brk'.rx = brk.rx /\ brk'.got = brk.got /\ brk'.sess = brk.sess /\ brk'.twice = brk.twice OBVIOUS
<1>7. /\ \A z \in Ids : own[z] \in app.pub \cup {0}
      /\ ToSet(brk.got) \subseteq app.pub /\ app.done \subseteq ToSet(brk.got)
      /\ \A x \in app.pub, y \in Out \ app.pub : x < y
  BY DEF QosInv, OutInv, Published
<1>8. /\ \A p \in F : IF p.type = "PUBLISH" THEN p.m = own[p.id] /\ p.m # 0 /\ StateIn(out, p.id, Unacked)
                      ELSE StateIn(out, p.id, {"PubCompPending"})
      /\ \A p \in B : IF p.type = "PUBCOMP" THEN StateIn(out, p.id, {"PubCompPending"}) /\ p.id \notin brk.rx
                      ELSE /\ StateIn(out, p.id, Unacked) /\ own[p.id] \in ToSet(brk.got)
                           /\ p.type = "PUBACK" <=> own[p.id] \in Qos1
  BY DEF QosInv, OutInv, OutPackets, Delivered
<1>9. /\ \A p \in F1 : \/ p \in F /\ p.id # id
                       \/ p.type = "PUBREL" /\ p.id = id /\ StateIn(c, id, {"PubCompPending"})
      /\ \A p \in B1 : p \in B /\ p.id # id
      /\ F1 = {} \/ F \subseteq F1
      /\ net'.up => net.up /\ F \subseteq F1
      /\ OnePacket(net'.c2b, net'.b2c)
  BY DEF NetAcked
<1>10. /\ \A z \in brk.rx : own[z] # 0 /\ own[z] \notin Qos1 /\ own[z] \in ToSet(brk.got)
       /\ ~app.astray =>
            /\ brk.sess => \A z \in Ids :
                 StateIn(out, z, Unacked) /\ own[z] \in ToSet(brk.got) /\ own[z] \notin Qos1 => z \in brk.rx
            /\ brk.twice \subseteq Qos1
  BY DEF QosInv, OutInv, Received, Delivered
<1>11. brk.rx \subseteq Ids BY DEF QosInv, QosTypeOK, Broker
<1>12. Owned' <=>
         /\ Distinct(c)
         /\ \A z \in Ids : Has(c, z) <=> own1[z] # 0
         /\ \A r \in Recs(c) :
              /\ r.qos = QosOf(own1[r.id]) /\ Fits(r.st, own1[r.id])
              /\ r.st \in Unacked => r.id \in app'.kept
              /\ r.st \in Late => own1[r.id] \in ToSet(brk.got)
         /\ \A x, y \in Ids : own1[x] = own1[y] /\ own1[x] # 0 => x = y
  BY <1>6 DEF Owned, Delivered
<1>13. OutPackets' <=>
         /\ OnePacket(net'.c2b, net'.b2c)
         /\ \A p \in F1 : IF p.type = "PUBLISH" THEN p.m = own1[p.id] /\ p.m # 0 /\ StateIn(c, p.id, Unacked)
                          ELSE StateIn(c, p.id, {"PubCompPending"})
         /\ \A p \in B1 : IF p.type = "PUBCOMP" THEN StateIn(c, p.id, {"PubCompPending"}) /\ p.id \notin brk.rx
                          ELSE /\ StateIn(c, p.id, Unacked) /\ own1[p.id] \in ToSet(brk.got)
                               /\ p.type = "PUBACK" <=> own1[p.id] \in Qos1
  BY <1>6 DEF OutPackets, Delivered
<1>14. Received' <=>
         /\ \A z \in brk.rx : own1[z] # 0 /\ own1[z] \notin Qos1 /\ own1[z] \in ToSet(brk.got)
         /\ ~app.astray =>
            /\ brk.sess => \A z \in Ids :
                 StateIn(c, z, Unacked) /\ own1[z] \in ToSet(brk.got) /\ own1[z] \notin Qos1 => z \in brk.rx
            /\ brk.twice \subseteq Qos1
  BY <1>2, <1>6 DEF Received, Delivered
<1>15. Published' <=>
         /\ \A z \in Ids : own1[z] \in app.pub \cup {0}
         /\ ToSet(brk.got) \subseteq app.pub
         /\ app'.done \subseteq ToSet(brk.got)
         /\ \A x \in app.pub, y \in Out \ app.pub : x < y
  BY <1>2, <1>6 DEF Published
<1>16. cb => FirstInOrder /\ TableOrder /\ QueueOrder BY DEF QosInv, OutInv, Ordered
<1> HIDE DEF c, out, own, own1, F, F1, B, B1
<1>17. \A z : z # id => (Has(c, z) <=> Has(out, z)) BY <1>1 DEF Has
<1>18. \A z, S : z # id => (StateIn(c, z, S) <=> StateIn(out, z, S)) BY <1>1 DEF StateIn
<1>19. \A r \in Recs(c) : r.st \in Unacked => r.id # id /\ r \in Recs(out) /\ own1[r.id] = own[r.id]
  BY <1>1, <1>2, <1>4, <1>5
<1>20. Owned'
  <2>1. \A z \in Ids : Has(c, z) <=> own1[z] # 0 BY <1>2, <1>3, <1>17
  <2>2. ASSUME NEW r \in Recs(c)
        PROVE  /\ r.qos = QosOf(own1[r.id]) /\ Fits(r.st, own1[r.id])
               /\ r.st \in Unacked => r.id \in app'.kept
               /\ r.st \in Late => own1[r.id] \in ToSet(brk.got)
    <3>1. CASE r.id = id
      <4>1. Has(c, id) BY <3>1 DEF Has
      <4>2. own1[id] = own[id] /\ QosOf(own1[id]) = 2 /\ r.st \in Late /\ r.qos = 2 BY <1>1, <1>2, <3>1, <4>1
      <4> QED BY <1>2, <1>5, <3>1, <4>2 DEF Fits
    <3>2. CASE r.id # id
      <4>1. r \in Recs(out) /\ own1[r.id] = own[r.id] BY <1>1, <1>2, <1>4, <3>2
      <4> QED BY <1>2, <1>3, <3>2, <4>1
    <3> QED BY <3>1, <3>2
  <2>3. ASSUME NEW x \in Ids, NEW y \in Ids, own1[x] = own1[y], own1[x] # 0 PROVE x = y
    <3>1. own1[x] = own[x] /\ own1[y] = own[y] BY <1>2, <2>3
    <3> QED BY <1>3, <2>3, <3>1
  <2> QED BY <1>1, <1>12, <2>1, <2>2, <2>3
<1>21. Published'
  <2>1. \A z \in Ids : own1[z] = own[z] \/ own1[z] = 0 BY <1>2
  <2> QED BY <1>2, <1>7, <1>15, <2>1
<1>22. OutPackets'
  <2>1. ASSUME NEW p \in F1
        PROVE  IF p.type = "PUBLISH" THEN p.m = own1[p.id] /\ p.m # 0 /\ StateIn(c, p.id, Unacked)
               ELSE StateIn(c, p.id, {"PubCompPending"})
    <3>1. CASE p \in F /\ p.id # id
      <4>1. \E S : StateIn(out, p.id, S) BY <1>8, <3>1
      <4>2. p.id \in Ids BY <1>4, <4>1 DEF StateIn
      <4> QED BY <1>2, <1>8, <1>18, <3>1, <4>2
    <3>2. CASE p.type = "PUBREL" /\ p.id = id /\ StateIn(c, id, {"PubCompPending"}) BY <3>2
    <3> QED BY <1>9, <3>1, <3>2
  <2>2. ASSUME NEW p \in B1
        PROVE  IF p.type = "PUBCOMP" THEN StateIn(c, p.id, {"PubCompPending"}) /\ p.id \notin brk.rx
               ELSE /\ StateIn(c, p.id, Unacked) /\ own1[p.id] \in ToSet(brk.got)
                    /\ p.type = "PUBACK" <=> own1[p.id] \in Qos1
    <3>1. p \in B /\ p.id # id BY <1>9
    <3>2. \E S : StateIn(out, p.id, S) BY <1>8, <3>1
    <3>3. p.id \in Ids BY <1>4, <3>2 DEF StateIn
    <3> QED BY <1>2, <1>8, <1>18, <3>1, <3>3
  <2> QED BY <1>9, <1>13, <2>1, <2>2
<1>23. Received'
  <2>1. ASSUME NEW z \in brk.rx
        PROVE  own1[z] # 0 /\ own1[z] \notin Qos1 /\ own1[z] \in ToSet(brk.got)
    <3>1. own1[z] = own[z] BY <1>2, <1>11
    <3> QED BY <1>10, <3>1
  <2>2. ASSUME ~app.astray, brk.sess, NEW z \in Ids, StateIn(c, z, Unacked),
               own1[z] \in ToSet(brk.got), own1[z] \notin Qos1
        PROVE  z \in brk.rx
    <3>1. z # id BY <1>19, <2>2 DEF StateIn
    <3>2. StateIn(out, z, Unacked) /\ own1[z] = own[z] BY <1>2, <1>18, <2>2, <3>1
    <3> QED BY <1>10, <2>2, <3>2
  <2> QED BY <1>10, <1>14, <2>1, <2>2
<1>24. ASSUME cb' PROVE FirstInOrder' /\ TableOrder' /\ QueueOrder'
  <2>1. FirstInOrder /\ TableOrder /\ QueueOrder BY <1>16, <1>24
  <2>2. FirstInOrder' BY <1>6, <2>1 DEF FirstInOrder
  <2>3. \A r \in Recs(c) : Waits(r)' => Waits(r) /\ r \in Recs(out) /\ own1[r.id] = own[r.id] /\ r.id # id
    <3> TAKE r \in Recs(c)
    <3>1. Waits(r)' <=> r.st \in Unacked /\ own1[r.id] \notin ToSet(brk.got)
      BY <1>6 DEF Waits, Delivered, own1
    <3>2. Waits(r) <=> r.st \in Unacked /\ own[r.id] \notin ToSet(brk.got) BY DEF Waits, Delivered, own
    <3> QED BY <1>19, <3>1, <3>2
  <2>4. TableOrder'
    <3>1. ASSUME NEW j \in Used(c), NEW k \in Used(c), j < k, c[j].st \in Unacked, c[k].st \in Unacked
          PROVE  own1[c[j].id] < own1[c[k].id]
      <4>1. c[j] \in Recs(c) /\ c[k] \in Recs(c) BY DEF Recs
      <4>2. c[j].id # id /\ c[k].id # id /\ own1[c[j].id] = own[c[j].id] /\ own1[c[k].id] = own[c[k].id]
        BY <1>19, <3>1, <4>1
      <4>3. PICK i \in Used(out), l \in Used(out) : i < l /\ c[j] = out[i] /\ c[k] = out[l]
        BY <1>1, <3>1, <4>2
      <4>4. own[out[i].id] < own[out[l].id] BY <2>1, <3>1, <4>3 DEF TableOrder, out, own
      <4> QED BY <4>2, <4>3, <4>4
    <3>2. ASSUME NEW r \in Recs(c), Waits(r)' PROVE \A k \in ToSet(brk.got) : k < own1[r.id]
      <4>1. Waits(r) /\ r \in Recs(out) /\ own1[r.id] = own[r.id] BY <2>3, <3>2
      <4> QED BY <2>1, <4>1 DEF TableOrder, out, own
    <3> QED BY <1>6, <3>1, <3>2 DEF TableOrder, c, own1
  <2>5. ASSUME NEW z, own1[z] = own[z], Sent(z), F \subseteq F1 PROVE Sent(z)'
    BY <2>5 DEF Sent, own, own1, F, F1
  <2>6. QueueOrder'
    <3>1. Rising(net'.c2b) BY <2>1 DEF QueueOrder, NetAcked
    <3>2. ASSUME NEW p \in F1, NEW r \in Recs(c), p.type = "PUBLISH", Waits(r)', own1[r.id] < p.m
          PROVE  Sent(r.id)'
      <4>1. Waits(r) /\ r \in Recs(out) /\ own1[r.id] = own[r.id] BY <2>3, <3>2
      <4>2. p \in F /\ F \subseteq F1 BY <1>9, <3>2
      <4>3. Sent(r.id) BY <2>1, <3>2, <4>1, <4>2 DEF QueueOrder, F, out, own
      <4> QED BY <2>5, <4>1, <4>2, <4>3
    <3>3. ASSUME net'.up, cli'.conn = "Connected", ~cli'.bad, cli'.pc \in {"idle", "publishes"},
                 NEW i \in Used(c), NEW r, r = c[i], Waits(r)'
          PROVE  Sent(r.id)'
      <4>1. r \in Recs(c) BY <3>3 DEF Recs
      <4>2. Waits(r) /\ r \in Recs(out) /\ own1[r.id] = own[r.id] BY <2>3, <3>3, <4>1
      <4>3. PICK l \in Used(out) : r = out[l] BY <4>2 DEF Recs
      <4>4. net.up /\ cli.conn = "Connected" /\ ~cli.bad /\ cli.pc = "idle" BY <1>9, <3>3
      <4>5. Sent(out[l].id) BY <2>1, <4>2, <4>3, <4>4 DEF QueueOrder, out
      <4> QED BY <1>9, <2>5, <3>3, <4>2, <4>3, <4>5
    <3> QED BY <3>1, <3>2, <3>3 DEF QueueOrder, c, own1, F1, Waits, Delivered, Sent
  <2> QED BY <2>2, <2>4, <2>6
<1> QED BY <1>20, <1>21, <1>22, <1>23, <1>24 DEF OutInv, Ordered

-----------------------------------------------------------------------------
(* Steps that the session does not notice                                  *)

\* Neither direction notices a step that keeps the records, the application
\* and the broker, and only loses packets.
LEMMA QuietKeeps ==
  ASSUME QosInv, QosTypeOK', Connection', OutSame, InSame, ClientStays,
         OutNet(net, net'), InNet(net, net'), cli'.out = cli.out, cli'.in = cli.in
  PROVE  QosInv'
<1>1. QosTypeOK /\ OutInv /\ InInv BY DEF QosInv
<1>2. /\ cli.out \in Table(OutCount, Ids) /\ OutCount \in Nat /\ 0 \notin Ids
      /\ cli.in \in Table(InCount, InIds) /\ InCount \in Nat /\ 0 \notin InIds
  BY <1>1, Types, NoZero
<1>3. Keeps(cli.out, cli.out) /\ Keeps(cli.in, cli.in) BY <1>2, KeepsSelf
<1>4. OutInv' BY <1>1, <1>2, <1>3, OutQuiet
<1>5. InInv' BY <1>1, <1>2, <1>3, InQuiet
<1> QED BY <1>4, <1>5 DEF QosInv

LEMMA ReceiveFailsKeeps ==
  ASSUME QosInv, ReceiveFails
  PROVE  QosInv'
<1> DEFINE o == [ok |-> FALSE, c |-> Loses(cli), n |-> net]
<1>1. /\ cli.pc = "idle" /\ cli.conn # "NotConnected" /\ ~cli.bad /\ Returns(o)
      /\ UNCHANGED <<cb, brk, app, expiries>>
  BY DEF ReceiveFails, Loses
<1>2. QosTypeOK /\ Connection /\ cli \in Client /\ net \in Network /\ app' \in Application
  BY <1>1 DEF QosInv, QosTypeOK
<1>3. o.c = Loses(cli) /\ o.n = net /\ o.ok = FALSE OBVIOUS
<1> HIDE DEF o
<1>4. /\ Loses(cli) \in Client /\ Loses(cli).pc = cli.pc /\ Loses(cli).conn = "DisconnectPending"
      /\ Loses(cli).out = cli.out /\ Loses(cli).in = cli.in
  BY <1>2 DEF Client, Loses
<1>5. Handler(o) BY <1>1, <1>2, <1>3, <1>4 DEF Handler
<1>6. /\ QosTypeOK' /\ Connection' /\ cli'.out = cli.out /\ cli'.in = cli.in /\ net' = net /\ ClientStays
  BY <1>2, <1>3, <1>4, <1>5, HandlerReturns
<1>7. OutNet(net, net') /\ InNet(net, net') BY <1>6, NetTrans
<1>8. OutSame /\ InSame BY <1>1 DEF OutSame, InSame
<1> QED BY <1>6, <1>7, <1>8, QuietKeeps

LEMMA DisconnectKeeps ==
  ASSUME QosInv, Disconnect
  PROVE  QosInv'
<1>1. /\ cli.pc = "idle" /\ cli.bad /\ cli.conn # "NotConnected"
      /\ cli' = [cli EXCEPT !.conn = "NotConnected", !.bad = FALSE]
      /\ net' = [net EXCEPT !.up = FALSE]
      /\ UNCHANGED <<cb, brk, app, drops, expiries>>
  BY DEF Disconnect
<1>2. cli \in Client /\ net \in Network BY DEF QosInv, QosTypeOK
<1>3. /\ cli' \in Client /\ cli'.out = cli.out /\ cli'.in = cli.in /\ cli'.pc = "idle"
      /\ cli'.conn = "NotConnected" /\ cli'.bad = FALSE
  BY <1>1, <1>2 DEF Client
<1>4. net' \in Network /\ net'.up = FALSE /\ net'.c2b = net.c2b /\ net'.b2c = net.b2c
  BY <1>1, <1>2 DEF Network
<1>5. Client' = Client BY <1>1 DEF Client, OutCount
<1>6. QosTypeOK' BY <1>1, <1>3, <1>4, <1>5 DEF QosInv, QosTypeOK
<1>7. brk.sess BY <1>1 DEF QosInv, Connection
<1>8. Connection' BY <1>1, <1>3, <1>4, <1>7 DEF Connection
<1>9. ClientStays BY <1>1, <1>3 DEF ClientStays
<1>10. OutNet(net, net') /\ InNet(net, net') BY <1>4 DEF OutNet, InNet
<1>11. OutSame /\ InSame BY <1>1 DEF OutSame, InSame
<1> QED BY <1>3, <1>6, <1>8, <1>9, <1>10, <1>11, QuietKeeps

LEMMA DropKeeps ==
  ASSUME QosInv, Drop
  PROVE  QosInv'
<1>1. /\ net.up /\ drops < MaxDrops /\ drops' = drops + 1 /\ net' = Broken(net)
      /\ UNCHANGED <<cb, cli, brk, app, expiries>>
  BY DEF Drop
<1>2. net \in Network BY DEF QosInv, QosTypeOK
<1>3. /\ net' \in Network /\ ~net'.up /\ net'.c2b = <<>> /\ OutNet(net, net') /\ InNet(net, net')
      /\ net'.b2c = net.b2c
  BY <1>1, <1>2, NetBroken
<1>4. Client' = Client BY <1>1 DEF Client, OutCount
<1>5. drops' \in 0 .. MaxDrops BY <1>1, QosConstants DEF QosInv, QosTypeOK
<1>6. QosTypeOK' BY <1>1, <1>3, <1>4, <1>5 DEF QosInv, QosTypeOK
<1>7. Connection' BY <1>1, <1>3 DEF QosInv, Connection
<1>8. ClientStays BY <1>1, <1>3 DEF ClientStays
<1>9. OutSame /\ InSame BY <1>1 DEF OutSame, InSame
<1> QED BY <1>1, <1>3, <1>6, <1>7, <1>8, <1>9, QuietKeeps

-----------------------------------------------------------------------------
(* ReceiveAck                                                              *)

LEMMA DropTouches ==
  ASSUME QosInv, NEW i \in Used(cli.out), NEW id, cli.out[i].id = id
  PROVE  OutTouched(Put(cli.out, i, Empty), id) /\ ~ Has(Put(cli.out, i, Empty), id)
<1> DEFINE out == cli.out
           c == Put(out, i, Empty)
<1>1. out \in Table(OutCount, Ids) /\ OutCount \in Nat /\ 0 \notin Ids /\ Distinct(out)
  BY Types, NoZero DEF QosInv, OutInv, Owned
<1> HIDE DEF out
<1>2. i \in Used(out) /\ out[i].id = id BY DEF out
<1>3. /\ c \in Table(OutCount, Ids) /\ Distinct(c) /\ Used(c) = Used(out) \ {i}
      /\ Recs(c) = Recs(out) \ {out[i]} /\ ~ Has(c, id)
      /\ \A j \in Used(out) : j # i => c[j] = out[j]
  BY <1>1, <1>2, DropRecs
<1> HIDE DEF c
<1>4. \A x : x.id # id => (x \in Recs(c) <=> x \in Recs(out)) BY <1>2, <1>3
<1>5. \A x \in Recs(c) : x.id # id BY <1>3 DEF Has
<1>6. ASSUME NEW j \in Used(c), NEW k \in Used(c), j < k
      PROVE  \E a, l \in Used(out) : a < l /\ c[j] = out[a] /\ c[k] = out[l]
  BY <1>3, <1>6
<1> QED BY <1>3, <1>4, <1>5, <1>6 DEF OutTouched, out, c

LEMMA GrowTouches ==
  ASSUME QosInv, NEW i \in Used(cli.out), NEW id \in Ids, cli.out[i].id = id,
         NEW c \in Table(OutCount, Ids),
         Grows(Put(cli.out, i, Empty), c, [id |-> id, qos |-> 2, st |-> "PubRelSend"])
  PROVE  OutTouched(c, id) /\ Has(c, id)
<1> DEFINE out == cli.out
           new == [id |-> id, qos |-> 2, st |-> "PubRelSend"]
           t == Put(out, i, Empty)
<1>1. out \in Table(OutCount, Ids) /\ OutCount \in Nat /\ 0 \notin Ids /\ Distinct(out)
  BY Types, NoZero DEF QosInv, OutInv, Owned
<1>2. new.id = id /\ new.qos = 2 /\ new.st = "PubRelSend" OBVIOUS
<1>3. i \in Used(out) /\ out[i].id = id /\ Grows(t, c, new) OBVIOUS
<1> HIDE DEF out, new
<1>4. /\ t \in Table(OutCount, Ids) /\ Distinct(t) /\ Used(t) = Used(out) \ {i}
      /\ Recs(t) = Recs(out) \ {out[i]} /\ ~ Has(t, id)
      /\ \A j \in Used(out) : j # i => t[j] = out[j]
  BY <1>1, <1>3, DropRecs
<1> HIDE DEF t
<1>5. id # 0 /\ new.id # 0 BY <1>1, <1>2
<1>6. Distinct(c) /\ Recs(c) = Recs(t) \cup {new}
  BY <1>1, <1>2, <1>3, <1>4, <1>5, GrowsRecs
<1>7. PICK at \in DOMAIN c : /\ c[at] = new /\ \A k \in Used(c) : k <= at
                             /\ Keeps(t, [c EXCEPT ![at] = Empty])
  BY <1>3 DEF Grows
<1> DEFINE d == Put(c, at, Empty)
<1>8. Keeps(t, d) BY <1>7 DEF Put
<1>9. at \in Used(c) BY <1>5, <1>7 DEF Used
<1>10. Used(d) = Used(c) \ {at} /\ \A j \in Used(c) : j # at => d[j] = c[j]
  BY <1>1, <1>6, <1>9, DropRecs
<1> HIDE DEF d
<1>11. ASSUME NEW j \in Used(c), NEW k \in Used(c), j < k, c[j].id # id, c[k].id # id
       PROVE  \E a, l \in Used(out) : a < l /\ c[j] = out[a] /\ c[k] = out[l]
  <2>1. j \in Used(d) /\ k \in Used(d) /\ d[j] = c[j] /\ d[k] = c[k] BY <1>2, <1>7, <1>10, <1>11
  <2>2. PICK a \in Used(t), l \in Used(t) : a < l /\ d[j] = t[a] /\ d[k] = t[l]
    BY <1>8, <1>11, <2>1 DEF Keeps
  <2> QED BY <1>4, <2>1, <2>2
<1>12. \A x : x.id # id => (x \in Recs(c) <=> x \in Recs(out)) BY <1>2, <1>3, <1>4, <1>6
<1>13. \A x \in Recs(c) : x.id = id => x = new BY <1>4, <1>6 DEF Has
<1>14. \A x \in Recs(c) : x.id = id => x.st \in Late /\ x.qos = 2 BY <1>2, <1>13 DEF Late
<1>15. Has(c, id) BY <1>2, <1>6 DEF Has
<1> QED BY <1>6, <1>11, <1>12, <1>14, <1>15 DEF OutTouched, out

LEMMA PutTouches ==
  ASSUME QosInv, NEW id \in Ids, NEW t, OutTouched(t, id), NEW j \in Used(t), t[j].id = id,
         NEW c, c = Put(t, j, InState(t[j], "PubCompPending"))
  PROVE  OutTouched(c, id) /\ Has(c, id) /\ StateIn(c, id, {"PubCompPending"})
<1> DEFINE out == cli.out
           v == InState(t[j], "PubCompPending")
<1>1. OutCount \in Nat /\ 0 \notin Ids BY Types, NoZero DEF QosInv
<1>2. /\ t \in Table(OutCount, Ids) /\ Distinct(t)
      /\ \A x : x.id # id => (x \in Recs(t) <=> x \in Recs(out))
      /\ \A x \in Recs(t) : x.id = id => x.st \in Late /\ x.qos = 2
      /\ \A h, k \in Used(t) : h < k /\ t[h].id # id /\ t[k].id # id =>
           \E a, l \in Used(out) : a < l /\ t[h] = out[a] /\ t[k] = out[l]
  BY DEF OutTouched
<1>3. t[j] \in [id: Ids, qos: {1, 2}, st: PublishState \ {"Null", "PublishDone"}] /\ t[j] \in Recs(t)
  BY <1>1, <1>2, Rows DEF Recs
<1>4. v \in Record(Ids) /\ v.id = id /\ v.qos = 2 /\ v.st = "PubCompPending"
  BY <1>2, <1>3 DEF InState, Record, PublishState
<1> HIDE DEF v, out
<1>5. /\ c \in Table(OutCount, Ids) /\ Distinct(c) /\ Used(c) = Used(t)
      /\ Recs(c) = (Recs(t) \ {t[j]}) \cup {v}
      /\ \A k \in Used(t) : c[k] = IF k = j THEN v ELSE t[k]
  <2>1. c = Put(t, j, v) /\ v.id = t[j].id BY <1>4 DEF v
  <2> QED BY <1>1, <1>2, <1>4, <2>1, PutRecs
<1>6. \A x : x.id # id => (x \in Recs(c) <=> x \in Recs(out)) BY <1>2, <1>4, <1>5
<1>7. \A x \in Recs(c) : x.id = id => x.st \in Late /\ x.qos = 2
  BY <1>2, <1>4, <1>5 DEF Late
<1>8. ASSUME NEW h \in Used(c), NEW k \in Used(c), h < k, c[h].id # id, c[k].id # id
      PROVE  \E a, l \in Used(out) : a < l /\ c[h] = out[a] /\ c[k] = out[l]
  <2>1. h \in Used(t) /\ k \in Used(t) /\ c[h] = t[h] /\ c[k] = t[k] BY <1>4, <1>5, <1>8
  <2> QED BY <1>2, <1>8, <2>1
<1>9. v \in Recs(c) BY <1>5
<1> QED BY <1>4, <1>5, <1>6, <1>7, <1>8, <1>9 DEF OutTouched, Has, StateIn, out

\* What the packets say of an acknowledgement that is read.
LEMMA AckFits ==
  ASSUME QosInv, net.b2c # <<>>, Head(net.b2c).type \in Acks
  PROVE  LET id == Head(net.b2c).id
             type == Head(net.b2c).type
         IN /\ id \in Ids /\ brk.sess /\ Has(cli.out, id) /\ app.own[id] # 0 /\ Delivered(id)
            /\ type = "PUBACK" => app.own[id] \in Qos1
            /\ type # "PUBREC" => id \notin brk.rx
<1> DEFINE p == Head(net.b2c)
           id == p.id
           out == cli.out
<1>1. p \in Packet /\ p \in Back(net.b2c) BY Types, KindsOf, TailKinds DEF QosInv
<1>2. IF p.type = "PUBCOMP" THEN StateIn(out, id, {"PubCompPending"}) /\ id \notin brk.rx
      ELSE /\ StateIn(out, id, Unacked) /\ Delivered(id)
           /\ p.type = "PUBACK" <=> app.own[id] \in Qos1
  BY <1>1 DEF QosInv, OutInv, OutPackets
<1>3. id \in Ids BY <1>1 DEF Packet
<1>4. brk.sess BY DEF QosInv, Connection
<1>5. /\ Has(out, id) => app.own[id] # 0
      /\ \A r \in Recs(out) : r.st \in Late => Delivered(r.id)
  BY <1>3 DEF QosInv, OutInv, Owned
<1>6. \A z \in brk.rx : app.own[z] \notin Qos1 BY DEF QosInv, OutInv, Received
<1> HIDE DEF out, id
<1>7. Has(out, id) BY <1>2 DEF Has, StateIn
<1>8. Delivered(id) BY <1>2, <1>5 DEF StateIn, Late
<1>9. p.type # "PUBREC" => id \notin brk.rx
  <2>1. p.type \in Acks OBVIOUS
  <2> QED BY <1>2, <1>6, <2>1 DEF Acks
<1>10. p.type = "PUBACK" => app.own[id] \in Qos1 BY <1>2
<1> QED BY <1>3, <1>4, <1>5, <1>7, <1>8, <1>9, <1>10 DEF id, out

\* The packets when it has been read, and perhaps lost after it.
LEMMA AckedNet ==
  ASSUME QosInv, net.b2c # <<>>, Head(net.b2c).type \in Acks, OutNet(Read, net'), NEW c
  PROVE  NetAcked(c, Head(net.b2c).id)
<1> DEFINE id == Head(net.b2c).id
           k == Read
<1>1. net \in Network /\ OnePacket(net.c2b, net.b2c)
  BY DEF QosInv, QosTypeOK, OutInv, OutPackets
<1>2. net.c2b \in Seq(Packet) /\ net.b2c \in Seq(Packet) BY <1>1 DEF Network
<1>3. k.up = net.up /\ k.c2b = net.c2b /\ k.b2c = Tail(net.b2c) BY <1>1 DEF Read, Network
<1>4. /\ OnePacket(net.c2b, Tail(net.b2c))
      /\ \A q \in Fwd(net.c2b) \cup Back(Tail(net.b2c)) : q.id # id
  BY <1>1, <1>2, OneTaken
<1>5. Back(Tail(net.b2c)) \subseteq Back(net.b2c) BY <1>2, TailKinds
<1> HIDE DEF id, k
<1>6. /\ OnePacket(k.c2b, k.b2c) => OnePacket(net'.c2b, net'.b2c)
      /\ Rising(k.c2b) => Rising(net'.c2b)
      /\ Fwd(net'.c2b) \in {Fwd(k.c2b), {}}
      /\ Back(net'.b2c) \subseteq Back(k.b2c)
      /\ net'.up => k.up /\ Fwd(net'.c2b) = Fwd(k.c2b)
  BY DEF OutNet, k
<1>7. NetAcked(c, id) BY <1>3, <1>4, <1>5, <1>6 DEF NetAcked
<1> QED BY <1>7 DEF id

\* And when a PUBREL has been sent as the answer to it.
LEMMA RepliedNet ==
  ASSUME QosInv, net.b2c # <<>>, Head(net.b2c).type \in Acks, net.up,
         NEW q \in Packet, q.type = "PUBREL", q.id = Head(net.b2c).id, net' = WithSent(Read, q),
         NEW c, StateIn(c, q.id, {"PubCompPending"})
  PROVE  NetAcked(c, q.id)
<1> DEFINE id == q.id
           there == net.c2b
           back == net.b2c
<1>1. net \in Network /\ OnePacket(net.c2b, net.b2c)
  BY DEF QosInv, QosTypeOK, OutInv, OutPackets
<1>2. there \in Seq(Packet) /\ back \in Seq(Packet) BY <1>1 DEF Network
<1>3. net'.up = net.up /\ net'.c2b = Append(there, q) /\ net'.b2c = Tail(back)
  BY <1>1 DEF Read, Network, WithSent
<1>4. OnePacket(there, back) /\ back # <<>> /\ Head(back).type \in Acks /\ id = Head(back).id
  BY <1>1
<1> HIDE DEF id, there, back
<1>5. /\ OnePacket(there, Tail(back))
      /\ \A p \in Fwd(there) \cup Back(Tail(back)) : p.id # id
  BY <1>2, <1>4, OneTaken
<1>6. q.type \in Orders /\ q.id = Head(back).id BY <1>4, KindsOf DEF id
<1>7. OnePacket(Append(there, q), Tail(back)) BY <1>2, <1>4, <1>6, OneReplied
<1>8. Back(Tail(back)) \subseteq Back(back) BY <1>2, <1>4, TailKinds
<1>9. Fwd(Append(there, q)) = Fwd(there) \cup {q} BY <1>2, <1>6, AppendKinds
<1>10. Rising(there) => Rising(Append(there, q)) BY <1>2, AppendRising
<1>11. there = net.c2b /\ back = net.b2c /\ q.id = id BY DEF there, back, id
<1> QED BY <1>3, <1>5, <1>7, <1>8, <1>9, <1>10, <1>11 DEF NetAcked

\* handleIncomingAck, in these terms.
AckRead(id, type) == MQTT_UpdateStateAck(cli.out, cli.in, id, type, "RECEIVE")
AckApp(id, type) ==
  [app EXCEPT !.kept = IF type \in {"PUBACK", "PUBREC"} THEN @ \ {id} ELSE @,
              !.done = IF type \in {"PUBACK", "PUBCOMP"} THEN @ \cup {app.own[id]} ELSE @,
              !.own = IF type \in {"PUBACK", "PUBCOMP"} THEN [@ EXCEPT ![id] = 0] ELSE @]

LEMMA AckReads ==
  ASSUME QosInv, ReceiveAck
  PROVE  /\ cli.pc = "idle" /\ cli.conn # "NotConnected" /\ ~cli.bad /\ net.b2c # <<>>
         /\ Head(net.b2c).type \in {"PUBREL"} \cup Acks /\ Head(net.b2c).id \in Ids
         /\ UNCHANGED <<cb, brk, expiries>>
         /\ LET id == Head(net.b2c).id
                type == Head(net.b2c).type
                r == AckRead(id, type)
            IN \/ r.status # "Success" /\ Returns([ok |-> FALSE, c |-> cli, n |-> Read]) /\ app' = app
               \/ /\ r.status = "Success" /\ app' = AckApp(id, type)
                  /\ \E o \in PublishAcks(WithTables(cli, r), Read, id, r.new) : Returns(o)
<1> DEFINE p == Head(net.b2c)
           r == AckRead(p.id, p.type)
<1>1. /\ cli.pc = "idle" /\ cli.conn # "NotConnected" /\ ~cli.bad /\ net.b2c # <<>>
      /\ p.type \in Type \ {"PUBLISH"} /\ UNCHANGED <<cb, brk, expiries>>
  BY DEF ReceiveAck, Reading
<1>2. p \in Packet BY <1>1, Types, TailKinds DEF QosInv
<1>3. p.type \in {"PUBREL"} \cup Acks /\ p.id \in Ids BY <1>1, <1>2 DEF Type, Acks, Packet
<1>4. IF r.status = "Success"
      THEN /\ app' = AckApp(p.id, p.type)
           /\ \E o \in PublishAcks(WithTables(cli, r), Read, p.id, r.new) : Returns(o)
      ELSE Returns([ok |-> FALSE, c |-> cli, n |-> Read]) /\ UNCHANGED app
  BY DEF ReceiveAck, AckRead, AckApp, WithTables
<1> QED BY <1>1, <1>3, <1>4

LEMMA AckRefused ==
  ASSUME QosInv, ReceiveAck, Returns([ok |-> FALSE, c |-> cli, n |-> Read]), app' = app
  PROVE  QosInv'
<1> DEFINE o == [ok |-> FALSE, c |-> cli, n |-> Read]
<1>1. /\ cli.pc = "idle" /\ cli.conn # "NotConnected" /\ ~cli.bad /\ net.b2c # <<>>
      /\ UNCHANGED <<cb, brk, expiries>>
  BY AckReads
<1>2. QosTypeOK /\ Connection /\ cli \in Client /\ net \in Network /\ app' \in Application
  BY DEF QosInv, QosTypeOK
<1>3. o.c = cli /\ o.n = Read /\ o.ok = FALSE /\ Returns(o) OBVIOUS
<1>4. Read \in Network /\ OutNet(net, Read) /\ InNet(net, Read) /\ Read.up = net.up
  BY <1>1, <1>2, NetRead DEF Read, Network
<1> HIDE DEF o
<1>5. Handler(o) BY <1>1, <1>2, <1>3, <1>4 DEF Handler
<1>6. /\ QosTypeOK' /\ Connection' /\ cli'.out = cli.out /\ cli'.in = cli.in /\ net' = Read /\ ClientStays
  BY <1>2, <1>3, <1>5, HandlerReturns
<1>7. OutSame /\ InSame BY <1>1 DEF OutSame, InSame
<1> QED BY <1>4, <1>6, <1>7, QuietKeeps

\* What the application is told.
IsHead(id, type) == net.b2c # <<>> /\ Head(net.b2c).id = id /\ Head(net.b2c).type = type

Told(a, kept, done, own) == [a EXCEPT !.kept = kept, !.done = done, !.own = own]

LEMMA ToldIs ==
  ASSUME NEW a \in Application, NEW kept \in SUBSET Ids, NEW done \in SUBSET Out,
         NEW own \in [Ids -> Out \cup {0}]
  PROVE  LET b == Told(a, kept, done, own)
         IN /\ b \in Application /\ b.own = own /\ b.done = done /\ b.kept = kept
            /\ b.pub = a.pub /\ b.astray = a.astray /\ b.got = a.got /\ b.twice = a.twice
            /\ b.lost = a.lost
  BY DEF Application, Told

LEMMA AppTold ==
  ASSUME QosInv, brk' = brk, NEW type \in Acks, NEW id \in Ids, IsHead(id, type),
         app' = AckApp(id, type), NEW c,
         type # "PUBREC" => ~ Has(c, id),
         type = "PUBREC" => Has(c, id) /\ QosOf(app.own[id]) = 2
  PROVE  app' \in Application /\ AppAcked(c, id) /\ InSame
<1> DEFINE a == app
           ends == type \in {"PUBACK", "PUBCOMP"}
<1>1. /\ app.own[id] # 0 /\ Delivered(id) /\ (type # "PUBREC" => id \notin brk.rx)
  BY AckFits DEF IsHead
<1>2. a \in Application BY DEF QosInv, QosTypeOK
<1>3. a.own \in [Ids -> Out \cup {0}] /\ a.own[id] \in Out BY <1>1, <1>2 DEF Application
<1> DEFINE kept == IF type \in {"PUBACK", "PUBREC"} THEN a.kept \ {id} ELSE a.kept
           done == IF ends THEN a.done \cup {a.own[id]} ELSE a.done
           own == IF ends THEN [a.own EXCEPT ![id] = 0] ELSE a.own
<1>4. app' = Told(a, kept, done, own) BY DEF AckApp, Told
<1>5. kept \in SUBSET Ids /\ done \in SUBSET Out /\ own \in [Ids -> Out \cup {0}]
  BY <1>2, <1>3 DEF Application
<1>10. \A z \in Ids : own[z] = IF ends /\ z = id THEN 0 ELSE a.own[z] BY <1>3
<1>11. done \subseteq a.done \cup {a.own[id]} /\ \A z \in a.kept : z # id => z \in kept OBVIOUS
<1> HIDE DEF kept, done, own
<1>12. /\ app' \in Application /\ app'.own = own /\ app'.done = done /\ app'.kept = kept
       /\ app'.pub = a.pub /\ app'.astray = a.astray /\ app'.got = a.got /\ app'.twice = a.twice
       /\ app'.lost = a.lost
  BY <1>2, <1>4, <1>5, ToldIs
<1>6. ends <=> type # "PUBREC" BY DEF Acks
<1>7. DOMAIN own = Ids BY <1>5
<1>8. AppAcked(c, id)
  BY <1>1, <1>6, <1>7, <1>10, <1>11, <1>12 DEF AppAcked
<1>9. InSame BY <1>12 DEF InSame
<1> QED BY <1>8, <1>9, <1>12

\* PUBACK and PUBCOMP: the message is done.
LEMMA AckEnds ==
  ASSUME QosInv, ReceiveAck, NEW id, NEW type, IsHead(id, type),
         type \in Acks \ {"PUBREC"}, AckRead(id, type).status = "Success", app' = AckApp(id, type),
         NEW o \in PublishAcks(WithTables(cli, AckRead(id, type)), Read, id, AckRead(id, type).new),
         Returns(o)
  PROVE  QosInv'
<1> DEFINE out == cli.out
           in == cli.in
           r == AckRead(id, type)
           c == WithTables(cli, r)
<1>1. /\ cli.pc = "idle" /\ cli.conn # "NotConnected" /\ ~cli.bad /\ net.b2c # <<>> /\ id \in Ids
      /\ UNCHANGED <<cb, brk, expiries>>
  BY AckReads DEF IsHead
<1>2. QosTypeOK /\ Connection /\ OutInv /\ InInv /\ cli \in Client /\ net \in Network
  BY DEF QosInv, QosTypeOK
<1>3. /\ out \in Table(OutCount, Ids) /\ OutCount \in Nat \ {0} /\ OutCount \in Nat
      /\ in \in Table(InCount, InIds) /\ InCount \in Nat /\ 0 \notin InIds
  BY <1>2, Types, NoZero
<1>4. r = MQTT_UpdateStateAck(out, in, id, type, "RECEIVE") /\ type \in Acks /\ r.status = "Success"
  BY DEF AckRead, Acks
<1> HIDE DEF out, in, r
<1>5. r.in = in /\ AckDrops(out, id, r.out) /\ r.new = "PublishDone" BY <1>1, <1>3, <1>4, AckReceived
<1>6. PICK i \in Used(out) : out[i].id = id /\ r.out = Put(out, i, Empty) BY <1>5 DEF AckDrops
<1>7. OutTouched(r.out, id) /\ ~ Has(r.out, id) BY <1>6, DropTouches DEF out
<1>8. o.ok = TRUE /\ o.c = c /\ o.n = Read
  <2>1. o = [ok |-> TRUE, c |-> c, n |-> Read] BY <1>5, AckTypes DEF PublishAcks, r
  <2> QED BY <2>1
<1>9. r.out \in Table(OutCount, Ids) BY <1>7 DEF OutTouched
<1>10. c \in Client /\ c.out = r.out /\ c.in = in /\ c.pc = cli.pc /\ c.conn = cli.conn
  BY <1>2, <1>3, <1>5, <1>9 DEF Client, Table, WithTables
<1> HIDE DEF c
<1>11. Read \in Network /\ OutNet(net, Read) /\ InNet(net, Read) /\ Read.up = net.up
  BY <1>1, <1>2, NetRead DEF Read, Network
<1>12. Handler(o) BY <1>1, <1>8, <1>10, <1>11 DEF Handler
<1>13. app' \in Application /\ AppAcked(r.out, id) /\ InSame
  <2>1. type # "PUBREC" OBVIOUS
  <2> QED BY <1>1, <1>4, <1>7, <2>1, AppTold
<1>14. /\ QosTypeOK' /\ Connection' /\ cli'.out = r.out /\ cli'.in = in /\ net' = Read /\ ClientStays
  BY <1>2, <1>8, <1>10, <1>12, <1>13, HandlerReturns
<1>15. cli'.pc = "idle" BY <1>1, <1>8, <1>10, <1>12 DEF Handler, Returns, Client
<1>16. OutInv'
  <2>1. OutNet(Read, net') BY <1>14, NetTrans
  <2>2. NetAcked(r.out, id) BY <1>1, <1>4, <2>1, AckedNet DEF IsHead
  <2>3. Resending' BY <1>15 DEF Resending
  <2>4. net'.up /\ cli'.conn = "Connected" => cli.conn = "Connected"
    BY <1>8, <1>10, <1>12 DEF Handler, Returns, Client
  <2>5. OutTouched(cli'.out, id) /\ AppAcked(cli'.out, id) /\ NetAcked(cli'.out, id)
    BY <1>7, <1>13, <1>14, <2>2
  <2> QED BY <1>1, <1>15, <2>3, <2>4, <2>5, OutAcked
<1>17. InInv'
  <2>1. Keeps(in, in) /\ cli'.in = cli.in BY <1>3, <1>14, KeepsSelf DEF in
  <2> QED BY <1>2, <1>3, <1>11, <1>13, <1>14, <2>1, InQuiet DEF in
<1> QED BY <1>14, <1>16, <1>17 DEF QosInv

\* PUBREC: the record moves to the end, and PUBREL is sent or not.
LEMMA AckRelease ==
  ASSUME QosInv, ReceiveAck, NEW id, IsHead(id, "PUBREC"),
         AckRead(id, "PUBREC").status = "Success", app' = AckApp(id, "PUBREC"),
         NEW o \in PublishAcks(WithTables(cli, AckRead(id, "PUBREC")), Read, id, AckRead(id, "PUBREC").new),
         Returns(o)
  PROVE  QosInv'
<1> DEFINE out == cli.out
           in == cli.in
           r == AckRead(id, "PUBREC")
           mid == r.out
           c == WithTables(cli, r)
           ack == AckResult(c, id, "PubRelSend")
           after == ack.out
           q == AckPacket(id, "PubRelSend")
<1>1. /\ cli.pc = "idle" /\ cli.conn # "NotConnected" /\ ~cli.bad /\ net.b2c # <<>> /\ id \in Ids
      /\ UNCHANGED <<cb, brk, expiries>> /\ "PUBREC" \in Acks
  BY AckReads, KindsOf DEF IsHead
<1>2. QosTypeOK /\ Connection /\ OutInv /\ InInv /\ cli \in Client /\ net \in Network
  BY DEF QosInv, QosTypeOK
<1>3. /\ out \in Table(OutCount, Ids) /\ OutCount \in Nat \ {0} /\ OutCount \in Nat /\ 0 \notin Ids
      /\ in \in Table(InCount, InIds) /\ InCount \in Nat /\ 0 \notin InIds
  BY <1>2, Types, NoZero
<1>4. r = MQTT_UpdateStateAck(out, in, id, "PUBREC", "RECEIVE") /\ r.status = "Success"
  BY DEF AckRead
<1>5. /\ o \in PublishAcks(c, Read, id, r.new) OBVIOUS
<1> HIDE DEF out, in, r
<1>6. r.in = in /\ AckMoves(out, id, mid) /\ mid \in Table(OutCount, Ids) /\ r.new = "PubRelSend"
  BY <1>1, <1>3, <1>4, AckReceived
<1>7. PICK i \in Used(out) :
        /\ out[i].id = id /\ out[i].qos = 2
        /\ Grows(Put(out, i, Empty), mid, [id |-> id, qos |-> 2, st |-> "PubRelSend"])
  BY <1>6 DEF AckMoves
<1>8. c \in Client /\ c.out = mid /\ c.in = in /\ c.pc = cli.pc /\ c.conn = cli.conn
  BY <1>2, <1>3, <1>6 DEF Client, Table, WithTables
<1>9. o \in PublishAcks(c, Read, id, "PubRelSend") BY <1>5, <1>6
<1> HIDE DEF mid, c
<1>10. OutTouched(mid, id) /\ Has(mid, id) BY <1>1, <1>6, <1>7, GrowTouches DEF out
<1>11. PICK j \in Used(mid) : mid[j].id = id BY <1>10 DEF Has, Recs
<1>12. mid[j].st \in Late /\ mid[j].qos = 2 /\ Distinct(mid) BY <1>10, <1>11 DEF OutTouched, Recs
<1>13. ack = MQTT_UpdateStateAck(mid, in, id, "PUBREL", "SEND") BY <1>8, AckTypes DEF AckResult
<1> HIDE DEF ack
<1>14. ack.in = in /\ after = Put(mid, j, InState(mid[j], "PubCompPending"))
  BY <1>3, <1>6, <1>11, <1>12, <1>13, PubrelSent
<1> HIDE DEF after
<1>15. OutTouched(after, id) /\ Has(after, id) /\ StateIn(after, id, {"PubCompPending"})
  BY <1>1, <1>10, <1>11, <1>14, PutTouches
<1>16. after \in Table(OutCount, Ids) BY <1>15 DEF OutTouched
<1>17. q \in Packet /\ q.type = "PUBREL" /\ q.id = id BY <1>1, AckTypes, PktIs DEF AckPacket, Type
<1> HIDE DEF q
<1>18. /\ Handler(o)
       /\ \/ /\ o.c.out = mid /\ o.c.in = in
             /\ OutNet(net, o.n) /\ InNet(net, o.n) /\ OutNet(Read, o.n)
          \/ o.c.out = after /\ o.c.in = in /\ o.n = WithSent(Read, q) /\ net.up
  BY <1>1, <1>3, <1>8, <1>9, <1>14, <1>16, AckTypes, AnswerRead DEF ack, after, q
<1>19. QosOf(app.own[id]) = 2
  <2>1. \A x \in Recs(out) : x.qos = QosOf(app.own[x.id]) BY <1>2 DEF OutInv, Owned, out
  <2> QED BY <1>7, <2>1 DEF Recs
<1>20. app' \in Application /\ AppAcked(mid, id) /\ AppAcked(after, id) /\ InSame
  BY <1>1, <1>10, <1>15, <1>19, AppTold
<1>21. /\ QosTypeOK' /\ Connection' /\ cli'.out = o.c.out /\ cli'.in = o.c.in /\ net' = o.n /\ ClientStays
  BY <1>2, <1>18, <1>20, HandlerReturns
<1>22. /\ cli'.pc = "idle" /\ (cli'.conn = "Connected" => cli.conn = "Connected")
  BY <1>18 DEF Handler, Returns, Client
<1>23. OutInv'
  <2>1. OutTouched(cli'.out, id) /\ AppAcked(cli'.out, id) /\ NetAcked(cli'.out, id)
    <3>1. CASE o.c.out = mid /\ OutNet(Read, o.n)
      <4>1. NetAcked(mid, id) BY <1>1, <1>21, <3>1, AckedNet DEF IsHead
      <4> QED BY <1>10, <1>20, <1>21, <3>1, <4>1
    <3>2. CASE o.c.out = after /\ o.n = WithSent(Read, q) /\ net.up
      <4>1. NetAcked(after, id) BY <1>1, <1>15, <1>17, <1>21, <3>2, RepliedNet DEF IsHead
      <4> QED BY <1>15, <1>20, <1>21, <3>2, <4>1
    <3> QED BY <1>18, <3>1, <3>2
  <2>2. Resending' BY <1>22 DEF Resending
  <2> QED BY <1>1, <1>22, <2>1, <2>2, OutAcked
<1>24. InInv'
  <2>1. Keeps(in, in) /\ cli'.in = in /\ cli.in = in BY <1>3, <1>18, <1>21, KeepsSelf DEF in
  <2>2. InNet(net, net')
    <3>1. CASE o.n = WithSent(Read, q)
      <4>1. Read \in Network /\ InNet(net, Read) BY <1>1, <1>2, NetRead DEF Read
      <4>2. InNet(Read, o.n) BY <1>17, <3>1, <4>1, KindsOf, NetSends DEF WithSent
      <4> QED BY <1>21, <4>1, <4>2, NetTrans
    <3> QED BY <1>18, <1>21, <3>1
  <2> QED BY <1>2, <1>3, <1>20, <2>1, <2>2, InQuiet
<1> QED BY <1>21, <1>23, <1>24 DEF QosInv

\* PUBREL: the record of a message that the application has had for long.
LEMMA TouchedTrans ==
  ASSUME NEW t, NEW c, NEW d, NEW id, Touched(t, c, id), Touched(c, d, id)
  PROVE  Touched(t, d, id)
<1>1. \A z : z # id => (Has(d, z) <=> Has(t, z)) BY DEF Touched
<1>2. \A x \in Recs(d) : \E y \in Recs(t) : y.id = x.id /\ y.qos = x.qos
  <2> TAKE x \in Recs(d)
  <2>1. PICK w \in Recs(c) : w.id = x.id /\ w.qos = x.qos BY DEF Touched
  <2>2. PICK y \in Recs(t) : y.id = w.id /\ y.qos = w.qos BY DEF Touched
  <2> QED BY <2>1, <2>2
<1>3. d \in Table(InCount, InIds) /\ Distinct(d) /\ \A x \in Recs(d) : InFits(x) BY DEF Touched
<1> QED BY <1>1, <1>2, <1>3 DEF Touched

LEMMA SettledOld ==
  ASSUME QosInv, brk.sess, NEW t \in Tx, t.rel, NEW id, t.id = id, NEW c, Touched(cli.in, c, id),
         app'.got = app.got, app'.twice = app.twice, app'.lost = app.lost, app'.astray = app.astray
  PROVE  SettledIn(t, c) /\ SettledApp(t)
<1> DEFINE in == cli.in
<1>1. /\ c \in Table(InCount, InIds) /\ Distinct(c) /\ \A x \in Recs(c) : InFits(x)
      /\ \A x \in Recs(c) : \E y \in Recs(in) : y.id = x.id /\ y.qos = x.qos
      /\ \A z : z # id => (Has(c, z) <=> Has(in, z))
  BY DEF Touched
<1>2. ~app.astray =>
        /\ \A y \in Recs(in) : \E u \in Tx : u.id = y.id /\ y.qos = QosOf(u.m)
        /\ Taking(t.m) /\ app.twice \subseteq Qos1
  BY DEF QosInv, InInv, Taken
<1> HIDE DEF in
<1>3. ASSUME ~app.astray, NEW x \in Recs(c), x.id = id PROVE x.qos = QosOf(t.m)
  <2>1. PICK y \in Recs(in) : y.id = x.id /\ y.qos = x.qos BY <1>1
  <2>2. PICK u \in Tx : u.id = y.id /\ y.qos = QosOf(u.m) BY <1>2, <1>3
  <2>3. u = t BY <1>3, <2>1, <2>2, TxUnique
  <2> QED BY <2>1, <2>2, <2>3
<1>4. SettledIn(t, c) BY <1>1, <1>3 DEF SettledIn, in
<1>5. SettledApp(t) BY <1>2 DEF SettledApp, Taking
<1> QED BY <1>4, <1>5

LEMMA PubrelRead ==
  ASSUME QosInv, ReceiveAck, NEW id, IsHead(id, "PUBREL"),
         AckRead(id, "PUBREL").status = "Success", app' = AckApp(id, "PUBREL"),
         NEW o \in PublishAcks(WithTables(cli, AckRead(id, "PUBREL")), Read, id, AckRead(id, "PUBREL").new),
         Returns(o)
  PROVE  QosInv'
<1> DEFINE out == cli.out
           in == cli.in
           r == AckRead(id, "PUBREL")
           mid == r.in
           c == WithTables(cli, r)
           ack == AckResult(c, id, "PubCompSend")
           after == ack.in
           q == AckPacket(id, "PubCompSend")
           a == app
<1>1. /\ cli.pc = "idle" /\ cli.conn # "NotConnected" /\ ~cli.bad /\ net.b2c # <<>> /\ id \in Ids
      /\ UNCHANGED <<cb, brk, expiries>> /\ Head(net.b2c).type = "PUBREL" /\ Head(net.b2c).id = id
  BY AckReads DEF IsHead
<1>2. QosTypeOK /\ Connection /\ OutInv /\ InInv /\ cli \in Client /\ net \in Network /\ a \in Application
  BY DEF QosInv, QosTypeOK
<1>3. /\ out \in Table(OutCount, Ids) /\ OutCount \in Nat /\ 0 \notin Ids
      /\ in \in Table(InCount, InIds) /\ InCount \in Nat /\ 0 \notin InIds
  BY <1>2, Types, NoZero
<1>4. r = MQTT_UpdateStateAck(out, in, id, "PUBREL", "RECEIVE") /\ r.status = "Success"
  BY DEF AckRead
<1>5. /\ o \in PublishAcks(c, Read, id, r.new) OBVIOUS
<1>6. Distinct(in) /\ \A x \in Recs(in) : InFits(x) BY <1>2 DEF InInv, Sending
<1> HIDE DEF r
<1>7. brk.sess /\ \E t \in Tx : t.id = id /\ t.rel
  <2>1. Head(net.b2c) \in Fwd(net.b2c) BY <1>1, <1>2, Types, KindsOf, TailKinds
  <2> QED BY <1>1, <1>2, <2>1 DEF InInv, InPackets, Connection
<1>8. PICK t \in Tx : t.id = id /\ t.rel BY <1>7
<1>9. t.m \notin Qos1 BY <1>2, <1>8 DEF InInv, Sending
<1> HIDE DEF out, in
<1>10. r.out = out /\ r.new = "PubCompSend" /\ RelTakes(in, id, mid)
  BY <1>1, <1>3, <1>4, PubrelReceived
<1>11. PICK i \in Used(in) : in[i].id = id /\ in[i].qos = 2 /\ mid = Put(in, i, InState(in[i], "PubCompSend"))
  BY <1>10 DEF RelTakes
<1> HIDE DEF mid
<1>12. Touched(in, mid, id) /\ Has(mid, id) /\ \A x \in Recs(mid) : x.id = id => x.st = "PubCompSend"
  <2>1. "PubCompSend" \in {"PubRelPending", "PubCompSend"} OBVIOUS
  <2> QED BY <1>3, <1>6, <1>11, <2>1, TouchedPut
<1>13. mid \in Table(InCount, InIds) /\ Distinct(mid) /\ \A x \in Recs(mid) : InFits(x)
  BY <1>12 DEF Touched
<1>14. c \in Client /\ c.out = out /\ c.in = mid /\ c.pc = cli.pc /\ c.conn = cli.conn
  BY <1>2, <1>3, <1>10, <1>13 DEF Client, Table, WithTables, mid
<1>15. o \in PublishAcks(c, Read, id, "PubCompSend") BY <1>5, <1>10
<1> HIDE DEF c
<1>16. ack = MQTT_UpdateStateAck(out, mid, id, "PUBCOMP", "SEND") BY <1>14, AckTypes DEF AckResult
<1> HIDE DEF ack
<1>17. ack.out = out /\ Touched(mid, after, id) /\ ~ Has(after, id)
  <2>1. ack.out = out /\ Touched(mid, after, id) BY <1>1, <1>13, <1>16, KindsOf, AckTouches
  <2>2. ~ Has(after, id) BY <1>1, <1>12, <1>13, <1>16, KindsOf, AckTouches
  <2> QED BY <2>1, <2>2
<1> HIDE DEF after
<1>18. Touched(in, after, id) BY <1>12, <1>17, TouchedTrans
<1>19. after \in Table(InCount, InIds) BY <1>17 DEF Touched
<1>20. q \in Packet /\ q.type = "PUBCOMP" /\ q.id = id BY <1>1, AckTypes, PktIs DEF AckPacket, Type
<1> HIDE DEF q
<1>21. /\ Handler(o)
       /\ \/ o.c.out = out /\ o.c.in = mid /\ OutNet(net, o.n) /\ InNet(net, o.n)
          \/ o.c.out = out /\ o.c.in = after /\ o.n = WithSent(Read, q) /\ net.up
  BY <1>1, <1>3, <1>14, <1>15, <1>17, <1>19, AckTypes, AnswerRead DEF ack, after, q
<1>22. /\ app' \in Application /\ app'.own = a.own /\ app'.done = a.done /\ app'.kept = a.kept
       /\ app'.pub = a.pub /\ app'.astray = a.astray /\ app'.got = a.got /\ app'.twice = a.twice
       /\ app'.lost = a.lost
  <2>1. app' = Told(a, a.kept, a.done, a.own) BY DEF AckApp, Told
  <2>2. a.kept \in SUBSET Ids /\ a.done \in SUBSET Out /\ a.own \in [Ids -> Out \cup {0}]
    BY <1>2 DEF Application
  <2> HIDE DEF a
  <2> QED BY <1>2, <2>1, <2>2, ToldIs
<1>23. /\ QosTypeOK' /\ Connection' /\ cli'.out = o.c.out /\ cli'.in = o.c.in /\ net' = o.n /\ ClientStays
  BY <1>2, <1>21, <1>22, HandlerReturns
<1>24. Read \in Network /\ OutNet(net, Read) /\ InNet(net, Read) BY <1>1, <1>2, NetRead DEF Read
<1>25. OutInv'
  <2>1. OutSame BY <1>1, <1>22 DEF OutSame
  <2>2. OutNet(net, net')
    <3>1. CASE o.n = WithSent(Read, q)
      <4>1. OutNet(Read, o.n) BY <1>20, <1>24, <3>1, KindsOf, NetSends DEF WithSent
      <4> QED BY <1>23, <1>24, <4>1, NetTrans
    <3> QED BY <1>21, <1>23, <3>1
  <2>3. Keeps(out, out) /\ cli'.out = out BY <1>3, <1>21, <1>23, KeepsSelf
  <2> QED BY <1>2, <1>3, <1>23, <2>1, <2>2, <2>3, OutQuiet DEF out
<1>26. InInv'
  <2>1. Head(net.b2c).type \in Orders BY <1>1, KindsOf
  <2>2. SettledIn(t, mid) /\ SettledIn(t, after) /\ SettledApp(t)
    BY <1>7, <1>8, <1>12, <1>18, <1>22, SettledOld DEF in
  <2>3. CASE o.c.in = mid /\ InNet(net, o.n)
    BY <1>1, <1>8, <1>23, <2>1, <2>2, <2>3, InSettled
  <2>4. CASE o.c.in = after /\ o.n = WithSent(Read, q)
    <3>1. Answered(net, net', q)
      BY <1>1, <1>2, <1>20, <1>23, <2>4, KindsOf DEF Answered, WithSent, Read, Network
    <3>2. (q.type = "PUBACK" <=> t.m \in Qos1) /\ (q.type = "PUBCOMP" <=> t.rel)
      BY <1>8, <1>9, <1>20
    <3> QED BY <1>1, <1>8, <1>17, <1>23, <2>1, <2>2, <2>4, <3>1, <3>2, InSettled
  <2> QED BY <1>21, <2>3, <2>4
<1> QED BY <1>23, <1>25, <1>26 DEF QosInv

LEMMA ReceiveAckKeeps ==
  ASSUME QosInv, ReceiveAck
  PROVE  QosInv'
<1> DEFINE id == Head(net.b2c).id
           type == Head(net.b2c).type
           r == AckRead(id, type)
<1>1. /\ net.b2c # <<>> /\ type \in {"PUBREL"} \cup Acks
      /\ \/ r.status # "Success" /\ Returns([ok |-> FALSE, c |-> cli, n |-> Read]) /\ app' = app
         \/ /\ r.status = "Success" /\ app' = AckApp(id, type)
            /\ \E o \in PublishAcks(WithTables(cli, r), Read, id, r.new) : Returns(o)
  BY AckReads
<1>2. IsHead(id, type) BY <1>1 DEF IsHead
<1> HIDE DEF id, type
<1>3. CASE Returns([ok |-> FALSE, c |-> cli, n |-> Read]) /\ app' = app
  BY <1>3, AckRefused
<1>4. ASSUME AckRead(id, type).status = "Success", app' = AckApp(id, type),
             NEW o \in PublishAcks(WithTables(cli, AckRead(id, type)), Read, id, AckRead(id, type).new),
             Returns(o)
      PROVE  QosInv'
  <2>1. CASE type = "PUBREL" BY <1>2, <1>4, <2>1, PubrelRead
  <2>2. CASE type = "PUBREC" BY <1>2, <1>4, <2>2, AckRelease
  <2>3. CASE type \in Acks \ {"PUBREC"} BY <1>2, <1>4, <2>3, AckEnds
  <2> QED BY <1>1, <2>1, <2>2, <2>3
<1> QED BY <1>1, <1>3, <1>4

-----------------------------------------------------------------------------
(* The broker                                                              *)

\* BrokerPublishes: a new message under an identifier that is free.
LEMMA BrokerPublishesKeeps ==
  ASSUME QosInv, BrokerPublishes
  PROVE  QosInv'
<1> DEFINE tx == brk.tx
           tx1 == brk'.tx
           F == Fwd(net.b2c)
           B == Back(net.c2b)
<1>1. PICK m \in In \ brk.sent, id \in InIds \ {brk.tx[i].id : i \in DOMAIN brk.tx} :
        /\ brk' = [brk EXCEPT !.sent = @ \cup {m}, !.tx = Append(@, [m |-> m, id |-> id, rel |-> FALSE])]
        /\ net' = [net EXCEPT !.b2c = Append(@, Pkt("PUBLISH", id, m))]
  BY DEF BrokerPublishes
<1>2. net.up /\ brk.sess /\ UNCHANGED <<cb, cli, app, drops, expiries>> BY DEF BrokerPublishes
<1> DEFINE p == Pkt("PUBLISH", id, m)
           e == [m |-> m, id |-> id, rel |-> FALSE]
<1>3. /\ p \in Packet /\ p.type = "PUBLISH" /\ p.id = id /\ p.m = m /\ p.type \in Orders
  BY PktIs, NoZero, KindsOf DEF Type, Msgs
<1>4. e \in TxEntry /\ e.m = m /\ e.id = id /\ e.rel = FALSE BY DEF TxEntry
<1>5. brk \in Broker /\ net \in Network /\ QosTypeOK /\ OutInv /\ InInv BY DEF QosInv, QosTypeOK
<1>6. /\ brk'.tx = Append(tx, e) /\ brk'.sent = brk.sent \cup {m}
      /\ brk'.sess = brk.sess /\ brk'.rx = brk.rx /\ brk'.got = brk.got /\ brk'.twice = brk.twice
  BY <1>1, <1>5 DEF Broker
<1>7. /\ net' \in Network /\ OutNet(net, net')
      /\ net'.b2c = Append(net.b2c, p) /\ net'.c2b = net.c2b /\ net'.up = net.up
  <2>1. net' = [net EXCEPT !.b2c = Append(@, p)] BY <1>1
  <2> HIDE DEF p
  <2>2. net' \in Network /\ OutNet(net, net') BY <1>3, <1>5, <2>1, NetSends
  <2> QED BY <1>5, <2>1, <2>2 DEF Network
<1> HIDE DEF p, e
<1>8. tx \in Seq(TxEntry) /\ net.b2c \in Seq(Packet) /\ net.c2b \in Seq(Packet) BY <1>5, Types
<1>9. /\ tx1 \in Seq(TxEntry) /\ DOMAIN tx = 1 .. Len(tx) /\ DOMAIN tx1 = 1 .. Len(tx) + 1 /\ Len(tx) \in Nat
      /\ \A i \in 1 .. Len(tx) : tx1[i] = tx[i]
      /\ tx1[Len(tx) + 1] = e
  BY <1>4, <1>6, <1>8, AppendAt
<1>10. ToSet(tx1) = ToSet(tx) \cup {e} BY <1>4, <1>6, <1>8, AppendSet
<1>11. brk' \in Broker
  <2>1. tx1 \in Seq([m: In, id: InIds, rel: BOOLEAN]) BY <1>9 DEF TxEntry
  <2> QED BY <1>1, <1>5, <2>1 DEF Broker
<1>12. QosTypeOK' BY <1>2, <1>5, <1>7, <1>11 DEF QosTypeOK, Client, OutCount
<1>13. Connection' BY <1>2, <1>6, <1>7 DEF QosInv, Connection
<1>14. OutInv'
  <2>1. OutSame /\ ClientStays BY <1>2, <1>6, <1>7 DEF OutSame, ClientStays
  <2>2. cli.out \in Table(OutCount, Ids) /\ OutCount \in Nat /\ 0 \notin Ids BY <1>5, Types, NoZero
  <2>3. Keeps(cli.out, cli.out) BY <2>2, KeepsSelf
  <2> QED BY <1>2, <1>5, <1>7, <2>1, <2>2, <2>3, OutQuiet
<1>15. Tx' = Tx \cup {e} BY <1>10 DEF Tx
<1>16. /\ \A t \in Tx : t.id # id /\ t.m # m /\ t.m \in brk.sent
       /\ ~ Taking(m)
  <2>1. \A t \in Tx : \E i \in DOMAIN brk.tx : t = brk.tx[i] BY DEF Tx, ToSet
  <2>2. \A t \in Tx : t.m \in brk.sent BY <1>5 DEF InInv, Sending
  <2>3. ToSet(app.got) \subseteq brk.sent BY <1>5 DEF InInv, Sending
  <2> QED BY <2>1, <2>2, <2>3 DEF Taking
<1>17. \A x : Taking(x)' <=> Taking(x) BY <1>2 DEF Taking
<1>18. Sending'
  <2>1. /\ Distinct(cli.in) /\ \A r \in Recs(cli.in) : InFits(r)
        /\ \A i, j \in DOMAIN tx : tx[i].id = tx[j].id \/ tx[i].m = tx[j].m => i = j
        /\ \A t \in Tx : t.m \in brk.sent /\ (t.rel => t.m \notin Qos1)
        /\ ToSet(app.got) \subseteq brk.sent
    BY <1>5 DEF InInv, Sending
  <2>2. ASSUME NEW i \in DOMAIN tx1, NEW j \in DOMAIN tx1, tx1[i].id = tx1[j].id \/ tx1[i].m = tx1[j].m
        PROVE  i = j
    <3>1. \A k \in DOMAIN tx : tx[k].id # id /\ tx[k].m # m BY <1>16 DEF Tx, ToSet
    <3> HIDE DEF tx, tx1
    <3>2. CASE i \in 1 .. Len(tx) /\ j \in 1 .. Len(tx) BY <1>9, <2>1, <2>2, <3>2
    <3>3. CASE i \in 1 .. Len(tx) /\ j = Len(tx) + 1 BY <1>4, <1>9, <2>2, <3>1, <3>3
    <3>4. CASE i = Len(tx) + 1 /\ j \in 1 .. Len(tx) BY <1>4, <1>9, <2>2, <3>1, <3>4
    <3> QED BY <1>9, <3>2, <3>3, <3>4
  <2>3. \A t \in Tx \cup {e} : t.m \in brk'.sent /\ (t.rel => t.m \notin Qos1) BY <1>4, <1>6, <2>1
  <2> QED BY <1>2, <1>6, <1>15, <2>1, <2>2, <2>3 DEF Sending
<1>19. InPackets'
  <2>1. /\ OnePacket(net.b2c, net.c2b)
        /\ \A q \in F : \E t \in Tx :
             t.id = q.id /\ IF q.type = "PUBLISH" THEN t.m = q.m /\ ~t.rel ELSE t.rel
        /\ \A q \in B : \E t \in Tx :
             /\ t.id = q.id /\ (q.type = "PUBACK" <=> t.m \in Qos1) /\ (q.type = "PUBCOMP" <=> t.rel)
             /\ ~app.astray => Taking(t.m) /\ (q.type # "PUBREC" => ~ Has(cli.in, q.id))
    BY <1>5 DEF InInv, InPackets
  <2>2. \A q \in F \cup B : q.id # p.id BY <1>3, <1>16, <2>1
  <2>3. OnePacket(net'.b2c, net'.c2b) BY <1>3, <1>7, <1>8, <2>1, <2>2, OneSent
  <2>4. Fwd(net'.b2c) = F \cup {p} BY <1>3, <1>7, <1>8, AppendKinds
  <2>5. \A q \in F \cup {p} : \E t \in Tx' :
          t.id = q.id /\ IF q.type = "PUBLISH" THEN t.m = q.m /\ ~t.rel ELSE t.rel
    BY <1>3, <1>4, <1>15, <2>1
  <2>6. \A q \in B : \E t \in Tx' :
          /\ t.id = q.id /\ (q.type = "PUBACK" <=> t.m \in Qos1) /\ (q.type = "PUBCOMP" <=> t.rel)
          /\ ~app.astray => Taking(t.m) /\ (q.type # "PUBREC" => ~ Has(cli.in, q.id))
    BY <1>15, <2>1
  <2> QED BY <1>2, <1>7, <1>17, <2>3, <2>4, <2>5, <2>6 DEF InPackets
<1>20. Taken'
  <2> SUFFICES ASSUME ~app.astray PROVE Taken' BY <1>2 DEF Taken
  <2>1. /\ brk.sess => \A r \in Recs(cli.in) : \E t \in Tx :
              t.id = r.id /\ r.qos = QosOf(t.m) /\ Taking(t.m)
        /\ \A t \in Tx : /\ t.rel => Taking(t.m)
                         /\ ~t.rel /\ Taking(t.m) /\ t.m \notin Qos1 => Has(cli.in, t.id)
        /\ \A x \in brk.sent \ app.lost : Taking(x) \/ \E t \in Tx : t.m = x
        /\ app.twice \subseteq Qos1
    BY <1>5 DEF InInv, Taken
  <2>2. \A r \in Recs(cli.in) : \E t \in Tx' : t.id = r.id /\ r.qos = QosOf(t.m) /\ Taking(t.m)
    BY <1>2, <1>15, <2>1
  <2>3. \A t \in Tx' : /\ t.rel => Taking(t.m)
                       /\ ~t.rel /\ Taking(t.m) /\ t.m \notin Qos1 => Has(cli.in, t.id)
    BY <1>4, <1>15, <1>16, <2>1
  <2>4. \A x \in brk'.sent \ app.lost : Taking(x) \/ \E t \in Tx' : t.m = x
    BY <1>4, <1>6, <1>15, <2>1
  <2> QED BY <1>2, <1>17, <2>1, <2>2, <2>3, <2>4 DEF Taken
<1> QED BY <1>12, <1>13, <1>14, <1>18, <1>19, <1>20 DEF QosInv, InInv

\* The answer to a PUBLISH or PUBREL, and the packets behind that.
LEMMA BrokerAnswers ==
  ASSUME QosInv, NEW h, net.c2b # <<>>, h = Head(net.c2b), h.type \in Orders,
         NEW q \in Packet, q.type \in Acks, q.id = h.id, Answer(q)
  PROVE  /\ net' \in Network /\ InNet(net, net') /\ net'.up = net.up
         /\ h \in Packet /\ Fwd(net.c2b) = Fwd(net'.c2b) \cup {h}
         /\ \A p \in Fwd(net'.c2b) : p.id # h.id
         /\ \A p \in Back(net.b2c) : p.id # h.id
         /\ Back(net'.b2c) \subseteq Back(net.b2c) \cup {q}
         /\ OnePacket(net'.c2b, net'.b2c)
         /\ Rising(net.c2b) => /\ Rising(net'.c2b)
                               /\ h.type = "PUBLISH" =>
                                    \A p \in Fwd(net'.c2b) : p.type = "PUBLISH" => h.m < p.m
<1> DEFINE k == [net EXCEPT !.c2b = Tail(@)]
<1>1. net \in Network /\ net.c2b \in Seq(Packet) /\ net.b2c \in Seq(Packet) /\ OnePacket(net.c2b, net.b2c)
  BY Types DEF QosInv, QosTypeOK, OutInv, OutPackets
<1>2. k \in Network /\ InNet(net, k) BY <1>1, NetServed
<1>3. k.up = net.up /\ k.c2b = Tail(net.c2b) /\ k.b2c = net.b2c BY <1>1 DEF Network
<1>4. net' = IF net.up THEN [k EXCEPT !.b2c = Append(@, q)] ELSE k
  BY <1>1 DEF Answer, Network
<1> HIDE DEF k
<1>5. /\ h \in Packet /\ Fwd(net.c2b) = Fwd(Tail(net.c2b)) \cup {h} /\ Tail(net.c2b) \in Seq(Packet)
  BY <1>1, TailKinds
<1>6. \A p \in Fwd(Tail(net.c2b)) \cup Back(net.b2c) : p.id # h.id BY <1>1, OneTaken
<1>7. Rising(net.c2b) => /\ Rising(Tail(net.c2b))
                         /\ h.type = "PUBLISH" =>
                              \A p \in Fwd(Tail(net.c2b)) : p.type = "PUBLISH" => h.m < p.m
  BY <1>1, TailRising
<1>8. CASE ~ net.up
  <2>1. net'.c2b = Tail(net.c2b) /\ net'.b2c = net.b2c /\ net'.up = net.up /\ net' = k BY <1>3, <1>4, <1>8
  <2>2. OnePacket(Tail(net.c2b), net.b2c) BY <1>1, OneTaken
  <2> QED BY <1>2, <1>5, <1>6, <1>7, <2>1, <2>2
<1>9. CASE net.up
  <2>1. [k EXCEPT !.b2c = Append(@, q)] \in Network /\ InNet(k, [k EXCEPT !.b2c = Append(@, q)])
    BY <1>2, NetSends
  <2>2. net' \in Network /\ InNet(k, net') BY <1>4, <1>9, <2>1
  <2>3. InNet(net, net') BY <1>2, <2>2, NetTrans
  <2>4. net'.c2b = Tail(net.c2b) /\ net'.b2c = Append(net.b2c, q) /\ net'.up = net.up
    BY <1>2, <1>3, <1>4, <1>9 DEF Network
  <2>5. Back(Append(net.b2c, q)) = Back(net.b2c) \cup {q} BY <1>1, AppendKinds
  <2>6. OnePacket(Tail(net.c2b), Append(net.b2c, q)) BY <1>1, OneAnswered
  <2> QED BY <1>5, <1>6, <1>7, <2>2, <2>3, <2>4, <2>5, <2>6
<1> QED BY <1>8, <1>9

\* What the broker remembers of a PUBLISH or PUBREL that it has read.
BrokerTakes(h) ==
  /\ brk'.sess = brk.sess /\ \A z \in Ids : z # h.id => (z \in brk'.rx <=> z \in brk.rx)
  /\ brk'.rx \subseteq Ids
  /\ IF h.type = "PUBLISH"
     THEN /\ brk'.got = (IF h.m \in ToSet(brk.got) THEN brk.got ELSE Append(brk.got, h.m))
          /\ h.id \in brk'.rx <=> h.m \notin Qos1
          /\ \/ brk'.twice = brk.twice
             \/ /\ brk'.twice = brk.twice \cup {h.m}
                /\ h.m \in Qos1 \/ (h.m \in ToSet(brk.got) /\ h.id \notin brk.rx)
     ELSE brk'.got = brk.got /\ h.id \notin brk'.rx /\ brk'.twice = brk.twice
AnswerType(h) ==
  IF h.type = "PUBREL" THEN "PUBCOMP" ELSE IF h.m \in Qos1 THEN "PUBACK" ELSE "PUBREC"

LEMMA OutServed ==
  ASSUME QosInv, NEW h, net.c2b # <<>>, h = Head(net.c2b), h.type \in Orders,
         UNCHANGED <<cb, cli, app>>, BrokerTakes(h),
         NEW q \in Packet, q.type = AnswerType(h), q.id = h.id, Answer(q)
  PROVE  OutInv'
<1> DEFINE out == cli.out
           own == app.own
           F == Fwd(net.c2b)
           F1 == Fwd(net'.c2b)
           B == Back(net.b2c)
           B1 == Back(net'.b2c)
           G == ToSet(brk.got)
           G1 == ToSet(brk'.got)
<1>1. q.type \in Acks BY KindsOf DEF AnswerType
<1>2. /\ net' \in Network /\ net'.up = net.up
      /\ h \in Packet /\ F = F1 \cup {h}
      /\ \A p \in F1 : p.id # h.id
      /\ \A p \in B : p.id # h.id
      /\ B1 \subseteq B \cup {q}
      /\ OnePacket(net'.c2b, net'.b2c)
      /\ Rising(net.c2b) => /\ Rising(net'.c2b)
                            /\ h.type = "PUBLISH" => \A p \in F1 : p.type = "PUBLISH" => h.m < p.m
  BY <1>1, BrokerAnswers
<1>3. /\ \A p \in F : IF p.type = "PUBLISH" THEN p.m = own[p.id] /\ p.m # 0 /\ StateIn(out, p.id, Unacked)
                      ELSE StateIn(out, p.id, {"PubCompPending"})
      /\ \A p \in B : IF p.type = "PUBCOMP" THEN StateIn(out, p.id, {"PubCompPending"}) /\ p.id \notin brk.rx
                      ELSE /\ StateIn(out, p.id, Unacked) /\ own[p.id] \in G
                           /\ p.type = "PUBACK" <=> own[p.id] \in Qos1
  BY DEF QosInv, OutInv, OutPackets, Delivered
<1>4. /\ Distinct(out)
      /\ \A z \in Ids : Has(out, z) <=> own[z] # 0
      /\ \A r \in Recs(out) : /\ r.qos = QosOf(own[r.id]) /\ Fits(r.st, own[r.id])
                              /\ r.st \in Unacked => r.id \in app.kept
                              /\ r.st \in Late => own[r.id] \in G
      /\ \A x, y \in Ids : own[x] = own[y] /\ own[x] # 0 => x = y
  BY DEF QosInv, OutInv, Owned, Delivered
<1>5. /\ \A z \in Ids : own[z] \in app.pub \cup {0}
      /\ G \subseteq app.pub /\ app.done \subseteq G
      /\ \A x \in app.pub, y \in Out \ app.pub : x < y
  BY DEF QosInv, OutInv, Published
<1>6. /\ \A z \in brk.rx : own[z] # 0 /\ own[z] \notin Qos1 /\ own[z] \in G
      /\ ~app.astray =>
            /\ brk.sess => \A z \in Ids :
                 StateIn(out, z, Unacked) /\ own[z] \in G /\ own[z] \notin Qos1 => z \in brk.rx
            /\ brk.twice \subseteq Qos1
  BY DEF QosInv, OutInv, Received, Delivered
<1>7. /\ out \in Table(OutCount, Ids) /\ OutCount \in Nat /\ 0 \notin Ids
      /\ own \in [Ids -> Out \cup {0}] /\ brk.got \in Seq(Out) /\ brk.rx \subseteq Ids
      /\ net.c2b \in Seq(Packet) /\ app.pub \subseteq Out
  BY Types, NoZero DEF QosInv, QosTypeOK, Broker, Application
<1>8. h.id \in Ids BY <1>2 DEF Packet
<1>9. brk.sess BY DEF QosInv, Connection
<1>10. \A i \in Used(out) : out[i].id \in Ids
  <2> HIDE DEF out
  <2> QED BY <1>7, Rows
<1>11. \A r \in Recs(out) : r.id \in Ids /\ \A s \in Recs(out) : r.id = s.id => r = s
  BY <1>4, <1>10 DEF Recs, Distinct
<1>12. app' = app /\ cli' = cli /\ cb' = cb OBVIOUS
<1> DEFINE pb == h.type = "PUBLISH"
<1>13. pb => /\ h.m = own[h.id] /\ h.m # 0 /\ StateIn(out, h.id, Unacked) /\ h.m \in Out
             /\ h.m \in app.pub /\ G1 = G \cup {h.m}
             /\ brk'.got = (IF h.m \in G THEN brk.got ELSE Append(brk.got, h.m))
  <2> SUFFICES ASSUME pb
               PROVE /\ h.m = own[h.id] /\ h.m # 0 /\ StateIn(out, h.id, Unacked) /\ h.m \in Out
                     /\ h.m \in app.pub /\ G1 = G \cup {h.m}
                     /\ brk'.got = (IF h.m \in G THEN brk.got ELSE Append(brk.got, h.m))
    OBVIOUS
  <2>1. h.m = own[h.id] /\ h.m # 0 /\ StateIn(out, h.id, Unacked) /\ h.m \in Out BY <1>2, <1>3, <1>7, <1>8
  <2>2. h.m \in app.pub BY <1>5, <1>8, <2>1
  <2>3. brk'.got = (IF h.m \in G THEN brk.got ELSE Append(brk.got, h.m)) BY DEF BrokerTakes
  <2>4. ToSet(Append(brk.got, h.m)) = G \cup {h.m} BY <1>7, <2>1, AppendSet
  <2> QED BY <2>1, <2>2, <2>3, <2>4
<1>14. ~pb => /\ h.type = "PUBREL" /\ StateIn(out, h.id, {"PubCompPending"}) /\ brk'.got = brk.got
              /\ h.id \notin brk'.rx /\ brk'.twice = brk.twice
  BY <1>2, <1>3 DEF Orders, BrokerTakes
<1>15. /\ brk'.sess = brk.sess /\ brk'.rx \subseteq Ids
       /\ \A z \in Ids : z # h.id => (z \in brk'.rx <=> z \in brk.rx)
       /\ pb => (h.id \in brk'.rx <=> h.m \notin Qos1)
       /\ pb => \/ brk'.twice = brk.twice
                \/ brk'.twice = brk.twice \cup {h.m} /\ (h.m \in Qos1 \/ (h.m \in G /\ h.id \notin brk.rx))
  BY DEF BrokerTakes
<1>16. G \subseteq G1 /\ G1 \subseteq app.pub BY <1>5, <1>13, <1>14
<1>17. Owned' <=>
         /\ Distinct(out)
         /\ \A z \in Ids : Has(out, z) <=> own[z] # 0
         /\ \A r \in Recs(out) : /\ r.qos = QosOf(own[r.id]) /\ Fits(r.st, own[r.id])
                                 /\ r.st \in Unacked => r.id \in app.kept
                                 /\ r.st \in Late => own[r.id] \in G1
         /\ \A x, y \in Ids : own[x] = own[y] /\ own[x] # 0 => x = y
  BY <1>12 DEF Owned, Delivered
<1>18. Owned' BY <1>4, <1>16, <1>17
<1>19. Published' BY <1>5, <1>12, <1>16 DEF Published
<1>20. OutPackets' <=>
         /\ OnePacket(net'.c2b, net'.b2c)
         /\ \A p \in F1 : IF p.type = "PUBLISH" THEN p.m = own[p.id] /\ p.m # 0 /\ StateIn(out, p.id, Unacked)
                          ELSE StateIn(out, p.id, {"PubCompPending"})
         /\ \A p \in B1 : IF p.type = "PUBCOMP" THEN StateIn(out, p.id, {"PubCompPending"}) /\ p.id \notin brk'.rx
                          ELSE /\ StateIn(out, p.id, Unacked) /\ own[p.id] \in G1
                               /\ p.type = "PUBACK" <=> own[p.id] \in Qos1
  BY <1>12 DEF OutPackets, Delivered
<1>21. Received' <=>
         /\ \A z \in brk'.rx : own[z] # 0 /\ own[z] \notin Qos1 /\ own[z] \in G1
         /\ ~app.astray =>
            /\ brk'.sess => \A z \in Ids :
                 StateIn(out, z, Unacked) /\ own[z] \in G1 /\ own[z] \notin Qos1 => z \in brk'.rx
            /\ brk'.twice \subseteq Qos1
  BY <1>12 DEF Received, Delivered
<1>22. \A id : OutBusy(id)' => OutBusy(id)
  <2>1. \A p \in F1 \cup B1 : \E y \in F \cup B : y.id = p.id BY <1>2
  <2> QED BY <2>1 DEF OutBusy
<1>23. Resending' BY <1>12, <1>22 DEF QosInv, OutInv, Resending
<1>24. cb => FirstInOrder /\ TableOrder /\ QueueOrder BY DEF QosInv, OutInv, Ordered
<1>25. q.type = AnswerType(h) /\ q.id = h.id OBVIOUS
<1> HIDE DEF out, own, F, F1, B, B1, G, G1, pb
<1>26. OutPackets'
  <2>1. \A p \in F1 : IF p.type = "PUBLISH" THEN p.m = own[p.id] /\ p.m # 0 /\ StateIn(out, p.id, Unacked)
                      ELSE StateIn(out, p.id, {"PubCompPending"})
    BY <1>2, <1>3
  <2>2. ASSUME NEW p \in B1
        PROVE  IF p.type = "PUBCOMP" THEN StateIn(out, p.id, {"PubCompPending"}) /\ p.id \notin brk'.rx
               ELSE /\ StateIn(out, p.id, Unacked) /\ own[p.id] \in G1
                    /\ p.type = "PUBACK" <=> own[p.id] \in Qos1
    <3>1. CASE p \in B
      <4>1. p.id # h.id BY <1>2, <3>1
      <4>2. \E S : StateIn(out, p.id, S) BY <1>3, <3>1
      <4>3. p.id \in Ids BY <1>11, <4>2 DEF StateIn
      <4> QED BY <1>3, <1>15, <1>16, <3>1, <4>1, <4>3
    <3>2. CASE p = q
      <4>1. CASE pb
        <5>1. h.type # "PUBREL" BY <4>1 DEF pb
        <5> QED BY <1>13, <1>25, <3>2, <4>1, <5>1 DEF AnswerType
      <4>2. CASE ~pb BY <1>14, <1>25, <3>2, <4>2 DEF AnswerType
      <4> QED BY <4>1, <4>2
    <3> QED BY <1>2, <3>1, <3>2
  <2> QED BY <1>2, <1>20, <2>1, <2>2
<1>27. Received'
  <2>1. ASSUME NEW z \in brk'.rx PROVE own[z] # 0 /\ own[z] \notin Qos1 /\ own[z] \in G1
    <3>1. CASE z = h.id BY <1>13, <1>14, <1>15, <2>1, <3>1
    <3>2. CASE z # h.id BY <1>6, <1>15, <1>16, <2>1, <3>2
    <3> QED BY <3>1, <3>2
  <2>2. ASSUME ~app.astray, NEW z \in Ids, StateIn(out, z, Unacked), own[z] \in G1, own[z] \notin Qos1
        PROVE  z \in brk'.rx
    <3>1. CASE z = h.id
      <4>1. pb
        <5> SUFFICES ASSUME ~pb PROVE FALSE OBVIOUS
        <5>1. StateIn(out, z, {"PubCompPending"}) BY <1>14, <3>1
        <5>2. "PubCompPending" \notin Unacked BY DEF Unacked
        <5> QED BY <1>11, <2>2, <5>1, <5>2 DEF StateIn
      <4> QED BY <1>13, <1>15, <2>2, <3>1, <4>1
    <3>2. CASE z # h.id
      <4>1. own[z] \in G BY <1>4, <1>8, <1>13, <1>14, <2>2, <3>2 DEF G, G1
      <4> QED BY <1>6, <1>9, <1>15, <2>2, <3>2, <4>1
    <3> QED BY <3>1, <3>2
  <2>3. ASSUME ~app.astray PROVE brk'.twice \subseteq Qos1
    <3>1. CASE pb
      <4>1. h.m \in G /\ h.id \notin brk.rx => h.m \in Qos1 BY <1>6, <1>8, <1>9, <1>13, <2>3, <3>1
      <4> QED BY <1>6, <1>15, <2>3, <3>1, <4>1
    <3>2. CASE ~pb BY <1>6, <1>14, <2>3, <3>2
    <3> QED BY <3>1, <3>2
  <2> QED BY <1>21, <2>1, <2>2, <2>3
<1>28. ASSUME cb PROVE FirstInOrder' /\ TableOrder' /\ QueueOrder'
  <2>1. FirstInOrder /\ TableOrder /\ QueueOrder BY <1>24, <1>28
  <2>2. \A r : /\ Waits(r) <=> r.st \in Unacked /\ own[r.id] \notin G
               /\ Waits(r)' <=> r.st \in Unacked /\ own[r.id] \notin G1
    BY <1>12 DEF Waits, Delivered, own, G, G1
  <2>3. /\ \A i, j \in Used(out) : i < j /\ out[i].st \in Unacked /\ out[j].st \in Unacked
             => own[out[i].id] < own[out[j].id]
        /\ \A r \in Recs(out) : Waits(r) => \A k \in G : k < own[r.id]
    BY <2>1 DEF TableOrder, out, own, G
  <2>4. /\ Rising(net.c2b)
        /\ \A p \in F, r \in Recs(out) : p.type = "PUBLISH" /\ Waits(r) /\ own[r.id] < p.m => Sent(r.id)
    BY <2>1 DEF QueueOrder, out, own, F
  <2>5. \A z \in Ids : Sent(z) => Pkt("PUBLISH", z, own[z]) \in F BY DEF Sent, own, F
  <2>6. \A z \in Ids : Pkt("PUBLISH", z, own[z]) \in F1 => Sent(z)' BY <1>12 DEF Sent, own, F1
  <2>7. \A z \in Ids : /\ Pkt("PUBLISH", z, own[z]).type = "PUBLISH" /\ Pkt("PUBLISH", z, own[z]).id = z
                       /\ Pkt("PUBLISH", z, own[z]).m = own[z]
    BY DEF Pkt
  <2>8. ASSUME NEW r \in Recs(out), Waits(r)', Sent(r.id) PROVE Sent(r.id)'
    <3>1. r.id \in Ids BY <1>11
    <3>2. Pkt("PUBLISH", r.id, own[r.id]) # h
      <4> SUFFICES ASSUME Pkt("PUBLISH", r.id, own[r.id]) = h PROVE FALSE OBVIOUS
      <4>1. h.id = r.id /\ h.type = "PUBLISH" BY <2>7, <3>1
      <4>2. own[r.id] \in G1 BY <1>13, <4>1 DEF pb
      <4> QED BY <2>2, <2>8, <4>2
    <3> QED BY <1>2, <2>5, <2>6, <2>8, <3>1, <3>2
  <2>9. \A r \in Recs(out) : Waits(r)' => Waits(r) BY <1>16, <2>2
  <2>10. ASSUME NEW r \in Recs(out), Waits(r)', pb PROVE h.m < own[r.id]
    <3>1. Waits(r) /\ r.id \in Ids /\ own[r.id] # h.m BY <1>11, <1>13, <2>2, <2>9, <2>10
    <3>2. h.m \in Nat /\ own[r.id] \in Nat
      <4>1. own[r.id] \in Out \cup {0} BY <1>7, <3>1
      <4> QED BY <1>13, <2>10, <4>1, QosConstants
    <3> SUFFICES ASSUME own[r.id] < h.m PROVE FALSE BY <3>1, <3>2
    <3>3. Sent(r.id) BY <1>2, <2>4, <2>10, <3>1 DEF pb
    <3>4. Sent(r.id)' BY <2>8, <2>10, <3>3
    <3>5. Pkt("PUBLISH", r.id, own[r.id]) \in F1 BY <1>12, <3>4 DEF Sent, own, F1
    <3>6. h.m < own[r.id] BY <1>2, <2>4, <2>7, <2>10, <3>1, <3>5 DEF pb
    <3> QED BY <3>2, <3>6
  <2>11. TableOrder'
    <3>1. \A r \in Recs(out) : Waits(r)' => \A k \in G1 : k < own[r.id]
      BY <1>13, <1>14, <2>3, <2>9, <2>10 DEF G, G1
    <3> QED BY <1>12, <2>3, <3>1 DEF TableOrder, out, own, G1
  <2>12. QueueOrder'
    <3>1. Rising(net'.c2b) BY <1>2, <2>4
    <3>2. \A p \in F1, r \in Recs(out) : p.type = "PUBLISH" /\ Waits(r)' /\ own[r.id] < p.m => Sent(r.id)'
      BY <1>2, <2>4, <2>8, <2>9
    <3>3. ASSUME net'.up, cli.conn = "Connected", ~cli.bad, cli.pc \in {"idle", "publishes"},
                 NEW i \in Used(out), NEW r, r = out[i], Waits(r)', cli.pc = "publishes" => i <= cli.cursor
          PROVE  Sent(r.id)'
      <4>1. r \in Recs(out) BY <3>3 DEF Recs
      <4>2. Sent(out[i].id) BY <1>2, <2>1, <2>9, <3>3, <4>1 DEF QueueOrder, out
      <4> QED BY <2>8, <3>3, <4>1, <4>2
    <3> QED BY <1>12, <3>1, <3>2, <3>3 DEF QueueOrder, out, own, F1, Waits, Delivered, Sent
  <2>13. FirstInOrder'
    <3>1. CASE brk'.got = brk.got BY <2>1, <3>1 DEF FirstInOrder
    <3>2. CASE brk'.got # brk.got
      <4>1. pb /\ h.m \notin G /\ brk'.got = Append(brk.got, h.m) BY <1>13, <1>14, <3>2
      <4>2. PICK r \in Recs(out) : r.id = h.id /\ r.st \in Unacked BY <1>13, <4>1 DEF StateIn
      <4>3. Waits(r) BY <1>13, <2>2, <4>1, <4>2
      <4>4. \A k \in G : k < h.m BY <1>13, <2>3, <4>1, <4>2, <4>3
      <4>5. \A i \in DOMAIN brk.got : brk.got[i] \in G BY DEF G, ToSet
      <4>6. /\ DOMAIN brk.got = 1 .. Len(brk.got) /\ DOMAIN brk'.got = 1 .. Len(brk.got) + 1 /\ Len(brk.got) \in Nat
            /\ \A i \in 1 .. Len(brk.got) : brk'.got[i] = brk.got[i]
            /\ brk'.got[Len(brk.got) + 1] = h.m
        BY <1>7, <1>13, <4>1, AppendAt
      <4>7. \A i, j \in DOMAIN brk.got : i < j => brk.got[i] < brk.got[j] BY <1>28, <2>1 DEF FirstInOrder
      <4>8. ASSUME NEW i \in DOMAIN brk'.got, NEW j \in DOMAIN brk'.got, i < j PROVE brk'.got[i] < brk'.got[j]
        <5>1. i \in DOMAIN brk.got /\ brk'.got[i] = brk.got[i] BY <4>6, <4>8
        <5>2. CASE j = Len(brk.got) + 1 BY <4>4, <4>5, <4>6, <5>1, <5>2
        <5>3. CASE j \in DOMAIN brk.got BY <4>6, <4>7, <4>8, <5>1, <5>3
        <5> QED BY <4>6, <5>2, <5>3
      <4> QED BY <4>8 DEF FirstInOrder
    <3> QED BY <3>1, <3>2
  <2> QED BY <2>11, <2>12, <2>13
<1> QED BY <1>12, <1>18, <1>19, <1>23, <1>26, <1>27, <1>28 DEF OutInv, Ordered

\* What the broker forgets, or notes, of an entry that is acknowledged.
EntryAcked(h) ==
  /\ \A i, j \in DOMAIN brk'.tx :
       brk'.tx[i].id = brk'.tx[j].id \/ brk'.tx[i].m = brk'.tx[j].m => i = j
  /\ \A t \in Tx : t.id # h.id => t \in ToSet(brk'.tx)
  /\ \A t \in ToSet(brk'.tx) :
       \/ t \in Tx /\ t.id # h.id
       \/ h.type = "PUBREC" /\ t.rel /\ \E u \in Tx : u.id = h.id /\ t.id = h.id /\ t.m = u.m
  /\ h.type = "PUBREC" => \E t \in ToSet(brk'.tx) : t.id = h.id

\* The packets behind it, and perhaps the PUBREL that answers a PUBREC.
NetFreed(h) ==
  /\ OnePacket(net'.b2c, net'.c2b)
  /\ \A p \in Fwd(net'.b2c) : \/ p \in Fwd(net.b2c)
                              \/ h.type = "PUBREC" /\ p.type = "PUBREL" /\ p.id = h.id
  /\ \A p \in Back(net'.c2b) : p \in Back(net.c2b) /\ p.id # h.id

LEMMA InServed ==
  ASSUME QosInv, NEW h, net.c2b # <<>>, h = Head(net.c2b), h.type \in Acks,
         UNCHANGED <<cb, cli, app>>, brk'.sess = brk.sess, brk'.sent = brk.sent,
         EntryAcked(h), NetFreed(h)
  PROVE  InInv'
<1> DEFINE F == Fwd(net.b2c)
           F1 == Fwd(net'.b2c)
           B == Back(net.c2b)
           B1 == Back(net'.c2b)
           T1 == ToSet(brk'.tx)
<1>1. /\ net.c2b \in Seq(Packet) /\ net.b2c \in Seq(Packet) /\ OnePacket(net.b2c, net.c2b)
      /\ \A p \in F : \E t \in Tx :
           t.id = p.id /\ IF p.type = "PUBLISH" THEN t.m = p.m /\ ~t.rel ELSE t.rel
      /\ \A p \in B : \E t \in Tx :
           /\ t.id = p.id /\ (p.type = "PUBACK" <=> t.m \in Qos1) /\ (p.type = "PUBCOMP" <=> t.rel)
           /\ ~app.astray => Taking(t.m) /\ (p.type # "PUBREC" => ~ Has(cli.in, p.id))
  BY Types DEF QosInv, InInv, InPackets
<1>2. h \in B /\ h \in Packet BY <1>1, TailKinds
<1>3. \A p \in F : p.id # h.id BY <1>1, <1>2 DEF OnePacket
<1>4. PICK u \in Tx :
        /\ u.id = h.id /\ (h.type = "PUBACK" <=> u.m \in Qos1) /\ (h.type = "PUBCOMP" <=> u.rel)
        /\ ~app.astray => Taking(u.m) /\ (h.type # "PUBREC" => ~ Has(cli.in, h.id))
  BY <1>1, <1>2
<1>5. \A t \in Tx : t.id = h.id => t = u BY <1>4, TxUnique
<1>6. /\ \A t \in Tx : t.id # h.id => t \in T1
      /\ \A t \in T1 : \/ t \in Tx /\ t.id # h.id
                       \/ h.type = "PUBREC" /\ t.rel /\ t.id = h.id /\ t.m = u.m
      /\ h.type = "PUBREC" => \E t \in T1 : t.id = h.id
  BY <1>5 DEF EntryAcked
<1>7. /\ OnePacket(net'.b2c, net'.c2b)
      /\ \A p \in F1 : \/ p \in F
                       \/ h.type = "PUBREC" /\ p.type = "PUBREL" /\ p.id = h.id
      /\ \A p \in B1 : p \in B /\ p.id # h.id
  BY DEF NetFreed
<1>8. h.type = "PUBREC" => h.type # "PUBACK" /\ h.type # "PUBCOMP" OBVIOUS
<1>9. Tx' = T1 /\ \A x : Taking(x)' <=> Taking(x) BY DEF Tx, Taking
<1>10. cb' = cb /\ cli' = cli /\ app' = app OBVIOUS
<1> HIDE DEF F, F1, B, B1, T1
<1>11. Sending'
  <2>1. /\ Distinct(cli.in) /\ \A r \in Recs(cli.in) : InFits(r)
        /\ \A t \in Tx : t.m \in brk.sent /\ (t.rel => t.m \notin Qos1)
        /\ ToSet(app.got) \subseteq brk.sent
    BY DEF QosInv, InInv, Sending
  <2>2. \A t \in T1 : t.m \in brk.sent /\ (t.rel => t.m \notin Qos1) BY <1>4, <1>6, <1>8, <2>1
  <2>3. \A i, j \in DOMAIN brk'.tx :
          brk'.tx[i].id = brk'.tx[j].id \/ brk'.tx[i].m = brk'.tx[j].m => i = j
    BY DEF EntryAcked
  <2> QED BY <1>9, <1>10, <2>1, <2>2, <2>3 DEF Sending
<1>12. InPackets'
  <2>1. ASSUME NEW p \in F1
        PROVE  \E t \in T1 : t.id = p.id /\ IF p.type = "PUBLISH" THEN t.m = p.m /\ ~t.rel ELSE t.rel
    <3>1. CASE p \in F
      <4>1. PICK t \in Tx : t.id = p.id /\ IF p.type = "PUBLISH" THEN t.m = p.m /\ ~t.rel ELSE t.rel
        BY <1>1, <3>1
      <4>2. t \in T1 BY <1>3, <1>6, <3>1, <4>1
      <4> QED BY <4>1, <4>2
    <3>2. CASE h.type = "PUBREC" /\ p.type = "PUBREL" /\ p.id = h.id
      <4>1. PICK t \in T1 : t.id = h.id BY <1>6, <3>2
      <4>2. t.rel BY <1>6, <4>1
      <4> QED BY <3>2, <4>1, <4>2
    <3> QED BY <1>7, <3>1, <3>2
  <2>2. ASSUME NEW p \in B1
        PROVE  \E t \in T1 :
                 /\ t.id = p.id /\ (p.type = "PUBACK" <=> t.m \in Qos1) /\ (p.type = "PUBCOMP" <=> t.rel)
                 /\ ~app.astray => Taking(t.m) /\ (p.type # "PUBREC" => ~ Has(cli.in, p.id))
    BY <1>1, <1>6, <1>7
  <2> QED BY <1>7, <1>9, <1>10, <2>1, <2>2 DEF InPackets, F1, B1
<1>13. Taken'
  <2> SUFFICES ASSUME ~app.astray PROVE Taken' BY <1>10 DEF Taken
  <2>1. /\ brk.sess => \A r \in Recs(cli.in) : \E t \in Tx :
              t.id = r.id /\ r.qos = QosOf(t.m) /\ Taking(t.m)
        /\ \A t \in Tx : /\ t.rel => Taking(t.m)
                         /\ ~t.rel /\ Taking(t.m) /\ t.m \notin Qos1 => Has(cli.in, t.id)
        /\ \A x \in brk.sent \ app.lost : Taking(x) \/ \E t \in Tx : t.m = x
        /\ app.twice \subseteq Qos1
    BY DEF QosInv, InInv, Taken
  <2>2. ASSUME brk.sess, NEW r \in Recs(cli.in)
        PROVE  \E t \in T1 : t.id = r.id /\ r.qos = QosOf(t.m) /\ Taking(t.m)
    <3>1. PICK t \in Tx : t.id = r.id /\ r.qos = QosOf(t.m) /\ Taking(t.m) BY <2>1, <2>2
    <3>2. CASE t.id # h.id BY <1>6, <3>1, <3>2
    <3>3. CASE t.id = h.id
      <4>1. Has(cli.in, h.id) BY <3>1, <3>3 DEF Has
      <4>2. h.type = "PUBREC" BY <1>4, <4>1
      <4>3. t = u BY <1>5, <3>3
      <4>4. PICK v \in T1 : v.id = h.id BY <1>6, <4>2
      <4>5. v.m = u.m BY <1>6, <4>4
      <4> QED BY <3>1, <3>3, <4>3, <4>4, <4>5
    <3> QED BY <3>2, <3>3
  <2>3. \A t \in T1 : /\ t.rel => Taking(t.m)
                      /\ ~t.rel /\ Taking(t.m) /\ t.m \notin Qos1 => Has(cli.in, t.id)
    BY <1>4, <1>6, <2>1
  <2>4. ASSUME NEW x \in brk.sent \ app.lost PROVE Taking(x) \/ \E t \in T1 : t.m = x
    <3>1. CASE Taking(x) BY <3>1
    <3>2. CASE \E t \in Tx : t.m = x
      <4>1. PICK t \in Tx : t.m = x BY <3>2
      <4>2. t \in T1 \/ t = u BY <1>5, <1>6
      <4> QED BY <1>4, <4>1, <4>2
    <3> QED BY <2>1, <3>1, <3>2
  <2> QED BY <1>9, <1>10, <2>1, <2>2, <2>3, <2>4 DEF Taken
<1> QED BY <1>11, <1>12, <1>13 DEF InInv

LEMMA ConcatLen ==
  ASSUME NEW P, NEW a \in Seq(P), NEW b \in Seq(P)
  PROVE  a \o b \in Seq(P) /\ Len(a \o b) = Len(a) + Len(b) /\ DOMAIN (a \o b) = 1 .. Len(a) + Len(b)
<1>1. a \o b \in Seq(P) OBVIOUS
<1>2. Len(a \o b) = Len(a) + Len(b) OBVIOUS
<1>3. DOMAIN (a \o b) = 1 .. Len(a) + Len(b) OBVIOUS
<1> QED BY <1>1, <1>2, <1>3

LEMMA ConcatAt ==
  ASSUME NEW P, NEW a \in Seq(P), NEW b \in Seq(P), NEW k \in 1 .. Len(a) + Len(b)
  PROVE  (a \o b)[k] = IF k <= Len(a) THEN a[k] ELSE b[k - Len(a)]
  OBVIOUS

LEMMA RemovedAt ==
  ASSUME NEW P, NEW s \in Seq(P), NEW i \in 1 .. Len(s)
  PROVE  /\ RemoveAt(s, i) \in Seq(P) /\ DOMAIN RemoveAt(s, i) = 1 .. Len(s) - 1
         /\ \A k \in 1 .. Len(s) - 1 : RemoveAt(s, i)[k] = IF k < i THEN s[k] ELSE s[k + 1]
<1> DEFINE a == SubSeq(s, 1, i - 1)
           b == SubSeq(s, i + 1, Len(s))
<1>1. /\ a \in Seq(P) /\ Len(a) = i - 1 /\ \A k \in 1 .. i - 1 : a[k] = s[k]
      /\ b \in Seq(P) /\ Len(b) = Len(s) - i /\ \A k \in 1 .. Len(s) - i : b[k] = s[k + i]
      /\ Len(s) \in Nat
  OBVIOUS
<1>2. RemoveAt(s, i) = a \o b BY DEF RemoveAt
<1> HIDE DEF a, b
<1>3. a \o b \in Seq(P) /\ DOMAIN (a \o b) = 1 .. Len(s) - 1
  <2>1. a \in Seq(P) /\ b \in Seq(P) BY <1>1
  <2>2. a \o b \in Seq(P) /\ DOMAIN (a \o b) = 1 .. Len(a) + Len(b) BY <2>1, ConcatLen
  <2>3. Len(a) + Len(b) = Len(s) - 1 BY <1>1
  <2> QED BY <2>2, <2>3
<1>4. ASSUME NEW k \in 1 .. Len(s) - 1 PROVE (a \o b)[k] = IF k < i THEN s[k] ELSE s[k + 1]
  <2>1. a \in Seq(P) /\ b \in Seq(P) /\ k \in 1 .. Len(a) + Len(b) BY <1>1
  <2>2. (a \o b)[k] = IF k <= Len(a) THEN a[k] ELSE b[k - Len(a)] BY <2>1, ConcatAt
  <2>3. CASE k < i BY <1>1, <2>2, <2>3
  <2>4. CASE ~ (k < i)
    <3>1. k - Len(a) \in 1 .. Len(s) - i /\ (k - Len(a)) + i = k + 1 /\ ~ (k <= Len(a)) BY <1>1, <2>4
    <3>2. b[k - Len(a)] = s[(k - Len(a)) + i] BY <1>1, <3>1
    <3>3. (a \o b)[k] = b[k - Len(a)] BY <2>2, <3>1
    <3> QED BY <2>4, <3>1, <3>2, <3>3
  <2> QED BY <2>3, <2>4
<1> QED BY <1>2, <1>3, <1>4

\* BrokerReads of a PUBLISH or PUBREL: it is taken, and answered.
LEMMA ServeKeeps ==
  ASSUME QosInv, NEW h, net.c2b # <<>>, h = Head(net.c2b), h.type \in Orders,
         UNCHANGED <<cb, cli, app, drops, expiries>>, BrokerTakes(h), brk' \in Broker,
         brk'.tx = brk.tx, brk'.sent = brk.sent,
         NEW q \in Packet, q.type = AnswerType(h), q.id = h.id, Answer(q)
  PROVE  QosInv'
<1>1. q.type \in Acks BY KindsOf DEF AnswerType
<1>2. net' \in Network /\ InNet(net, net') /\ net'.up = net.up BY <1>1, BrokerAnswers
<1>3. OutInv' BY OutServed
<1>4. InInv'
  <2>1. InSame BY DEF InSame, BrokerTakes
  <2>2. QosTypeOK /\ InInv BY DEF QosInv
  <2>3. cli.in \in Table(InCount, InIds) /\ InCount \in Nat /\ 0 \notin InIds BY <2>2, Types, NoZero
  <2>4. Keeps(cli.in, cli.in) BY <2>3, KeepsSelf
  <2> QED BY <1>2, <2>1, <2>2, <2>3, <2>4, InQuiet
<1>5. QosTypeOK' BY <1>2 DEF QosInv, QosTypeOK, Client, OutCount
<1>6. brk'.sess = brk.sess /\ brk.sess BY DEF BrokerTakes, QosInv, Connection
<1>7. Connection' BY <1>2, <1>6 DEF QosInv, Connection
<1> QED BY <1>3, <1>4, <1>5, <1>7 DEF QosInv

\* BrokerReads of an acknowledgement: its entry is noted or gone.
LEMMA FreeKeeps ==
  ASSUME QosInv, NEW h, net.c2b # <<>>, h = Head(net.c2b), h.type \in Acks,
         UNCHANGED <<cb, cli, app, drops, expiries>>, brk' \in Broker,
         brk'.sess = brk.sess, brk'.sent = brk.sent, brk'.rx = brk.rx,
         brk'.got = brk.got, brk'.twice = brk.twice, EntryAcked(h),
         \/ h.type # "PUBREC" /\ Silent
         \/ h.type = "PUBREC" /\ Answer(Pkt("PUBREL", h.id, 0))
  PROVE  QosInv'
<1> DEFINE k == [net EXCEPT !.c2b = Tail(@)]
           q == Pkt("PUBREL", h.id, 0)
<1>1. net \in Network /\ net.c2b \in Seq(Packet) /\ net.b2c \in Seq(Packet) /\ OnePacket(net.b2c, net.c2b)
  BY Types DEF QosInv, QosTypeOK, InInv, InPackets
<1>2. k \in Network /\ InNet(net, k) /\ OutNet(net, k) BY <1>1, NetServed
<1>3. k.up = net.up /\ k.c2b = Tail(net.c2b) /\ k.b2c = net.b2c BY <1>1 DEF Network
<1>4. /\ Tail(net.c2b) \in Seq(Packet) /\ h \in Packet /\ Back(net.c2b) = Back(Tail(net.c2b)) \cup {h}
  BY <1>1, TailKinds
<1>5. OnePacket(net.b2c, Tail(net.c2b)) BY <1>1, OneTaken
<1>6. \A p \in Fwd(net.b2c) \cup Back(Tail(net.c2b)) : p.id # h.id BY <1>1, OneTaken
<1>7. /\ q \in Packet /\ q.type = "PUBREL" /\ q.id = h.id /\ q.type \in Orders
  BY <1>4, PktIs, KindsOf DEF Type, Packet
<1>8. \/ net' = k
      \/ h.type = "PUBREC" /\ net.up /\ net' = [k EXCEPT !.b2c = Append(@, q)]
  BY <1>1 DEF Answer, Silent, Network
<1> HIDE DEF k, q
<1>9. /\ net' \in Network /\ OutNet(net, net') /\ NetFreed(h) /\ net'.up = net.up
  <2>1. CASE net' = k BY <1>2, <1>3, <1>4, <1>5, <1>6, <2>1 DEF NetFreed
  <2>2. CASE h.type = "PUBREC" /\ net.up /\ net' = [k EXCEPT !.b2c = Append(@, q)]
    <3>1. [k EXCEPT !.b2c = Append(@, q)] \in Network /\ OutNet(k, [k EXCEPT !.b2c = Append(@, q)])
      BY <1>2, <1>7, NetSends
    <3>2. net' \in Network /\ OutNet(k, net') BY <2>2, <3>1
    <3>3. OutNet(net, net') BY <1>2, <3>2, NetTrans
    <3>4. net'.c2b = Tail(net.c2b) /\ net'.b2c = Append(net.b2c, q) /\ net'.up = net.up
      BY <1>2, <1>3, <2>2 DEF Network
    <3>5. OnePacket(Append(net.b2c, q), Tail(net.c2b)) BY <1>1, <1>7, OneReplied
    <3>6. Fwd(Append(net.b2c, q)) = Fwd(net.b2c) \cup {q} BY <1>1, <1>7, AppendKinds
    <3> QED BY <1>4, <1>6, <1>7, <2>2, <3>2, <3>3, <3>4, <3>5, <3>6 DEF NetFreed
  <2> QED BY <1>8, <2>1, <2>2
<1>10. InInv' BY <1>9, InServed
<1>11. OutInv'
  <2>1. OutSame /\ ClientStays BY <1>9 DEF OutSame, ClientStays
  <2>2. QosTypeOK /\ OutInv BY DEF QosInv
  <2>3. cli.out \in Table(OutCount, Ids) /\ OutCount \in Nat /\ 0 \notin Ids BY <2>2, Types, NoZero
  <2>4. Keeps(cli.out, cli.out) BY <2>3, KeepsSelf
  <2> QED BY <1>9, <2>1, <2>2, <2>3, <2>4, OutQuiet
<1>12. QosTypeOK' BY <1>9 DEF QosInv, QosTypeOK, Client, OutCount
<1>13. brk.sess BY DEF QosInv, Connection
<1>14. Connection' BY <1>9, <1>13 DEF QosInv, Connection
<1> QED BY <1>10, <1>11, <1>12, <1>14 DEF QosInv

\* The PUBLISH at the head of the other queue.
LEMMA HeadOut ==
  ASSUME QosInv, NEW h, net.c2b # <<>>, h = Head(net.c2b)
  PROVE  /\ h \in Packet
         /\ h.type = "PUBLISH" => /\ h.m \in Out /\ h.m = app.own[h.id]
                                  /\ h.id \in brk.rx => h.m \notin Qos1 /\ h.m \in ToSet(brk.got)
<1>1. net.c2b \in Seq(Packet) /\ app.own \in [Ids -> Out \cup {0}]
  BY Types DEF QosInv
<1>2. h \in Packet /\ h \in ToSet(net.c2b) BY <1>1, TailSet, TailAt
<1>3. h.type = "PUBLISH" => h \in Fwd(net.c2b) BY <1>2, KindsOf DEF Fwd
<1>4. h.type = "PUBLISH" => h.m = app.own[h.id] /\ h.m # 0
  BY <1>3 DEF QosInv, OutInv, OutPackets
<1>5. h.id \in brk.rx => app.own[h.id] \notin Qos1 /\ app.own[h.id] \in ToSet(brk.got)
  BY DEF QosInv, OutInv, Received, Delivered
<1>6. h.id \in Ids BY <1>2 DEF Packet
<1> QED BY <1>1, <1>2, <1>4, <1>5, <1>6

\* What the broker becomes.
Took(m, rx) == [HandOver(brk, m) EXCEPT !.rx = rx]

LEMMA TookIs ==
  ASSUME brk \in Broker, NEW m \in Out, NEW rx \in SUBSET Ids
  PROVE  /\ Took(m, rx) \in Broker /\ Took(m, rx).rx = rx
         /\ Took(m, rx).got = (IF m \in ToSet(brk.got) THEN brk.got ELSE Append(brk.got, m))
         /\ Took(m, rx).twice = (IF m \in ToSet(brk.got) THEN brk.twice \cup {m} ELSE brk.twice)
         /\ Took(m, rx).sess = brk.sess /\ Took(m, rx).tx = brk.tx /\ Took(m, rx).sent = brk.sent
<1> DEFINE b == HandOver(brk, m)
<1>1. /\ b \in Broker
      /\ b.twice = IF m \in ToSet(brk.got) THEN brk.twice \cup {m} ELSE brk.twice
      /\ b.got = IF m \in ToSet(brk.got) THEN brk.got ELSE Append(brk.got, m)
      /\ b.sess = brk.sess /\ b.rx = brk.rx /\ b.tx = brk.tx /\ b.sent = brk.sent
  BY HandOverOut
<1>2. Took(m, rx) = [b EXCEPT !.rx = rx] BY DEF Took
<1> HIDE DEF b
<1> QED BY <1>1, <1>2 DEF Broker

\* A PUBLISH of QoS 1, or one of QoS 2, or a PUBREL.
LEMMA TakesIs ==
  ASSUME QosInv, NEW h, net.c2b # <<>>, h = Head(net.c2b),
         \/ h.type = "PUBLISH" /\ h.m \in Qos1 /\ brk' = HandOver(brk, h.m)
         \/ /\ h.type = "PUBLISH" /\ h.m \notin Qos1
            /\ brk' = [(IF h.id \in brk.rx THEN brk ELSE HandOver(brk, h.m)) EXCEPT !.rx = @ \cup {h.id}]
         \/ h.type = "PUBREL" /\ brk' = [brk EXCEPT !.rx = @ \ {h.id}]
  PROVE  BrokerTakes(h) /\ brk' \in Broker /\ brk'.tx = brk.tx /\ brk'.sent = brk.sent
<1>1. /\ h \in Packet
      /\ h.type = "PUBLISH" => /\ h.m \in Out /\ h.m = app.own[h.id]
                               /\ h.id \in brk.rx => h.m \notin Qos1 /\ h.m \in ToSet(brk.got)
  BY HeadOut
<1>2. brk \in Broker /\ brk.rx \subseteq Ids /\ h.id \in Ids BY <1>1 DEF QosInv, QosTypeOK, Broker, Packet
<1>3. CASE h.type = "PUBLISH" /\ h.m \in Qos1 /\ brk' = HandOver(brk, h.m)
  <2>1. /\ brk' \in Broker
        /\ brk'.twice = IF h.m \in ToSet(brk.got) THEN brk.twice \cup {h.m} ELSE brk.twice
        /\ brk'.got = IF h.m \in ToSet(brk.got) THEN brk.got ELSE Append(brk.got, h.m)
        /\ brk'.sess = brk.sess /\ brk'.rx = brk.rx /\ brk'.tx = brk.tx /\ brk'.sent = brk.sent
    BY <1>1, <1>2, <1>3, HandOverOut
  <2> QED BY <1>1, <1>2, <1>3, <2>1 DEF BrokerTakes
<1>4. CASE /\ h.type = "PUBLISH" /\ h.m \notin Qos1
           /\ brk' = [(IF h.id \in brk.rx THEN brk ELSE HandOver(brk, h.m)) EXCEPT !.rx = @ \cup {h.id}]
  <2>1. CASE h.id \in brk.rx
    <3>1. brk' = [brk EXCEPT !.rx = @ \cup {h.id}] BY <1>4, <2>1
    <3>2. /\ brk' \in Broker /\ brk'.rx = brk.rx \cup {h.id} /\ brk'.got = brk.got /\ brk'.twice = brk.twice
          /\ brk'.sess = brk.sess /\ brk'.tx = brk.tx /\ brk'.sent = brk.sent
      BY <1>2, <3>1 DEF Broker
    <3> QED BY <1>1, <1>2, <1>4, <2>1, <3>2 DEF BrokerTakes
  <2>2. CASE h.id \notin brk.rx
    <3>1. brk.rx \cup {h.id} \in SUBSET Ids BY <1>2
    <3>2. HandOver(brk, h.m) \in Broker /\ HandOver(brk, h.m).rx = brk.rx BY <1>1, <1>2, <1>4, HandOverOut
    <3>3. brk' = [HandOver(brk, h.m) EXCEPT !.rx = @ \cup {h.id}] BY <1>4, <2>2
    <3>4. brk' = Took(h.m, brk.rx \cup {h.id}) BY <3>2, <3>3 DEF Took, Broker
    <3> DEFINE rx == brk.rx \cup {h.id}
    <3>5. rx \in SUBSET Ids /\ h.id \in rx /\ \A z : z # h.id => (z \in rx <=> z \in brk.rx) BY <1>2
    <3> DEFINE m == h.m
    <3>6. brk' = Took(m, rx) /\ m \in Out BY <1>1, <1>4, <3>4
    <3> HIDE DEF rx, m
    <3>7. /\ brk' \in Broker /\ brk'.rx = rx
          /\ brk'.got = (IF m \in ToSet(brk.got) THEN brk.got ELSE Append(brk.got, m))
          /\ brk'.twice = (IF m \in ToSet(brk.got) THEN brk.twice \cup {m} ELSE brk.twice)
          /\ brk'.sess = brk.sess /\ brk'.tx = brk.tx /\ brk'.sent = brk.sent
      BY <1>2, <3>5, <3>6, TookIs
    <3> QED BY <1>4, <2>2, <3>5, <3>7 DEF BrokerTakes, m
  <2> QED BY <2>1, <2>2
<1>5. CASE h.type = "PUBREL" /\ brk' = [brk EXCEPT !.rx = @ \ {h.id}]
  <2>1. /\ brk' \in Broker /\ brk'.rx = brk.rx \ {h.id} /\ brk'.got = brk.got /\ brk'.twice = brk.twice
        /\ brk'.sess = brk.sess /\ brk'.tx = brk.tx /\ brk'.sent = brk.sent
    BY <1>2, <1>5 DEF Broker
  <2> QED BY <1>2, <1>5, <2>1 DEF BrokerTakes
<1> QED BY <1>3, <1>4, <1>5

\* A PUBREC, or a PUBACK or PUBCOMP.
LEMMA FreesIs ==
  ASSUME QosInv, NEW h, net.c2b # <<>>, h = Head(net.c2b), h.type \in Acks,
         IF h.type = "PUBREC"
         THEN brk' = [brk EXCEPT !.tx = [i \in DOMAIN @ |->
                        IF @[i].id = h.id THEN [@[i] EXCEPT !.rel = TRUE] ELSE @[i]]]
         ELSE brk' = IF \E i \in DOMAIN brk.tx : brk.tx[i].id = h.id
                     THEN [brk EXCEPT !.tx = RemoveAt(@, CHOOSE i \in DOMAIN @ : @[i].id = h.id)] ELSE brk
  PROVE  /\ EntryAcked(h) /\ brk' \in Broker
         /\ brk'.sess = brk.sess /\ brk'.sent = brk.sent /\ brk'.rx = brk.rx
         /\ brk'.got = brk.got /\ brk'.twice = brk.twice
<1> DEFINE tx == brk.tx
<1>1. /\ net.c2b \in Seq(Packet) /\ tx \in Seq(TxEntry) /\ brk \in Broker
      /\ \A i, j \in DOMAIN tx : tx[i].id = tx[j].id \/ tx[i].m = tx[j].m => i = j
      /\ \A p \in Back(net.c2b) : \E t \in Tx : t.id = p.id
  BY Types DEF QosInv, QosTypeOK, InInv, InPackets, Sending
<1>2. h \in Back(net.c2b) BY <1>1, TailKinds
<1>3. Tx = {tx[i] : i \in DOMAIN tx} /\ DOMAIN tx = 1 .. Len(tx) /\ Len(tx) \in Nat
  BY <1>1 DEF Tx, ToSet
<1>4. PICK n \in DOMAIN tx : tx[n].id = h.id BY <1>1, <1>2, <1>3
<1>5. \A i \in DOMAIN tx : tx[i].id = h.id <=> i = n BY <1>1, <1>4
<1>6. \A i \in DOMAIN tx : tx[i] \in TxEntry BY <1>1, <1>3
<1>7. CASE h.type = "PUBREC"
  <2> DEFINE ty == [i \in DOMAIN tx |-> IF tx[i].id = h.id THEN [tx[i] EXCEPT !.rel = TRUE] ELSE tx[i]]
  <2>1. brk' = [brk EXCEPT !.tx = ty] BY <1>1, <1>7 DEF Broker
  <2>2. /\ DOMAIN ty = DOMAIN tx
        /\ \A i \in DOMAIN tx : i # n => ty[i] = tx[i]
        /\ ty[n] = [tx[n] EXCEPT !.rel = TRUE]
    BY <1>4, <1>5
  <2>3. /\ ty[n] \in TxEntry /\ ty[n].id = tx[n].id /\ ty[n].m = tx[n].m /\ ty[n].rel = TRUE
    BY <1>4, <1>6, <2>2 DEF TxEntry
  <2>4. \A i \in DOMAIN tx : ty[i] \in TxEntry /\ ty[i].id = tx[i].id /\ ty[i].m = tx[i].m
    BY <1>6, <2>2, <2>3
  <2> HIDE DEF ty, tx
  <2>5. ty \in Seq(TxEntry)
    <3>1. ty = [i \in 1 .. Len(tx) |-> ty[i]] BY <1>3, <2>2 DEF ty
    <3> QED BY <1>3, <2>4, <3>1
  <2>6. /\ brk' \in Broker /\ brk'.tx = ty
        /\ brk'.sess = brk.sess /\ brk'.sent = brk.sent /\ brk'.rx = brk.rx
        /\ brk'.got = brk.got /\ brk'.twice = brk.twice
    BY <1>1, <2>1, <2>5 DEF Broker, TxEntry
  <2>7. ToSet(ty) = {ty[i] : i \in DOMAIN tx} BY <2>2 DEF ToSet
  <2>8. \A i, j \in DOMAIN ty : ty[i].id = ty[j].id \/ ty[i].m = ty[j].m => i = j BY <1>1, <2>2, <2>4
  <2>9. \A t \in Tx : t.id # h.id => t \in ToSet(ty) BY <1>3, <1>4, <2>2, <2>7
  <2>10. \A t \in ToSet(ty) :
           \/ t \in Tx /\ t.id # h.id
           \/ t.rel /\ \E u \in Tx : u.id = h.id /\ t.id = h.id /\ t.m = u.m
    <3> TAKE t \in ToSet(ty)
    <3>1. PICK i \in DOMAIN tx : t = ty[i] BY <2>7
    <3>2. CASE i = n BY <1>3, <1>4, <2>3, <3>1, <3>2
    <3>3. CASE i # n BY <1>3, <1>5, <2>2, <3>1, <3>3
    <3> QED BY <3>2, <3>3
  <2>11. \E t \in ToSet(ty) : t.id = h.id BY <1>4, <2>3, <2>7
  <2> QED BY <1>7, <2>6, <2>8, <2>9, <2>10, <2>11 DEF EntryAcked
<1>8. CASE h.type # "PUBREC"
  <2> DEFINE ty == RemoveAt(tx, n)
  <2>1. n = CHOOSE i \in DOMAIN tx : tx[i].id = h.id BY <1>4, <1>5
  <2>2. brk' = [brk EXCEPT !.tx = ty] BY <1>1, <1>4, <1>8, <2>1 DEF Broker
  <2>3. /\ ty \in Seq(TxEntry) /\ DOMAIN ty = 1 .. Len(tx) - 1
        /\ \A k \in 1 .. Len(tx) - 1 : ty[k] = IF k < n THEN tx[k] ELSE tx[k + 1]
    BY <1>1, <1>3, <1>4, RemovedAt
  <2> HIDE DEF ty, tx
  <2>4. /\ brk' \in Broker /\ brk'.tx = ty
        /\ brk'.sess = brk.sess /\ brk'.sent = brk.sent /\ brk'.rx = brk.rx
        /\ brk'.got = brk.got /\ brk'.twice = brk.twice
    BY <1>1, <2>2, <2>3 DEF Broker, TxEntry
  <2> DEFINE at(k) == IF k < n THEN k ELSE k + 1
  <2>5. \A k \in DOMAIN ty : at(k) \in DOMAIN tx \ {n} /\ ty[k] = tx[at(k)] BY <1>3, <1>4, <2>3
  <2>6. \A k, l \in DOMAIN ty : at(k) = at(l) => k = l BY <1>3, <1>4, <2>3
  <2>7. \A i \in DOMAIN tx \ {n} : \E k \in DOMAIN ty : ty[k] = tx[i]
    <3> TAKE i \in DOMAIN tx \ {n}
    <3>1. CASE i < n BY <1>3, <1>4, <2>3, <3>1
    <3>2. CASE i > n
      <4>1. i - 1 \in DOMAIN ty /\ ~ (i - 1 < n) /\ (i - 1) + 1 = i BY <1>3, <1>4, <2>3, <3>2
      <4> QED BY <2>3, <4>1
    <3> QED BY <1>3, <1>4, <3>1, <3>2
  <2> HIDE DEF at
  <2>8. \A i, j \in DOMAIN ty : ty[i].id = ty[j].id \/ ty[i].m = ty[j].m => i = j BY <1>1, <2>5, <2>6
  <2>9. \A t \in Tx : t.id # h.id => t \in ToSet(ty)
    <3> TAKE t \in Tx
    <3>1. PICK i \in DOMAIN tx : t = tx[i] BY <1>3
    <3>2. i # n => t \in ToSet(ty) BY <2>7, <3>1 DEF ToSet
    <3> QED BY <1>4, <3>1, <3>2
  <2>10. \A t \in ToSet(ty) : t \in Tx /\ t.id # h.id
    <3> TAKE t \in ToSet(ty)
    <3>1. PICK k \in DOMAIN ty : t = ty[k] BY DEF ToSet
    <3> QED BY <1>3, <1>5, <2>5, <3>1
  <2> QED BY <1>8, <2>4, <2>8, <2>9, <2>10 DEF EntryAcked
<1> QED BY <1>7, <1>8

\* BrokerReads, in these terms.
Serves(type, id, m) ==
  CASE type = "PUBLISH" /\ QosOf(m) = 1 -> Answer(Pkt("PUBACK", id, 0)) /\ brk' = HandOver(brk, m)
    [] type = "PUBLISH" /\ QosOf(m) = 2 ->
         /\ Answer(Pkt("PUBREC", id, 0))
         /\ brk' = [(IF id \in brk.rx THEN brk ELSE HandOver(brk, m)) EXCEPT !.rx = @ \cup {id}]
    [] type = "PUBREL" -> Answer(Pkt("PUBCOMP", id, 0)) /\ brk' = [brk EXCEPT !.rx = @ \ {id}]
    [] type = "PUBREC" ->
         /\ Answer(Pkt("PUBREL", id, 0))
         /\ brk' = [brk EXCEPT !.tx = [i \in DOMAIN @ |->
                     IF @[i].id = id THEN [@[i] EXCEPT !.rel = TRUE] ELSE @[i]]]
    [] type \in {"PUBACK", "PUBCOMP"} ->
         /\ Silent
         /\ brk' = IF \E i \in DOMAIN brk.tx : brk.tx[i].id = id
                   THEN [brk EXCEPT !.tx = RemoveAt(@, CHOOSE i \in DOMAIN @ : @[i].id = id)] ELSE brk

LEMMA ServesIs ==
  ASSUME BrokerReads
  PROVE  Serves(Head(net.c2b).type, Head(net.c2b).id, Head(net.c2b).m)
  BY Zenon DEF BrokerReads, Serves

LEMMA ServesOnce ==
  ASSUME NEW type, NEW id, NEW m, Serves(type, id, m), type = "PUBLISH", QosOf(m) = 1
  PROVE  Answer(Pkt("PUBACK", id, 0)) /\ brk' = HandOver(brk, m)
  BY DEF Serves

LEMMA ServesTwice ==
  ASSUME NEW type, NEW id, NEW m, Serves(type, id, m), type = "PUBLISH", QosOf(m) = 2
  PROVE  /\ Answer(Pkt("PUBREC", id, 0))
         /\ brk' = [(IF id \in brk.rx THEN brk ELSE HandOver(brk, m)) EXCEPT !.rx = @ \cup {id}]
  BY DEF Serves

LEMMA BrokerReadsKeeps ==
  ASSUME QosInv, BrokerReads
  PROVE  QosInv'
<1> DEFINE h == Head(net.c2b)
<1>1. net.c2b # <<>> /\ UNCHANGED <<cb, cli, app, drops, expiries>> BY DEF BrokerReads
<1>2. /\ h \in Packet
      /\ h.type = "PUBLISH" => h.m \in Out
  BY <1>1, HeadOut
<1>3. h.type \in Type /\ h.id \in Ids BY <1>2 DEF Packet
<1>4. Serves(h.type, h.id, h.m) BY ServesIs
<1>5. CASE h.type = "PUBLISH" /\ h.m \in Qos1
  <2>1. Answer(Pkt("PUBACK", h.id, 0)) /\ brk' = HandOver(brk, h.m)
    <3>1. QosOf(h.m) = 1 BY <1>5 DEF QosOf
    <3> HIDE DEF h
    <3> QED BY <1>4, <1>5, <3>1, ServesOnce, Zenon
  <2>2. BrokerTakes(h) /\ brk' \in Broker /\ brk'.tx = brk.tx /\ brk'.sent = brk.sent
    BY <1>1, <1>5, <2>1, TakesIs
  <2> DEFINE q == Pkt("PUBACK", h.id, 0)
  <2>3. q \in Packet /\ q.type = AnswerType(h) /\ q.id = h.id /\ h.type \in Orders
    BY <1>3, <1>5, PktIs DEF Type, AnswerType, Orders
  <2>4. Answer(q) BY <2>1
  <2> HIDE DEF h, q
  <2>5. h = Head(net.c2b) BY DEF h
  <2> QED BY <1>1, <2>2, <2>3, <2>4, <2>5, ServeKeeps
<1>6. CASE h.type = "PUBLISH" /\ h.m \notin Qos1
  <2>1. /\ Answer(Pkt("PUBREC", h.id, 0))
        /\ brk' = [(IF h.id \in brk.rx THEN brk ELSE HandOver(brk, h.m)) EXCEPT !.rx = @ \cup {h.id}]
    <3>1. QosOf(h.m) = 2 BY <1>6 DEF QosOf
    <3> HIDE DEF h
    <3> QED BY <1>4, <1>6, <3>1, ServesTwice, Zenon
  <2>2. BrokerTakes(h) /\ brk' \in Broker /\ brk'.tx = brk.tx /\ brk'.sent = brk.sent
    BY <1>1, <1>6, <2>1, TakesIs
  <2> DEFINE q == Pkt("PUBREC", h.id, 0)
  <2>3. q \in Packet /\ q.type = AnswerType(h) /\ q.id = h.id /\ h.type \in Orders
    BY <1>3, <1>6, PktIs DEF Type, AnswerType, Orders
  <2>4. Answer(q) BY <2>1
  <2> HIDE DEF h, q
  <2>5. h = Head(net.c2b) BY DEF h
  <2> QED BY <1>1, <2>2, <2>3, <2>4, <2>5, ServeKeeps
<1>7. CASE h.type = "PUBREL"
  <2>1. Answer(Pkt("PUBCOMP", h.id, 0)) /\ brk' = [brk EXCEPT !.rx = @ \ {h.id}] BY <1>7 DEF BrokerReads
  <2>2. BrokerTakes(h) /\ brk' \in Broker /\ brk'.tx = brk.tx /\ brk'.sent = brk.sent
    BY <1>1, <1>7, <2>1, TakesIs
  <2> DEFINE q == Pkt("PUBCOMP", h.id, 0)
  <2>3. q \in Packet /\ q.type = AnswerType(h) /\ q.id = h.id /\ h.type \in Orders
    BY <1>3, <1>7, PktIs DEF Type, AnswerType, Orders
  <2>4. Answer(q) BY <2>1
  <2> HIDE DEF h, q
  <2>5. h = Head(net.c2b) BY DEF h
  <2> QED BY <1>1, <2>2, <2>3, <2>4, <2>5, ServeKeeps
<1>8. CASE h.type = "PUBREC"
  <2>1. /\ Answer(Pkt("PUBREL", h.id, 0))
        /\ brk' = [brk EXCEPT !.tx = [i \in DOMAIN @ |->
                     IF @[i].id = h.id THEN [@[i] EXCEPT !.rel = TRUE] ELSE @[i]]]
    BY <1>8 DEF BrokerReads
  <2> HIDE DEF h
  <2>2. h = Head(net.c2b) /\ h.type \in Acks BY <1>8, KindsOf DEF h
  <2>3. /\ EntryAcked(h) /\ brk' \in Broker
        /\ brk'.sess = brk.sess /\ brk'.sent = brk.sent /\ brk'.rx = brk.rx
        /\ brk'.got = brk.got /\ brk'.twice = brk.twice
    BY <1>1, <1>8, <2>1, <2>2, FreesIs
  <2> QED BY <1>1, <1>8, <2>1, <2>2, <2>3, FreeKeeps
<1>9. CASE h.type \in {"PUBACK", "PUBCOMP"}
  <2>1. /\ Silent
        /\ brk' = IF \E i \in DOMAIN brk.tx : brk.tx[i].id = h.id
                  THEN [brk EXCEPT !.tx = RemoveAt(@, CHOOSE i \in DOMAIN @ : @[i].id = h.id)] ELSE brk
    BY <1>9 DEF BrokerReads
  <2> HIDE DEF h
  <2>2. h = Head(net.c2b) /\ h.type \in Acks /\ h.type # "PUBREC" BY <1>9, KindsOf DEF h
  <2>3. /\ EntryAcked(h) /\ brk' \in Broker
        /\ brk'.sess = brk.sess /\ brk'.sent = brk.sent /\ brk'.rx = brk.rx
        /\ brk'.got = brk.got /\ brk'.twice = brk.twice
    BY <1>1, <2>1, <2>2, FreesIs
  <2> QED BY <1>1, <2>1, <2>2, <2>3, FreeKeeps
<1> QED BY <1>3, <1>5, <1>6, <1>7, <1>8, <1>9 DEF Type

-----------------------------------------------------------------------------
(* MQTT_Publish                                                            *)

WithOut(c, t) == [c EXCEPT !.out = t]

\* The outcomes of a PUBLISH: the connection breaks, or it is sent and then
\* the record is updated.
PublishSends(c, id, m) == MQTT_UpdateStatePublish(c.out, c.in, id, "SEND", QosOf(m))
PublishOutcome(o, c, n, id, m) ==
  \/ /\ o.c = Loses(c) /\ o.n = Broken(n) /\ o.ok = FALSE
     /\ n.up => drops # MaxDrops
  \/ /\ o.c = WithOut(c, PublishSends(c, id, m).out) /\ o.n = WithSent(n, Pkt("PUBLISH", id, m))
     /\ o.ok = (PublishSends(c, id, m).status = "Success") /\ n.up

LEMMA PublishOutcomes ==
  ASSUME NEW c, NEW n, NEW id, NEW m, NEW o \in SendPublish(c, n, id, m)
  PROVE  PublishOutcome(o, c, n, id, m)
<1> DEFINE r == PublishSends(c, id, m)
           pkt == Pkt("PUBLISH", id, m)
<1>1. PICK s \in SendOutcomes(c, n, pkt) :
        o = IF s.ok THEN [s EXCEPT !.ok = (r.status = "Success"), !.c.out = r.out] ELSE s
  BY DEF SendPublish, PublishSends
<1> HIDE DEF r, pkt
<1>2. CASE n.up /\ s = [ok |-> TRUE, c |-> c, n |-> [n EXCEPT !.c2b = Append(@, pkt)]]
  <2>1. o.c = WithOut(c, r.out) /\ o.n = WithSent(n, pkt) /\ o.ok = (r.status = "Success")
    BY <1>1, <1>2 DEF WithOut, WithSent
  <2> QED BY <1>2, <2>1 DEF pkt, r, PublishOutcome
<1>3. CASE /\ s = [ok |-> FALSE, c |-> [c EXCEPT !.conn = "DisconnectPending"], n |-> Broken(n)]
           /\ n.up => drops # MaxDrops
  <2>1. o = s BY <1>1, <1>3
  <2> QED BY <1>3, <2>1 DEF Loses, PublishOutcome
<1> QED BY <1>1, <1>2, <1>3 DEF SendOutcomes

\* c is the out table with a record for the new message m behind the others.
OutAdded(c, id, m) ==
  /\ c \in Table(OutCount, Ids) /\ Distinct(c)
  /\ \A x : x.id # id => (x \in Recs(c) <=> x \in Recs(cli.out))
  /\ \A x \in Recs(c) : x.id = id => x.st \in Unacked /\ x.qos = QosOf(m) /\ Fits(x.st, m)
  /\ Has(c, id) /\ ~ Has(cli.out, id)
  /\ \A j, k \in Used(c) : j < k =>
       /\ c[j].id # id
       /\ c[k].id # id => \E i, l \in Used(cli.out) : i < l /\ c[j] = cli.out[i] /\ c[k] = cli.out[l]

LEMMA GrowAdds ==
  ASSUME QosInv, NEW id \in Ids, ~ Has(cli.out, id), NEW m, NEW c \in Table(OutCount, Ids),
         Grows(cli.out, c, [id |-> id, qos |-> QosOf(m), st |-> "PublishSend"])
  PROVE  OutAdded(c, id, m)
<1> DEFINE out == cli.out
           new == [id |-> id, qos |-> QosOf(m), st |-> "PublishSend"]
<1>1. out \in Table(OutCount, Ids) /\ OutCount \in Nat /\ 0 \notin Ids /\ Distinct(out)
  BY Types, NoZero DEF QosInv, OutInv, Owned
<1>2. new.id = id /\ new.qos = QosOf(m) /\ new.st = "PublishSend" /\ new.id # 0 BY <1>1
<1>3. Grows(out, c, new) /\ ~ Has(out, id) OBVIOUS
<1> HIDE DEF out, new
<1>4. Distinct(c) /\ Recs(c) = Recs(out) \cup {new} BY <1>1, <1>2, <1>3, GrowsRecs
<1>5. PICK at \in DOMAIN c : /\ c[at] = new /\ \A i \in Used(c) : i <= at
                             /\ Keeps(out, [c EXCEPT ![at] = Empty])
  BY <1>3 DEF Grows
<1>6. \A x \in Recs(out) : x.id # id BY <1>3 DEF Has
<1>7. Has(c, id) BY <1>2, <1>4 DEF Has
<1>8. \A x \in Recs(c) : x.id = id => x = new BY <1>4, <1>6
<1>9. new.st \in Unacked /\ Fits(new.st, m) BY <1>2 DEF Unacked, Fits
<1>10. at \in Used(c) BY <1>2, <1>5 DEF Used
<1>11. ASSUME NEW j \in Used(c), NEW k \in Used(c), j < k
       PROVE  /\ c[j].id # id
              /\ c[k].id # id => \E i, l \in Used(out) : i < l /\ c[j] = out[i] /\ c[k] = out[l]
  <2>1. Used(c) \subseteq Nat BY <1>1, Rows
  <2>2. j # at BY <1>5, <1>11, <2>1
  <2>3. c[j].id # id BY <1>2, <1>4, <1>5, <1>10, <2>2 DEF Distinct
  <2>4. ASSUME c[k].id # id PROVE \E i, l \in Used(out) : i < l /\ c[j] = out[i] /\ c[k] = out[l]
    <3> DEFINE d == [c EXCEPT ![at] = Empty]
    <3>1. k # at BY <1>2, <1>5, <2>4
    <3>2. d[j] = c[j] /\ d[k] = c[k] /\ DOMAIN d = DOMAIN c BY <2>2, <3>1
    <3>3. Keeps(out, d) BY <1>5
    <3> HIDE DEF d
    <3>4. j \in Used(d) /\ k \in Used(d) BY <1>11, <3>2 DEF Used
    <3> QED BY <1>11, <3>2, <3>3, <3>4 DEF Keeps
  <2> QED BY <2>3, <2>4
<1>12. \A x : x.id # id => (x \in Recs(c) <=> x \in Recs(out)) BY <1>2, <1>4
<1> QED BY <1>2, <1>3, <1>4, <1>7, <1>8, <1>9, <1>11, <1>12 DEF OutAdded, out

LEMMA WaitsAdds ==
  ASSUME QosInv, NEW id \in Ids, NEW m, NEW t, OutAdded(t, id, m), NEW c, PubWaits(t, c, id, m)
  PROVE  OutAdded(c, id, m)
<1> DEFINE out == cli.out
<1>1. /\ t \in Table(OutCount, Ids) /\ Distinct(t)
      /\ \A x : x.id # id => (x \in Recs(t) <=> x \in Recs(out))
      /\ \A x \in Recs(t) : x.id = id => x.st \in Unacked /\ x.qos = QosOf(m) /\ Fits(x.st, m)
      /\ Has(t, id) /\ ~ Has(out, id)
      /\ \A j, k \in Used(t) : j < k =>
           /\ t[j].id # id
           /\ t[k].id # id => \E i, l \in Used(out) : i < l /\ t[j] = out[i] /\ t[k] = out[l]
  BY DEF OutAdded
<1> HIDE DEF out
<1>2. OutCount \in Nat BY Types DEF QosInv
<1>3. /\ c \in Table(OutCount, Ids) /\ Distinct(c) /\ Used(c) = Used(t)
      /\ \A j \in Used(t) : c[j].id = t[j].id /\ (t[j].id # id => c[j] = t[j])
      /\ \A x \in Recs(c) : x.id = id => x.st \in Unacked /\ x.qos = QosOf(m) /\ Fits(x.st, m)
  BY <1>1, <1>2, WaitsRecs
<1>4. \A x : x.id # id => (x \in Recs(c) <=> x \in Recs(t)) BY <1>3 DEF Recs
<1>5. Has(c, id) BY <1>1, <1>3 DEF Has, Recs
<1>6. ASSUME NEW j \in Used(c), NEW k \in Used(c), j < k
      PROVE  /\ c[j].id # id
             /\ c[k].id # id => \E i, l \in Used(out) : i < l /\ c[j] = out[i] /\ c[k] = out[l]
  BY <1>1, <1>3, <1>6
<1> QED BY <1>1, <1>3, <1>4, <1>5, <1>6 DEF OutAdded, out

\* What the application notes, and the queue.
AppPublishes(id, m) ==
  /\ DOMAIN app'.own = Ids /\ app'.own[id] = m /\ \A z \in Ids : z # id => app'.own[z] = app.own[z]
  /\ app'.kept = app.kept \cup {id} /\ app'.pub = app.pub \cup {m}
  /\ app'.done = app.done /\ app'.astray = app.astray
NetPublishes(id, m) ==
  \/ ~net'.up /\ net'.c2b = <<>> /\ net'.b2c = net.b2c
  \/ net.up /\ net'.c2b = Append(net.c2b, Pkt("PUBLISH", id, m)) /\ net'.b2c = net.b2c

LEMMA OutPublished ==
  ASSUME QosInv, NEW id \in Ids, NEW m \in Out \ app.pub, \A k \in Out \ app.pub : m <= k,
         cb' = cb, brk' = brk, cli.conn = "Connected", ~cli.bad, cli.pc = "idle", cli'.pc = "idle",
         OutAdded(cli'.out, id, m), AppPublishes(id, m), NetPublishes(id, m)
  PROVE  OutInv'
<1> DEFINE c == cli'.out
           out == cli.out
           own == app.own
           own1 == app'.own
           F == Fwd(net.c2b)
           F1 == Fwd(net'.c2b)
           B == Back(net.b2c)
           B1 == Back(net'.b2c)
           p == Pkt("PUBLISH", id, m)
<1>1. /\ c \in Table(OutCount, Ids) /\ Distinct(c)
      /\ \A x : x.id # id => (x \in Recs(c) <=> x \in Recs(out))
      /\ \A x \in Recs(c) : x.id = id => x.st \in Unacked /\ x.qos = QosOf(m) /\ Fits(x.st, m)
      /\ Has(c, id) /\ ~ Has(out, id)
      /\ \A j, k \in Used(c) : j < k =>
           /\ c[j].id # id
           /\ c[k].id # id => \E i, l \in Used(out) : i < l /\ c[j] = out[i] /\ c[k] = out[l]
  BY DEF OutAdded
<1>2. /\ own1[id] = m /\ \A z \in Ids : z # id => own1[z] = own[z]
      /\ app'.kept = app.kept \cup {id} /\ app'.pub = app.pub \cup {m}
      /\ app'.done = app.done /\ app'.astray = app.astray
  BY DEF AppPublishes
<1>3. /\ \A z \in Ids : Has(out, z) <=> own[z] # 0
      /\ \A r \in Recs(out) : /\ r.qos = QosOf(own[r.id]) /\ Fits(r.st, own[r.id])
                              /\ r.st \in Unacked => r.id \in app.kept
                              /\ r.st \in Late => own[r.id] \in ToSet(brk.got)
      /\ \A x, y \in Ids : own[x] = own[y] /\ own[x] # 0 => x = y
  BY DEF QosInv, OutInv, Owned, Delivered
<1>4. \A r \in Recs(c) \cup Recs(out) : r.id \in Ids
  <2>1. out \in Table(OutCount, Ids) /\ OutCount \in Nat /\ 0 \notin Ids BY Types, NoZero DEF QosInv
  <2> HIDE DEF c, out
  <2>2. /\ \A i \in Used(c) : c[i] \in [id: Ids, qos: {1, 2}, st: PublishState \ {"Null", "PublishDone"}]
        /\ \A i \in Used(out) : out[i] \in [id: Ids, qos: {1, 2}, st: PublishState \ {"Null", "PublishDone"}]
    BY <1>1, <2>1, Rows
  <2> QED BY <2>2 DEF Recs
<1>5. \A s \in Late : s \notin Unacked BY DEF Late, Unacked
<1>6. /\ \A z \in Ids : own[z] \in app.pub \cup {0}
      /\ ToSet(brk.got) \subseteq app.pub /\ app.done \subseteq ToSet(brk.got)
      /\ \A x \in app.pub, y \in Out \ app.pub : x < y
  BY DEF QosInv, OutInv, Published
<1>7. /\ OnePacket(net.c2b, net.b2c)
      /\ \A x \in F : IF x.type = "PUBLISH" THEN x.m = own[x.id] /\ x.m # 0 /\ StateIn(out, x.id, Unacked)
                      ELSE StateIn(out, x.id, {"PubCompPending"})
      /\ \A x \in B : IF x.type = "PUBCOMP" THEN StateIn(out, x.id, {"PubCompPending"}) /\ x.id \notin brk.rx
                      ELSE /\ StateIn(out, x.id, Unacked) /\ own[x.id] \in ToSet(brk.got)
                           /\ x.type = "PUBACK" <=> own[x.id] \in Qos1
  BY DEF QosInv, OutInv, OutPackets, Delivered
<1>8. /\ \A z \in brk.rx : own[z] # 0 /\ own[z] \notin Qos1 /\ own[z] \in ToSet(brk.got)
      /\ ~app.astray =>
           /\ brk.sess => \A z \in Ids :
                StateIn(out, z, Unacked) /\ own[z] \in ToSet(brk.got) /\ own[z] \notin Qos1 => z \in brk.rx
           /\ brk.twice \subseteq Qos1
  BY DEF QosInv, OutInv, Received, Delivered
<1>9. /\ brk.rx \subseteq Ids /\ app.pub \subseteq Out /\ Out \subseteq Nat /\ 0 \notin Out
      /\ net.c2b \in Seq(Packet) /\ net.b2c \in Seq(Packet)
  BY Types, QosConstants DEF QosInv, QosTypeOK, Broker, Application
<1>10. p \in Packet /\ p.type = "PUBLISH" /\ p.id = id /\ p.m = m /\ p.type \in Orders
  BY PktIs, KindsOf DEF Type, Msgs
<1>11. \/ ~net'.up /\ net'.c2b = <<>> /\ net'.b2c = net.b2c
       \/ net.up /\ net'.c2b = Append(net.c2b, p) /\ net'.b2c = net.b2c
  BY DEF NetPublishes
<1>12. Owned' <=>
         /\ Distinct(c)
         /\ \A z \in Ids : Has(c, z) <=> own1[z] # 0
         /\ \A r \in Recs(c) :
              /\ r.qos = QosOf(own1[r.id]) /\ Fits(r.st, own1[r.id])
              /\ r.st \in Unacked => r.id \in app'.kept
              /\ r.st \in Late => own1[r.id] \in ToSet(brk.got)
         /\ \A x, y \in Ids : own1[x] = own1[y] /\ own1[x] # 0 => x = y
  BY DEF Owned, Delivered
<1>13. OutPackets' <=>
         /\ OnePacket(net'.c2b, net'.b2c)
         /\ \A x \in F1 : IF x.type = "PUBLISH" THEN x.m = own1[x.id] /\ x.m # 0 /\ StateIn(c, x.id, Unacked)
                          ELSE StateIn(c, x.id, {"PubCompPending"})
         /\ \A x \in B1 : IF x.type = "PUBCOMP" THEN StateIn(c, x.id, {"PubCompPending"}) /\ x.id \notin brk.rx
                          ELSE /\ StateIn(c, x.id, Unacked) /\ own1[x.id] \in ToSet(brk.got)
                               /\ x.type = "PUBACK" <=> own1[x.id] \in Qos1
  BY DEF OutPackets, Delivered
<1>14. Received' <=>
         /\ \A z \in brk.rx : own1[z] # 0 /\ own1[z] \notin Qos1 /\ own1[z] \in ToSet(brk.got)
         /\ ~app.astray =>
            /\ brk.sess => \A z \in Ids :
                 StateIn(c, z, Unacked) /\ own1[z] \in ToSet(brk.got) /\ own1[z] \notin Qos1 => z \in brk.rx
            /\ brk.twice \subseteq Qos1
  BY <1>2 DEF Received, Delivered
<1>15. Published' <=>
         /\ \A z \in Ids : own1[z] \in app'.pub \cup {0}
         /\ ToSet(brk.got) \subseteq app'.pub
         /\ app'.done \subseteq ToSet(brk.got)
         /\ \A x \in app'.pub, y \in Out \ app'.pub : x < y
  BY DEF Published
<1>16. cb => FirstInOrder /\ TableOrder /\ QueueOrder BY DEF QosInv, OutInv, Ordered
<1>17. m \in Out /\ m \notin app.pub /\ m # 0 /\ m \in Nat BY <1>9
<1>18. brk' = brk /\ cb' = cb /\ cli'.pc = "idle" OBVIOUS
<1>19. Resending' BY <1>18 DEF Resending
<1> HIDE DEF c, out, own, own1, F, F1, B, B1, p
<1>20. \A z : z # id => (Has(c, z) <=> Has(out, z)) BY <1>1 DEF Has
<1>21. \A z, S : z # id => (StateIn(c, z, S) <=> StateIn(out, z, S)) BY <1>1 DEF StateIn
<1>22. own[id] = 0 /\ m \notin ToSet(brk.got) /\ \A z \in Ids : own[z] # m BY <1>1, <1>3, <1>6, <1>17
<1>23. \A x \in F \cup B : x.id # id /\ x.id \in Ids
  <2>1. \A x \in F \cup B : \E S : StateIn(out, x.id, S) BY <1>7
  <2>2. \A z, S : StateIn(out, z, S) => Has(out, z) /\ z \in Ids BY <1>4 DEF StateIn, Has
  <2> QED BY <1>1, <2>1, <2>2
<1>24. OnePacket(net'.c2b, net'.b2c) /\ B1 = B /\ (F1 = {} \/ (net.up /\ F1 = F \cup {p}))
       /\ (net'.up => net.up /\ F1 = F \cup {p})
  <2>1. CASE ~net'.up /\ net'.c2b = <<>> /\ net'.b2c = net.b2c
    <3>1. OnePacket(<<>>, net.b2c) /\ Fwd(<<>>) = {} BY <1>7, OneGone, EmptySet
    <3> QED BY <2>1, <3>1 DEF B, B1, F1
  <2>2. CASE net.up /\ net'.c2b = Append(net.c2b, p) /\ net'.b2c = net.b2c
    <3>1. \A x \in Fwd(net.c2b) \cup Back(net.b2c) : x.id # p.id BY <1>10, <1>23 DEF F, B
    <3>2. OnePacket(Append(net.c2b, p), net.b2c) BY <1>7, <1>9, <1>10, <3>1, OneSent
    <3>3. Fwd(Append(net.c2b, p)) = Fwd(net.c2b) \cup {p} BY <1>9, <1>10, AppendKinds
    <3> QED BY <2>2, <3>2, <3>3 DEF B, B1, F, F1
  <2> QED BY <1>11, <2>1, <2>2
<1>25. \A x \in F1 : x \in F \/ x = p BY <1>24
<1>26. Owned'
  <2>1. \A z \in Ids : Has(c, z) <=> own1[z] # 0
    <3> TAKE z \in Ids
    <3>1. CASE z = id BY <1>1, <1>2, <1>17, <3>1
    <3>2. CASE z # id BY <1>2, <1>3, <1>20, <3>2
    <3> QED BY <3>1, <3>2
  <2>2. ASSUME NEW r \in Recs(c)
        PROVE  /\ r.qos = QosOf(own1[r.id]) /\ Fits(r.st, own1[r.id])
               /\ r.st \in Unacked => r.id \in app'.kept
               /\ r.st \in Late => own1[r.id] \in ToSet(brk.got)
    <3>1. CASE r.id = id BY <1>1, <1>2, <1>5, <3>1
    <3>2. CASE r.id # id
      <4>1. r \in Recs(out) /\ own1[r.id] = own[r.id] BY <1>1, <1>2, <1>4, <3>2
      <4> QED BY <1>2, <1>3, <3>2, <4>1
    <3> QED BY <3>1, <3>2
  <2>3. ASSUME NEW x \in Ids, NEW y \in Ids, own1[x] = own1[y], own1[x] # 0 PROVE x = y
    <3>1. x # id /\ y # id => own1[x] = own[x] /\ own1[y] = own[y] BY <1>2
    <3> QED BY <1>2, <1>3, <1>22, <2>3, <3>1
  <2> QED BY <1>1, <1>12, <2>1, <2>2, <2>3
<1>27. Published'
  <2>1. \A x \in app.pub \cup {m}, y \in Out \ (app.pub \cup {m}) : x < y
    <3>1. ASSUME NEW y \in Out \ (app.pub \cup {m}) PROVE m < y
      <4>1. m <= y /\ m # y /\ y \in Nat BY <1>9, <3>1
      <4> QED BY <1>17, <4>1
    <3> QED BY <1>6, <3>1
  <2>2. \A z \in Ids : own1[z] \in app.pub \cup {m} \cup {0}
    <3> TAKE z \in Ids
    <3> QED BY <1>2, <1>6
  <2> QED BY <1>2, <1>6, <1>15, <2>1, <2>2
<1>28. OutPackets'
  <2>1. ASSUME NEW x \in F1
        PROVE  IF x.type = "PUBLISH" THEN x.m = own1[x.id] /\ x.m # 0 /\ StateIn(c, x.id, Unacked)
               ELSE StateIn(c, x.id, {"PubCompPending"})
    <3>1. CASE x \in F BY <1>2, <1>7, <1>21, <1>23, <3>1
    <3>2. CASE x = p
      <4>1. StateIn(c, id, Unacked) BY <1>1 DEF StateIn, Has
      <4> QED BY <1>2, <1>10, <1>17, <3>2, <4>1
    <3> QED BY <1>25, <3>1, <3>2
  <2>2. ASSUME NEW x \in B1
        PROVE  IF x.type = "PUBCOMP" THEN StateIn(c, x.id, {"PubCompPending"}) /\ x.id \notin brk.rx
               ELSE /\ StateIn(c, x.id, Unacked) /\ own1[x.id] \in ToSet(brk.got)
                    /\ x.type = "PUBACK" <=> own1[x.id] \in Qos1
    BY <1>2, <1>7, <1>21, <1>23, <1>24
  <2> QED BY <1>13, <1>24, <2>1, <2>2
<1>29. Received'
  <2>1. ASSUME NEW z \in brk.rx
        PROVE  own1[z] # 0 /\ own1[z] \notin Qos1 /\ own1[z] \in ToSet(brk.got)
    <3>1. z # id BY <1>8, <1>22
    <3>2. own1[z] = own[z] BY <1>2, <1>9, <3>1
    <3> QED BY <1>8, <3>2
  <2>2. ASSUME ~app.astray, brk.sess, NEW z \in Ids, StateIn(c, z, Unacked),
               own1[z] \in ToSet(brk.got), own1[z] \notin Qos1
        PROVE  z \in brk.rx
    <3>1. z # id BY <1>2, <1>22, <2>2
    <3>2. StateIn(out, z, Unacked) /\ own1[z] = own[z] BY <1>2, <1>21, <2>2, <3>1
    <3> QED BY <1>8, <2>2, <3>2
  <2> QED BY <1>8, <1>14, <2>1, <2>2
<1>30. ASSUME cb PROVE FirstInOrder' /\ TableOrder' /\ QueueOrder'
  <2>1. FirstInOrder /\ TableOrder /\ QueueOrder BY <1>16, <1>30
  <2>2. FirstInOrder' BY <1>18, <2>1 DEF FirstInOrder
  <2>3. \A r : /\ Waits(r) <=> r.st \in Unacked /\ own[r.id] \notin ToSet(brk.got)
               /\ Waits(r)' <=> r.st \in Unacked /\ own1[r.id] \notin ToSet(brk.got)
    BY <1>18 DEF Waits, Delivered, own, own1
  <2>4. /\ \A i, j \in Used(out) : i < j /\ out[i].st \in Unacked /\ out[j].st \in Unacked
             => own[out[i].id] < own[out[j].id]
        /\ \A r \in Recs(out) : Waits(r) => \A k \in ToSet(brk.got) : k < own[r.id]
    BY <2>1 DEF TableOrder, out, own
  <2>5. /\ Rising(net.c2b)
        /\ \A x \in F, r \in Recs(out) : x.type = "PUBLISH" /\ Waits(r) /\ own[r.id] < x.m => Sent(r.id)
    BY <2>1 DEF QueueOrder, out, own, F
  <2>6. \A r \in Recs(out) : own[r.id] \in app.pub
    <3> TAKE r \in Recs(out)
    <3>1. Has(out, r.id) /\ r.id \in Ids BY <1>4 DEF Has
    <3> QED BY <1>3, <1>6, <3>1
  <2>7. \A x \in app.pub : x < m BY <1>6, <1>17
  <2>8. \A r \in Recs(c) : r.id # id => r \in Recs(out) /\ own1[r.id] = own[r.id] /\ (Waits(r)' <=> Waits(r))
    <3> TAKE r \in Recs(c)
    <3> SUFFICES ASSUME r.id # id PROVE r \in Recs(out) /\ own1[r.id] = own[r.id] /\ (Waits(r)' <=> Waits(r))
      OBVIOUS
    <3>1. r \in Recs(out) /\ own1[r.id] = own[r.id] BY <1>1, <1>2, <1>4
    <3> QED BY <2>3, <3>1
  <2>9. TableOrder'
    <3>1. ASSUME NEW j \in Used(c), NEW k \in Used(c), j < k, c[j].st \in Unacked, c[k].st \in Unacked
          PROVE  own1[c[j].id] < own1[c[k].id]
      <4>1. c[j] \in Recs(c) /\ c[k] \in Recs(c) BY DEF Recs
      <4>2. c[j].id # id BY <1>1, <3>1
      <4>3. c[j] \in Recs(out) /\ own1[c[j].id] = own[c[j].id] BY <2>8, <4>1, <4>2
      <4>4. CASE c[k].id = id BY <1>2, <2>6, <2>7, <4>3, <4>4
      <4>5. CASE c[k].id # id
        <5>1. own1[c[k].id] = own[c[k].id] BY <2>8, <4>1, <4>5
        <5>2. PICK i \in Used(out), l \in Used(out) : i < l /\ c[j] = out[i] /\ c[k] = out[l]
          BY <1>1, <3>1, <4>5
        <5> QED BY <2>4, <3>1, <4>3, <5>1, <5>2
      <4> QED BY <4>4, <4>5
    <3>2. ASSUME NEW r \in Recs(c), Waits(r)' PROVE \A k \in ToSet(brk.got) : k < own1[r.id]
      <4>1. CASE r.id = id BY <1>2, <1>6, <2>7, <4>1
      <4>2. CASE r.id # id BY <2>4, <2>8, <3>2, <4>2
      <4> QED BY <4>1, <4>2
    <3> QED BY <1>18, <3>1, <3>2 DEF TableOrder, c, own1
  <2>10. \A z \in Ids : /\ Sent(z) => Pkt("PUBLISH", z, own[z]) \in F
                        /\ Pkt("PUBLISH", z, own1[z]) \in F1 => Sent(z)'
    BY DEF Sent, own, own1, F, F1
  <2>11. \A z \in Ids : Sent(z) /\ z # id /\ F \subseteq F1 => Sent(z)' BY <1>2, <2>10
  <2>12. p \in F1 => Sent(id)' BY <1>2, <2>10 DEF p
  <2>13. ASSUME net.up, NEW r \in Recs(out), Waits(r) PROVE Sent(r.id)
    <3>1. PICK i \in Used(out) : r = out[i] BY DEF Recs
    <3>2. \A j \in Used(cli.out) : Waits(cli.out[j]) => Sent(cli.out[j].id) BY <2>1, <2>13 DEF QueueOrder
    <3> QED BY <2>13, <3>1, <3>2 DEF out
  <2>14. QueueOrder'
    <3>1. Rising(net'.c2b)
      <4>1. CASE net'.c2b = <<>> BY <4>1, RisingEmpty
      <4>2. CASE net'.c2b = Append(net.c2b, p)
        <5>1. \A x \in Fwd(net.c2b) : x.type = "PUBLISH" => x.m < p.m
          <6>1. \A x \in F : x.type = "PUBLISH" => x.m \in app.pub BY <1>6, <1>7, <1>23
          <6> QED BY <1>10, <2>7, <6>1 DEF F
        <5> QED BY <1>9, <1>10, <2>5, <4>2, <5>1, AppendRising
      <4> QED BY <1>11, <4>1, <4>2
    <3>2. ASSUME NEW x \in F1, NEW r \in Recs(c), x.type = "PUBLISH", Waits(r)', own1[r.id] < x.m
          PROVE  Sent(r.id)'
      <4>1. net.up /\ F1 = F \cup {p} BY <1>24, <3>2
      <4>2. CASE r.id = id BY <2>12, <4>1, <4>2
      <4>3. CASE r.id # id
        <5>1. r \in Recs(out) /\ Waits(r) BY <2>8, <3>2, <4>3
        <5> QED BY <1>4, <2>11, <2>13, <4>1, <4>3, <5>1
      <4> QED BY <4>2, <4>3
    <3>3. ASSUME net'.up, NEW i \in Used(c), NEW r, r = c[i], Waits(r)'
          PROVE  Sent(r.id)'
      <4>1. r \in Recs(c) BY <3>3 DEF Recs
      <4>2. net.up /\ F1 = F \cup {p} BY <1>24, <3>3
      <4>3. CASE r.id = id BY <2>12, <4>2, <4>3
      <4>4. CASE r.id # id
        <5>1. r \in Recs(out) /\ Waits(r) BY <2>8, <3>3, <4>1, <4>4
        <5> QED BY <1>4, <2>11, <2>13, <4>2, <4>4, <5>1
      <4> QED BY <4>3, <4>4
    <3> QED BY <3>1, <3>2, <3>3 DEF QueueOrder, c, own1, F1, Waits, Delivered, Sent
  <2> QED BY <2>2, <2>9, <2>14
<1> QED BY <1>18, <1>19, <1>26, <1>27, <1>28, <1>29, <1>30 DEF OutInv, Ordered

LEMMA Reserves ==
  ASSUME QosInv, NEW id \in Ids, NEW m, NEW r, r = MQTT_ReserveState(cli.out, id, QosOf(m))
  PROVE  /\ r.recs \in Table(OutCount, Ids)
         /\ r.status = "StateCollision" <=> Has(cli.out, id)
         /\ r.status = "Success" => Grows(cli.out, r.recs, [id |-> id, qos |-> QosOf(m), st |-> "PublishSend"])
         /\ r.status # "Success" => Keeps(cli.out, r.recs)
<1> DEFINE out == cli.out
           qos == QosOf(m)
           a == AddRecord(out, id, qos, "PublishSend")
<1>1. OutCount \in Nat \ {0} /\ 0 \notin Ids /\ out \in Table(OutCount, Ids) /\ id # 0
  BY Types, NoZero DEF QosInv
<1>2. qos \in {1, 2} BY DEF QosOf
<1>3. "PublishSend" \in PublishState \ {"Null", "PublishDone"} BY DEF PublishState
<1> HIDE DEF out, qos
<1>4. MQTT_ReserveState(out, id, qos) = a BY <1>1, <1>2 DEF MQTT_ReserveState
<1>5. r = a BY <1>4 DEF out, qos
<1>6. /\ a.recs \in Table(OutCount, Ids)
      /\ a.status = "StateCollision" <=> Has(out, id)
      /\ a.status = "Success" => Grows(out, a.recs, [id |-> id, qos |-> qos, st |-> "PublishSend"])
      /\ a.status # "Success" => Keeps(out, a.recs)
  BY <1>1, <1>2, <1>3, AddRecordDoes
<1> HIDE DEF a
<1> QED BY <1>5, <1>6 DEF out, qos

\* What the application notes of a message that it publishes.
AppWith(id, m) == [app EXCEPT !.own[id] = m, !.kept = @ \cup {id}, !.pub = @ \cup {m}]

Notes(a, own, kept, pub) == [a EXCEPT !.own = own, !.kept = kept, !.pub = pub]

LEMMA NotesIs ==
  ASSUME NEW a \in Application, NEW own \in [Ids -> Out \cup {0}], NEW kept \in SUBSET Ids,
         NEW pub \in SUBSET Out
  PROVE  LET b == Notes(a, own, kept, pub)
         IN /\ b \in Application /\ b.own = own /\ b.kept = kept /\ b.pub = pub
            /\ b.done = a.done /\ b.astray = a.astray /\ b.got = a.got
            /\ b.twice = a.twice /\ b.lost = a.lost
  BY DEF Notes, Application

LEMMA AppWithIs ==
  ASSUME QosInv, NEW id \in Ids, NEW m \in Out, app' = AppWith(id, m)
  PROVE  app' \in Application /\ AppPublishes(id, m) /\ app'.got = app.got
         /\ app'.twice = app.twice /\ app'.lost = app.lost
<1>1. app \in Application BY DEF QosInv, QosTypeOK
<1>2. app' = [app EXCEPT !.own = [app.own EXCEPT ![id] = m], !.kept = app.kept \cup {id},
                         !.pub = app.pub \cup {m}]
  BY <1>1 DEF AppWith, Application
<1>3. app.own \in [Ids -> Out \cup {0}] BY <1>1 DEF Application
<1> DEFINE own == [app.own EXCEPT ![id] = m]
<1>4. /\ own \in [Ids -> Out \cup {0}] /\ own[id] = m /\ \A z \in Ids : z # id => own[z] = app.own[z]
      /\ DOMAIN own = Ids
  BY <1>3
<1> DEFINE kept == app.kept \cup {id}
           pub == app.pub \cup {m}
<1>5. kept \in SUBSET Ids /\ pub \in SUBSET Out BY <1>1 DEF Application
<1>6. app' = Notes(app, own, kept, pub) BY <1>2 DEF Notes
<1>7. kept = app.kept \cup {id} /\ pub = app.pub \cup {m} OBVIOUS
<1> HIDE DEF own, kept, pub
<1>8. /\ app' \in Application /\ app'.own = own /\ app'.kept = kept /\ app'.pub = pub
      /\ app'.done = app.done /\ app'.astray = app.astray /\ app'.got = app.got
      /\ app'.twice = app.twice /\ app'.lost = app.lost
  BY <1>1, <1>4, <1>5, <1>6, NotesIs
<1> QED BY <1>4, <1>7, <1>8 DEF AppPublishes

\* The client with the next identifier.
LEMMA NextIs ==
  ASSUME NEW c \in Client
  PROVE  /\ NextId(c) \in Client /\ NextId(c).out = c.out /\ NextId(c).in = c.in /\ NextId(c).pc = c.pc
         /\ NextId(c).conn = c.conn /\ NextId(c).bad = c.bad
<1>1. 1 \in Ids BY QosConstants DEF Ids
<1> QED BY <1>1 DEF NextId, Client

\* MQTT_Publish, in these terms.
Reserved(id, m) == MQTT_ReserveState(cli.out, id, QosOf(m))
PublishedAs(id, m, c) ==
  \/ Reserved(id, m).status # "Success" /\ cli' = c /\ UNCHANGED <<net, app, drops>>
  \/ /\ Reserved(id, m).status = "Success" /\ app' = AppWith(id, m)
     /\ \E o \in SendPublish(c, net, id, m) : Returns(o)

LEMMA PublishIs ==
  ASSUME QosInv, Publish
  PROVE  /\ cli.pc = "idle" /\ cli.conn = "Connected" /\ ~cli.bad /\ UNCHANGED <<cb, brk, expiries>>
         /\ \E m \in Out \ app.pub : /\ \A k \in Out \ app.pub : m <= k
                                     /\ PublishedAs(cli.next, m, NextId(WithOut(cli, Reserved(cli.next, m).recs)))
<1>1. cli.pc = "idle" /\ cli.conn = "Connected" /\ ~cli.bad /\ UNCHANGED <<cb, brk, expiries>> BY DEF Publish
<1>2. PICK m \in Out \ app.pub :
       /\ \A k \in Out \ app.pub : m <= k
       /\ LET id == cli.next
              r == MQTT_ReserveState(cli.out, id, QosOf(m))
              c == NextId([cli EXCEPT !.out = r.recs])
          IN IF r.status # "Success"
             THEN cli' = c /\ UNCHANGED <<net, app, drops>>
             ELSE /\ app' = [app EXCEPT !.own[id] = m, !.kept = @ \cup {id}, !.pub = @ \cup {m}]
                  /\ \E o \in SendPublish(c, net, id, m) : Returns(o)
  BY Zenon DEF Publish
<1>3. PublishedAs(cli.next, m, NextId(WithOut(cli, Reserved(cli.next, m).recs)))
  BY <1>2, Zenon DEF PublishedAs, Reserved, AppWith, WithOut
<1> QED BY <1>1, <1>2, <1>3

LEMMA PublishKeeps ==
  ASSUME QosInv, Publish
  PROVE  QosInv'
<1> DEFINE id == cli.next
<1>1. /\ cli.pc = "idle" /\ cli.conn = "Connected" /\ ~cli.bad /\ UNCHANGED <<cb, brk, expiries>>
  BY PublishIs
<1>2. PICK m \in Out \ app.pub :
        /\ \A k \in Out \ app.pub : m <= k
        /\ PublishedAs(id, m, NextId(WithOut(cli, Reserved(id, m).recs)))
  BY PublishIs
<1> DEFINE out == cli.out
           in == cli.in
           r == Reserved(id, m)
           t == r.recs
           c == NextId(WithOut(cli, t))
           q == Pkt("PUBLISH", id, m)
           u == PublishSends(c, id, m)
<1>3. /\ QosTypeOK /\ Connection /\ OutInv /\ InInv /\ cli \in Client /\ net \in Network /\ id \in Ids
      /\ app \in Application
  BY DEF QosInv, QosTypeOK, Client
<1>4. /\ out \in Table(OutCount, Ids) /\ OutCount \in Nat /\ 0 \notin Ids
      /\ in \in Table(InCount, InIds) /\ InCount \in Nat /\ 0 \notin InIds
  BY <1>3, Types, NoZero
<1>5. /\ \/ r.status # "Success" /\ cli' = c /\ UNCHANGED <<net, app, drops>>
         \/ /\ r.status = "Success" /\ app' = AppWith(id, m)
            /\ \E o \in SendPublish(c, net, id, m) : Returns(o)
  BY <1>2, Zenon DEF PublishedAs
<1>6. r = MQTT_ReserveState(out, id, QosOf(m)) BY DEF Reserved
<1>7. q \in Packet /\ q.type \in Orders BY <1>3, PktIs, KindsOf DEF Type, Msgs
<1> HIDE DEF id, r, q
<1>8. /\ t \in Table(OutCount, Ids)
      /\ r.status = "StateCollision" <=> Has(out, id)
      /\ r.status = "Success" => Grows(out, t, [id |-> id, qos |-> QosOf(m), st |-> "PublishSend"])
      /\ r.status # "Success" => Keeps(out, t)
  BY <1>3, <1>6, Reserves
<1> HIDE DEF t
<1>9. WithOut(cli, t) \in Client /\ WithOut(cli, t).out = t /\ WithOut(cli, t).in = in
      /\ WithOut(cli, t).pc = cli.pc /\ WithOut(cli, t).conn = cli.conn /\ WithOut(cli, t).bad = cli.bad
  BY <1>3, <1>8 DEF WithOut, Client, Table
<1>10. c \in Client /\ c.out = t /\ c.in = in /\ c.pc = "idle" /\ c.conn = "Connected" /\ c.bad = FALSE
  BY <1>1, <1>3, <1>9, NextIs DEF Client
<1> HIDE DEF out, in, c
<1>11. Keeps(in, in) BY <1>4, KeepsSelf
<1>12. CASE r.status # "Success" /\ cli' = c /\ UNCHANGED <<net, app, drops>>
  <2>1. ClientStays BY <1>1, <1>10, <1>12 DEF ClientStays
  <2>2. OutSame /\ InSame BY <1>1, <1>12 DEF OutSame, InSame
  <2>3. OutNet(net, net') /\ InNet(net, net') BY <1>12, NetTrans
  <2>4. OutInv' BY <1>3, <1>8, <1>10, <1>12, <2>1, <2>2, <2>3, OutQuiet DEF out
  <2>5. InInv' BY <1>3, <1>4, <1>10, <1>11, <1>12, <2>2, <2>3, InQuiet DEF in
  <2>6. QosTypeOK' BY <1>1, <1>3, <1>10, <1>12 DEF QosTypeOK, Client, OutCount
  <2>7. Connection' BY <1>1, <1>3, <1>10, <1>12 DEF Connection
  <2> QED BY <2>4, <2>5, <2>6, <2>7 DEF QosInv
<1>13. CASE /\ r.status = "Success" /\ app' = AppWith(id, m)
            /\ \E o \in SendPublish(c, net, id, m) : Returns(o)
  <2>1. PICK o \in SendPublish(c, net, id, m) : Returns(o) BY <1>13
  <2>2. r.status # "StateCollision" BY <1>13
  <2>3. OutAdded(t, id, m) BY <1>3, <1>8, <1>13, <2>2, GrowAdds DEF out
  <2>4. /\ app' \in Application /\ AppPublishes(id, m) /\ app'.got = app.got
        /\ app'.twice = app.twice /\ app'.lost = app.lost
    BY <1>3, <1>13, AppWithIs
  <2>5. u = MQTT_UpdateStatePublish(t, in, id, "SEND", QosOf(m)) BY <1>10 DEF PublishSends
  <2>6. \/ /\ o.c = Loses(c) /\ o.n = Broken(net) /\ o.ok = FALSE
           /\ net.up => drops # MaxDrops
        \/ /\ o.c = WithOut(c, u.out) /\ o.n = WithSent(net, q)
           /\ o.ok = (u.status = "Success") /\ net.up
    <3>1. PublishOutcome(o, c, net, id, m) BY <2>1, PublishOutcomes
    <3> QED BY <3>1, Zenon DEF PublishOutcome, q
  <2> DEFINE w == u.out
  <2>7. PubWaits(t, w, id, m) BY <1>3, <1>4, <1>8, <2>5, PublishSent
  <2>8. o.ok \in BOOLEAN BY <2>6
  <2> HIDE DEF u, w
  <2>9. OutAdded(w, id, m) BY <1>3, <2>3, <2>7, WaitsAdds
  <2>10. w \in Table(OutCount, Ids) BY <2>9 DEF OutAdded
  <2>11. /\ Loses(c) \in Client /\ Loses(c).pc = "idle" /\ Loses(c).conn = "DisconnectPending"
         /\ Loses(c).out = t /\ Loses(c).in = in
    BY <1>10 DEF Client, Loses
  <2>12. /\ WithOut(c, w) \in Client /\ WithOut(c, w).pc = "idle" /\ WithOut(c, w).conn = "Connected"
         /\ WithOut(c, w).out = w /\ WithOut(c, w).in = in
    BY <1>10, <2>10 DEF Client, WithOut, Table
  <2>13. /\ Broken(net) \in Network /\ InNet(net, Broken(net))
         /\ ~ Broken(net).up /\ Broken(net).c2b = <<>> /\ Broken(net).b2c = net.b2c
    BY <1>3, NetBroken
  <2>14. /\ WithSent(net, q) \in Network /\ InNet(net, WithSent(net, q))
         /\ WithSent(net, q).up = net.up /\ WithSent(net, q).c2b = Append(net.c2b, q)
         /\ WithSent(net, q).b2c = net.b2c
    <3>1. WithSent(net, q) \in Network /\ InNet(net, WithSent(net, q)) BY <1>3, <1>7, NetSends DEF WithSent
    <3> QED BY <1>3, <3>1 DEF WithSent, Network
  <2>15. \/ o.c = Loses(c) /\ o.n = Broken(net) /\ (net.up => drops # MaxDrops)
         \/ o.c = WithOut(c, w) /\ o.n = WithSent(net, q) /\ net.up
    BY <2>6 DEF w
  <2>16. Handler(o)
    BY <1>1, <2>1, <2>8, <2>11, <2>12, <2>13, <2>14, <2>15 DEF Handler
  <2>17. /\ QosTypeOK' /\ Connection' /\ cli'.out = o.c.out /\ cli'.in = o.c.in /\ net' = o.n
    BY <1>3, <2>4, <2>16, HandlerReturns
  <2>18. InInv'
    <3>1. InSame BY <1>1, <2>4 DEF InSame, AppPublishes
    <3>2. InNet(net, net') /\ cli'.in = in BY <2>11, <2>12, <2>13, <2>14, <2>15, <2>17
    <3> QED BY <1>3, <1>4, <1>11, <3>1, <3>2, InQuiet DEF in
  <2>19. OutInv'
    <3>1. OutAdded(cli'.out, id, m) BY <2>3, <2>9, <2>11, <2>12, <2>15, <2>17
    <3>2. NetPublishes(id, m) BY <2>13, <2>14, <2>15, <2>17 DEF NetPublishes, q
    <3>3. cli'.pc = "idle"
      <4>1. o.c \in Client /\ o.c.pc = "idle" BY <2>16 DEF Handler
      <4> QED BY <2>1, <4>1 DEF Returns, Client
    <3> QED BY <1>1, <1>2, <1>3, <2>4, <3>1, <3>2, <3>3, OutPublished
  <2> QED BY <2>17, <2>18, <2>19 DEF QosInv
<1> QED BY <1>5, <1>12, <1>13

-----------------------------------------------------------------------------
(* Resuming a session                                                      *)

\* k has less on its way than n.
OutLess(n, k) ==
  /\ OnePacket(k.c2b, k.b2c) /\ (Rising(n.c2b) => Rising(k.c2b))
  /\ Fwd(k.c2b) \in {Fwd(n.c2b), {}} /\ Back(k.b2c) \subseteq Back(n.b2c)

LEMMA OutUnchanged ==
  ASSUME QosInv, OutSame, OutLess(net, net'), cli'.out = cli.out, Resending',
         cb /\ net'.up /\ cli'.conn = "Connected" /\ ~cli'.bad /\ cli'.pc \in {"idle", "publishes"} =>
           /\ Fwd(net'.c2b) = Fwd(net.c2b)
           /\ \A i \in Used(cli.out) : Waits(cli.out[i]) /\ (cli'.pc = "publishes" => i <= cli'.cursor)
                                       => Sent(cli.out[i].id)
  PROVE  OutInv'
<1> DEFINE out == cli.out
           F == Fwd(net.c2b)
           F1 == Fwd(net'.c2b)
<1>1. \A id : Delivered(id)' <=> Delivered(id) BY DEF OutSame, Delivered
<1>2. OutInv BY DEF QosInv
<1>3. Owned' BY <1>1, <1>2 DEF OutInv, Owned, OutSame
<1>4. Published' BY <1>2 DEF OutInv, Published, OutSame
<1>5. OutPackets'
  <2>1. OnePacket(net'.c2b, net'.b2c) BY DEF OutLess
  <2>2. F1 \subseteq F /\ Back(net'.b2c) \subseteq Back(net.b2c) BY DEF OutLess
  <2>3. \A p \in F :
          IF p.type = "PUBLISH" THEN p.m = app.own[p.id] /\ p.m # 0 /\ StateIn(out, p.id, Unacked)
          ELSE StateIn(out, p.id, {"PubCompPending"})
    BY <1>2 DEF OutInv, OutPackets
  <2>4. \A p \in Back(net.b2c) :
          IF p.type = "PUBCOMP" THEN StateIn(out, p.id, {"PubCompPending"}) /\ p.id \notin brk.rx
          ELSE /\ StateIn(out, p.id, Unacked) /\ Delivered(p.id)
               /\ p.type = "PUBACK" <=> app.own[p.id] \in Qos1
    BY <1>2 DEF OutInv, OutPackets
  <2> QED BY <1>1, <2>1, <2>2, <2>3, <2>4 DEF OutPackets, OutSame
<1>6. Received' BY <1>1, <1>2 DEF OutInv, Received, OutSame
<1>7. ASSUME cb' PROVE FirstInOrder' /\ TableOrder' /\ QueueOrder'
  <2>1. cb /\ FirstInOrder /\ TableOrder /\ QueueOrder BY <1>2, <1>7 DEF OutInv, Ordered, OutSame
  <2>2. FirstInOrder' BY <2>1 DEF FirstInOrder, OutSame
  <2>3. \A r : Waits(r)' <=> Waits(r) BY <1>1 DEF Waits
  <2>4. TableOrder' BY <2>1, <2>3 DEF TableOrder, OutSame
  <2>5. F1 = F => \A id : Sent(id)' <=> Sent(id) BY DEF Sent, OutSame
  <2>6. \A p \in F1, r \in Recs(out) : p.type = "PUBLISH" /\ Waits(r)' /\ app'.own[r.id] < p.m => Sent(r.id)'
    <3>1. CASE F1 = {} BY <3>1
    <3>2. CASE F1 = F BY <2>1, <2>3, <2>5, <3>2 DEF QueueOrder, OutSame
    <3> QED BY <3>1, <3>2 DEF OutLess
  <2>7. Rising(net'.c2b) BY <2>1 DEF QueueOrder, OutLess
  <2>8. net'.up /\ cli'.conn = "Connected" /\ ~cli'.bad /\ cli'.pc \in {"idle", "publishes"} =>
          \A i \in Used(out) : Waits(out[i])' /\ (cli'.pc = "publishes" => i <= cli'.cursor)
                               => Sent(out[i].id)'
    BY <2>1, <2>3, <2>5
  <2> QED BY <2>2, <2>4, <2>6, <2>7, <2>8 DEF QueueOrder, Waits, Delivered, Sent
<1> QED BY <1>3, <1>4, <1>5, <1>6, <1>7 DEF OutInv, Ordered

\* The PUBLISH of an unacked record is sent again, and its record perhaps
\* waits for the acknowledgement now.
OutResends(c, id) ==
  /\ c \in Table(OutCount, Ids) /\ Distinct(c)
  /\ \A x : x.id # id => (x \in Recs(c) <=> x \in Recs(cli.out))
  /\ \A x \in Recs(c) : x.id = id =>
       x.st \in Unacked /\ x.qos = QosOf(app.own[id]) /\ Fits(x.st, app.own[id])
  /\ Has(c, id) /\ StateIn(cli.out, id, Unacked)

LEMMA OutResent ==
  ASSUME QosInv, OutSame, NEW id \in Ids, ~ OutBusy(id), OutResends(cli'.out, id),
         net'.c2b = Append(net.c2b, Pkt("PUBLISH", id, app.own[id])), net'.b2c = net.b2c,
         Resending', cb => TableOrder' /\ QueueOrder'
  PROVE  OutInv'
<1> DEFINE c == cli'.out
           out == cli.out
           own == app.own
           p == Pkt("PUBLISH", id, own[id])
           F == Fwd(net.c2b)
           B == Back(net.b2c)
<1>1. /\ c \in Table(OutCount, Ids) /\ Distinct(c)
      /\ \A x : x.id # id => (x \in Recs(c) <=> x \in Recs(out))
      /\ \A x \in Recs(c) : x.id = id => x.st \in Unacked /\ x.qos = QosOf(own[id]) /\ Fits(x.st, own[id])
      /\ Has(c, id) /\ StateIn(out, id, Unacked)
  BY DEF OutResends
<1>2. /\ \A z \in Ids : Has(out, z) <=> own[z] # 0
      /\ \A r \in Recs(out) : /\ r.qos = QosOf(own[r.id]) /\ Fits(r.st, own[r.id])
                              /\ r.st \in Unacked => r.id \in app.kept
                              /\ r.st \in Late => own[r.id] \in ToSet(brk.got)
      /\ \A x, y \in Ids : own[x] = own[y] /\ own[x] # 0 => x = y
  BY DEF QosInv, OutInv, Owned, Delivered
<1>3. /\ OnePacket(net.c2b, net.b2c)
      /\ \A x \in F : IF x.type = "PUBLISH" THEN x.m = own[x.id] /\ x.m # 0 /\ StateIn(out, x.id, Unacked)
                      ELSE StateIn(out, x.id, {"PubCompPending"})
      /\ \A x \in B : IF x.type = "PUBCOMP" THEN StateIn(out, x.id, {"PubCompPending"}) /\ x.id \notin brk.rx
                      ELSE /\ StateIn(out, x.id, Unacked) /\ own[x.id] \in ToSet(brk.got)
                           /\ x.type = "PUBACK" <=> own[x.id] \in Qos1
  BY DEF QosInv, OutInv, OutPackets, Delivered
<1>4. /\ \A z \in brk.rx : own[z] # 0 /\ own[z] \notin Qos1 /\ own[z] \in ToSet(brk.got)
      /\ ~app.astray =>
           /\ brk.sess => \A z \in Ids :
                StateIn(out, z, Unacked) /\ own[z] \in ToSet(brk.got) /\ own[z] \notin Qos1 => z \in brk.rx
           /\ brk.twice \subseteq Qos1
  BY DEF QosInv, OutInv, Received, Delivered
<1>5. net.c2b \in Seq(Packet) /\ net.b2c \in Seq(Packet) /\ own \in [Ids -> Out \cup {0}]
  BY Types DEF QosInv
<1>6. own[id] \in Out /\ own[id] # 0
  <2>1. Has(out, id) BY <1>1 DEF Has, StateIn
  <2> QED BY <1>2, <1>5, <2>1
<1>7. p \in Packet /\ p.type = "PUBLISH" /\ p.id = id /\ p.m = own[id] /\ p.type \in Orders
  BY <1>6, PktIs, KindsOf DEF Type, Msgs
<1>8. \A x \in F \cup B : x.id # id BY DEF OutBusy
<1>9. OnePacket(net'.c2b, net'.b2c)
  <2>1. \A x \in Fwd(net.c2b) \cup Back(net.b2c) : x.id # p.id BY <1>7, <1>8
  <2>2. OnePacket(Append(net.c2b, p), net.b2c) BY <1>3, <1>5, <1>7, <2>1, OneSent
  <2> QED BY <2>2
<1>10. Fwd(net'.c2b) = F \cup {p} /\ Back(net'.b2c) = B BY <1>5, <1>7, AppendKinds
<1>11. /\ cb' = cb /\ app'.own = own /\ app'.kept = app.kept /\ app'.astray = app.astray
       /\ brk'.rx = brk.rx /\ brk'.got = brk.got /\ brk'.sess = brk.sess /\ brk'.twice = brk.twice
  BY DEF OutSame
<1>12. Published' BY DEF QosInv, OutInv, Published, OutSame
<1>13. Owned' <=>
         /\ Distinct(c)
         /\ \A z \in Ids : Has(c, z) <=> own[z] # 0
         /\ \A r \in Recs(c) :
              /\ r.qos = QosOf(own[r.id]) /\ Fits(r.st, own[r.id])
              /\ r.st \in Unacked => r.id \in app.kept
              /\ r.st \in Late => own[r.id] \in ToSet(brk.got)
         /\ \A x, y \in Ids : own[x] = own[y] /\ own[x] # 0 => x = y
  BY <1>11 DEF Owned, Delivered
<1>14. OutPackets' <=>
         /\ OnePacket(net'.c2b, net'.b2c)
         /\ \A x \in F \cup {p} :
              IF x.type = "PUBLISH" THEN x.m = own[x.id] /\ x.m # 0 /\ StateIn(c, x.id, Unacked)
              ELSE StateIn(c, x.id, {"PubCompPending"})
         /\ \A x \in B : IF x.type = "PUBCOMP" THEN StateIn(c, x.id, {"PubCompPending"}) /\ x.id \notin brk.rx
                         ELSE /\ StateIn(c, x.id, Unacked) /\ own[x.id] \in ToSet(brk.got)
                              /\ x.type = "PUBACK" <=> own[x.id] \in Qos1
  BY <1>10, <1>11 DEF OutPackets, Delivered
<1>15. Received' <=>
         /\ \A z \in brk.rx : own[z] # 0 /\ own[z] \notin Qos1 /\ own[z] \in ToSet(brk.got)
         /\ ~app.astray =>
            /\ brk.sess => \A z \in Ids :
                 StateIn(c, z, Unacked) /\ own[z] \in ToSet(brk.got) /\ own[z] \notin Qos1 => z \in brk.rx
            /\ brk.twice \subseteq Qos1
  BY <1>11 DEF Received, Delivered
<1>16. cb => FirstInOrder BY DEF QosInv, OutInv, Ordered
<1>17. cb' => FirstInOrder' /\ TableOrder' /\ QueueOrder' BY <1>11, <1>16 DEF FirstInOrder
<1> HIDE DEF c, out, own, F, B, p
<1>18. \A z : z # id => (Has(c, z) <=> Has(out, z)) BY <1>1 DEF Has
<1>19. \A z, S : z # id => (StateIn(c, z, S) <=> StateIn(out, z, S)) BY <1>1 DEF StateIn
<1>20. StateIn(c, id, Unacked) /\ Has(out, id) BY <1>1 DEF StateIn, Has
<1>21. Owned'
  <2>1. \A z \in Ids : Has(c, z) <=> own[z] # 0 BY <1>1, <1>2, <1>18, <1>20
  <2>2. ASSUME NEW r \in Recs(c)
        PROVE  /\ r.qos = QosOf(own[r.id]) /\ Fits(r.st, own[r.id])
               /\ r.st \in Unacked => r.id \in app.kept
               /\ r.st \in Late => own[r.id] \in ToSet(brk.got)
    <3>1. CASE r.id = id
      <4>1. id \in app.kept BY <1>1, <1>2 DEF StateIn
      <4>2. r.st \notin Late BY <1>1, <3>1 DEF Late, Unacked
      <4> QED BY <1>1, <3>1, <4>1, <4>2
    <3>2. CASE r.id # id BY <1>1, <1>2, <3>2
    <3> QED BY <3>1, <3>2
  <2> QED BY <1>1, <1>2, <1>13, <2>1, <2>2
<1>22. OutPackets'
  <2>1. ASSUME NEW x \in F \cup {p}
        PROVE  IF x.type = "PUBLISH" THEN x.m = own[x.id] /\ x.m # 0 /\ StateIn(c, x.id, Unacked)
               ELSE StateIn(c, x.id, {"PubCompPending"})
    <3>1. CASE x \in F BY <1>3, <1>8, <1>19, <3>1
    <3>2. CASE x = p BY <1>6, <1>7, <1>20, <3>2
    <3> QED BY <3>1, <3>2
  <2>2. ASSUME NEW x \in B
        PROVE  IF x.type = "PUBCOMP" THEN StateIn(c, x.id, {"PubCompPending"}) /\ x.id \notin brk.rx
               ELSE /\ StateIn(c, x.id, Unacked) /\ own[x.id] \in ToSet(brk.got)
                    /\ x.type = "PUBACK" <=> own[x.id] \in Qos1
    BY <1>3, <1>8, <1>19
  <2> QED BY <1>9, <1>14, <2>1, <2>2
<1>23. Received'
  <2>1. \A z : StateIn(c, z, Unacked) => StateIn(out, z, Unacked) BY <1>1, <1>19
  <2> QED BY <1>4, <1>15, <2>1
<1> QED BY <1>12, <1>17, <1>21, <1>22, <1>23 DEF OutInv, Ordered

\* The outcomes of sending are results: a status, a client and a network.
Result == [ok: BOOLEAN, c: Client, n: Network]

LEMMA SendShape ==
  ASSUME NEW c, NEW n, NEW p, NEW o \in SendOutcomes(c, n, p)
  PROVE  o = [ok |-> o.ok, c |-> o.c, n |-> o.n]
  BY DEF SendOutcomes

LEMMA AckShape ==
  ASSUME NEW c, NEW n, NEW id, NEW st \in DOMAIN AckTypeToSend, NEW o \in PublishAcks(c, n, id, st)
  PROVE  o = [ok |-> o.ok, c |-> o.c, n |-> o.n]
<1> DEFINE r == AckResult(c, id, st)
           pkt == AckPacket(id, st)
<1>1. /\ r = MQTT_UpdateStateAck(c.out, c.in, id, AckTypeToSend[st], "SEND")
      /\ pkt = Pkt(AckTypeToSend[st], id, 0)
  BY DEF AckResult, AckPacket
<1> HIDE DEF r, pkt
<1>2. CASE c.conn # "Connected"
  <2>1. o = [ok |-> FALSE, c |-> c, n |-> n] BY <1>2 DEF PublishAcks
  <2> QED BY <2>1
<1>3. CASE c.conn = "Connected"
  <2>1. PICK s \in SendOutcomes(c, n, pkt) :
          o = IF s.ok THEN [s EXCEPT !.ok = (r.status = "Success"), !.c.out = r.out, !.c.in = r.in] ELSE s
    BY <1>1, <1>3 DEF PublishAcks
  <2>2. s = [ok |-> s.ok, c |-> s.c, n |-> s.n] BY <2>1, SendShape
  <2> QED BY <2>1, <2>2
<1> QED BY <1>2, <1>3

LEMMA PublishShape ==
  ASSUME NEW c, NEW n, NEW id, NEW m, NEW o \in SendPublish(c, n, id, m)
  PROVE  o = [ok |-> o.ok, c |-> o.c, n |-> o.n]
<1> DEFINE r == PublishSends(c, id, m)
           pkt == Pkt("PUBLISH", id, m)
<1>1. PICK s \in SendOutcomes(c, n, pkt) :
        o = IF s.ok THEN [s EXCEPT !.ok = (r.status = "Success"), !.c.out = r.out] ELSE s
  BY DEF SendPublish, PublishSends
<1>2. s = [ok |-> s.ok, c |-> s.c, n |-> s.n] BY <1>1, SendShape
<1> HIDE DEF r, pkt
<1> QED BY <1>1, <1>2

\* What a round of a resuming loop returns: an error ends the loop.
Stopped(o) == [o EXCEPT !.c.pc = IF o.ok THEN @ ELSE "idle"]
Resumes(o) ==
  /\ o \in Result /\ Returns(Stopped(o)) /\ cli.pc # "idle"
  /\ cb' = cb /\ brk' = brk /\ expiries' = expiries
  /\ o.c.pc = cli.pc /\ o.c.conn # "NotConnected" /\ (o.ok => o.c.conn = "Connected")
  /\ o.n.up => net.up
  /\ net.up /\ ~o.n.up => drops # MaxDrops

LEMMA ResumeReturns ==
  ASSUME QosTypeOK, Connection, NEW o, Resumes(o), app' \in Application
  PROVE  /\ QosTypeOK' /\ Connection'
         /\ cli'.out = o.c.out /\ cli'.in = o.c.in /\ cli'.cursor = o.c.cursor /\ cli'.conn = o.c.conn
         /\ cli'.pc = (IF o.ok THEN cli.pc ELSE "idle") /\ cli'.bad = ~o.ok /\ net' = o.n
<1>1. o \in [ok: BOOLEAN, c: Client, n: Network] BY DEF Resumes, Result
<1>2. o.c \in Client /\ o.ok \in BOOLEAN /\ o.n \in Network BY <1>1
<1> DEFINE pc == IF o.ok THEN o.c.pc ELSE "idle"
           k == [o.c EXCEPT !.pc = pc]
<1>3. Stopped(o).ok = o.ok /\ Stopped(o).n = o.n /\ Stopped(o).c = k
  BY <1>1 DEF Stopped
<1>4. pc \in {o.c.pc, "idle"} OBVIOUS
<1>5. pc = IF o.ok THEN cli.pc ELSE "idle" BY DEF Resumes
<1>6. k \in Client /\ k.pc = pc /\ k.out = o.c.out /\ k.in = o.c.in /\ k.cursor = o.c.cursor /\ k.conn = o.c.conn
  BY <1>2, <1>4 DEF Client
<1>7. /\ cli' = [Stopped(o).c EXCEPT !.bad = ~Stopped(o).ok] /\ net' = Stopped(o).n
      /\ drops' = IF net.up /\ ~Stopped(o).n.up THEN drops + 1 ELSE drops
  BY DEF Resumes, Returns, Spent
<1> HIDE DEF k, pc
<1>8. cli' = [k EXCEPT !.bad = ~o.ok] /\ net' = o.n /\ drops' = IF net.up /\ ~o.n.up THEN drops + 1 ELSE drops
  BY <1>3, <1>7
<1>9. /\ cli' \in Client /\ cli'.out = k.out /\ cli'.in = k.in /\ cli'.cursor = k.cursor
      /\ cli'.conn = k.conn /\ cli'.pc = k.pc /\ cli'.bad = ~o.ok
  BY <1>2, <1>6, <1>8 DEF Client
<1>10. drops' \in 0 .. MaxDrops BY <1>8, QosConstants DEF QosTypeOK, Resumes
<1>11. Client' = Client BY DEF Resumes, Client, OutCount
<1>12. QosTypeOK'
  <2>1. cb' \in DOMAIN Slots /\ brk' \in Broker /\ expiries' \in 0 .. MaxExpiry
    BY DEF QosTypeOK, Resumes
  <2> QED BY <1>2, <1>8, <1>9, <1>10, <1>11, <2>1 DEF QosTypeOK
<1>13. brk.sess BY DEF Resumes, Connection
<1>14. Connection'
  BY <1>2, <1>5, <1>6, <1>8, <1>9, <1>13 DEF Resumes, Connection
<1> QED BY <1>5, <1>6, <1>8, <1>9, <1>12, <1>14

\* The loop stops with an error.
LEMMA ResumeFails ==
  ASSUME QosInv, NEW o, Resumes(o), ~o.ok, app' \in Application, OutSame, InSame,
         o.c.in = cli.in, Keeps(cli.out, o.c.out), OutNet(net, o.n), InNet(net, o.n)
  PROVE  QosInv'
<1>1. QosTypeOK /\ Connection /\ OutInv /\ InInv BY DEF QosInv
<1>2. /\ QosTypeOK' /\ Connection' /\ cli'.out = o.c.out /\ cli'.in = o.c.in /\ cli'.pc = "idle"
      /\ cli'.bad = TRUE /\ net' = o.n
  BY <1>1, ResumeReturns
<1>3. cli'.out \in Table(OutCount, Ids)
  <2>1. o.c \in Client BY DEF Resumes, Result
  <2> QED BY <1>2, <2>1 DEF Client, Table
<1>4. /\ cli.in \in Table(InCount, InIds) /\ InCount \in Nat /\ 0 \notin InIds BY <1>1, Types, NoZero
<1>5. Keeps(cli.in, cli.in) BY <1>4, KeepsSelf
<1>6. ClientStays BY <1>2 DEF ClientStays
<1>7. OutInv' BY <1>1, <1>2, <1>3, <1>6, OutQuiet
<1>8. InInv' BY <1>1, <1>2, <1>4, <1>5, InQuiet
<1> QED BY <1>2, <1>7, <1>8 DEF QosInv

\* What InInv needs of a round: the PUBLISH or PUBREL goes the other way.
LEMMA InResumed ==
  ASSUME QosInv, InSame, cli'.in = cli.in, InNet(net, net')
  PROVE  InInv'
<1>1. QosTypeOK /\ InInv /\ cli.in \in Table(InCount, InIds) /\ InCount \in Nat /\ 0 \notin InIds
  BY Types, NoZero DEF QosInv
<1>2. Keeps(cli.in, cli.in) BY <1>1, KeepsSelf
<1> QED BY <1>1, <1>2, InQuiet

\* The client of the next round.
WithCursor(c, k) == [c EXCEPT !.cursor = k]
Leaves(pc) == [cli EXCEPT !.pc = pc, !.cursor = 0]

LEMMA CursorIs ==
  ASSUME QosInv, NEW k \in 0 .. OutCount, NEW pc \in {"idle", "publishes", "resend"}
  PROVE  /\ WithCursor(cli, k) \in Client /\ WithCursor(cli, k).cursor = k
         /\ WithCursor(cli, k).out = cli.out /\ WithCursor(cli, k).in = cli.in
         /\ WithCursor(cli, k).pc = cli.pc /\ WithCursor(cli, k).conn = cli.conn
         /\ Leaves(pc) \in Client /\ Leaves(pc).cursor = 0 /\ Leaves(pc).pc = pc
         /\ Leaves(pc).out = cli.out /\ Leaves(pc).in = cli.in /\ Leaves(pc).conn = cli.conn
         /\ Leaves(pc).bad = cli.bad
<1>1. cli \in Client /\ 0 \in 0 .. OutCount BY Types DEF QosInv, QosTypeOK
<1> QED BY <1>1 DEF WithCursor, Leaves, Client

LEMMA OutLessNet ==
  ASSUME QosInv, NEW k, OutNet(net, k)
  PROVE  OutLess(net, k)
  BY DEF OutLess, OutNet, QosInv, OutInv, OutPackets

\* All PUBRELs are sent: the PUBLISHes follow.
LEMMA PubrelsEnd ==
  ASSUME QosInv, cli.pc = "pubrels", UNCHANGED <<cb, brk, app, expiries, net, drops>>,
         cli' = Leaves(IF cb THEN "publishes" ELSE "resend")
  PROVE  QosInv'
<1> DEFINE pc == IF cb THEN "publishes" ELSE "resend"
           out == cli.out
<1>1. pc \in {"publishes", "resend"} /\ cb' = cb OBVIOUS
<1>2. QosTypeOK /\ Connection /\ OutInv /\ Resending /\ out \in Table(OutCount, Ids)
      /\ OutCount \in Nat /\ 0 \notin Ids
  BY Types, NoZero DEF QosInv, OutInv
<1>3. 0 \in 0 .. OutCount BY <1>2
<1>4. /\ cli' \in Client /\ cli'.cursor = 0 /\ cli'.pc = pc /\ cli'.out = out /\ cli'.in = cli.in
      /\ cli'.conn = cli.conn /\ cli'.bad = cli.bad
  BY <1>1, <1>3, CursorIs
<1>5. pc = "publishes" <=> cb BY <1>1
<1> HIDE DEF pc
<1>6. QosTypeOK' /\ Connection'
  <2>1. Client' = Client BY DEF Client, OutCount
  <2>2. QosTypeOK' BY <1>2, <1>4, <2>1 DEF QosTypeOK
  <2>3. Connection' BY <1>1, <1>2, <1>4, <1>5 DEF Connection
  <2> QED BY <2>2, <2>3
<1>7. OutNet(net, net') /\ InNet(net, net') BY NetTrans
<1>8. OutLess(net, net') BY <1>7, OutLessNet
<1>9. OutSame /\ InSame BY DEF OutSame, InSame
<1>10. \A st \in Unacked : st \notin Late BY DEF Unacked, Late
<1>11. Used(out) \subseteq 1 .. OutCount BY <1>2, Rows
<1> HIDE DEF out
<1>12. \A i \in Used(out) : out[i].st \in Unacked => ~ OutBusy(out[i].id)
  BY <1>2, <1>10 DEF Resending, out
<1>13. Resending' BY <1>1, <1>4, <1>12 DEF Resending, OutBusy
<1>14. \A i \in Used(out) : ~ (i <= 0) BY <1>2, <1>11
<1>15. cb /\ cli'.pc \in {"idle", "publishes"} => cli'.pc = "publishes" BY <1>1, <1>4
<1>16. OutInv' BY <1>4, <1>8, <1>9, <1>13, <1>14, <1>15, OutUnchanged DEF out
<1>17. InInv' BY <1>4, <1>7, <1>9, InResumed
<1> QED BY <1>6, <1>16, <1>17 DEF QosInv

\* The PUBREL of a record is sent (again).
LEMMA PubrelResent ==
  ASSUME QosInv, cli.pc = "pubrels", cb' = cb, brk' = brk, app' = app,
         NEW i \in Used(cli.out), i > cli.cursor, cli.out[i].st \in Late,
         \A j \in Used(cli.out) : cli.cursor < j /\ j < i => cli.out[j].st \notin Late,
         NEW q, q = Pkt("PUBREL", cli.out[i].id, 0),
         cli'.out = Put(cli.out, i, InState(cli.out[i], "PubCompPending")),
         cli'.pc = "pubrels", cli'.cursor = i,
         net'.c2b = Append(net.c2b, q), net'.b2c = net.b2c, net'.up = net.up
  PROVE  OutInv'
<1> DEFINE out == cli.out
           c == cli'.out
           id == cli.out[i].id
           F == Fwd(net.c2b)
           B == Back(net.b2c)
<1>1. /\ out \in Table(OutCount, Ids) /\ OutCount \in Nat /\ 0 \notin Ids /\ Distinct(out)
      /\ net.c2b \in Seq(Packet) /\ net.b2c \in Seq(Packet) /\ app.own \in [Ids -> Out \cup {0}]
  BY Types, NoZero DEF QosInv, OutInv, Owned
<1>2. /\ \A r \in Recs(out) : /\ r.qos = QosOf(app.own[r.id]) /\ Fits(r.st, app.own[r.id])
                              /\ r.st \in Late => Delivered(r.id)
      /\ \A z \in Ids : Has(out, z) <=> app.own[z] # 0
  BY DEF QosInv, OutInv, Owned
<1>3. Resending /\ OnePacket(net.c2b, net.b2c) BY DEF QosInv, OutInv, OutPackets
<1>4. i \in Used(out) /\ out[i].id = id /\ out[i].st \in Late OBVIOUS
<1>5. out[i] \in [id: Ids, qos: {1, 2}, st: PublishState \ {"Null", "PublishDone"}] /\ out[i] \in Recs(out)
  BY <1>1, <1>4, Rows DEF Recs
<1>6. id \in Ids /\ ~ OutBusy(id) BY <1>3, <1>4, <1>5 DEF Resending
<1>7. q \in Packet /\ q.type = "PUBREL" /\ q.id = id /\ q.type \in Orders
  BY <1>6, PktIs, KindsOf DEF Type
<1>8. \A x \in F \cup B : x.id # id BY <1>6 DEF OutBusy
<1>9. OnePacket(net'.c2b, net'.b2c)
  <2>1. \A x \in Fwd(net.c2b) \cup Back(net.b2c) : x.id # q.id BY <1>7, <1>8
  <2>2. OnePacket(Append(net.c2b, q), net.b2c) BY <1>1, <1>3, <1>7, <2>1, OneSent
  <2> QED BY <2>2
<1>10. Fwd(net'.c2b) = F \cup {q} /\ Back(net'.b2c) = B BY <1>1, <1>7, AppendKinds
<1>11. c = Put(out, i, InState(out[i], "PubCompPending")) OBVIOUS
<1>12. \A x \in Recs(out) : x.id = id => x.st \in Late /\ x.qos = 2
  <2> SUFFICES ASSUME NEW x \in Recs(out), x.id = id PROVE x.st \in Late /\ x.qos = 2
    OBVIOUS
  <2>1. x = out[i] BY <1>1, <1>4 DEF Recs, Distinct
  <2>2. \A st \in Late : st \notin {"PublishSend", "PubAckPending"} BY DEF Late
  <2> QED BY <1>2, <1>4, <1>5, <2>1, <2>2 DEF Fits, QosOf
<1>13. \A j, k \in Used(out) : j < k => \E a, l \in Used(out) : a < l /\ out[j] = out[a] /\ out[k] = out[l]
  OBVIOUS
<1>14. OutTouched(out, id) BY <1>1, <1>12, <1>13 DEF OutTouched
<1>15. OutTouched(c, id) /\ Has(c, id) /\ StateIn(c, id, {"PubCompPending"})
  BY <1>4, <1>6, <1>11, <1>14, PutTouches
<1>16. /\ Used(c) = Used(out)
       /\ \A j \in Used(out) : j # i => c[j] = out[j]
       /\ c[i].id = id /\ c[i].st = "PubCompPending"
  <2> DEFINE v == InState(out[i], "PubCompPending")
  <2>1. v \in Record(Ids) /\ v.id = out[i].id /\ v.st = "PubCompPending"
    BY <1>5 DEF InState, Record, PublishState
  <2>2. c = Put(out, i, v) BY <1>11
  <2> HIDE DEF v, c, out
  <2>3. Used(Put(out, i, v)) = Used(out)
        /\ \A j \in Used(out) : Put(out, i, v)[j] = IF j = i THEN v ELSE out[j]
    BY <1>1, <1>4, <2>1, PutRecs
  <2> QED BY <1>4, <2>1, <2>2, <2>3
<1>17. AppAcked(c, id)
  <2>1. app.own[id] # 0 /\ Delivered(id) /\ QosOf(app.own[id]) = 2
    <3>1. Has(out, id) BY <1>5 DEF Has
    <3> QED BY <1>2, <1>4, <1>5, <1>6, <1>12, <3>1
  <2> QED BY <1>1, <1>15, <2>1 DEF AppAcked
<1>18. NetAcked(c, id)
  <2>1. Rising(net.c2b) => Rising(net'.c2b)
    <3>1. q.type # "PUBLISH" BY <1>7
    <3> QED BY <1>1, <1>7, <3>1, AppendRising
  <2> QED BY <1>7, <1>8, <1>9, <1>10, <1>15, <2>1 DEF NetAcked
<1>19. Resending'
  <2> HIDE DEF out, c, id
  <2>1. "PubCompPending" \in Late BY DEF Late
  <2>2. Used(out) \subseteq Nat /\ cli.cursor \in Nat
    <3>1. cli \in Client BY DEF QosInv, QosTypeOK
    <3>2. Used(out) \subseteq 1 .. OutCount BY <1>1, Rows
    <3> QED BY <1>1, <3>1, <3>2 DEF Client
  <2>3. \A j \in Used(out) : (out[j].st \in Late => j > cli.cursor) => \A x \in F \cup B : x.id # out[j].id
    BY <1>3 DEF Resending, OutBusy, out
  <2>4. ASSUME NEW j \in Used(c), c[j].st \in Late => j > i, NEW x \in Fwd(net'.c2b) \cup Back(net'.b2c)
        PROVE  x.id # c[j].id
    <3>1. i \in Nat /\ ~ (i > i) BY <1>4, <2>2
    <3>2. j # i BY <1>16, <2>1, <2>4, <3>1
    <3>3. j \in Used(out) /\ c[j] = out[j] BY <1>16, <2>4, <3>2
    <3>4. i > cli.cursor OBVIOUS
    <3>5. out[j].st \in Late => j > cli.cursor BY <2>2, <2>4, <3>1, <3>3, <3>4
    <3>6. \A y \in F \cup B : y.id # out[j].id BY <2>3, <3>3, <3>5
    <3>7. out[j].id # id BY <1>1, <1>4, <3>2, <3>3 DEF Distinct
    <3> QED BY <1>7, <1>10, <3>3, <3>6, <3>7
  <2>5. \A j \in Used(c) : (c[j].st \in Late => j > cli'.cursor) =>
          ~ \E x \in Fwd(net'.c2b) \cup Back(net'.b2c) : x.id = c[j].id
    BY <2>4
  <2> QED BY <2>5 DEF Resending, OutBusy, c
<1>20. cli'.pc \notin {"idle", "publishes"} OBVIOUS
<1> QED BY <1>6, <1>15, <1>17, <1>18, <1>19, <1>20, OutAcked

\* One round of the PUBRELs, in these terms.
NextPubrel == MQTT_PubrelToResend(cli.out, cli.cursor)

LEMMA ResendPubrelIs ==
  ASSUME ResendPubrel
  PROVE  /\ cli.pc = "pubrels" /\ UNCHANGED <<cb, brk, app, expiries>>
         /\ \/ NextPubrel.id = 0 /\ cli' = Leaves(IF cb THEN "publishes" ELSE "resend") /\ UNCHANGED <<net, drops>>
            \/ /\ NextPubrel.id # 0
               /\ \E o \in PublishAcks(WithCursor(cli, NextPubrel.cursor), net, NextPubrel.id, "PubRelSend") :
                    Returns(Stopped(o))
  BY Zenon DEF ResendPubrel, NextPubrel, Leaves, WithCursor, Stopped

LEMMA NextPubrelIs ==
  ASSUME QosInv
  PROVE  LET s == NextPubrel
         IN /\ s.cursor \in 0 .. OutCount
            /\ s.id # 0 => /\ s.cursor \in Used(cli.out) /\ s.cursor > cli.cursor
                           /\ s.id = cli.out[s.cursor].id /\ cli.out[s.cursor].st \in Late
                           /\ \A i \in Used(cli.out) : cli.cursor < i /\ i < s.cursor => cli.out[i].st \notin Late
<1> DEFINE out == cli.out
           k == cli.cursor
<1>1. out \in Table(OutCount, Ids) /\ OutCount \in Nat /\ 0 \notin Ids BY Types, NoZero DEF QosInv
<1>2. k \in 0 .. OutCount BY DEF QosInv, QosTypeOK, Client
<1>3. "Null" \notin Late BY DEF Late
<1>4. Late = {"PubCompPending", "PubRelSend"} BY DEF Late
<1> HIDE DEF out, k
<1> DEFINE s == StateSelect(out, Late, k)
<1>5. /\ s.cursor \in 0 .. OutCount
      /\ s.id # 0 => /\ s.cursor \in Used(out) /\ s.cursor > k
                     /\ s.id = out[s.cursor].id /\ out[s.cursor].st \in Late
                     /\ \A i \in Used(out) : k < i /\ i < s.cursor => out[i].st \notin Late
  BY <1>1, <1>2, <1>3, SelectIs
<1>6. NextPubrel = s BY <1>4 DEF NextPubrel, MQTT_PubrelToResend, out, k
<1> HIDE DEF s
<1> QED BY <1>5, <1>6 DEF out, k

LEMMA ResendPubrelKeeps ==
  ASSUME QosInv, ResendPubrel
  PROVE  QosInv'
<1> DEFINE s == NextPubrel
           i == s.cursor
           id == s.id
           c == WithCursor(cli, i)
           q == AckPacket(id, "PubRelSend")
           r == AckResult(c, id, "PubRelSend")
<1>1. /\ cli.pc = "pubrels" /\ UNCHANGED <<cb, brk, app, expiries>>
      /\ \/ id = 0 /\ cli' = Leaves(IF cb THEN "publishes" ELSE "resend") /\ UNCHANGED <<net, drops>>
         \/ /\ id # 0
            /\ \E o \in PublishAcks(c, net, id, "PubRelSend") : Returns(Stopped(o))
  BY ResendPubrelIs
<1>2. CASE id = 0 /\ cli' = Leaves(IF cb THEN "publishes" ELSE "resend") /\ UNCHANGED <<net, drops>>
  BY <1>1, <1>2, PubrelsEnd
<1>3. ASSUME id # 0, NEW o \in PublishAcks(c, net, id, "PubRelSend"), Returns(Stopped(o))
      PROVE  QosInv'
  <2>1. /\ i \in 0 .. OutCount /\ i \in Used(cli.out) /\ i > cli.cursor /\ id = cli.out[i].id
        /\ cli.out[i].st \in Late
        /\ \A j \in Used(cli.out) : cli.cursor < j /\ j < i => cli.out[j].st \notin Late
    BY <1>3, NextPubrelIs
  <2>2. /\ QosTypeOK /\ Connection /\ OutInv /\ cli \in Client /\ net \in Network /\ app' \in Application
        /\ cli.out \in Table(OutCount, Ids) /\ OutCount \in Nat /\ 0 \notin Ids /\ Distinct(cli.out)
        /\ cli.conn = "Connected"
    BY <1>1, Types, NoZero DEF QosInv, QosTypeOK, OutInv, Owned, Connection
  <2>3. /\ c \in Client /\ c.cursor = i /\ c.out = cli.out /\ c.in = cli.in /\ c.pc = cli.pc /\ c.conn = cli.conn
    BY <2>1, CursorIs
  <2>4. "PubRelSend" \in DOMAIN AckTypeToSend /\ AckTypeToSend["PubRelSend"] = "PUBREL" BY AckTypes
  <2>5. cli.out[i] \in [id: Ids, qos: {1, 2}, st: PublishState \ {"Null", "PublishDone"}]
    BY <2>1, <2>2, Rows
  <2>6. cli.out[i].qos = 2
    <3>1. cli.out[i] \in Recs(cli.out) BY <2>1 DEF Recs
    <3>2. cli.out[i].qos = QosOf(app.own[id]) /\ Fits(cli.out[i].st, app.own[id])
      BY <2>1, <2>2, <3>1 DEF OutInv, Owned
    <3>3. \A st \in Late : st \notin {"PublishSend", "PubAckPending"} BY DEF Late
    <3> QED BY <2>1, <3>2, <3>3 DEF Fits, QosOf
  <2>7. /\ r.in = cli.in /\ r.status = "Success"
        /\ r.out = Put(cli.out, i, InState(cli.out[i], "PubCompPending"))
    <3>1. r = MQTT_UpdateStateAck(cli.out, cli.in, cli.out[i].id, "PUBREL", "SEND")
      BY <2>1, <2>3, <2>4 DEF AckResult
    <3> DEFINE out == cli.out
               in == cli.in
    <3> HIDE DEF r, out, in
    <3>2. LET z == MQTT_UpdateStateAck(out, in, out[i].id, "PUBREL", "SEND")
          IN z.in = in /\ z.status = "Success" /\ z.out = Put(out, i, InState(out[i], "PubCompPending"))
      BY <2>1, <2>2, <2>6, PubrelSent DEF out
    <3> QED BY <3>1, <3>2 DEF out, in
  <2>8. q = Pkt("PUBREL", id, 0) /\ q \in Packet /\ q.type \in Orders
    <3>1. id \in Ids BY <2>1, <2>5
    <3>2. q = Pkt("PUBREL", id, 0) BY <2>4 DEF AckPacket
    <3> QED BY <3>1, <3>2, PktIs, KindsOf DEF Type
  <2>9. o = [ok |-> o.ok, c |-> o.c, n |-> o.n] BY <1>3, <2>4, AckShape
  <2>10. \/ o.c = c /\ o.n = net /\ o.ok = FALSE
         \/ o.c = Loses(c) /\ o.n = Broken(net) /\ o.ok = FALSE /\ (net.up => drops # MaxDrops)
         \/ o.c = WithTables(c, r) /\ o.n = WithSent(net, q) /\ o.ok = (r.status = "Success") /\ net.up
    <3> HIDE DEF s, i, id, c
    <3> QED BY <1>3, <2>4, AckOutcomes
  <2> DEFINE w == r.out
  <2>11. w = Put(cli.out, i, InState(cli.out[i], "PubCompPending")) /\ w \in Table(OutCount, Ids)
    <3>1. InState(cli.out[i], "PubCompPending") \in Record(Ids)
      BY <2>5 DEF InState, Record, PublishState
    <3>2. Put(cli.out, i, InState(cli.out[i], "PubCompPending")) \in Table(OutCount, Ids)
      BY <2>2, <3>1 DEF Put, Table
    <3> QED BY <2>7, <3>2
  <2> HIDE DEF s, i, id, c, q
  <2>12. /\ Loses(c) \in Client /\ Loses(c).pc = cli.pc /\ Loses(c).conn = "DisconnectPending"
         /\ Loses(c).out = cli.out /\ Loses(c).in = cli.in
    BY <2>3 DEF Client, Loses
  <2>13. /\ WithTables(c, r) \in Client /\ WithTables(c, r).pc = cli.pc /\ WithTables(c, r).conn = cli.conn
         /\ WithTables(c, r).out = w /\ WithTables(c, r).in = cli.in /\ WithTables(c, r).cursor = i
    <3>1. r.in = c.in BY <2>3, <2>7
    <3> QED BY <2>3, <2>11, <3>1 DEF Client, WithTables, Table
  <2>14. /\ Broken(net) \in Network /\ InNet(net, Broken(net)) /\ OutNet(net, Broken(net)) /\ ~ Broken(net).up
    BY <2>2, NetBroken
  <2>15. /\ WithSent(net, q) \in Network /\ InNet(net, WithSent(net, q))
         /\ WithSent(net, q).up = net.up /\ WithSent(net, q).c2b = Append(net.c2b, q)
         /\ WithSent(net, q).b2c = net.b2c
    <3>1. WithSent(net, q) \in Network /\ InNet(net, WithSent(net, q)) BY <2>2, <2>8, NetSends DEF WithSent
    <3> QED BY <2>2, <3>1 DEF WithSent, Network
  <2>16. \/ o.c = c /\ o.n = net /\ o.ok = FALSE
         \/ o.c = Loses(c) /\ o.n = Broken(net) /\ o.ok = FALSE /\ (net.up => drops # MaxDrops)
         \/ o.c = WithTables(c, r) /\ o.n = WithSent(net, q) /\ o.ok = TRUE
    BY <2>7, <2>10
  <2> HIDE DEF r, w
  <2>17. o \in Result
    <3>1. o.ok \in BOOLEAN /\ o.c \in Client /\ o.n \in Network
      BY <2>2, <2>3, <2>12, <2>13, <2>14, <2>15, <2>16
    <3> QED BY <2>9, <3>1 DEF Result
  <2>18. Resumes(o)
    <3>1. o.c.pc = cli.pc /\ o.c.conn # "NotConnected" /\ (o.ok => o.c.conn = "Connected")
      BY <2>2, <2>3, <2>12, <2>13, <2>16
    <3>2. (o.n.up => net.up) /\ (net.up /\ ~o.n.up => drops # MaxDrops)
      BY <2>14, <2>15, <2>16
    <3> QED BY <1>1, <1>3, <2>17, <3>1, <3>2 DEF Resumes
  <2>19. OutSame /\ InSame BY <1>1 DEF OutSame, InSame
  <2>20. CASE o.ok
    <3>1. /\ QosTypeOK' /\ Connection' /\ cli'.out = o.c.out /\ cli'.in = o.c.in /\ cli'.cursor = o.c.cursor
          /\ cli'.pc = (IF o.ok THEN cli.pc ELSE "idle") /\ net' = o.n
      BY <2>2, <2>18, ResumeReturns
    <3>2. cli'.out = w /\ cli'.in = cli.in /\ cli'.cursor = i /\ cli'.pc = "pubrels"
          /\ net' = WithSent(net, q)
      BY <1>1, <2>13, <2>16, <2>20, <3>1
    <3>3. InInv' BY <2>15, <2>19, <3>2, InResumed
    <3>4. net'.c2b = Append(net.c2b, q) /\ net'.b2c = net.b2c /\ net'.up = net.up BY <2>15, <3>2
    <3>5. q = Pkt("PUBREL", cli.out[i].id, 0) BY <2>1, <2>8
    <3>6. OutInv' BY <1>1, <2>1, <2>11, <3>2, <3>4, <3>5, PubrelResent
    <3> QED BY <3>1, <3>3, <3>6 DEF QosInv
  <2>21. CASE ~o.ok
    <3>1. o.c.in = cli.in /\ o.c.out = cli.out /\ OutNet(net, o.n) /\ InNet(net, o.n)
      BY <2>3, <2>12, <2>14, <2>16, <2>21, NetTrans
    <3>2. Keeps(cli.out, o.c.out) BY <2>2, <3>1, KeepsSelf
    <3> QED BY <2>2, <2>18, <2>19, <2>21, <3>1, <3>2, ResumeFails
  <2> QED BY <2>20, <2>21
<1> QED BY <1>1, <1>2, <1>3

\* No PUBLISH is left to be sent again.
LEMMA LoopEnds ==
  ASSUME QosInv, cli.pc \in {"publishes", "resend"}, NEW k \in 0 .. OutCount,
         NEW c, c = [WithCursor(cli, k) EXCEPT !.pc = "idle"],
         Returns([ok |-> TRUE, c |-> c, n |-> net]), UNCHANGED <<cb, brk, app, expiries>>,
         \A i \in Used(cli.out) : i > cli.cursor => cli.out[i].st \notin Unacked
  PROVE  QosInv'
<1>1. QosTypeOK /\ Connection /\ OutInv /\ Resending /\ cli \in Client
  BY DEF QosInv, QosTypeOK, OutInv
<1>2. /\ WithCursor(cli, k) \in Client /\ WithCursor(cli, k).out = cli.out /\ WithCursor(cli, k).in = cli.in
      /\ WithCursor(cli, k).conn = cli.conn
  BY CursorIs
<1>3. c \in Client /\ c.out = cli.out /\ c.in = cli.in /\ c.conn = cli.conn /\ c.pc = "idle"
  BY <1>2 DEF Client
<1> DEFINE o == [ok |-> TRUE, c |-> c, n |-> net]
<1>4. o.ok = TRUE /\ o.c = c /\ o.n = net /\ Returns(o) OBVIOUS
<1> HIDE DEF o
<1>5. /\ cli' = [c EXCEPT !.bad = FALSE] /\ net' = net /\ drops' = drops
  BY <1>4 DEF Returns, Spent
<1>6. /\ cli' \in Client /\ cli'.out = cli.out /\ cli'.in = cli.in /\ cli'.conn = cli.conn
      /\ cli'.pc = "idle" /\ cli'.bad = FALSE
  BY <1>3, <1>5 DEF Client
<1>7. cli.conn = "Connected" /\ ~cli.bad /\ (cb => cli.pc = "publishes") BY <1>1 DEF Connection
<1>8. QosTypeOK' /\ Connection'
  <2>1. Client' = Client BY DEF Client, OutCount
  <2>2. QosTypeOK' BY <1>1, <1>5, <1>6, <2>1 DEF QosTypeOK
  <2>3. Connection' BY <1>1, <1>5, <1>6, <1>7 DEF Connection
  <2> QED BY <2>2, <2>3
<1>9. OutNet(net, net') /\ InNet(net, net') BY <1>5, NetTrans
<1>10. OutLess(net, net') BY <1>9, OutLessNet
<1>11. OutSame /\ InSame BY DEF OutSame, InSame
<1>12. Resending' BY <1>6 DEF Resending
<1>13. ASSUME cb, net.up PROVE \A i \in Used(cli.out) : Waits(cli.out[i]) => Sent(cli.out[i].id)
  <2>1. QueueOrder BY <1>1, <1>13 DEF OutInv, Ordered
  <2>2. \A i \in Used(cli.out) : Waits(cli.out[i]) /\ i <= cli.cursor => Sent(cli.out[i].id)
    BY <1>7, <1>13, <2>1 DEF QueueOrder
  <2>3. Used(cli.out) \subseteq Nat /\ cli.cursor \in Nat
    <3>1. cli.out \in Table(OutCount, Ids) /\ OutCount \in Nat /\ 0 \notin Ids BY <1>1, Types, NoZero
    <3>2. Used(cli.out) \subseteq 1 .. OutCount BY <3>1, Rows
    <3> QED BY <1>1, <3>1, <3>2 DEF Client
  <2>4. \A i \in Used(cli.out) : Waits(cli.out[i]) => ~ (i > cli.cursor) BY DEF Waits
  <2> QED BY <2>2, <2>3, <2>4
<1>14. OutInv' BY <1>5, <1>6, <1>10, <1>11, <1>12, <1>13, OutUnchanged
<1>15. InInv' BY <1>6, <1>9, <1>11, InResumed
<1> QED BY <1>8, <1>14, <1>15 DEF QosInv

NextPublish == MQTT_PublishToResend(cli.out, cli.cursor)

LEMMA NextPublishIs ==
  ASSUME QosInv
  PROVE  LET s == NextPublish
         IN /\ s.cursor \in 0 .. OutCount
            /\ s.id = 0 => \A i \in Used(cli.out) : i > cli.cursor => cli.out[i].st \notin Unacked
            /\ s.id # 0 => /\ s.cursor \in Used(cli.out) /\ s.cursor > cli.cursor
                           /\ s.id = cli.out[s.cursor].id /\ cli.out[s.cursor].st \in Unacked
                           /\ \A i \in Used(cli.out) : cli.cursor < i /\ i < s.cursor => cli.out[i].st \notin Unacked
<1> DEFINE out == cli.out
           k == cli.cursor
<1>1. out \in Table(OutCount, Ids) /\ OutCount \in Nat /\ 0 \notin Ids BY Types, NoZero DEF QosInv
<1>2. k \in 0 .. OutCount BY DEF QosInv, QosTypeOK, Client
<1>3. "Null" \notin Unacked BY DEF Unacked
<1> HIDE DEF out, k
<1> DEFINE s == StateSelect(out, Unacked, k)
<1>4. /\ s.cursor \in 0 .. OutCount
      /\ s.id = 0 => \A i \in Used(out) : i > k => out[i].st \notin Unacked
      /\ s.id # 0 => /\ s.cursor \in Used(out) /\ s.cursor > k
                     /\ s.id = out[s.cursor].id /\ out[s.cursor].st \in Unacked
                     /\ \A i \in Used(out) : k < i /\ i < s.cursor => out[i].st \notin Unacked
  BY <1>1, <1>2, <1>3, SelectIs
<1>5. NextPublish = s BY DEF NextPublish, MQTT_PublishToResend, out, k
<1> HIDE DEF s
<1> QED BY <1>4, <1>5 DEF out, k

\* A stored PUBLISH is sent again: it is the newest on its way, and all that
\* wait before it are.
LEMMA StoredResent ==
  ASSUME QosInv, cli.pc = "publishes", cb' = cb, brk' = brk, app' = app,
         NEW i \in Used(cli.out), i > cli.cursor, cli.out[i].st \in Unacked,
         \A j \in Used(cli.out) : cli.cursor < j /\ j < i => cli.out[j].st \notin Unacked,
         cli'.out = cli.out, cli'.pc = "publishes", cli'.cursor = i,
         net'.c2b = Append(net.c2b, Pkt("PUBLISH", cli.out[i].id, app.own[cli.out[i].id])),
         net'.b2c = net.b2c, net.up
  PROVE  OutInv'
<1> DEFINE out == cli.out
           own == app.own
           id == cli.out[i].id
           q == Pkt("PUBLISH", id, own[id])
           F == Fwd(net.c2b)
           B == Back(net.b2c)
           k == cli.cursor
           Now(z) == Pkt("PUBLISH", z, own[z]) \in Fwd(net'.c2b)
<1>1. /\ out \in Table(OutCount, Ids) /\ OutCount \in Nat /\ 0 \notin Ids /\ Distinct(out)
      /\ net.c2b \in Seq(Packet) /\ net.b2c \in Seq(Packet) /\ own \in [Ids -> Out \cup {0}]
  BY Types, NoZero DEF QosInv, OutInv, Owned
<1>2. /\ \A r \in Recs(out) : r.qos = QosOf(own[r.id]) /\ Fits(r.st, own[r.id])
      /\ \A z \in Ids : Has(out, z) <=> own[z] # 0
  BY DEF QosInv, OutInv, Owned
<1>3. Resending /\ OutPackets /\ Connection BY DEF QosInv, OutInv
<1>4. cb /\ cli.conn = "Connected" /\ ~cli.bad BY <1>3 DEF Connection
<1>5. TableOrder /\ QueueOrder BY <1>4 DEF QosInv, OutInv, Ordered
<1>6. /\ i \in Used(out) /\ out[i].id = id /\ out[i].st \in Unacked /\ i > k
      /\ \A j \in Used(out) : k < j /\ j < i => out[j].st \notin Unacked
  OBVIOUS
<1>7. \A j \in Used(out) : /\ j \in Nat /\ out[j].id \in Ids /\ out[j] \in Recs(out)
                           /\ own[out[j].id] \in Out /\ own[out[j].id] \in Nat
  <2> TAKE j \in Used(out)
  <2>1. Used(out) \subseteq 1 .. OutCount
        /\ out[j] \in [id: Ids, qos: {1, 2}, st: PublishState \ {"Null", "PublishDone"}]
    BY <1>1, Rows
  <2>2. out[j].id \in Ids /\ out[j] \in Recs(out) BY <2>1 DEF Recs
  <2>3. Has(out, out[j].id) BY <2>2 DEF Has
  <2> QED BY <1>1, <1>2, <2>1, <2>2, <2>3, QosConstants
<1>8. id \in Ids /\ own[id] \in Out BY <1>6, <1>7
<1>9. k \in Nat
  <2>1. cli \in Client BY DEF QosInv, QosTypeOK
  <2> QED BY <1>1, <2>1 DEF Client
<1>10. q \in Packet /\ q.type = "PUBLISH" /\ q.id = id /\ q.m = own[id] /\ q.type \in Orders
  BY <1>8, PktIs, KindsOf DEF Type, Msgs
<1>11. \A j \in Used(out) : out[j].st \in Unacked /\ j > k => \A x \in F \cup B : x.id # out[j].id
  BY <1>3 DEF Resending, OutBusy
<1>12. ~ OutBusy(id) BY <1>6, <1>11 DEF OutBusy
<1>13. Fwd(net'.c2b) = F \cup {q} /\ Back(net'.b2c) = B BY <1>1, <1>10, AppendKinds
<1>14. cli'.out = out /\ cli'.pc = "publishes" /\ cli'.cursor = i OBVIOUS
<1>15. OutSame BY DEF OutSame
<1>16. /\ \A a, b \in Used(out) : a < b /\ out[a].st \in Unacked /\ out[b].st \in Unacked
            => own[out[a].id] < own[out[b].id]
       /\ Rising(net.c2b)
       /\ \A p \in F, r \in Recs(out) : p.type = "PUBLISH" /\ Waits(r) /\ own[r.id] < p.m => Sent(r.id)
       /\ \A j \in Used(out) : Waits(out[j]) /\ j <= k => Sent(out[j].id)
  BY <1>4, <1>5 DEF TableOrder, QueueOrder
<1>17. \A p \in F : p.type = "PUBLISH" => p.m = own[p.id] /\ StateIn(out, p.id, Unacked)
  BY <1>3 DEF OutPackets
<1>18. net'.c2b = Append(net.c2b, q) OBVIOUS
<1>19. OutResends(cli'.out, id)
  <2>1. \A x \in Recs(out) : x.id = id => x = out[i] BY <1>1, <1>6 DEF Recs, Distinct
  <2>2. \A x \in Recs(out) : x.id = id => x.st \in Unacked /\ x.qos = QosOf(own[id]) /\ Fits(x.st, own[id])
    BY <1>2, <1>6, <2>1
  <2>3. Has(out, id) /\ StateIn(out, id, Unacked) BY <1>6, <1>7 DEF Has, StateIn
  <2> QED BY <1>1, <1>14, <2>2, <2>3 DEF OutResends
<1>20. \A r : Waits(r) => r.st \in Unacked BY DEF Waits
<1>21. \A j \in Used(out) : Waits(out[j]) /\ j < i => Sent(out[j].id)
  <2> HIDE DEF out, k
  <2> QED BY <1>6, <1>7, <1>9, <1>16, <1>20
<1>22. \A r : Waits(r)' <=> Waits(r) BY DEF Waits, Delivered
<1>23. \A z : Sent(z) => Now(z) BY <1>13 DEF Sent
<1>24. Now(id) BY <1>13
<1>25. QueueOrder' <=>
         /\ Rising(net'.c2b)
         /\ \A p \in F \cup {q}, r \in Recs(out) :
              p.type = "PUBLISH" /\ Waits(r) /\ own[r.id] < p.m => Now(r.id)
         /\ net'.up /\ cli'.conn = "Connected" /\ ~cli'.bad =>
              \A j \in Used(out) : Waits(out[j]) /\ j <= i => Now(out[j].id)
  BY <1>13, <1>14, <1>22 DEF QueueOrder, Sent
<1> HIDE DEF out, own, id, q, F, B, k, Now
<1>26. Resending'
  <2>1. ASSUME NEW j \in Used(out), out[j].st \in Unacked, j > i,
               NEW x \in Fwd(net'.c2b) \cup Back(net'.b2c)
        PROVE  x.id # out[j].id
    <3>1. j > k /\ j # i BY <1>6, <1>7, <1>9, <2>1
    <3>2. out[j].id # id BY <1>1, <1>6, <2>1, <3>1 DEF Distinct
    <3> QED BY <1>10, <1>11, <1>13, <2>1, <3>1, <3>2
  <2>2. \A j \in Used(out) : out[j].st \in Unacked /\ j > i =>
          ~ \E x \in Fwd(net'.c2b) \cup Back(net'.b2c) : x.id = out[j].id
    BY <2>1
  <2> QED BY <1>14, <2>2 DEF Resending, OutBusy
<1>27. TableOrder' BY <1>5, <1>22 DEF TableOrder
<1>28. QueueOrder'
  <2>1. Rising(net'.c2b)
    <3>1. ASSUME NEW p \in F, p.type = "PUBLISH" PROVE p.m < own[id]
      <4>1. p.m = own[p.id] /\ StateIn(out, p.id, Unacked) BY <1>17, <3>1
      <4>2. PICK j \in Used(out) : out[j].id = p.id /\ out[j].st \in Unacked BY <4>1 DEF StateIn, Recs
      <4>3. ~ (j > k) BY <1>11, <3>1, <4>2
      <4>4. j < i BY <1>6, <1>7, <1>9, <4>3
      <4> QED BY <1>6, <1>16, <4>1, <4>2, <4>4
    <3>2. q.type = "PUBLISH" => \A p \in Fwd(net.c2b) : p.type = "PUBLISH" => p.m < q.m
      BY <1>10, <3>1 DEF F
    <3> QED BY <1>1, <1>10, <1>16, <1>18, <3>2, AppendRising
  <2>2. ASSUME NEW p \in F \cup {q}, NEW r \in Recs(out), p.type = "PUBLISH", Waits(r), own[r.id] < p.m
        PROVE  Now(r.id)
    <3>1. CASE p \in F
      <4>1. Sent(r.id) BY <1>16, <2>2, <3>1
      <4> QED BY <1>23, <4>1
    <3>2. CASE p = q
      <4>1. PICK j \in Used(out) : r = out[j] BY DEF Recs
      <4>2. own[out[j].id] < own[out[i].id] BY <1>6, <1>10, <2>2, <3>2, <4>1
      <4>3. out[j].st \in Unacked BY <1>20, <2>2, <4>1
      <4>4. ~ (i < j) /\ i # j
        <5>1. own[out[j].id] \in Nat /\ own[out[i].id] \in Nat BY <1>6, <1>7
        <5>2. i < j => own[out[i].id] < own[out[j].id] BY <1>6, <1>16, <4>3
        <5> QED BY <4>2, <5>1, <5>2
      <4>5. j < i BY <1>6, <1>7, <4>4
      <4>6. Sent(r.id) BY <1>21, <2>2, <4>1, <4>5
      <4> QED BY <1>23, <4>6
    <3> QED BY <3>1, <3>2
  <2>3. ASSUME NEW j \in Used(out), Waits(out[j]), j <= i PROVE Now(out[j].id)
    <3>1. CASE j = i BY <1>6, <1>24, <3>1
    <3>2. CASE j # i
      <4>1. j < i BY <1>6, <1>7, <2>3, <3>2
      <4>2. Sent(out[j].id) BY <1>21, <2>3, <4>1
      <4> QED BY <1>23, <4>2
    <3> QED BY <3>1, <3>2
  <2> QED BY <1>25, <2>1, <2>2, <2>3
<1>29. net'.c2b = Append(net.c2b, Pkt("PUBLISH", id, app.own[id])) BY <1>18 DEF q, own
<1> QED BY <1>8, <1>12, <1>15, <1>19, <1>26, <1>27, <1>28, <1>29, OutResent

LEMMA SendIs ==
  ASSUME NEW c, NEW n, NEW p, NEW o \in SendOutcomes(c, n, p)
  PROVE  \/ o.c = c /\ o.n = WithSent(n, p) /\ o.ok = TRUE /\ n.up
         \/ o.c = Loses(c) /\ o.n = Broken(n) /\ o.ok = FALSE /\ (n.up => drops # MaxDrops)
  BY DEF SendOutcomes, WithSent, Loses

\* One round of the stored PUBLISHes, in these terms.
LEMMA ResendStoredIs ==
  ASSUME QosInv, ResendStored
  PROVE  /\ cli.pc = "publishes" /\ UNCHANGED <<cb, brk, app, expiries>>
         /\ LET s == NextPublish
                c == WithCursor(cli, s.cursor)
            IN \/ /\ s.id = 0
                  /\ Returns([ok |-> TRUE, c |-> [c EXCEPT !.pc = "idle"], n |-> net])
               \/ /\ s.id # 0
                  /\ \E o \in SendOutcomes(c, net, Pkt("PUBLISH", s.id, app.own[s.id])) : Returns(Stopped(o))
<1> DEFINE s == NextPublish
           c == WithCursor(cli, s.cursor)
<1>1. s.id # 0 => s.id \in app.kept
  <2>1. s.id # 0 => /\ s.cursor \in Used(cli.out) /\ s.id = cli.out[s.cursor].id
                    /\ cli.out[s.cursor].st \in Unacked
    BY NextPublishIs
  <2>2. \A r \in Recs(cli.out) : r.st \in Unacked => r.id \in app.kept BY DEF QosInv, OutInv, Owned
  <2> HIDE DEF s
  <2> QED BY <2>1, <2>2 DEF Recs
<1>2. /\ cli.pc = "publishes" /\ UNCHANGED <<cb, brk, app, expiries>>
      /\ IF s.id = 0 THEN Returns([ok |-> TRUE, c |-> [c EXCEPT !.pc = "idle"], n |-> net])
         ELSE IF s.id \notin app.kept
         THEN Returns([ok |-> FALSE, n |-> net, c |-> [c EXCEPT !.pc = "idle", !.conn = "DisconnectPending"]])
         ELSE \E o \in SendOutcomes(c, net, Pkt("PUBLISH", s.id, app.own[s.id])) :
                Returns([o EXCEPT !.c.pc = IF o.ok THEN @ ELSE "idle"])
  BY Zenon DEF ResendStored, NextPublish, WithCursor
<1> QED BY <1>1, <1>2, Zenon DEF Stopped

LEMMA ResendStoredKeeps ==
  ASSUME QosInv, ResendStored
  PROVE  QosInv'
<1> DEFINE s == NextPublish
           i == s.cursor
           id == s.id
           c == WithCursor(cli, i)
           q == Pkt("PUBLISH", id, app.own[id])
<1>1. /\ cli.pc = "publishes" /\ UNCHANGED <<cb, brk, app, expiries>>
      /\ \/ id = 0 /\ Returns([ok |-> TRUE, c |-> [c EXCEPT !.pc = "idle"], n |-> net])
         \/ id # 0 /\ \E o \in SendOutcomes(c, net, q) : Returns(Stopped(o))
  BY ResendStoredIs, Zenon
<1>2. /\ i \in 0 .. OutCount
      /\ id = 0 => \A j \in Used(cli.out) : j > cli.cursor => cli.out[j].st \notin Unacked
      /\ id # 0 => /\ i \in Used(cli.out) /\ i > cli.cursor
                   /\ id = cli.out[i].id /\ cli.out[i].st \in Unacked
                   /\ \A j \in Used(cli.out) : cli.cursor < j /\ j < i => cli.out[j].st \notin Unacked
  BY NextPublishIs
<1> HIDE DEF s, i, id
<1>3. CASE id = 0 /\ Returns([ok |-> TRUE, c |-> [c EXCEPT !.pc = "idle"], n |-> net])
  BY <1>1, <1>2, <1>3, LoopEnds
<1>4. ASSUME id # 0, NEW o \in SendOutcomes(c, net, q), Returns(Stopped(o))
      PROVE  QosInv'
  <2>1. /\ QosTypeOK /\ Connection /\ OutInv /\ cli \in Client /\ net \in Network /\ app' \in Application
        /\ cli.out \in Table(OutCount, Ids) /\ OutCount \in Nat /\ 0 \notin Ids /\ cli.conn = "Connected"
        /\ app.own \in [Ids -> Out \cup {0}]
    BY <1>1, Types, NoZero DEF QosInv, QosTypeOK, OutInv, Owned, Connection
  <2>2. /\ c \in Client /\ c.cursor = i /\ c.out = cli.out /\ c.in = cli.in /\ c.pc = cli.pc /\ c.conn = cli.conn
    BY <1>2, CursorIs
  <2>3. q \in Packet /\ q.type \in Orders
    <3>1. cli.out[i] \in [id: Ids, qos: {1, 2}, st: PublishState \ {"Null", "PublishDone"}]
      BY <1>2, <1>4, <2>1, Rows
    <3>2. id \in Ids BY <1>2, <1>4, <3>1
    <3>3. app.own[id] \in Msgs \cup {0} BY <2>1, <3>2 DEF Msgs
    <3> QED BY <3>2, <3>3, PktIs, KindsOf DEF Type
  <2> HIDE DEF c, q
  <2>4. o = [ok |-> o.ok, c |-> o.c, n |-> o.n] BY <1>4, SendShape
  <2>5. \/ o.c = c /\ o.n = WithSent(net, q) /\ o.ok = TRUE /\ net.up
        \/ o.c = Loses(c) /\ o.n = Broken(net) /\ o.ok = FALSE /\ (net.up => drops # MaxDrops)
    BY <1>4, SendIs
  <2>6. /\ Loses(c) \in Client /\ Loses(c).pc = cli.pc /\ Loses(c).conn = "DisconnectPending"
        /\ Loses(c).out = cli.out /\ Loses(c).in = cli.in
    BY <2>2 DEF Client, Loses
  <2>7. /\ Broken(net) \in Network /\ InNet(net, Broken(net)) /\ OutNet(net, Broken(net)) /\ ~ Broken(net).up
    BY <2>1, NetBroken
  <2>8. /\ WithSent(net, q) \in Network /\ InNet(net, WithSent(net, q))
        /\ WithSent(net, q).up = net.up /\ WithSent(net, q).c2b = Append(net.c2b, q)
        /\ WithSent(net, q).b2c = net.b2c
    <3>1. WithSent(net, q) \in Network /\ InNet(net, WithSent(net, q)) BY <2>1, <2>3, NetSends DEF WithSent
    <3> QED BY <2>1, <3>1 DEF WithSent, Network
  <2>9. o \in Result
    <3>1. o.ok \in BOOLEAN /\ o.c \in Client /\ o.n \in Network BY <2>2, <2>5, <2>6, <2>7, <2>8
    <3> QED BY <2>4, <3>1 DEF Result
  <2>10. Resumes(o)
    <3>1. o.c.pc = cli.pc /\ o.c.conn # "NotConnected" /\ (o.ok => o.c.conn = "Connected")
      BY <2>1, <2>2, <2>5, <2>6
    <3>2. (o.n.up => net.up) /\ (net.up /\ ~o.n.up => drops # MaxDrops)
      BY <2>5, <2>7, <2>8
    <3> QED BY <1>1, <1>4, <2>9, <3>1, <3>2 DEF Resumes
  <2>11. OutSame /\ InSame BY <1>1 DEF OutSame, InSame
  <2>12. CASE o.ok
    <3>1. /\ QosTypeOK' /\ Connection' /\ cli'.out = o.c.out /\ cli'.in = o.c.in /\ cli'.cursor = o.c.cursor
          /\ cli'.pc = (IF o.ok THEN cli.pc ELSE "idle") /\ net' = o.n
      BY <2>1, <2>10, ResumeReturns
    <3>2. cli'.out = cli.out /\ cli'.in = cli.in /\ cli'.cursor = i /\ cli'.pc = "publishes"
          /\ net' = WithSent(net, q) /\ net.up
      BY <1>1, <2>2, <2>5, <2>12, <3>1
    <3>3. InInv' BY <2>8, <2>11, <3>2, InResumed
    <3>4. net'.c2b = Append(net.c2b, q) /\ net'.b2c = net.b2c BY <2>8, <3>2
    <3>5. net'.c2b = Append(net.c2b, Pkt("PUBLISH", cli.out[i].id, app.own[cli.out[i].id]))
      BY <1>2, <1>4, <3>4 DEF q
    <3>6. OutInv' BY <1>1, <1>2, <1>4, <3>2, <3>4, <3>5, StoredResent
    <3> QED BY <3>1, <3>3, <3>6 DEF QosInv
  <2>13. CASE ~o.ok
    <3>1. o.c.in = cli.in /\ o.c.out = cli.out /\ OutNet(net, o.n) /\ InNet(net, o.n)
      BY <2>5, <2>6, <2>7, <2>13
    <3>2. Keeps(cli.out, o.c.out) BY <2>1, <3>1, KeepsSelf
    <3> QED BY <2>1, <2>10, <2>11, <2>13, <3>1, <3>2, ResumeFails
  <2> QED BY <2>12, <2>13
<1> QED BY <1>1, <1>3, <1>4

\* The application sends a PUBLISH again; its records may move to the front.
LEMMA AppResent ==
  ASSUME QosInv, cli.pc = "resend", OutSame,
         NEW i \in Used(cli.out), i > cli.cursor, cli.out[i].st \in Unacked, NEW id, id = cli.out[i].id,
         NEW t \in Table(OutCount, Ids), Keeps(cli.out, t), PubWaits(t, cli'.out, id, app.own[id]),
         cli'.pc \in {"resend", "idle"}, cli'.cursor = i,
         net'.c2b = Append(net.c2b, Pkt("PUBLISH", id, app.own[id])), net'.b2c = net.b2c
  PROVE  OutInv'
<1> DEFINE out == cli.out
           own == app.own
           m == app.own[id]
           q == Pkt("PUBLISH", id, m)
           w == cli'.out
           F == Fwd(net.c2b)
           B == Back(net.b2c)
           k == cli.cursor
<1>1. /\ out \in Table(OutCount, Ids) /\ OutCount \in Nat /\ 0 \notin Ids /\ Distinct(out)
      /\ net.c2b \in Seq(Packet) /\ net.b2c \in Seq(Packet) /\ own \in [Ids -> Out \cup {0}]
  BY Types, NoZero DEF QosInv, OutInv, Owned
<1>2. /\ \A r \in Recs(out) : r.qos = QosOf(own[r.id]) /\ Fits(r.st, own[r.id])
      /\ \A z \in Ids : Has(out, z) <=> own[z] # 0
  BY DEF QosInv, OutInv, Owned
<1>3. Resending /\ Connection BY DEF QosInv, OutInv
<1>4. ~cb /\ cb' = cb BY <1>3 DEF Connection, OutSame
<1>5. k \in Nat /\ Used(out) \subseteq Nat /\ Used(t) \subseteq Nat
  <2>1. cli \in Client BY DEF QosInv, QosTypeOK
  <2>2. Used(out) \subseteq 1 .. OutCount /\ Used(t) \subseteq 1 .. OutCount BY <1>1, Rows
  <2> QED BY <1>1, <2>1, <2>2 DEF Client
<1>6. i \in Used(out) /\ out[i].id = id /\ out[i].st \in Unacked /\ i > k OBVIOUS
<1>7. \A j \in Used(out) : out[j].st \in Unacked /\ j > k => \A x \in F \cup B : x.id # out[j].id
  BY <1>3 DEF Resending, OutBusy
<1>8. /\ out[i] \in [id: Ids, qos: {1, 2}, st: PublishState \ {"Null", "PublishDone"}]
      /\ out[i] \in Recs(out)
  BY <1>1, <1>6, Rows DEF Recs
<1>9. id \in Ids /\ m \in Out
  <2>1. Has(out, id) BY <1>6, <1>8 DEF Has
  <2> QED BY <1>1, <1>2, <1>6, <1>8, <2>1
<1>10. q \in Packet /\ q.type \in Orders /\ q.id = id BY <1>9, PktIs, KindsOf DEF Type, Msgs
<1>11. PubWaits(t, w, id, m) /\ Keeps(out, t) /\ net'.c2b = Append(net.c2b, q) OBVIOUS
<1>12. Resending' <=>
         (cli'.pc = "resend" => \A j \in Used(w) : w[j].st \in Unacked /\ j > i =>
            ~ \E x \in Fwd(net'.c2b) \cup Back(net'.b2c) : x.id = w[j].id)
  BY DEF Resending, OutBusy
<1> HIDE DEF out, own, m, q, w, F, B, k
<1>13. Fwd(net'.c2b) = F \cup {q} /\ Back(net'.b2c) = B BY <1>1, <1>10, <1>11, AppendKinds DEF F, B
<1>14. Distinct(t) /\ Recs(t) = Recs(out) BY <1>1, <1>11, KeepsRecs
<1>15. \A x \in Recs(out) : x.id = id => x.st \in Unacked /\ x.qos = QosOf(m) /\ Fits(x.st, m)
  <2>1. \A x \in Recs(out) : x.id = id => x = out[i] BY <1>1, <1>6 DEF Recs, Distinct
  <2>2. m = own[id] BY DEF m, own
  <2> QED BY <1>2, <1>6, <2>1, <2>2
<1>16. /\ w \in Table(OutCount, Ids) /\ Distinct(w) /\ Used(w) = Used(t)
       /\ \A j \in Used(t) : w[j].id = t[j].id /\ (t[j].id # id => w[j] = t[j])
       /\ \A x \in Recs(w) : x.id = id => x.st \in Unacked /\ x.qos = QosOf(m) /\ Fits(x.st, m)
  BY <1>1, <1>11, <1>14, <1>15, WaitsRecs
<1>17. OutResends(w, id)
  <2>1. \A x : x.id # id => (x \in Recs(w) <=> x \in Recs(out))
    <3> SUFFICES ASSUME NEW x, x.id # id PROVE x \in Recs(w) <=> x \in Recs(t)
      BY <1>14
    <3>1. ASSUME x \in Recs(w) PROVE x \in Recs(t)
      <4>1. PICK j \in Used(t) : x = w[j] BY <1>16, <3>1 DEF Recs
      <4>2. w[j] = t[j] BY <1>16, <4>1
      <4> QED BY <4>1, <4>2 DEF Recs
    <3>2. ASSUME x \in Recs(t) PROVE x \in Recs(w)
      <4>1. PICK j \in Used(t) : x = t[j] BY <3>2 DEF Recs
      <4>2. w[j] = t[j] /\ j \in Used(w) BY <1>16, <4>1
      <4> QED BY <4>1, <4>2 DEF Recs
    <3> QED BY <3>1, <3>2
  <2>2. Has(w, id)
    <3>1. PICK j \in Used(t) : t[j] = out[i] BY <1>8, <1>14 DEF Recs
    <3>2. w[j] \in Recs(w) /\ w[j].id = id BY <1>6, <1>16, <3>1 DEF Recs
    <3> QED BY <3>2 DEF Has
  <2>3. StateIn(out, id, Unacked) BY <1>6, <1>8 DEF StateIn
  <2> QED BY <1>16, <2>1, <2>2, <2>3 DEF OutResends, out, own, m
<1>18. ~ OutBusy(id)
  <2>1. \A x \in F \cup B : x.id # id BY <1>6, <1>7
  <2> QED BY <2>1 DEF OutBusy, F, B
<1>19. Resending'
  <2>1. ASSUME NEW j \in Used(w), w[j].st \in Unacked, j > i, NEW x \in Fwd(net'.c2b) \cup Back(net'.b2c)
        PROVE  x.id # w[j].id
    <3>1. j \in Used(t) BY <1>16, <2>1
    <3>2. PICK a \in Used(out) : j <= a /\ t[j] = out[a] BY <1>11, <3>1 DEF Keeps
    <3>3. a > i /\ a > k /\ a # i BY <1>5, <1>6, <2>1, <3>1, <3>2
    <3>4. out[a].id # id BY <1>1, <1>6, <3>2, <3>3 DEF Distinct
    <3>5. w[j] = out[a] BY <1>16, <3>1, <3>2, <3>4
    <3>6. \A y \in F \cup B : y.id # out[a].id BY <1>7, <2>1, <3>2, <3>3, <3>5
    <3> QED BY <1>10, <1>13, <3>4, <3>5, <3>6
  <2> QED BY <1>12, <2>1
<1>20. OutResends(cli'.out, id) BY <1>17 DEF w
<1> QED BY <1>4, <1>9, <1>18, <1>19, <1>20, OutResent

\* One round of the application's loop, in these terms.
Skips(b) == [app EXCEPT !.skipped = b]

LEMMA SkipsIs ==
  ASSUME QosInv, NEW b \in BOOLEAN, app' = Skips(b), brk' = brk, cb' = cb
  PROVE  app' \in Application /\ OutSame /\ InSame
<1>1. app \in Application BY DEF QosInv, QosTypeOK
<1>2. /\ app' \in Application
      /\ app'.own = app.own /\ app'.kept = app.kept /\ app'.pub = app.pub /\ app'.done = app.done
      /\ app'.astray = app.astray /\ app'.got = app.got /\ app'.twice = app.twice /\ app'.lost = app.lost
  BY <1>1 DEF Skips, Application
<1> QED BY <1>2 DEF OutSame, InSame

LEMMA ResendByAppIs ==
  ASSUME QosInv, ResendByApp
  PROVE  /\ cli.pc = "resend" /\ UNCHANGED <<cb, brk, expiries>>
         /\ LET s == NextPublish
                m == app.own[s.id]
                c == WithCursor(cli, s.cursor)
            IN \/ /\ s.id = 0 /\ UNCHANGED app
                  /\ Returns([ok |-> TRUE, c |-> [c EXCEPT !.pc = "idle"], n |-> net])
               \/ /\ s.id # 0 /\ \E b \in BOOLEAN : app' = Skips(b)
                  /\ \E o \in SendPublish(WithOut(c, Reserved(s.id, m).recs), net, s.id, m) :
                       Returns(Stopped(o))
<1> DEFINE s == NextPublish
           m == app.own[s.id]
           r == Reserved(s.id, m)
           c == WithCursor(cli, s.cursor)
           behind == {cli.out[i].id : i \in {j \in s.cursor + 1 .. Len(cli.out) : cli.out[j].st \in Unacked}}
           far == \E id \in behind : FindInRecord(r.recs, id) <= s.cursor
<1>1. /\ cli.pc = "resend" /\ UNCHANGED <<cb, brk, expiries>>
      /\ IF s.id = 0
         THEN Returns([ok |-> TRUE, c |-> [c EXCEPT !.pc = "idle"], n |-> net]) /\ UNCHANGED app
         ELSE /\ app' = [app EXCEPT !.skipped = @ \/ far]
              /\ \E o \in SendPublish(WithOut(c, r.recs), net, s.id, m) :
                   Returns([o EXCEPT !.c.pc = IF o.ok THEN @ ELSE "idle"])
  BY Zenon DEF ResendByApp, NextPublish, WithCursor, WithOut, Reserved
<1>2. far \in BOOLEAN OBVIOUS
<1> HIDE DEF far
<1>3. s.id # 0 => \E b \in BOOLEAN : app' = Skips(b)
  <2> SUFFICES ASSUME s.id # 0 PROVE \E b \in BOOLEAN : app' = Skips(b) OBVIOUS
  <2>1. app' = [app EXCEPT !.skipped = app.skipped \/ far] /\ app \in Application
    BY <1>1 DEF QosInv, QosTypeOK, Application
  <2>2. app.skipped \/ far \in BOOLEAN BY <1>2, <2>1 DEF Application
  <2>3. app' = Skips(app.skipped \/ far) BY <2>1 DEF Skips
  <2> QED BY <2>2, <2>3
<1> QED BY <1>1, <1>3, Zenon DEF Stopped

LEMMA ResendByAppKeeps ==
  ASSUME QosInv, ResendByApp
  PROVE  QosInv'
<1> DEFINE s == NextPublish
           i == s.cursor
           id == s.id
           m == app.own[id]
           r == Reserved(id, m)
           t == r.recs
           k == WithCursor(cli, i)
           c == WithOut(k, t)
           q == Pkt("PUBLISH", id, m)
           u == PublishSends(c, id, m)
           w == u.out
<1>1. /\ cli.pc = "resend" /\ UNCHANGED <<cb, brk, expiries>>
      /\ \/ id = 0 /\ UNCHANGED app /\ Returns([ok |-> TRUE, c |-> [k EXCEPT !.pc = "idle"], n |-> net])
         \/ /\ id # 0 /\ \E b \in BOOLEAN : app' = Skips(b)
            /\ \E o \in SendPublish(c, net, id, m) : Returns(Stopped(o))
  BY ResendByAppIs, Zenon
<1>2. /\ i \in 0 .. OutCount
      /\ id = 0 => \A j \in Used(cli.out) : j > cli.cursor => cli.out[j].st \notin Unacked
      /\ id # 0 => /\ i \in Used(cli.out) /\ i > cli.cursor
                   /\ id = cli.out[i].id /\ cli.out[i].st \in Unacked
  BY NextPublishIs
<1> HIDE DEF s, i, id
<1>3. CASE id = 0 /\ UNCHANGED app /\ Returns([ok |-> TRUE, c |-> [k EXCEPT !.pc = "idle"], n |-> net])
  BY <1>1, <1>2, <1>3, LoopEnds
<1>4. ASSUME id # 0, \E b \in BOOLEAN : app' = Skips(b),
             NEW o \in SendPublish(c, net, id, m), Returns(Stopped(o))
      PROVE  QosInv'
  <2>1. /\ QosTypeOK /\ Connection /\ OutInv /\ cli \in Client /\ net \in Network
        /\ cli.out \in Table(OutCount, Ids) /\ OutCount \in Nat /\ 0 \notin Ids /\ cli.conn = "Connected"
        /\ app.own \in [Ids -> Out \cup {0}] /\ Distinct(cli.out)
    BY <1>1, Types, NoZero DEF QosInv, QosTypeOK, OutInv, Owned, Connection
  <2>2. app' \in Application /\ OutSame /\ InSame BY <1>1, <1>4, SkipsIs
  <2>3. /\ k \in Client /\ k.cursor = i /\ k.out = cli.out /\ k.in = cli.in /\ k.pc = cli.pc /\ k.conn = cli.conn
    BY <1>2, CursorIs
  <2>4. cli.out[i] \in [id: Ids, qos: {1, 2}, st: PublishState \ {"Null", "PublishDone"}]
        /\ cli.out[i] \in Recs(cli.out)
    BY <1>2, <1>4, <2>1, Rows DEF Recs
  <2>5. id \in Ids /\ Has(cli.out, id) BY <1>2, <1>4, <2>4 DEF Has
  <2>6. q \in Packet /\ q.type \in Orders
    <3>1. app.own[id] \in Msgs \cup {0} BY <2>1, <2>5 DEF Msgs
    <3> QED BY <2>5, <3>1, PktIs, KindsOf DEF Type
  <2>7. t \in Table(OutCount, Ids) /\ Keeps(cli.out, t)
    <3>1. r = MQTT_ReserveState(cli.out, id, QosOf(m)) BY DEF Reserved
    <3> HIDE DEF r, m
    <3>2. /\ r.recs \in Table(OutCount, Ids)
          /\ r.status = "StateCollision" <=> Has(cli.out, id)
          /\ r.status # "Success" => Keeps(cli.out, r.recs)
      BY <2>5, <3>1, Reserves
    <3>3. r.status # "Success" BY <2>5, <3>2
    <3> QED BY <3>2, <3>3
  <2> HIDE DEF r, t, m, k
  <2>8. /\ c \in Client /\ c.cursor = i /\ c.out = t /\ c.in = cli.in /\ c.pc = cli.pc /\ c.conn = cli.conn
    BY <2>3, <2>7 DEF Client, WithOut, Table
  <2>9. PubWaits(t, w, id, m)
    <3>1. u = MQTT_UpdateStatePublish(t, cli.in, id, "SEND", QosOf(m)) BY <2>8 DEF PublishSends
    <3> HIDE DEF u
    <3> QED BY <2>1, <2>5, <2>7, <3>1, PublishSent
  <2> HIDE DEF c
  <2>10. o = [ok |-> o.ok, c |-> o.c, n |-> o.n] BY <1>4, PublishShape
  <2>11. \/ o.c = Loses(c) /\ o.n = Broken(net) /\ o.ok = FALSE /\ (net.up => drops # MaxDrops)
         \/ o.c = WithOut(c, w) /\ o.n = WithSent(net, q) /\ o.ok = (u.status = "Success") /\ net.up
    <3>1. PublishOutcome(o, c, net, id, m) BY <1>4, PublishOutcomes
    <3> QED BY <3>1, Zenon DEF PublishOutcome, q
  <2>12. w \in Table(OutCount, Ids)
    <3>1. Distinct(t) /\ Recs(t) = Recs(cli.out) BY <2>1, <2>7, KeepsRecs
    <3>2. \A x \in Recs(t) : x.id = id => x.st \in Unacked /\ x.qos = QosOf(m) /\ Fits(x.st, m)
      <4>1. \A x \in Recs(cli.out) : x.id = id => x = cli.out[i]
        BY <1>2, <1>4, <2>1 DEF Recs, Distinct
      <4>2. \A x \in Recs(cli.out) : x.qos = QosOf(app.own[x.id]) /\ Fits(x.st, app.own[x.id])
        BY <2>1 DEF OutInv, Owned
      <4> QED BY <1>2, <1>4, <3>1, <4>1, <4>2 DEF m
    <3> HIDE DEF w
    <3> QED BY <2>1, <2>7, <2>9, <3>1, <3>2, WaitsRecs
  <2>13. o.ok \in BOOLEAN BY <2>11
  <2> HIDE DEF u, w, q
  <2>14. /\ Loses(c) \in Client /\ Loses(c).pc = cli.pc /\ Loses(c).conn = "DisconnectPending"
         /\ Loses(c).out = t /\ Loses(c).in = cli.in
    BY <2>8 DEF Client, Loses
  <2>15. /\ WithOut(c, w) \in Client /\ WithOut(c, w).pc = cli.pc /\ WithOut(c, w).conn = cli.conn
         /\ WithOut(c, w).out = w /\ WithOut(c, w).in = cli.in /\ WithOut(c, w).cursor = i
    BY <2>8, <2>12 DEF Client, WithOut, Table
  <2>16. /\ Broken(net) \in Network /\ InNet(net, Broken(net)) /\ OutNet(net, Broken(net)) /\ ~ Broken(net).up
    BY <2>1, NetBroken
  <2>17. /\ WithSent(net, q) \in Network /\ InNet(net, WithSent(net, q))
         /\ WithSent(net, q).up = net.up /\ WithSent(net, q).c2b = Append(net.c2b, q)
         /\ WithSent(net, q).b2c = net.b2c
    <3>1. WithSent(net, q) \in Network /\ InNet(net, WithSent(net, q)) BY <2>1, <2>6, NetSends DEF WithSent, q
    <3> QED BY <2>1, <3>1 DEF WithSent, Network
  <2>18. o \in Result
    <3>1. o.c \in Client /\ o.n \in Network BY <2>11, <2>14, <2>15, <2>16, <2>17
    <3> QED BY <2>10, <2>13, <3>1 DEF Result
  <2>19. Resumes(o)
    <3>1. o.c.pc = cli.pc /\ o.c.conn # "NotConnected" /\ (o.ok => o.c.conn = "Connected")
      BY <2>1, <2>11, <2>14, <2>15
    <3>2. (o.n.up => net.up) /\ (net.up /\ ~o.n.up => drops # MaxDrops)
      BY <2>11, <2>16, <2>17
    <3> QED BY <1>1, <1>4, <2>18, <3>1, <3>2 DEF Resumes
  <2>20. CASE o.c = Loses(c) /\ o.n = Broken(net) /\ o.ok = FALSE
    <3>1. o.c.in = cli.in /\ o.c.out = t /\ OutNet(net, o.n) /\ InNet(net, o.n) /\ ~o.ok
      BY <2>14, <2>16, <2>20
    <3>2. Keeps(cli.out, o.c.out) BY <2>7, <3>1
    <3> QED BY <2>2, <2>19, <3>1, <3>2, ResumeFails
  <2>21. CASE o.c = WithOut(c, w) /\ o.n = WithSent(net, q)
    <3>1. /\ QosTypeOK' /\ Connection' /\ cli'.out = o.c.out /\ cli'.in = o.c.in /\ cli'.cursor = o.c.cursor
          /\ cli'.pc = (IF o.ok THEN cli.pc ELSE "idle") /\ net' = o.n
      BY <2>1, <2>2, <2>19, ResumeReturns
    <3>2. /\ cli'.out = w /\ cli'.in = cli.in /\ cli'.cursor = i /\ cli'.pc \in {"resend", "idle"}
          /\ net' = WithSent(net, q)
      BY <1>1, <2>15, <2>21, <3>1
    <3>3. InInv' BY <2>2, <2>17, <3>2, InResumed
    <3>4. net'.c2b = Append(net.c2b, Pkt("PUBLISH", id, app.own[id])) /\ net'.b2c = net.b2c
      BY <2>17, <3>2 DEF q, m
    <3>5. PubWaits(t, cli'.out, id, app.own[id]) BY <2>9, <3>2 DEF m
    <3>6. OutInv' BY <1>1, <1>2, <1>4, <2>2, <2>7, <3>2, <3>4, <3>5, AppResent
    <3> QED BY <3>1, <3>3, <3>6 DEF QosInv
  <2> QED BY <2>11, <2>20, <2>21
<1> QED BY <1>1, <1>3, <1>4

-----------------------------------------------------------------------------
(* A new connection                                                        *)

LEMMA AgainIs ==
  ASSUME QosTypeOK
  PROVE  /\ Again \in Seq(Packet) /\ DOMAIN Again = DOMAIN brk.tx
         /\ \A i \in DOMAIN brk.tx :
              /\ brk.tx[i] \in TxEntry /\ brk.tx[i] \in Tx
              /\ Again[i].id = brk.tx[i].id /\ Again[i].type \in Orders
              /\ IF Again[i].type = "PUBLISH" THEN Again[i].m = brk.tx[i].m /\ ~ brk.tx[i].rel
                 ELSE brk.tx[i].rel
<1> DEFINE tx == brk.tx
           P(t) == IF t.rel THEN Pkt("PUBREL", t.id, 0) ELSE Pkt("PUBLISH", t.id, t.m)
<1>1. tx \in Seq(TxEntry) /\ Len(tx) \in Nat /\ DOMAIN tx = 1 .. Len(tx)
  <2>1. tx \in Seq(TxEntry) BY Types
  <2> HIDE DEF tx
  <2> QED BY <2>1
<1>2. Again = [i \in DOMAIN tx |-> P(tx[i])] BY Zenon DEF Again
<1>3. ASSUME NEW t \in TxEntry
      PROVE  /\ P(t) \in Packet /\ P(t).id = t.id /\ P(t).type \in Orders
             /\ IF P(t).type = "PUBLISH" THEN P(t).m = t.m /\ ~ t.rel ELSE t.rel
  <2>1. t.id \in Ids /\ t.m \in Msgs \cup {0} /\ 0 \in Msgs \cup {0} BY NoZero DEF TxEntry, Msgs
  <2>2. "PUBREL" \in Type /\ "PUBLISH" \in Type BY DEF Type
  <2>3. CASE t.rel
    <3>1. P(t) = Pkt("PUBREL", t.id, 0) BY <2>3
    <3> HIDE DEF P
    <3> QED BY <2>1, <2>2, <2>3, <3>1, PktIs, KindsOf
  <2>4. CASE ~t.rel
    <3>1. P(t) = Pkt("PUBLISH", t.id, t.m) BY <2>4
    <3> HIDE DEF P
    <3> QED BY <2>1, <2>2, <2>4, <3>1, PktIs, KindsOf
  <2> QED BY <2>3, <2>4
<1> HIDE DEF P, tx
<1>4. \A i \in DOMAIN tx : tx[i] \in TxEntry /\ tx[i] \in ToSet(tx) /\ Again[i] = P(tx[i])
  BY <1>1, <1>2 DEF ToSet
<1>5. Again \in Seq(Packet) /\ DOMAIN Again = DOMAIN tx
  <2>1. \A i \in 1 .. Len(tx) : P(tx[i]) \in Packet BY <1>1, <1>3, <1>4
  <2>2. [i \in 1 .. Len(tx) |-> P(tx[i])] \in Seq(Packet) BY <1>1, <2>1
  <2> QED BY <1>1, <1>2, <2>2
<1>6. ASSUME NEW i \in DOMAIN tx
      PROVE  /\ tx[i] \in TxEntry /\ tx[i] \in Tx
             /\ Again[i].id = tx[i].id /\ Again[i].type \in Orders
             /\ IF Again[i].type = "PUBLISH" THEN Again[i].m = tx[i].m /\ ~ tx[i].rel
                ELSE tx[i].rel
  <2>1. tx[i] \in TxEntry /\ Again[i] = P(tx[i]) /\ tx[i] \in Tx BY <1>4 DEF Tx, tx
  <2> DEFINE t == tx[i]
             p == Again[i]
  <2> HIDE DEF t
  <2>2. P(t) \in Packet /\ P(t).id = t.id /\ P(t).type \in Orders
        /\ IF P(t).type = "PUBLISH" THEN P(t).m = t.m /\ ~ t.rel ELSE t.rel
    BY <1>3, <2>1 DEF t
  <2>3. p = P(t) BY <2>1 DEF t
  <2> HIDE DEF p
  <2>4. /\ p.id = t.id /\ p.type \in Orders
        /\ IF p.type = "PUBLISH" THEN p.m = t.m /\ ~ t.rel ELSE t.rel
    BY <2>2, <2>3
  <2> QED BY <2>1, <2>4 DEF p, t
<1> QED BY <1>5, <1>6 DEF tx

LEMMA ConnectPresentKeeps ==
  ASSUME QosInv, ConnectPresent
  PROVE  QosInv'
<1>1. /\ cli.pc = "idle" /\ cli.conn = "NotConnected" /\ brk.sess
      /\ net' = [up |-> TRUE, c2b |-> <<>>, b2c |-> Again]
      /\ cli' = [cli EXCEPT !.conn = "Connected", !.pc = "pubrels", !.cursor = 0]
      /\ app' = Skips(FALSE)
      /\ UNCHANGED <<cb, brk, drops, expiries>>
  BY DEF ConnectPresent, Skips
<1>2. QosTypeOK /\ Connection /\ OutInv /\ InInv /\ cli \in Client /\ OutCount \in Nat
  BY Types DEF QosInv, QosTypeOK
<1>3. app' \in Application /\ OutSame /\ InSame BY <1>1, SkipsIs
<1>4. /\ cli' \in Client /\ cli'.out = cli.out /\ cli'.in = cli.in /\ cli'.conn = "Connected"
      /\ cli'.pc = "pubrels" /\ cli'.bad = cli.bad
  <2>1. 0 \in 0 .. OutCount BY <1>2
  <2> QED BY <1>1, <1>2, <2>1 DEF Client
<1>5. /\ Again \in Seq(Packet) /\ DOMAIN Again = DOMAIN brk.tx
      /\ \A i \in DOMAIN brk.tx :
           /\ brk.tx[i] \in Tx /\ Again[i].id = brk.tx[i].id /\ Again[i].type \in Orders
           /\ IF Again[i].type = "PUBLISH" THEN Again[i].m = brk.tx[i].m /\ ~ brk.tx[i].rel
              ELSE brk.tx[i].rel
  BY <1>2, AgainIs
<1>6. net' \in Network /\ net'.up = TRUE /\ net'.c2b = <<>> /\ net'.b2c = Again
  <2>1. <<>> \in Seq(Packet) OBVIOUS
  <2> QED BY <1>1, <1>5, <2>1 DEF Network
<1>7. Client' = Client BY <1>1 DEF Client, OutCount
<1>8. QosTypeOK' BY <1>1, <1>2, <1>3, <1>4, <1>6, <1>7 DEF QosTypeOK
<1>9. Connection' BY <1>1, <1>2, <1>4 DEF Connection
<1>10. OneEach(Again, Acks) /\ Back(Again) = {}
  BY <1>5, KindsOf DEF OneEach, Back, ToSet
<1>11. OneEach(Again, Orders)
  BY <1>2, <1>5 DEF OneEach, InInv, Sending
<1>12. OutInv'
  <2>1. OutLess(net, net')
    BY <1>6, <1>10, EmptySet, RisingEmpty DEF OutLess, OnePacket
  <2>2. Resending'
    BY <1>4, <1>6, <1>10, EmptySet DEF Resending, OutBusy
  <2> QED BY <1>3, <1>4, <2>1, <2>2, OutUnchanged
<1>13. InInv'
  <2>1. Tx' = Tx /\ (\A m : Taking(m)' <=> Taking(m)) /\ app'.lost = app.lost
    <3>1. app.lost = app'.lost
      <4>1. app \in Application BY DEF QosInv, QosTypeOK
      <4> QED BY <1>1, <4>1 DEF Skips, Application
    <3> QED BY <1>3, <3>1 DEF Tx, Taking, InSame
  <2>2. Sending' BY <1>2, <1>4, <1>3, <2>1 DEF InInv, Sending, InSame
  <2>3. Taken' BY <1>2, <1>4, <1>3, <2>1 DEF InInv, Taken, InSame
  <2>4. \A p \in Fwd(Again) : \E t \in Tx :
          t.id = p.id /\ IF p.type = "PUBLISH" THEN t.m = p.m /\ ~t.rel ELSE t.rel
    <3> TAKE p \in Fwd(Again)
    <3>1. PICK i \in DOMAIN brk.tx : p = Again[i] BY <1>5 DEF Fwd, ToSet
    <3> DEFINE t == brk.tx[i]
               a == Again[i]
    <3>2. t \in Tx /\ a.id = t.id /\ IF a.type = "PUBLISH" THEN a.m = t.m /\ ~t.rel ELSE t.rel
      BY <1>5
    <3> HIDE DEF t, a
    <3>3. p = a BY <3>1 DEF a
    <3> QED BY <3>2, <3>3
  <2>5. InPackets'
    BY <1>6, <1>10, <1>11, <2>1, <2>4, EmptySet, RisingEmpty DEF InPackets, OnePacket
  <2> QED BY <2>2, <2>3, <2>5 DEF InInv
<1> QED BY <1>8, <1>9, <1>12, <1>13 DEF QosInv

LEMMA WipedIs ==
  ASSUME NEW n \in Nat, NEW Id
  PROVE  /\ Wiped(n) \in Table(n, Id) /\ Used(Wiped(n)) = {} /\ Recs(Wiped(n)) = {} /\ Distinct(Wiped(n))
<1>1. Used(Wiped(n)) = {} BY DEF Wiped, Used, Empty
<1> QED BY <1>1 DEF Wiped, Table, Record, Recs, Distinct

\* Both halves of the session start anew.
CleanApp(lost, own) == [app EXCEPT !.lost = @ \cup lost, !.own = own, !.kept = {}]

LEMMA CleanIs ==
  ASSUME QosInv, ConnectClean
  PROVE  /\ cli.pc = "idle" /\ cli.conn = "NotConnected" /\ ~cli.bad /\ ~brk.sess
         /\ brk.rx = {} /\ brk.tx = <<>>
         /\ QosTypeOK' /\ Connection' /\ cb' = cb
         /\ cli'.out = Wiped(OutCount) /\ cli'.in = Wiped(InCount) /\ cli'.pc = "idle"
         /\ net'.c2b = <<>> /\ net'.b2c = <<>>
         /\ brk'.rx = {} /\ brk'.tx = <<>> /\ brk'.got = brk.got /\ brk'.twice = brk.twice
         /\ brk'.sent = brk.sent
         /\ \A id \in Ids : app'.own[id] = 0
         /\ app'.pub = app.pub /\ app'.done = app.done /\ app'.astray = app.astray
         /\ app'.got = app.got /\ app'.twice = app.twice /\ app.lost \subseteq app'.lost
<1> DEFINE none == [i \in Ids |-> 0]
<1>1. /\ cli.pc = "idle" /\ cli.conn = "NotConnected" /\ ~brk.sess
      /\ net' = [up |-> TRUE, c2b |-> <<>>, b2c |-> <<>>]
      /\ cli' = [cli EXCEPT !.conn = "Connected", !.out = Wiped(OutCount), !.in = Wiped(InCount)]
      /\ brk' = [brk EXCEPT !.sess = TRUE]
      /\ app' = CleanApp(Unfinished, none)
      /\ UNCHANGED <<cb, drops, expiries>>
  BY DEF ConnectClean, CleanApp
<1>2. /\ QosTypeOK /\ Connection /\ cli \in Client /\ brk \in Broker /\ app \in Application
      /\ OutCount \in Nat /\ InCount \in Nat
  BY Types DEF QosInv, QosTypeOK
<1>3. ~cli.bad /\ brk.rx = {} /\ brk.tx = <<>> BY <1>1, <1>2 DEF Connection
<1>4. Wiped(OutCount) \in Table(OutCount, Ids) /\ Wiped(InCount) \in Table(InCount, InIds)
  BY <1>2, WipedIs
<1>5. /\ cli' \in Client /\ cli'.out = Wiped(OutCount) /\ cli'.in = Wiped(InCount) /\ cli'.pc = "idle"
      /\ cli'.conn = "Connected" /\ cli'.bad = cli.bad
  <2> DEFINE a == Wiped(OutCount)
             b == Wiped(InCount)
  <2>1. a \in Table(OutCount, Ids) /\ b \in Table(InCount, InIds) BY <1>4
  <2>2. cli' = [cli EXCEPT !.conn = "Connected", !.out = a, !.in = b] BY <1>1
  <2> HIDE DEF a, b
  <2>3. /\ cli' \in Client /\ cli'.out = a /\ cli'.in = b /\ cli'.pc = "idle"
        /\ cli'.conn = "Connected" /\ cli'.bad = cli.bad
    BY <1>1, <1>2, <2>1, <2>2 DEF Client, Table
  <2> QED BY <2>3 DEF a, b
<1>6. net' \in Network /\ net'.up = TRUE /\ net'.c2b = <<>> /\ net'.b2c = <<>>
  <2>1. <<>> \in Seq(Packet) OBVIOUS
  <2> QED BY <1>1, <2>1 DEF Network
<1>7. /\ brk' \in Broker /\ brk'.sess = TRUE /\ brk'.rx = brk.rx /\ brk'.tx = brk.tx /\ brk'.got = brk.got
      /\ brk'.twice = brk.twice /\ brk'.sent = brk.sent
  BY <1>1, <1>2 DEF Broker
<1>8. /\ none \in [Ids -> Out \cup {0}] /\ \A id \in Ids : none[id] = 0 BY QosConstants
<1>9. Unfinished \subseteq Msgs BY <1>2 DEF Unfinished, Msgs, Application
<1> HIDE DEF none
<1>10. /\ app' \in Application /\ app'.own = none /\ app'.pub = app.pub /\ app'.done = app.done
       /\ app'.astray = app.astray /\ app'.got = app.got /\ app'.twice = app.twice
       /\ app'.lost = app.lost \cup Unfinished
  BY <1>1, <1>2, <1>8, <1>9 DEF CleanApp, Application
<1>11. Client' = Client BY <1>1 DEF Client, OutCount
<1>12. QosTypeOK' BY <1>1, <1>2, <1>5, <1>6, <1>7, <1>10, <1>11 DEF QosTypeOK
<1>13. Connection' BY <1>1, <1>3, <1>5, <1>6, <1>7 DEF Connection
<1> QED BY <1>1, <1>3, <1>5, <1>6, <1>7, <1>8, <1>10, <1>12, <1>13

LEMMA ConnectCleanKeeps ==
  ASSUME QosInv, ConnectClean
  PROVE  QosInv'
<1>1. /\ cli.pc = "idle" /\ cli.conn = "NotConnected" /\ ~cli.bad /\ ~brk.sess
      /\ brk.rx = {} /\ brk.tx = <<>>
      /\ QosTypeOK' /\ Connection' /\ cb' = cb
      /\ cli'.out = Wiped(OutCount) /\ cli'.in = Wiped(InCount) /\ cli'.pc = "idle"
      /\ net'.c2b = <<>> /\ net'.b2c = <<>>
      /\ brk'.rx = {} /\ brk'.tx = <<>> /\ brk'.got = brk.got /\ brk'.twice = brk.twice
      /\ brk'.sent = brk.sent
      /\ \A id \in Ids : app'.own[id] = 0
      /\ app'.pub = app.pub /\ app'.done = app.done /\ app'.astray = app.astray
      /\ app'.got = app.got /\ app'.twice = app.twice /\ app.lost \subseteq app'.lost
  BY CleanIs
<1>2. QosTypeOK /\ OutInv /\ InInv /\ OutCount \in Nat /\ InCount \in Nat BY Types DEF QosInv
<1>3. /\ Used(cli'.out) = {} /\ Recs(cli'.out) = {} /\ Distinct(cli'.out)
      /\ Recs(cli'.in) = {} /\ Distinct(cli'.in)
  BY <1>1, <1>2, WipedIs
<1>4. \A id, S : ~ Has(cli'.out, id) /\ ~ StateIn(cli'.out, id, S) BY <1>3 DEF Has, StateIn
<1>5. Fwd(<<>>) = {} /\ Back(<<>>) = {} /\ Rising(<<>>) /\ OnePacket(<<>>, <<>>) /\ ToSet(<<>>) = {}
  BY EmptySet, RisingEmpty DEF OnePacket
<1>6. Owned' BY <1>1, <1>3, <1>4 DEF Owned
<1>7. Published' BY <1>1, <1>2 DEF OutInv, Published
<1>8. OutPackets' BY <1>1, <1>5 DEF OutPackets
<1>9. Resending' BY <1>1 DEF Resending
<1>10. Received' BY <1>1, <1>2, <1>4 DEF OutInv, Received
<1>11. Ordered'
  <2>1. cb => FirstInOrder' BY <1>1, <1>2 DEF OutInv, Ordered, FirstInOrder
  <2>2. TableOrder' BY <1>3 DEF TableOrder
  <2>3. QueueOrder' BY <1>1, <1>3, <1>5 DEF QueueOrder
  <2> QED BY <1>1, <2>1, <2>2, <2>3 DEF Ordered
<1>12. Tx' = {} /\ \A m : Taking(m)' <=> Taking(m) BY <1>1, <1>5 DEF Tx, Taking
<1>13. Tx = {} BY <1>1, <1>5 DEF Tx
<1>14. Sending' BY <1>1, <1>2, <1>3, <1>12 DEF InInv, Sending
<1>15. InPackets' BY <1>1, <1>5 DEF InPackets
<1>16. Taken' BY <1>1, <1>2, <1>3, <1>12, <1>13 DEF InInv, Taken
<1> QED BY <1>1, <1>6, <1>7, <1>8, <1>9, <1>10, <1>11, <1>14, <1>15, <1>16 DEF QosInv, OutInv, InInv

LEMMA ConnackLostKeeps ==
  ASSUME QosInv, ConnackLost
  PROVE  QosInv'
<1> DEFINE wary == app.astray \/ Used(cli.out) \cup Used(cli.in) # {}
<1>1. /\ cli.pc = "idle" /\ cli.conn = "NotConnected" /\ drops < MaxDrops /\ ~brk.sess
      /\ drops' = drops + 1 /\ brk' = [brk EXCEPT !.sess = TRUE]
      /\ app' = [app EXCEPT !.astray = @ \/ Used(cli.out) \cup Used(cli.in) # {}]
      /\ UNCHANGED <<cb, cli, net, expiries>>
  BY DEF ConnackLost
<1>2. /\ QosTypeOK /\ Connection /\ OutInv /\ InInv /\ brk \in Broker /\ app \in Application
  BY DEF QosInv, QosTypeOK
<1>3. /\ brk.rx = {} /\ brk.tx = <<>> /\ net.c2b = <<>> /\ net.b2c = <<>> BY <1>1, <1>2 DEF Connection
<1>4. /\ brk' \in Broker /\ brk'.sess = TRUE /\ brk'.rx = brk.rx /\ brk'.tx = brk.tx /\ brk'.got = brk.got
      /\ brk'.twice = brk.twice /\ brk'.sent = brk.sent
  BY <1>1, <1>2 DEF Broker
<1>5. /\ app' \in Application /\ app'.own = app.own /\ app'.pub = app.pub /\ app'.done = app.done
      /\ app'.kept = app.kept /\ app'.got = app.got /\ app'.twice = app.twice
      /\ app'.lost = app.lost /\ app'.astray = wary
  <2>1. wary \in BOOLEAN BY <1>2 DEF Application
  <2>2. app' = [app EXCEPT !.astray = wary] BY <1>1, <1>2 DEF Application
  <2> HIDE DEF wary
  <2> QED BY <1>2, <2>1, <2>2 DEF Application
<1>6. ~app'.astray => ~app.astray /\ Used(cli.out) = {} /\ Used(cli.in) = {} BY <1>5
<1> HIDE DEF wary
<1>7. Client' = Client BY <1>1 DEF Client, OutCount
<1>8. drops' \in 0 .. MaxDrops BY <1>1, <1>2, QosConstants DEF QosTypeOK
<1>9. QosTypeOK' BY <1>1, <1>2, <1>4, <1>5, <1>7, <1>8 DEF QosTypeOK
<1>10. Connection' BY <1>1, <1>2, <1>4 DEF Connection
<1>11. \A id : Delivered(id)' <=> Delivered(id) BY <1>4, <1>5 DEF Delivered
<1>12. Owned' BY <1>1, <1>2, <1>5, <1>11 DEF OutInv, Owned
<1>13. Published' BY <1>2, <1>4, <1>5 DEF OutInv, Published
<1>14. Fwd(<<>>) = {} /\ Back(<<>>) = {} /\ Rising(<<>>) /\ OnePacket(<<>>, <<>>) /\ ToSet(<<>>) = {}
  BY EmptySet, RisingEmpty DEF OnePacket
<1>15. OutPackets' BY <1>1, <1>3, <1>14 DEF OutPackets
<1>16. Resending' BY <1>1 DEF Resending
<1>17. Received'
  <2>1. ~app'.astray => \A id, S : ~ StateIn(cli.out, id, S) BY <1>6 DEF StateIn, Recs
  <2> QED BY <1>1, <1>2, <1>3, <1>4, <1>6, <2>1 DEF OutInv, Received
<1>18. Ordered'
  <2>1. ASSUME cb PROVE FirstInOrder' /\ TableOrder' /\ QueueOrder'
    <3>1. FirstInOrder /\ TableOrder BY <1>2, <2>1 DEF OutInv, Ordered
    <3>2. FirstInOrder' BY <1>1, <1>4, <3>1 DEF FirstInOrder
    <3>3. \A r : Waits(r)' <=> Waits(r) BY <1>11 DEF Waits
    <3>4. TableOrder' BY <1>1, <1>4, <1>5, <3>1, <3>3 DEF TableOrder
    <3>5. QueueOrder' BY <1>1, <1>3, <1>14 DEF QueueOrder
    <3> QED BY <3>2, <3>4, <3>5
  <2> QED BY <1>1, <2>1 DEF Ordered
<1>19. Tx' = {} /\ Tx = {} /\ \A m : Taking(m)' <=> Taking(m) BY <1>3, <1>4, <1>5, <1>14 DEF Tx, Taking
<1>20. Sending' BY <1>1, <1>2, <1>4, <1>5, <1>19 DEF InInv, Sending
<1>21. InPackets' BY <1>1, <1>3, <1>14 DEF InPackets
<1>22. Taken'
  <2>1. ~app'.astray => Recs(cli.in) = {} BY <1>6 DEF Recs
  <2> QED BY <1>1, <1>2, <1>4, <1>5, <1>6, <1>19, <2>1 DEF InInv, Taken
<1> QED BY <1>9, <1>10, <1>12, <1>13, <1>15, <1>16, <1>17, <1>18, <1>20, <1>21, <1>22 DEF QosInv, OutInv, InInv

LEMMA ExpireKeeps ==
  ASSUME QosInv, Expire
  PROVE  QosInv'
<1> DEFINE gone == {brk.tx[i].m : i \in DOMAIN brk.tx}
<1>1. /\ brk.sess /\ cli.conn = "NotConnected" /\ expiries < MaxExpiry /\ expiries' = expiries + 1
      /\ net' = [net EXCEPT !.c2b = <<>>, !.b2c = <<>>]
      /\ app' = [app EXCEPT !.lost = @ \cup gone]
      /\ brk' = [brk EXCEPT !.sess = FALSE, !.rx = {}, !.tx = <<>>]
      /\ UNCHANGED <<cb, cli, drops>>
  BY DEF Expire
<1>2. /\ QosTypeOK /\ Connection /\ OutInv /\ InInv /\ brk \in Broker /\ app \in Application /\ net \in Network
      /\ brk.tx \in Seq(TxEntry)
  BY Types DEF QosInv, QosTypeOK
<1>3. cli.pc = "idle" /\ ~cli.bad /\ ~net.up BY <1>1, <1>2 DEF Connection
<1>4. net' \in Network /\ net'.up = net.up /\ net'.c2b = <<>> /\ net'.b2c = <<>>
  <2>1. <<>> \in Seq(Packet) OBVIOUS
  <2> QED BY <1>1, <1>2, <2>1 DEF Network
<1>5. /\ brk' \in Broker /\ brk'.sess = FALSE /\ brk'.rx = {} /\ brk'.tx = <<>> /\ brk'.got = brk.got
      /\ brk'.twice = brk.twice /\ brk'.sent = brk.sent
  <2>1. <<>> \in Seq([m: In, id: InIds, rel: BOOLEAN]) OBVIOUS
  <2> QED BY <1>1, <1>2, <2>1 DEF Broker
<1>6. gone = {t.m : t \in Tx} /\ gone \subseteq Msgs
  <2>1. DOMAIN brk.tx = 1 .. Len(brk.tx) /\ \A i \in DOMAIN brk.tx : brk.tx[i] \in TxEntry
    <3> DEFINE tx == brk.tx
    <3>1. tx \in Seq(TxEntry) BY <1>2
    <3> HIDE DEF tx
    <3>2. DOMAIN tx = 1 .. Len(tx) /\ \A i \in DOMAIN tx : tx[i] \in TxEntry BY <3>1
    <3> QED BY <3>2 DEF tx
  <2> QED BY <2>1 DEF Tx, ToSet, TxEntry, Msgs
<1> HIDE DEF gone
<1>7. /\ app' \in Application /\ app'.own = app.own /\ app'.pub = app.pub /\ app'.done = app.done
      /\ app'.kept = app.kept /\ app'.got = app.got /\ app'.twice = app.twice
      /\ app'.lost = app.lost \cup gone /\ app'.astray = app.astray
  BY <1>1, <1>2, <1>6 DEF Application
<1>8. Client' = Client BY <1>1 DEF Client, OutCount
<1>9. expiries' \in 0 .. MaxExpiry BY <1>1, <1>2, QosConstants DEF QosTypeOK
<1>10. QosTypeOK' BY <1>1, <1>2, <1>4, <1>5, <1>7, <1>8, <1>9 DEF QosTypeOK
<1>11. Connection' BY <1>1, <1>2, <1>3, <1>4, <1>5 DEF Connection
<1>12. \A id : Delivered(id)' <=> Delivered(id) BY <1>5, <1>7 DEF Delivered
<1>13. Owned' BY <1>1, <1>2, <1>7, <1>12 DEF OutInv, Owned
<1>14. Published' BY <1>2, <1>5, <1>7 DEF OutInv, Published
<1>15. Fwd(<<>>) = {} /\ Back(<<>>) = {} /\ Rising(<<>>) /\ OnePacket(<<>>, <<>>) /\ ToSet(<<>>) = {}
  BY EmptySet, RisingEmpty DEF OnePacket
<1>16. OutPackets' BY <1>4, <1>15 DEF OutPackets
<1>17. Resending' BY <1>1, <1>3 DEF Resending
<1>18. Received' BY <1>2, <1>5, <1>7 DEF OutInv, Received
<1>19. Ordered'
  <2>1. ASSUME cb PROVE FirstInOrder' /\ TableOrder' /\ QueueOrder'
    <3>1. FirstInOrder /\ TableOrder BY <1>2, <2>1 DEF OutInv, Ordered
    <3>2. FirstInOrder' BY <1>1, <1>5, <3>1 DEF FirstInOrder
    <3>3. \A r : Waits(r)' <=> Waits(r) BY <1>12 DEF Waits
    <3>4. TableOrder' BY <1>1, <1>5, <1>7, <3>1, <3>3 DEF TableOrder
    <3>5. QueueOrder' BY <1>1, <1>4, <1>15 DEF QueueOrder
    <3> QED BY <3>2, <3>4, <3>5
  <2> QED BY <1>1, <2>1 DEF Ordered
<1>20. Tx' = {} /\ \A m : Taking(m)' <=> Taking(m) BY <1>5, <1>7, <1>15 DEF Tx, Taking
<1>21. Sending' BY <1>1, <1>2, <1>5, <1>7, <1>20 DEF InInv, Sending
<1>22. InPackets' BY <1>4, <1>15 DEF InPackets
<1>23. Taken' BY <1>2, <1>5, <1>6, <1>7, <1>20 DEF InInv, Taken
<1> QED BY <1>10, <1>11, <1>13, <1>14, <1>16, <1>17, <1>18, <1>19, <1>21, <1>22, <1>23 DEF QosInv, OutInv, InInv

-----------------------------------------------------------------------------
(* The invariant, and what it implies                                      *)

LEMMA InitHolds ==
  ASSUME QosInit
  PROVE  QosInv
<1>1. /\ cb \in DOMAIN Slots /\ OutCount \in Nat /\ InCount \in Nat
      /\ cli = [conn |-> "NotConnected", pc |-> "idle", out |-> Wiped(OutCount), in |-> Wiped(InCount),
                next |-> 1, cursor |-> 0, bad |-> FALSE]
      /\ net = [up |-> FALSE, c2b |-> <<>>, b2c |-> <<>>]
      /\ brk = [sess |-> FALSE, rx |-> {}, got |-> <<>>, twice |-> {}, tx |-> <<>>, sent |-> {}]
      /\ app = [own |-> [i \in Ids |-> 0], kept |-> {}, pub |-> {}, done |-> {}, lost |-> {},
                got |-> <<>>, twice |-> {}, astray |-> FALSE, skipped |-> FALSE]
      /\ drops = 0 /\ expiries = 0
  BY QosConstants DEF QosInit, OutCount
<1>2. /\ Used(Wiped(OutCount)) = {} /\ Recs(Wiped(OutCount)) = {} /\ Distinct(Wiped(OutCount))
      /\ Recs(Wiped(InCount)) = {} /\ Distinct(Wiped(InCount))
      /\ Wiped(OutCount) \in Table(OutCount, Ids) /\ Wiped(InCount) \in Table(InCount, InIds)
  BY <1>1, WipedIs
<1>3. Fwd(<<>>) = {} /\ Back(<<>>) = {} /\ Rising(<<>>) /\ OnePacket(<<>>, <<>>) /\ ToSet(<<>>) = {}
  BY EmptySet, RisingEmpty DEF OnePacket
<1>4. QosTypeOK
  <2>1. cli \in Client
    <3>1. 1 \in Ids /\ 0 \in 0 .. OutCount BY <1>1, QosConstants DEF Ids
    <3> QED BY <1>1, <1>2, <3>1 DEF Client, Table
  <2>2. net \in Network
    <3>1. <<>> \in Seq(Packet) OBVIOUS
    <3> QED BY <1>1, <3>1 DEF Network
  <2>3. brk \in Broker
    <3>1. <<>> \in Seq(Out) /\ <<>> \in Seq([m: In, id: InIds, rel: BOOLEAN]) OBVIOUS
    <3> QED BY <1>1, <3>1 DEF Broker
  <2>4. app \in Application
    <3>1. <<>> \in Seq(In) OBVIOUS
    <3>2. [i \in Ids |-> 0] \in [Ids -> Out \cup {0}] OBVIOUS
    <3> QED BY <1>1, <3>1, <3>2 DEF Application
  <2> QED BY <1>1, <2>1, <2>2, <2>3, <2>4, QosConstants DEF QosTypeOK
<1>5. Connection BY <1>1 DEF Connection
<1>6. \A id, S : ~ Has(cli.out, id) /\ ~ StateIn(cli.out, id, S) BY <1>1, <1>2 DEF Has, StateIn
<1>7. Owned BY <1>1, <1>2, <1>6 DEF Owned
<1>8. Published BY <1>1, <1>3 DEF Published
<1>9. OutPackets BY <1>1, <1>3 DEF OutPackets
<1>10. Resending BY <1>1 DEF Resending
<1>11. Received BY <1>1 DEF Received
<1>12. Ordered BY <1>1, <1>2, <1>3 DEF Ordered, FirstInOrder, TableOrder, QueueOrder
<1>13. Tx = {} /\ ToSet(app.got) = {} BY <1>1, <1>3 DEF Tx
<1>14. Sending BY <1>1, <1>2, <1>13 DEF Sending
<1>15. InPackets BY <1>1, <1>3 DEF InPackets
<1>16. Taken BY <1>1, <1>2, <1>13 DEF Taken
<1> QED BY <1>4, <1>5, <1>7, <1>8, <1>9, <1>10, <1>11, <1>12, <1>14, <1>15, <1>16 DEF QosInv, OutInv, InInv

\* The invariant holds, whatever the loss, the reconnections and the sessions
\* that the broker forgets.
THEOREM QosInvariant == QosSpec => []QosInv
<1>1. QosInit => QosInv BY InitHolds
<1>2. QosInv /\ [QosNext]_qosVars => QosInv'
  <2> SUFFICES ASSUME QosInv, [QosNext]_qosVars PROVE QosInv' OBVIOUS
  <2>1. CASE Publish BY <2>1, PublishKeeps
  <2>2. CASE ReceivePublish BY <2>2, ReceivePublishKeeps
  <2>3. CASE ReceiveAck BY <2>3, ReceiveAckKeeps
  <2>4. CASE ReceiveFails BY <2>4, ReceiveFailsKeeps
  <2>5. CASE Disconnect BY <2>5, DisconnectKeeps
  <2>6. CASE ConnectPresent BY <2>6, ConnectPresentKeeps
  <2>7. CASE ConnectClean BY <2>7, ConnectCleanKeeps
  <2>8. CASE ResendPubrel BY <2>8, ResendPubrelKeeps
  <2>9. CASE ResendStored BY <2>9, ResendStoredKeeps
  <2>10. CASE ResendByApp BY <2>10, ResendByAppKeeps
  <2>11. CASE ConnackLost BY <2>11, ConnackLostKeeps
  <2>12. CASE BrokerReads BY <2>12, BrokerReadsKeeps
  <2>13. CASE BrokerPublishes BY <2>13, BrokerPublishesKeeps
  <2>14. CASE Drop BY <2>14, DropKeeps
  <2>15. CASE Expire BY <2>15, ExpireKeeps
  <2>16. CASE UNCHANGED qosVars
    <3>1. /\ cb' = cb /\ cli' = cli /\ net' = net /\ brk' = brk /\ app' = app
          /\ drops' = drops /\ expiries' = expiries
      BY <2>16 DEF qosVars
    <3>2. Client' = Client BY <3>1 DEF Client, OutCount
    <3>3. QosTypeOK' /\ Connection' BY <3>1, <3>2 DEF QosInv, QosTypeOK, Connection
    <3>4. OutSame /\ InSame /\ ClientStays /\ OutNet(net, net') /\ InNet(net, net')
      BY <3>1, NetTrans DEF OutSame, InSame, ClientStays
    <3> QED BY <3>1, <3>3, <3>4, QuietKeeps
  <2> QED BY <2>1, <2>2, <2>3, <2>4, <2>5, <2>6, <2>7, <2>8, <2>9, <2>10, <2>11, <2>12, <2>13,
             <2>14, <2>15, <2>16 DEF QosNext, MQTT_ProcessLoop, Reconnect
<1> QED BY <1>1, <1>2, PTL DEF QosSpec

\* MQTT_QoS2: no QoS 2 message is handed over twice, in either direction.
THEOREM ExactlyOnceHolds == QosSpec => []ExactlyOnce
<1>1. QosInv => ExactlyOnce
  BY DEF QosInv, OutInv, InInv, Received, Taken, ExactlyOnce
<1> QED BY <1>1, QosInvariant, PTL

\* An acknowledged message was delivered, in either direction.
THEOREM AckedHolds == QosSpec => []AckedMeansDelivered
<1>1. QosInv => AckedMeansDelivered
  <2> SUFFICES ASSUME QosInv PROVE AckedMeansDelivered OBVIOUS
  <2>1. app.done \subseteq ToSet(brk.got) BY DEF QosInv, OutInv, Published
  <2>2. ASSUME ~app.astray, NEW m \in brk.sent \ app.lost, \A i \in DOMAIN brk.tx : brk.tx[i].m # m
        PROVE  m \in ToSet(app.got)
    <3>1. \A t \in Tx : t.m # m BY <2>2 DEF Tx, ToSet
    <3> QED BY <2>2, <3>1 DEF QosInv, InInv, Taken, Taking
  <2> QED BY <2>1, <2>2 DEF AckedMeansDelivered
<1> QED BY <1>1, QosInvariant, PTL

\* The client's records are its half of the session.
THEOREM RecordsHold == QosSpec => []RecordsCoverSession
<1>1. QosInv => RecordsCoverSession
  <2> SUFFICES ASSUME QosInv PROVE RecordsCoverSession OBVIOUS
  <2> DEFINE out == cli.out
             rec(id) == out[FindInRecord(out, id)]
             ids == {out[i].id : i \in Used(out)}
  <2>1. /\ out \in Table(OutCount, Ids) /\ OutCount \in Nat /\ 0 \notin Ids /\ QosTypeOK
        /\ brk.rx \subseteq Ids
    BY Types, NoZero DEF QosInv, QosTypeOK, Broker
  <2>2. /\ \A id \in Ids : Has(out, id) <=> app.own[id] # 0
        /\ \A r \in Recs(out) : /\ r.st \in Unacked => r.id \in app.kept
                                /\ r.st \in Late => Delivered(r.id)
                                /\ Fits(r.st, app.own[r.id])
        /\ \A id \in brk.rx : app.own[id] # 0
    BY DEF QosInv, OutInv, Owned, Received
  <2>3. RecordsCoverSession <=>
          /\ QosTypeOK
          /\ ids = {id \in Ids : app.own[id] # 0}
          /\ brk.rx \subseteq ids
          /\ \A id \in ids : IF rec(id).st \in {"PubRelSend", "PubCompPending"}
                             THEN app.own[id] \in ToSet(brk.got)
                             ELSE id \in app.kept
    BY Zenon DEF RecordsCoverSession
  <2> HIDE DEF out
  <2>4. \A i \in Used(out) : out[i].id \in Ids BY <2>1, Rows
  <2>5. \A id : id \in ids <=> Has(out, id) BY DEF Has, Recs
  <2>6. ids \subseteq Ids BY <2>4
  <2> HIDE DEF ids
  <2>7. ids = {id \in Ids : app.own[id] # 0} BY <2>2, <2>5, <2>6
  <2>8. brk.rx \subseteq ids BY <2>1, <2>2, <2>7
  <2>9. ASSUME NEW id \in ids
        PROVE  IF rec(id).st \in {"PubRelSend", "PubCompPending"} THEN app.own[id] \in ToSet(brk.got)
               ELSE id \in app.kept
    <3> DEFINE r == rec(id)
    <3>1. id # 0 /\ Has(out, id) BY <2>1, <2>5, <2>6
    <3>2. FindInRecord(out, id) \in Used(out) /\ r.id = id BY <2>1, <3>1, FindIs
    <3>3. r \in Recs(out) BY <3>2 DEF Recs
    <3> HIDE DEF r
    <3>4. Late = {"PubRelSend", "PubCompPending"} BY DEF Late
    <3>5. r.st \in Late \/ r.st \in Unacked BY <2>2, <3>3 DEF Fits, Unacked
    <3>6. IF r.st \in {"PubRelSend", "PubCompPending"} THEN app.own[id] \in ToSet(brk.got)
          ELSE id \in app.kept
      BY <2>2, <3>2, <3>3, <3>4, <3>5 DEF Delivered
    <3> QED BY <3>6 DEF r
  <2> HIDE DEF rec
  <2> QED BY <2>1, <2>3, <2>7, <2>8, <2>9
<1> QED BY <1>1, QosInvariant, PTL

\* The broker first receives the messages in the order of their publishing.
THEOREM FirstInOrderHolds == QosSpec => []FirstInOrder
<1>1. QosInv => FirstInOrder BY DEF QosInv, OutInv, Ordered, FirstInOrder
<1> QED BY <1>1, QosInvariant, PTL
=============================================================================
