--------------------------- MODULE BleOta_proofs ---------------------------
(***************************************************************************)
(* Theorems about firmware over BLE, for every set of clients, every queue *)
(* length and every number of uploads.                                      *)
(*                                                                         *)
(* Argument: the service keeps its invariant (OtaService_proofs).  Two more *)
(* facts are inductive.  Mirrored: what the passive session has accepted is *)
(* at the start of its partition, and the rest of the partition is erased.  *)
(* InLine: the messages that wait are in the order of the uploads, and as   *)
(* long as one of the upload that opened the session is still to be handled *)
(* (or to be sent), the session has accepted only chunks of that upload,    *)
(* and fewer than the next one's index.                                     *)
(***************************************************************************)
EXTENDS BleOta, OtaService_proofs

Log == ctx[Passive].log

\* Where the worker is.
WorkerShape ==
  /\ wpc # "take" => msg \in Message
  /\ wpc = "finishing" <=> Passive \in ending
  /\ wpc = "finishing" => msg.ev = "FINISH"
  /\ wpc = "abort" => msg.ev = "DATA"

Mirrors(r, d) ==
  /\ r.part \in Part /\ Len(r.log) <= Cap
  /\ \A i \in 1..Len(r.log) : d.flash[r.part][i] = r.log[i]
  /\ \A i \in Len(r.log) + 1 .. Cap : d.flash[r.part][i] = Blank

Mirrored == ctx[Passive].state = "RUNNING" => Mirrors(ctx[Passive], dev)

\* Message m was sent before message n.
Before(m, n) ==
  /\ m.up <= n.up
  /\ m.up = n.up => m.from = n.from /\ (m.ev = "DATA" /\ n.ev = "DATA" => m.ch[2] < n.ch[2])

\* The session has accepted nothing but chunks of client cl's image.
Only(cl) == \A i \in 1..Len(Log) : Log[i][1] = ImageOf[cl]

\* What holds of a message that was sent and is not yet handled.
Waits(m) ==
  /\ m.ev = "DATA" => m.ch \in Chunk /\ m.ch[1] = ImageOf[m.from]
  /\ opener <= m.up /\ m.up <= upload
  /\ (m.up = upload /\ stage = "data" /\ conn # NoClient) =>
        m.from = conn /\ (m.ev = "DATA" => m.ch[2] <= sent)
  /\ m.up = opener =>
        Only(m.from) /\ Len(Log) <= ImageLen /\ (m.ev = "DATA" => Len(Log) < m.ch[2])

InLine ==
  /\ \A i \in 1..Len(q) : Waits(q[i])
  /\ \A i, j \in 1..Len(q) : i < j => Before(q[i], q[j])
  /\ wpc # "take" => Waits(msg) /\ \A i \in 1..Len(q) : Before(msg, q[i])

\* The upload that is being sent, when it is the one that opened the session.
Sending ==
  /\ opener <= upload
  /\ stage = "data" => upload # 0
  /\ (upload = opener /\ stage = "data" /\ conn # NoClient) => Only(conn) /\ Len(Log) <= sent

BleInv ==
  /\ ServiceInv /\ BleTypeOK
  /\ WorkerShape /\ Mirrored /\ InLine /\ Sending

-----------------------------------------------------------------------------
(* Lemmas about the queue.                                                 *)

LEMMA AfterPost ==
  ASSUME NEW s \in Seq(Message), NEW m \in Message
  PROVE  /\ Append(s, m) \in Seq(Message) /\ Len(Append(s, m)) = Len(s) + 1
         /\ \A i \in 1..Len(s) : Append(s, m)[i] = s[i]
         /\ Append(s, m)[Len(s) + 1] = m
  OBVIOUS

LEMMA AfterTake ==
  ASSUME NEW s \in Seq(Message), s # <<>>
  PROVE  /\ Head(s) \in Message /\ Head(s) = s[1] /\ 1 \in 1..Len(s)
         /\ Tail(s) \in Seq(Message) /\ Len(Tail(s)) = Len(s) - 1
         /\ \A i \in 1..Len(Tail(s)) : Tail(s)[i] = s[i + 1] /\ i + 1 \in 1..Len(s)
  OBVIOUS

\* The service's half of the type.
LEMMA BleTypes ==
  ASSUME BleInv
  PROVE  /\ conn \in Client \cup {NoClient} /\ upload \in Nat /\ upload <= MaxUploads
         /\ sent \in Nat /\ sent <= ImageLen /\ stage \in {"start", "data"}
         /\ q \in Seq(Message) /\ Len(q) \in Nat /\ opener \in Nat
         /\ ImageLen \in Nat /\ MaxUploads \in Nat
         /\ \A i \in 1..Len(q) : q[i] \in Message
  BY OtaConstants, BleConstants DEF BleInv, BleTypeOK

-----------------------------------------------------------------------------
(* The BLE host.                                                            *)

\* A step of the host that leaves the messages sent before in line, and may
\* post one that waits behind them.
LEMMA HostStep ==
  ASSUME BleInv, UNCHANGED <<otaVars, msg, wpc, opener>>,
         conn' \in Client \cup {NoClient}, upload' \in 0..MaxUploads, sent' \in 0..ImageLen,
         stage' \in {"start", "data"}, upload <= upload', stage' = "data" => upload' # 0,
         \A m \in Message : Waits(m) => Waits(m)',
         (upload' = opener /\ stage' = "data" /\ conn' # NoClient) => Only(conn') /\ Len(Log) <= sent',
         \/ q' = q
         \/ \E m \in Message :
              /\ Len(q) < QueueLen /\ q' = Append(q, m) /\ Waits(m)'
              /\ \A n \in Message : Waits(n) => Before(n, m)
  PROVE  BleInv'
<1>1. ServiceInv' BY ServiceStutter DEF BleInv
<1>2. UNCHANGED ctx /\ UNCHANGED dev /\ UNCHANGED ending BY DEF otaVars, agentVars
<1>3. WorkerShape' /\ Mirrored' /\ Sending'
  <2>1. WorkerShape' BY <1>2 DEF BleInv, WorkerShape
  <2>2. Mirrored' BY <1>2 DEF BleInv, Mirrored, Mirrors
  <2>3. Sending' BY <1>2, BleTypes DEF BleInv, Sending, Only, Log
  <2> QED BY <2>1, <2>2, <2>3
<1>4. CASE q' = q
  <2>1. BleTypeOK' BY <1>1, <1>4 DEF BleInv, BleTypeOK, ServiceInv
  <2>2. InLine' BY <1>4, BleTypes DEF BleInv, InLine, WorkerShape
  <2> QED BY <1>1, <1>3, <2>1, <2>2 DEF BleInv
<1>5. ASSUME NEW m \in Message, Len(q) < QueueLen, q' = Append(q, m), Waits(m)',
             \A n \in Message : Waits(n) => Before(n, m)
      PROVE  BleInv'
  <2>1. /\ q' \in Seq(Message) /\ Len(q') = Len(q) + 1
        /\ \A i \in 1..Len(q) : q'[i] = q[i]
        /\ q'[Len(q) + 1] = m
    BY <1>5, BleTypes, AfterPost
  <2>2. BleTypeOK'
    BY <1>1, <1>5, <2>1, BleTypes, BleConstants DEF BleInv, BleTypeOK, ServiceInv
  <2>3. \A i \in 1..Len(q') : i \in 1..Len(q) \/ i = Len(q) + 1 BY <2>1, BleTypes
  <2>4. \A i \in 1..Len(q') : Waits(q[i])'
    <3> SUFFICES ASSUME NEW i \in 1..Len(q'), NEW n, n = q'[i] PROVE Waits(n)'
      BY DEF Waits, Only, Log
    <3>1. CASE i \in 1..Len(q)
      <4>1. n = q[i] /\ n \in Message BY <2>1, <3>1, BleTypes
      <4>2. Waits(n) BY <3>1, <4>1 DEF BleInv, InLine
      <4> QED BY <4>1, <4>2
    <3>2. CASE i = Len(q) + 1 BY <1>5, <2>1, <3>2
    <3> QED BY <2>3, <3>1, <3>2
  <2>5. \A i, j \in 1..Len(q') : i < j => Before(q'[i], q'[j])
    <3> SUFFICES ASSUME NEW i \in 1..Len(q'), NEW j \in 1..Len(q'), i < j
                 PROVE  Before(q'[i], q'[j])
      OBVIOUS
    <3>1. i \in 1..Len(q) BY <2>1, BleTypes
    <3>2. CASE j \in 1..Len(q) BY <2>1, <3>1, <3>2 DEF BleInv, InLine
    <3>3. CASE j = Len(q) + 1
      <4>1. q[i] \in Message /\ Waits(q[i]) BY <3>1, BleTypes DEF BleInv, InLine
      <4> QED BY <1>5, <2>1, <3>1, <3>3, <4>1
    <3> QED BY <2>3, <3>2, <3>3
  <2>6. (wpc # "take")' => Waits(msg)' /\ \A i \in 1..Len(q') : Before(msg', q'[i])
    <3> SUFFICES ASSUME wpc # "take", NEW w, w = msg
                 PROVE  Waits(w)' /\ \A i \in 1..Len(q') : Before(w, q'[i])
      BY DEF Waits, Only, Log
    <3>1. w \in Message /\ Waits(w) /\ \A i \in 1..Len(q) : Before(w, q[i])
      BY DEF BleInv, InLine, WorkerShape
    <3> QED BY <1>5, <2>1, <2>3, <3>1
  <2>7. InLine' BY <2>4, <2>5, <2>6 DEF InLine, Before
  <2> QED BY <1>1, <1>3, <2>2, <2>7 DEF BleInv
<1> QED BY <1>4, <1>5

LEMMA ConnectStep ==
  ASSUME BleInv, NEW cl \in Client, Connect(cl)
  PROVE  BleInv'
<1>1. /\ UNCHANGED <<otaVars, msg, wpc, opener>> /\ q' = q /\ upload' = upload
      /\ conn' = cl /\ stage' = "start" /\ sent' = 0
  BY DEF Connect
<1>2. \A m \in Message : Waits(m) => Waits(m)'
  BY <1>1 DEF Waits, Only, Log, otaVars, agentVars
<1> QED BY <1>1, <1>2, BleTypes, HostStep

LEMMA DisconnectStep ==
  ASSUME BleInv, Disconnect
  PROVE  BleInv'
<1>1. /\ UNCHANGED <<otaVars, msg, wpc, opener, upload, sent, stage>> /\ q' = q
      /\ conn' = NoClient
  BY DEF Disconnect
<1>2. \A m \in Message : Waits(m) => Waits(m)'
  BY <1>1 DEF Waits, Only, Log, otaVars, agentVars
<1> QED BY <1>1, <1>2, BleTypes, HostStep DEF BleInv, Sending

\* A message of an upload that has just been announced.
LEMMA SendStartStep ==
  ASSUME BleInv, SendStart
  PROVE  BleInv'
<1>1. /\ conn \in Client /\ upload < MaxUploads /\ upload' = upload + 1
      /\ stage' = "data" /\ sent' = 0 /\ UNCHANGED <<otaVars, conn, msg, wpc, opener>>
  BY BleTypes DEF SendStart
<1>2. UNCHANGED ctx BY <1>1 DEF otaVars, agentVars
<1>3. opener <= upload /\ opener # upload' BY <1>1, BleTypes DEF BleInv, Sending
<1>4. \A m \in Message : Waits(m) => Waits(m)'
  <2> SUFFICES ASSUME NEW m \in Message, Waits(m) PROVE Waits(m)' OBVIOUS
  <2>1. m.up \in Nat BY DEF Message
  <2>2. m.up <= upload' /\ m.up # upload' BY <1>1, <2>1, BleTypes DEF Waits
  <2> QED BY <1>1, <1>2, <2>2 DEF Waits, Only, Log
<1>5. CASE q' = q BY <1>1, <1>3, <1>4, <1>5, BleTypes, HostStep
<1>6. CASE q' # q
  <2>1. PICK b \in Event : /\ Len(q) < QueueLen /\ b # "DATA"
                           /\ q' = Append(q, [ev |-> b, from |-> conn, up |-> upload + 1, ch |-> NoPart])
    BY <1>6, BleConstants DEF SendStart, Post, Event
  <2>2. [ev |-> b, from |-> conn, up |-> upload + 1, ch |-> NoPart] \in Message
    BY <1>1, BleTypes DEF Message
  <2>3. PICK m \in Message : m = [ev |-> b, from |-> conn, up |-> upload + 1, ch |-> NoPart]
    BY <2>2
  <2>4. m.ev # "DATA" /\ m.up = upload' /\ m.from = conn BY <1>1, <2>1, <2>3
  <2>5. Waits(m)' BY <1>1, <1>3, <2>4, BleTypes DEF Waits
  <2>6. \A n \in Message : Waits(n) => Before(n, m)
    <3> SUFFICES ASSUME NEW n \in Message, Waits(n) PROVE Before(n, m) OBVIOUS
    <3>1. n.up \in Nat BY DEF Message
    <3>2. n.up <= m.up /\ n.up # m.up BY <1>1, <2>4, <3>1, BleTypes DEF Waits
    <3> QED BY <3>2 DEF Before
  <2>7. q' = Append(q, m) BY <2>1, <2>3
  <2> QED BY <1>1, <1>3, <1>4, <2>1, <2>5, <2>6, <2>7, BleTypes, HostStep
<1> QED BY <1>5, <1>6

\* The upload in progress goes on with message m.
LEMMA SendStep ==
  ASSUME BleInv, conn # NoClient, stage = "data", UNCHANGED <<otaVars, conn, upload, msg, wpc, opener>>,
         NEW ev \in Event \ {"START"}, NEW ch \in Chunk \cup {NoPart}, Post(ev, upload, ch),
         \/ ev = "DATA" /\ sent < ImageLen /\ sent' = sent + 1 /\ stage' = stage /\ ch = <<ImageOf[conn], sent + 1>>
         \/ ev # "DATA" /\ sent' = 0 /\ stage' = "start"
  PROVE  BleInv'
<1>1. conn \in Client /\ upload \in 1..MaxUploads BY BleTypes DEF BleInv, Sending
<1>2. UNCHANGED ctx BY DEF otaVars, agentVars
<1>3. sent' \in 0..ImageLen /\ stage' \in {"start", "data"} /\ (stage' = "data" => sent < sent')
  BY BleTypes
<1>4. \A m \in Message : Waits(m) => Waits(m)'
  <2> SUFFICES ASSUME NEW m \in Message, Waits(m) PROVE Waits(m)' OBVIOUS
  <2>1. m.ev = "DATA" => m.ch[2] \in Nat BY OtaConstants DEF Waits, Chunk
  <2> QED BY <1>2, <1>3, <2>1, BleTypes DEF Waits, Only, Log
<1>5. Len(Log) \in Nat BY ServiceConstants DEF Log, BleInv, ServiceInv, SessionsInv, AgentTypeOK, CtxRec
<1>6. upload = opener => Only(conn) /\ Len(Log) <= sent BY DEF BleInv, Sending
<1>7. (upload' = opener /\ stage' = "data" /\ conn' # NoClient) => Only(conn') /\ Len(Log) <= sent'
  BY <1>3, <1>5, <1>6, BleTypes
<1>8. CASE q' = q BY <1>1, <1>3, <1>4, <1>7, <1>8, BleTypes, HostStep
<1>9. CASE q' # q
  <2>1. [ev |-> ev, from |-> conn, up |-> upload, ch |-> ch] \in Message BY <1>1 DEF Message
  <2>2. PICK m \in Message : m = [ev |-> ev, from |-> conn, up |-> upload, ch |-> ch] BY <2>1
  <2>3. Len(q) < QueueLen /\ q' = Append(q, m) BY <1>9, <2>2 DEF Post
  <2>4. m.ev = ev /\ m.up = upload /\ m.from = conn /\ m.ch = ch BY <2>2
  <2>5. ev = "DATA" => /\ ch \in Chunk /\ ch[1] = ImageOf[conn] /\ ch[2] = sent + 1
                       /\ sent' = sent + 1 /\ sent + 1 \in 1..ImageLen
    BY <1>1, BleTypes, BleConstants DEF Chunk
  <2>6. Waits(m)'
    BY <1>2, <1>5, <1>6, <2>4, <2>5, BleTypes DEF Waits, Only, Log, BleInv, Sending
  <2>7. \A n \in Message : Waits(n) => Before(n, m)
    <3> SUFFICES ASSUME NEW n \in Message, Waits(n) PROVE Before(n, m) OBVIOUS
    <3>1. n.ev = "DATA" => n.ch[2] \in Nat BY OtaConstants DEF Waits, Chunk
    <3> QED BY <2>4, <2>5, <3>1, BleTypes DEF Before, Waits
  <2> QED BY <1>1, <1>3, <1>4, <1>7, <2>3, <2>6, <2>7, BleTypes, HostStep
<1> QED BY <1>8, <1>9

LEMMA SendingStep ==
  ASSUME BleInv, SendData \/ SendFinish \/ SendAbort
  PROVE  BleInv'
<1>1. CASE SendData
  <2>1. conn \in Client /\ sent + 1 \in 1..ImageLen BY <1>1, BleTypes DEF SendData
  <2>2. <<ImageOf[conn], sent + 1>> \in Chunk BY <2>1, BleConstants DEF Chunk
  <2>3. "DATA" \in Event \ {"START"} BY DEF Event
  <2> QED BY <1>1, <2>2, <2>3, SendStep DEF SendData
<1>2. CASE SendFinish
  <2>1. "FINISH" \in Event \ {"START"} BY DEF Event
  <2> QED BY <1>2, <2>1, SendStep DEF SendFinish
<1>3. CASE SendAbort
  <2>1. "ABORT" \in Event \ {"START"} BY DEF Event
  <2> QED BY <1>3, <2>1, SendStep DEF SendAbort
<1> QED BY <1>1, <1>2, <1>3

-----------------------------------------------------------------------------
(* What the agent's functions do to the chunks a session has accepted.      *)

\* The worker announces no size, so esp_ota_begin erases the whole partition.
LEMMA StartMirrors ==
  ASSUME NEW r, NEW d, NEW run, Pre(r, d, run), r.state = "READY", r.fw = 0, r.log = <<>>,
         NEW o \in StartResults(r, d, run), o.ret = "OK"
  PROVE  Mirrors(o.ctx, o.dev) /\ o.ctx.log = <<>>
<1> DEFINE p  == NextPart(run)
           h  == CHOOSE x \in FreeHandles(d) : TRUE
           at == [r EXCEPT !.part = p]
           d1 == Opened(d, h, p, Erase(r.fw))
           ok == [at EXCEPT !.handle = h, !.bytes = 0, !.sha = "live",
                            !.state = "RUNNING", !.log = <<>>]
<1>1. r \in CtxRec /\ d \in Dev /\ run \in Part BY DEF Pre
<1>2. p \in Part BY <1>1, OtaConstants DEF NextPart, Part
<1>3. o = Result(ok, d1, "OK") BY DEF StartResults, OneOf, Result
<1>4. o.ctx = ok /\ o.dev = d1 BY <1>3 DEF Result
<1>5. ok.part = p /\ ok.log = <<>> BY <1>1 DEF CtxRec
<1>6. Erase(r.fw) = Cap BY DEF Erase
<1>7. \A i \in 1..Cap : d1.flash[p][i] = Blank BY <1>1, <1>2, <1>6, OtaConstants DEF Opened, Dev
<1> HIDE DEF p, ok, d1
<1> QED BY <1>2, <1>4, <1>5, <1>7, OtaConstants DEF Mirrors

LEMMA BeginMirrors ==
  ASSUME ServiceInv, mutex = "free", ~busy, NEW o \in BeginResults(0)
  PROVE  o.ctx.log = <<>> /\ (o.ret = "OK" => Mirrors(o.ctx, o.dev))
<1> DEFINE z == [Zeroed EXCEPT !.fw = 0, !.check = "skip"]
<1>1. z \in CtxRec /\ z.state = "IDLE" /\ z.handle = 0 /\ z.sha = "null"
  <2>1. 0 \in 0..MaxFw BY OtaConstants
  <2> QED BY <2>1, FreshSession
<1>2. z.fw = 0 /\ z.log = <<>> BY DEF Zeroed
<1> HIDE DEF z
<1>3. Pre(z, dev, running) BY <1>1, PassiveReady DEF Pre
<1>4. PICK i \in InitResults(z, dev) :
        IF i.ret = "OK"
        THEN \E s \in StartResults(i.ctx, i.dev, running) : o = IF s.ret = "OK" THEN s ELSE TornDown(s)
        ELSE o = i
  BY DEF BeginResults, z, TornDown
<1>5. /\ Contract(z, dev, running, i) /\ i.ret # "ENDED"
      /\ i.ret = "OK" => i.ctx.state = "READY"
  BY <1>1, <1>3, InitContract, InitOutcome
<1>6. i.ctx.fw = 0 /\ i.ctx.log = <<>>
  <2> DEFINE x == [z EXCEPT !.bytes = 0, !.part = NoPart, !.handle = 0]
             y == [x EXCEPT !.sha = "heap", !.state = "READY"]
  <2>1. x.fw = 0 /\ x.log = <<>> /\ y.fw = 0 /\ y.log = <<>> BY <1>1, <1>2 DEF CtxRec
  <2>2. i = Result(y, dev, "OK") \/ i = Result(x, dev, "NO_MEM")
    BY <1>1 DEF InitResults, OneOf
  <2> HIDE DEF x, y
  <2> QED BY <2>1, <2>2 DEF Result
<1>7. CASE i.ret # "OK" BY <1>4, <1>6, <1>7
<1>8. CASE i.ret = "OK"
  <2>1. Pre(i.ctx, i.dev, running) BY <1>3, <1>5, ContractPre
  <2>2. PICK s \in StartResults(i.ctx, i.dev, running) : o = IF s.ret = "OK" THEN s ELSE TornDown(s)
    BY <1>4, <1>8
  <2>3. CASE s.ret = "OK" BY <1>5, <1>6, <1>8, <2>1, <2>2, <2>3, StartMirrors
  <2>4. CASE s.ret # "OK"
    <3>1. Contract(i.ctx, i.dev, running, s) BY <2>1, StartContract
    <3>2. IsResult(s) /\ s.ret # "ENDED" /\ s.ctx.state = "ERROR" /\ s.ctx.handle = 0
      BY <1>5, <1>8, <2>1, <2>4, StartOutcome
    <3>3. Pre(s.ctx, s.dev, running) BY <2>1, <3>1, <3>2, ContractPre
    <3>4. TornDown(s).ctx = Zeroed /\ TornDown(s).ret = s.ret BY <3>2, <3>3, TornDownOutcome
    <3> QED BY <2>2, <2>4, <3>4 DEF Zeroed
  <2> QED BY <2>3, <2>4
<1> QED BY <1>7, <1>8

\* The session is the only writer of its partition, and writes it in order.
LEMMA WriteMirrors ==
  ASSUME NEW r, NEW d, NEW run, Pre(r, d, run), r.state = "RUNNING", Mirrors(r, d),
         NEW ch \in Chunk, NEW o \in WriteResults(r, d, ch)
  PROVE  IF o.ret = "OK" THEN Mirrors(o.ctx, o.dev) /\ o.ctx.log = Append(r.log, ch)
                         ELSE o.ctx.log = r.log
<1> DEFINE ok == [r EXCEPT !.bytes = @ + 1, !.log = Append(@, ch)]
           d1 == Written(d, r.handle, ch)
           n  == Len(r.log)
<1>1. /\ r \in CtxRec /\ d \in Dev /\ r.handle \in Handle /\ r.part \in Part
      /\ d.entry[r.handle].part = r.part /\ d.entry[r.handle].off = n
  BY DEF Pre, InStep, CtxRec, Mirrors
<1>2. r.log \in Seq(Chunk) /\ n \in Nat BY <1>1 DEF CtxRec
<1>3. /\ ok.part = r.part /\ ok.log = Append(r.log, ch) /\ Failed(r).log = r.log
  BY <1>1 DEF CtxRec, Failed
<1>4. \/ o.ret # "OK" /\ o.ctx = Failed(r)
      \/ o = Result(ok, d1, "OK") /\ n # Cap
  BY <1>1 DEF WriteResults, OneOf, Result
<1>5. CASE o.ret # "OK" BY <1>3, <1>4, <1>5 DEF Result
<1>6. CASE o = Result(ok, d1, "OK") /\ n # Cap
  <2>1. n + 1 \in 1..Cap /\ d.flash[r.part][n + 1] = Blank
    BY <1>2, <1>6, OtaConstants DEF Mirrors
  <2>2. d1.flash[r.part] = [d.flash[r.part] EXCEPT ![n + 1] = ch]
    BY <1>1, <2>1 DEF Written, Dev
  <2>3. d.flash[r.part] \in [1..Cap -> Slot] BY <1>1 DEF Dev
  <2>4. /\ d1.flash[r.part][n + 1] = ch
        /\ \A i \in 1..Cap : i # n + 1 => d1.flash[r.part][i] = d.flash[r.part][i]
    BY <2>1, <2>2, <2>3
  <2>5. /\ Len(ok.log) = n + 1 /\ ok.log[n + 1] = ch
        /\ \A i \in 1..n : ok.log[i] = r.log[i]
    BY <1>2, <1>3
  <2>6. o.ctx = ok /\ o.dev = d1 /\ o.ret = "OK" BY <1>6 DEF Result
  <2> HIDE DEF ok, d1
  <2>7. \A i \in 1..Len(ok.log) : d1.flash[r.part][i] = ok.log[i]
    BY <1>2, <2>1, <2>4, <2>5, OtaConstants DEF Mirrors
  <2>8. \A i \in Len(ok.log) + 1 .. Cap : d1.flash[r.part][i] = Blank
    BY <1>2, <2>1, <2>4, <2>5, OtaConstants DEF Mirrors
  <2>9. Len(ok.log) <= Cap BY <1>2, <2>1, <2>5, OtaConstants
  <2> QED BY <1>1, <1>3, <2>6, <2>7, <2>8, <2>9 DEF Mirrors
<1> QED BY <1>4, <1>5, <1>6

\* esp_ota_end leaves the partition as it is.
LEMMA EndMirrors ==
  ASSUME NEW r, NEW d, NEW run, Pre(r, d, run), r.state = "RUNNING", Mirrors(r, d),
         NEW o \in EndResults(r, d), o.ret = "ENDED"
  PROVE  Mirrors(o.ctx, o.dev) /\ o.ctx.log = r.log
<1> DEFINE ended == [r EXCEPT !.sha = "heap", !.handle = 0]
           shut == Closed(d, r.handle)
<1>1. r \in CtxRec /\ d \in Dev /\ r.handle \in Handle BY DEF Pre, InStep, CtxRec
<1>2. o = Result(ended, shut, "ENDED") BY DEF EndResults, OneOf, Result
<1>3. o.ctx.part = r.part /\ o.ctx.log = r.log /\ o.dev.flash = d.flash
  BY <1>1, <1>2, ClosedFrame DEF Result, CtxRec
<1> QED BY <1>3 DEF Mirrors

-----------------------------------------------------------------------------
(* The worker.                                                              *)

\* A step that handles msg, or goes on with it: the session is new, is left
\* as it is, or has accepted msg's chunk.
LEMMA HandlingStep ==
  ASSUME BleInv, ServiceInv', Mirrored', UNCHANGED <<Peer, q>>, wpc # "take",
         \/ wpc' = "take" /\ msg' = NoMsg /\ mutex' # "held"
         \/ wpc' = "abort" /\ msg' = msg /\ msg.ev = "DATA" /\ mutex' # "held"
         \/ wpc' = "finishing" /\ msg' = msg /\ msg.ev = "FINISH" /\ mutex' = "held",
         \/ Log' = <<>> /\ opener' \in {opener, msg.up}
         \/ Log' = Log /\ opener' = opener
         \/ Log' = Append(Log, msg.ch) /\ opener' = opener /\ msg.ev = "DATA" /\ wpc' = "take"
  PROVE  BleInv'
<1>1. /\ UNCHANGED <<conn, upload, sent, stage, q>>
      /\ msg \in Message /\ Waits(msg) /\ \A i \in 1..Len(q) : Before(msg, q[i])
  BY DEF Peer, BleInv, WorkerShape, InLine
<1>2. Log \in Seq(Chunk) /\ Len(Log) \in Nat
  BY ServiceConstants DEF Log, BleInv, ServiceInv, SessionsInv, AgentTypeOK, CtxRec
<1>3. \E w \in Message : w = msg BY <1>1
<1>4. PICK w \in Message : w = msg BY <1>3
<1>5. /\ w.up \in 1..MaxUploads /\ w.up \in Nat /\ opener \in Nat
      /\ w.ev = "DATA" => w.ch \in Chunk /\ w.ch[2] \in 1..ImageLen /\ w.ch[2] \in Nat
  BY <1>1, <1>4, BleTypes, OtaConstants DEF Message, Waits, Chunk
<1>6. opener' \in {opener, w.up} /\ opener <= opener' /\ opener' <= w.up
  BY <1>1, <1>4, <1>5, BleTypes DEF Waits
<1>7. WorkerShape' BY <1>1 DEF WorkerShape, ServiceInv, MutexShape
<1>8. BleTypeOK' BY <1>1, <1>4, <1>5, <1>6 DEF BleInv, BleTypeOK, ServiceInv
\* What is behind msg in the queue, and msg itself if it is not done with.
<1>9. ASSUME NEW n \in Message, Waits(n),
             (n = w /\ wpc' # "take") \/ Before(w, n)
      PROVE  Waits(n)'
  <2>1. /\ n.up \in Nat /\ w.up <= n.up
        /\ n.ev = "DATA" => n.ch \in Chunk /\ n.ch[2] \in 1..ImageLen /\ n.ch[2] \in Nat
    BY <1>5, <1>9, OtaConstants DEF Message, Waits, Chunk, Before
  <2>2. opener' <= n.up BY <1>5, <1>6, <2>1
  <2>3. CASE Log' = <<>>
    BY <1>1, <1>9, <2>1, <2>2, <2>3, OtaConstants DEF Waits, Only
  <2>4. CASE Log' = Log /\ opener' = opener
    BY <1>1, <1>9, <2>4 DEF Waits, Only
  <2>5. CASE Log' = Append(Log, w.ch) /\ opener' = opener /\ w.ev = "DATA" /\ wpc' = "take"
    <3>1. Len(Log') = Len(Log) + 1 /\ \A i \in 1..Len(Log') : Log'[i] = IF i <= Len(Log) THEN Log[i] ELSE w.ch
      BY <1>2, <1>5, <2>5
    <3>2. CASE n.up # opener BY <1>1, <1>9, <2>5, <3>2 DEF Waits
    <3>3. CASE n.up = opener
      <4>1. w.up = opener BY <1>5, <1>6, <2>1, <2>5, <3>3
      <4>2. /\ n.from = w.from /\ Only(w.from) /\ w.ch[1] = ImageOf[w.from] /\ Len(Log) < w.ch[2]
            /\ n.ev = "DATA" => w.ch[2] < n.ch[2]
        BY <1>1, <1>4, <1>9, <2>5, <3>3, <4>1 DEF Waits, Before
      <4>3. \A i \in 1..Len(Log') : Log'[i][1] = ImageOf[n.from]
        BY <1>2, <3>1, <4>2 DEF Only
      <4>4. Len(Log') <= ImageLen /\ (n.ev = "DATA" => Len(Log') < n.ch[2])
        BY <1>2, <1>5, <2>1, <2>5, <3>1, <4>2, OtaConstants
      <4> QED BY <1>1, <1>9, <2>5, <4>3, <4>4 DEF Waits, Only
    <3> QED BY <3>2, <3>3
  <2> QED BY <1>4, <2>3, <2>4, <2>5
<1>10. InLine'
  <2>1. \A i \in 1..Len(q') : Waits(q[i])'
    <3> SUFFICES ASSUME NEW i \in 1..Len(q'), NEW n, n = q'[i] PROVE Waits(n)'
      BY DEF Waits, Only, Log
    <3> QED BY <1>1, <1>4, <1>9, BleTypes DEF BleInv, InLine
  <2>2. wpc' # "take" => Waits(msg)'
    <3> SUFFICES ASSUME wpc' # "take", NEW n, n = msg' PROVE Waits(n)'
      BY DEF Waits, Only, Log
    <3> QED BY <1>1, <1>4, <1>9
  <2> QED BY <1>1, <2>1, <2>2 DEF BleInv, InLine, Before
<1>11. Sending'
  <2>1. opener' <= upload BY <1>1, <1>4, <1>5, <1>6, BleTypes DEF Waits
  <2>2. ASSUME upload = opener', stage = "data", conn # NoClient
        PROVE  Only(conn)' /\ Len(Log') <= sent
    <3>1. w.up = upload /\ w.from = conn /\ (w.ev = "DATA" => w.ch[2] <= sent)
      BY <1>1, <1>4, <1>5, <1>6, <2>2, BleTypes DEF Waits
    <3>2. CASE Log' = <<>> BY <3>2, BleTypes DEF Only
    <3>3. CASE Log' = Log /\ opener' = opener BY <1>1, <2>2, <3>3 DEF BleInv, Sending, Only
    <3>4. CASE Log' = Append(Log, w.ch) /\ opener' = opener /\ w.ev = "DATA"
      <4>1. Len(Log') = Len(Log) + 1 /\ \A i \in 1..Len(Log') : Log'[i] = IF i <= Len(Log) THEN Log[i] ELSE w.ch
        BY <1>2, <1>5, <3>4
      <4>2. Only(conn) /\ w.ch[1] = ImageOf[conn] /\ Len(Log) < w.ch[2]
        BY <1>1, <1>4, <2>2, <3>1, <3>4 DEF Waits
      <4>3. \A i \in 1..Len(Log') : Log'[i][1] = ImageOf[conn] BY <1>2, <4>1, <4>2 DEF Only
      <4> QED BY <1>1, <1>2, <1>5, <3>1, <3>4, <4>1, <4>2, <4>3, BleTypes DEF Only
    <3> QED BY <1>4, <3>2, <3>3, <3>4
  <2> QED BY <1>1, <2>1, <2>2 DEF BleInv, Sending
<1> QED BY <1>7, <1>8, <1>10, <1>11 DEF BleInv

LEMMA TakeStep ==
  ASSUME BleInv, WorkerTake
  PROVE  BleInv'
<1>1. /\ wpc = "take" /\ wpc' = "handle" /\ q # <<>> /\ msg' = Head(q) /\ q' = Tail(q)
      /\ UNCHANGED <<otaVars, conn, upload, sent, stage, opener>>
  BY DEF WorkerTake, Peer
<1>2. UNCHANGED ctx /\ UNCHANGED dev /\ UNCHANGED ending BY <1>1 DEF otaVars, agentVars
<1>3. ServiceInv' BY <1>1, ServiceStutter DEF BleInv
<1>4. /\ q[1] \in Message /\ msg' = q[1] /\ 1 \in 1..Len(q)
      /\ q' \in Seq(Message) /\ Len(q') = Len(q) - 1
      /\ \A i \in 1..Len(q') : q'[i] = q[i + 1] /\ i + 1 \in 1..Len(q)
  BY <1>1, BleTypes, AfterTake
<1>5. WorkerShape' /\ Mirrored' /\ Sending'
  BY <1>1, <1>2, <1>4 DEF BleInv, WorkerShape, Mirrored, Mirrors, Sending, Only, Log
<1>6. BleTypeOK' BY <1>1, <1>3, <1>4, BleTypes, BleConstants DEF BleInv, BleTypeOK, ServiceInv
<1>7. ASSUME NEW n, Waits(n) PROVE Waits(n)'
  BY <1>1, <1>2, <1>7 DEF Waits, Only, Log
<1>8. InLine'
  <2>1. \A i \in 1..Len(q') : Waits(q[i])'
    <3> SUFFICES ASSUME NEW i \in 1..Len(q'), NEW n, n = q'[i] PROVE Waits(n)'
      BY DEF Waits, Only, Log
    <3> QED BY <1>4, <1>7 DEF BleInv, InLine
  <2>2. Waits(msg)'
    <3> SUFFICES ASSUME NEW n, n = msg' PROVE Waits(n)' BY DEF Waits, Only, Log
    <3> QED BY <1>4, <1>7 DEF BleInv, InLine
  <2>3. \A i, j \in 1..Len(q') : i < j => Before(q'[i], q'[j])
    <3> SUFFICES ASSUME NEW i \in 1..Len(q'), NEW j \in 1..Len(q'), i < j
                 PROVE  Before(q[i + 1], q[j + 1])
      BY <1>4
    <3>1. i + 1 < j + 1 /\ i + 1 \in 1..Len(q) /\ j + 1 \in 1..Len(q) BY <1>4
    <3> QED BY <3>1 DEF BleInv, InLine
  <2>4. \A i \in 1..Len(q') : Before(msg', q'[i])
    <3> SUFFICES ASSUME NEW i \in 1..Len(q') PROVE Before(q[1], q[i + 1]) BY <1>4
    <3>1. 1 < i + 1 /\ i + 1 \in 1..Len(q) BY <1>4
    <3> QED BY <1>4, <3>1 DEF BleInv, InLine
  <2> QED BY <2>1, <2>2, <2>3, <2>4 DEF InLine, Before
<1> QED BY <1>3, <1>5, <1>6, <1>8 DEF BleInv

\* A call the service refuses leaves the session as it is.
LEMMA SameSession ==
  ASSUME BleInv, UNCHANGED agentVars
  PROVE  Log' = Log /\ Mirrored'
  BY DEF BleInv, Mirrored, Mirrors, Log, agentVars

\* A session that was torn down has accepted nothing.
LEMMA NoSession ==
  ASSUME BleInv, ctx' = [ctx EXCEPT ![Passive] = Zeroed]
  PROVE  Log' = <<>> /\ Mirrored'
<1>1. ctx'[Passive] = Zeroed
  BY ServiceConstants DEF BleInv, ServiceInv, SessionsInv, AgentTypeOK
<1> QED BY <1>1 DEF Mirrored, Log, Zeroed

\* A call after which the session is still RUNNING, or failed but is kept.
LEMMA OtherSession ==
  ASSUME BleInv, NEW o, Become(Passive, o), o.ctx.state = "RUNNING" => Mirrors(o.ctx, o.dev)
  PROVE  Log' = o.ctx.log /\ Mirrored'
<1>1. ctx'[Passive] = o.ctx /\ dev' = o.dev
  BY ServiceConstants DEF Become, BleInv, ServiceInv, SessionsInv, AgentTypeOK
<1> QED BY <1>1 DEF Mirrored, Mirrors, Log

LEMMA StartMessageStep ==
  ASSUME BleInv, WorkerStart
  PROVE  BleInv'
<1>1. /\ wpc = "handle" /\ Begin(0) /\ wpc' = "take" /\ msg' = NoMsg
      /\ opener' = (IF ret' = "OK" THEN msg.up ELSE opener)
      /\ UNCHANGED <<Peer, q>> /\ mutex # "held"
  BY DEF WorkerStart, Handled, Begin
<1>2. ServiceInv'
  <2>1. 0 \in 0..MaxFw BY OtaConstants
  <2> QED BY <1>1, <2>1, BeginStep DEF BleInv
<1>3. CASE Refuse
  <2>1. UNCHANGED agentVars /\ ret' = "ERR" /\ mutex' = mutex BY <1>3 DEF Refuse
  <2> QED BY <1>1, <1>2, <2>1, SameSession, HandlingStep
<1>4. CASE mutex = "free" /\ ~busy /\ ~Refuse
  <2>1. PICK o \in BeginResults(0) : Become(Passive, o) /\ mutex' = mutex
    BY <1>1, <1>4 DEF Begin
  <2>2. o.ctx.log = <<>> /\ (o.ret = "OK" => Mirrors(o.ctx, o.dev))
    BY <1>4, BeginMirrors DEF BleInv
  <2>3. o.ret # "OK" => o.ctx.state = "IDLE"
    <3>1. 0 \in 0..MaxFw BY OtaConstants
    <3> QED BY <1>4, <3>1, BeginOutcome DEF BleInv
  <2>4. Log' = <<>> /\ Mirrored' BY <2>1, <2>2, <2>3, OtherSession
  <2> QED BY <1>1, <1>2, <2>1, <2>4, HandlingStep
<1> QED BY <1>1, <1>3, <1>4 DEF Begin

LEMMA DataMessageStep ==
  ASSUME BleInv, WorkerData
  PROVE  BleInv'
<1>1. /\ wpc = "handle" /\ msg.ev = "DATA" /\ ServiceWrite(msg.ch) /\ mutex # "held"
      /\ IF ret' = "OK" THEN wpc' = "take" /\ msg' = NoMsg ELSE wpc' = "abort" /\ msg' = msg
      /\ UNCHANGED <<Peer, q, opener>>
  BY DEF WorkerData, Handled, ServiceWrite
<1>2. msg.ch \in Chunk BY <1>1 DEF BleInv, InLine, Waits
<1>3. ServiceInv'
  <2>1. \E ch \in Chunk : ch = msg.ch BY <1>2
  <2>2. PICK ch \in Chunk : ch = msg.ch BY <2>1
  <2> QED BY <1>1, <2>2, WriteStep DEF BleInv
<1>4. CASE Refuse
  <2>1. UNCHANGED agentVars /\ mutex' = mutex BY <1>4 DEF Refuse
  <2> QED BY <1>1, <1>3, <2>1, SameSession, HandlingStep
<1>5. CASE mutex = "free" /\ ~NotRunning /\ ~Refuse
  <2>1. PICK o \in WriteResults(ctx[Passive], dev, msg.ch) :
          Become(Passive, o) /\ ret' = Ret(o.ret) /\ mutex' = mutex
    BY <1>1, <1>5 DEF ServiceWrite
  <2>2. ctx[Passive].state = "RUNNING" BY <1>5 DEF NotRunning
  <2>3. Pre(ctx[Passive], dev, running) BY <1>5, PassiveReady DEF BleInv
  <2>4. Mirrors(ctx[Passive], dev) BY <2>2 DEF BleInv, Mirrored
  <2>5. IF o.ret = "OK" THEN Mirrors(o.ctx, o.dev) /\ o.ctx.log = Append(Log, msg.ch)
                        ELSE o.ctx.log = Log
    BY <1>2, <2>1, <2>2, <2>3, <2>4, WriteMirrors DEF Log
  <2>6. o.ret # "OK" => o.ctx.state = "ERROR" BY <1>2, <2>1, <2>2, <2>3, WriteOutcome
  <2>7. Log' = o.ctx.log /\ Mirrored' BY <2>1, <2>5, <2>6, OtherSession
  <2>8. ret' = "OK" <=> o.ret = "OK" BY <2>1 DEF Ret
  <2> QED BY <1>1, <1>3, <1>5, <2>1, <2>5, <2>7, <2>8, HandlingStep
<1> QED BY <1>1, <1>4, <1>5 DEF ServiceWrite

LEMMA FinishMessageStep ==
  ASSUME BleInv, WorkerFinish
  PROVE  BleInv'
<1>1. /\ wpc = "handle" /\ msg.ev = "FINISH" /\ ServiceFinish /\ mutex # "held"
      /\ IF mutex' = "held" THEN wpc' = "finishing" /\ msg' = msg ELSE wpc' = "take" /\ msg' = NoMsg
      /\ UNCHANGED <<Peer, q, opener>>
  BY DEF WorkerFinish, Handled, ServiceFinish
<1>2. ServiceInv' BY <1>1, FinishStep DEF BleInv
<1>3. CASE Refuse
  <2>1. UNCHANGED agentVars /\ mutex' = mutex BY <1>3 DEF Refuse
  <2> QED BY <1>1, <1>2, <2>1, SameSession, HandlingStep
<1>4. CASE mutex = "free" /\ ~NotRunning /\ ~Refuse
  <2>1. PICK o \in EndResults(ctx[Passive], dev) :
             IF o.ret = "ENDED"
             THEN Become(Passive, o) /\ mutex' = "held"
             ELSE Become(Passive, TornDown(o)) /\ mutex' = mutex
    BY <1>1, <1>4 DEF ServiceFinish, TornDown
  <2>2. ctx[Passive].state = "RUNNING" BY <1>4 DEF NotRunning
  <2>3. Pre(ctx[Passive], dev, running) BY <1>4, PassiveReady DEF BleInv
  <2>4. Mirrors(ctx[Passive], dev) BY <2>2 DEF BleInv, Mirrored
  <2>5. CASE o.ret = "ENDED"
    <3>1. Mirrors(o.ctx, o.dev) /\ o.ctx.log = Log BY <2>2, <2>3, <2>4, <2>5, EndMirrors DEF Log
    <3>2. Log' = Log /\ Mirrored' BY <2>1, <2>5, <3>1, OtherSession
    <3> QED BY <1>1, <1>2, <2>1, <2>5, <3>2, HandlingStep
  <2>6. CASE o.ret # "ENDED"
    <3>1. Contract(ctx[Passive], dev, running, o) BY <2>3, EndContract
    <3>2. IsResult(o) /\ o.ctx.handle = 0 /\ o.ctx.state = "ERROR" BY <2>2, <2>3, <2>6, EndOutcome
    <3>3. Pre(o.ctx, o.dev, running) BY <2>3, <2>6, <3>1, ContractPre
    <3>4. TornDown(o).ctx = Zeroed BY <3>2, <3>3, TornDownOutcome
    <3>5. Log' = <<>> /\ Mirrored' BY <2>1, <2>6, <3>4, NoSession DEF Become
    <3> QED BY <1>1, <1>2, <1>4, <2>1, <2>6, <3>5, HandlingStep
  <2> QED BY <2>5, <2>6
<1> QED BY <1>1, <1>3, <1>4 DEF ServiceFinish

\* Inside ota_agent_finish the session is what esp_ota_end accepted.
LEMMA FinishingSession ==
  ASSUME BleInv, WorkerFinishBoot
  PROVE  /\ Passive \in ending /\ ctx[Passive] \in CtxRec /\ dev \in Dev /\ running \in Part
         /\ ctx[Passive].handle = 0 /\ ctx[Passive].part \in Part /\ ctx[Passive].state = "RUNNING"
         /\ \A h \in Handle : dev.entry[h].used => dev.entry[h].part # running
         /\ Mirrors(ctx[Passive], dev) /\ msg \in Message /\ msg.ev = "FINISH" /\ Waits(msg)
<1>1. Passive \in ending /\ wpc = "finishing" BY DEF WorkerFinishBoot, ServiceFinishBoot
<1>2. msg \in Message /\ msg.ev = "FINISH" /\ Waits(msg)
  BY <1>1 DEF BleInv, WorkerShape, InLine
<1> QED
  BY <1>1, <1>2, ServiceConstants
     DEF BleInv, ServiceInv, SessionsInv, AgentTypeOK, EndingShape, RunningClosed, Mirrored

LEMMA FinishBootMessageStep ==
  ASSUME BleInv, WorkerFinishBoot
  PROVE  BleInv'
<1>1. /\ wpc = "finishing" /\ ServiceFinishBoot /\ wpc' = "take" /\ msg' = NoMsg
      /\ UNCHANGED <<Peer, q, opener>> /\ mutex' # "held"
  BY DEF WorkerFinishBoot, Handled, ServiceFinishBoot
<1>2. ServiceInv' BY <1>1, FinishBootStep DEF BleInv
<1>3. PICK o \in BootResults(ctx[Passive], dev) : Become(Passive, TornDown(o))
  BY <1>1 DEF ServiceFinishBoot, TornDown
<1>4. Contract(ctx[Passive], dev, running, o) BY FinishingSession, BootContract
<1>5. /\ IsResult(o) /\ o.ctx.handle = 0 /\ o.ctx.state \in {"DONE", "ERROR"} /\ o.ret # "ENDED"
  BY FinishingSession, BootOutcome
<1>6. Pre(o.ctx, o.dev, running) BY <1>4, <1>5, FinishingSession DEF Contract, Pre
<1>7. TornDown(o).ctx = Zeroed BY <1>5, <1>6, TornDownOutcome
<1>8. Log' = <<>> /\ Mirrored' BY <1>3, <1>7, NoSession DEF Become
<1> QED BY <1>1, <1>2, <1>8, HandlingStep

LEMMA AbortMessageStep ==
  ASSUME BleInv, WorkerAbort
  PROVE  BleInv'
<1>1. /\ wpc # "take" /\ ServiceAbort /\ wpc' = "take" /\ msg' = NoMsg
      /\ UNCHANGED <<Peer, q, opener>> /\ mutex # "held" /\ mutex' = mutex
  BY DEF WorkerAbort, Handled, ServiceAbort, Refuse
<1>2. ServiceInv' BY <1>1, AbortStep DEF BleInv
<1>3. CASE UNCHANGED agentVars BY <1>1, <1>2, <1>3, SameSession, HandlingStep
<1>4. CASE mutex = "free" /\ busy /\ ~UNCHANGED agentVars
  <2> DEFINE o == Aborted(ctx[Passive], dev)
  <2>1. Become(Passive, TornDown(o)) BY <1>1, <1>4 DEF ServiceAbort, TornDown, Refuse
  <2>2. ctx[Passive].state \in {"RUNNING", "ERROR"}
    BY <1>4 DEF BleInv, ServiceInv, BusyMatchesSession
  <2>3. Pre(ctx[Passive], dev, running) BY <1>4, PassiveReady DEF BleInv
  <2>4. Contract(ctx[Passive], dev, running, o) BY <2>3, AbortContract
  <2>5. /\ IsResult(o) /\ o.ctx.handle = 0 /\ o.ctx.state # "RUNNING" /\ o.ret # "ENDED"
    BY <2>2, <2>3, AbortOutcome
  <2>6. Pre(o.ctx, o.dev, running) BY <2>3, <2>4, <2>5, ContractPre
  <2> HIDE DEF o
  <2>7. TornDown(o).ctx = Zeroed BY <2>5, <2>6, TornDownOutcome
  <2>8. Log' = <<>> /\ Mirrored' BY <2>1, <2>7, NoSession DEF Become
  <2> QED BY <1>1, <1>2, <1>4, <2>8, HandlingStep
<1> QED BY <1>1, <1>3, <1>4 DEF ServiceAbort, Refuse

-----------------------------------------------------------------------------
(* Start-up and restart.                                                    *)

LEMMA BootStep ==
  ASSUME BleInv, Boot
  PROVE  BleInv'
<1>1. mutex = "null" /\ ServiceInit /\ UNCHANGED agentVars
      /\ UNCHANGED <<conn, upload, sent, stage, q, msg, wpc, opener>>
  BY DEF Boot, bleVars, ServiceInit
<1>2. ServiceInv' BY <1>1, ServiceInitStep DEF BleInv
<1>3. BleTypeOK' BY <1>1, <1>2 DEF BleInv, BleTypeOK, ServiceInv
<1>4. (WorkerShape /\ Mirrored /\ InLine /\ Sending)'
  BY <1>1, BleTypes DEF BleInv, WorkerShape, Mirrored, Mirrors, InLine, Waits, Before, Sending, Only, Log,
         agentVars
<1> QED BY <1>2, <1>3, <1>4 DEF BleInv

\* No session, no message, no client: a device that has just started.
QuietLink ==
  /\ \A c \in Ctx : ctx[c] = Zeroed
  /\ ending = {} /\ upload \in 0..MaxUploads
  /\ conn = NoClient /\ sent = 0 /\ stage = "start"
  /\ q = <<>> /\ msg = NoMsg /\ wpc = "take" /\ opener = 0

LEMMA QuietLinkInv == ServiceInv /\ QuietLink => BleInv
<1> SUFFICES ASSUME ServiceInv, QuietLink PROVE BleInv OBVIOUS
<1> USE DEF QuietLink
<1>1. q \in Seq(Message) /\ Len(q) = 0 /\ 1..0 = {} OBVIOUS
<1>2. BleTypeOK BY <1>1, OtaConstants, BleConstants DEF BleTypeOK, ServiceInv
<1>3. ctx[Passive] = Zeroed BY ServiceConstants
<1>4. WorkerShape /\ Mirrored BY <1>3 DEF WorkerShape, Mirrored, Zeroed
<1>5. InLine BY <1>1 DEF InLine
<1>6. Sending BY BleConstants DEF Sending
<1> QED BY <1>2, <1>4, <1>5, <1>6 DEF BleInv

LEMMA QuietLinkInvNext == ServiceInv' /\ QuietLink' => BleInv'
  BY QuietLinkInv, PTL

LEMMA RebootStep ==
  ASSUME BleInv, Reboot
  PROVE  BleInv'
<1>1. Restart /\ upload' = upload /\ conn' = NoClient /\ sent' = 0 /\ stage' = "start"
      /\ q' = <<>> /\ msg' = NoMsg /\ wpc' = "take" /\ opener' = 0
  BY DEF Reboot, PowerCycle
<1>2. ServiceInv' BY <1>1, RestartStep DEF BleInv
<1>3. (\A c \in Ctx : ctx'[c] = Zeroed) /\ ending' = {} BY <1>1 DEF Restart
<1>4. upload' \in 0..MaxUploads BY <1>1 DEF BleInv, BleTypeOK
<1> QED BY <1>1, <1>2, <1>3, <1>4, QuietLinkInvNext DEF QuietLink

LEMMA BleInvInit == BleInit => BleInv
<1> SUFFICES ASSUME BleInit PROVE BleInv OBVIOUS
<1>1. ServiceInv BY ServiceInvInit DEF BleInit
<1>2. (\A c \in Ctx : ctx[c] = Zeroed) /\ ending = {} BY DEF BleInit, OtaInit, AgentInit
<1>3. upload \in 0..MaxUploads BY BleConstants DEF BleInit, BleStart
<1> QED BY <1>1, <1>2, <1>3, QuietLinkInv DEF QuietLink, BleInit, BleStart

LEMMA BleStutter ==
  ASSUME BleInv, UNCHANGED bleOtaVars
  PROVE  BleInv'
<1>1. ServiceInv' BY ServiceStutter DEF BleInv, bleOtaVars
<1>2. BleTypeOK' BY <1>1 DEF BleInv, BleTypeOK, ServiceInv, bleOtaVars, bleVars
<1>3. (WorkerShape /\ Mirrored /\ InLine /\ Sending)'
  BY BleTypes DEF BleInv, WorkerShape, Mirrored, Mirrors, InLine, Waits, Before, Sending, Only, Log,
         bleOtaVars, bleVars, otaVars, agentVars
<1> QED BY <1>1, <1>2, <1>3 DEF BleInv

LEMMA BleStep == BleInv /\ [BleNext]_bleOtaVars => BleInv'
<1> SUFFICES ASSUME BleInv, [BleNext]_bleOtaVars PROVE BleInv' OBVIOUS
<1>1. ASSUME NEW cl \in Client, Connect(cl) PROVE BleInv' BY <1>1, ConnectStep
<1>2. CASE Disconnect BY <1>2, DisconnectStep
<1>3. CASE SendStart BY <1>3, SendStartStep
<1>4. CASE SendData \/ SendFinish \/ SendAbort BY <1>4, SendingStep
<1>5. CASE WorkerTake BY <1>5, TakeStep
<1>6. CASE WorkerStart BY <1>6, StartMessageStep
<1>7. CASE WorkerData BY <1>7, DataMessageStep
<1>8. CASE WorkerFinish BY <1>8, FinishMessageStep
<1>9. CASE WorkerFinishBoot BY <1>9, FinishBootMessageStep
<1>10. CASE WorkerAbort BY <1>10, AbortMessageStep
<1>11. CASE Boot BY <1>11, BootStep
<1>12. CASE Reboot BY <1>12, RebootStep
<1>13. CASE UNCHANGED bleOtaVars BY <1>13, BleStutter
<1> QED
  BY <1>1, <1>2, <1>3, <1>4, <1>5, <1>6, <1>7, <1>8, <1>9, <1>10, <1>11, <1>12, <1>13
     DEF BleNext, Worker

-----------------------------------------------------------------------------
(* The theorems.                                                            *)

\* BleInv is an inductive invariant of the BLE update.
THEOREM BleInvariant == BleSpec => []BleInv
  BY BleInvInit, BleStep, PTL DEF BleSpec

\* What the session has accepted is what flash holds, chunk for chunk and in
\* order, whatever clients come and go and whatever the queue drops.
THEOREM FlashIsWhatArrived == BleSpec => []FlashMirrorsSession
<1>1. BleInv => FlashMirrorsSession
  BY DEF BleInv, Mirrored, Mirrors, FlashMirrorsSession
<1> QED BY <1>1, BleInvariant, PTL

\* A session that esp_ota_end accepted, and that only took chunks of one
\* image, no more than there are, has taken all of them.
LEMMA WholeUpload ==
  ASSUME BleInv, WorkerFinishBoot, Bootable(dev.flash[ctx[Passive].part]), msg.up = opener
  PROVE  /\ Log = ImageSeq(ImageOf[msg.from])
         /\ Holds(dev.flash[ctx[Passive].part], ImageOf[msg.from])
<1> DEFINE part == ctx[Passive].part
           im   == ImageOf[msg.from]
<1>1. /\ Only(msg.from) /\ Len(Log) <= ImageLen /\ Mirrors(ctx[Passive], dev)
      /\ Log \in Seq(Chunk) /\ Len(Log) \in Nat
  BY FinishingSession DEF Waits, CtxRec, Log
<1>2. PICK x \in Image : Holds(dev.flash[part], x) BY DEF Bootable
<1>3. /\ \A i \in 1..ImageLen : dev.flash[part][i] = <<x, i>>
      /\ \A i \in 1..Len(Log) : dev.flash[part][i] = Log[i]
  BY <1>1, <1>2 DEF Holds, Mirrors, Log
<1>4. Len(Log) = ImageLen
  <2> SUFFICES ASSUME Len(Log) # ImageLen PROVE FALSE OBVIOUS
  <2>1. ImageLen \in Len(Log) + 1 .. Cap /\ ImageLen \in 1..ImageLen BY <1>1, OtaConstants
  <2>2. dev.flash[part][ImageLen] = Blank BY <1>1, <2>1 DEF Mirrors, Log
  <2>3. <<x, ImageLen>> \in Chunk BY <2>1 DEF Chunk
  <2> QED BY <1>3, <2>1, <2>2, <2>3, OtaConstants
<1>5. x = im
  <2>1. 1 \in 1..ImageLen BY OtaConstants
  <2>2. Log[1] = <<x, 1>> BY <1>3, <1>4, <2>1
  <2>3. Log[1][1] = im BY <1>1, <1>4, <2>1 DEF Only
  <2> QED BY <2>2, <2>3
<1>6. \A i \in 1..ImageLen : Log[i] = <<im, i>> BY <1>3, <1>4, <1>5
<1>7. Log = ImageSeq(im)
  <2>1. Log = [i \in 1..Len(Log) |-> Log[i]] BY <1>1
  <2>2. ImageSeq(im) = [i \in 1..ImageLen |-> <<im, i>>] BY DEF ImageSeq
  <2> QED BY <1>4, <1>6, <2>1, <2>2
<1> QED BY <1>2, <1>5, <1>7

LEMMA InstallStep ==
  ASSUME BleInv, WorkerFinishBoot, Installs, msg.up = opener
  PROVE  /\ Log = ImageSeq(ImageOf[msg.from])
         /\ Holds(dev'.flash[dev'.boot], ImageOf[msg.from])
<1>1. PICK o \in BootResults(ctx[Passive], dev) : dev' = o.dev /\ ret' = Ret(o.ret)
  BY DEF WorkerFinishBoot, ServiceFinishBoot, Become
<1>2. o.ret = "OK" BY <1>1 DEF Installs, Ret
<1>3. /\ Bootable(dev.flash[ctx[Passive].part])
      /\ o.dev = [dev EXCEPT !.boot = ctx[Passive].part]
  BY <1>2 DEF BootResults, OneOf, Result
<1>4. dev'.flash = dev.flash /\ dev'.boot = ctx[Passive].part
  BY <1>1, <1>3, FinishingSession DEF Dev
<1> QED BY <1>3, <1>4, WholeUpload

\* When the FINISH that installs an image belongs to the upload whose START
\* opened the session, the image is that client's, every chunk of it: drops,
\* reconnections and refused STARTs never mix two uploads.
THEOREM InstalledIsWhatOpened == BleSpec => InstallsWhatOpened
<1> DEFINE A == (Installs /\ msg.up = opener) =>
                  /\ ctx[Passive].log = ImageSeq(ImageOf[msg.from])
                  /\ Holds(dev'.flash[dev'.boot], ImageOf[msg.from])
<1>1. BleInv /\ [BleNext]_bleOtaVars => [A]_bleOtaVars
  <2> SUFFICES ASSUME BleInv, BleNext, Installs, msg.up = opener PROVE A OBVIOUS
  <2>1. WorkerFinishBoot
    BY DEF Installs, BleNext, Connect, Disconnect, SendStart, SendData, SendFinish, SendAbort, Worker,
           WorkerTake, WorkerStart, WorkerData, WorkerFinish, WorkerAbort, Boot, bleVars,
           Reboot, PowerCycle, Restart
  <2> QED BY <2>1, InstallStep DEF Log
<1> HIDE DEF A
<1>2. BleSpec => [][A]_bleOtaVars BY <1>1, BleInvariant, PTL DEF BleSpec
<1> QED BY <1>2 DEF InstallsWhatOpened, A
=============================================================================
