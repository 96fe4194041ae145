------------------------------- MODULE BleOta -------------------------------
(***************************************************************************)
(* Firmware over BLE: the GATT writes of the OTA profile (ota_profile.c),  *)
(* the queue ota_profile_callback fills without waiting, and the worker    *)
(* task that empties it into the OTA service (ble_manager.c).              *)
(*                                                                         *)
(* The service is OtaService's; no HTTP download runs here.  A client sends*)
(* an upload: a start command, the chunks of its image, a finish command;  *)
(* it may abort, and the link may drop between any two writes.             *)
(***************************************************************************)
EXTENDS OtaService

CONSTANTS
  Client,      \* BLE peers
  NoClient,    \* s_active_conn_handle = 0xFFFF
  ImageOf,     \* the image each client uploads
  QueueLen,    \* slots of s_ble_ota_queue (30)
  StartBytes,  \* first bytes a client's start command can carry
  MaxUploads   \* uploads a behaviour can contain (bound)

ASSUME BleConstants ==
  /\ NoClient \notin Client
  /\ ImageOf \in [Client -> Image]
  /\ QueueLen \in Nat \ {0}
  /\ StartBytes \subseteq {"START", "FINISH", "ABORT", "other"}
  /\ MaxUploads \in Nat

VARIABLES
  conn,     \* the connected client
  upload,   \* number of the upload in progress, 0 before the first
  sent,     \* chunks of it sent so far
  stage,    \* what the client sends next: "start", "data"
  q,        \* s_ble_ota_queue
  msg,      \* the message the worker has received, or NoMsg
  wpc,      \* the worker: "take", "handle", "abort", "finishing"
  opener    \* history: the upload whose START opened the running session

bleVars == <<conn, upload, sent, stage, q, msg, wpc, opener>>
bleOtaVars == <<otaVars, bleVars>>

Event == {"START", "DATA", "FINISH", "ABORT"}
Message == [ev: Event, from: Client, up: 1..MaxUploads, ch: Chunk \cup {NoPart}]
NoMsg == <<>>

BleTypeOK ==
  /\ ServiceTypeOK
  /\ conn \in Client \cup {NoClient}
  /\ upload \in 0..MaxUploads /\ sent \in 0..ImageLen
  /\ stage \in {"start", "data"}
  /\ q \in Seq(Message) /\ Len(q) <= QueueLen
  /\ msg \in Message \cup {NoMsg}
  /\ wpc \in {"take", "handle", "abort", "finishing"}
  /\ opener \in 0..MaxUploads

BleStart ==
  /\ conn = NoClient /\ upload = 0 /\ sent = 0 /\ stage = "start"
  /\ q = <<>> /\ msg = NoMsg /\ wpc = "take"
  /\ opener = 0

BleInit == OtaInit /\ BleStart

-----------------------------------------------------------------------------
(* The BLE host task: connections and GATT writes.                         *)

Connect(cl) ==
  /\ conn = NoClient
  /\ conn' = cl /\ stage' = "start" /\ sent' = 0
  /\ UNCHANGED <<otaVars, upload, q, msg, wpc, opener>>

\* A disconnect clears the handle and advertises again; the session stays.
Disconnect ==
  /\ conn # NoClient
  /\ conn' = NoClient
  /\ UNCHANGED <<otaVars, upload, sent, stage, q, msg, wpc, opener>>

\* ota_profile_callback: xQueueSend with no timeout; a packet that finds
\* the queue full is dropped.
Post(ev, up, ch) ==
  IF Len(q) < QueueLen
  THEN q' = Append(q, [ev |-> ev, from |-> conn, up |-> up, ch |-> ch])
  ELSE UNCHANGED q

\* handle_ota_ctrl_write takes the first byte of the write as the command.
SendStart ==
  /\ conn # NoClient /\ stage = "start" /\ upload < MaxUploads
  /\ upload' = upload + 1 /\ stage' = "data" /\ sent' = 0
  /\ \E b \in StartBytes :
       IF b = "other" THEN UNCHANGED q ELSE Post(b, upload + 1, NoPart)
  /\ UNCHANGED <<otaVars, conn, msg, wpc, opener>>

SendData ==
  /\ conn # NoClient /\ stage = "data" /\ sent < ImageLen
  /\ sent' = sent + 1
  /\ Post("DATA", upload, <<ImageOf[conn], sent + 1>>)
  /\ UNCHANGED <<otaVars, conn, upload, stage, msg, wpc, opener>>

SendFinish ==
  /\ conn # NoClient /\ stage = "data" /\ sent = ImageLen
  /\ stage' = "start" /\ sent' = 0
  /\ Post("FINISH", upload, NoPart)
  /\ UNCHANGED <<otaVars, conn, upload, msg, wpc, opener>>

SendAbort ==
  /\ conn # NoClient /\ stage = "data"
  /\ stage' = "start" /\ sent' = 0
  /\ Post("ABORT", upload, NoPart)
  /\ UNCHANGED <<otaVars, conn, upload, msg, wpc, opener>>

-----------------------------------------------------------------------------
(* ble_ota_worker_task                                                     *)

Peer == <<conn, upload, sent, stage>>

WorkerTake ==
  /\ wpc = "take" /\ q # <<>>
  /\ msg' = Head(q) /\ q' = Tail(q) /\ wpc' = "handle"
  /\ UNCHANGED <<otaVars, Peer, opener>>

Handled == wpc' = "take" /\ msg' = NoMsg

WorkerStart ==
  /\ wpc = "handle" /\ msg.ev = "START"
  /\ Begin(0) /\ Handled
  /\ opener' = IF ret' = "OK" THEN msg.up ELSE opener
  /\ UNCHANGED <<Peer, q>>

\* Faulty: the worker tries a failed write again.
WorkerDataRetries ==
  /\ wpc = "handle" /\ msg.ev = "DATA"
  /\ ServiceWrite(msg.ch)
  /\ IF ret' = "OK" THEN Handled ELSE UNCHANGED <<wpc, msg>>
  /\ UNCHANGED <<Peer, q, opener>>

WorkerData ==
  /\ wpc = "handle" /\ msg.ev = "DATA"
  /\ ServiceWrite(msg.ch)
  /\ IF ret' = "OK" THEN Handled ELSE wpc' = "abort" /\ UNCHANGED msg
  /\ UNCHANGED <<Peer, q, opener>>

WorkerFinish ==
  /\ wpc = "handle" /\ msg.ev = "FINISH"
  /\ ServiceFinish
  /\ IF mutex' = "held" THEN wpc' = "finishing" /\ UNCHANGED msg ELSE Handled
  /\ UNCHANGED <<Peer, q, opener>>

WorkerFinishBoot ==
  /\ wpc = "finishing"
  /\ ServiceFinishBoot /\ Handled
  /\ UNCHANGED <<Peer, q, opener>>

\* An ABORT message, or a write that failed.
WorkerAbort ==
  /\ wpc = "abort" \/ (wpc = "handle" /\ msg.ev = "ABORT")
  /\ ServiceAbort /\ Handled
  /\ UNCHANGED <<Peer, q, opener>>

Worker ==
  \/ WorkerTake \/ WorkerStart \/ WorkerData
  \/ WorkerFinish \/ WorkerFinishBoot \/ WorkerAbort

\* Start-up code that calls ota_service_init.  Nothing in this repository does
\* (app_main, Project.c:46-77, has no such call): its firmware never takes this
\* step, and its service refuses every call.
Boot == mutex = "null" /\ ServiceInit /\ UNCHANGED bleVars

Reboot ==
  /\ PowerCycle
  /\ conn' = NoClient /\ sent' = 0 /\ stage' = "start"
  /\ q' = <<>> /\ msg' = NoMsg /\ wpc' = "take" /\ opener' = 0
  /\ UNCHANGED upload

BleNext ==
  \/ \E cl \in Client : Connect(cl)
  \/ Disconnect \/ SendStart \/ SendData \/ SendFinish \/ SendAbort
  \/ Worker \/ Boot \/ Reboot

BleSpec == BleInit /\ [][BleNext]_bleOtaVars

\* The worker task is scheduled; the clients owe nothing.
BleFairSpec == BleSpec /\ WF_bleOtaVars(Worker)

-----------------------------------------------------------------------------
(* Properties                                                              *)

\* What the session accepted is what flash holds, chunk for chunk and in
\* order, although clients come and go and packets are dropped: the passive
\* session is the only writer of its partition.
FlashMirrorsSession ==
  /\ BleTypeOK
  /\ (ctx[Passive].state = "RUNNING" /\ Passive \notin ending) =>
       \A i \in 1..Len(ctx[Passive].log) :
          dev.flash[ctx[Passive].part][i] = ctx[Passive].log[i]

Installs == wpc = "finishing" /\ wpc' = "take" /\ ret' = "OK"

\* When the FINISH that installs an image belongs to the upload whose START
\* opened the session, what is installed is that upload, whole, in order and
\* with nothing of another client in it.  Nothing is said of a FINISH of
\* another upload: one whose own START was refused can add its chunks to the
\* session it found open and finish that.
InstallsWhatOpened ==
  [][(Installs /\ msg.up = opener) =>
        /\ ctx[Passive].log = ImageSeq(ImageOf[msg.from])
        /\ Holds(dev'.flash[dev'.boot], ImageOf[msg.from])]_bleOtaVars

\* Messages already queued are handled whatever the clients do next.
QueueDrains == (q # <<>>) ~> (q = <<>>)

=============================================================================
