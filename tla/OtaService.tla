----------------------------- MODULE OtaService -----------------------------
(***************************************************************************)
(* The OTA service (modules/ota/ota_service.c) and its HTTP client         *)
(* (modules/ota/ota_http_client.c).                                        *)
(*                                                                         *)
(* One passive session, Passive, is driven through begin, write, finish    *)
(* and abort by whoever calls the service (the BLE worker of BleOta);      *)
(* these calls hold s_ota_mutex and refuse when s_ota_busy says so.        *)
(* ota_service_trigger_http starts a task that downloads an image with a   *)
(* session of its own; it reads s_ota_busy but never sets it.              *)
(***************************************************************************)
EXTENDS OtaAgent

CONSTANTS
  Passive,    \* s_passive_ota_ctx
  Http,       \* the sessions on the stacks of the HTTP tasks
  BleImage,   \* the image the callers of ota_service_write send
  HttpImage,  \* the images the servers serve
  BeginSizes, \* firmware sizes passed to ota_service_begin; 0 is unknown
  HttpSizes   \* Content-Length values the servers announce; 0 is unknown

ASSUME ServiceConstants ==
  /\ Passive \notin Http
  /\ Ctx = Http \cup {Passive}
  /\ BeginSizes \subseteq 0..MaxFw /\ HttpSizes \subseteq 0..MaxFw
  /\ BleImage \in Image /\ HttpImage \subseteq Image
  /\ NoPart \notin Image

VARIABLES
  mutex,  \* s_ota_mutex: "null" before ota_service_init, "free", "held"
  busy,   \* s_ota_busy
  ret,    \* did the last service call return ESP_OK
  http    \* where each HTTP task is

serviceVars == <<mutex, busy, ret, http>>
otaVars == <<agentVars, serviceVars>>

HttpPc == {"none", "checked", "new", "open", "reading", "cleanup", "restart"}

ServiceTypeOK ==
  /\ AgentTypeOK
  /\ mutex \in {"null", "free", "held"}
  /\ busy \in BOOLEAN
  /\ ret \in {"none", "OK", "ERR"}
  /\ http \in [Http -> HttpPc]

ServiceStart ==
  /\ mutex = "null" /\ busy = FALSE /\ ret = "none"
  /\ http = [h \in Http |-> "none"]

OtaInit == AgentInit /\ ServiceStart

Ret(r) == IF r = "OK" THEN "OK" ELSE "ERR"
Refuse == ret' = "ERR" /\ UNCHANGED <<agentVars, mutex, busy>>
NoHttp == UNCHANGED http

-----------------------------------------------------------------------------
(* The passive session.  A caller waits while the mutex is held.           *)

ServiceInit ==
  /\ mutex' = IF mutex = "null" THEN "free" ELSE mutex
  /\ busy' = FALSE
  /\ UNCHANGED <<agentVars, ret>> /\ NoHttp

\* ota_agent_init and ota_agent_start on a zeroed context; a failure of start
\* tears the context down.
BeginResults(fw) ==
  LET zero == [Zeroed EXCEPT !.fw = fw, !.check = "skip"]
      inits == InitResults(zero, dev)
      starts(i) == {IF o.ret = "OK" THEN o ELSE [o EXCEPT !.ctx = Deinited(@)] :
                      o \in StartResults(i.ctx, i.dev, running)}
  IN UNION {IF i.ret = "OK" THEN starts(i) ELSE {i} : i \in inits}

\* Faulty: a busy service takes the request as one more for its session.
BeginJoins(fw) ==
  /\ mutex # "held" /\ NoHttp
  /\ \/ mutex = "null" /\ Refuse
     \/ mutex = "free" /\ busy /\ ret' = "OK" /\ UNCHANGED <<agentVars, mutex, busy>>
     \/ /\ mutex = "free" /\ ~busy
        /\ \E o \in BeginResults(fw) :
             Become(Passive, o) /\ busy' = (o.ret = "OK") /\ ret' = Ret(o.ret)
        /\ UNCHANGED <<running, ending, leaked, mutex>>

Begin(fw) ==
  /\ mutex # "held" /\ NoHttp
  /\ \/ (mutex = "null" \/ busy) /\ Refuse
     \/ /\ mutex = "free" /\ ~busy
        /\ \E o \in BeginResults(fw) :
             Become(Passive, o) /\ busy' = (o.ret = "OK") /\ ret' = Ret(o.ret)
        /\ UNCHANGED <<running, ending, leaked, mutex>>

NotRunning == ~busy \/ ctx[Passive].state # "RUNNING"

ServiceWrite(ch) ==
  /\ mutex # "held" /\ NoHttp
  /\ \/ (mutex = "null" \/ NotRunning) /\ Refuse
     \/ /\ mutex = "free" /\ ~NotRunning
        /\ \E o \in WriteResults(ctx[Passive], dev, ch) :
             Become(Passive, o) /\ ret' = Ret(o.ret)
        /\ UNCHANGED <<running, ending, leaked, mutex, busy>>

\* Faulty: the failure path leaves s_ota_busy set.
FinishStaysBusy ==
  /\ mutex = "free" /\ ~NotRunning /\ NoHttp
  /\ \E o \in EndResults(ctx[Passive], dev) :
       /\ Become(Passive, [o EXCEPT !.ctx = Deinited(@)])
       /\ o.ret # "ENDED" /\ ret' = "ERR"
  /\ UNCHANGED <<running, ending, leaked, mutex, busy>>

\* ota_agent_finish fails: ota_agent_deinit, and the service is idle again.
\* It succeeds up to esp_ota_end: the mutex stays held until ServiceFinishBoot.
ServiceFinish ==
  /\ mutex # "held" /\ NoHttp
  /\ \/ (mutex = "null" \/ NotRunning) /\ Refuse
     \/ /\ mutex = "free" /\ ~NotRunning
        /\ \E o \in EndResults(ctx[Passive], dev) :
             IF o.ret = "ENDED"
             THEN /\ Become(Passive, o)
                  /\ ending' = ending \cup {Passive} /\ mutex' = "held"
                  /\ UNCHANGED <<running, leaked, busy, ret>>
             ELSE /\ Become(Passive, [o EXCEPT !.ctx = Deinited(@)])
                  /\ leaked' = (leaked \/ LeaksMd(o.ctx))
                  /\ busy' = FALSE /\ ret' = "ERR"
                  /\ UNCHANGED <<running, ending, mutex>>

\* Faulty: a failing ota_agent_finish returns without xSemaphoreGive.
FinishKeepsMutex ==
  /\ Passive \in ending /\ NoHttp
  /\ \E o \in BootResults(ctx[Passive], dev) :
       /\ Become(Passive, [o EXCEPT !.ctx = Deinited(@)])
       /\ ret' = Ret(o.ret)
       /\ mutex' = IF o.ret = "OK" THEN "free" ELSE "held"
  /\ ending' = ending \ {Passive} /\ busy' = FALSE
  /\ UNCHANGED <<running, leaked>>

ServiceFinishBoot ==
  /\ Passive \in ending /\ NoHttp
  /\ \E o \in BootResults(ctx[Passive], dev) :
       /\ Become(Passive, [o EXCEPT !.ctx = Deinited(@)])
       /\ leaked' = (leaked \/ LeaksMd(o.ctx))
       /\ ret' = Ret(o.ret)
  /\ ending' = ending \ {Passive}
  /\ busy' = FALSE /\ mutex' = "free"
  /\ UNCHANGED running

ServiceAbort ==
  /\ mutex # "held" /\ NoHttp
  /\ \/ mutex = "null" /\ Refuse
     \/ mutex = "free" /\ ~busy /\ ret' = "OK" /\ UNCHANGED <<agentVars, mutex, busy>>
     \/ /\ mutex = "free" /\ busy
        /\ LET o == Aborted(ctx[Passive], dev) IN
             /\ Become(Passive, [o EXCEPT !.ctx = Deinited(@)])
             /\ leaked' = (leaked \/ LeaksMd(o.ctx))
        /\ busy' = FALSE /\ ret' = "OK"
        /\ UNCHANGED <<running, ending, mutex>>

-----------------------------------------------------------------------------
(* ota_service_trigger_http and the task it creates.                       *)

Goto(h, pc) == http' = [http EXCEPT ![h] = pc]

\* ota_service_is_busy: false when the service was never initialised.
TriggerCheck(h) ==
  /\ http[h] = "none" /\ mutex # "held"
  /\ ~(mutex = "free" /\ busy)
  /\ Goto(h, "checked")
  /\ UNCHANGED <<agentVars, mutex, busy, ret>>

\* malloc or xTaskCreate may fail
TriggerCreate(h) ==
  /\ http[h] = "checked"
  /\ Goto(h, "new") \/ ("task" \in Faults /\ Goto(h, "none"))
  /\ UNCHANGED <<agentVars, mutex, busy, ret>>

\* esp_http_client_init, _open and _fetch_headers
HttpOpen(h) ==
  /\ http[h] = "new"
  /\ \/ Goto(h, "none") /\ UNCHANGED ctx
     \/ \E fw \in HttpSizes :
          /\ Goto(h, "open")
          /\ ctx' = [ctx EXCEPT ![h] = [Zeroed EXCEPT !.fw = fw, !.check = "skip"]]
  /\ UNCHANGED <<dev, running, ending, leaked, mutex, busy, ret>>

\* ota_agent_init, ota_agent_start, and the chunk buffer
HttpBegin(h) ==
  /\ http[h] = "open"
  /\ \E i \in InitResults(ctx[h], dev) :
       IF i.ret # "OK"
       THEN Become(h, [i EXCEPT !.ctx = Deinited(@)]) /\ Goto(h, "none")
       ELSE \E o \in StartResults(i.ctx, i.dev, running) :
              IF o.ret # "OK"
              THEN Become(h, [o EXCEPT !.ctx = Deinited(@)]) /\ Goto(h, "none")
              ELSE /\ Become(h, o)
                   /\ Goto(h, "reading") \/ ("malloc" \in Faults /\ Goto(h, "cleanup"))
  /\ UNCHANGED <<running, ending, leaked, mutex, busy, ret>>

\* A read error, or the next chunk of the body: the server sends any chunks in
\* any order, as many as it likes, whatever length it announced.  Only a write
\* that fails (too many bytes, partition full, flash error) ends the loop here.
HttpRead(h) ==
  /\ http[h] = "reading" /\ h \notin ending
  /\ \/ "read" \in Faults /\ Goto(h, "cleanup") /\ UNCHANGED <<ctx, dev>>
     \/ \E im \in HttpImage, i \in 1..ImageLen :
          \E o \in WriteResults(ctx[h], dev, <<im, i>>) :
            Become(h, o) /\ Goto(h, IF o.ret = "OK" THEN "reading" ELSE "cleanup")
  /\ UNCHANGED <<running, ending, leaked, mutex, busy, ret>>

\* The connection closes, at the end of the body or early: ota_agent_finish.
HttpEof(h) ==
  /\ http[h] = "reading" /\ h \notin ending
  /\ \E o \in EndResults(ctx[h], dev) :
       /\ Become(h, o)
       /\ IF o.ret = "ENDED" THEN ending' = ending \cup {h} /\ UNCHANGED http
                             ELSE Goto(h, "cleanup") /\ UNCHANGED ending
  /\ UNCHANGED <<running, leaked, mutex, busy, ret>>

HttpFinishBoot(h) ==
  /\ h \in ending
  /\ \E o \in BootResults(ctx[h], dev) :
       IF o.ret = "OK"
       THEN /\ Become(h, [o EXCEPT !.ctx = Deinited(@)])
            /\ leaked' = (leaked \/ LeaksMd(o.ctx)) /\ Goto(h, "restart")
       ELSE Become(h, o) /\ Goto(h, "cleanup") /\ UNCHANGED leaked
  /\ ending' = ending \ {h}
  /\ UNCHANGED <<running, mutex, busy, ret>>

\* Faulty: the session is torn down without ota_agent_abort.
CleanupWithoutAbort(h) ==
  /\ http[h] = "cleanup" /\ Goto(h, "none")
  /\ ctx' = [ctx EXCEPT ![h] = Zeroed]
  /\ UNCHANGED <<dev, running, ending, leaked, mutex, busy, ret>>

\* Faulty: a failed download starts over, for ever.
CleanupRetries(h) ==
  /\ http[h] = "cleanup" /\ Goto(h, "new")
  /\ LET o == Aborted(ctx[h], dev) IN
       /\ Become(h, [o EXCEPT !.ctx = Deinited(@)])
       /\ leaked' = (leaked \/ LeaksMd(o.ctx))
  /\ UNCHANGED <<running, ending, mutex, busy, ret>>

\* abort_ota and exit: ota_agent_abort, then ota_agent_deinit
HttpCleanup(h) ==
  /\ http[h] = "cleanup"
  /\ LET o == Aborted(ctx[h], dev) IN
       /\ Become(h, [o EXCEPT !.ctx = Deinited(@)])
       /\ leaked' = (leaked \/ LeaksMd(o.ctx))
  /\ Goto(h, "none")
  /\ UNCHANGED <<running, ending, mutex, busy, ret>>

-----------------------------------------------------------------------------
(* A restart loses everything in RAM; the bootloader runs the partition    *)
(* otadata selects, or another whole one when that one is not.              *)

BootChoice ==
  IF Bootable(dev.flash[dev.boot]) THEN dev.boot
  ELSE CHOOSE p \in Part : Bootable(dev.flash[p])

Restart ==
  /\ ctx' = [c \in Ctx |-> Zeroed]
  /\ dev' = [dev EXCEPT !.entry = [h \in Handle |-> [used |-> FALSE, part |-> 0, off |-> 0]]]
  /\ running' = BootChoice
  /\ ending' = {} /\ leaked' = FALSE
  /\ mutex' = "null" /\ busy' = FALSE /\ ret' = "none"
  /\ http' = [h \in Http |-> "none"]

\* ota_http_task calls esp_restart two seconds after a successful download
HttpRestart(h) == http[h] = "restart" /\ Restart

\* A power cut, or the user's reboot.
PowerCycle == Restart

HttpStep(h) ==
  \/ TriggerCreate(h) \/ HttpOpen(h) \/ HttpBegin(h) \/ HttpRead(h) \/ HttpEof(h)
  \/ HttpFinishBoot(h) \/ HttpCleanup(h) \/ HttpRestart(h)

Call ==
  \/ mutex = "null" /\ ServiceInit
  \/ \E fw \in BeginSizes : Begin(fw)
  \/ \E i \in 1..ImageLen : ServiceWrite(<<BleImage, i>>)
  \/ ServiceFinish
  \/ ServiceAbort

OtaNext ==
  \/ Call
  \/ ServiceFinishBoot
  \/ \E h \in Http : TriggerCheck(h) \/ HttpStep(h)
  \/ PowerCycle

OtaSpec == OtaInit /\ [][OtaNext]_otaVars

\* The tasks keep running: a call that was begun returns, and an HTTP task
\* that can take a step takes one (its reads time out after 10 s).
OtaFairSpec ==
  OtaSpec /\ WF_otaVars(ServiceFinishBoot) /\ \A h \in Http : WF_otaVars(HttpStep(h))

-----------------------------------------------------------------------------
(* Properties                                                              *)

\* s_ota_busy and the state of s_passive_ota_ctx agree whenever the mutex is
\* not held: an idle service has no half-open session, and a busy one has a
\* session that a write, finish or abort can still reach.
BusyMatchesSession ==
  mutex # "held" =>
    /\ busy => ctx[Passive].state \in {"RUNNING", "ERROR"}
    /\ ~busy => /\ ctx[Passive].state = "IDLE" /\ ctx[Passive].handle = 0
                /\ ctx[Passive].sha = "null"

\* Every esp_ota handle that is open belongs to a live session: no path
\* through the service or the HTTP client tears a session down without
\* esp_ota_end or esp_ota_abort.
NoOrphanHandle ==
  \A h \in Handle : dev.entry[h].used => Owners(h) # {}

\* The partition the device runs from holds a whole image and no session has
\* it open, whatever is downloaded, aborted or cut.
RunningWhole ==
  /\ Bootable(dev.flash[running])
  /\ \A h \in Handle : dev.entry[h].used => dev.entry[h].part # running

\* The image a device runs changes only by a restart, and always to a whole
\* image that was staged: see OtaUpdate.
ImageIn(p) ==
  IF Bootable(dev.flash[p]) THEN CHOOSE im \in Image : Holds(dev.flash[p], im) ELSE NoPart
Update == INSTANCE OtaUpdate
  WITH None <- NoPart,
       current <- ImageIn(running),
       staged <- IF dev.boot = running THEN NoPart ELSE ImageIn(dev.boot)
ImplementsUpdate == Update!Spec

\* A download always ends, in a restart or by giving its session up.
DownloadEnds == \A h \in Http : (http[h] # "none") ~> (http[h] = "none")

\* A caller waiting for s_ota_mutex is let in.
MutexReleased == (mutex = "held") ~> (mutex # "held")

\* ota_service.c:83, "OTA is already running": the service refuses a second
\* update while one runs.
OneUpdateAtATime ==
  \A c1, c2 \in Ctx : (c1 # c2 /\ ctx[c1].handle # 0) => ctx[c2].handle = 0
=============================================================================
