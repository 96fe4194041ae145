-------------------------------- MODULE Wifi --------------------------------
(***************************************************************************)
(* The Wi-Fi station (modules/Wifi/wifi_task.c).                           *)
(*                                                                         *)
(* Three tasks share its statics: the event loop runs wifi_event_handler,  *)
(* the esp_timer task runs wifi_reconnect_timer_cb, and app_main and the   *)
(* BLE host task call wifi_service_sta_connect, each with what it has read *)
(* from NVS.  The driver posts events in order and the event loop handles  *)
(* them one at a time, later.                                              *)
(***************************************************************************)
EXTENDS Integers, Sequences

CONSTANTS
  BaseDelay,   \* WIFI_RETRY_BASE_DELAY_MS
  MaxDelay,    \* WIFI_RETRY_MAX_DELAY_MS
  Faults,      \* calls that may fail: "connect", "create", "start",
               \* "disconnect", and those of the modules that extend this
  MaxOutages,  \* failed attempts, drops and lost leases in a behaviour (bound)
  MaxUser      \* CONNECT commands in a behaviour (bound)

ASSUME WifiConstants ==
  /\ BaseDelay \in Nat \ {0} /\ MaxDelay \in Nat /\ BaseDelay <= MaxDelay
  /\ MaxOutages \in Nat /\ MaxUser \in Nat

VARIABLES
  delay,      \* s_retry_delay_ms (s_retry_num is only logged)
  scheduled,  \* s_reconnect_scheduled
  timer,      \* s_reconnect_timer: "null" before esp_timer_create
  fired,      \* the timer task: idle, callback "due", callback at "connect"
  bit,        \* EVT_WIFI_CONNECTED of g_system_event_group
  hpc,        \* where the event handler is; "take" between two events
  evq,        \* events posted to the default event loop, not yet taken
  link,       \* the station: "noip" is associated without an address
  handled,    \* events the default event loop has a handler for
  missed,     \* history: since boot it has had none for a GOT_IP
  upc,        \* where each caller of wifi_service_sta_connect is
  outages, users  \* used up of the bounds

timerVars == <<scheduled, timer, fired>>
driverVars == <<evq, link>>
handlerVars == <<handled, missed>>
bounds == <<outages, users>>
wifiVars == <<delay, timerVars, bit, hpc, driverVars, handlerVars, upc, bounds>>

WifiEvent == {"STA_START", "DISCONNECTED"}   \* of WIFI_EVENT
Event == WifiEvent \cup {"GOT_IP"}            \* and of IP_EVENT
Link == {"off", "idle", "connecting", "noip", "up"}
HandlerPc == {"take", "schedule", "arm", "set", "clear", "online"}
Caller == {"app", "host"}   \* app_main, the BLE host task

WifiTypeOK ==
  /\ delay \in BaseDelay..MaxDelay
  /\ scheduled \in BOOLEAN
  /\ timer \in {"null", "stopped", "armed"}
  /\ fired \in {"no", "due", "connect"}
  /\ bit \in BOOLEAN
  /\ hpc \in HandlerPc
  /\ evq \in Seq(Event)
  /\ link \in Link
  /\ handled \in {{}, WifiEvent, Event} /\ missed \in BOOLEAN
  /\ upc \in [Caller -> {"none", "read", "start", "connect"}]
  /\ outages \in 0..MaxOutages /\ users \in 0..MaxUser

WifiInit ==
  /\ delay = BaseDelay
  /\ scheduled = FALSE /\ timer = "null" /\ fired = "no"
  /\ bit = FALSE /\ hpc = "take" /\ evq = <<>> /\ handled = {} /\ missed = FALSE
  /\ link = "off" /\ upc = [c \in Caller |-> IF c = "app" THEN "read" ELSE "none"]
  /\ outages = 0 /\ users = 0

ResetBackoff == delay' = BaseDelay

Capped(d) == IF d > MaxDelay THEN MaxDelay ELSE d

\* esp_wifi_connect.  It starts an attempt from an idle station and is
\* refused otherwise; the callers here ignore or log its result.
ConnectFrom(l) ==
  IF l = "idle"
  THEN {"connecting"} \cup (IF "connect" \in Faults THEN {"idle"} ELSE {})
  ELSE {l}

-----------------------------------------------------------------------------
(* wifi_event_handler, on the event loop                                   *)

NextEvent(e) == hpc = "take" /\ evq # <<>> /\ Head(evq) = e /\ evq' = Tail(evq)

TakeEvent(e) == NextEvent(e) /\ e \in handled

\* An event without a handler is dropped.
MissEvent(e) ==
  /\ NextEvent(e) /\ e \notin handled
  /\ missed' = (missed \/ e = "GOT_IP")
  /\ UNCHANGED <<delay, timerVars, bit, hpc, link, upc, bounds, handled>>

Miss == \E e \in Event : MissEvent(e)

\* wifi_start registers the handler for WIFI_EVENT, then for IP_EVENT.
Register ==
  /\ \/ handled = {} /\ handled' = WifiEvent
     \/ handled = WifiEvent /\ handled' = Event
  /\ UNCHANGED <<delay, timerVars, bit, hpc, driverVars, upc, bounds, missed>>

HandleStaStart ==
  /\ TakeEvent("STA_START")
  /\ ResetBackoff
  /\ link' \in ConnectFrom(link)
  /\ UNCHANGED <<timerVars, bit, hpc, upc, bounds, handlerVars>>

\* Faulty: the bit is not cleared.
DisconnectKeepsBit ==
  /\ TakeEvent("DISCONNECTED")
  /\ hpc' = "schedule"
  /\ UNCHANGED <<delay, timerVars, bit, link, upc, bounds, handlerVars>>

HandleDisconnected ==
  /\ TakeEvent("DISCONNECTED")
  /\ bit' = FALSE /\ hpc' = "schedule"
  /\ UNCHANGED <<delay, timerVars, link, upc, bounds, handlerVars>>

\* Faulty: the doubled delay is not capped.
ScheduleUncapped ==
  /\ hpc = "schedule"
  /\ timer' = IF timer = "null" THEN "stopped" ELSE timer
  /\ IF scheduled THEN hpc' = "take" /\ UNCHANGED delay
     ELSE hpc' = "arm" /\ delay' = 2 * delay
  /\ UNCHANGED <<scheduled, fired, bit, driverVars, upc, bounds, handlerVars>>

\* schedule_wifi_reconnect up to its choice of a delay
Schedule ==
  /\ hpc = "schedule"
  /\ \/ "create" \in Faults /\ timer = "null" /\ hpc' = "take" /\ UNCHANGED <<timer, delay>>
     \/ /\ timer' = IF timer = "null" THEN "stopped" ELSE timer
        /\ IF scheduled
           THEN hpc' = "take" /\ UNCHANGED delay
           ELSE hpc' = "arm" /\ delay' = Capped(2 * delay)
  /\ UNCHANGED <<scheduled, fired, bit, driverVars, upc, bounds, handlerVars>>

\* esp_timer_start_once is refused while the timer is armed.
Arm ==
  /\ hpc = "arm"
  /\ \/ (timer = "armed" \/ "start" \in Faults) /\ hpc' = "take" /\ UNCHANGED timer
     \/ timer # "armed" /\ timer' = "armed" /\ hpc' = "set"
  /\ UNCHANGED <<delay, scheduled, fired, bit, driverVars, upc, bounds, handlerVars>>

SetScheduled ==
  /\ hpc = "set"
  /\ scheduled' = TRUE /\ hpc' = "take"
  /\ UNCHANGED <<delay, timer, fired, bit, driverVars, upc, bounds, handlerVars>>

\* esp_timer_stop fails when the callback is already due; that is ignored.
HandleGotIp ==
  /\ TakeEvent("GOT_IP")
  /\ IF timer # "null" /\ scheduled
     THEN timer' = "stopped" /\ hpc' = "clear"
     ELSE hpc' = "online" /\ UNCHANGED timer
  /\ UNCHANGED <<delay, scheduled, fired, bit, link, upc, bounds, handlerVars>>

\* Faulty: the flag stays set when the timer is stopped.
OnlineKeepsFlag ==
  /\ hpc \in {"clear", "online"}
  /\ ResetBackoff /\ bit' = TRUE /\ hpc' = "take"
  /\ UNCHANGED <<timerVars, driverVars, upc, bounds, handlerVars>>

\* Faulty: the handler returns once it has stopped the timer.
OnlineReturnsEarly ==
  /\ hpc \in {"clear", "online"}
  /\ scheduled' = (hpc = "online" /\ scheduled)
  /\ IF hpc = "online" THEN ResetBackoff /\ bit' = TRUE ELSE UNCHANGED <<delay, bit>>
  /\ hpc' = "take"
  /\ UNCHANGED <<timer, fired, driverVars, upc, bounds, handlerVars>>

Online ==
  /\ hpc \in {"clear", "online"}
  /\ scheduled' = (hpc = "online" /\ scheduled)
  /\ ResetBackoff /\ bit' = TRUE /\ hpc' = "take"
  /\ UNCHANGED <<timer, fired, driverVars, upc, bounds, handlerVars>>

EventLoop ==
  \/ HandleStaStart \/ HandleDisconnected \/ Schedule \/ Arm \/ SetScheduled
  \/ HandleGotIp \/ Online \/ Miss

-----------------------------------------------------------------------------
(* The esp_timer task.  A timer is out of the list before its callback     *)
(* runs; it takes at least a second, so not between Arm and SetScheduled.  *)

TimerExpires ==
  /\ timer = "armed" /\ fired = "no" /\ hpc # "set"
  /\ timer' = "stopped" /\ fired' = "due"
  /\ UNCHANGED <<delay, scheduled, bit, hpc, driverVars, upc, bounds, handlerVars>>

CallbackStart ==
  /\ fired = "due"
  /\ scheduled' = FALSE /\ fired' = "connect"
  /\ UNCHANGED <<delay, timer, bit, hpc, driverVars, upc, bounds, handlerVars>>

CallbackConnect ==
  /\ fired = "connect"
  /\ fired' = "no" /\ link' \in ConnectFrom(link)
  /\ UNCHANGED <<delay, scheduled, timer, bit, hpc, evq, upc, bounds, handlerVars>>

TimerTask == TimerExpires \/ CallbackStart \/ CallbackConnect

-----------------------------------------------------------------------------
(* The two callers of wifi_service_sta_connect: app_main, once a boot, and *)
(* the BLE host task for a CONNECT command.                                *)

Goto(c, pc) == upc' = [upc EXCEPT ![c] = pc]

Lose(l) == link' = "idle" /\ evq' = Append(evq, "DISCONNECTED")

\* A CONNECT command begins with esp_wifi_disconnect, whose result is ignored.
UserConnect ==
  /\ upc["host"] = "none" /\ users < MaxUser
  /\ users' = users + 1 /\ Goto("host", "read")
  /\ \/ link \in {"connecting", "noip", "up"} /\ Lose(link)
     \/ (link \in {"off", "idle"} \/ "disconnect" \in Faults) /\ UNCHANGED driverVars
  /\ UNCHANGED <<delay, timerVars, bit, hpc, outages, handlerVars>>

\* storage_service_read_wifi; it may find nothing, or an SSID that is empty,
\* which wifi_service_sta_connect refuses.
Read(c) ==
  /\ upc[c] = "read"
  /\ \E pc \in {"none", "start"} : Goto(c, pc)
  /\ UNCHANGED <<delay, timerVars, bit, hpc, driverVars, bounds, handlerVars>>

\* esp_wifi_set_mode, esp_wifi_set_config, esp_wifi_start, whose results are
\* ignored.  They change nothing of a station already started, and fail
\* before esp_wifi_init, or any time.
StaStart(c) ==
  /\ upc[c] = "start" /\ Goto(c, "connect")
  /\ \/ link = "off" /\ link' = "idle" /\ evq' = Append(evq, "STA_START")
     \/ UNCHANGED driverVars
  /\ UNCHANGED <<delay, timerVars, bit, hpc, bounds, handlerVars>>

StaConnect(c) ==
  /\ upc[c] = "connect" /\ Goto(c, "none")
  /\ link' \in ConnectFrom(link)
  /\ UNCHANGED <<delay, timerVars, bit, hpc, evq, bounds, handlerVars>>

Call(c) == Read(c) \/ StaStart(c) \/ StaConnect(c)

-----------------------------------------------------------------------------
(* The driver and the network                                              *)

Associate ==
  /\ link = "connecting" /\ link' = "noip"
  /\ UNCHANGED <<delay, timerVars, bit, hpc, evq, upc, bounds, handlerVars>>

GetIp ==
  /\ link = "noip" /\ link' = "up" /\ evq' = Append(evq, "GOT_IP")
  /\ UNCHANGED <<delay, timerVars, bit, hpc, upc, bounds, handlerVars>>

\* An attempt fails, or an association ends.
Drop ==
  /\ link \in {"connecting", "noip", "up"} /\ outages < MaxOutages
  /\ outages' = outages + 1
  /\ Lose(link)
  /\ UNCHANGED <<delay, timerVars, bit, hpc, upc, users, handlerVars>>

\* The lease is lost: IP_EVENT_STA_LOST_IP has no handler.
LoseIp ==
  /\ link = "up" /\ outages < MaxOutages
  /\ outages' = outages + 1 /\ link' = "noip"
  /\ UNCHANGED <<delay, timerVars, bit, hpc, evq, upc, users, handlerVars>>

\* The chip restarts: every static and the driver start anew.
Restart ==
  /\ delay' = BaseDelay
  /\ scheduled' = FALSE /\ timer' = "null" /\ fired' = "no"
  /\ bit' = FALSE /\ hpc' = "take" /\ evq' = <<>> /\ handled' = {} /\ missed' = FALSE
  /\ link' = "off" /\ upc' = [c \in Caller |-> IF c = "app" THEN "read" ELSE "none"]
  /\ UNCHANGED bounds

WifiStep == EventLoop \/ TimerTask \/ (\E c \in Caller : Call(c)) \/ Associate \/ GetIp

WifiNext == WifiStep \/ Register \/ UserConnect \/ Drop \/ LoseIp \/ Restart

WifiSpec == WifiInit /\ [][WifiNext]_wifiVars

-----------------------------------------------------------------------------
(* Properties                                                              *)

\* wifi_task.c:77 trusts s_reconnect_scheduled to skip a disconnection:
\* whenever it is set a connect is really coming, whatever the handler and
\* the callback interleave to (the handler that has stopped the timer is
\* about to clear it).
ScheduledIsReal ==
  scheduled => timer = "armed" \/ fired = "due" \/ hpc = "clear"

\* Once the event loop has caught up, EVT_WIFI_CONNECTED is set when the
\* station is up and clear when it is not associated: events of old
\* connections never leave it wrong.  (A lost lease does leave it set, and an
\* address that came while IP_EVENT had no handler leaves it clear:
\* wifi_start had not registered it yet, or had failed to.)
BitFollowsLink ==
  hpc = "take" /\ evq = <<>> =>
    /\ link = "up" => bit \/ missed
    /\ bit => link \in {"noip", "up"}

\* An idle station will try again: a retry is armed, about to be, or running.
RetryAlive ==
  link = "idle" =>
    \/ \E i \in 1..Len(evq) : evq[i] \in {"STA_START", "DISCONNECTED"}
    \/ hpc \in {"schedule", "arm", "set"}
    \/ timer = "armed" \/ fired # "no"
    \/ \E c \in Caller : upc[c] \in {"start", "connect"}

\* Only a driver or timer call that fails, or an event that comes while it
\* has no handler, ends the retries; no interleaving of events, timer and
\* CONNECT commands does.
OnlyErrorsEndRetries ==
  [][RetryAlive /\ ~RetryAlive' =>
       /\ link = "idle"
       /\ \/ HandleStaStart \/ MissEvent("STA_START") \/ MissEvent("DISCONNECTED")
          \/ CallbackConnect \/ \E c \in Caller : StaConnect(c)
          \/ Schedule /\ timer' = "null"
          \/ Arm /\ timer' = "stopped"]_wifiVars

\* A station that was started gets an address and the bit is set, unless a
\* call failed and nothing is left to retry, the address came while IP_EVENT
\* had no handler, or the chip restarts.
ComesOnline ==
  (link # "off") ~>
    (link = "up" /\ bit) \/ ~RetryAlive \/ missed \/ link = "off"
=============================================================================
