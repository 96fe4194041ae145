------------------------------ MODULE Station ------------------------------
(***************************************************************************)
(* Start-up and provisioning around the Wi-Fi station: app_main            *)
(* (main/Project.c), the credentials in NVS (modules/storage), the         *)
(* provisioning profile and the GAP events (modules/BLE/ble_manager.c).    *)
(*                                                                         *)
(* BLE comes up first, so the BLE host task runs a client's writes and     *)
(* commands while app_main is still starting the rest; both then call      *)
(* wifi_service_sta_connect.  The host task runs one callback at a time.   *)
(* A write of more than 64 bytes, or a command of another length or value, *)
(* is answered with an error and changes nothing.                          *)
(***************************************************************************)
EXTENDS Wifi

CONSTANTS
  Ssids, Passwords,  \* what clients write; "" is one of the SSIDs they may write
  Long,              \* SSIDs and passwords that do not fit the driver's fields
  MaxWrites          \* writes of an SSID or a password in a behaviour (bound)

ASSUME StationConstants == MaxWrites \in Nat

Blank == [ssid |-> "unset", password |-> "unset"]
Credentials == [ssid : Ssids \cup {"unset"}, password : Passwords \cup {"unset"}]

VARIABLES
  boot,     \* the next call of app_main; "done", or after an early return
            \* "dead" (no queues), "nowifi" (no driver), "deaf" (no handler)
  nvs,      \* "ssid" and "password" of the namespace wifi_storage
  buf,      \* what each caller has read of them
  config,   \* what esp_wifi_set_config was told last
  gap,      \* the BLE host: off, unsynced, adv, conn; "over" while an event
            \* is due that ends either, "silent" if it cannot advertise
  sent,     \* history: what clients have written last
  asked,    \* history: what they had written at the last CONNECT
  skew,     \* history: since then it may have been told something else
  writes    \* used up of the bound

credVars == <<nvs, buf, config>>
history == <<sent, asked, skew>>
ownVars == <<boot, gap, credVars, history, writes>>
stationVars == <<wifiVars, ownVars>>

\* What the driver is told: strncpy leaves the last byte of its fields free.
Told(cr) == [cred |-> cr, cut |-> {f \in {"ssid", "password"} : cr[f] \in Long}]

\* After a first boot, or with credentials from before.
StationInit ==
  /\ WifiInit
  /\ boot = "ble" /\ gap = "off"
  /\ nvs \in {Blank} \cup [ssid : Ssids \ {""}, password : Passwords]
  /\ sent = nvs /\ asked = nvs /\ config = Told(nvs) /\ skew = FALSE
  /\ buf = [c \in Caller |-> Blank]
  /\ writes = 0

NvsUp == boot \notin {"ble", "rtos", "nvs", "dead"}
DriverUp == boot \in {"event", "ip", "deaf", "read", "password", "done"}
HostIdle == upc["host"] = "none" /\ boot # "ble"

\* Why what the station is told may part from what the client has written
Reason == {"unsaved", "unusable", "early", "busy", "failed", "stale", "restart"}

Blame(why) == why \in Reason /\ skew' = TRUE

-----------------------------------------------------------------------------
(* app_main                                                                *)

BleInit ==
  /\ boot = "ble" /\ boot' = "rtos" /\ gap' = "unsynced"
  /\ UNCHANGED <<wifiVars, credVars, history, writes>>

RtosCreate ==
  /\ boot = "rtos"
  /\ boot' \in {"nvs"} \cup (IF "mem" \in Faults THEN {"dead"} ELSE {})
  /\ UNCHANGED <<wifiVars, gap, credVars, history, writes>>

\* A partition without free pages is erased.
StorageInit ==
  /\ boot = "nvs" /\ boot' = "wifi"
  /\ nvs' \in {nvs} \cup (IF "erase" \in Faults THEN {Blank} ELSE {})
  /\ UNCHANGED <<wifiVars, gap, buf, config, history, writes>>

\* wifi_start: the driver, then its event handlers.  When a registration
\* fails it returns with the driver up, and a CONNECT starts a deaf station.
WifiStart ==
  /\ boot = "wifi"
  /\ boot' \in {"event"} \cup (IF "wifi" \in Faults THEN {"nowifi"} ELSE {})
  /\ UNCHANGED <<wifiVars, gap, credVars, history, writes>>

RegisterHandler ==
  /\ boot \in {"event", "ip"}
  /\ \/ Register /\ boot' = IF boot = "event" THEN "ip" ELSE "read"
     \/ "register" \in Faults /\ boot' = "deaf" /\ UNCHANGED wifiVars
  /\ UNCHANGED <<gap, credVars, history, writes>>

Usable(cr) == cr.ssid \notin {"unset", ""} /\ cr.password # "unset"

\* app_main reads the SSID, then the password: the host task may write both
\* in between.
AppReadSsid ==
  /\ boot = "read" /\ boot' = "password"
  /\ buf' = [buf EXCEPT !["app"].ssid = nvs.ssid]
  /\ UNCHANGED <<wifiVars, gap, nvs, config, history, writes>>

AppReadPassword ==
  /\ boot = "password" /\ boot' = "done"
  /\ buf' = [buf EXCEPT !["app"].password = nvs.password]
  /\ Read("app") /\ upc'["app"] = IF Usable(buf'["app"]) THEN "start" ELSE "none"
  /\ UNCHANGED <<gap, nvs, config, history, writes>>

\* esp_wifi_start
Started == IF DriverUp THEN link' = "off" => "sta" \in Faults ELSE link' = "off"

\* Faulty: a station that has been started is not configured again.
SetConfigOnce(c) ==
  /\ StaStart(c) /\ Started
  /\ IF link = "off" /\ DriverUp
     THEN config' = Told(buf[c]) /\ UNCHANGED skew
     ELSE UNCHANGED config /\ (IF DriverUp THEN UNCHANGED skew ELSE Blame("early"))
  /\ buf' = [buf EXCEPT ![c] = Blank]
  /\ UNCHANGED <<boot, gap, nvs, sent, asked, writes>>

\* The results of esp_wifi_set_mode, esp_wifi_set_config and esp_wifi_start
\* are ignored: they fail before esp_wifi_init, the second does while the
\* station is connecting, and each may at any time.
SetConfig(c) ==
  /\ StaStart(c) /\ Started
  /\ \/ ~DriverUp /\ UNCHANGED config /\ Blame("early")
     \/ DriverUp /\ link = "connecting" /\ UNCHANGED config /\ Blame("busy")
     \/ DriverUp /\ "config" \in Faults /\ UNCHANGED config /\ Blame("failed")
     \/ /\ DriverUp /\ config' = Told(buf[c])
        /\ IF c = "app" /\ buf[c] # asked THEN Blame("stale") ELSE UNCHANGED skew
  /\ buf' = [buf EXCEPT ![c] = Blank]
  /\ UNCHANGED <<boot, gap, nvs, sent, asked, writes>>

Connect(c) == StaConnect(c) /\ UNCHANGED ownVars

AppMain ==
  \/ BleInit \/ RtosCreate \/ StorageInit \/ WifiStart \/ RegisterHandler \/ AppReadSsid \/ AppReadPassword
  \/ SetConfig("app") \/ Connect("app")

-----------------------------------------------------------------------------
(* Writes and commands of a client, on the BLE host task                   *)

Served == HostIdle /\ gap = "conn"

\* storage_service_save_ssid, storage_service_save_password.  They fail
\* before storage_service_init, and may later; the client is told nothing.
Save(field, v) ==
  \/ (~NvsUp \/ "save" \in Faults) /\ UNCHANGED nvs
  \/ NvsUp /\ nvs' = [nvs EXCEPT ![field] = v]

Write(field, v) ==
  /\ Served /\ writes < MaxWrites /\ writes' = writes + 1
  /\ sent' = [sent EXCEPT ![field] = v]
  /\ Save(field, v)
  /\ UNCHANGED <<wifiVars, boot, gap, buf, config, asked, skew>>

WriteSsid == \E s \in Ssids : Write("ssid", s)
WritePassword == \E p \in Passwords : Write("password", p)

CmdConnect ==
  /\ Served /\ UserConnect
  /\ asked' = sent /\ (IF nvs = sent THEN skew' = FALSE ELSE Blame("unsaved"))
  /\ UNCHANGED <<boot, gap, credVars, sent, writes>>

\* Nothing else writes NVS, so the host task's two reads are one step.
HostRead ==
  /\ Read("host")
  /\ buf' = [buf EXCEPT !["host"] = IF NvsUp THEN nvs ELSE Blank]
  /\ IF Usable(buf'["host"])
     THEN upc'["host"] = "start" /\ UNCHANGED skew
     ELSE upc'["host"] = "none" /\ Blame("unusable")
  /\ UNCHANGED <<boot, gap, nvs, config, sent, asked, writes>>

\* The client asks the device to end the connection, or goes away.
CmdDisconnect ==
  /\ gap = "conn" /\ gap' = "over"
  /\ UNCHANGED <<wifiVars, boot, credVars, history, writes>>

HostConnects == HostRead \/ SetConfig("host") \/ Connect("host")

-----------------------------------------------------------------------------
(* Advertising, on the BLE host task                                       *)

\* ble_manager_start_advertise: a failure is only logged.
StartAdvertise == gap' \in {"adv"} \cup (IF "adv" \in Faults THEN {"silent"} ELSE {})

\* Faulty: the events only clear the connection handle.
HandleGapForgets ==
  /\ HostIdle /\ gap = "over" /\ gap' = "idle"
  /\ UNCHANGED <<wifiVars, boot, credVars, history, writes>>

\* A connection that failed or ended, or advertising that did
HandleGap ==
  /\ HostIdle /\ gap = "over" /\ StartAdvertise
  /\ UNCHANGED <<wifiVars, boot, credVars, history, writes>>

\* ble_hs_cfg_on_sync; without an address the device stays silent.
OnSync ==
  /\ HostIdle /\ gap = "unsynced" /\ StartAdvertise
  /\ UNCHANGED <<wifiVars, boot, credVars, history, writes>>

\* The host resets: a connection is dropped at once, and its event cannot
\* advertise before the next sync.
OnReset ==
  /\ HostIdle /\ gap \notin {"off", "unsynced"} /\ gap' = "unsynced"
  /\ UNCHANGED <<wifiVars, boot, credVars, history, writes>>

\* A client connects or fails to, or the advertising ends by itself.
AdvEnds ==
  /\ gap = "adv" /\ gap' \in {"conn", "over"}
  /\ UNCHANGED <<wifiVars, boot, credVars, history, writes>>

-----------------------------------------------------------------------------
Network == Associate \/ GetIp

\* NVS and the driver's own copy of its configuration outlive a restart.
Reboot ==
  /\ Restart
  /\ boot' = "ble" /\ gap' = "off"
  /\ buf' = [c \in Caller |-> Blank]
  /\ IF upc["host"] \in {"read", "start"} THEN Blame("restart") ELSE UNCHANGED skew
  /\ UNCHANGED <<nvs, config, sent, asked, writes>>

StationNext ==
  \/ AppMain \/ HostConnects \/ WriteSsid \/ WritePassword \/ CmdConnect \/ CmdDisconnect
  \/ HandleGap \/ OnSync \/ OnReset \/ AdvEnds \/ Reboot
  \/ (EventLoop \/ TimerTask \/ Network \/ Drop \/ LoseIp) /\ UNCHANGED ownVars

StationSpec == StationInit /\ [][StationNext]_stationVars

\* Each task is scheduled; the network as in Wifi.
StationFairSpec ==
  /\ StationSpec
  /\ WF_stationVars(AppMain) /\ WF_stationVars(HostConnects) /\ WF_stationVars(HandleGap \/ OnSync)
  /\ WF_stationVars(EventLoop /\ UNCHANGED ownVars) /\ WF_stationVars(TimerTask /\ UNCHANGED ownVars)
  /\ WF_stationVars(Network /\ UNCHANGED ownVars)

-----------------------------------------------------------------------------
(* Properties                                                              *)

Configuring == upc["host"] \in {"read", "start"}

\* The station is configured with what the client had written at its last
\* CONNECT, whole, whatever the start-up, its restarts and the commands
\* interleave to.  All that can part them: a write that was not saved,
\* credentials that cannot be used or do not fit, a CONNECT before wifi_start,
\* while the retry timer has the station connecting or cut off by a restart,
\* an esp_wifi_set_config that fails (nobody looks at its result), and an
\* app_main that uses what it read before the CONNECT, or what was written
\* without one.
ConfigIsSent ==
  ~skew /\ ~Configuring /\ asked.ssid \notin Long /\ asked.password \notin Long =>
    config = [cred |-> asked, cut |-> {}]

\* The device can be found or is connected, now or after its host task has
\* run, unless advertising failed to start: no client, reset or CONNECT that
\* is being carried out leaves it silent.
Reachable ==
  (gap \in {"unsynced", "over"}) ~> (gap \in {"adv", "conn", "silent", "off"})
=============================================================================
