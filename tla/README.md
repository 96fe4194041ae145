# Verification of the ESP32 IoT firmware

TLA+ modules that model the firmware in `src/Project`, TLC configurations that
check them on small instances, and TLAPS proofs that hold for every instance.
`PROJECT.json` lists the parts, the runs, which source lines each definition
models, the hazards of the code and the properties that watch each of them, the
disagreements found, and for every checked property a plausible bug that
breaks it.

Paths below are relative to `src/Project`.

## 1. Inventory

### Components

| Component | State it keeps | Operations |
|---|---|---|
| OTA agent, `modules/ota/ota_agent.c` | one `ota_agent_ctx_t` per session: state, esp_ota handle, update partition, byte count, hash context | init, start, write, finish, abort, deinit |
| OTA service, `modules/ota/ota_service.c` | `s_ota_mutex`, `s_ota_busy`, `s_passive_ota_ctx` | init, begin, write, finish, abort, trigger_http, is_busy |
| HTTP client, `modules/ota/ota_http_client.c` | a session on its own stack | open, read loop, finish or abort, restart |
| BLE OTA, `modules/BLE/ble_manager.c`, `profiles/ota_profile` | the connection handle, a 30-slot queue | control and data writes; worker task |
| Start-up, `main/Project.c` | queues and event group | `app_main` |
| BLE host and advertising, `modules/BLE/ble_manager.c` | what the host is doing: unsynced, advertising, connected | sync, reset, GAP events |
| Provisioning and storage, `profiles/prov_profile`, `modules/storage` | SSID and password in NVS | write SSID, write password, CONNECT, DISCONNECT; save, read |
| Wi-Fi station, `modules/Wifi/wifi_task.c` | retry count, delay, `s_reconnect_scheduled`, timer, `EVT_WIFI_CONNECTED` | event handler, timer callback, connect |
| MQTT task, `modules/MQTT/mqtt_task.c` | TLS handle, MQTT context, backoff, `EVT_MQTT_CONNECTED`, publish, subscribe and control queues | dial, connect, subscribe, publish, process, clean up |
| coreMQTT, `modules/MQTT/coreMQTT` | connection status, ping state, packet identifiers, records of QoS 1 and 2, receive buffer | connect, subscribe, publish, acknowledge, process, resend, serialize, deserialize, match |
| Sensor commands, `profiles/sensor_profile` | `is_connected`, `is_reading`, `is_thread_created` | connect, connect all, disconnect all, read, sample rate |
| Sensor manager, `driver/sensor_drivers/sensors_manager` | `error_trigger_flag`, read timers | repair, read, diagnose, publish |
| Driver interface and I2C manager, `driver/i2c_bus`, `sensor_driver_interface_manager` | bus handle, device handles, `sensor_state` | add, remove, transfer |
| Sensor chip drivers, `driver/sensor_drivers/{ina226,bmp280,bme280,bh1750,aht20,bno055}` | a handle with `inited`, the calibration, a copy of some settings | init, set, get, read, reset, deinit |
| BLE GUI, dashboard | - | desktop programs that talk to the device |

### How they interact

- **Tasks.** The BLE host task runs every GATT write and GAP event; the OTA
  worker, an HTTP OTA task, `sensor_task` and `mqtt_task` have a task each; the
  event loop runs the Wi-Fi event handler and the esp_timer task its timer's
  callback. `app_main` starts BLE first, so the host task runs beside the rest of
  the start-up.
- **Queues.** OTA writes go to the worker through `s_ble_ota_queue` and are
  dropped when it is full; `sensor_task` and the BNO055 driver feed
  `g_mqtt_publish_queue`, dropping likewise; nothing receives from
  `g_mqtt_subscribe_queue` and `g_control_queue`.
- **Event group.** The Wi-Fi handler sets and clears `EVT_WIFI_CONNECTED`, for
  which `mqtt_task` waits; `mqtt_task` owns `EVT_MQTT_CONNECTED`.
- **NVS.** The host task writes the credentials that it and `app_main` read
  before they call `wifi_service_sta_connect`.
- **Shared statics without a lock.** The Wi-Fi retry state (event loop and timer
  task); device handles, `sensor_state` and `g_param` (BLE host and
  `sensor_task`). `s_ota_mutex` protects the passive OTA session only.
- **Hardware and libraries.** esp_ota and its flash, the Wi-Fi driver, esp_tls,
  the I2C master driver, the chips behind it, an MQTT broker: modelled from how
  the code uses them (`external` in the map).
- **Not connected.** Nothing calls `ota_service_init`, `ota_service_trigger` or
  `ota_service_trigger_http`, and nothing reads `g_ota_url`. In this firmware the
  service therefore refuses every call. What is said of updates is said of a
  firmware whose start-up calls `ota_service_init` and which uses both ways to
  update: `OtaService` and `BleOta` model the service before and after that call. The
  firmware publishes and subscribes at QoS 0 only; coreMQTT's QoS 1 and 2 are
  compiled in and are modelled as its header documents their use.

### What is hard, and what makes each part correct

| Part | Hard behaviour | Correct means |
|---|---|---|
| OTA | a download beside a BLE upload on one partition; failure of any esp_ota call; restart at any step; dropped packets and changing clients | the running partition is never touched, handles are neither leaked nor used when closed, a restart boots a whole image, the upload that opened a session installs itself and nothing else, every download ends, the mutex is given back |
| Start-up, provisioning | a client that writes while NVS is not yet up, or while `app_main` reads; commits one by one; calls whose result nobody reads; a restart in between | the station is configured with what the client sent, but for named causes; the device stays discoverable |
| Wi-Fi | events handled after the link has changed again; a timer that fires while it is being stopped; two callers; refused calls; a handler that could not be registered | the retry flag does not lie; while the events have their handler the bit follows the link, retries end only by an error, the station comes online |
| MQTT task | a broker that closes, goes silent or answers late; a write cut short, by an error or by the send timeout; Wi-Fi lost at any step | the TLS handle is used and freed once, messages stay in order, nothing follows a packet an error cut short, dead sessions are noticed, the task reconnects |
| coreMQTT, QoS | connections lost between any two packets; sessions the broker forgets; identifiers used again; full records | no message of QoS 2 is handed over twice, none of QoS 1 or 2 is lost, order is kept, the session completes |
| coreMQTT, bytes | packets cut into pieces by the transport in both directions; packets larger than the buffer; malformed ones | what leaves is one whole packet that says what was asked, what arrives is delivered once and whole, the session ends at a malformed packet |
| Sensors | two tasks in the drivers at once, removed handles, unplugged sensors, flags that go stale | while the tasks are apart handles are sound and `sensor_init_flag` is truthful; sensors come back from anything |
| Chips | a transfer that fails within a read-modify-write or a set-up; a conversion that takes too long; a chip that restarted | settings do not disturb each other, a success is one, repair works |

The hazards, each at its line, are in `PROJECT.json`.

## 2. Modules

| Module | Models | Uses |
|---|---|---|
| `OtaAgent` | a session and the flash device | |
| `OtaUpdate` | abstract: what an update promises | |
| `OtaService` | service, HTTP task, restarts; implements `OtaUpdate` | `OtaAgent` |
| `BleOta`, `MCBleOta` | clients, GATT writes, queue, worker | `OtaService` |
| `Wifi` | the station and what its callers may do | |
| `Station` | start-up, provisioning, storage, advertising; implements `Wifi` | `Wifi` |
| `MqttSession` | the coreMQTT calls the task makes | |
| `MqttTask` | the MQTT task and everything around it | `MqttSession` |
| `MqttState` | the state records of QoS 1 and 2, `core_mqtt_state.c` | |
| `MqttQos`, `MCMqttQos` | a client with these records, an application and a broker | `MqttState` |
| `MqttWire` | sizes, serializers and deserializers, `core_mqtt_serializer.c` | |
| `MqttTopic` | `MQTT_MatchTopic`, and topics as MQTT 3.1.1 has them | |
| `MqttStream`, `MCMqttStream` | packets in pieces, both ways | `MqttWire`, `MqttTopic` |
| `Sensors` | commands, sensor task, driver calls, bus | |
| `SensorReg` | registers, transfers, early returns | |
| `Bosch` | what the two Bosch drivers share | `SensorReg` |
| `Ina226`, `Bmp280`, `Bme280`, `Bh1750`, `Aht20`, `Bno055` | one driver each | `SensorReg` |
| `SensorChips` | any sequence of their calls, under faults | the six |
| `OtaService_proofs`, `BleOta_proofs` | theorems about `OtaAgent` and `OtaService`, and about `BleOta`; the second builds on the first | the modules named |
| `Station_proofs` | theorems about `Wifi` and `Station` | both |
| `MqttTask_proofs`, `MqttQos_proofs`, `Sensors_proofs` | theorems | the module named |
| `MqttWire_proofs`, `MqttStream_proofs` | lemmas about the formats and topics; theorems about `MqttStream` | `MqttWire`, `MqttTopic`; `MqttStream` |

Definitions marked `Faulty:` or `A mutant:` in a comment are plausible bugs. No
specification uses them; each stands for a mutation that the property named
beside it in `PROJECT.json` has to detect.

### OTA

An agent function is an operator from a session record and the device
(`[entry, flash, boot]`: handle table, partitions, otadata) to the *set* of its
results, one per path through the C function: `InitResults`, `StartResults`,
`WriteResults`, `EndResults` and `BootResults` (the two halves of
`ota_agent_finish`, since another task can run between `esp_ota_end` and
`esp_ota_set_boot_partition`), `Aborted`, `Deinited`. `OtaAgent` drives them in
any order; `OtaService` as the service and the HTTP task do, the passive
session under the mutex. Firmware is a sequence of chunks `<<image, index>>`;
programming a slot twice with different data leaves `Garbage`. The hash check is
that the chunks accepted are those of the expected image. The server of a download
sends what it likes (`HttpRead`): any chunks in any order, as many as it will,
whatever length it announced; the loop ends at the end of the body, at a read
error, or at a write that fails because the body is longer than was announced
(`INVALID_SIZE`) or than the partition.

`OtaUpdate` has two variables, the image that runs and the image staged for the
next restart. `OtaService` implements it with `current` the image in the running
partition and `staged` the image in the partition otadata selects, if that is
another one and bootable: so nothing changes the running image except a restart
into a whole, staged one. An update that writes again after it has staged an
image unstages it; that is why `OtaUpdate` has `Unstage`.

`BleOta` adds clients that connect, upload, abort and disappear. `opener` is a
history variable: the upload whose START opened the session. A start command
carries a hash, and the device takes its first byte for the command: `StartBytes`
are the commands that byte may be (`BLE GUI/ble_gui.py`, `ota_profile.c`). `Boot` is
start-up code that calls `ota_service_init`, which `app_main` does not have.
`InstallsWhatOpened` is about a FINISH of the upload that opened the session: what
it installs is that upload, whole and unmixed. It says nothing of a FINISH of another upload: a client whose START
was refused as busy adds its chunks to the session it found open, and may
finish that; the hash check is skipped there (`ota_service.c:140`).

### Start-up, provisioning, Wi-Fi

`Wifi` has one action per stretch of code that no other task can split: the
handler for DISCONNECTED is `HandleDisconnected`, `Schedule`, `Arm`,
`SetScheduled`; for GOT_IP `HandleGotIp`, `Online`; the callback
`CallbackStart`, `CallbackConnect`. `evq` is the default event loop's queue, so
an event can be handled when the link is already something else. The timer does
not fire between `Arm` and `SetScheduled`: the shortest delay is a second
(`wifi_config.h`) and no blocking call lies between. `wifi_service_sta_connect`
has two callers, `app_main` and the BLE host task, each with a program counter
`upc[c]`; the module leaves open what makes them call. `handled` are the events
for which the default event loop has a handler: none, those of WIFI_EVENT, then
those of IP_EVENT too (`Register`). An event that finds no handler is dropped
(`MissEvent`), and `missed` remembers a GOT_IP that was.

`Station` closes that: `boot` is the next call of `app_main`, `gap` what the BLE
host is doing, `nvs` the two NVS keys, `buf` what each caller has read,
`config` what the driver was last told. The host task runs one callback at a
time (`HostIdle`). `wifi_start` is three steps, the driver and the two
registrations, each of which may fail; after a failed registration (`boot` is
`deaf`) `app_main` is over, but BLE goes on, and a CONNECT starts a station whose
events nobody handles. Of that station `BitFollowsLink`, `OnlyErrorsEndRetries` and
`ComesOnline` promise what their conditions leave: it may be online with the
bit clear, and it does not retry. Its theorem `StationImplementsWifi` says that it uses `Wifi`
as that module lets its callers.

`sent`, `asked` and `skew` are history: what clients wrote, what they had written
at the last CONNECT, and whether the station may be configured with something
else, for one of these causes:

| Cause | |
|---|---|
| `unsaved` | a write was not saved (before `storage_service_init`, or NVS failed; the result is ignored), or a partition without free pages was erased |
| `unusable` | no SSID, or no password, was saved: CONNECT returns |
| `early` | CONNECT before `esp_wifi_init`: `esp_wifi_set_config` fails, its result is ignored |
| `busy` | the retry timer has the station connecting; the driver may refuse the configuration |
| `failed` | `esp_wifi_set_mode` or `esp_wifi_set_config` fails for another reason; nobody looks at the result |
| `restart` | the device restarted before the driver was told |
| `stale` | `app_main` configures what it read before the CONNECT, or half of each |

`esp_wifi_set_config` being refused while the station connects is the driver's
documented behaviour and is left open (it may also succeed). `skew` only says
*that* one of these happened; `Blame` names the cause at each place. An SSID or a
password longer than 31 or 63 bytes reaches the driver cut (`Told`); `Long` are those.

### MQTT task

`pc` follows `mqtt_task`'s loops. `MqttSession` gives for each coreMQTT call the
set of its results over `mq` (status, waiting for a ping) and `net` (the peer,
what it has received, what it has sent, what cut the last packet short). A write may
meet a transport error (`"send"`), which leaves the session in
`DisconnectPending`, or a peer that stalls for the whole send timeout (`"slow"`),
which leaves it connected (`core_mqtt.c:848-853`): the next publish then follows
the torn packet, and the broker takes it for the rest of that. `net.behind` has
what cut the packets behind which something was written; `FramingKept` is
`"error" \notin net.behind`, since `"slow"` does get there. `tls` is
a pointer that may dangle, `live` the handles allocated. Time is abstract: a
ping may be due whenever nothing has arrived, and be overdue when its answer
still is on its way (`LoopLate`). `net.out` collects what brokers
have received over all connections.

### coreMQTT: QoS 1 and 2

`MqttState` translates `core_mqtt_state.c`: a record is an identifier, a QoS and a
state; `AddRecord` with its compaction, `MQTT_ReserveState`, `MQTT_UpdateStatePublish`,
`MQTT_UpdateStateAck` with its validity checks, the two cursors of the resend loops.
`MqttQos` is a client that keeps to `core_mqtt.h`: it publishes under
`MQTT_GetPacketId`, calls `MQTT_ProcessLoop`, and after an error reconnects with
a persistent session; the broker keeps to MQTT 3.1.1. What is sent again is sent
by `MQTT_Connect` if the application registered store, retrieve and clear
functions (`cb`), and otherwise by the loop of `core_mqtt_state.h:243-272`.

`SessionCompletes` has an exception, `Stalled`: five situations in which the
library as written goes no further.

1. With `cb`, a PUBLISH that `MQTT_Connect` sent again leaves its record in
   `MQTTPublishSend`; the state in which its acknowledgement is legal is only
   entered by `MQTT_Publish`.
2. A PUBCOMP was sent and lost, and the record with it: the broker's next PUBREL
   finds none, and is a bad response, each time.
3. The broker has more messages in flight than the client has records: the one
   without a slot ends every connection before what is behind it is read.
4. Without `cb`, the loop of the header passes over a record: its `MQTT_Publish`
   reserves the record again, and if the last slot is in use `addRecord`
   (`core_mqtt_state.c:530`) closes the gaps of the table before it reports the
   collision. A record behind the cursor's place can then move to where the
   cursor has already been, and its PUBLISH is not sent again on this
   connection. The history variable `app.skipped` says that it happened since
   the last CONNACK; three slots are the fewest with which it can.
5. A CONNACK that said "no session present" was lost, so the client's half of the
   session is the old one and the broker's new (`astray`).

### coreMQTT: bytes

A behaviour of `MqttStream` has one job. A request is a list of vectors written
in pieces of any size (`sendMessageVector`, with and without `writev`); a stream
is received in pieces of any size into a buffer of `BufferSize` bytes by
`receiveSingleIteration` and `discardPacket`; or a packet, a length or a topic is
only judged. A packet is `handled` when the application is given it, or, a PINGRESP,
when `MQTT_ProcessLoop` has taken it. The reference is written beside the code: `Says` reads a request as
a server does, `WellFormed` and `Packets` cut a stream as MQTT 3.1.1 does,
`Matches` matches by levels. Where the code is different, a named exception says
exactly how far:

- `Tolerated`: the deserializer accepts a duplicate of QoS 0, and an empty topic
  name before a payload.
- `Missed`: `MQTT_MatchTopic` does not match a name that ends in a level taken by
  `+` with only `/#` behind it (`a` and `+/#`), nor one that ends in an empty
  level behind a level taken by `+` (`a/` and `+/+`).
- `Copied`: `MQTT_Publish` lets a duplicate of QoS 0 through, which
  `MQTT_SerializePublish` refuses.

### Sensors

Both tasks run the same driver functions without a lock, so a call is a small
frame `call[p]`: `init`, `add`, `config`, `setup` (init), `deinit`, `remove`
(deinit), `read`, `fetch` (a read); the pointer is read in one step and used in
another. A freed handle that is used either does no harm or panics, which is a
reset (`Panics`). A set-up that fails gives the device back or keeps it, and
leaves `inited` set or clear (`TransferFails`): the drivers differ. `Lax` are drivers whose `full_init` reports success whatever
happened (`bno055.c:36`) and that keep no `inited`. `met` and `misused` are
history variables.

The properties say `~met => ...`: while the two tasks have not been in driver
calls of the same sensor at the same time. That condition is needed: TLC shows
at once that handles leak and dangle without it. `sensor_types.h:42` calls
`sensor_init_flag` the "State of connection and working properly"
(`InitFlagTruthful`). That is false for two reasons: the repair can
remove the device between the last transfer of a CONNECT and the flag's
assignment (run `sensors_flag`), and a `Lax` driver's CONNECT succeeds with nothing
on the bus (`bno055.c:10-36`; the property fails at once with a sensor in `Lax`). `FlagTruthfulApart` is what is left: `~met`, and no `Lax`
driver. "Working" here, and in `Recovers`, means that the device is added and the
driver initialised; that a chip was set up again after it lost its power is more
(`power` below).

### Sensor chips

A register is the set of its bits that are 1, a driver call a record that its
steps pass on: the handle and the chip, the transfers made so far and those
that fail (`n`, `bad`), the error. After an error a step does nothing, which is
the early return. There is one definition per driver function, with its name.
The chips themselves are external: what a write to a register does, when a
conversion is over. A compensation formula stands for what it depends on: the
coefficients it uses, `t_fine`, whether the sample is new.

`want` is what each setting was set to last; `skew` says why readings may be
off although no call reported anything:

| `skew` | Cause |
|---|---|
| `init` | `full_init` has not run, or failed |
| `lax` | `bno055_full_init` reported success although a transfer failed |
| `power` | the chip lost power and was re-added to the bus without a set-up (`sensor_find_error_and_fix_small`) |
| `shut` | a call stopped the conversions |
| `off`, `restart` | the INA226 was put in power-down; another setting restarted a triggered conversion the driver does not wait for |
| `slow` | the INA226 needed more than half of the timeout: the loop counts up while its bound counts down, so the timeout is never reported |
| `mode`, `half` | the BH1750's mode was set in the handle only; only half of the measurement time was sent |
| `several` | two of these |

Assumed: the SPI side of the Bosch drivers is a stub (`driver_*_interface.c`);
removing a device from the bus does not fail; a continuous mode has a new sample
at each call; `ctrl_hum` takes effect at once. The setters, `app_deinit` and
`soft_reset` are the drivers' interface: the firmware uses them through
`full_init` and the repairs only. `bno055_read_register` and
`bno055_write_register` always refuse, since nothing sets `bno_is_open`.
Calls do not overlap here; that they may is the subject of `Sensors`.

## 3. Runs

| Run | Question | Instance |
|---|---|---|
| `service` | BLE caller and download from any server at once, restarts at any moment: handles, busy flag, running image, refinement of `OtaUpdate`, downloads that end | 1 + 1 sessions, 3 images of 2 chunks, partitions of 2, a length announced or not, the failures that leave different states |
| `service_exclusion` | does the service refuse a second update (no) | as `service` |
| `ble` | clients, drops, reconnects, reboots, misread start commands, with `ota_service_init` called: does the upload that opened a session install itself, does flash hold what was accepted | 2 clients, 2 uploads, queue of 2 |
| `station` | start-up, provisioning, retries, advertising, restarts, with every call failing: flag, bit, configuration, coming online, staying discoverable | 1 outage, 1 CONNECT, 2 writes, 2 SSIDs (one too long), 12 calls that may fail |
| `mqtt` | handle, framing, order, reconnection | 3 messages, queue of 2, 4 dials, 2 faults (a stalled write and a late answer among them), 1 Wi-Fi outage |
| `mqtt_partial` | is a split packet harmless (no: it ends the session) | as `mqtt` |
| `mqtt_qos` | are QoS 1 and 2 kept over lost connections and forgotten sessions | 3 messages out, 2 in, 2 records out with callbacks and 3 without, 1 in, 3 identifiers, 2 drops, 1 expiry, both ways to resend |
| `codec` | do requests leave, and packets arrive, whole, once and as meant | buffer of 8 bytes, every job of `MCMqttStream` |
| `sensors` | handles and flags under both tasks | 2 sensors (one `Lax`), 2 commands, 1 read, 1 fault |
| `sensors_flag` | is the flag truthful when the tasks meet (no) | 1 sensor, 2 commands, 1 read, no fault |
| `sensors_recover` | does a sensor come back | 1 sensor, 3 commands, 1 read, 1 fault |
| `chips` | settings, readings and repairs under faults, driver by driver | 6 chips, 3 polls, 1 setting away from the defaults at a time |

### Why the bounds are enough

- **OTA.** Two chunks are the fewest for which "part of an image" exists; two
  partitions are what `partitions.csv` has; in `ble` capacity exceeds the
  image by one, so that surplus data fits once and overflows once; in `service` it
  does not, so that a third chunk exceeds the partition when the server announced
  no length, and the announced length when it did. Two clients with an upload
  each are the fewest that can mix; a two-slot queue is full after START and one
  chunk, so every message kind is dropped in some behaviour.
- **Station.** Two writes make a new pair, or half of one; one CONNECT after them
  meets every point of the start-up, of a pending retry and of a restart. The
  safety properties hold for any numbers (section 4); the run is there for
  liveness and for what the proofs assume.
- **MQTT task.** A session is dialled at most once per fault and once per Wi-Fi
  outage after the first time, so `MaxTls = 4` never stops the task. Three
  messages overflow a queue of two. Message 2 is on a topic the device
  subscribes to, as the sensor data is, and comes back.
- **QoS.** Three messages over two records and three identifiers: records fill up,
  are compacted, and identifiers come round again. Without callbacks there are
  three records, the fewest with which the loop of the header can skip one;
  `Slots` gives the number for each way to resend. The safety properties hold for
  any numbers (section 4). Two drops let what was sent
  again be lost again; the expiry makes a session new in between. One incoming
  record is the fewest, and lets the broker exceed it.
- **Codec.** In a buffer of eight bytes a packet fits exactly, is one byte too
  long, or many times too long. Lengths are tried around every change of the
  encoding's size, topics up to three characters against filters up to four, and
  every string of up to five bytes out of 0, 1, 3, 128 as every kind of packet.
- **Sensors.** Two sensors are the fewest for which the repair of one touches
  another. While the tasks have not met, a sensor has at most one handle and a
  freed one can be allocated again, so `MaxDev = N` cuts nothing there; in
  `sensors_recover`, where leaks count, six exceed what three commands and the
  repairs can leak. It has one sensor because the liveness check of two does not
  finish in reasonable time; the repair loops treat each sensor alike.
- **Chips.** `Timeout = 3` has a conversion end before, at and after the point where
  the INA226's loop gives up (two polls). A setting is tried at its field's
  smallest and largest value, which tell all its bits apart from its neighbours';
  `MaxTouched = 1` still lets any two settings follow each other. A transfer
  fails alone or with all after it; of the coefficient reads the first and the last
  ones do (`Coefficients`), those between have the same error path. The
  AHT20's frame has one or two bits flipped, which its CRC must detect.

### Fairness

- `OtaFairSpec`: a finish that has begun returns; an HTTP task takes its next
  step (its reads time out). Clients, callers and power cuts owe nothing.
- `BleFairSpec`: the worker task, which blocks on nothing but its queue and the
  mutex, is scheduled.
- `StationFairSpec`: `app_main`, the host task's connect and its own events, the
  event loop, the timer task, and an access point and DHCP server that answer
  once outages are used up.
- `MqttFairSpec`: the task is scheduled (weak). Strong fairness of `LoopPing` and
  `LoopTimeout` says that its clock advances: the loop polls for ever, the
  actions are enabled again and again while nothing arrives, and the keep-alive
  interval passes.
- `QosFairSpec`: the application calls `MQTT_ProcessLoop`, publishes, and reconnects
  after an error; the broker reads and publishes. Weak fairness; what enables each
  action is written out, since TLC takes long for `ENABLED` of these actions.
- `StreamSpec`: the application calls `MQTT_ProcessLoop` until it fails, and the
  transport hands over what has arrived.
- `SensorsFairSpec`: both tasks are scheduled; strong fairness of `ReadSensor`
  says that a sensor that is read becomes due again, as the tick count advances.

Deadlock is checked except in Station, QoS, Codec and Sensors: a station that is
up, a session that is complete, a job that is done, or a device nobody sends
commands to, may rest.

### What the failing runs show

1. `service_exclusion`: an HTTP download never sets `s_ota_busy`, so in a firmware
   that uses both, an upload and a download write one partition. The running image
   stays safe (`service`).
2. `mqtt_partial`: `MQTTNeedMoreBytes` is treated as an error.
3. `sensors_flag`: CONNECT sets `sensor_init_flag` although the repair has just
   removed the device.

What holds only up to named exceptions is above: `skew` of Station and of
SensorChips, `Stalled`, `Tolerated`, `Missed`. A refused `esp_wifi_connect` is
another: no event follows and nothing retries; an event without a handler is a third.
`OnlyErrorsEndRetries` (run `station`) says that these and failed timer calls are
the only ways to lose the retries. `FramingKept` leaves out the packets the send
timeout cut short.

## 4. Proofs

The proof modules hold for every value of the constants that satisfies the
`ASSUME`s of the module they extend, which TLC evaluates in the runs.

**`OtaService_proofs`, the agent.** `AgentTypeCorrect`, `HandlesAreOwned`, `SessionsInStep`,
`RunningFirmwareSafe`, for any number of sessions, partitions, handles and
chunks. None of the last three is inductive: that a handle belongs to one session
needs that a READY session holds none, since `ota_agent_start` overwrites it
(`ReadyShape`); that the second half of finish selects a good partition needs what
a session between the halves looks like (`EndingShape`). `AgentInv` is their
conjunction. The proof goes by contract: each agent function's results meet
`Contract`, which mentions the calling session and the device only; a step that
meets it preserves `AgentInv` for all the others. `HandleOwned` is also checked by
`service`; the others have no run of their own.

**`OtaService_proofs`, the service.** Everything the run `service` checks but its liveness:
`ServiceTypeCorrect`, `ServiceHandlesOwned`, `BusyIsTruthful`,
`HandlesNeverOrphaned`, `RunningAlwaysWhole`, for any number of downloads,
partitions, images, chunks and faults. An action of the service is up to three
agent functions in a row; their contracts compose, and a second contract
(`Accounts`) says that a function opens no handle but one it leaves in its
session. `ServiceInv` adds to `AgentInv` what the mutex (`MutexShape`) and the
place of a download (`HttpShape`) tell of its session: `busy` is only right
because the mutex keeps the two halves of finish together, and a download that
ends may forget its session only because its state then holds no handle.
`ServiceImplementsUpdate`: every step of the service is one of `OtaUpdate`'s or a
stutter, under the hypothesis `NumPart <= 2`, which is `partitions.csv` (`ota_0`,
`ota_1`): when the partition otadata selects is not bootable the boot loader
takes another that is, and only with two partitions is that the one that ran
before. `NoPart \notin Image` is assumed of
the names the model chooses.

**`BleOta_proofs`.** `FlashIsWhatArrived` and `InstalledIsWhatOpened`, for any
clients, queue length and number of uploads; `BleInv` contains `ServiceInv`. What
makes `InstallsWhatOpened` inductive is `InLine`: the messages that wait, in the
queue, in the worker's hands and not yet sent, are in the order of the uploads,
and as long as one of the upload that opened the session is among them the
session has accepted nothing but chunks of that upload, with smaller indices
than the next. `Mirrored` connects the log of what was accepted with the flash.

**`Sensors_proofs`.** `SoundApart` and `FlagTruthful`, for any number of sensors,
any `Lax` drivers, commands, reads and faults. `SoundUntilTasksMeet` is about the
pointers; inductive is what each step of a driver call may rely on (`Follows`: the
handle taken is the driver's, an init that adds finds no device, a
set-up that succeeded has its device), why each call was made (`Purpose`: an
init is only asked for a sensor that is not connected) and that two calls are
never at one sensor (`Apart`, from `~met`). A driver step is shown to disturb its
own sensor only (`DriverKeeps`), which leaves the other call's `Follows` alone.
`FlagTruthfulApart` needs `is_connected` to follow `sensor_init_flag` (`Truthful`),
since it decides between connect and disconnect. It is about every driver but the
`Lax` ones, and about states in which the tasks have not met: without either
condition it is false.

**`Station_proofs`, the station.** `WifiTypeCorrect`, `ScheduleHolds`, `BitCorrect`,
`RetriesEndByErrors`, for any delays, faults, numbers of outages, commands and
restarts, both callers, and an event queue of any length. `ScheduledIsReal` needs
that the timer is armed while the handler is about to set the flag
(`TimerInHandler`). `BitFollowsLink` speaks of an empty queue; inductive is what a
queue that is not empty tells (`EventsTellLink`): a GOT_IP of a connection that
is over has its DISCONNECTED behind it, and if the station is up the last of the
two in the queue, or the bit when there is none, says so, unless the GOT_IP
was `missed`; what a step does to the handlers is kept apart (`HandlerStep`,
`HandlerSetsBit`). The same fact gives
`RetriesEndByErrors` its hard case, a GOT_IP that stops the retry timer of an idle
station: the DISCONNECTED behind it will schedule another.

**`Station_proofs`, the rest.** `StationImplementsWifi`: every step of `Station` is a step of
`Wifi` or leaves its variables alone, so that the theorems about the station hold
of the firmware (`StationSchedule` draws one such conclusion). `ConfigCorrect`:
`ConfigIsSent` for any credentials and any number of writes, commands and
restarts. Its invariant `SentIsOnItsWay` follows the credentials: from CONNECT on
they are in NVS, then in the host task's buffer, then with the driver, unless a
reason has been recorded, and a recorded reason stays until the next CONNECT.

**`MqttTask_proofs`.** For queues of any length, any number of messages, sessions
and faults. `TlsHandleOwned`: `pc` fixes who owns the handle. `BrokerSeesOrder`:
what was sent, what is queued and what will be made are ascending, in this order
(`Ordered`); each coreMQTT call appends at most its own message to what was sent.
`NothingAfterTornPacket`: a packet a transport error cut short leaves the session in
`DisconnectPending`, in which no call writes, whatever other faults there are. It
says nothing of a packet the send timeout cut short, behind which the code does
write.

**`MqttQos_proofs`.** `ExactlyOnceHolds`, `AckedHolds`, `RecordsHold`,
`FirstInOrderHolds`: all that the run `mqtt_qos` checks but its liveness, for any
messages, identifiers and slots, both ways to resend, and any number of
connections lost and sessions forgotten. None is inductive, and no part of one can
be proved without the others, so there is one invariant, `QosInv`, and one lemma
per action. Its core is that in each direction an identifier stands for one
message and has at most one packet on its way: an order (PUBLISH, PUBREL) or the
answer to it, never both (`OnePacket`). `OutPackets` and `InPackets` say for each
such packet what state the record must be in and what the other side knows, which
is what makes the answer, when it is read, clear the right record although the
identifier may have been used before. `Resending` keeps this through a resumption:
what the cursor has still to send again is not on its way. `Owned` and `Sending`
tie records to messages; `Received` and `Taken` are the two sides' memory of QoS 2,
which `ExactlyOnce` needs and which a CONNACK that was lost breaks (`astray`).
`Ordered`, for `cb`, has the order of the table (`TableOrder`), of what is on its way,
and of what the broker has: nothing older than a packet on its way may wait for the
next connection (`QueueOrder`). The lemmas about the tables say once what
`addRecord` does: it keeps the records in their order, none of them further back
(`Keeps`), and puts a new one behind them (`Grows`).

**`MqttStream_proofs`, on the lemmas of `MqttWire_proofs`.** `StreamWholePacket`,
`StreamFramesInOrder`, `StreamOnlyWellFormed`, `StreamLengthExact`,
`StreamTopicMatches`: what the run `codec` checks but its liveness, for every request,
stream, packet, remaining length, topic and filter that the C types allow (`JobsOK`)
and every buffer of five bytes or more. The last three are about a job that only
judges, and are proved case by case over the deserializers, by computing with
numbers below 2^28 in base 128, and by induction over what is left of a name: at
each pair of places the C loop finds what comparing the levels from there
finds (`LevelsFrom`). The first two need `StreamInv`:

- `ReceiveInv`: while the loop runs, the packets given so far, followed by the
  packets in the rest of the stream, are the packets of the stream, and the rest is
  what is in the buffer and still to arrive (`Reading`). An iteration then
  keeps it if what it takes away is nothing, a whole packet that is given, or one
  that does not fit and is skipped; what `receiveSingleIteration` decides on the
  bytes it has must be what it would decide on all of them, which are lemmas about
  fronts of a packet (`HeaderPrefix`).
- `SendInv`: what is written and what is left in the vectors are together the packet
  that the copying serializer (`MQTT_Serialize...`) makes. Each call that
  assembles vectors is shown to start that way (`Makes`); a write moves bytes
  from one to the other (`Advance`). That the server then reads what was asked is a
  lemma about each serializer and `Says`, field by field.

A few things turned up on the way and were corrected in the model. Several `CASE`s
had arms that overlap: TLC takes the first that is true, the logic any of them, and
the code is an `if ... else if`, so they are that now. `Filters`, which reads the
filters of a SUBSCRIBE, had no value on one that is torn; it has now. And
`Packets`, the reference for a stream, ended it at a publish that is `Tolerated`,
and skipped a packet that does not fit although its type is refused; the run had
no such stream, and has one of each now (`Lenient` and one of `Malformed` in
`MCMqttStream`).

**Induction over data.** The library's induction theorems have an operator as
parameter, which the provers cannot instantiate. `NatInduct`, `SeqInduct` and
`LeastOf` (in `MqttWire_proofs`) have a set instead: one defines the set of the
numbers, or sequences, of which the claim is true and shows that it contains all.

**Model-checked only.** Liveness and everything that depends on fairness
(`SessionCompletes` and `AllRead` among it); the
invariants of `SensorChips`, which computes on sets of bits of concrete
registers, so that its small instance is the whole of each chip.

## 5. Not modelled

- **Rollback** (`ota_agent.c:361-402`): called by nothing, disabled in
  `sdkconfig`.
- **Functions that nothing calls**: `ble_manager_deinit`,
  `storage_service_save_wifi`, `sensor_init`, `i2c_scan.c`.
- **An application that sends again what it stored itself**: in `MqttQos` without
  `cb` it follows the loop of the header, and no other strategy.
- **`s_active_conn_handle`**: written and read by nothing else.
- **The sample rate**: only changes when a read is due, which `Sensors` leaves open.
- **cJSON** (vendored; what `mqtt_event_cb` does with it is a choice of messages),
  **TLS, I2C error names, log texts, GUI and dashboard**: libraries, wording, user
  interfaces.
- **Compensation arithmetic** of the chips: floating point.

## 6. Plan

Done, in this order: OTA (the part where an error bricks a device), Wi-Fi, MQTT
task, sensors, start-up and provisioning, coreMQTT, the chip drivers; then the
proofs of every safety invariant but those of the chips. Left:

1. `Device`: `Station` and `MqttTask` composed through `EVT_WIFI_CONNECTED` (each
   leaves the other's behaviour open now), to check that `Reconnects` needs no
   more of the bit than `Wifi` gives.
2. Lemmas about `SensorReg`: a field that is written leaves every disjoint field of
   its register alone and reads back as it was written, for any width and
   place, which is what `SettingsKept` rests on.
