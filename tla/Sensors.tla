------------------------------- MODULE Sensors -------------------------------
(***************************************************************************)
(* The sensors: sensor_profile.c (commands, on the BLE host task),         *)
(* sensors_manager.c (sensor_task: repair and read) and the I2C devices    *)
(* under both (sensor_driver_interface_manager.c, i2c_manager.c).          *)
(*                                                                         *)
(* Both tasks run the drivers' init, deinit and read on the same handles   *)
(* without a lock.  call[p] is the driver call task p is in.               *)
(***************************************************************************)
EXTENDS Integers, FiniteSetsExt

CONSTANTS
  N,        \* SENSOR_MAX
  Lax,      \* drivers whose full_init ignores every failure (bno055)
  MaxDev,   \* device handles at a time, those kept after their release included (bound)
  MaxCmds,  \* connect and disconnect commands (bound)
  MaxReads, \* read commands (bound)
  MaxFaults \* sensors unplugged and transfers that fail (bound)

Sensor == 1..N

ASSUME SensorConstants ==
  N \in Nat \ {0} /\ Lax \subseteq Sensor /\ {MaxDev, MaxCmds, MaxReads, MaxFaults} \subseteq Nat

VARIABLES
  bus,      \* bus_handle is set
  dev,      \* each driver's device handle, 0 for NULL
  live,     \* the device handles allocated on the bus
  inited,   \* gs_handle.inited of the drivers that have one
  i2cOK,    \* sensor_state[].i2c_init_flag
  initOK,   \* sensor_state[].sensor_init_flag
  conn,     \* sensor_state_ble[].is_connected
  err,      \* error_trigger_flag
  reading,  \* is_reading
  host,     \* the command the BLE host runs, and its loop index
  task,     \* where sensor_task is: scanning at j, at i of an inner loop
  call,     \* the driver call of each task
  present,  \* sensors that answer their address
  cmds, reads, faults, \* used up of the bounds
  met, misused  \* since power-on: both tasks were at one sensor; a freed handle was used

busVars == <<bus, dev, live, inited, i2cOK>>
flagVars == <<initOK, conn, err, reading>>
ram == <<busVars, flagVars, host, task, call>>
sensorVars == <<ram, present, cmds, reads, faults, met, misused>>

Proc == {"ble", "task"}
Other(p) == IF p = "ble" THEN "task" ELSE "ble"
All(x) == [s \in Sensor |-> x]

Fn == {"init", "deinit", "read"}
CallAt == Fn \cup {"none", "add", "config", "setup", "remove", "fetch", "done"}
Call == [fn: Fn, at: CallAt, s: Sensor, h: 0..MaxDev, full: BOOLEAN, ok: BOOLEAN]
NoCall == [fn |-> "read", at |-> "none", s |-> 1, h |-> 0, full |-> FALSE, ok |-> TRUE]
TaskAt == {"none", "start", "scan", "small", "all", "read"}

SensorsTypeOK ==
  /\ bus \in BOOLEAN
  /\ live \subseteq 1..MaxDev /\ dev \in [Sensor -> 0..MaxDev]
  /\ {inited, i2cOK, initOK, conn, reading, present} \subseteq [Sensor -> BOOLEAN]
  /\ err \in [Sensor -> {"OK", "BUS", "HARDWARE"}]
  /\ host \in [cmd: {"none", "one", "on", "off"}, i: 1..N + 1]
  /\ task \in [at: TaskAt, j: 1..N + 1, i: 1..N + 1]
  /\ call \in [Proc -> Call]
  /\ cmds \in 0..MaxCmds /\ reads \in 0..MaxReads /\ faults \in 0..MaxFaults
  /\ met \in BOOLEAN /\ misused \in BOOLEAN

Idle == [cmd |-> "none", i |-> 1]
NotCreated == [at |-> "none", j |-> 1, i |-> 1]
NoCalls == [p \in Proc |-> NoCall]

SensorsInit ==
  /\ bus = FALSE /\ dev = All(0) /\ live = {}
  /\ inited = All(FALSE) /\ i2cOK = All(FALSE)
  /\ initOK = All(FALSE) /\ conn = All(FALSE) /\ err = All("OK") /\ reading = All(FALSE)
  /\ host = Idle /\ task = NotCreated /\ call = NoCalls
  /\ present = All(TRUE)
  /\ cmds = 0 /\ reads = 0 /\ faults = 0 /\ met = FALSE /\ misused = FALSE

Fault == faults < MaxFaults /\ faults' = faults + 1

-----------------------------------------------------------------------------
(* Driver calls.  Each p is in at most one, on sensor call[p].s.           *)

At(p, at) == call[p].at = at
Go(p, at) == call' = [call EXCEPT ![p].at = at]
Take(p, at, h) == call' = [call EXCEPT ![p].at = at, ![p].h = h]
Finish(p, ok) == call' = [call EXCEPT ![p].at = "done", ![p].h = 0, ![p].ok = ok]

\* p calls a driver's fn; of init only the bus part unless full.
Enter(p, fn, s, full) ==
  /\ call' = [call EXCEPT ![p] = [fn |-> fn, at |-> fn, s |-> s, h |-> 0, full |-> full, ok |-> TRUE]]
  /\ met' = (met \/ (~At(Other(p), "none") /\ call[Other(p)].s = s))
Leave(p) == call' = [call EXCEPT ![p] = NoCall]

\* Using a handle that was freed goes unnoticed or panics, which resets.
Misuse(h) == misused' = (misused \/ h \notin live \cup {0})
Panics(p) ==
  /\ call[p].h \notin live \cup {0} /\ call[p].at \in {"setup", "fetch", "remove"}
  /\ met' = FALSE /\ misused' = FALSE
  /\ bus' = FALSE /\ dev' = All(0) /\ live' = {}
  /\ inited' = All(FALSE) /\ i2cOK' = All(FALSE)
  /\ initOK' = All(FALSE) /\ conn' = All(FALSE) /\ err' = All("OK") /\ reading' = All(FALSE)
  /\ host' = Idle /\ task' = NotCreated /\ call' = NoCalls
  /\ UNCHANGED <<present, cmds, reads, faults>>

Driver == UNCHANGED <<host, task, conn, err, reading, present, cmds, reads, met>>

\* LINK_INIT clears inited; sensor_driver_interface_init looks at the handle.
DriverInit(p) ==
  LET c == call[p] IN
  /\ At(p, "init")
  /\ inited' = IF c.full THEN [inited EXCEPT ![c.s] = FALSE] ELSE inited
  /\ IF dev[c.s] = 0 THEN Go(p, "add")
     ELSE IF c.full /\ c.s \in Lax THEN Go(p, "config")
     ELSE Finish(p, FALSE)
  /\ Driver /\ UNCHANGED <<bus, dev, live, i2cOK, initOK, faults, misused>>

\* A handle nothing refers to: the allocator may reuse others, which would
\* hide their misuse.
FreshHandles == 1..MaxDev \ (live \cup {dev[s] : s \in Sensor} \cup {call[p].h : p \in Proc})

\* i2c_add_device: one probe, and the device is added if it answers.
DriverAdd(p) ==
  LET c == call[p] IN
  /\ At(p, "add")
  /\ IF bus /\ present[c.s]
     THEN /\ FreshHandles # {}
          /\ LET h == Min(FreshHandles)
             IN live' = live \cup {h} /\ dev' = [dev EXCEPT ![c.s] = h]
          /\ i2cOK' = [i2cOK EXCEPT ![c.s] = TRUE]
          /\ IF c.full THEN Go(p, "config") ELSE Finish(p, TRUE)
     ELSE /\ i2cOK' = [i2cOK EXCEPT ![c.s] = FALSE]
          /\ IF c.full /\ c.s \in Lax THEN Go(p, "config") ELSE Finish(p, FALSE)
          /\ UNCHANGED <<dev, live>>
  /\ Driver /\ UNCHANGED <<bus, inited, initOK, faults, misused>>

\* A transfer takes the handle, then runs with it, retries included.
DriverConfig(p) ==
  /\ At(p, "config") /\ Take(p, "setup", dev[call[p].s])
  /\ Driver /\ UNCHANGED <<busVars, initOK, faults, misused>>

DriverRead(p) ==
  LET c == call[p] IN
  /\ At(p, "read")
  /\ IF c.s \in Lax \/ inited[c.s] THEN Take(p, "fetch", dev[c.s]) ELSE Finish(p, FALSE)
  /\ Driver /\ UNCHANGED <<busVars, initOK, faults, misused>>

Answers(c) == c.h \in live /\ present[c.s]

TransferOK(p) ==
  LET c == call[p] IN
  /\ c.at \in {"setup", "fetch"} /\ Answers(c) /\ Finish(p, TRUE)
  /\ inited' = IF c.at = "setup" THEN [inited EXCEPT ![c.s] = TRUE] ELSE inited
  /\ Driver /\ UNCHANGED <<bus, dev, live, i2cOK, initOK, faults, misused>>

\* A driver whose setup fails says so, but for Lax.  It gives its device back,
\* unless it skips that (bh1750fvi_init's last writes) or its *_deinit gives up
\* at a transfer of its own, before or after inited was set.
TransferFails(p) ==
  LET c == call[p] IN
  /\ c.at \in {"setup", "fetch"}
  /\ IF Answers(c) THEN Fault ELSE UNCHANGED faults
  /\ Misuse(c.h)
  /\ \/ c.at = "fetch" /\ Finish(p, FALSE) /\ UNCHANGED inited
     \/ c.at = "setup" /\ c.s \in Lax /\ Finish(p, TRUE) /\ UNCHANGED inited
     \/ /\ c.at = "setup" /\ c.s \notin Lax /\ UNCHANGED inited
        /\ call' = [call EXCEPT ![p].at = "deinit", ![p].ok = FALSE]
     \/ /\ c.at = "setup" /\ c.s \notin Lax /\ Finish(p, FALSE)
        /\ inited' \in {inited, [inited EXCEPT ![c.s] = TRUE]}
  /\ Driver /\ UNCHANGED <<bus, dev, live, i2cOK, initOK>>

\* sensor_driver_interface_deinit
DriverDeinit(p) ==
  LET c == call[p] IN
  /\ At(p, "deinit")
  /\ IF dev[c.s] = 0 THEN Finish(p, c.ok) ELSE Take(p, "remove", dev[c.s])
  /\ Driver /\ UNCHANGED <<busVars, initOK, faults, misused>>

\* Faulty: the pointer to the removed device is kept.
RemoveKeepsPointer(p) ==
  LET c == call[p] IN
  /\ At(p, "remove")
  /\ live' = live \ {c.h} /\ Misuse(c.h)
  /\ initOK' = [initOK EXCEPT ![c.s] = FALSE]
  /\ Finish(p, c.ok)
  /\ Driver /\ UNCHANGED <<bus, dev, inited, i2cOK, faults>>

DriverRemove(p) ==
  LET c == call[p] IN
  /\ At(p, "remove")
  /\ live' = live \ {c.h} /\ Misuse(c.h)
  /\ dev' = [dev EXCEPT ![c.s] = 0] /\ initOK' = [initOK EXCEPT ![c.s] = FALSE]
  /\ Finish(p, c.ok)
  /\ Driver /\ UNCHANGED <<bus, inited, i2cOK, faults>>

DriverStep(p) ==
  \/ DriverInit(p) \/ DriverAdd(p) \/ DriverConfig(p) \/ DriverRead(p)
  \/ TransferOK(p) \/ TransferFails(p) \/ DriverDeinit(p) \/ DriverRemove(p) \/ Panics(p)

-----------------------------------------------------------------------------
(* Commands, on the BLE host task                                          *)

Command == host.cmd = "none" /\ cmds < MaxCmds /\ cmds' = cmds + 1

CreateTask == task' = IF task.at = "none" THEN [task EXCEPT !.at = "start"] ELSE task

Outside == UNCHANGED <<busVars, present, reads, faults, misused>>

\* A CONNECT command toggles: it disconnects a sensor that is connected.
CmdConn(s) ==
  /\ Command /\ CreateTask
  /\ host' = [cmd |-> "one", i |-> s]
  /\ Enter("ble", IF conn[s] THEN "deinit" ELSE "init", s, TRUE)
  /\ Outside /\ UNCHANGED flagVars

\* Faulty: the flag is set although init failed.
ConnSetsFlag ==
  LET s == host.i IN
  /\ host.cmd = "one" /\ At("ble", "done") /\ Leave("ble")
  /\ conn' = [conn EXCEPT ![s] = ~@ /\ call["ble"].ok]
  /\ initOK' = [initOK EXCEPT ![s] = ~conn[s]]
  /\ host' = Idle
  /\ Outside /\ UNCHANGED <<err, reading, task, cmds, met>>

CmdConnDone ==
  LET s == host.i
      up == ~conn[s] /\ call["ble"].ok
  IN /\ host.cmd = "one" /\ At("ble", "done") /\ Leave("ble")
     /\ IF conn[s] \/ up
        THEN conn' = [conn EXCEPT ![s] = up] /\ initOK' = [initOK EXCEPT ![s] = up]
        ELSE UNCHANGED <<conn, initOK>>
     /\ host' = Idle
     /\ Outside /\ UNCHANGED <<err, reading, task, cmds, met>>

CmdConnAll(on) ==
  /\ Command /\ host' = [cmd |-> IF on THEN "on" ELSE "off", i |-> 1]
  /\ IF on THEN CreateTask ELSE UNCHANGED task
  /\ Outside /\ UNCHANGED <<flagVars, call, met>>

ConnAllNext ==
  /\ host.cmd \in {"on", "off"} /\ At("ble", "none")
  /\ LET todo == {i \in host.i..N : conn[i] # (host.cmd = "on")} IN
     IF todo = {} THEN host' = Idle /\ UNCHANGED <<call, met>>
     ELSE /\ host' = [host EXCEPT !.i = Min(todo)]
          /\ Enter("ble", IF host.cmd = "on" THEN "init" ELSE "deinit", Min(todo), TRUE)
  /\ Outside /\ UNCHANGED <<flagVars, task, cmds>>

\* is_connected is set whatever init returned.
ConnAllDone ==
  /\ host.cmd \in {"on", "off"} /\ At("ble", "done") /\ Leave("ble")
  /\ conn' = [conn EXCEPT ![host.i] = (host.cmd = "on")]
  /\ host' = [host EXCEPT !.i = @ + 1]
  /\ Outside /\ UNCHANGED <<initOK, err, reading, task, cmds, met>>

CmdRead ==
  /\ host.cmd = "none" /\ reads < MaxReads /\ reads' = reads + 1
  /\ reading' \in {All(TRUE), All(FALSE)} \cup {[reading EXCEPT ![s] = ~@] : s \in Sensor}
  /\ UNCHANGED <<busVars, initOK, conn, err, host, task, call, present, cmds, faults, met, misused>>

Host == CmdConnDone \/ ConnAllNext \/ ConnAllDone

-----------------------------------------------------------------------------
(* sensor_task                                                             *)

TaskOutside == UNCHANGED <<conn, reading, host, present, cmds, reads, faults, misused>>

TaskStart ==
  /\ task.at = "start"
  /\ bus' = TRUE /\ err' = All("OK")
  /\ task' = [at |-> "scan", j |-> 1, i |-> 1]
  /\ TaskOutside /\ UNCHANGED <<dev, live, inited, i2cOK, initOK, call, met>>

Faulty == {j \in task.j..N : err[j] # "OK"}

ScanErrors ==
  /\ task.at = "scan"
  /\ task' = IF Faulty = {} THEN [at |-> "read", j |-> 1, i |-> 1]
             ELSE LET j == Min(Faulty)
                  IN [at |-> IF err[j] = "BUS" THEN "small" ELSE "all", j |-> j, i |-> 1]
  /\ TaskOutside /\ UNCHANGED <<busVars, initOK, err, call, met>>

\* sensor_find_error_and_fix_small, _all: every sensor whose flag is false,
\* the faulty one or not.
Fixing == task.at \in {"small", "all"}
Suspect(s) == IF task.at = "small" THEN ~i2cOK[s] ELSE ~initOK[s]

FixNext ==
  /\ Fixing /\ At("task", "none")
  /\ IF \E i \in task.i..N : Suspect(i)
     THEN LET i == Min({k \in task.i..N : Suspect(k)})
          IN Enter("task", "deinit", i, FALSE) /\ task' = [task EXCEPT !.i = i]
     ELSE task' = [at |-> "scan", j |-> task.j + 1, i |-> 1] /\ UNCHANGED <<call, met>>
  /\ TaskOutside /\ UNCHANGED <<busVars, initOK, err>>

\* deinit has returned: init is next, the bus part of it or the whole; then
\* the error is forgotten, whatever init returned.
FixDone ==
  /\ Fixing /\ At("task", "done")
  /\ IF call["task"].fn = "deinit"
     THEN Enter("task", "init", task.i, task.at = "all") /\ UNCHANGED <<err, task>>
     ELSE /\ Leave("task") /\ UNCHANGED met
          /\ err' = [err EXCEPT ![task.i] = "OK"] /\ task' = [task EXCEPT !.i = @ + 1]
  /\ TaskOutside /\ UNCHANGED <<busVars, initOK>>

\* sensor_read_all: the next sensor that is read and due.
ReadSensor(s) ==
  /\ task.at = "read" /\ task.i <= s /\ At("task", "none") /\ reading[s]
  /\ task' = [task EXCEPT !.i = s] /\ Enter("task", "read", s, FALSE)
  /\ TaskOutside /\ UNCHANGED <<busVars, initOK, err>>

\* No other is due.
ReadEnd ==
  /\ task.at = "read" /\ At("task", "none")
  /\ task' = [at |-> "scan", j |-> 1, i |-> 1]
  /\ TaskOutside /\ UNCHANGED <<busVars, initOK, err, call, met>>

\* Faulty: a hardware error does not clear sensor_init_flag.
DiagnoseKeepsFlag ==
  LET s == task.i IN
  /\ task.at = "read" /\ At("task", "done") /\ Leave("task")
  /\ task' = [task EXCEPT !.i = @ + 1]
  /\ IF call["task"].ok THEN UNCHANGED <<i2cOK, err>>
     ELSE IF bus /\ present[s]
     THEN err' = [err EXCEPT ![s] = "HARDWARE"] /\ UNCHANGED i2cOK
     ELSE i2cOK' = [i2cOK EXCEPT ![s] = FALSE] /\ err' = [err EXCEPT ![s] = "BUS"]
  /\ TaskOutside /\ UNCHANGED <<bus, dev, live, inited, initOK, met>>

\* sensor_eror_check_and_set_flag: a probe tells a bus from a hardware error.
ReadDone ==
  LET s == task.i IN
  /\ task.at = "read" /\ At("task", "done") /\ Leave("task")
  /\ task' = [task EXCEPT !.i = @ + 1]
  /\ IF call["task"].ok THEN UNCHANGED <<i2cOK, initOK, err>>
     ELSE IF bus /\ present[s]
     THEN initOK' = [initOK EXCEPT ![s] = FALSE] /\ err' = [err EXCEPT ![s] = "HARDWARE"]
          /\ UNCHANGED i2cOK
     ELSE i2cOK' = [i2cOK EXCEPT ![s] = FALSE] /\ err' = [err EXCEPT ![s] = "BUS"]
          /\ UNCHANGED initOK
  /\ TaskOutside /\ UNCHANGED <<bus, dev, live, inited, met>>

Task ==
  \/ TaskStart \/ ScanErrors \/ FixNext \/ FixDone
  \/ (\E s \in Sensor : ReadSensor(s)) \/ ReadEnd \/ ReadDone

-----------------------------------------------------------------------------
Unplug(s) ==
  /\ present[s] /\ Fault /\ present' = [present EXCEPT ![s] = FALSE]
  /\ UNCHANGED <<ram, cmds, reads, met, misused>>

Plug(s) ==
  /\ ~present[s] /\ present' = [present EXCEPT ![s] = TRUE]
  /\ UNCHANGED <<ram, cmds, reads, faults, met, misused>>

SensorsNext ==
  \/ \E s \in Sensor : CmdConn(s) \/ Unplug(s) \/ Plug(s)
  \/ (\E on \in BOOLEAN : CmdConnAll(on)) \/ CmdRead
  \/ Host \/ Task \/ \E p \in Proc : DriverStep(p)

SensorsSpec == SensorsInit /\ [][SensorsNext]_sensorVars

\* Both tasks run, and a sensor that stays due is read.
SensorsFairSpec ==
  /\ SensorsSpec
  /\ WF_sensorVars(Host \/ DriverStep("ble")) /\ WF_sensorVars(Task \/ DriverStep("task"))
  /\ \A s \in Sensor : SF_sensorVars(ReadSensor(s))

-----------------------------------------------------------------------------
(* Properties                                                              *)

\* sensor_driver_interface_manager.c:15 and :46 check a pointer that both
\* tasks write.  As long as the two have never been at one sensor at the same
\* time, no handle is leaked, left dangling, freed twice or used when freed.
SoundUntilTasksMeet ==
  /\ SensorsTypeOK
  /\ ~met => /\ ~misused
             /\ live = {dev[s] : s \in Sensor} \ {0}
             /\ \A s, t \in Sensor : dev[s] = dev[t] /\ s # t => dev[s] = 0

\* A sensor's device is added and its driver, if it keeps account, initialised
Works(s) == dev[s] \in live /\ (s \in Lax \/ inited[s])

\* sensor_init_flag is set only of sensors that work, in spite of refused calls,
\* failed transfers and repairs: with two exceptions the code does have, a
\* driver that ignores every failure (Lax), and any state since both tasks
\* have been at one sensor at the same time (met).
FlagTruthfulApart ==
  ~met => \A s \in Sensor \ Lax : initOK[s] => Works(s)

\* sensor_types.h:42 calls sensor_state, without an exception, the state of
\* connection and working properly: a sensor whose sensor_init_flag is set is
\* on the bus and initialised.  The code does not keep it.
InitFlagTruthful == \A s \in Sensor : initOK[s] => Works(s)

\* sensor_task's repair: a sensor that answers and is read keeps coming back to
\* having its device added and its driver initialised, whatever failed, was
\* unplugged or was torn down under it before.  (It need not stay so: an error
\* left on a sensor whose sensor_init_flag a command has set again makes every
\* scan tear the unflagged sensors down.)
Recovers ==
  \A s \in Sensor :
    <>[](present[s] /\ reading[s] /\ task.at # "none") => []<>Works(s)
=============================================================================
