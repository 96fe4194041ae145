---------------------------- MODULE Sensors_proofs ----------------------------
(***************************************************************************)
(* Theorems about the sensors, for every number of them, every set of      *)
(* drivers that ignore failures and every bound.                           *)
(*                                                                         *)
(* Argument: as long as the BLE host and sensor_task have not met at one   *)
(* sensor, every driver call owns its sensor.  Sound says what such a call *)
(* may rely on at each of its steps (Follows), why it was made (Purpose),  *)
(* that no two calls are at one sensor (Apart), that the drivers' pointers  *)
(* and the handles of the bus are in step (Handles), and that               *)
(* sensor_init_flag tells the truth (Truthful).  A panic resets everything. *)
(***************************************************************************)
EXTENDS Sensors, FiniteSetTheorems, WellFoundedInduction, TLAPS

InCall(p) == ~At(p, "none")

\* Where the loops of both tasks are, whether they have met or not.
Places ==
  /\ host.cmd = "none" => ~InCall("ble")
  /\ InCall("ble") => call["ble"].s = host.i
  /\ InCall("task") => call["task"].s = task.i /\ task.at \in {"small", "all", "read"}
  /\ Fixing => task.j \in Sensor

\* Which call each command and each loop makes.
Purpose ==
  /\ host.cmd = "one" => InCall("ble")
  /\ InCall("ble") => /\ call["ble"].full
                      /\ call["ble"].fn = IF host.cmd = "on" \/ (host.cmd = "one" /\ ~conn[host.i])
                                          THEN "init" ELSE "deinit"
  /\ InCall("task") => call["task"].fn \in IF Fixing THEN {"init", "deinit"} ELSE {"read"}

Apart == InCall("ble") /\ InCall("task") => call["ble"].s # call["task"].s

\* A handle is on the bus if and only if one driver points to it.
Handles ==
  /\ ~misused
  /\ live = {dev[s] : s \in Sensor} \ {0}
  /\ \A s, t \in Sensor : dev[s] = dev[t] /\ s # t => dev[s] = 0

Truthful == \A s \in Sensor \ Lax : initOK[s] => dev[s] # 0 /\ inited[s] /\ conn[s]

\* What the step call p is at may rely on.
Follows(p) ==
  LET c == call[p]
      strict == c.s \notin Lax
  IN /\ c.at \in {"setup", "fetch", "remove"} => c.h = dev[c.s]
     /\ c.at = "add" => dev[c.s] = 0
     /\ c.at \in {"init", "add", "config", "setup"} => c.fn = "init"
     /\ c.at \in {"read", "fetch"} => c.fn = "read"
     /\ c.fn = "init" /\ c.at \in {"deinit", "remove"} => ~c.ok
     /\ strict /\ InCall(p) /\ c.fn = "init" => ~initOK[c.s]
     /\ strict /\ c.fn = "init" /\ c.full /\ c.at = "done" /\ c.ok => dev[c.s] # 0 /\ inited[c.s]
     /\ c.fn = "deinit" /\ c.at = "done" => dev[c.s] = 0 /\ (strict => ~initOK[c.s])

Sound == Purpose /\ Apart /\ Handles /\ Truthful /\ \A p \in Proc : Follows(p)

SensorsInv == SensorsTypeOK /\ Places /\ (~met => Sound)

-----------------------------------------------------------------------------
(* Lemmas.                                                                  *)

\* The least of a set is one of it: the drivers' loops and the allocator
\* pick an element of the set they search.
LEMMA MinIn ==
  ASSUME NEW M \in Nat, NEW S \in SUBSET (0..M), S # {}
  PROVE  Min(S) \in S
<1> DEFINE below == {0..x : x \in S}
           R == StrictSubsetOrdering(0..M)
<1>1. IsWellFoundedOn(R, SUBSET (0..M))
  <2>1. IsFiniteSet(0..M) BY FS_Interval
  <2>2. FiniteSubsetsOf(0..M) = SUBSET (0..M) BY <2>1, FS_FiniteSubsetsOfFinite
  <2> QED BY <2>2, FS_StrictSubsetOrderingWellFounded
<1>2. \A x \in S : 0..x \in SUBSET (0..M) OBVIOUS
<1>3. below \subseteq SUBSET (0..M) BY <1>2
<1>4. below # {} OBVIOUS
<1>5. PICK b \in below : \A c \in below : ~(<<c, b>> \in R)
  <2> HIDE DEF below, R
  <2> QED BY <1>1, <1>3, <1>4, WFMin
<1>6. PICK x \in S : b = 0..x OBVIOUS
<1>7. ASSUME NEW y \in S PROVE x <= y
  <2>1. 0..y \in below OBVIOUS
  <2>2. ~(<<0..y, 0..x>> \in R) BY <1>5, <1>6, <2>1
  <2>3. ~(0..y \subseteq 0..x /\ 0..y # 0..x) BY <1>2, <2>2 DEF StrictSubsetOrdering
  <2>4. x \in Nat /\ y \in Nat OBVIOUS
  <2>5. ASSUME y < x PROVE FALSE
    <3>1. 0..y \subseteq 0..x BY <2>4, <2>5
    <3>2. x \in 0..x /\ x \notin 0..y BY <2>4, <2>5
    <3> QED BY <2>3, <3>1, <3>2
  <2> QED BY <2>4, <2>5
<1> QED BY <1>7 DEF Min

LEMMA SensorTypes ==
  ASSUME SensorsTypeOK
  PROVE  /\ N \in Nat /\ N >= 1 /\ 1 \in Sensor /\ MaxDev \in Nat /\ Sensor \subseteq 1..N + 1
         /\ bus \in BOOLEAN /\ live \in SUBSET (1..MaxDev) /\ dev \in [Sensor -> 0..MaxDev]
         /\ inited \in [Sensor -> BOOLEAN] /\ i2cOK \in [Sensor -> BOOLEAN]
         /\ initOK \in [Sensor -> BOOLEAN] /\ conn \in [Sensor -> BOOLEAN]
         /\ call \in [Proc -> Call] /\ NoCall \in Call /\ "ble" \in Proc /\ "task" \in Proc
         /\ \A p \in Proc : call[p].s \in Sensor /\ call[p].h \in 0..MaxDev
         /\ \A p \in Proc : Other(p) \in Proc /\ Other(p) # p
<1>1. N \in Nat /\ N >= 1 /\ MaxDev \in Nat BY SensorConstants
<1>2. 1 \in Sensor /\ Sensor \subseteq 1..N + 1 /\ 0 \in 0..MaxDev BY <1>1 DEF Sensor
<1>3. call \in [Proc -> Call] BY DEF SensorsTypeOK
<1>4. NoCall \in Call BY <1>2 DEF NoCall, Call, CallAt, Fn
<1>5. \A p \in Proc : call[p].s \in Sensor /\ call[p].h \in 0..MaxDev BY <1>3 DEF Call
<1> QED BY <1>1, <1>2, <1>3, <1>4, <1>5 DEF SensorsTypeOK, Proc, Other

-----------------------------------------------------------------------------
(* Driver calls.                                                            *)

\* A step of driver call p, which becomes c, keeps to its sensor.
LEMMA DriverKeeps ==
  ASSUME SensorsInv, NEW p \in Proc, NEW c \in Call, InCall(p), Driver, bus' = bus,
         call' = [call EXCEPT ![p] = c], c.at # "none",
         c.s = call[p].s, c.fn = call[p].fn, c.full = call[p].full,
         live' \subseteq 1..MaxDev, dev' \in [Sensor -> 0..MaxDev],
         inited' \in [Sensor -> BOOLEAN], i2cOK' \in [Sensor -> BOOLEAN],
         initOK' \in [Sensor -> BOOLEAN], faults' \in 0..MaxFaults, misused' \in BOOLEAN,
         ~met => /\ Handles' /\ Follows(p)'
                 /\ \A t \in Sensor \ {c.s} : dev'[t] = dev[t] /\ inited'[t] = inited[t] /\ initOK'[t] = initOK[t]
                 /\ initOK'[c.s] => initOK[c.s]
                 /\ c.s \notin Lax /\ initOK'[c.s] => dev'[c.s] # 0 /\ inited'[c.s]
  PROVE  SensorsInv'
<1>1. /\ UNCHANGED <<host, task, conn, err, reading, present, cmds, reads, met>>
      /\ call \in [Proc -> Call] /\ Proc = {"ble", "task"}
  BY SensorTypes DEF Driver, SensorsInv, Proc
<1>2. call' \in [Proc -> Call] /\ call'[p] = c /\ \A x \in Proc : x # p => call'[x] = call[x]
  BY <1>1
<1>3. SensorsTypeOK' BY <1>1, <1>2 DEF SensorsInv, SensorsTypeOK
<1>4. \A x \in Proc : /\ InCall(x)' <=> InCall(x)
                      /\ call'[x].s = call[x].s /\ call'[x].fn = call[x].fn /\ call'[x].full = call[x].full
  BY <1>2 DEF InCall, At
<1>5. Places' BY <1>1, <1>4 DEF SensorsInv, Places, Fixing
<1>6. ASSUME ~met PROVE Sound'
  <2>1. Purpose' BY <1>1, <1>4, <1>6 DEF SensorsInv, Sound, Purpose, Fixing
  <2>2. Apart' BY <1>1, <1>4, <1>6 DEF SensorsInv, Sound, Apart
  <2>3. Truthful' BY <1>1, <1>6 DEF SensorsInv, Sound, Truthful
  <2>4. ASSUME NEW x \in Proc, x # p PROVE Follows(x)'
    <3>1. InCall(x) => call[x].s # c.s
      BY <1>1, <1>6, <2>4 DEF SensorsInv, Sound, Apart
    <3>2. Follows(x) BY <1>6 DEF SensorsInv, Sound
    <3>3. call'[x] = call[x] /\ call[x].s \in Sensor BY <1>2, <2>4, SensorTypes DEF SensorsInv
    <3> QED BY <1>6, <3>1, <3>2, <3>3 DEF Follows, InCall, At
  <2> QED BY <1>6, <2>1, <2>2, <2>3, <2>4 DEF Sound
<1> QED BY <1>1, <1>3, <1>5, <1>6 DEF SensorsInv

\* Call p goes on as c.
Becomes(p, c) ==
  /\ call' = [call EXCEPT ![p] = c] /\ call'[p] = c
  /\ c.s = call[p].s /\ c.fn = call[p].fn /\ c.full = call[p].full

LEMMA GoCall ==
  ASSUME SensorsInv, NEW p \in Proc, NEW at \in CallAt, Go(p, at)
  PROVE  \E c \in Call : Becomes(p, c) /\ c.at = at /\ c.h = call[p].h /\ c.ok = call[p].ok
<1> DEFINE c == [call[p] EXCEPT !.at = at]
<1>1. call \in [Proc -> Call] /\ call[p] \in Call /\ 0 \in 0..MaxDev /\ "done" \in CallAt
  BY SensorTypes DEF SensorsInv, CallAt
<1>2. c \in Call /\ c.at = at /\ c.h = call[p].h /\ c.ok = call[p].ok
      /\ c.s = call[p].s /\ c.fn = call[p].fn /\ c.full = call[p].full
  BY <1>1 DEF Call
<1>3. call' = [call EXCEPT ![p] = c] BY <1>1 DEF Go, Take, Finish
<1> HIDE DEF c
<1> QED BY <1>1, <1>2, <1>3 DEF Becomes

LEMMA TakeCall ==
  ASSUME SensorsInv, NEW p \in Proc, NEW at \in CallAt, NEW h \in 0..MaxDev, Take(p, at, h)
  PROVE  \E c \in Call : Becomes(p, c) /\ c.at = at /\ c.h = h /\ c.ok = call[p].ok
<1> DEFINE c == [call[p] EXCEPT !.at = at, !.h = h]
<1>1. call \in [Proc -> Call] /\ call[p] \in Call /\ 0 \in 0..MaxDev /\ "done" \in CallAt
  BY SensorTypes DEF SensorsInv, CallAt
<1>2. c \in Call /\ c.at = at /\ c.h = h /\ c.ok = call[p].ok
      /\ c.s = call[p].s /\ c.fn = call[p].fn /\ c.full = call[p].full
  BY <1>1 DEF Call
<1>3. call' = [call EXCEPT ![p] = c] BY <1>1 DEF Go, Take, Finish
<1> HIDE DEF c
<1> QED BY <1>1, <1>2, <1>3 DEF Becomes

LEMMA FinishCall ==
  ASSUME SensorsInv, NEW p \in Proc, NEW ok \in BOOLEAN, Finish(p, ok)
  PROVE  \E c \in Call : Becomes(p, c) /\ c.at = "done" /\ c.h = 0 /\ c.ok = ok
<1> DEFINE c == [call[p] EXCEPT !.at = "done", !.h = 0, !.ok = ok]
<1>1. call \in [Proc -> Call] /\ call[p] \in Call /\ 0 \in 0..MaxDev /\ "done" \in CallAt
  BY SensorTypes DEF SensorsInv, CallAt
<1>2. c \in Call /\ c.at = "done" /\ c.h = 0 /\ c.ok = ok
      /\ c.s = call[p].s /\ c.fn = call[p].fn /\ c.full = call[p].full
  BY <1>1 DEF Call
<1>3. call' = [call EXCEPT ![p] = c] BY <1>1 DEF Go, Take, Finish
<1> HIDE DEF c
<1> QED BY <1>1, <1>2, <1>3 DEF Becomes

LEMMA FailCall ==
  ASSUME SensorsInv, NEW p \in Proc, NEW at \in CallAt, call' = [call EXCEPT ![p].at = at, ![p].ok = FALSE]
  PROVE  \E c \in Call : Becomes(p, c) /\ c.at = at /\ c.h = call[p].h /\ c.ok = FALSE
<1> DEFINE c == [call[p] EXCEPT !.at = at, !.ok = FALSE]
<1>1. call \in [Proc -> Call] /\ call[p] \in Call /\ 0 \in 0..MaxDev /\ "done" \in CallAt
  BY SensorTypes DEF SensorsInv, CallAt
<1>2. c \in Call /\ c.at = at /\ c.h = call[p].h /\ c.ok = FALSE
      /\ c.s = call[p].s /\ c.fn = call[p].fn /\ c.full = call[p].full
  BY <1>1 DEF Call
<1>3. call' = [call EXCEPT ![p] = c] BY <1>1 DEF Go, Take, Finish
<1> HIDE DEF c
<1> QED BY <1>1, <1>2, <1>3 DEF Becomes

LEMMA CallPoints ==
  CallAt = {"init", "deinit", "read", "none", "add", "config", "setup", "remove", "fetch", "done"}
  BY DEF CallAt, Fn

\* A step that leaves the bus and the flags alone, but for inited.
LEMMA CallMoves ==
  ASSUME SensorsInv, NEW p \in Proc, NEW c \in Call, InCall(p), Becomes(p, c), c.at # "none", Driver,
         UNCHANGED <<bus, dev, live, i2cOK, initOK>>,
         inited' \in [Sensor -> BOOLEAN], faults' \in 0..MaxFaults, misused' \in BOOLEAN,
         \A t \in Sensor \ {c.s} : inited'[t] = inited[t],
         ~met => Follows(p)' /\ ~misused' /\ (inited'[c.s] \/ inited'[c.s] = inited[c.s] \/ ~initOK[c.s] \/ c.s \in Lax)
  PROVE  SensorsInv'
<1>1. /\ live \subseteq 1..MaxDev /\ dev \in [Sensor -> 0..MaxDev] /\ c.s \in Sensor
      /\ i2cOK \in [Sensor -> BOOLEAN] /\ initOK \in [Sensor -> BOOLEAN]
  BY SensorTypes DEF SensorsInv, Call
<1>2. ~met => Handles' BY DEF SensorsInv, Sound, Handles
<1>3. ~met => (c.s \notin Lax /\ initOK'[c.s] => dev'[c.s] # 0 /\ inited'[c.s])
  BY <1>1 DEF SensorsInv, Sound, Truthful
<1> QED BY <1>1, <1>2, <1>3, DriverKeeps DEF Becomes

LEMMA DriverInitStep ==
  ASSUME SensorsInv, NEW p \in Proc, DriverInit(p)
  PROVE  SensorsInv'
<1> DEFINE s == call[p].s
<1>1. /\ call[p].at = "init" /\ InCall(p) /\ Driver
      /\ UNCHANGED <<bus, dev, live, i2cOK, initOK, faults, misused>>
      /\ inited' = (IF call[p].full THEN [inited EXCEPT ![s] = FALSE] ELSE inited)
  BY DEF DriverInit, At, InCall
<1>2. PICK c \in Call :
        /\ Becomes(p, c) /\ c.at \in {"add", "config", "done"} /\ (c.at = "done" => ~c.ok)
        /\ c.at = "add" => dev[s] = 0
  <2>1. {"add", "config", "done"} \subseteq CallAt /\ 0 \in 0..MaxDev BY CallPoints, SensorTypes DEF SensorsInv
  <2>2. CASE Go(p, "add") /\ dev[s] = 0 BY <2>1, <2>2, GoCall
  <2>3. CASE Go(p, "config") BY <2>1, <2>3, GoCall
  <2>4. CASE Finish(p, FALSE) BY <2>4, FinishCall
  <2> QED BY <2>2, <2>3, <2>4 DEF DriverInit
<1>3. /\ s \in Sensor /\ inited \in [Sensor -> BOOLEAN] /\ inited' \in [Sensor -> BOOLEAN]
      /\ faults \in 0..MaxFaults /\ misused \in BOOLEAN
  BY <1>1, SensorTypes DEF SensorsInv, SensorsTypeOK
<1>4. \A t \in Sensor \ {s} : inited'[t] = inited[t] BY <1>1, <1>3
<1>5. ~met => Follows(p) /\ ~misused BY DEF SensorsInv, Sound, Handles
<1>6. ~met => Follows(p)' /\ (~initOK[s] \/ s \in Lax)
  BY <1>1, <1>2, <1>5 DEF Follows, Becomes, InCall, At
<1> QED BY <1>1, <1>2, <1>3, <1>4, <1>5, <1>6, CallMoves DEF Becomes

LEMMA DriverConfigStep ==
  ASSUME SensorsInv, NEW p \in Proc, DriverConfig(p) \/ DriverRead(p)
  PROVE  SensorsInv'
<1>1. /\ call[p].at \in {"config", "read"} /\ InCall(p) /\ Driver
      /\ UNCHANGED <<bus, dev, live, i2cOK, initOK, inited, faults, misused>>
  BY DEF DriverConfig, DriverRead, At, InCall, busVars
<1>2. PICK c \in Call :
        /\ Becomes(p, c)
        /\ \/ c.at = (IF call[p].at = "config" THEN "setup" ELSE "fetch") /\ c.h = dev[call[p].s]
           \/ c.at = "done" /\ call[p].at = "read"
  <2>1. /\ {"setup", "fetch"} \subseteq CallAt /\ 0 \in 0..MaxDev /\ dev[call[p].s] \in 0..MaxDev
    BY CallPoints, SensorTypes DEF SensorsInv
  <2>2. CASE call[p].at = "config" /\ Take(p, "setup", dev[call[p].s]) BY <2>1, <2>2, TakeCall
  <2>3. CASE call[p].at = "read" /\ Take(p, "fetch", dev[call[p].s]) BY <2>1, <2>3, TakeCall
  <2>4. CASE call[p].at = "read" /\ Finish(p, FALSE) BY <2>4, FinishCall
  <2> QED BY <2>2, <2>3, <2>4 DEF DriverConfig, DriverRead, At
<1>3. inited \in [Sensor -> BOOLEAN] /\ faults \in 0..MaxFaults /\ misused \in BOOLEAN
  BY SensorTypes DEF SensorsInv, SensorsTypeOK
<1>4. ~met => Follows(p) /\ ~misused BY DEF SensorsInv, Sound, Handles
<1>5. ~met => Follows(p)'
  BY <1>1, <1>2, <1>4 DEF Follows, Becomes, InCall, At
<1> QED BY <1>1, <1>2, <1>3, <1>4, <1>5, CallMoves

\* A pointer that is set points to a device on the bus.
LEMMA PointerLive ==
  ASSUME SensorsTypeOK, Handles, NEW s \in Sensor
  PROVE  dev[s] \in live <=> dev[s] # 0
  BY SensorTypes DEF Handles

LEMMA TransferOKStep ==
  ASSUME SensorsInv, NEW p \in Proc, TransferOK(p)
  PROVE  SensorsInv'
<1> DEFINE s == call[p].s
<1>1. /\ call[p].at \in {"setup", "fetch"} /\ InCall(p) /\ Driver /\ Finish(p, TRUE) /\ call[p].h \in live
      /\ UNCHANGED <<bus, dev, live, i2cOK, initOK, faults, misused>>
      /\ inited' = (IF call[p].at = "setup" THEN [inited EXCEPT ![s] = TRUE] ELSE inited)
  BY DEF TransferOK, At, InCall, Answers
<1>2. PICK c \in Call : Becomes(p, c) /\ c.at = "done" BY <1>1, FinishCall
<1>3. /\ s \in Sensor /\ inited \in [Sensor -> BOOLEAN] /\ inited' \in [Sensor -> BOOLEAN]
      /\ faults \in 0..MaxFaults /\ misused \in BOOLEAN
  BY <1>1, SensorTypes DEF SensorsInv, SensorsTypeOK
<1>4. \A t \in Sensor \ {s} : inited'[t] = inited[t] BY <1>1, <1>3
<1>5. inited'[s] \/ inited'[s] = inited[s] BY <1>1, <1>3
<1>6. ~met => Follows(p) /\ Handles BY DEF SensorsInv, Sound
<1>7. ~met => call[p].h = dev[s] /\ dev[s] # 0
  BY <1>1, <1>3, <1>6, PointerLive DEF Follows, SensorsInv
<1>8. ~met => Follows(p)'
  <2>1. call[p].at = "setup" => inited'[s] BY <1>1, <1>3
  <2> QED BY <1>1, <1>2, <1>6, <1>7, <2>1 DEF Follows, Becomes, InCall, At
<1> QED BY <1>1, <1>2, <1>3, <1>4, <1>5, <1>6, <1>8, CallMoves DEF Becomes, Handles

LEMMA TransferFailsStep ==
  ASSUME SensorsInv, NEW p \in Proc, TransferFails(p)
  PROVE  SensorsInv'
<1> DEFINE s == call[p].s
<1>1. /\ call[p].at \in {"setup", "fetch"} /\ InCall(p) /\ Driver
      /\ UNCHANGED <<bus, dev, live, i2cOK, initOK>> /\ Misuse(call[p].h)
      /\ inited' \in {inited, [inited EXCEPT ![s] = TRUE]}
  BY DEF TransferFails, At, InCall
<1>2. PICK c \in Call :
        /\ Becomes(p, c)
        /\ \/ call[p].at = "fetch" /\ c.at = "done"
           \/ call[p].at = "setup" /\ s \in Lax /\ c.at = "done"
           \/ call[p].at = "setup" /\ c.at \in {"deinit", "done"} /\ ~c.ok
  <2>1. "deinit" \in CallAt BY CallPoints
  <2>2. CASE call[p].at = "fetch" /\ Finish(p, FALSE) BY <2>2, FinishCall
  <2>3. CASE call[p].at = "setup" /\ s \in Lax /\ Finish(p, TRUE) BY <2>3, FinishCall
  <2>4. CASE call[p].at = "setup" /\ call' = [call EXCEPT ![p].at = "deinit", ![p].ok = FALSE]
    BY <2>1, <2>4, FailCall
  <2>5. CASE call[p].at = "setup" /\ Finish(p, FALSE) BY <2>5, FinishCall
  <2> QED BY <1>1, <2>2, <2>3, <2>4, <2>5 DEF TransferFails
<1>3. /\ s \in Sensor /\ inited \in [Sensor -> BOOLEAN]
      /\ faults \in 0..MaxFaults /\ misused \in BOOLEAN /\ misused' \in BOOLEAN
  BY <1>1, SensorTypes DEF SensorsInv, SensorsTypeOK, Misuse
<1>4. faults' \in 0..MaxFaults BY <1>3, SensorConstants DEF TransferFails, Fault
<1>5. ~met => Follows(p) /\ Handles BY DEF SensorsInv, Sound
<1>6. ~met => ~misused'
  BY <1>1, <1>3, <1>5, PointerLive DEF Follows, Misuse, Handles, SensorsInv
<1>7. ~met => Follows(p)' BY <1>1, <1>2, <1>5 DEF Follows, Becomes, InCall, At
<1>8. c.at # "none" BY <1>2
<1>9. /\ inited' \in [Sensor -> BOOLEAN] /\ (inited'[s] \/ inited'[s] = inited[s])
      /\ \A t \in Sensor \ {s} : inited'[t] = inited[t]
  BY <1>1, <1>3
<1> QED BY <1>1, <1>2, <1>3, <1>4, <1>6, <1>7, <1>8, <1>9, CallMoves DEF Becomes

LEMMA DriverDeinitStep ==
  ASSUME SensorsInv, NEW p \in Proc, DriverDeinit(p)
  PROVE  SensorsInv'
<1> DEFINE s == call[p].s
<1>1. /\ call[p].at = "deinit" /\ InCall(p) /\ Driver
      /\ UNCHANGED <<bus, dev, live, i2cOK, initOK, inited, faults, misused>>
  BY DEF DriverDeinit, At, InCall, busVars
<1>2. PICK c \in Call :
        /\ Becomes(p, c) /\ c.ok = call[p].ok
        /\ \/ c.at = "done" /\ dev[s] = 0
           \/ c.at = "remove" /\ c.h = dev[s]
  <2>1. "remove" \in CallAt /\ dev[s] \in 0..MaxDev /\ call[p].ok \in BOOLEAN
    BY CallPoints, SensorTypes DEF SensorsInv, Call
  <2>2. CASE Finish(p, call[p].ok) /\ dev[s] = 0 BY <2>1, <2>2, FinishCall
  <2>3. CASE Take(p, "remove", dev[s]) BY <2>1, <2>3, TakeCall
  <2> QED BY <2>2, <2>3 DEF DriverDeinit
<1>3. s \in Sensor /\ inited \in [Sensor -> BOOLEAN] /\ faults \in 0..MaxFaults /\ misused \in BOOLEAN
  BY SensorTypes DEF SensorsInv, SensorsTypeOK
<1>4. ~met => /\ Follows(p) /\ ~misused
              /\ s \notin Lax /\ dev[s] = 0 => ~initOK[s]
  BY <1>3 DEF SensorsInv, Sound, Handles, Truthful
<1>5. ~met => Follows(p)' BY <1>1, <1>2, <1>3, <1>4 DEF Follows, Becomes, InCall, At
<1>6. c.at # "none" BY <1>2
<1> QED BY <1>1, <1>2, <1>3, <1>4, <1>5, <1>6, CallMoves

LEMMA DriverAddStep ==
  ASSUME SensorsInv, NEW p \in Proc, DriverAdd(p)
  PROVE  SensorsInv'
<1> DEFINE s == call[p].s
           h == Min(FreshHandles)
<1>1. /\ call[p].at = "add" /\ InCall(p) /\ Driver /\ UNCHANGED <<bus, inited, initOK, faults, misused>>
  BY DEF DriverAdd, At, InCall
<1>2. /\ s \in Sensor /\ dev \in [Sensor -> 0..MaxDev] /\ live \in SUBSET (1..MaxDev)
      /\ i2cOK \in [Sensor -> BOOLEAN] /\ inited \in [Sensor -> BOOLEAN] /\ initOK \in [Sensor -> BOOLEAN]
      /\ MaxDev \in Nat /\ faults \in 0..MaxFaults /\ misused \in BOOLEAN
  BY SensorTypes DEF SensorsInv, SensorsTypeOK
<1>3. PICK c \in Call :
        /\ Becomes(p, c) /\ c.at \in {"config", "done"}
        /\ c.at = "done" /\ call[p].full => ~c.ok
  <2>1. "config" \in CallAt BY CallPoints
  <2>2. CASE Go(p, "config") BY <2>1, <2>2, GoCall
  <2>3. CASE Finish(p, TRUE) /\ ~call[p].full BY <2>3, FinishCall
  <2>4. CASE Finish(p, FALSE) BY <2>4, FinishCall
  <2> QED BY <2>2, <2>3, <2>4 DEF DriverAdd
<1>4. c.at # "none" /\ c.s = s /\ c.fn = call[p].fn /\ c.full = call[p].full BY <1>3 DEF Becomes
<1>5. ~met => /\ Follows(p) /\ Handles /\ dev[s] = 0 /\ call[p].fn = "init"
              /\ s \notin Lax => ~initOK[s]
  BY <1>1 DEF SensorsInv, Sound, Follows, InCall, At
<1>6. i2cOK' \in [Sensor -> BOOLEAN] BY <1>2 DEF DriverAdd
<1>7. CASE FreshHandles # {} /\ live' = live \cup {h} /\ dev' = [dev EXCEPT ![s] = h]
  <2>1. h \in FreshHandles
    <3>1. FreshHandles \in SUBSET (0..MaxDev) BY <1>2 DEF FreshHandles
    <3> QED BY <1>2, <1>7, <3>1, MinIn
  <2>2. h \in 1..MaxDev /\ h \notin live /\ h \notin {dev[x] : x \in Sensor} /\ h # 0
    BY <1>2, <2>1 DEF FreshHandles
  <2> HIDE DEF h
  <2>3. live' \subseteq 1..MaxDev /\ dev' \in [Sensor -> 0..MaxDev]
    <3>1. h \in 0..MaxDev BY <1>2, <2>2
    <3>2. live' \subseteq 1..MaxDev BY <1>2, <1>7, <2>2
    <3> QED BY <1>2, <1>7, <3>1, <3>2
  <2>4. dev'[s] = h /\ \A x \in Sensor \ {s} : dev'[x] = dev[x] BY <1>2, <1>7
  <2>5. ASSUME ~met PROVE Handles'
    <3>1. ~misused' BY <1>1, <1>5, <2>5 DEF Handles
    <3>2. live' = {dev'[x] : x \in Sensor} \ {0}
      <4>1. \A y \in live' : y # 0 /\ \E x \in Sensor : dev'[x] = y
        BY <1>2, <1>5, <1>7, <2>2, <2>4, <2>5 DEF Handles
      <4>2. \A x \in Sensor : dev'[x] # 0 => dev'[x] \in live'
        BY <1>2, <1>5, <1>7, <2>2, <2>4, <2>5 DEF Handles
      <4> QED BY <4>1, <4>2
    <3>3. \A x, y \in Sensor : dev'[x] = dev'[y] /\ x # y => dev'[x] = 0
      BY <1>2, <1>5, <2>2, <2>4, <2>5 DEF Handles
    <3> QED BY <3>1, <3>2, <3>3 DEF Handles
  <2>6. ~met => Follows(p)'
    BY <1>1, <1>2, <1>3, <1>5, <2>2, <2>4 DEF Follows, Becomes, InCall, At
  <2> QED BY <1>1, <1>2, <1>3, <1>4, <1>5, <1>6, <2>3, <2>4, <2>5, <2>6, DriverKeeps DEF Becomes
<1>8. CASE UNCHANGED <<dev, live>>
  <2>1. ~met => Handles' BY <1>1, <1>5, <1>8 DEF Handles
  <2>2. ~met => Follows(p)'
    BY <1>1, <1>2, <1>3, <1>5, <1>8 DEF Follows, Becomes, InCall, At
  <2> QED BY <1>1, <1>2, <1>3, <1>4, <1>5, <1>6, <1>8, <2>1, <2>2, DriverKeeps DEF Becomes
<1> QED BY <1>7, <1>8 DEF DriverAdd

LEMMA DriverRemoveStep ==
  ASSUME SensorsInv, NEW p \in Proc, DriverRemove(p)
  PROVE  SensorsInv'
<1> DEFINE s == call[p].s
           h == call[p].h
<1>1. /\ call[p].at = "remove" /\ InCall(p) /\ Driver /\ UNCHANGED <<bus, inited, i2cOK, faults>>
      /\ Misuse(h) /\ Finish(p, call[p].ok)
      /\ live' = live \ {h} /\ dev' = [dev EXCEPT ![s] = 0] /\ initOK' = [initOK EXCEPT ![s] = FALSE]
  BY DEF DriverRemove, At, InCall
<1>2. /\ s \in Sensor /\ dev \in [Sensor -> 0..MaxDev] /\ live \in SUBSET (1..MaxDev) /\ 0 \in 0..MaxDev
      /\ i2cOK \in [Sensor -> BOOLEAN] /\ inited \in [Sensor -> BOOLEAN] /\ initOK \in [Sensor -> BOOLEAN]
      /\ faults \in 0..MaxFaults /\ misused \in BOOLEAN /\ call[p].ok \in BOOLEAN
  BY SensorTypes DEF SensorsInv, SensorsTypeOK, Call
<1>3. PICK c \in Call : Becomes(p, c) /\ c.at = "done" /\ c.ok = call[p].ok
  BY <1>1, <1>2, FinishCall
<1>4. c.at # "none" /\ c.s = s /\ c.fn = call[p].fn /\ c.full = call[p].full BY <1>3 DEF Becomes
<1>5. ~met => Follows(p) /\ Handles BY DEF SensorsInv, Sound
<1>6. ~met => h = dev[s] BY <1>1, <1>5 DEF Follows
<1>7. /\ live' \subseteq 1..MaxDev /\ dev' \in [Sensor -> 0..MaxDev]
      /\ initOK' \in [Sensor -> BOOLEAN] /\ misused' \in BOOLEAN
  BY <1>1, <1>2 DEF Misuse
<1>8. /\ dev'[s] = 0 /\ ~initOK'[s]
      /\ \A x \in Sensor \ {s} : dev'[x] = dev[x] /\ initOK'[x] = initOK[x]
  BY <1>1, <1>2
<1> HIDE DEF h
<1>9. ASSUME ~met PROVE Handles'
  <2>1. ~misused'
    BY <1>1, <1>2, <1>5, <1>6, <1>9, PointerLive DEF Misuse, Handles, SensorsInv
  <2>2. live' = {dev'[x] : x \in Sensor} \ {0}
    <3>1. \A y \in live' : y # 0 /\ \E x \in Sensor : dev'[x] = y
      BY <1>1, <1>2, <1>5, <1>6, <1>8, <1>9 DEF Handles
    <3>2. \A x \in Sensor : dev'[x] # 0 => dev'[x] \in live'
      BY <1>1, <1>2, <1>5, <1>6, <1>8, <1>9 DEF Handles
    <3> QED BY <3>1, <3>2
  <2>3. \A x, y \in Sensor : dev'[x] = dev'[y] /\ x # y => dev'[x] = 0
    BY <1>2, <1>5, <1>8, <1>9 DEF Handles
  <2> QED BY <2>1, <2>2, <2>3 DEF Handles
<1>10. ~met => Follows(p)'
  BY <1>1, <1>2, <1>3, <1>5, <1>8 DEF Follows, Becomes, InCall, At
<1> QED BY <1>1, <1>2, <1>3, <1>4, <1>7, <1>8, <1>9, <1>10, DriverKeeps DEF Becomes

\* Power-on, and the reset after a panic.
PowerOn ==
  /\ host = Idle /\ task = NotCreated /\ call = NoCalls /\ dev = All(0) /\ live = {}
  /\ initOK = All(FALSE) /\ ~misused

LEMMA StartsSound == SensorsTypeOK /\ PowerOn => SensorsInv
<1> SUFFICES ASSUME SensorsTypeOK, PowerOn PROVE SensorsInv OBVIOUS
<1> USE DEF PowerOn
<1>1. \A p \in Proc : call[p] = NoCall BY DEF NoCalls
<1>2. \A s \in Sensor : dev[s] = 0 /\ ~initOK[s] BY DEF All
<1>3. ~InCall("ble") /\ ~InCall("task") BY <1>1 DEF InCall, At, NoCall, Proc
<1>4. Places BY <1>3 DEF Places, Fixing, NotCreated
<1>5. Purpose /\ Apart BY <1>3 DEF Purpose, Apart, Idle
<1>6. Handles BY <1>2 DEF Handles
<1>7. Truthful BY <1>2 DEF Truthful
<1>8. \A p \in Proc : Follows(p)
  <2>1. \A p \in Proc : call[p].at = "none" /\ call[p].fn = "read" BY <1>1 DEF NoCall
  <2> QED BY <2>1 DEF Follows, InCall, At
<1> QED BY <1>4, <1>5, <1>6, <1>7, <1>8 DEF SensorsInv, Sound

LEMMA ResetSound == SensorsTypeOK' /\ PowerOn' => SensorsInv'
  BY StartsSound, PTL

LEMMA PanicStep ==
  ASSUME SensorsInv, NEW p \in Proc, Panics(p)
  PROVE  SensorsInv'
<1>1. PowerOn' BY DEF Panics, PowerOn
<1>2. 1 \in 1..N + 1 /\ 0 \in 0..MaxDev /\ NoCall \in Call BY SensorTypes, SensorConstants DEF SensorsInv
<1>3. \A x \in BOOLEAN : All(x) \in [Sensor -> BOOLEAN] BY DEF All
<1>4. /\ All(0) \in [Sensor -> 0..MaxDev] /\ All("OK") \in [Sensor -> {"OK", "BUS", "HARDWARE"}]
      /\ NoCalls \in [Proc -> Call] /\ Idle \in [cmd: {"none", "one", "on", "off"}, i: 1..N + 1]
      /\ NotCreated \in [at: TaskAt, j: 1..N + 1, i: 1..N + 1]
  BY <1>2 DEF All, NoCalls, Idle, NotCreated, TaskAt
<1>5. SensorsTypeOK' BY <1>3, <1>4 DEF Panics, SensorsInv, SensorsTypeOK
<1> QED BY <1>1, <1>5, ResetSound

LEMMA DriverStepKeeps ==
  ASSUME SensorsInv, NEW p \in Proc, DriverStep(p)
  PROVE  SensorsInv'
BY DriverInitStep, DriverAddStep, DriverConfigStep, TransferOKStep, TransferFailsStep, DriverDeinitStep,
   DriverRemoveStep, PanicStep DEF DriverStep

-----------------------------------------------------------------------------
(* The tasks that make the calls.                                           *)

LEMMA LoopTypes ==
  ASSUME SensorsInv
  PROVE  /\ host \in [cmd: {"none", "one", "on", "off"}, i: 1..N + 1]
         /\ task \in [at: TaskAt, j: 1..N + 1, i: 1..N + 1]
         /\ N \in Nat /\ Sensor = 1..N /\ host.i \in 1..N + 1 /\ task.i \in 1..N + 1 /\ task.j \in 1..N + 1
         /\ InCall("ble") => host.i \in Sensor /\ host.i + 1 \in 1..N + 1
         /\ InCall("task") => task.i \in Sensor /\ task.i + 1 \in 1..N + 1
         /\ Fixing => task.j + 1 \in 1..N + 1
         /\ err \in [Sensor -> {"OK", "BUS", "HARDWARE"}]
<1>1. host \in [cmd: {"none", "one", "on", "off"}, i: 1..N + 1] /\ task \in [at: TaskAt, j: 1..N + 1, i: 1..N + 1]
  BY DEF SensorsInv, SensorsTypeOK
<1>2. N \in Nat /\ Sensor = 1..N BY SensorConstants DEF Sensor
<1>3. InCall("ble") => host.i \in Sensor BY SensorTypes DEF SensorsInv, Places
<1>4. InCall("task") => task.i \in Sensor BY SensorTypes DEF SensorsInv, Places
<1>5. Fixing => task.j \in Sensor BY DEF SensorsInv, Places
<1>6. \A x \in Sensor : x + 1 \in 1..N + 1 BY <1>2
<1> QED BY <1>1, <1>2, <1>3, <1>4, <1>5, <1>6 DEF SensorsInv, SensorsTypeOK

\* A step of a caller, which touches no device.
LEMMA CallerKeeps ==
  ASSUME SensorsInv, SensorsTypeOK', Places', UNCHANGED <<dev, live, inited, misused>>,
         ~met' => ~met /\ Purpose' /\ Apart' /\ Truthful' /\ Follows("ble")' /\ Follows("task")'
  PROVE  SensorsInv'
<1>1. ~met' => Handles' BY DEF SensorsInv, Sound, Handles
<1> QED BY <1>1 DEF SensorsInv, Sound, Proc

\* What p's call relies on does not change under it.
LEMMA FollowsStays ==
  ASSUME NEW p \in Proc, Follows(p), UNCHANGED <<dev, inited>>, call'[p] = call[p],
         InCall(p) => (initOK'[call[p].s] => initOK[call[p].s])
  PROVE  Follows(p)'
BY DEF Follows, InCall, At

LEMMA FollowsNothing ==
  ASSUME NEW p \in Proc, call'[p] = NoCall
  PROVE  Follows(p)' /\ ~InCall(p)'
<1>1. call'[p].at = "none" /\ call'[p].fn = "read" BY DEF NoCall
<1> QED BY <1>1 DEF Follows, InCall, At

\* What p's new call, of fn on sensor s, finds.
Entered(p, fn, s, full) ==
  /\ call' \in [Proc -> Call] /\ call'[Other(p)] = call[Other(p)] /\ InCall(p)'
  /\ call'[p].s = s /\ call'[p].fn = fn /\ call'[p].full = full
  /\ met' \in BOOLEAN
  /\ ~met' => /\ ~met /\ Follows(p)'
              /\ InCall(Other(p)) => call[Other(p)].s # s

LEMMA EnterCall ==
  ASSUME SensorsInv, NEW p \in Proc, NEW fn \in Fn, NEW s \in Sensor, NEW full \in BOOLEAN,
         Enter(p, fn, s, full), fn = "init" /\ ~met' => s \in Lax \/ ~initOK'[s]
  PROVE  Entered(p, fn, s, full)
<1> DEFINE c == [fn |-> fn, at |-> fn, s |-> s, h |-> 0, full |-> full, ok |-> TRUE]
<1>1. call \in [Proc -> Call] /\ Other(p) \in Proc /\ Other(p) # p /\ 0 \in 0..MaxDev
  BY SensorTypes DEF SensorsInv
<1>2. c \in Call BY <1>1 DEF Call, CallAt
<1>3. call' = [call EXCEPT ![p] = c] BY DEF Enter
<1>4. c.fn = fn /\ c.at = fn /\ c.s = s /\ c.full = full /\ c.ok OBVIOUS
<1> HIDE DEF c
<1>5. call' \in [Proc -> Call] /\ call'[Other(p)] = call[Other(p)] /\ call'[p] = c BY <1>1, <1>2, <1>3
<1>6. InCall(p)' BY <1>4, <1>5 DEF InCall, At, Fn
<1>7. met \in BOOLEAN /\ met' = (met \/ (InCall(Other(p)) /\ call[Other(p)].s = s))
  BY DEF Enter, InCall, SensorsInv, SensorsTypeOK
<1>8. ~met' => Follows(p)' BY <1>4, <1>5 DEF Follows, Fn, InCall, At
<1> QED BY <1>4, <1>5, <1>6, <1>7, <1>8 DEF Entered

LEMMA LeaveCall ==
  ASSUME SensorsInv, NEW p \in Proc, Leave(p)
  PROVE  /\ call' \in [Proc -> Call] /\ call'[p] = NoCall /\ call'[Other(p)] = call[Other(p)]
         /\ ~InCall(p)' /\ Follows(p)'
<1>1. call \in [Proc -> Call] /\ Other(p) \in Proc /\ Other(p) # p /\ NoCall \in Call
  BY SensorTypes DEF SensorsInv
<1>2. call' \in [Proc -> Call] /\ call'[p] = NoCall /\ call'[Other(p)] = call[Other(p)]
  BY <1>1 DEF Leave
<1> QED BY <1>2, FollowsNothing

\* A step that makes no call and ends none.
LEMMA QuietKeeps ==
  ASSUME SensorsInv, SensorsTypeOK', Places', UNCHANGED <<dev, live, inited, initOK, conn, call, met, misused>>,
         Purpose => Purpose'
  PROVE  SensorsInv'
<1>1. ~met => Sound BY DEF SensorsInv
<1>2. ~met => Apart' /\ Truthful' BY <1>1 DEF Sound, Apart, Truthful, InCall, At
<1>3. ~met => \A p \in Proc : Follows(p)' BY <1>1, FollowsStays DEF Sound
<1> QED BY <1>1, <1>2, <1>3, CallerKeeps DEF Sound, Proc

\* A search finds a sensor of those it looks for.
LEMMA Found ==
  ASSUME NEW a \in 1..N + 1, NEW S \in SUBSET (a..N), S # {}
  PROVE  Min(S) \in S /\ Min(S) \in Sensor
<1>1. N \in Nat /\ Sensor = 1..N /\ a \in Nat /\ a >= 1 BY SensorConstants DEF Sensor
<1>2. S \in SUBSET (0..N) /\ S \subseteq 1..N BY <1>1
<1> QED BY <1>1, <1>2, MinIn

LEMMA Others == Other("ble") = "task" /\ Other("task") = "ble" /\ "ble" \in Proc /\ "task" \in Proc
  BY DEF Other, Proc

-----------------------------------------------------------------------------
(* Commands.                                                                *)

LEMMA TaskCreated ==
  ASSUME SensorsInv, CreateTask
  PROVE  /\ task' \in [at: TaskAt, j: 1..N + 1, i: 1..N + 1]
         /\ task'.i = task.i /\ task'.j = task.j /\ Fixing' = Fixing
         /\ InCall("task") => task'.at = task.at
BY LoopTypes DEF CreateTask, TaskAt, Fixing, SensorsInv, Places

LEMMA CmdConnStep ==
  ASSUME SensorsInv, NEW s \in Sensor, CmdConn(s)
  PROVE  SensorsInv'
<1>0. PICK fn \in Fn : fn = (IF conn[s] THEN "deinit" ELSE "init") BY DEF Fn
<1>1. /\ host.cmd = "none" /\ cmds < MaxCmds /\ cmds' = cmds + 1 /\ host' = [cmd |-> "one", i |-> s]
      /\ Enter("ble", fn, s, TRUE) /\ CreateTask
      /\ UNCHANGED <<bus, dev, live, inited, i2cOK, initOK, conn, err, reading, present, reads, faults, misused>>
  BY <1>0 DEF CmdConn, Command, Outside, busVars, flagVars
<1>2. host'.cmd = "one" /\ host'.i = s /\ host' \in [cmd: {"none", "one", "on", "off"}, i: 1..N + 1]
  BY <1>1, SensorTypes DEF SensorsInv
<1>3. fn = "init" /\ ~met' => s \in Lax \/ ~initOK'[s]
  BY <1>0, <1>1 DEF Enter, SensorsInv, Sound, Truthful
<1>4. /\ call' \in [Proc -> Call] /\ call'["task"] = call["task"] /\ InCall("ble")'
      /\ call'["ble"].s = s /\ call'["ble"].fn = fn /\ call'["ble"].full = TRUE /\ met' \in BOOLEAN
      /\ ~met' => ~met /\ Follows("ble")' /\ (InCall("task") => call["task"].s # s)
  <2>1. "ble" \in Proc /\ TRUE \in BOOLEAN /\ Other("ble") = "task" BY Others
  <2>2. Entered("ble", fn, s, TRUE) BY <1>1, <1>3, <2>1, EnterCall
  <2> QED BY <2>1, <2>2 DEF Entered
<1>5. /\ task' \in [at: TaskAt, j: 1..N + 1, i: 1..N + 1]
      /\ task'.i = task.i /\ task'.j = task.j /\ Fixing' = Fixing
      /\ InCall("task") => task'.at = task.at
  BY <1>1, TaskCreated
<1>6. InCall("task")' = InCall("task") BY <1>4 DEF InCall, At
<1>7. cmds' \in 0..MaxCmds BY <1>1, SensorConstants DEF SensorsInv, SensorsTypeOK
<1>8. SensorsTypeOK' BY <1>1, <1>2, <1>4, <1>5, <1>7 DEF SensorsInv, SensorsTypeOK
<1>9. Places' BY <1>2, <1>4, <1>5, <1>6 DEF SensorsInv, Places
<1>10. ASSUME ~met' PROVE Purpose' /\ Apart' /\ Truthful' /\ Follows("task")'
  <2>1. Sound BY <1>4, <1>10 DEF SensorsInv
  <2>2. fn = IF conn'[s] THEN "deinit" ELSE "init" BY <1>0, <1>1
  <2>3. Purpose' BY <1>2, <1>4, <1>5, <1>6, <2>1, <2>2 DEF Sound, Purpose
  <2>4. Apart' BY <1>4, <1>6, <1>10 DEF Apart
  <2>5. Truthful' BY <1>1, <2>1 DEF Sound, Truthful
  <2>6. Follows("task")' BY <1>1, <1>4, <2>1, FollowsStays DEF Sound, Proc
  <2> QED BY <2>3, <2>4, <2>5, <2>6
<1> QED BY <1>1, <1>4, <1>8, <1>9, <1>10, CallerKeeps

LEMMA CmdConnDoneStep ==
  ASSUME SensorsInv, CmdConnDone
  PROVE  SensorsInv'
<1> DEFINE s == host.i
           up == ~conn[s] /\ call["ble"].ok
<1>1. /\ host.cmd = "one" /\ call["ble"].at = "done" /\ InCall("ble") /\ Leave("ble") /\ host' = Idle
      /\ UNCHANGED <<bus, dev, live, inited, i2cOK, err, reading, task, present, cmds, reads, faults, met, misused>>
      /\ IF conn[s] \/ up
         THEN conn' = [conn EXCEPT ![s] = up] /\ initOK' = [initOK EXCEPT ![s] = up]
         ELSE UNCHANGED <<conn, initOK>>
  BY DEF CmdConnDone, Outside, busVars, InCall, At
<1>2. /\ call' \in [Proc -> Call] /\ call'["task"] = call["task"] /\ ~InCall("ble")' /\ Follows("ble")'
  BY <1>1, LeaveCall, Others
<1>3. /\ s \in Sensor /\ call["ble"].s = s /\ host' \in [cmd: {"none", "one", "on", "off"}, i: 1..N + 1]
      /\ host'.cmd = "none" /\ conn \in [Sensor -> BOOLEAN] /\ initOK \in [Sensor -> BOOLEAN] /\ up \in BOOLEAN
  BY <1>1, LoopTypes, SensorTypes DEF Idle, SensorsInv, Places, Call
<1>4. InCall("task")' = InCall("task") /\ Fixing' = Fixing BY <1>1, <1>2 DEF InCall, At, Fixing
<1>5. conn' \in [Sensor -> BOOLEAN] /\ initOK' \in [Sensor -> BOOLEAN] BY <1>1, <1>3
<1>6. \A t \in Sensor \ {s} : conn'[t] = conn[t] /\ initOK'[t] = initOK[t] BY <1>1, <1>3
<1>7. \/ conn'[s] = up /\ initOK'[s] = up
      \/ UNCHANGED <<conn, initOK>>
  BY <1>1, <1>3
<1>8. SensorsTypeOK' BY <1>1, <1>2, <1>3, <1>5 DEF SensorsInv, SensorsTypeOK
<1>9. Places' BY <1>1, <1>2, <1>3, <1>4 DEF SensorsInv, Places
<1>10. ASSUME ~met' PROVE Purpose' /\ Apart' /\ Truthful' /\ Follows("task")'
  <2>1. Sound BY <1>1, <1>10 DEF SensorsInv
  <2>2. Purpose' BY <1>2, <1>3, <1>4, <2>1 DEF Sound, Purpose
  <2>3. Apart' BY <1>2 DEF Apart
  <2>4. up => s \in Lax \/ (dev[s] # 0 /\ inited[s])
    <3>1. Follows("ble") /\ Purpose BY <2>1 DEF Sound, Proc
    <3> QED BY <1>1, <1>3, <3>1 DEF Follows, Purpose
  <2>5. Truthful' BY <1>1, <1>6, <1>7, <2>1, <2>4 DEF Sound, Truthful
  <2>6. InCall("task") => call["task"].s \in Sensor \ {s}
    BY <1>1, <1>3, <2>1, SensorTypes DEF Sound, Apart, SensorsInv
  <2>7. Follows("task")' BY <1>1, <1>2, <1>6, <2>1, <2>6, FollowsStays DEF Sound, Proc
  <2> QED BY <2>2, <2>3, <2>5, <2>7
<1> QED BY <1>1, <1>2, <1>8, <1>9, <1>10, CallerKeeps

LEMMA CmdConnAllStep ==
  ASSUME SensorsInv, NEW on \in BOOLEAN, CmdConnAll(on)
  PROVE  SensorsInv'
<1>1. /\ host.cmd = "none" /\ cmds < MaxCmds /\ cmds' = cmds + 1
      /\ host' = [cmd |-> IF on THEN "on" ELSE "off", i |-> 1] /\ (CreateTask \/ task' = task)
      /\ UNCHANGED <<bus, dev, live, inited, i2cOK, initOK, conn, err, reading, call, present, reads, faults, met, misused>>
  BY DEF CmdConnAll, Command, Outside, busVars, flagVars
<1>2. /\ host' \in [cmd: {"none", "one", "on", "off"}, i: 1..N + 1] /\ host'.cmd \in {"on", "off"}
      /\ cmds' \in 0..MaxCmds
  BY <1>1, SensorTypes, SensorConstants DEF SensorsInv, SensorsTypeOK
<1>3. /\ task' \in [at: TaskAt, j: 1..N + 1, i: 1..N + 1]
      /\ task'.i = task.i /\ task'.j = task.j /\ Fixing' = Fixing
      /\ InCall("task") => task'.at = task.at
  BY <1>1, TaskCreated, LoopTypes DEF Fixing
<1>4. InCall("ble")' = FALSE /\ InCall("task")' = InCall("task")
  BY <1>1 DEF SensorsInv, Places, InCall, At
<1>5. SensorsTypeOK' BY <1>1, <1>2, <1>3 DEF SensorsInv, SensorsTypeOK
<1>6. Places' BY <1>1, <1>2, <1>3, <1>4 DEF SensorsInv, Places
<1>7. Purpose => Purpose' BY <1>1, <1>2, <1>3, <1>4 DEF Purpose
<1> QED BY <1>1, <1>5, <1>6, <1>7, QuietKeeps

LEMMA ConnAllNextStep ==
  ASSUME SensorsInv, ConnAllNext
  PROVE  SensorsInv'
<1> DEFINE todo == {i \in host.i..N : conn[i] # (host.cmd = "on")}
<1>1. /\ host.cmd \in {"on", "off"} /\ ~InCall("ble")
      /\ UNCHANGED <<bus, dev, live, inited, i2cOK, initOK, conn, err, reading, task, present, cmds, reads, faults, misused>>
  BY DEF ConnAllNext, Outside, busVars, flagVars, InCall
<1>2. /\ host \in [cmd: {"none", "one", "on", "off"}, i: 1..N + 1] /\ host.i \in 1..N + 1 /\ 1 \in 1..N + 1
      /\ Sensor \subseteq 1..N + 1
  BY LoopTypes, SensorTypes DEF SensorsInv
<1>3. CASE todo = {}
  <2>1. host' = Idle /\ UNCHANGED <<call, met>> BY <1>3 DEF ConnAllNext
  <2>2. host' \in [cmd: {"none", "one", "on", "off"}, i: 1..N + 1] /\ host'.cmd = "none"
    BY <1>2, <2>1 DEF Idle
  <2>3. InCall("ble")' = FALSE /\ InCall("task")' = InCall("task") /\ Fixing' = Fixing
    BY <1>1, <2>1 DEF InCall, At, Fixing
  <2>4. SensorsTypeOK' BY <1>1, <2>1, <2>2 DEF SensorsInv, SensorsTypeOK
  <2>5. Places' BY <1>1, <2>1, <2>2, <2>3 DEF SensorsInv, Places
  <2>6. Purpose => Purpose' BY <1>1, <2>1, <2>2, <2>3 DEF Purpose
  <2> QED BY <1>1, <2>1, <2>4, <2>5, <2>6, QuietKeeps
<1>4. CASE todo # {}
  <2>1. PICK s \in Sensor : s = Min(todo) /\ conn[s] # (host.cmd = "on")
    <3>1. todo \in SUBSET (host.i..N) OBVIOUS
    <3>2. Min(todo) \in todo /\ Min(todo) \in Sensor BY <1>2, <1>4, <3>1, Found
    <3> QED BY <3>2
  <2>2. PICK fn \in Fn : fn \in {"init", "deinit"} /\ (fn = "init" <=> host.cmd = "on") BY DEF Fn
  <2>3. host' = [host EXCEPT !.i = s] /\ Enter("ble", fn, s, TRUE)
    <3>1. fn = IF host.cmd = "on" THEN "init" ELSE "deinit" BY <2>2
    <3> QED BY <1>4, <2>1, <3>1 DEF ConnAllNext
  <2>4. fn = "init" /\ ~met' => s \in Lax \/ ~initOK'[s]
    BY <1>1, <2>1, <2>2, <2>3 DEF Enter, SensorsInv, Sound, Truthful
  <2> HIDE DEF todo
  <2>5. /\ host' \in [cmd: {"none", "one", "on", "off"}, i: 1..N + 1] /\ host'.cmd = host.cmd /\ host'.i = s
    BY <1>2, <2>1, <2>3
  <2>6. /\ call' \in [Proc -> Call] /\ call'["task"] = call["task"] /\ InCall("ble")'
        /\ call'["ble"].s = s /\ call'["ble"].fn = fn /\ call'["ble"].full = TRUE /\ met' \in BOOLEAN
        /\ ~met' => ~met /\ Follows("ble")' /\ (InCall("task") => call["task"].s # s)
    <3>1. "ble" \in Proc /\ TRUE \in BOOLEAN /\ Other("ble") = "task" BY Others
    <3>2. Entered("ble", fn, s, TRUE) BY <2>3, <2>4, <3>1, EnterCall
    <3> QED BY <3>1, <3>2 DEF Entered
  <2>7. InCall("task")' = InCall("task") /\ Fixing' = Fixing BY <1>1, <2>6 DEF InCall, At, Fixing
  <2>8. SensorsTypeOK' BY <1>1, <2>5, <2>6 DEF SensorsInv, SensorsTypeOK
  <2>9. Places' BY <1>1, <2>5, <2>6, <2>7 DEF SensorsInv, Places
  <2>10. ASSUME ~met' PROVE Purpose' /\ Apart' /\ Truthful' /\ Follows("task")'
    <3>1. Sound BY <2>6, <2>10 DEF SensorsInv
    <3>2. Purpose' BY <1>1, <2>2, <2>5, <2>6, <2>7, <3>1 DEF Sound, Purpose
    <3>3. Apart' BY <2>6, <2>7, <2>10 DEF Apart
    <3>4. Truthful' BY <1>1, <3>1 DEF Sound, Truthful
    <3>5. Follows("task")' BY <1>1, <2>6, <3>1, FollowsStays DEF Sound, Proc
    <3> QED BY <3>2, <3>3, <3>4, <3>5
  <2> QED BY <1>1, <2>6, <2>8, <2>9, <2>10, CallerKeeps
<1> QED BY <1>3, <1>4

LEMMA ConnAllDoneStep ==
  ASSUME SensorsInv, ConnAllDone
  PROVE  SensorsInv'
<1> DEFINE s == host.i
<1>1. /\ host.cmd \in {"on", "off"} /\ call["ble"].at = "done" /\ InCall("ble") /\ Leave("ble")
      /\ host' = [host EXCEPT !.i = @ + 1] /\ conn' = [conn EXCEPT ![s] = (host.cmd = "on")]
      /\ UNCHANGED <<bus, dev, live, inited, i2cOK, initOK, err, reading, task, present, cmds, reads, faults, met, misused>>
  BY DEF ConnAllDone, Outside, busVars, InCall, At
<1>2. /\ call' \in [Proc -> Call] /\ call'["task"] = call["task"] /\ ~InCall("ble")' /\ Follows("ble")'
  BY <1>1, LeaveCall, Others
<1>3. /\ s \in Sensor /\ call["ble"].s = s /\ conn \in [Sensor -> BOOLEAN]
      /\ host' \in [cmd: {"none", "one", "on", "off"}, i: 1..N + 1] /\ host'.cmd = host.cmd
  BY <1>1, LoopTypes, SensorTypes DEF SensorsInv, Places
<1>4. /\ conn' \in [Sensor -> BOOLEAN] /\ conn'[s] = (host.cmd = "on")
      /\ \A t \in Sensor \ {s} : conn'[t] = conn[t]
  BY <1>1, <1>3
<1>5. InCall("task")' = InCall("task") /\ Fixing' = Fixing BY <1>1, <1>2 DEF InCall, At, Fixing
<1>6. SensorsTypeOK' BY <1>1, <1>2, <1>3, <1>4 DEF SensorsInv, SensorsTypeOK
<1>7. Places' BY <1>1, <1>2, <1>3, <1>5 DEF SensorsInv, Places
<1>8. ASSUME ~met' PROVE Purpose' /\ Apart' /\ Truthful' /\ Follows("task")'
  <2>1. Sound BY <1>1, <1>8 DEF SensorsInv
  <2>2. Purpose' BY <1>1, <1>2, <1>3, <1>5, <2>1 DEF Sound, Purpose
  <2>3. Apart' BY <1>2 DEF Apart
  <2>4. host.cmd = "off" => s \in Lax \/ ~initOK[s]
    <3>1. Follows("ble") /\ Purpose BY <2>1 DEF Sound, Proc
    <3> QED BY <1>1, <1>3, <3>1 DEF Follows, Purpose
  <2>5. Truthful' BY <1>1, <1>4, <2>1, <2>4 DEF Sound, Truthful
  <2>6. Follows("task")' BY <1>1, <1>2, <2>1, FollowsStays DEF Sound, Proc
  <2> QED BY <2>2, <2>3, <2>5, <2>6
<1> QED BY <1>1, <1>2, <1>6, <1>7, <1>8, CallerKeeps

LEMMA CmdReadStep ==
  ASSUME SensorsInv, CmdRead
  PROVE  SensorsInv'
<1>1. /\ reads' \in 0..MaxReads
      /\ UNCHANGED <<bus, dev, live, inited, i2cOK, initOK, conn, err, host, task, call, present, cmds, faults, met, misused>>
  BY SensorConstants DEF CmdRead, busVars, SensorsInv, SensorsTypeOK
<1>2. reading' \in [Sensor -> BOOLEAN]
  <2>1. reading \in [Sensor -> BOOLEAN] BY DEF SensorsInv, SensorsTypeOK
  <2>2. All(TRUE) \in [Sensor -> BOOLEAN] /\ All(FALSE) \in [Sensor -> BOOLEAN] BY DEF All
  <2>3. \A s \in Sensor : [reading EXCEPT ![s] = ~@] \in [Sensor -> BOOLEAN] BY <2>1
  <2>4. \/ reading' = All(TRUE) \/ reading' = All(FALSE)
        \/ \E s \in Sensor : reading' = [reading EXCEPT ![s] = ~@]
    BY DEF CmdRead
  <2> QED BY <2>2, <2>3, <2>4
<1>3. SensorsTypeOK' BY <1>1, <1>2 DEF SensorsInv, SensorsTypeOK
<1>4. Places' /\ (Purpose => Purpose') BY <1>1 DEF SensorsInv, Places, Purpose, Fixing, InCall, At
<1> QED BY <1>1, <1>3, <1>4, QuietKeeps

-----------------------------------------------------------------------------
(* sensor_task.                                                             *)

\* A step of sensor_task's loops that makes no call and ends none.
LEMMA LoopKeeps ==
  ASSUME SensorsInv, ~InCall("task"), task' \in [at: TaskAt, j: 1..N + 1, i: 1..N + 1],
         Fixing' => task'.j \in Sensor, bus' \in BOOLEAN, err' \in [Sensor -> {"OK", "BUS", "HARDWARE"}],
         TaskOutside, UNCHANGED <<dev, live, inited, i2cOK, initOK, call, met>>
  PROVE  SensorsInv'
<1>1. SensorsTypeOK' BY DEF TaskOutside, SensorsInv, SensorsTypeOK
<1>2. ~InCall("task")' /\ InCall("ble")' = InCall("ble") BY DEF InCall, At
<1>3. Places' BY <1>2 DEF TaskOutside, SensorsInv, Places
<1>4. Purpose => Purpose' BY <1>2 DEF TaskOutside, Purpose
<1> QED BY <1>1, <1>3, <1>4, QuietKeeps DEF TaskOutside

\* sensor_task calls fn on sensor s, where its loop then is.
LEMMA TaskEnters ==
  ASSUME SensorsInv, NEW fn \in Fn, NEW s \in Sensor, NEW full \in BOOLEAN, Entered("task", fn, s, full),
         task' \in [at: TaskAt, j: 1..N + 1, i: 1..N + 1], task'.i = s, task'.at = task.at, task'.j = task.j,
         task.at \in {"small", "all", "read"}, fn \in IF Fixing THEN {"init", "deinit"} ELSE {"read"},
         TaskOutside, UNCHANGED <<bus, dev, live, inited, i2cOK, initOK, err>>
  PROVE  SensorsInv'
<1>1. UNCHANGED <<conn, reading, host, present, cmds, reads, faults, misused>> BY DEF TaskOutside
<1>2. /\ call' \in [Proc -> Call] /\ call'["ble"] = call["ble"] /\ InCall("task")'
      /\ call'["task"].s = s /\ call'["task"].fn = fn /\ met' \in BOOLEAN
      /\ ~met' => ~met /\ Follows("task")' /\ (InCall("ble") => call["ble"].s # s)
  BY Others DEF Entered
<1>3. InCall("ble")' = InCall("ble") /\ Fixing' = Fixing BY <1>2 DEF InCall, At, Fixing
<1>4. SensorsTypeOK' BY <1>1, <1>2 DEF SensorsInv, SensorsTypeOK
<1>5. Places' BY <1>1, <1>2, <1>3 DEF SensorsInv, Places
<1>6. ASSUME ~met' PROVE Purpose' /\ Apart' /\ Truthful' /\ Follows("ble")'
  <2>1. Sound BY <1>2, <1>6 DEF SensorsInv
  <2>2. Purpose' BY <1>1, <1>2, <1>3, <2>1 DEF Sound, Purpose
  <2>3. Apart' BY <1>2, <1>3, <1>6 DEF Apart
  <2>4. Truthful' BY <1>1, <2>1 DEF Sound, Truthful
  <2>5. Follows("ble")' BY <1>2, <2>1, FollowsStays DEF Sound, Proc
  <2> QED BY <2>2, <2>3, <2>4, <2>5
<1> QED BY <1>1, <1>2, <1>4, <1>5, <1>6, CallerKeeps

\* sensor_task's call has returned, and its loop goes on.
LEMMA TaskLeaves ==
  ASSUME SensorsInv, InCall("task"), Leave("task"), task' = [task EXCEPT !.i = @ + 1], TaskOutside,
         UNCHANGED <<bus, dev, live, inited, met>>, i2cOK' \in [Sensor -> BOOLEAN],
         initOK' \in [Sensor -> BOOLEAN], \A s \in Sensor : initOK'[s] => initOK[s],
         err' \in [Sensor -> {"OK", "BUS", "HARDWARE"}]
  PROVE  SensorsInv'
<1>1. UNCHANGED <<conn, reading, host, present, cmds, reads, faults, misused>> BY DEF TaskOutside
<1>2. /\ call' \in [Proc -> Call] /\ call'["ble"] = call["ble"] /\ ~InCall("task")' /\ Follows("task")'
  BY LeaveCall, Others
<1>3. /\ task' \in [at: TaskAt, j: 1..N + 1, i: 1..N + 1]
      /\ task'.at = task.at /\ task'.j = task.j
  BY LoopTypes
<1>4. InCall("ble")' = InCall("ble") /\ Fixing' = Fixing BY <1>2, <1>3 DEF InCall, At, Fixing
<1>5. SensorsTypeOK' BY <1>1, <1>2, <1>3 DEF SensorsInv, SensorsTypeOK
<1>6. Places' BY <1>1, <1>2, <1>3, <1>4 DEF SensorsInv, Places
<1>7. ASSUME ~met' PROVE Purpose' /\ Apart' /\ Truthful' /\ Follows("ble")'
  <2>1. Sound BY <1>7 DEF SensorsInv
  <2>2. Purpose' BY <1>1, <1>2, <1>4, <2>1 DEF Sound, Purpose
  <2>3. Apart' BY <1>2 DEF Apart
  <2>4. Truthful' BY <1>1, <2>1 DEF Sound, Truthful
  <2>5. call["ble"].s \in Sensor BY SensorTypes DEF SensorsInv
  <2>6. Follows("ble")' BY <1>2, <2>1, <2>5, FollowsStays DEF Sound, Proc
  <2> QED BY <2>2, <2>3, <2>4, <2>6
<1> QED BY <1>1, <1>2, <1>5, <1>6, <1>7, CallerKeeps

LEMMA TaskStartStep ==
  ASSUME SensorsInv, TaskStart
  PROVE  SensorsInv'
<1>1. task.at = "start" /\ task' = [at |-> "scan", j |-> 1, i |-> 1] /\ bus' = TRUE /\ err' = All("OK")
      /\ TaskOutside /\ UNCHANGED <<dev, live, inited, i2cOK, initOK, call, met>>
  BY DEF TaskStart
<1>2. ~InCall("task") /\ ~Fixing' BY <1>1 DEF SensorsInv, Places, Fixing
<1>3. task' \in [at: TaskAt, j: 1..N + 1, i: 1..N + 1]
  BY <1>1, SensorTypes DEF SensorsInv, TaskAt
<1>4. err' \in [Sensor -> {"OK", "BUS", "HARDWARE"}] BY <1>1 DEF All
<1> QED BY <1>1, <1>2, <1>3, <1>4, LoopKeeps

LEMMA ScanErrorsStep ==
  ASSUME SensorsInv, ScanErrors
  PROVE  SensorsInv'
<1>1. task.at = "scan" /\ TaskOutside /\ UNCHANGED <<bus, dev, live, inited, i2cOK, initOK, err, call, met>>
  BY DEF ScanErrors, busVars
<1>2. /\ ~InCall("task") /\ bus \in BOOLEAN /\ err \in [Sensor -> {"OK", "BUS", "HARDWARE"}]
      /\ 1 \in 1..N + 1 /\ Sensor \subseteq 1..N + 1 /\ task.j \in 1..N + 1
  BY <1>1, SensorTypes, LoopTypes DEF SensorsInv, Places
<1>3. CASE Faulty = {}
  <2>1. task' = [at |-> "read", j |-> 1, i |-> 1] BY <1>3 DEF ScanErrors
  <2>2. task' \in [at: TaskAt, j: 1..N + 1, i: 1..N + 1] BY <1>2, <2>1 DEF TaskAt
  <2>3. ~Fixing' BY <2>1 DEF Fixing
  <2> QED BY <1>1, <1>2, <2>2, <2>3, LoopKeeps
<1>4. CASE Faulty # {}
  <2>1. PICK j \in Sensor : j = Min(Faulty)
    <3>1. Faulty \in SUBSET (task.j..N) BY DEF Faulty
    <3> QED BY <1>2, <1>4, <3>1, Found
  <2>2. task' = [at |-> IF err[j] = "BUS" THEN "small" ELSE "all", j |-> j, i |-> 1]
    BY <1>4, <2>1 DEF ScanErrors
  <2>3. task' \in [at: TaskAt, j: 1..N + 1, i: 1..N + 1] /\ task'.j = j BY <1>2, <2>2 DEF TaskAt
  <2> QED BY <1>1, <1>2, <2>3, LoopKeeps
<1> QED BY <1>3, <1>4

LEMMA FixNextStep ==
  ASSUME SensorsInv, FixNext
  PROVE  SensorsInv'
<1> DEFINE todo == {k \in task.i..N : Suspect(k)}
<1>1. Fixing /\ ~InCall("task") /\ TaskOutside /\ UNCHANGED <<bus, dev, live, inited, i2cOK, initOK, err>>
  BY DEF FixNext, InCall, busVars
<1>2. /\ task \in [at: TaskAt, j: 1..N + 1, i: 1..N + 1] /\ task.i \in 1..N + 1 /\ task.j + 1 \in 1..N + 1
      /\ 1 \in 1..N + 1 /\ Sensor \subseteq 1..N + 1
      /\ bus \in BOOLEAN /\ err \in [Sensor -> {"OK", "BUS", "HARDWARE"}]
  BY <1>1, SensorTypes, LoopTypes DEF SensorsInv
<1>3. CASE todo = {}
  <2>1. task' = [at |-> "scan", j |-> task.j + 1, i |-> 1] /\ UNCHANGED <<call, met>>
    BY <1>3 DEF FixNext
  <2>2. task' \in [at: TaskAt, j: 1..N + 1, i: 1..N + 1] BY <1>2, <2>1 DEF TaskAt
  <2>3. ~Fixing' BY <2>1 DEF Fixing
  <2> QED BY <1>1, <1>2, <2>1, <2>2, <2>3, LoopKeeps
<1>4. CASE todo # {}
  <2>1. PICK s \in Sensor : s = Min(todo)
    <3>1. todo \in SUBSET (task.i..N) OBVIOUS
    <3> QED BY <1>2, <1>4, <3>1, Found
  <2>2. Enter("task", "deinit", s, FALSE) /\ task' = [task EXCEPT !.i = s]
    BY <1>4, <2>1 DEF FixNext
  <2>3. Entered("task", "deinit", s, FALSE)
    <3>1. "deinit" \in Fn BY DEF Fn
    <3> QED BY <2>2, <3>1, EnterCall, Others
  <2>4. /\ task' \in [at: TaskAt, j: 1..N + 1, i: 1..N + 1]
        /\ task'.i = s /\ task'.at = task.at /\ task'.j = task.j
    BY <1>2, <2>2
  <2> QED BY <1>1, <2>3, <2>4, TaskEnters DEF Fixing, Fn
<1> QED BY <1>3, <1>4

LEMMA FixDoneStep ==
  ASSUME SensorsInv, FixDone
  PROVE  SensorsInv'
<1>1. /\ Fixing /\ call["task"].at = "done" /\ InCall("task") /\ TaskOutside
      /\ UNCHANGED <<bus, dev, live, inited, i2cOK, initOK>>
  BY DEF FixDone, InCall, At, busVars
<1>2. /\ task \in [at: TaskAt, j: 1..N + 1, i: 1..N + 1] /\ call["task"].s = task.i
      /\ i2cOK \in [Sensor -> BOOLEAN] /\ initOK \in [Sensor -> BOOLEAN]
      /\ err \in [Sensor -> {"OK", "BUS", "HARDWARE"}]
  BY <1>1, SensorTypes, LoopTypes DEF SensorsInv, Places
<1>3. CASE call["task"].fn = "deinit"
  <2>1. PICK s \in Sensor : s = task.i BY <1>1, LoopTypes
  <2>2. PICK full \in BOOLEAN : full = (task.at = "all") OBVIOUS
  <2>3. Enter("task", "init", s, full) /\ UNCHANGED <<err, task>> BY <1>3, <2>1, <2>2 DEF FixDone
  <2>4. ~met' => s \in Lax \/ ~initOK'[s]
    <3>1. ~met' => ~met BY <2>3 DEF Enter
    <3>2. ~met => Follows("task") BY DEF SensorsInv, Sound, Proc
    <3> QED BY <1>1, <1>2, <1>3, <2>1, <3>1, <3>2 DEF Follows
  <2>5. Entered("task", "init", s, full)
    <3>1. "init" \in Fn BY DEF Fn
    <3> QED BY <2>3, <2>4, <3>1, EnterCall, Others
  <2> QED BY <1>1, <1>2, <2>1, <2>3, <2>5, TaskEnters DEF Fixing, Fn
<1>4. CASE call["task"].fn # "deinit"
  <2>1. /\ Leave("task") /\ met' = met /\ err' = [err EXCEPT ![task.i] = "OK"]
        /\ task' = [task EXCEPT !.i = @ + 1]
    BY <1>4 DEF FixDone
  <2>2. err' \in [Sensor -> {"OK", "BUS", "HARDWARE"}] BY <1>2, <2>1
  <2> QED BY <1>1, <1>2, <2>1, <2>2, TaskLeaves
<1> QED BY <1>3, <1>4

LEMMA ReadSensorStep ==
  ASSUME SensorsInv, NEW s \in Sensor, ReadSensor(s)
  PROVE  SensorsInv'
<1>1. /\ task.at = "read" /\ task' = [task EXCEPT !.i = s] /\ Enter("task", "read", s, FALSE) /\ TaskOutside
      /\ UNCHANGED <<bus, dev, live, inited, i2cOK, initOK, err>>
  BY DEF ReadSensor, busVars
<1>2. Entered("task", "read", s, FALSE)
  <2>1. "read" \in Fn BY DEF Fn
  <2> QED BY <1>1, <2>1, EnterCall, Others
<1>3. /\ task' \in [at: TaskAt, j: 1..N + 1, i: 1..N + 1]
      /\ task'.i = s /\ task'.at = task.at /\ task'.j = task.j
  BY <1>1, LoopTypes, SensorTypes DEF SensorsInv
<1> QED BY <1>1, <1>2, <1>3, TaskEnters DEF Fixing, Fn

LEMMA ReadEndStep ==
  ASSUME SensorsInv, ReadEnd
  PROVE  SensorsInv'
<1>1. /\ ~InCall("task") /\ task' = [at |-> "scan", j |-> 1, i |-> 1] /\ TaskOutside
      /\ UNCHANGED <<bus, dev, live, inited, i2cOK, initOK, err, call, met>>
  BY DEF ReadEnd, busVars, InCall
<1>2. task' \in [at: TaskAt, j: 1..N + 1, i: 1..N + 1] /\ ~Fixing'
  BY <1>1, SensorTypes DEF SensorsInv, TaskAt, Fixing
<1>3. bus \in BOOLEAN /\ err \in [Sensor -> {"OK", "BUS", "HARDWARE"}]
  BY SensorTypes, LoopTypes DEF SensorsInv
<1> QED BY <1>1, <1>2, <1>3, LoopKeeps

LEMMA ReadDoneStep ==
  ASSUME SensorsInv, ReadDone
  PROVE  SensorsInv'
<1>1. /\ InCall("task") /\ Leave("task") /\ task' = [task EXCEPT !.i = @ + 1] /\ TaskOutside
      /\ UNCHANGED <<bus, dev, live, inited, met>>
  BY DEF ReadDone, InCall, At
<1>2. /\ task.i \in Sensor /\ i2cOK \in [Sensor -> BOOLEAN] /\ initOK \in [Sensor -> BOOLEAN]
      /\ err \in [Sensor -> {"OK", "BUS", "HARDWARE"}]
  BY <1>1, SensorTypes, LoopTypes DEF SensorsInv
<1>3. /\ i2cOK' = i2cOK \/ i2cOK' = [i2cOK EXCEPT ![task.i] = FALSE]
      /\ initOK' = initOK \/ initOK' = [initOK EXCEPT ![task.i] = FALSE]
      /\ \/ err' = err \/ err' = [err EXCEPT ![task.i] = "HARDWARE"]
         \/ err' = [err EXCEPT ![task.i] = "BUS"]
  BY DEF ReadDone
<1>4. /\ i2cOK' \in [Sensor -> BOOLEAN] /\ initOK' \in [Sensor -> BOOLEAN]
      /\ err' \in [Sensor -> {"OK", "BUS", "HARDWARE"}]
      /\ \A s \in Sensor : initOK'[s] => initOK[s]
  BY <1>2, <1>3
<1> QED BY <1>1, <1>4, TaskLeaves

-----------------------------------------------------------------------------
\* A sensor is unplugged or plugged in; or nothing happens.
LEMMA WorldStep ==
  ASSUME SensorsInv, UNCHANGED <<ram, cmds, reads, met, misused>>,
         present' \in [Sensor -> BOOLEAN], faults' \in 0..MaxFaults
  PROVE  SensorsInv'
<1> USE DEF ram, busVars, flagVars
<1>1. SensorsTypeOK' BY DEF SensorsInv, SensorsTypeOK
<1>2. Places' /\ (Purpose => Purpose') BY DEF SensorsInv, Places, Purpose, Fixing, InCall, At
<1> QED BY <1>1, <1>2, QuietKeeps

LEMMA PlugStep ==
  ASSUME SensorsInv, NEW s \in Sensor, Unplug(s) \/ Plug(s)
  PROVE  SensorsInv'
<1>1. present \in [Sensor -> BOOLEAN] /\ faults \in 0..MaxFaults BY DEF SensorsInv, SensorsTypeOK
<1>2. present' \in [Sensor -> BOOLEAN] BY <1>1 DEF Unplug, Plug
<1>3. faults' \in 0..MaxFaults BY <1>1, SensorConstants DEF Unplug, Plug, Fault
<1> QED BY <1>2, <1>3, WorldStep DEF Unplug, Plug

LEMMA SensorsInitial == SensorsInit => SensorsInv
<1> SUFFICES ASSUME SensorsInit PROVE SensorsInv OBVIOUS
<1>1. /\ 1 \in Sensor /\ 1 \in 1..N + 1
      /\ 0 \in 0..MaxDev /\ 0 \in 0..MaxCmds /\ 0 \in 0..MaxReads /\ 0 \in 0..MaxFaults
  BY SensorConstants DEF Sensor
<1>2. All(TRUE) \in [Sensor -> BOOLEAN] /\ All(FALSE) \in [Sensor -> BOOLEAN] BY DEF All
<1>3. NoCall \in Call BY <1>1 DEF NoCall, Call, CallAt, Fn
<1>4. /\ All(0) \in [Sensor -> 0..MaxDev] /\ All("OK") \in [Sensor -> {"OK", "BUS", "HARDWARE"}]
      /\ NoCalls \in [Proc -> Call] /\ Idle \in [cmd: {"none", "one", "on", "off"}, i: 1..N + 1]
      /\ NotCreated \in [at: TaskAt, j: 1..N + 1, i: 1..N + 1]
  BY <1>1, <1>3 DEF All, NoCalls, Idle, NotCreated, TaskAt
<1>5. SensorsTypeOK BY <1>1, <1>2, <1>4 DEF SensorsInit, SensorsTypeOK
<1>6. PowerOn BY DEF SensorsInit, PowerOn
<1> QED BY <1>5, <1>6, StartsSound

LEMMA SensorsStep == SensorsInv /\ [SensorsNext]_sensorVars => SensorsInv'
<1> SUFFICES ASSUME SensorsInv, [SensorsNext]_sensorVars PROVE SensorsInv' OBVIOUS
<1>1. CASE \E s \in Sensor : CmdConn(s) \/ Unplug(s) \/ Plug(s)
  BY <1>1, CmdConnStep, PlugStep
<1>2. CASE (\E on \in BOOLEAN : CmdConnAll(on)) \/ CmdRead
  BY <1>2, CmdConnAllStep, CmdReadStep
<1>3. CASE Host
  BY <1>3, CmdConnDoneStep, ConnAllNextStep, ConnAllDoneStep DEF Host
<1>4. CASE Task
  BY <1>4, TaskStartStep, ScanErrorsStep, FixNextStep, FixDoneStep, ReadSensorStep, ReadEndStep, ReadDoneStep
     DEF Task
<1>5. CASE \E p \in Proc : DriverStep(p)
  BY <1>5, DriverStepKeeps
<1>6. CASE UNCHANGED sensorVars
  BY <1>6, WorldStep DEF sensorVars, SensorsInv, SensorsTypeOK
<1> QED BY <1>1, <1>2, <1>3, <1>4, <1>5, <1>6 DEF SensorsNext

-----------------------------------------------------------------------------
(* Theorems.                                                                *)

\* Until the two tasks have been at one sensor at the same time, every driver
\* call of sensor_profile.c and sensors_manager.c finds its sensor as it left
\* it; the loops of both are where their calls are in any case.
THEOREM SensorsInvariant == SensorsSpec => []SensorsInv
<1>1. SensorsInit => SensorsInv BY SensorsInitial
<1>2. SensorsInv /\ [SensorsNext]_sensorVars => SensorsInv' BY SensorsStep
<1> QED BY <1>1, <1>2, PTL DEF SensorsSpec

\* sensor_driver_interface_manager.c:15 and :46: without a lock, but with the
\* two tasks never at one sensor at a time, no handle of the I2C bus is leaked,
\* left dangling, released twice, shared by two drivers or used when released.
THEOREM SoundApart == SensorsSpec => []SoundUntilTasksMeet
<1>1. SensorsInv => SoundUntilTasksMeet BY DEF SensorsInv, Sound, Handles, SoundUntilTasksMeet
<1> QED BY <1>1, SensorsInvariant, PTL

\* As long as the two tasks have not been at one sensor at the same time,
\* sensor_init_flag is set of no sensor but one whose device is on the bus and
\* whose driver is initialised, but for drivers that ignore every failure.
\* Neither exception can go: InitFlagTruthful, without them, is not true.
THEOREM FlagTruthful == SensorsSpec => []FlagTruthfulApart
<1>1. SensorsInv => FlagTruthfulApart
  <2> SUFFICES ASSUME SensorsInv, ~met, NEW s \in Sensor \ Lax, initOK[s]
               PROVE  dev[s] \in live /\ inited[s]
    BY DEF FlagTruthfulApart, Works
  <2>1. Handles /\ Truthful /\ SensorsTypeOK BY DEF SensorsInv, Sound
  <2>2. dev[s] # 0 /\ inited[s] BY <2>1 DEF Truthful
  <2> QED BY <2>1, <2>2, PointerLive
<1> QED BY <1>1, SensorsInvariant, PTL
=============================================================================
