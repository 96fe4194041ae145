-------------------------------- MODULE Bosch --------------------------------
(***************************************************************************)
(* What driver_bmp280.c and driver_bme280.c share, line by line: the       *)
(* register fields, the forced measurement and the compensation formulas.  *)
(*                                                                         *)
(* r.data tells whether the data registers hold a sample younger than the  *)
(* call, r.fine whether t_fine was computed from it.  The formulas stand   *)
(* for what they need: the coefficients and t_fine.                        *)
(***************************************************************************)
EXTENDS SensorReg

BoschRegs == {"ID", "CTRL_MEAS", "CTRL_HUM", "CONFIG"}
BoschReset(g) == IF g = "ID" THEN {"bosch"} ELSE {}

TemperatureOversampling == Field("CTRL_MEAS", 5, 3)
PressureOversampling == Field("CTRL_MEAS", 2, 3)
Mode == Field("CTRL_MEAS", 0, 2)
HumidityOversampling == Field("CTRL_HUM", 0, 3)
StandbyTime == Field("CONFIG", 5, 3)
Filter == Field("CONFIG", 2, 3)
SpiWire == Field("CONFIG", 0, 1)

Normal == {0, 1}
Forced == {0}
ModeOf(r) == FieldOf(r.regs, Mode)

\* The chip after a write: RESET clears the settings; only normal mode
\* keeps the data fresh.
BoschChip(r, g, v) ==
  LET t == IF g = "RESET" THEN [r EXCEPT !.regs = [x \in BoschRegs |-> IF x = "ID" THEN @[x] ELSE {}]]
           ELSE [r EXCEPT !.regs[g] = v]
  IN [t EXCEPT !.data = IF ModeOf(t) = Normal THEN "fresh" ELSE "stale"]

\* The coefficients, read one after another.
TempNames == <<"t1", "t2", "t3">>
PressNames == <<"p1", "p2", "p3", "p4", "p5", "p6", "p7", "p8", "p9">>
HumNames == <<"h1", "h2", "h3", "h4", "h5", "h6">>

Load(r, names) ==
  LET failing == {i \in DOMAIN names : ~r.open \/ r.n + i \in r.bad}
      read == IF failing = {} THEN Len(names) ELSE Min(failing) - 1
      tried == IF failing = {} THEN read ELSE read + 1
  IN IF ~Ok(r) THEN r
     ELSE [r EXCEPT !.n = @ + tried, !.cal = @ \cup {names[i] : i \in 1..read},
                    !.err = IF failing = {} THEN "ok" ELSE "nvm"]

\* One look at the mode bits: a forced conversion that is over has cleared
\* them.  r.wait polls are left.
PollMode(r) ==
  LET t == Transfer(r, "read")
      over == ModeOf(t) \notin {{}, Normal} /\ t.wait = 0
  IN IF ~Ok(t) THEN t
     ELSE [t EXCEPT !.wait = IF @ = 0 THEN 0 ELSE @ - 1,
                    !.regs["CTRL_MEAS"] = IF over THEN @ \ {0, 1} ELSE @,
                    !.data = IF over THEN "fresh" ELSE @]

\* timeout = 10 * 1000; while (timeout != 0) { ...; timeout--; }
AwaitSleep(r) ==
  LET t == FoldLeft(LAMBDA u, i: IF ~Ok(u) \/ ModeOf(u) = {} THEN u ELSE PollMode(u),
                    PollMode(r), [i \in 1..Timeout - 1 |-> i])
  IN Require(t, ModeOf(t) = {}, "timeout")

\* In normal mode the registers are read as they are, in any other mode
\* (a forced conversion under way included) one conversion is started.
Measure(r) ==
  LET t == PollMode(Require(r, r.inited, "not_init"))
      again == Transfer(t, "read")
      forced == WriteReg(again, "CTRL_MEAS", Insert(again.regs["CTRL_MEAS"], 0, 2, Forced), "write", BoschChip)
  IN Transfer(IF ~Ok(t) \/ ModeOf(t) = Normal THEN t ELSE AwaitSleep(forced), "read")

\* A value out of range is clamped and reported.
Temperature(r) ==
  LET t == IF Ok(r) THEN [r EXCEPT !.fine = "now"] ELSE r
  IN Require(Put(t, [data |-> t.data, fine |-> "now", cal |-> t.cal]), t.hot # "temperature", "compensate")
Pressure(r) ==
  Require(Put(r, [data |-> r.data, fine |-> r.fine, cal |-> r.cal]), r.hot # "pressure", "compensate")
Humidity(r) ==
  Require(Put(r, [data |-> r.data, fine |-> r.fine, cal |-> r.cal]), r.hot # "humidity", "compensate")
=============================================================================
