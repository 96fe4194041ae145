------------------------------- MODULE Bh1750 -------------------------------
(***************************************************************************)
(* driver_bh1750fvi.c and bh1750.c: the light sensor.  It has no registers *)
(* to read: what it was told is in POWER, MODE and TIME, and the driver    *)
(* keeps its own copy of the mode (r.mode) and of the time (r.scale) to    *)
(* turn counts into lux with.                                              *)
(***************************************************************************)
EXTENDS SensorReg, FiniteSetsExt

BhRegs == {"POWER", "MODE", "TIME"}
BhReset(g) == IF g = "TIME" THEN {0, 2, 6} ELSE {}
On == {0}
H == {"h"}
H2 == {"h2"}
L == {"l"}
OneTime(mode) == mode \cup {"one time"}
Modes == {H, H2, L}
\* A command byte, as the register it changes.
BhChip(r, g, v) ==
  LET t == CASE g = "HIGH" -> [r EXCEPT !.regs["TIME"] = Insert(@, 5, 3, v)]
             [] g = "LOW" -> [r EXCEPT !.regs["TIME"] = Insert(@, 0, 5, v)]
             [] g = "MODE" -> [r EXCEPT !.regs["MODE"] = v, !.regs["POWER"] = On]
             [] g = "POWER" -> [r EXCEPT !.regs["POWER"] = v]
             [] g = "RESET" -> r
  IN [t EXCEPT !.data = IF t.regs["POWER"] = On /\ t.regs["MODE"] \in Modes THEN "fresh" ELSE "stale"]

a_bh1750fvi_iic_read(r) == Transfer(r, "read")
a_bh1750fvi_iic_write(r, g, v, e) == WriteReg(r, g, v, e, BhChip)
Inited(r) == Require(r, r.inited, "not_init")
IfOk(r, t) == IF Ok(r) THEN t ELSE r

bh1750fvi_set_mode(r, x) == LET t == Inited(r) IN IfOk(t, [t EXCEPT !.mode = x])
bh1750fvi_get_mode(r) == Put(Inited(r), r.mode)

\* (t >> 5) & 0x07, then t & 0x1F.
SetTime(r, x, e) ==
  a_bh1750fvi_iic_write(a_bh1750fvi_iic_write(r, "HIGH", Extract(x, 5, 3), e), "LOW", Extract(x, 0, 5), e)

Ready(r) == IfOk(r, [r EXCEPT !.mode = H, !.scale = {0, 2, 6}, !.inited = TRUE])
\* A failing time setting leaves the device on the bus.
TimeSet(r) == IF Ok(r) THEN Ready(SetTime(r, {0, 2, 6}, "write")) ELSE OnError(r, iic_deinit)
bh1750fvi_init(r) ==
  LET added == iic_init(r)
      on == a_bh1750fvi_iic_write(added, "POWER", On, "power")
  IN IF Ok(added) THEN TimeSet(a_bh1750fvi_iic_write(on, "RESET", {}, "reset")) ELSE added

bh1750fvi_power_down(r) == a_bh1750fvi_iic_write(Inited(r), "POWER", {}, "power")
bh1750fvi_power_on(r) == a_bh1750fvi_iic_write(Inited(r), "POWER", On, "power")
bh1750fvi_reset(r) == a_bh1750fvi_iic_write(Inited(r), "RESET", {}, "reset")
bh1750fvi_deinit(r) ==
  LET t == iic_deinit(bh1750fvi_power_down(r)) IN IfOk(t, [t EXCEPT !.inited = FALSE])

Number(x) == MapThenSumSet(LAMBDA b: 2 ^ b, x)
bh1750fvi_set_measurement_time(r, x) ==
  LET t == SetTime(Require(Inited(r), Number(x) \in 31..254, "param"), x, "write")
  IN IfOk(t, [t EXCEPT !.scale = x])

\* The counts, with what the driver and the chip took for mode and time.
Lux(r) ==
  LET t == a_bh1750fvi_iic_read(r)
  IN Put(t, [data |-> t.data, scale |-> <<t.mode, t.scale>>, chip |-> <<t.regs["MODE"] \ {"one time"}, t.regs["TIME"]>>])

\* The one conversion is over after the delay, the chip powers down.
bh1750fvi_single_read(r) ==
  LET t == a_bh1750fvi_iic_write(Require(Inited(r), r.mode \in Modes, "param"), "MODE", OneTime(r.mode), "write")
  IN IfOk(t, [Lux([t EXCEPT !.data = "fresh"]) EXCEPT !.regs["POWER"] = {}, !.data = "stale"])
bh1750fvi_continuous_read(r) == Lux(Inited(r))
bh1750fvi_start_continuous_read(r) ==
  a_bh1750fvi_iic_write(Require(Inited(r), r.mode \in Modes, "param"), "MODE", r.mode, "write")
bh1750fvi_stop_continuous_read(r) ==
  a_bh1750fvi_iic_write(Require(Inited(r), r.mode \in Modes, "param"), "MODE", OneTime(r.mode), "write")

-----------------------------------------------------------------------------
(* bh1750.c *)

OrDeinit(r) == OnError(r, bh1750fvi_deinit)
bh1750fvi_full_init(r) ==
  LET t0 == bh1750fvi_init([r EXCEPT !.inited = FALSE, !.mode = H, !.scale = {}])
      t1 == bh1750fvi_set_mode(bh1750fvi_power_on(t0), H)
      t2 == bh1750fvi_set_measurement_time(t1, {0, 2, 6})
  IN IF Ok(t0) THEN OrDeinit(bh1750fvi_start_continuous_read(t2)) ELSE t0
bh1750fvi_basic_read(r) == bh1750fvi_continuous_read(r)
bh1750fvi_basic_deinit(r) == bh1750fvi_deinit(bh1750fvi_stop_continuous_read(r))
=============================================================================
