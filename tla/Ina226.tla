------------------------------- MODULE Ina226 -------------------------------
(***************************************************************************)
(* driver_ina226.c and ina226.c: the battery monitor.  One definition per  *)
(* driver function, on the call records of SensorReg.                      *)
(***************************************************************************)
EXTENDS SensorReg

InaRegs == {"CONF", "CALIBRATION", "MASK", "ALERT_LIMIT", "MANUFACTURER", "DIE"}
TexasInstruments == {0, 3, 6, 10, 12, 14}  \* 0x5449
DieId == {9, 5, 13}                        \* 0x2260
InaReset(g) ==
  CASE g = "CONF" -> {0, 1, 2, 5, 8, 14}   \* 0x4127
    [] g = "MANUFACTURER" -> TexasInstruments
    [] g = "DIE" -> DieId
    [] OTHER -> {}

Triggered(mode) == mode \in {{0}, {1}, {0, 1}}

\* The chip after a write.  Bit 15 of CONF resets it; writing CONF in a
\* triggered mode starts a conversion, and continuous modes always have one.
InaChip(r, g, v) ==
  IF g = "CONF"
  THEN [r EXCEPT !.regs = IF 15 \in v THEN [x \in InaRegs |-> IF x = "MANUFACTURER" THEN @[x] ELSE InaReset(x)]
                          ELSE [@ EXCEPT ![g] = v],
                 !.data = IF {2, 15} \cap v # {} THEN "fresh" ELSE "stale"]
  ELSE [r EXCEPT !.regs[g] = v]

a_ina226_iic_read(r, g, e) == ReadReg(r, g, e)
a_ina226_iic_write(r, g, v, e) == WriteReg(r, g, v, e, InaChip)

\* The fields of CONF and MASK.
Set(r, f, x) == SetField(r, f, x, InaChip)
AverageMode == Field("CONF", 9, 3)
BusTime == Field("CONF", 6, 3)
ShuntTime == Field("CONF", 3, 3)
Mode == Field("CONF", 0, 3)
Mask(bit) == Field("MASK", bit, 1)
Whole(g) == Field(g, 0, 16)

ina226_set_resistance(r, x) == [r EXCEPT !.scale = x]
ina226_get_resistance(r) == Put(r, r.scale)
ina226_set_average_mode(r, x) == Set(r, AverageMode, x)
ina226_get_average_mode(r) == GetField(r, AverageMode)
ina226_set_bus_voltage_conversion_time(r, x) == Set(r, BusTime, x)
ina226_get_bus_voltage_conversion_time(r) == GetField(r, BusTime)
ina226_set_shunt_voltage_conversion_time(r, x) == Set(r, ShuntTime, x)
ina226_get_shunt_voltage_conversion_time(r) == GetField(r, ShuntTime)
ina226_get_mode(r) == GetField(r, Mode)
ina226_set_mode(r, x) ==
  LET t == Set(r, Mode, x) IN IF Ok(t) THEN [t EXCEPT !.trigger = Triggered(x)] ELSE t
ina226_set_mask(r, bit, x) == Set(r, Mask(bit), x)
ina226_get_mask(r, bit) == GetField(r, Mask(bit))
ina226_set_conversion_ready_alert_pin(r, x) == Set(r, Mask(10), x)
ina226_get_conversion_ready_alert_pin(r) == GetField(r, Mask(10))
ina226_set_alert_polarity_pin(r, x) == Set(r, Mask(1), x)
ina226_get_alert_polarity_pin(r) == GetField(r, Mask(1))
ina226_set_alert_latch(r, x) == Set(r, Mask(0), x)
ina226_get_alert_latch(r) == GetField(r, Mask(0))

Inited(r) == Require(r, r.inited, "not_init")
ina226_set_alert_limit(r, x) == a_ina226_iic_write(Inited(r), "ALERT_LIMIT", x, "write")
ina226_get_alert_limit(r) == a_ina226_iic_read(Inited(r), "ALERT_LIMIT", "read")
ina226_set_calibration(r, x) == a_ina226_iic_write(Inited(r), "CALIBRATION", x, "write")
ina226_get_calibration(r) == a_ina226_iic_read(Inited(r), "CALIBRATION", "read")
\* The value does not depend on the resistance: 0.00512 / (0.08192 / 2^15) = 2048.
ina226_calculate_calibration(r) == Put(Require(Inited(r), r.scale # {}, "param"), {11})
ina226_get_die_id(r) ==
  LET t == a_ina226_iic_read(Inited(r), "DIE", "read")
  IN IF Ok(t) THEN Put(t, [device |-> Extract(t.out, 4, 12), revision |-> Extract(t.out, 0, 4)]) ELSE t
Reset(r, e) == a_ina226_iic_write(r, "CONF", r.out \cup {15}, e)
ina226_soft_reset(r) ==
  LET t == a_ina226_iic_read(Inited(r), "CONF", "read") IN Reset(t, "write")

-----------------------------------------------------------------------------
\* One poll of the flags: the conversion has r.wait polls to go, the
\* overflow flag is r.hot.
PollFlags(r) ==
  LET t == Transfer(r, "read")
  IN IF ~Ok(t) THEN t
     ELSE [t EXCEPT !.wait = IF @ = 0 THEN 0 ELSE @ - 1,
                    !.data = IF t.wait = 0 /\ @ = "stale" THEN "fresh" ELSE @]

\* for (i = 0; i < timeout; i++) { ...; timeout--; }: the two meet half way,
\* with timeout above zero.
Rounds == (Timeout + 1) \div 2
AwaitReady(r) ==
  FoldLeft(LAMBDA t, i: IF ~Ok(t) \/ t.data = "fresh" THEN t ELSE PollFlags(t),
           r, [i \in 1..Rounds |-> i])

\* The wait for a triggered conversion.
Settled(r) == IF Ok(r) THEN [r EXCEPT !.trigger = FALSE] ELSE r
Ready(r) == IF r.trigger /\ Ok(r) THEN Settled(AwaitReady(r)) ELSE r
NoOverflow(r) == Require(r, ~r.hot, "overflow")
Sampled(r) == Put(r, [data |-> r.data])
ReadData(r) == Sampled(Transfer(Ready(NoOverflow(PollFlags(Inited(r)))), "read"))

ina226_read_shunt_voltage(r) == ReadData(r)
ina226_read_bus_voltage(r) == ReadData(r)
ina226_read_current(r) == ReadData(r)
ina226_read_power(r) == ReadData(r)

\* The first enabled source is the one the callback is told of.
ina226_irq_handler(r) ==
  LET t == a_ina226_iic_read(Inited(r), "MASK", "read")
      on == IF Ok(t) THEN t.out \cap 11..15 ELSE {}
  IN IF Ok(t) THEN Put(t, IF r.hot /\ on # {} THEN {CHOOSE b \in on : \A c \in on : c <= b} ELSE {}) ELSE t

IsReset(r) == Require(r, 15 \notin r.out, "reset")
\* The chip answers: who is it, and is it reset.
Identified(r) ==
  LET conf == a_ina226_iic_read(Expect(a_ina226_iic_read(r, "MANUFACTURER", "id"), TexasInstruments, "id"), "CONF", "reset")
  IN IsReset(a_ina226_iic_read(Reset(conf, "reset"), "CONF", "reset"))
OrRemoved(r) ==
  IF Ok(r) THEN [r EXCEPT !.trigger = FALSE, !.inited = TRUE] ELSE OnError(r, iic_deinit)
ina226_init(r) ==
  LET added == iic_init(r) IN IF Ok(added) THEN OrRemoved(Identified(added)) ELSE added

\* inited stays set.
ina226_deinit(r) ==
  LET t == a_ina226_iic_read(Inited(r), "CONF", "read")
  IN iic_deinit(a_ina226_iic_write(t, "CONF", Insert(t.out, 0, 3, {}), "write"))

-----------------------------------------------------------------------------
(* ina226.c *)

InaDefaults == (AverageMode :> {1}) @@ (BusTime :> {2}) @@ (ShuntTime :> {2})
               @@ (Whole("CALIBRATION") :> {11}) @@ (Mode :> {0, 1, 2})

OrDeinit(r) == OnError(r, ina226_deinit)
SetCalculated(r) == ina226_set_calibration(r, r.out)
ina226_app_init(r) ==
  LET linked == [r EXCEPT !.inited = FALSE, !.trigger = FALSE]
      t0 == ina226_init(ina226_set_resistance(linked, {0}))
      t1 == ina226_set_average_mode(t0, InaDefaults[AverageMode])
      t2 == ina226_set_bus_voltage_conversion_time(t1, InaDefaults[BusTime])
      t3 == ina226_set_shunt_voltage_conversion_time(t2, InaDefaults[ShuntTime])
      t4 == SetCalculated(ina226_calculate_calibration(t3))
  IN IF Ok(t0) THEN OrDeinit(ina226_set_mode(t4, InaDefaults[Mode])) ELSE t0

ina226_app_read(r) ==
  LET t == ina226_read_power(ina226_read_current(ina226_read_bus_voltage(r))) IN t
ina226_app_deinit(r) == ina226_deinit(r)
ina226_read_get_battery(r) == ina226_read_bus_voltage(r)
=============================================================================
