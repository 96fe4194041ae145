----------------------------- MODULE SensorChips -----------------------------
(***************************************************************************)
(* One of the sensors under its driver: any sequence of driver calls, with *)
(* transfers that fail, conversions that take long, noise on the wire, a   *)
(* sensor that loses power, and the repairs of sensors_manager.c.          *)
(*                                                                         *)
(* Calls do not overlap here; that they may is the subject of Sensors.     *)
(***************************************************************************)
EXTENDS SensorReg, FiniteSetsExt

CONSTANTS
  Chips,        \* the chips to look at
  MaxTouched    \* settings away from those of power-on, or of full_init, at a time (bound)

Ina == INSTANCE Ina226
Bmp == INSTANCE Bmp280
Bme == INSTANCE Bme280
Bh == INSTANCE Bh1750
Aht == INSTANCE Aht20
Bno == INSTANCE Bno055

VARIABLES
  chip,    \* which chip
  genuine, \* it is the chip the driver expects
  d,       \* the driver handle and the chip
  want,    \* the value each setting should have
  last,    \* the last call and its outcome
  skew     \* why a reading may be off by now, though no call reported it

chipVars == <<chip, genuine, d, want, last, skew>>

-----------------------------------------------------------------------------
(* What the chips have in common, by chip.                                 *)

Bosch(c) == c \in {"bmp280", "bme280"}
PowerOn(c) ==
  CASE c = "ina226" -> [g \in Ina!InaRegs |-> Ina!InaReset(g)]
    [] Bosch(c) -> [g \in Bmp!BoschRegs |-> Bmp!BoschReset(g)]
    [] c = "bh1750" -> [g \in Bh!BhRegs |-> Bh!BhReset(g)]
    [] c = "aht20" -> [g \in Aht!AhtRegs |-> Aht!AhtReset(g)]
    [] c = "bno055" -> [g \in Bno!BnoRegs |-> Bno!BnoReset(g)]
\* Another chip at the address, where the driver looks at an identity.
IdReg(c) == CASE c = "ina226" -> {"MANUFACTURER"} [] Bosch(c) -> {"ID"} [] OTHER -> {}
Found(c, ok) == [g \in DOMAIN PowerOn(c) |-> IF g \in IdReg(c) /\ ~ok THEN {"alien"} ELSE PowerOn(c)[g]]
Running(c) == IF c = "ina226" THEN "fresh" ELSE "stale"

FullInit(c, r) ==
  CASE c = "ina226" -> Ina!ina226_app_init(r)
    [] c = "bmp280" -> Bmp!bmp280_app_init(r)
    [] c = "bme280" -> Bme!bme280_app_init(r)
    [] c = "bh1750" -> Bh!bh1750fvi_full_init(r)
    [] c = "aht20" -> Aht!aht20_full_init(r)
    [] c = "bno055" -> Bno!bno055_full_init(r)

AppDeinit(c, r) ==
  CASE c = "ina226" -> Ina!ina226_app_deinit(r)
    [] c = "bmp280" -> Bmp!bmp280_app_deinit(r)
    [] c = "bme280" -> Bme!bme280_app_deinit(r)
    [] c = "bh1750" -> Bh!bh1750fvi_basic_deinit(r)
    [] c = "aht20" -> Aht!aht20_app_deinit(r)
    [] c = "bno055" -> iic_deinit(r)

Defaults(c) ==
  CASE c = "ina226" -> Ina!InaDefaults
    [] c = "bmp280" -> Bmp!Defaults
    [] c = "bme280" -> Bme!Defaults
    [] c = "bh1750" -> "mode" :> Bh!H
    [] OTHER -> <<>>

\* The settings of a chip with the values tried, few enough and telling
\* apart the bits.
Values(w) == {{}, Bits(w)}
AlertBits == {0, 1, 10, 11, 15}
Settings(c) ==
  CASE c = "ina226" ->
         [f \in {Ina!AverageMode, Ina!BusTime, Ina!ShuntTime} |-> Values(3)]
         @@ [f \in {Ina!Mask(b) : b \in AlertBits} |-> Values(1)]
         @@ (Ina!Mode :> {{}, {0, 1}, {0, 1, 2}})
         @@ [f \in {Ina!Whole("CALIBRATION"), Ina!Whole("ALERT_LIMIT")} |-> {{11}, {0, 15}}]
    [] c = "bmp280" ->
         [f \in DOMAIN Bmp!Defaults \ {Bmp!SpiWire, Bmp!Mode} |-> {{}, Bits(3)}]
         @@ (Bmp!SpiWire :> Values(1)) @@ (Bmp!Mode :> {{}, Bmp!Forced, Bmp!Normal})
    [] c = "bme280" ->
         [f \in (DOMAIN Bme!Defaults \ {Bme!Mode}) \cup {Bme!StandbyTime} |-> {{}, Bits(3)}]
         @@ (Bme!SpiWire :> Values(1)) @@ (Bme!Mode :> {{}, Bme!Forced, Bme!Normal})
    [] c = "bh1750" -> ("mode" :> {Bh!H, Bh!H2}) @@ ("time" :> {1..4, 1..7, {0, 2, 6}})
    [] OTHER -> <<>>

InaSet(s, r, x) ==
  CASE s = Ina!AverageMode -> Ina!ina226_set_average_mode(r, x)
    [] s = Ina!BusTime -> Ina!ina226_set_bus_voltage_conversion_time(r, x)
    [] s = Ina!ShuntTime -> Ina!ina226_set_shunt_voltage_conversion_time(r, x)
    [] s = Ina!Mode -> Ina!ina226_set_mode(r, x)
    [] s = Ina!Mask(0) -> Ina!ina226_set_alert_latch(r, x)
    [] s = Ina!Mask(1) -> Ina!ina226_set_alert_polarity_pin(r, x)
    [] s = Ina!Mask(10) -> Ina!ina226_set_conversion_ready_alert_pin(r, x)
    [] s \in {Ina!Mask(b) : b \in 11..15} -> Ina!ina226_set_mask(r, s.lo, x)
    [] s = Ina!Whole("CALIBRATION") -> Ina!ina226_set_calibration(r, x)
    [] s = Ina!Whole("ALERT_LIMIT") -> Ina!ina226_set_alert_limit(r, x)
InaGet(s, r) ==
  CASE s = Ina!AverageMode -> Ina!ina226_get_average_mode(r)
    [] s = Ina!BusTime -> Ina!ina226_get_bus_voltage_conversion_time(r)
    [] s = Ina!ShuntTime -> Ina!ina226_get_shunt_voltage_conversion_time(r)
    [] s = Ina!Mode -> Ina!ina226_get_mode(r)
    [] s = Ina!Mask(0) -> Ina!ina226_get_alert_latch(r)
    [] s = Ina!Mask(1) -> Ina!ina226_get_alert_polarity_pin(r)
    [] s = Ina!Mask(10) -> Ina!ina226_get_conversion_ready_alert_pin(r)
    [] s \in {Ina!Mask(b) : b \in 11..15} -> Ina!ina226_get_mask(r, s.lo)
    [] s = Ina!Whole("CALIBRATION") -> Ina!ina226_get_calibration(r)
    [] s = Ina!Whole("ALERT_LIMIT") -> Ina!ina226_get_alert_limit(r)

BmpSet(s, r, x) ==
  CASE s = Bmp!TemperatureOversampling -> Bmp!bmp280_set_temperatue_oversampling(r, x)
    [] s = Bmp!PressureOversampling -> Bmp!bmp280_set_pressure_oversampling(r, x)
    [] s = Bmp!Mode -> Bmp!bmp280_set_mode(r, x)
    [] s = Bmp!StandbyTime -> Bmp!bmp280_set_standby_time(r, x)
    [] s = Bmp!Filter -> Bmp!bmp280_set_filter(r, x)
    [] s = Bmp!SpiWire -> Bmp!bmp280_set_spi_wire(r, x)
BmpGet(s, r) ==
  CASE s = Bmp!TemperatureOversampling -> Bmp!bmp280_get_temperatue_oversampling(r)
    [] s = Bmp!PressureOversampling -> Bmp!bmp280_get_pressure_oversampling(r)
    [] s = Bmp!Mode -> Bmp!bmp280_get_mode(r)
    [] s = Bmp!StandbyTime -> Bmp!bmp280_get_standby_time(r)
    [] s = Bmp!Filter -> Bmp!bmp280_get_filter(r)
    [] s = Bmp!SpiWire -> Bmp!bmp280_get_spi_wire(r)

BmeSet(s, r, x) ==
  CASE s = Bme!TemperatureOversampling -> Bme!bme280_set_temperatue_oversampling(r, x)
    [] s = Bme!PressureOversampling -> Bme!bme280_set_pressure_oversampling(r, x)
    [] s = Bme!HumidityOversampling -> Bme!bme280_set_humidity_oversampling(r, x)
    [] s = Bme!Mode -> Bme!bme280_set_mode(r, x)
    [] s = Bme!StandbyTime -> Bme!bme280_set_standby_time(r, x)
    [] s = Bme!Filter -> Bme!bme280_set_filter(r, x)
    [] s = Bme!SpiWire -> Bme!bme280_set_spi_wire(r, x)
BmeGet(s, r) ==
  CASE s = Bme!TemperatureOversampling -> Bme!bme280_get_temperatue_oversampling(r)
    [] s = Bme!PressureOversampling -> Bme!bme280_get_pressure_oversampling(r)
    [] s = Bme!HumidityOversampling -> Bme!bme280_get_humidity_oversampling(r)
    [] s = Bme!Mode -> Bme!bme280_get_mode(r)
    [] s = Bme!StandbyTime -> Bme!bme280_get_standby_time(r)
    [] s = Bme!Filter -> Bme!bme280_get_filter(r)
    [] s = Bme!SpiWire -> Bme!bme280_get_spi_wire(r)

SetOf(c, s, r, x) ==
  CASE c = "ina226" -> InaSet(s, r, x)
    [] c = "bmp280" -> BmpSet(s, r, x)
    [] c = "bme280" -> BmeSet(s, r, x)
    [] c = "bh1750" /\ s = "mode" -> Bh!bh1750fvi_set_mode(r, x)
    [] c = "bh1750" /\ s = "time" -> Bh!bh1750fvi_set_measurement_time(r, x)
GetOf(c, s, r) ==
  CASE c = "ina226" -> InaGet(s, r)
    [] c = "bmp280" -> BmpGet(s, r)
    [] c = "bme280" -> BmeGet(s, r)
    [] c = "bh1750" -> Bh!bh1750fvi_get_mode(r)

Kinds(c) ==
  CASE c = "ina226" -> {"bus", "shunt", "current", "power", "all"}
    [] c = "bmp280" -> {"temperature", "pressure", "all"}
    [] c = "bme280" -> {"temperature", "pressure", "humidity", "all"}
    [] c = "bh1750" -> {"continuous", "single"}
    [] c = "aht20" -> {"temperature", "humidity", "all"}
    [] c = "bno055" -> {"quaternion", "accel", "gravity", "all", "mode"}
ReadOf(c, k, r) ==
  CASE c = "ina226" ->
         (CASE k = "bus" -> Ina!ina226_read_get_battery(r)
            [] k = "shunt" -> Ina!ina226_read_shunt_voltage(r)
            [] k = "current" -> Ina!ina226_read_current(r)
            [] k = "power" -> Ina!ina226_read_power(r)
            [] k = "all" -> Ina!ina226_app_read(r))
    [] c = "bmp280" ->
         (CASE k = "temperature" -> Bmp!bmp280_read_temperature(r)
            [] k = "pressure" -> Bmp!bmp280_read_pressure(r)
            [] k = "all" -> Bmp!bmp280_app_read(r))
    [] c = "bme280" ->
         (CASE k = "temperature" -> Bme!bme280_read_temperature(r)
            [] k = "pressure" -> Bme!bme280_read_pressure(r)
            [] k = "humidity" -> Bme!bme280_read_humidity(r)
            [] k = "all" -> Bme!bme280_app_read(r))
    [] c = "bh1750" ->
         (CASE k = "continuous" -> Bh!bh1750fvi_basic_read(r)
            [] k = "single" -> Bh!bh1750fvi_single_read(r))
    [] c = "aht20" ->
         (CASE k = "temperature" -> Aht!aht20_read_temperature(r)
            [] k = "humidity" -> Aht!aht20_app_read_hum(r)
            [] k = "all" -> Aht!aht20_app_read_all(r))
    [] c = "bno055" ->
         (CASE k = "quaternion" -> Bno!bno055_get_quaternion(r)
            [] k = "accel" -> Bno!bno055_get_lin_accel(r)
            [] k = "gravity" -> Bno!bno055_get_gravity(r)
            [] k = "all" -> Bno!bno055_accel_read(r)
            [] k = "mode" -> Bno!bno055_get_opmode(r))

-----------------------------------------------------------------------------
(* Calls and their surroundings.                                           *)

DeviceFields == {"regs", "open", "inited", "trigger", "mode", "scale", "cal", "data"}
\* Nothing reads the coefficients of a handle that is not initialised.
Device(r) == [f \in DeviceFields |-> IF f = "cal" /\ ~r.inited THEN {} ELSE r[f]]

\* The transfers of the inner coefficients: one that fails is like its neighbours.
Coefficients(c) == IF c = "bmp280" THEN 6..13 ELSE 6..19
\* Transfer k fails, or all do from k on: the difference is in the clean-up,
\* which has no transfers while the Bosch drivers are not initialised.
Faults(m) ==
  LET few == IF m > 20 THEN Coefficients(chip) ELSE {}
  IN {{}} \cup {{k} : k \in 1..m \ few} \cup {k..m : k \in {j \in 1..m : \A i \in few : j > i}}
MaxTransfers(c) ==
  CASE c = "ina226" -> 16 [] c = "bmp280" -> 29 [] c = "bme280" -> 34
    [] c = "bh1750" -> 11 [] c = "aht20" -> 12 [] c = "bno055" -> 6
Hot(c) ==
  CASE c = "ina226" -> BOOLEAN
    [] Bosch(c) -> {"none", "temperature", "pressure", "humidity"}
    [] OTHER -> {"none"}
Calm(c) == IF c = "ina226" THEN FALSE ELSE "none"
\* One or two bits of a frame of the AHT20.
Noises(c) == IF c = "aht20" THEN {{a, b} : a, b \in (1..7) \X Aht!Byte} ELSE {}

Env(bad, wait, hot, noise) == [bad |-> bad, wait |-> wait, hot |-> hot, noise |-> noise]
Quiet == Env({}, 0, Calm(chip), {})
Faulty(m) == {Env(bad, 0, Calm(chip), {}) : bad \in Faults(m)}
ReadEnvs ==
  {Env({}, wait, Calm(chip), {}) : wait \in 0..Timeout} \cup {Env({}, 0, hot, {}) : hot \in Hot(chip)}
  \cup {Env({k}, 1, Calm(chip), {}) : k \in 1..Timeout + 3}
  \cup (IF last.op = "init" /\ d.inited THEN {Env({}, 0, Calm(chip), noise) : noise \in Noises(chip)} ELSE {})

Begin(e) == d @@ e @@ [n |-> 0, err |-> "ok", out |-> {}, fine |-> "old"]

\* The settings the chip holds.  A forced mode ends by itself, and the measurement
\* time of the BH1750 cannot be read.
Held(dev) ==
  CASE chip = "bh1750" -> "mode" :> dev.mode
    [] chip = "ina226" -> [s \in DOMAIN Settings(chip) |-> FieldOf(dev.regs, s)]
    [] Bosch(chip) ->
         [s \in {f \in DOMAIN Settings(chip) : f = Bmp!Mode => FieldOf(dev.regs, f) \in {{}, Bmp!Normal}}
            |-> FieldOf(dev.regs, s)]
    [] OTHER -> <<>>
AtPowerOn == Held([d EXCEPT !.regs = PowerOn(chip)])
Forget(s) == Restrict(want, DOMAIN want \ {s})
\* What the caller is left with: of a call that failed, or set something, nothing.
NoCall == [op |-> "none", out |-> {}, skew |-> "none"]
Outcome(op, r, why) ==
  IF ~Ok(r) THEN NoCall
  ELSE [op |-> op, out |-> IF op = "init" THEN {} ELSE r.out, skew |-> why]

\* One reason is remembered: a second one, and only a new full_init helps.
Add(why) == IF skew \in {"none", why} THEN why ELSE "several"
Cure(whys) == IF skew \in whys THEN "none" ELSE skew

\* What full_init sets up.
Configured(r) ==
  /\ r.open
  /\ chip # "bno055" => r.inited
  /\ chip \in {"ina226", "bmp280", "bme280"} =>
       \A f \in DOMAIN Defaults(chip) : FieldOf(r.regs, f) = Defaults(chip)[f]
  /\ chip = "bh1750" => r.regs = [POWER |-> Bh!On, MODE |-> Bh!H, TIME |-> {0, 2, 6}]
  /\ chip = "aht20" => Aht!Calibrated \subseteq r.regs["STATUS"]
  /\ chip = "bno055" => r.regs["OPR_MODE"] = Bno!Ndof

ChipsInit ==
  /\ chip \in Chips /\ genuine \in (IF IdReg(chip) = {} THEN {TRUE} ELSE BOOLEAN)
  /\ d = [regs |-> Found(chip, genuine), open |-> FALSE, inited |-> FALSE, trigger |-> FALSE,
          mode |-> Bh!H, scale |-> {}, cal |-> {}, data |-> Running(chip)]
  /\ want = AtPowerOn /\ skew = "init"
  /\ last = NoCall

\* full_init: alone at start-up, after the device was removed in a repair.
Started(r) ==
  LET lax == chip = "bno055" /\ ~Configured(r)
  IN /\ d' = Device(r)
     /\ want' = IF Ok(r) THEN Defaults(chip) @@ AtPowerOn ELSE Held(d')
     /\ skew' = IF ~Ok(r) THEN Add("init") ELSE IF lax THEN "lax" ELSE "none"
     /\ last' = Outcome("init", r, skew')
     /\ UNCHANGED <<chip, genuine>>
Start(e, repair) ==
  \E r \in {FullInit(chip, IF repair THEN iic_deinit(Begin(e)) ELSE Begin(e))} : Started(r)

\* The other repair, sensor_find_error_and_fix_small.
Readd(e) ==
  LET r == iic_init(iic_deinit(Begin(e)))
  IN /\ d' = Device(r) /\ last' = NoCall
     /\ UNCHANGED <<chip, genuine, want, skew>>

Stop(e) ==
  LET r == AppDeinit(chip, Begin(e))
  IN /\ d' = Device(r) /\ last' = NoCall
     /\ want' = Held(d') /\ skew' = Add("shut")
     /\ UNCHANGED <<chip, genuine>>

\* How far the settings are from those after power-on, or after full_init.
Away(regs, from) == Cardinality({f \in DOMAIN from : FieldOf(regs, f) # from[f]})
Bounded(dev) ==
  chip \in {"ina226", "bmp280", "bme280"} =>
    \/ Away(dev.regs, AtPowerOn) <= MaxTouched
    \/ Away(dev.regs, Defaults(chip) @@ AtPowerOn) <= MaxTouched

\* Setting a mode that stops the conversions; another setting, which in a
\* triggered mode starts a conversion the driver does not wait for; the
\* driver's mode without telling the chip; half of the measurement time.
SkewBySet(s, x, r) ==
  CASE chip = "ina226" /\ s = Ina!Mode /\ Ok(r) -> IF x = {} THEN Add("off") ELSE Cure({"slow", "off", "restart"})
    [] chip = "ina226" /\ s.reg = "CONF" /\ s # Ina!Mode /\ Ok(r) /\ ~d.trigger /\ r.data = "stale" ->
         IF skew = "off" THEN skew ELSE Add("restart")
    [] chip = "bh1750" /\ s = "mode" /\ Ok(r) -> IF x = r.regs["MODE"] THEN Cure({"mode"}) ELSE Add("mode")
    [] chip = "bh1750" /\ s = "time" /\ Ok(r) -> Cure({"half"})
    [] chip = "bh1750" /\ s = "time" /\ ~Ok(r) /\ r.n = 2 -> Add("half")
    [] OTHER -> skew
ChangeSetting(s, x, e) ==
  LET lasting == IF chip = "bh1750" THEN s = "mode" ELSE ~(Bosch(chip) /\ s = Bmp!Mode /\ x = Bmp!Forced)
  IN \E r \in {SetOf(chip, s, Begin(e), x)} :
       /\ d' = Device(r) /\ Bounded(d')
       /\ last' = NoCall
       /\ want' = IF ~Ok(r) THEN want ELSE IF lasting THEN (s :> x) @@ want ELSE Forget(s)
       /\ skew' = SkewBySet(s, x, r)
       /\ UNCHANGED <<chip, genuine>>

\* A conversion that needs more polls than the INA226 driver makes, and a
\* single conversion of the BH1750, are remembered.
SkewByRead(k, e) ==
  CASE chip = "ina226" /\ d.trigger /\ e.wait > Ina!Rounds -> Add("slow")
    [] chip = "bh1750" /\ k = "single" -> IF skew = "mode" THEN "shut" ELSE Add("shut")
    [] OTHER -> skew
Read(k, e) ==
  LET why == IF chip = "bh1750" /\ k = "single" THEN Cure({"mode", "shut"}) ELSE SkewByRead(k, e)
  IN \E r \in {ReadOf(chip, k, Begin(e))} :
       /\ d' = Device(r) /\ last' = Outcome(k, r, why)
       /\ want' = IF Bosch(chip) /\ FieldOf(d'.regs, Bmp!Mode) # Bmp!Normal /\ ~Ok(r)
                  THEN Forget(Bmp!Mode) ELSE want
       /\ skew' = SkewByRead(k, e)
       /\ UNCHANGED <<chip, genuine>>

SoftReset(e) ==
  /\ chip \in {"ina226", "bmp280", "bme280"}
  /\ LET r == CASE chip = "ina226" -> Ina!ina226_soft_reset(Begin(e))
                [] chip = "bmp280" -> Bmp!bmp280_soft_reset(Begin(e))
                [] chip = "bme280" -> Bme!bme280_soft_reset(Begin(e))
     IN /\ d' = Device(r) /\ last' = NoCall
        /\ want' = IF Ok(r) THEN AtPowerOn ELSE want
  /\ UNCHANGED <<chip, genuine, skew>>

\* Starting and stopping the continuous conversions of the BH1750.
Convert(on, e) ==
  /\ chip = "bh1750"
  /\ LET r == IF on THEN Bh!bh1750fvi_start_continuous_read(Begin(e))
              ELSE Bh!bh1750fvi_stop_continuous_read(Begin(e))
     IN /\ d' = Device(r) /\ last' = NoCall
        /\ skew' = IF ~Ok(r) THEN skew ELSE IF on THEN Cure({"mode", "shut"}) ELSE Add("shut")
  /\ UNCHANGED <<chip, genuine, want>>

Ask(e) ==
  /\ chip = "ina226"
  /\ \E hot \in BOOLEAN :
       LET r == Ina!ina226_irq_handler(Begin([e EXCEPT !.hot = hot]))
       IN d' = Device(r) /\ last' = NoCall
  /\ UNCHANGED <<chip, genuine, want, skew>>

\* The sensor is unplugged and plugged in again: its settings are gone.
LosePower ==
  /\ d' = [d EXCEPT !.regs = Found(chip, genuine), !.data = Running(chip)]
  /\ want' = AtPowerOn /\ skew' = Add("power") /\ last' = NoCall
  /\ UNCHANGED <<chip, genuine>>

ChipsNext ==
  \/ \E repair \in {FALSE, d.open} :
       \* with the device on the bus already, it ends at once
       \E e \in Faulty(IF d.open /\ ~repair THEN 1 ELSE MaxTransfers(chip)) : Start(e, repair)
  \/ \E e \in Faulty(1) : Readd(e)
  \/ \E e \in Faulty(2) : Stop(e)
  \/ \E s \in DOMAIN Settings(chip), e \in Faulty(2) : \E x \in Settings(chip)[s] : ChangeSetting(s, x, e)
  \/ \E k \in Kinds(chip), e \in ReadEnvs : Read(k, e)
  \/ \E e \in Faulty(2) : SoftReset(e) \/ Ask(e)
  \/ \E on \in BOOLEAN, e \in Faulty(1) : Convert(on, e)
  \/ LosePower

ChipsSpec == ChipsInit /\ [][ChipsNext]_chipVars

-----------------------------------------------------------------------------
Causes == {"none", "several", "init", "shut", "lax", "power", "off", "slow", "restart", "mode", "half"}
\* The registers keep their width of 16 or 8 bits.
ChipsTypeOK ==
  /\ DOMAIN d = DeviceFields /\ DOMAIN d.regs = DOMAIN PowerOn(chip)
  /\ {d.open, d.inited, d.trigger} \subseteq BOOLEAN /\ d.data \in {"fresh", "stale"}
  /\ chip \in {"ina226", "bmp280", "bme280"} =>
       \A s \in DOMAIN Settings(chip) : d.regs[s.reg] \subseteq Bits(IF chip = "ina226" THEN 16 ELSE 8)
  /\ DOMAIN want \subseteq DOMAIN Settings(chip)
  /\ skew \in Causes /\ last.skew \in Causes

\* Setting one thing disturbs no other: while the device answers, each
\* getter returns what was set last, whatever was set, read or refused since.
SettingsKept ==
  /\ ChipsTypeOK
  /\ d.open /\ d.inited =>
       \A s \in DOMAIN want : GetOf(chip, s, Begin(Quiet)).out = want[s]

\* What a reading that reports success must be.
Sound(k, out) ==
  CASE chip = "ina226" -> out.data = "fresh"
    [] Bosch(chip) ->
         LET needs == Bmp!TempNames \o (CASE k = "temperature" -> <<>> [] k = "humidity" -> Bme!HumNames
                                          [] k = "pressure" -> Bmp!PressNames
                                          [] k = "all" /\ chip = "bmp280" -> Bmp!PressNames
                                          [] OTHER -> Bmp!PressNames \o Bme!HumNames)
         IN out.data = "fresh" /\ out.fine = "now" /\ ToSet(needs) \subseteq out.cal
    [] chip = "bh1750" -> out.data = "fresh" /\ out.scale = out.chip
    [] chip = "aht20" ->
         /\ out.ready
         /\ k # "temperature" => out.hum = {0, 1, 4, 5, 10, 14, 19}
         /\ k # "humidity" => out.temp = {3, 8, 15, 17}
    [] chip = "bno055" ->
         /\ out.data = "fresh"
         /\ k = "all" => /\ out.accel = Bno!Words(Bno!LinearAccelX, 0, 3)
                         /\ out.gravity = Bno!Words(Bno!GravityX, 0, 3)

\* A driver call that reports success has done what it is for, unless one of
\* the named reasons is at work: full_init has set the chip up, a reading is
\* of a sample taken since, converted with the chip's own coefficients.
SuccessIsTrue ==
  last.skew = "none" =>
    /\ last.op = "init" => Configured(d)
    /\ last.op \in Kinds(chip) => Sound(last.op, last.out)

\* From wherever the calls, faults and power losses have led, removing the
\* device and initialising it again on a bus that works succeeds.
RepairRecovers ==
  genuine => \A r \in {FullInit(chip, iic_deinit(Begin(Quiet)))} : Ok(r) /\ Configured(r)
=============================================================================
