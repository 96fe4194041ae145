------------------------------- MODULE Bmp280 -------------------------------
(***************************************************************************)
(* driver_bmp280.c and bmp280.c: one definition per driver function, on the  *)
(* call records of SensorReg.  The SPI side is a stub in this firmware     *)
(* (bmp280_interface_spi_* only return success): the interface is I2C.     *)
(***************************************************************************)
EXTENDS Bosch

a_bmp280_iic_spi_read(r, g, e) == ReadReg(r, g, e)
a_bmp280_iic_spi_write(r, g, v, e) == WriteReg(r, g, v, e, BoschChip)
a_bmp280_get_nvm_calibration(r) == Load([r EXCEPT !.cal = {}], TempNames \o PressNames)
a_bmp280_compensate_temperature(r) == Temperature(r)
a_bmp280_compensate_pressure(r) == Pressure(r)

Identified(r) ==
  LET id == Expect(a_bmp280_iic_spi_read(r, "ID", "id"), BoschReset("ID"), "id")
  IN a_bmp280_get_nvm_calibration(a_bmp280_iic_spi_write(id, "RESET", {1, 2, 4, 5, 7}, "reset"))
OrRemoved(r) == IF Ok(r) THEN [r EXCEPT !.inited = TRUE] ELSE OnError(r, iic_deinit)
bmp280_init(r) ==
  LET added == iic_init(r) IN IF Ok(added) THEN OrRemoved(Identified(added)) ELSE added

bmp280_deinit(r) ==
  LET t == iic_deinit(SetField(r, Mode, {}, BoschChip))
  IN IF Ok(t) THEN [t EXCEPT !.inited = FALSE] ELSE t

Inited(r) == Require(r, r.inited, "not_init")
bmp280_soft_reset(r) == a_bmp280_iic_spi_write(Inited(r), "RESET", {1, 2, 4, 5, 7}, "write")
bmp280_get_status(r) == Transfer(Inited(r), "read")
bmp280_set_temperatue_oversampling(r, x) == SetField(r, TemperatureOversampling, x, BoschChip)
bmp280_get_temperatue_oversampling(r) == GetField(r, TemperatureOversampling)
bmp280_set_pressure_oversampling(r, x) == SetField(r, PressureOversampling, x, BoschChip)
bmp280_get_pressure_oversampling(r) == GetField(r, PressureOversampling)
bmp280_set_mode(r, x) == SetField(r, Mode, x, BoschChip)
bmp280_get_mode(r) == GetField(r, Mode)
bmp280_set_standby_time(r, x) == SetField(r, StandbyTime, x, BoschChip)
bmp280_get_standby_time(r) == GetField(r, StandbyTime)
\* A mutant: the mask of the filter reaches into the standby time.
bmp280_set_filter_wide(r, x) == SetField(r, Field("CONFIG", 2, 4), x, BoschChip)
bmp280_set_filter(r, x) == SetField(r, Filter, x, BoschChip)
bmp280_get_filter(r) == GetField(r, Filter)
bmp280_set_spi_wire(r, x) == SetField(r, SpiWire, x, BoschChip)
bmp280_get_spi_wire(r) == GetField(r, SpiWire)

bmp280_read_temperature(r) == a_bmp280_compensate_temperature(Measure(r))
\* A mutant: t_fine of an earlier sample.
bmp280_read_pressure_cold(r) == a_bmp280_compensate_pressure(Measure(r))
bmp280_read_pressure(r) == a_bmp280_compensate_pressure(a_bmp280_compensate_temperature(Measure(r)))
bmp280_read_temperature_pressure(r) ==
  a_bmp280_compensate_pressure(a_bmp280_compensate_temperature(Measure(r)))

-----------------------------------------------------------------------------
(* bmp280.c *)

Defaults ==
  (TemperatureOversampling :> {1}) @@ (PressureOversampling :> {0, 2}) @@ (StandbyTime :> {})
  @@ (Filter :> {2}) @@ (SpiWire :> {}) @@ (Mode :> Normal)

OrDeinit(r) == OnError(r, bmp280_deinit)
bmp280_app_init(r) ==
  LET t0 == bmp280_init([r EXCEPT !.inited = FALSE, !.cal = {}])
      t1 == bmp280_set_temperatue_oversampling(t0, Defaults[TemperatureOversampling])
      t2 == bmp280_set_pressure_oversampling(t1, Defaults[PressureOversampling])
      t3 == bmp280_set_standby_time(t2, Defaults[StandbyTime])
      t4 == bmp280_set_filter(t3, Defaults[Filter])
      t5 == bmp280_set_spi_wire(t4, Defaults[SpiWire])
      t6 == bmp280_set_mode(t5, Defaults[Mode])
  IN IF Ok(t0) THEN OrDeinit(t6) ELSE t0

bmp280_app_read(r) == bmp280_read_temperature_pressure(r)
bmp280_app_deinit(r) == bmp280_deinit(r)
=============================================================================
