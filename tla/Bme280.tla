------------------------------- MODULE Bme280 -------------------------------
(***************************************************************************)
(* driver_bme280.c and bme280.c: one definition per driver function, on the  *)
(* call records of SensorReg.  The SPI side is a stub in this firmware     *)
(* (bme280_interface_spi_* only return success): the interface is I2C.     *)
(***************************************************************************)
EXTENDS Bosch

a_bme280_iic_spi_read(r, g, e) == ReadReg(r, g, e)
a_bme280_iic_spi_write(r, g, v, e) == WriteReg(r, g, v, e, BoschChip)
a_bme280_get_nvm_calibration(r) == Load([r EXCEPT !.cal = {}], TempNames \o PressNames \o HumNames)
a_bme280_compensate_temperature(r) == Temperature(r)
a_bme280_compensate_pressure(r) == Pressure(r)
a_bme280_compensate_humidity(r) == Humidity(r)

Identified(r) ==
  LET id == Expect(a_bme280_iic_spi_read(r, "ID", "id"), BoschReset("ID"), "id")
  IN a_bme280_get_nvm_calibration(a_bme280_iic_spi_write(id, "RESET", {1, 2, 4, 5, 7}, "reset"))
OrRemoved(r) == IF Ok(r) THEN [r EXCEPT !.inited = TRUE] ELSE OnError(r, iic_deinit)
bme280_init(r) ==
  LET added == iic_init(r) IN IF Ok(added) THEN OrRemoved(Identified(added)) ELSE added

bme280_deinit(r) ==
  LET t == iic_deinit(SetField(r, Mode, {}, BoschChip))
  IN IF Ok(t) THEN [t EXCEPT !.inited = FALSE] ELSE t

Inited(r) == Require(r, r.inited, "not_init")
bme280_soft_reset(r) == a_bme280_iic_spi_write(Inited(r), "RESET", {1, 2, 4, 5, 7}, "write")
bme280_get_status(r) == Transfer(Inited(r), "read")
bme280_set_humidity_oversampling(r, x) == SetField(r, HumidityOversampling, x, BoschChip)
bme280_get_humidity_oversampling(r) == GetField(r, HumidityOversampling)
bme280_set_temperatue_oversampling(r, x) == SetField(r, TemperatureOversampling, x, BoschChip)
bme280_get_temperatue_oversampling(r) == GetField(r, TemperatureOversampling)
bme280_set_pressure_oversampling(r, x) == SetField(r, PressureOversampling, x, BoschChip)
bme280_get_pressure_oversampling(r) == GetField(r, PressureOversampling)
bme280_set_mode(r, x) == SetField(r, Mode, x, BoschChip)
bme280_get_mode(r) == GetField(r, Mode)
bme280_set_standby_time(r, x) == SetField(r, StandbyTime, x, BoschChip)
bme280_get_standby_time(r) == GetField(r, StandbyTime)
bme280_set_filter(r, x) == SetField(r, Filter, x, BoschChip)
bme280_get_filter(r) == GetField(r, Filter)
bme280_set_spi_wire(r, x) == SetField(r, SpiWire, x, BoschChip)
bme280_get_spi_wire(r) == GetField(r, SpiWire)

bme280_read_temperature(r) == a_bme280_compensate_temperature(Measure(r))
bme280_read_pressure(r) == a_bme280_compensate_pressure(a_bme280_compensate_temperature(Measure(r)))
bme280_read_humidity(r) == a_bme280_compensate_humidity(a_bme280_compensate_temperature(Measure(r)))
bme280_read_temperature_pressure_humidity(r) ==
  a_bme280_compensate_humidity(a_bme280_compensate_pressure(a_bme280_compensate_temperature(Measure(r))))

-----------------------------------------------------------------------------
(* bme280.c *)

Defaults ==
  (TemperatureOversampling :> {1}) @@ (PressureOversampling :> {0, 2}) @@ (HumidityOversampling :> {0})
  @@ (Filter :> {2}) @@ (Mode :> Normal)

OrDeinit(r) == OnError(r, bme280_deinit)
bme280_app_init(r) ==
  LET t0 == bme280_init([r EXCEPT !.inited = FALSE, !.cal = {}])
      t1 == bme280_set_temperatue_oversampling(t0, Defaults[TemperatureOversampling])
      t2 == bme280_set_pressure_oversampling(t1, Defaults[PressureOversampling])
      t3 == bme280_set_humidity_oversampling(t2, Defaults[HumidityOversampling])
      t4 == bme280_set_filter(t3, Defaults[Filter])
      t5 == bme280_set_mode(t4, Defaults[Mode])
  IN IF Ok(t0) THEN OrDeinit(t5) ELSE t0

bme280_app_read(r) == bme280_read_temperature_pressure_humidity(r)
bme280_app_deinit(r) == bme280_deinit(r)
=============================================================================
