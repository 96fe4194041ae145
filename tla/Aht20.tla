-------------------------------- MODULE Aht20 --------------------------------
(***************************************************************************)
(* driver_aht20.c and aht20.c: the humidity sensor.  A measurement is a    *)
(* frame of seven bytes, the last a CRC; noise on the wire flips bits of   *)
(* it (r.noise: <<byte, bit>>).                                            *)
(***************************************************************************)
EXTENDS SensorReg

AhtRegs == {"STATUS", "JH"}
Calibrated == {3, 4}
AhtReset(g) == {}

Byte == Bits(8)

\* if (crc & 0x80) crc = (crc << 1) ^ 0x31; else crc = crc << 1;
ShiftOut(crc) ==
  LET up == {b + 1 : b \in crc} \cap Byte IN IF 7 \in crc THEN SymDiff(up, {0, 4, 5}) ELSE up
EightTimes(crc) ==
  LET Twice(c) == ShiftOut(ShiftOut(c)) IN Twice(Twice(Twice(Twice(crc))))
a_aht20_calc_crc(data) == FoldLeft(LAMBDA crc, byte: EightTimes(SymDiff(crc, byte)), Byte, data)

\* What the chip measured: status, five data bytes, the CRC.
Sample == <<{3, 4}, {7, 2}, {0, 1, 6}, {1, 4, 5}, {0, 7}, {3}>>
Frame == Append(Sample, a_aht20_calc_crc(Sample))
Received(noise) == [i \in 1..7 |-> SymDiff(Frame[i], {n[2] : n \in {m \in noise : m[1] = i}})]

\* (b1 << 16 | b2 << 8 | b3) >> 4, and (b3 << 16 | b4 << 8 | b5) & 0xFFFFF
Join(b1, b2, b3) == {b + 16 : b \in b1} \cup {b + 8 : b \in b2} \cup b3
HumidityRaw(f) == Extract(Join(f[2], f[3], f[4]), 4, 20)
TemperatureRaw(f) == Extract(Join(f[4], f[5], f[6]), 0, 20)

a_aht20_iic_read(r, e) == Transfer(r, e)
a_aht20_iic_write(r, e) == Transfer(r, e)
Inited(r) == Require(r, r.inited, "not_init")

\* Three steps with one of the calibration registers; the chip is
\* calibrated once each of them was written back.
a_aht20_jh_reset_reg(r, addr) ==
  LET t == a_aht20_iic_write(a_aht20_iic_read(a_aht20_iic_write(r, "reset"), "reset"), "reset")
      jh == t.regs["JH"] \cup {addr}
  IN IF ~Ok(t) THEN t
     ELSE [t EXCEPT !.regs["JH"] = jh, !.regs["STATUS"] = IF Cardinality(jh) = 3 THEN Calibrated ELSE @]

aht20_init(r) ==
  LET added == iic_init(r)
      status == a_aht20_iic_read(added, "read")
      done == IF Calibrated \subseteq status.regs["STATUS"] THEN status
              ELSE a_aht20_jh_reset_reg(a_aht20_jh_reset_reg(a_aht20_jh_reset_reg(status, 27), 28), 30)
  IN IF ~Ok(added) THEN added
     ELSE IF Ok(done) THEN [done EXCEPT !.inited = TRUE] ELSE OnError(done, iic_deinit)

aht20_deinit(r) == LET t == iic_deinit(Inited(r)) IN IF Ok(t) THEN [t EXCEPT !.inited = FALSE] ELSE t

\* Trigger, 85 ms, status (busy while r.wait > 0), frame, CRC.
Measured(r) ==
  LET status == a_aht20_iic_read(a_aht20_iic_write(Inited(r), "read"), "read")
      t == a_aht20_iic_read(Require(status, status.wait = 0, "busy"), "read")
      f == Received(t.noise)
  IN Put(Require(t, a_aht20_calc_crc(SubSeq(f, 1, 6)) = f[7], "crc"), f)
Decoded(t, hum, temp) ==
  IF Ok(t) THEN Put(t, [data |-> "fresh", hum |-> hum, temp |-> temp,
                        ready |-> Calibrated \subseteq t.regs["STATUS"]]) ELSE t

aht20_read_temperature_humidity(r) ==
  LET t == Measured(r) IN IF Ok(t) THEN Decoded(t, HumidityRaw(t.out), TemperatureRaw(t.out)) ELSE t
aht20_read_temperature(r) ==
  LET t == Measured(r) IN IF Ok(t) THEN Decoded(t, {}, TemperatureRaw(t.out)) ELSE t
aht20_read_humidity(r) ==
  LET t == Measured(r) IN IF Ok(t) THEN Decoded(t, HumidityRaw(t.out), {}) ELSE t

-----------------------------------------------------------------------------
(* aht20.c *)

aht20_full_init(r) == aht20_init([r EXCEPT !.inited = FALSE])
aht20_app_read_all(r) == aht20_read_temperature_humidity(r)
aht20_app_read_hum(r) == aht20_read_humidity(r)
aht20_app_deinit(r) == aht20_deinit(r)
=============================================================================
