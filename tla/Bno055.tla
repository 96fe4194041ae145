------------------------------- MODULE Bno055 -------------------------------
(***************************************************************************)
(* driver_bno055.c and bno055.c: the motion sensor.  full_init reports     *)
(* success whatever failed.  The functions that ask x_bno_dev[] whether    *)
(* the device is open are always refused, because nothing opens it.        *)
(***************************************************************************)
EXTENDS SensorReg

BnoRegs == {"OPR_MODE", "PWR_MODE"}
BnoReset(g) == {}
Config == {}
Ndof == {2, 3}

\* A reset (bit 5 of SYS_TRIGGER) returns the chip to configuration mode.
BnoChip(r, g, v) ==
  LET t == IF g = "SYS_TRIGGER" THEN [r EXCEPT !.regs = [x \in BnoRegs |-> BnoReset(x)]] ELSE [r EXCEPT !.regs[g] = v]
  IN [t EXCEPT !.data = IF t.regs["OPR_MODE"] = Ndof THEN "fresh" ELSE "stale"]
Write(r, g, v) == WriteReg(r, g, v, "write", BnoChip)
Opened(r) == Require(r, FALSE, "not_open")

bno055_read_register(r, g) == ReadReg(Opened(r), g, "read")
bno055_write_register(r, g, v) == LET t == Opened(r) IN IF Ok(t) THEN Write(t, g, v) ELSE t
\* Only 2 to 127 bytes at a time.
bno055_read_data(r, n) == Transfer(Require(r, n \in 2..127, "range"), "read")
bno055_set_opmode(r, x) == Write(r, "OPR_MODE", x)
bno055_get_opmode(r) == bno055_read_register(r, "OPR_MODE")
bno055_set_ext_crystal_use(r, on) ==
  LET t == bno055_get_opmode(r)
  IN bno055_write_register(Require(t, t.out = Config, "mode"), "SYS_TRIGGER", IF on THEN {7} ELSE {})

\* The registers x_buffer is filled from, and the bytes of it each vector
\* is put together from: low byte first.
QuaternionW == 32
LinearAccelX == 40
GravityX == 46
Words(first, at, n) == [i \in 1..n |-> {first + at + 2 * (i - 1), first + at + 2 * (i - 1) + 1}]
_bno055_buf_to_quaternion(first, at) == Words(first, at, 4)
_bno055_buf_to_lin_accel(first, at) == Words(first, at, 3)
_bno055_buf_to_gravity(first, at) == Words(first, at, 3)

bno055_get_quaternion(r) ==
  LET t == bno055_read_data(r, 8) IN Put(t, [data |-> t.data, quat |-> _bno055_buf_to_quaternion(QuaternionW, 0)])
bno055_get_lin_accel(r) ==
  LET t == bno055_read_data(r, 6) IN Put(t, [data |-> t.data, accel |-> _bno055_buf_to_lin_accel(LinearAccelX, 0)])
bno055_get_gravity(r) ==
  LET t == bno055_read_data(r, 6) IN Put(t, [data |-> t.data, gravity |-> _bno055_buf_to_gravity(GravityX, 0)])
bno055_get_fusion_data(r) ==
  LET t == bno055_read_data(r, 20)
  IN Put(t, [data |-> t.data, quat |-> _bno055_buf_to_quaternion(QuaternionW, 0),
             accel |-> _bno055_buf_to_lin_accel(QuaternionW, 8),
             gravity |-> _bno055_buf_to_gravity(QuaternionW, 14)])

\* Each error is logged and forgotten.
Forget(r) == [r EXCEPT !.err = "ok"]
bno055_full_init(r) ==
  LET added == Forget(iic_init(r))
      config == Forget(bno055_set_opmode(added, Config))
      reset == Forget(Write(config, "SYS_TRIGGER", {5}))
      power == Forget(Write(reset, "PWR_MODE", {}))
  IN Forget(bno055_set_opmode(power, Ndof))
bno055_accel_read(r) == bno055_get_fusion_data(r)
=============================================================================
