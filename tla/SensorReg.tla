------------------------------ MODULE SensorReg ------------------------------
(***************************************************************************)
(* A chip register as the set of its bits that are 1, and a driver call as *)
(* the transfers it makes.                                                 *)
(*                                                                         *)
(* A call is a record r: the driver handle and the chip as the calls       *)
(* before it left them, and the transfers made so far.  Every step of a    *)
(* call maps r to r; after the first error nothing more happens to r,      *)
(* which is the early return of the C function.                            *)
(***************************************************************************)
EXTENDS Integers, SequencesExt

CONSTANT Timeout \* polls for a conversion: 1000 in the INA226 driver, 10000 in the Bosch ones (bound)
ASSUME TimeoutAssumption == Timeout \in Nat \ {0, 1}

Bits(w) == 0..w - 1

\* prev &= ~(mask << lo); prev |= x << lo, for a field of w bits.
Insert(v, lo, w, x) == (v \ (lo..lo + w - 1)) \cup {lo + b : b \in x}

\* (v >> lo) & mask, for a field of w bits.
Extract(v, lo, w) == {b \in Bits(w) : lo + b \in v}

Field(reg, lo, w) == [reg |-> reg, lo |-> lo, w |-> w]
Disjoint(f, g) ==
  f.reg # g.reg \/ (f.lo..f.lo + f.w - 1) \cap (g.lo..g.lo + g.w - 1) = {}

\* The field f of a file of registers.
FieldOf(regs, f) == Extract(regs[f.reg], f.lo, f.w)

-----------------------------------------------------------------------------
Ok(r) == r.err = "ok"
Require(r, p, e) == IF Ok(r) /\ ~p THEN [r EXCEPT !.err = e] ELSE r
Expect(r, v, e) == Require(r, r.out = v, e)
Put(r, x) == IF Ok(r) THEN [r EXCEPT !.out = x] ELSE r

\* Runs a clean-up whose result is ignored: the error stays the first one.
OnError(r, Clean(_)) ==
  IF Ok(r) THEN r ELSE [Clean([r EXCEPT !.err = "ok"]) EXCEPT !.err = r.err]

\* One transfer, its retries included.  Transfers in r.bad fail, and all
\* do while the device is not on the bus (its handle is NULL).
Transfer(r, e) ==
  CASE ~Ok(r) -> r
    [] Ok(r) /\ (~r.open \/ r.n + 1 \in r.bad) -> [r EXCEPT !.n = @ + 1, !.err = e]
    [] OTHER -> [r EXCEPT !.n = @ + 1]

Contents(r, g) == Put(r, r.regs[g])
ReadReg(r, g, e) == Contents(Transfer(r, e), g)

\* What g holds after v was written to it is up to the chip: Chip.
Stored(r, g, v, Chip(_, _, _)) == IF Ok(r) THEN Chip(r, g, v) ELSE r
WriteReg(r, g, v, e, Chip(_, _, _)) == Stored(Transfer(r, e), g, v, Chip)

\* A setter's read-modify-write and a getter of a handle that is initialised.
Modify(r, f, x, Chip(_, _, _)) == WriteReg(r, f.reg, Insert(r.out, f.lo, f.w, x), "write", Chip)
SetField(r, f, x, Chip(_, _, _)) ==
  Modify(ReadReg(Require(r, r.inited, "not_init"), f.reg, "read"), f, x, Chip)
FieldRead(r, f) == IF Ok(r) THEN Put(r, Extract(r.out, f.lo, f.w)) ELSE r
GetField(r, f) == FieldRead(ReadReg(Require(r, r.inited, "not_init"), f.reg, "read"), f)

-----------------------------------------------------------------------------
(* sensor_driver_interface_manager.c: adding the device to the bus, after  *)
(* a probe, and removing it.                                               *)

iic_init(r) ==
  LET t == Transfer([Require(r, ~r.open, "bus") EXCEPT !.open = TRUE], "bus")
  IN IF Ok(t) THEN t ELSE [t EXCEPT !.open = r.open]
\* A mutant: the handle is not cleared.
iic_deinit_kept(r) == r
iic_deinit(r) == IF Ok(r) THEN [r EXCEPT !.open = FALSE] ELSE r
=============================================================================
