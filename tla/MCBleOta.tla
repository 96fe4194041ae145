------------------------------ MODULE MCBleOta ------------------------------
(* BleOta for TLC: who uploads which image.                                *)
EXTENDS BleOta, TLC
CONSTANTS alice, bob, fwA, fwB

MCImageOf == alice :> fwA @@ bob :> fwB
=============================================================================
