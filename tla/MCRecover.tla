------------------------------ MODULE MCRecover ------------------------------
(* Small instances of Recover.                                              *)
EXTENDS Recover

Dev(p, n, v, S) == [port |-> p, devnum |-> n, vendor |-> v, product |-> 653, instances |-> S]
(* A keyboard, the same after a replug, and another vendor's device with    *)
(* the same product id.                                                     *)
Keyboard == Dev("1-2", 5, RAZER_VID, {1, 2})
Replugged == Dev("1-2", 6, RAZER_VID, {3})
Other == Dev("1-3", 7, 1133, {4})
ThreeDevices == {Keyboard, Replugged, Other}
OneDevice == {Keyboard}
==============================================================================
