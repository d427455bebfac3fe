------------------------------ MODULE MCRazerd ------------------------------
(* Small instances of Razerd.                                               *)
EXTENDS Razerd

Kind(vid, pid, interfaces) ==
  [vendor_id |-> vid, product_id |-> pid, interfaces |-> interfaces, usb |-> TRUE]
BlackWidow == Kind(VENDOR_ID, 653, {0, 3})
Basilisk == Kind(VENDOR_ID, 171, {0})
(* Another vendor's keyboard, and a Bluetooth device with no USB parent.    *)
Other == Kind(1133, 653, {3})
Bluetooth == [Basilisk EXCEPT !.usb = FALSE]

Keyboards == {BlackWidow, Other}
AllKinds == {BlackWidow, Basilisk, Bluetooth}

SetMode(mode, at_desk, flag, tid) ==
  [name |-> "set-device-mode", mode |-> mode, at_desk |-> at_desk, flag |-> flag, tid |-> tid]
Reads == {[name |-> "list"], [name |-> "info"]}
Sets == {SetMode("driver", TRUE, "absent", 0), SetMode("normal", TRUE, "hex", 255),
         SetMode("normal", FALSE, "absent", 0), SetMode("driver", TRUE, "flag", 0),
         SetMode("other", TRUE, "absent", 0), [name |-> "--version"], [name |-> "other"]}
SetsAndList == Sets \cup {[name |-> "list"]}
OneSet == {SetMode("driver", TRUE, "absent", 0)}
=============================================================================
