------------------------------- MODULE HidBus -------------------------------
(***************************************************************************)
(* The kernel's HID bus, as razerd's read_sysfs_state and razer-recover    *)
(* find it under /sys: which interfaces there are, which driver has each,  *)
(* whether razerkbd is loaded.  None of this is the repository's code.     *)
(*                                                                         *)
(* A device that is plugged in again is another one here: it has a new     *)
(* devnum, and its interfaces new instance numbers.  The directory of an   *)
(* interface lies below its port's and that below the hub's; both have a   *)
(* devnum file.                                                            *)
(***************************************************************************)
EXTENDS Integers, FiniteSets, Functions

CONSTANTS
  Devices,      \* those that are plugged in, and those that will be
  MaxUnbinds    \* interfaces taken from their driver by somebody else

(* The kernel numbers instances from 1.                                     *)
Device == [port: STRING, devnum: Nat, vendor: Nat, product: Nat, instances: SUBSET (Nat \ {0})]

ASSUME HidBusAssumption ==
  /\ MaxUnbinds \in Nat /\ \A d \in Devices : d \in Device
  /\ \A d, e \in Devices : d # e => d.devnum # e.devnum /\ d.instances \cap e.instances = {}

VARIABLES
  usb,       \* the devices present
  seen,      \* those that have been
  driver,    \* instance -> the driver that has it
  loaded,    \* razerkbd is in lsmod
  unbinds

busVars == <<usb, seen, driver, loaded, unbinds>>

RAZER_VID == 5426
HubDevnum == 1
NoDriver == "none"
Instances == UNION {d.instances : d \in Devices}
DeviceOf(i) == CHOOSE d \in Devices : i \in d.instances
Razer(i) == DeviceOf(i).vendor = RAZER_VID
Live(i) == DeviceOf(i) \in usb
Bound(i) == Live(i) /\ driver[i] # NoDriver
Orphan(i) == Live(i) /\ driver[i] = NoDriver

(* What the kernel and a blacklist may leave an interface with; razerkbd    *)
(* takes Razer's only.                                                      *)
MayHave(i) == {NoDriver, "hid-generic"} \cup IF loaded /\ Razer(i) THEN {"razerkbd"} ELSE {}
OneEach(S) == \A d, e \in S : d.port = e.port => d = e

InitBus ==
  /\ loaded \in BOOLEAN /\ unbinds = 0
  /\ usb \in {S \in SUBSET Devices : OneEach(S)} /\ seen = usb
  /\ driver \in [Instances -> {NoDriver, "hid-generic", "razerkbd"}]
  /\ \A i \in Instances : driver[i] \in IF Live(i) THEN MayHave(i) ELSE {NoDriver}

Plug(d) ==
  /\ d \notin seen /\ OneEach(usb \cup {d})
  /\ usb' = usb \cup {d} /\ seen' = seen \cup {d}
  /\ \E f \in [d.instances -> {NoDriver, "hid-generic", "razerkbd"}] :
       /\ \A i \in d.instances : f[i] \in MayHave(i)
       /\ driver' = [i \in Instances |-> IF i \in d.instances THEN f[i] ELSE driver[i]]
  /\ UNCHANGED <<loaded, unbinds>>

Unplug(d) ==
  /\ d \in usb /\ usb' = usb \ {d}
  /\ driver' = [i \in Instances |-> IF i \in d.instances THEN NoDriver ELSE driver[i]]
  /\ UNCHANGED <<seen, loaded, unbinds>>

(* openrazer's udev helper takes an interface from hid-generic to hand it   *)
(* to razerkbd, in two writes; the second may never come.                   *)
Unbind(i) ==
  /\ Bound(i) /\ Razer(i) /\ unbinds < MaxUnbinds
  /\ driver' = [driver EXCEPT ![i] = NoDriver] /\ unbinds' = unbinds + 1
  /\ UNCHANGED <<usb, seen, loaded>>

(* udev loads the module again, for a device that has just come.            *)
Modprobe ==
  /\ ~loaded /\ loaded' = TRUE
  /\ UNCHANGED <<usb, seen, driver, unbinds>>

HelperBinds(i) ==
  /\ Orphan(i) /\ Razer(i) /\ loaded
  /\ driver' = [driver EXCEPT ![i] = "razerkbd"]
  /\ UNCHANGED <<usb, seen, loaded, unbinds>>
=============================================================================
