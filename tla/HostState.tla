------------------------------ MODULE HostState ------------------------------
(***************************************************************************)
(* read_sysfs_state of razerd's metrics.rs: the devnum of the device behind *)
(* a hidraw node and the driver that has its interfaces, read file by file  *)
(* while the bus changes.                                                   *)
(***************************************************************************)
EXTENDS HidBus

VARIABLES
  rpc,        \* the access the reader is at
  node, pid,  \* its arguments: the interface whose hidraw node is asked about, its product
  port,       \* the port whose directory it walks up from
  entries,    \* names of /sys/bus/hid/devices not looked at yet
  devnum, owner,   \* the two halves of the answer; 0 and NoDriver for None
  steady      \* history: the bus has not changed since the reader started

readVars == <<rpc, node, pid, port, entries, devnum, owner, steady>>

InitReader ==
  /\ rpc = "idle" /\ node \in Instances /\ pid = DeviceOf(node).product
  /\ port = "" /\ entries = {} /\ devnum = 0 /\ owner = NoDriver /\ steady = TRUE

In(p) == {d \in usb : d.port = p}

(* canonicalize(/sys/class/hidraw/NODE/device).  An interface has a hidraw  *)
(* node while a driver has it; a name that is free is given to another.     *)
ReadStart ==
  /\ rpc = "idle" /\ Bound(node) /\ steady' = TRUE
  /\ rpc' = "canonicalize"
  /\ UNCHANGED <<busVars, node, pid, port, entries, devnum, owner>>

Canonicalize ==
  /\ rpc = "canonicalize"
  /\ \/ /\ \E i \in Instances : Bound(i) /\ (Bound(node) => i = node) /\ port' = DeviceOf(i).port
        /\ rpc' = "exists"
     \/ ~Bound(node) /\ rpc' = "read_dir" /\ UNCHANGED port
  /\ UNCHANGED <<busVars, node, pid, entries, devnum, owner, steady>>

(* The first ancestor with a devnum: the port's device, or else the hub.    *)
Exists ==
  /\ rpc = "exists"
  /\ rpc' = IF In(port) # {} THEN "devnum" ELSE "hub"
  /\ UNCHANGED <<busVars, node, pid, port, entries, devnum, owner, steady>>

ReadDevnum ==
  /\ rpc \in {"devnum", "hub"} /\ rpc' = "read_dir"
  /\ devnum' \in CASE rpc = "hub" -> {HubDevnum}
                   [] In(port) = {} -> {0}
                   [] OTHER -> {d.devnum : d \in In(port)}
  /\ UNCHANGED <<busVars, node, pid, port, entries, owner, steady>>

ReadDir ==
  /\ rpc = "read_dir" /\ rpc' = "link"
  /\ entries' = {i \in Instances : Live(i)}
  /\ UNCHANGED <<busVars, node, pid, port, devnum, owner, steady>>

(* Mutant: only the first name is looked at.                                *)
ReadLinkOnce ==
  /\ rpc = "link" /\ entries # {} /\ rpc' = "done"
  /\ \E i \in entries :
       owner' = IF DeviceOf(i).product = pid /\ Bound(i) THEN driver[i] ELSE NoDriver
  /\ UNCHANGED <<busVars, node, pid, port, entries, devnum, steady>>

(* The names come in any order; the needle is the product id alone.         *)
ReadLink ==
  /\ rpc = "link" /\ entries # {}
  /\ \E i \in entries :
       IF DeviceOf(i).product = pid /\ Bound(i)
       THEN owner' = driver[i] /\ entries' = {} /\ rpc' = "done"
       ELSE entries' = entries \ {i} /\ UNCHANGED <<owner, rpc>>
  /\ UNCHANGED <<busVars, node, pid, port, devnum, steady>>

ReadLinkEnd ==
  /\ rpc = "link" /\ entries = {} /\ rpc' = "done"
  /\ UNCHANGED <<busVars, node, pid, port, entries, devnum, owner, steady>>

ReadState ==
  ReadStart \/ Canonicalize \/ Exists \/ ReadDevnum \/ ReadDir \/ ReadLink \/ ReadLinkEnd

(* What the reader's history makes of a change of the bus.                  *)
BusMoves ==
  /\ steady' = FALSE
  /\ UNCHANGED <<rpc, node, pid, port, entries, devnum, owner>>

-----------------------------------------------------------------------------
(* While the bus holds still, the answer is exactly the devnum of the       *)
(* device behind the node and a driver that has an interface of that        *)
(* product, in whatever order read_dir lists them.                          *)
SteadyReadingIsExact ==
  rpc = "done" /\ steady =>
    /\ devnum = DeviceOf(node).devnum
    /\ owner \in {driver[i] : i \in {j \in Instances : Bound(j) /\ DeviceOf(j).product = pid}}
=============================================================================
