----------------------------- MODULE Enumerate -----------------------------
(***************************************************************************)
(* razer-hid's enumerate.rs, sysfs.rs and the opening half of transport.rs: *)
(* walk /sys/class/hidraw to the control node of a device, open it and ask  *)
(* the kernel what was opened, while devices come and go.                   *)
(*                                                                          *)
(* A device is in a USB port and has one hidraw node per interface; a node  *)
(* is known by its minor number, which the kernel hands out again.  sysfs   *)
(* names an interface by its port and number, so the path that canonicalize *)
(* returns can die, or come to name another device, before its attribute    *)
(* files are read.                                                          *)
(***************************************************************************)
EXTENDS DeviceTable, FiniteSets, SequencesExt

CONSTANTS Ports, Minors,
          Devices,          \* kinds of device that may be plugged in
          MaxDisconnects    \* unplugs in one run

(* The ids are u16, in USB descriptors as in sysfs.                         *)
U16 == 0..65535
Device == [vendor_id: U16, product_id: U16, interfaces: SUBSET Nat, usb: BOOLEAN]

ASSUME EnumerateAssumption ==
  /\ Minors \subseteq Nat /\ IsFiniteSet(Minors) /\ MaxDisconnects \in Nat
  /\ Devices \subseteq Device

VARIABLES
  bus, nodes, disconnects,        \* the kernel: ports, minors, "USB disconnect" lines
  wpc, want, names, path, vendor, \* the walk: step, target, names left, resolved link, idVendor
  found, outcome,                 \* the walk: nodes collected, how it ended
  fd,                             \* the open HidrawDevice
  steady, fresh                   \* history: nothing changed since read_dir; nothing
                                  \* unplugged since the node found was resolved

busVars == <<bus, nodes, disconnects>>
walkVars == <<wpc, want, names, path, vendor, found, outcome>>
enumVars == <<busVars, walkVars, fd, steady, fresh>>

NoDevice == [vendor_id |-> 0, product_id |-> 0, interfaces |-> {}, usb |-> FALSE]
Interface == [port: Ports, number: Nat]
NoInterface == [number |-> 0]
Interfaces(b) == UNION {{[port |-> p, number |-> n] : n \in b[p].interfaces} : p \in Ports}

UsbInterfaceInfo == [vendor_id: Nat, product_id: Nat, interface_number: Nat]
HidrawNode == [minor: Minors, info: UsbInterfaceInfo]

(* find_device(vid, pid, interface) or list_razer_nodes().                  *)
Target(pid, interface) == [all |-> FALSE, pid |-> pid, interface |-> interface]
EveryNode == [all |-> TRUE, pid |-> 0, interface |-> 0]

HidrawDevice == [open: {TRUE}, live: BOOLEAN, port: Ports, number: Nat, device: Devices]
Handle(i, b) == [open |-> TRUE, live |-> TRUE, port |-> i.port, number |-> i.number,
                 device |-> b[i.port]]
Closed == [open |-> FALSE]

EnumInit ==
  /\ bus = [p \in Ports |-> NoDevice] /\ nodes = [m \in Minors |-> NoInterface]
  /\ disconnects = 0
  /\ wpc = "idle" /\ want = EveryNode /\ names = <<>> /\ path = NoInterface /\ vendor = 0
  /\ found = <<>> /\ outcome = "none" /\ fd = Closed
  /\ steady = TRUE /\ fresh = TRUE

-----------------------------------------------------------------------------
(* The kernel. *)

Plug(p) ==
  /\ bus[p] = NoDevice
  /\ \E d \in Devices : bus' = [bus EXCEPT ![p] = d]
  /\ steady' = FALSE
  /\ UNCHANGED <<nodes, disconnects, walkVars, fd, fresh>>

(* An interface gets a free minor.                                          *)
Probe(i, m) ==
  /\ \A k \in Minors : nodes[k] # i
  /\ nodes[m] = NoInterface
  /\ nodes' = [nodes EXCEPT ![m] = i] /\ steady' = FALSE
  /\ UNCHANGED <<bus, disconnects, walkVars, fd, fresh>>

On(p, i) == i # NoInterface /\ i.port = p

Unplug(p) ==
  /\ bus[p] # NoDevice /\ disconnects < MaxDisconnects
  /\ bus' = [bus EXCEPT ![p] = NoDevice]
  /\ nodes' = [m \in Minors |-> IF On(p, nodes[m]) THEN NoInterface ELSE nodes[m]]
  /\ disconnects' = disconnects + 1
  /\ fd' = IF fd.open /\ fd.port = p THEN [fd EXCEPT !.live = FALSE] ELSE fd
  /\ steady' = FALSE /\ fresh' = FALSE
  /\ UNCHANGED walkVars

Hotplug ==
  \/ \E p \in Ports : Plug(p) \/ Unplug(p)
  \/ \E i \in Interfaces(bus), m \in Minors : Probe(i, m)

-----------------------------------------------------------------------------
(* The walk. *)

hidraw_names == {m \in Minors : nodes[m] # NoInterface}
sort_by_index(S) ==
  CHOOSE s \in [1..Cardinality(S) -> S] : \A i, j \in 1..Cardinality(S) : i < j => s[i] < s[j]

(* Mutant: names in the order read_dir happens to list them.                *)
ReadDirUnsorted(target) ==
  /\ wpc = "idle"
  /\ want' = target /\ found' = <<>>
  /\ names' = SetToSortSeq(hidraw_names, LAMBDA a, b : a > b)
  /\ wpc' = "resolve" /\ outcome' = "none" /\ steady' = TRUE
  /\ UNCHANGED <<busVars, path, vendor, fd, fresh>>

(* Both functions begin with hidraw_names()? and sort_by_index.             *)
ReadDir(target) ==
  /\ wpc = "idle"
  /\ want' = target /\ found' = <<>>
  /\ \/ names' = sort_by_index(hidraw_names) /\ wpc' = "resolve" /\ outcome' = "none"
     \/ names' = <<>> /\ wpc' = "done" /\ outcome' = "Io"
  /\ steady' = TRUE
  /\ UNCHANGED <<busVars, path, vendor, fd, fresh>>

(* interface_info up to the last is_file(): no link, or no USB parent, is   *)
(* Ok(None), which the callers' let-else skips.                             *)
Resolve ==
  /\ wpc = "resolve" /\ names # <<>>
  /\ LET i == nodes[Head(names)]
     IN  IF i # NoInterface /\ bus[i.port].usb
         THEN wpc' = "idVendor" /\ path' = i /\ fresh' = TRUE /\ UNCHANGED names
         ELSE names' = Tail(names) /\ UNCHANGED <<wpc, path, fresh>>
  /\ UNCHANGED <<busVars, want, vendor, found, outcome, fd, steady>>

Finish(o) ==
  /\ wpc' = "done" /\ outcome' = o
  /\ names' = <<>> /\ path' = NoInterface /\ vendor' = 0

(* read_hex fails once the directory is gone, and `?` ends the walk.        *)
ReadGone ==
  /\ wpc \in {"idVendor", "idProduct"} /\ path \notin Interfaces(bus)
  /\ Finish("Sysfs")
  /\ UNCHANGED <<busVars, want, found, fd, steady, fresh>>

ReadVendor ==
  /\ wpc = "idVendor" /\ path \in Interfaces(bus)
  /\ vendor' = bus[path.port].vendor_id /\ wpc' = "idProduct"
  /\ UNCHANGED <<busVars, want, names, path, found, outcome, fd, steady, fresh>>

(* Mutant: the interface number is not compared.                            *)
matches_pid(t, info) ==
  /\ info.vendor_id = VENDOR_ID
  /\ ~t.all => info.product_id = t.pid

matches(t, info) ==
  /\ info.vendor_id = VENDOR_ID
  /\ ~t.all => info.product_id = t.pid /\ info.interface_number = t.interface

(* idProduct, bInterfaceNumber and bInterfaceProtocol, then the comparison: *)
(* find_device returns the first match, list_razer_nodes collects them all. *)
ReadProduct ==
  /\ wpc = "idProduct" /\ path \in Interfaces(bus)
  /\ LET info == [vendor_id |-> vendor, product_id |-> bus[path.port].product_id,
                  interface_number |-> path.number]
         hit  == matches(want, info)
     IN  /\ found' = IF hit THEN Append(found, [minor |-> Head(names), info |-> info])
                     ELSE found
         /\ IF hit /\ ~want.all THEN Finish("Ok")
            ELSE /\ wpc' = "resolve" /\ names' = Tail(names)
                 /\ path' = NoInterface /\ vendor' = 0 /\ UNCHANGED outcome
  /\ UNCHANGED <<busVars, want, fd, steady, fresh>>

WalkEnd ==
  /\ wpc = "resolve" /\ names = <<>>
  /\ Finish(IF want.all THEN "Ok" ELSE "DeviceNotFound")
  /\ UNCHANGED <<busVars, want, found, fd, steady, fresh>>

Walk == Resolve \/ ReadGone \/ ReadVendor \/ ReadProduct \/ WalkEnd

-----------------------------------------------------------------------------
(* Opening. *)

(* open(2) on the node found: ENOENT, EACCES, or whatever has the minor now. *)
open(m) ==
  LET i == nodes[m] IN
  {Closed} \cup (IF i = NoInterface THEN {} ELSE {Handle(i, bus)})

(* struct hidraw_devinfo holds the ids as __s16; `as u16` undoes it.        *)
s16(n) == IF n < 32768 THEN n ELSE n - 65536
as_u16(n) == n % 65536
raw_info(h) == [vendor_id |-> as_u16(s16(h.device.vendor_id)),
                product_id |-> as_u16(s16(h.device.product_id))]

(* Mutant: open() alone.                                                    *)
unconfirmed(h, pid) == h.live

(* open_expecting after its open: the ioctl fails on a dead fd.             *)
confirmed(h, pid) ==
  /\ h.live
  /\ raw_info(h) = [vendor_id |-> VENDOR_ID, product_id |-> pid]

-----------------------------------------------------------------------------
(* Properties. *)

(* Every variable of the kernel, the walk and the fd has its type.          *)
EnumTypeOK ==
  /\ bus \in [Ports -> Devices \cup {NoDevice}]
  /\ nodes \in [Minors -> Interface \cup {NoInterface}]
  /\ disconnects \in 0..MaxDisconnects
  /\ wpc \in {"idle", "resolve", "idVendor", "idProduct", "done"}
  /\ want \in [all: BOOLEAN, pid: Nat, interface: Nat]
  /\ names \in Seq(Minors) /\ path \in Interface \cup {NoInterface} /\ vendor \in Nat
  /\ found \in Seq(HidrawNode)
  /\ outcome \in {"none", "Ok", "Io", "Sysfs", "DeviceNotFound"}
  /\ fd \in HidrawDevice \cup {Closed}
  /\ steady \in BOOLEAN /\ fresh \in BOOLEAN

(* The minors of the nodes a caller means, read off the kernel's state.     *)
Meant(t) ==
  {m \in hidraw_names :
     LET d == bus[nodes[m].port]
     IN  /\ d.usb /\ d.vendor_id = VENDOR_ID
         /\ t.all \/ (d.product_id = t.pid /\ nodes[m].number = t.interface)}

(* enumerate.rs's promise, against a one-shot definition: if nothing is     *)
(* plugged or unplugged while it walks, find_device returns the matching    *)
(* node with the lowest number and fails only if there is none, and         *)
(* list_razer_nodes returns every Razer node once, in ascending order.      *)
WalkIsExact ==
  (wpc = "done" /\ steady /\ outcome # "Io") =>
     LET all == sort_by_index(Meant(want))
         got == [k \in 1..Len(found) |-> found[k].minor]
     IN  IF want.all THEN outcome = "Ok" /\ got = all
         ELSE IF all = <<>> THEN outcome = "DeviceNotFound" /\ got = <<>>
         ELSE outcome = "Ok" /\ got = <<Head(all)>>
=============================================================================
