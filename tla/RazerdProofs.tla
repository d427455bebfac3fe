---------------------------- MODULE RazerdProofs ----------------------------
(***************************************************************************)
(* Proofs about Razerd for every command line, any ports, minors and kinds *)
(* of device, and however long the watch.                                  *)
(***************************************************************************)
EXTENDS Razerd, EnumerateProofs

-----------------------------------------------------------------------------
(* The device table and info's work list. *)

(* The three entries of the table, as far as razerd asks.                   *)
LEMMA TableIs ==
  /\ Len(TABLE) = 3
  /\ TABLE[1].pid = 170 /\ TABLE[2].pid = 171 /\ TABLE[3].pid = 653
  /\ \A i \in 1..3 : TABLE[i].report_index \in Nat
BY DEF TABLE, Mouse, Keyboard

(* A supported id has an entry.                                             *)
LEMMA LookupType ==
  ASSUME NEW p, supported(p)
  PROVE  lookup(p).report_index \in Nat /\ p \in {170, 171, 653}
<1> DEFINE first(i) == TABLE[i].pid = p /\ \A j \in 1..(i - 1) : TABLE[j].pid # p
<1>1. p \in {170, 171, 653}
  BY TableIs DEF supported
<1>2. \E i \in 1..3 : first(i)
  <2>1. CASE p = 170
    <3>1. first(1)
      BY <2>1, TableIs
    <3> QED BY <3>1
  <2>2. CASE p = 171
    <3>1. first(2)
      <4>1. \A j \in 1..(2 - 1) : j = 1
        OBVIOUS
      <4> QED BY <2>2, <4>1, TableIs
    <3> QED BY <3>1
  <2>3. CASE p = 653
    <3>1. first(3)
      <4>1. \A j \in 1..(3 - 1) : j = 1 \/ j = 2
        OBVIOUS
      <4> QED BY <2>3, <4>1, TableIs
    <3> QED BY <3>1
  <2> QED BY <1>1, <2>1, <2>2, <2>3
<1>3. (CHOOSE i \in 1..3 : first(i)) \in 1..3
  <2> HIDE DEF first
  <2> QED BY <1>2
<1>4. lookup(p) = TABLE[CHOOSE i \in 1..3 : first(i)]
  BY TableIs DEF lookup
<1> HIDE DEF first
<1>5. \A i \in 1..3 : TABLE[i].report_index \in Nat
  BY TableIs
<1>6. lookup(p).report_index \in Nat
  BY <1>3, <1>4, <1>5
<1> QED BY <1>1, <1>6

(* The keyboard set-device-mode looks for is in the table.                  *)
LEMMA KeyboardSupported == supported(KEYBOARD) /\ KEYBOARD \in Nat
BY TableIs DEF supported, KEYBOARD

(* At most as many ids are supported as the table has entries.              *)
LEMMA FewSupported ==
  ASSUME NEW P, \A p \in P : supported(p)
  PROVE  IsFiniteSet(P) /\ Cardinality(P) \in Nat /\ Cardinality(P) <= Len(TABLE)
<1>1. IsFiniteSet({170}) /\ Cardinality({170}) = 1
  BY FS_Singleton
<1>2. IsFiniteSet({170} \cup {171}) /\ Cardinality({170} \cup {171}) = 2
  BY <1>1, FS_AddElement
<1>3. IsFiniteSet(({170} \cup {171}) \cup {653})
      /\ Cardinality(({170} \cup {171}) \cup {653}) = 3
  BY <1>2, FS_AddElement
<1>4. P \in SUBSET (({170} \cup {171}) \cup {653})
  BY LookupType
<1>5. IsFiniteSet(P) /\ Cardinality(P) <= 3
  <2> DEFINE ids == ({170} \cup {171}) \cup {653}
  <2>1. IsFiniteSet(ids) /\ Cardinality(ids) = 3 /\ P \in SUBSET ids
    BY <1>3, <1>4
  <2> HIDE DEF ids
  <2>2. IsFiniteSet(P) /\ Cardinality(P) <= Cardinality(ids)
    BY <2>1, FS_Subset
  <2> QED BY <2>1, <2>2
<1>6. Cardinality(P) \in Nat
  BY <1>5, FS_CardinalityType
<1> QED BY <1>5, <1>6, TableIs

(* info's work list: every supported product id listed, once.               *)
LEMMA SupportedIds ==
  ASSUME NEW ns \in Seq(HidrawNode)
  PROVE  /\ Supported(ns) \in Seq(Nat)
         /\ \A k \in 1..Len(Supported(ns)) : supported(Supported(ns)[k])
         /\ Len(Supported(ns)) = Cardinality({p \in ProductIds(ns) : supported(p)})
         /\ Len(Supported(ns)) <= Len(TABLE)
<1> DEFINE ids == [k \in 1..Len(ns) |-> ns[k].info.product_id]
           new == {k \in 1..Len(ids) : supported(ids[k]) /\ \A j \in 1..(k - 1) : ids[j] # ids[k]}
           n == Cardinality(new)
           s == sort_by_index(new)
           P == {p \in ProductIds(ns) : supported(p)}
           f == [k \in new |-> ids[k]]
<1>1. /\ Len(ns) \in Nat /\ Len(ids) = Len(ns)
      /\ \A k \in 1..Len(ns) : ids[k] = ns[k].info.product_id /\ ids[k] \in Nat
  <2>1. \A k \in 1..Len(ns) : ns[k] \in HidrawNode
    BY ElementOfSeq
  <2>2. \A k \in 1..Len(ns) : ns[k].info.product_id \in Nat
    BY <2>1 DEF HidrawNode, UsbInterfaceInfo
  <2> QED BY <2>2
<1>2. Supported(ns) = [k \in 1..n |-> ids[s[k]]]
  BY DEF Supported
<1>3. \A p : p \in ProductIds(ns) <=> \E k \in 1..Len(ns) : ids[k] = p
  <2>1. DOMAIN ns = 1..Len(ns)
    BY LenProperties
  <2> QED BY <1>1, <2>1 DEF ProductIds, ToSet
<1>4. /\ new \in SUBSET (1..Len(ns)) /\ IsFiniteSet(1..Len(ns))
      /\ \A k \in 1..Len(ns) : k \in Nat
  <2>1. \A k \in new : k \in 1..Len(ns)
    BY <1>1
  <2>2. IsFiniteSet(1..Len(ns))
    BY <1>1, FS_Interval
  <2> HIDE DEF new
  <2> QED BY <1>1, <2>1, <2>2
<1>5. new \in SUBSET Nat /\ IsFiniteSet(new)
  <2> HIDE DEF new
  <2>1. new \in SUBSET Nat
    BY <1>4
  <2>2. IsFiniteSet(new)
    BY <1>4, FS_Subset
  <2> QED BY <2>1, <2>2
<1>6. n \in Nat /\ s \in [1..n -> new]
  BY <1>5, Sorted
<1>7. f \in [new -> P]
  BY <1>1, <1>3, <1>4
<1>8. \A a, b \in new : f[a] = f[b] => a = b
  <2> SUFFICES ASSUME NEW a \in new, NEW b \in new, ids[a] = ids[b] PROVE a = b
    OBVIOUS
  <2>1. a \in Nat /\ b \in Nat /\ a >= 1 /\ b >= 1
    BY <1>1, <1>4
  <2>2. a < b => a \in 1..(b - 1)
    BY <2>1
  <2>3. b < a => b \in 1..(a - 1)
    BY <2>1
  <2>4. ~(a < b) /\ ~(b < a)
    BY <2>2, <2>3
  <2> QED BY <2>1, <2>4
<1>9. \A p \in P : \E k \in new : f[k] = p
  <2> SUFFICES ASSUME NEW p \in P PROVE \E k \in new : ids[k] = p
    OBVIOUS
  <2> DEFINE A == {k \in 1..Len(ns) : ids[k] = p}
  <2>1. A # {} /\ A \in SUBSET (1..Len(ns)) /\ A \in SUBSET Nat
    <3>1. \E k \in 1..Len(ns) : ids[k] = p
      BY <1>3
    <3> HIDE DEF ids
    <3>2. A # {} /\ A \in SUBSET (1..Len(ns))
      BY <3>1
    <3> HIDE DEF A
    <3> QED BY <1>4, <3>2
  <2>2. PICK k \in A : \A j \in A : k <= j
    <3>1. IsFiniteSet(A)
      BY <1>4, <2>1, FS_Subset
    <3> HIDE DEF A
    <3> QED BY <2>1, <3>1, LeastExists
  <2>3. k \in 1..Len(ns) /\ ids[k] = p /\ supported(p)
    OBVIOUS
  <2>4. ASSUME NEW j \in 1..(k - 1) PROVE ids[j] # ids[k]
    <3>1. j \in 1..Len(ns) /\ ~(k <= j)
      BY <1>1, <2>3
    <3> QED BY <2>2, <2>3, <3>1
  <2>5. k \in new
    BY <1>1, <2>3, <2>4
  <2> QED BY <2>3, <2>5
<1>10. n = Cardinality(P)
  <2> HIDE DEF f, P, new
  <2>1. f \in Bijection(new, P)
    BY <1>7, <1>8, <1>9, Fun_IsBij
  <2> QED BY <1>5, <2>1, FS_Bijection DEF ExistsBijection
<1>11. \A k \in 1..n : ids[s[k]] \in Nat /\ supported(ids[s[k]])
  <2> SUFFICES ASSUME NEW k \in 1..n PROVE ids[s[k]] \in Nat /\ supported(ids[s[k]])
    OBVIOUS
  <2>1. s[k] \in new
    <3> HIDE DEF s, n, new
    <3> QED BY <1>6
  <2> QED BY <1>1, <2>1
<1>12. n <= Len(TABLE)
  <2>1. \A p \in P : supported(p)
    OBVIOUS
  <2> HIDE DEF n, P
  <2> QED BY <1>10, <2>1, FewSupported
<1> HIDE DEF ids, new, n, s, f
<1>13. \A m, g : m \in Nat /\ (\A k \in 1..m : g[k] \in Nat) =>
          [k \in 1..m |-> g[k]] \in Seq(Nat) /\ Len([k \in 1..m |-> g[k]]) = m
  OBVIOUS
<1>14. Supported(ns) \in Seq(Nat) /\ Len(Supported(ns)) = n
  <2> DEFINE g == [k \in 1..n |-> ids[s[k]]]
  <2>1. \A k \in 1..n : g[k] = ids[s[k]] /\ g[k] \in Nat
    BY <1>11
  <2>2. g = [k \in 1..n |-> g[k]]
    OBVIOUS
  <2> HIDE DEF g
  <2>3. g \in Seq(Nat) /\ Len(g) = n
    BY <1>6, <1>13, <2>1, <2>2
  <2> QED BY <1>2, <2>3 DEF g
<1>15. \A k \in 1..n : supported(Supported(ns)[k])
  BY <1>2, <1>11
<1> QED BY <1>10, <1>12, <1>14, <1>15 DEF P

-----------------------------------------------------------------------------
(* The invariant. *)

CliTypes ==
  /\ pc \in {"main", "listing", "device", "finding", "before", "open", "confirm", "read",
             "write", "watch", "exited"}
  /\ command \in Commands /\ exit \in {"none", "success", "failure"}
  /\ pids \in Seq(Nat) /\ opened \in Nat /\ failed \in Nat /\ idle \in Nat
  /\ report \in Seq({"Value", "ReceiverIdle", "Failed"}) /\ Len(report) <= Len(Reports)
  /\ before \in -1..MaxDisconnects /\ after \in -1..MaxDisconnects
  /\ tick \in 0..WATCH_SECONDS /\ verdict \in {"none", "disconnect", "silent", "no reset"}
  /\ start \in 0..MaxDisconnects /\ blind \in BOOLEAN /\ lost \in BOOLEAN

(* Where each command can be, and what it has in hand there.                *)
ControlInv ==
  /\ wpc # "idle" <=> pc \in {"listing", "finding"}
  /\ pc = "listing" => command.name \in {"list", "info"} /\ want = EveryNode
  /\ pc \in {"device", "read"} => command.name = "info"
  /\ pc \in {"before", "write", "watch"} => command.name = "set-device-mode"
  /\ pc \in {"finding", "open", "confirm"} => command.name \in {"info", "set-device-mode"}
  /\ (command.name = "set-device-mode" /\ pc \notin {"main", "exited"}) => accepted(command)
  /\ pc \in {"finding", "before", "open"} => want = Target(ThePid, lookup(ThePid).report_index)
  /\ pc \in {"before", "open"} => found # <<>>
  /\ (command.name = "info" /\ pc \in {"finding", "open", "confirm", "read"}) => pids # <<>>
  /\ \A k \in 1..Len(pids) : supported(pids[k])
  /\ pc # "read" => report = <<>>
  /\ \A k \in 1..(Len(report) - 1) : report[k] # "ReceiverIdle"

(* The fd: open from open() on, and after open_expecting the device meant.  *)
HandleInv ==
  /\ fd \in HidrawDevice \cup {Closed}
  /\ fd.open <=> pc \in {"confirm", "read", "write", "watch"}
  /\ pc \in {"read", "write", "watch"} => /\ fd.device.vendor_id = VENDOR_ID
                                          /\ fd.device.product_id = ThePid
  /\ (pc \in {"confirm", "read", "write"} /\ fresh) =>
        fd.number = lookup(ThePid).report_index

SentInv == ReachesTheDeviceMeant /\ ControlInterfaceUnlessReplugged /\ WritesAreDeliberate

(* The watch: the first look was taken before the open, so a dead fd has    *)
(* raised the log's count since.                                            *)
WatchInv ==
  /\ start <= disconnects
  /\ (fd.open /\ ~fd.live) => start < disconnects
  /\ (pc \in {"open", "confirm", "write", "watch"} /\ command.name = "set-device-mode" /\ ~blind)
        => before = start
  /\ lost => pc \in {"watch", "exited"}
  /\ ~blind => ~lost
  /\ verdict # "none" => pc = "exited"
  /\ BlameIsBacked

(* info's books at every step: while a device is being read it is counted   *)
(* as opened and still on the list.                                         *)
Total == Cardinality({p \in ProductIds(listed) : supported(p)})
InfoInv ==
  command.name = "info" =>
    /\ pc \in {"main", "listing"} => opened = 0 /\ failed = 0 /\ idle = 0 /\ pids = <<>>
    /\ pc \in {"device", "finding", "open", "confirm", "exited"} =>
          opened + failed + Len(pids) = Total /\ idle <= opened
    /\ pc = "read" => opened + failed + Len(pids) = Total + 1 /\ idle < opened
    /\ (pc = "exited" /\ opened + failed > 0) => (exit = "success" <=> opened > 0)
    /\ Len(pids) <= Len(TABLE)

Inv ==
  /\ KernelInv /\ WalkInv /\ ExactInv
  /\ CliTypes /\ ControlInv /\ HandleInv /\ SentInv /\ WatchInv /\ InfoInv

-----------------------------------------------------------------------------
(* The bus and the walk. *)

(* A step that leaves the kernel alone and the walk idle.                   *)
Quiet ==
  /\ UNCHANGED <<busVars, want, names, path, vendor, steady, fresh>>
  /\ wpc' = "idle" /\ outcome' \in {outcome, "none"} /\ found' \in {found, <<>>}

(* What a walk is asked for is a number.                                    *)
LEMMA TargetType ==
  ASSUME NEW p \in Nat, supported(p)
  PROVE  Target(p, lookup(p).report_index) \in [all: BOOLEAN, pid: Nat, interface: Nat]
BY LookupType DEF Target

(* What list_razer_nodes looks for is a target.                             *)
LEMMA EveryNodeType == EveryNode \in [all: BOOLEAN, pid: Nat, interface: Nat]
BY DEF EveryNode

(* The ids info works on are in the table.                                  *)
LEMMA NextPid ==
  ASSUME CliTypes, ControlInv, pids # <<>>
  PROVE  /\ Head(pids) \in Nat /\ supported(Head(pids)) /\ Tail(pids) \in Seq(Nat)
         /\ Len(Tail(pids)) = Len(pids) - 1 /\ Len(pids) \in Nat
         /\ \A k \in 1..Len(Tail(pids)) : supported(Tail(pids)[k])
<1>1. pids \in Seq(Nat) /\ \A k \in 1..Len(pids) : supported(pids[k])
  BY DEF CliTypes, ControlInv
<1>2. /\ Head(pids) \in Nat /\ Head(pids) = pids[1] /\ Len(pids) \in Nat /\ Len(pids) >= 1
      /\ Tail(pids) \in Seq(Nat) /\ Len(Tail(pids)) = Len(pids) - 1
      /\ \A k \in 1..(Len(pids) - 1) : Tail(pids)[k] = pids[k + 1]
  BY <1>1, HeadTailProperties, EmptySeq
<1>3. ASSUME NEW k \in 1..(Len(pids) - 1) PROVE supported(Tail(pids)[k])
  <2>1. k + 1 \in 1..Len(pids)
    BY <1>2
  <2> QED BY <1>1, <1>2, <2>1
<1> QED BY <1>1, <1>2, <1>3

(* Every step of the process but the walk's own is a read_dir or quiet.     *)
LEMMA ProcessKinds ==
  ASSUME CliTypes, ControlInv, Process, ~Walk
  PROVE  \/ Quiet
         \/ \E t \in [all: BOOLEAN, pid: Nat, interface: Nat] : ReadDir(t)
<1>0. wpc = "idle" \/ pc \in {"listing", "finding"}
  BY DEF ControlInv
<1>1. CASE Main
  <2>1. wpc = "idle"
    BY <1>0, <1>1 DEF Main
  <2>2. CASE ReadDir(EveryNode)
    BY <2>2, EveryNodeType
  <2>3. CASE ReadDir(Target(KEYBOARD, lookup(KEYBOARD).report_index))
    BY <2>3, KeyboardSupported, TargetType
  <2>4. CASE UNCHANGED <<busVars, walkVars, steady, fresh>>
    BY <2>1, <2>4 DEF Quiet, walkVars
  <2> QED BY <1>1, <2>2, <2>3, <2>4 DEF Main
<1>2. CASE ListEnd
  BY <1>2 DEF ListEnd, TakeWalk, WalkTaken, Quiet
<1>3. CASE Listed
  BY <1>3 DEF Listed, TakeWalk, WalkTaken, Quiet
<1>4. CASE NextDevice
  <2>1. pids # <<>> /\ ReadDir(Target(Head(pids), lookup(Head(pids)).report_index))
    BY <1>4 DEF NextDevice
  <2> QED BY <2>1, NextPid, TargetType
<1>5. CASE InfoEnd
  BY <1>0, <1>5 DEF InfoEnd, walkVars, Quiet
<1>6. CASE Found
  BY <1>6 DEF Found, TakeWalk, WalkTaken, Quiet
<1>7. CASE Open
  BY <1>0, <1>7 DEF Open, WalkTaken, Quiet
<1>8. CASE Confirm
  BY <1>0, <1>8 DEF Confirm, WalkTaken, Quiet
<1>9. CASE Read
  BY <1>0, <1>9 DEF Read, enumVars, walkVars, Quiet
<1>10. CASE ReportDevice
  BY <1>0, <1>10 DEF ReportDevice, walkVars, Quiet
<1>11. CASE Before
  BY <1>0, <1>11 DEF Before, enumVars, walkVars, Quiet
<1>12. CASE Write
  BY <1>0, <1>12 DEF Write, enumVars, walkVars, Quiet
<1>13. CASE Watch
  BY <1>0, <1>13 DEF Watch, walkVars, Quiet
<1>14. CASE WatchEnd
  BY <1>0, <1>14 DEF WatchEnd, walkVars, Quiet
<1> QED BY <1>1, <1>2, <1>3, <1>4, <1>5, <1>6, <1>7, <1>8, <1>9, <1>10, <1>11, <1>12, <1>13,
           <1>14 DEF Process, Walking

(* A step that leaves the bus alone keeps the kernel invariant.             *)
LEMMA KernelStays ==
  ASSUME KernelInv, UNCHANGED busVars
  PROVE  KernelInv'
BY DEF KernelInv, busVars, hidraw_names

(* Every step of razerd keeps the invariant of the bus and the walk.        *)
LEMMA EnumNext ==
  ASSUME KernelInv, WalkInv, ExactInv, CliTypes, ControlInv, Next
  PROVE  KernelInv' /\ WalkInv' /\ ExactInv'
<1>1. CASE Hotplug
  BY <1>1, HotplugKeepsKernel, HotplugKeepsWalk
<1>2. CASE Walk
  <2>1. UNCHANGED busVars
    BY <1>2 DEF Walk, Resolve, ReadGone, ReadVendor, ReadProduct, WalkEnd
  <2> QED BY <1>2, <2>1, KernelStays, WalkKeepsWalk, WalkKeepsExact
<1>3. CASE Quiet
  <2>1. UNCHANGED busVars
    BY <1>3 DEF Quiet
  <2>2. WalkInv' /\ ExactInv'
    BY <1>3, IdleKeepsWalk DEF Quiet
  <2> QED BY <2>1, <2>2, KernelStays
<1>4. ASSUME NEW t \in [all: BOOLEAN, pid: Nat, interface: Nat], ReadDir(t)
      PROVE  KernelInv' /\ WalkInv' /\ ExactInv'
  <2>1. UNCHANGED busVars
    BY <1>4 DEF ReadDir
  <2> QED BY <1>4, <2>1, KernelStays, ReadDirBegins
<1>5. CASE Exited
  <2>1. wpc = "idle"
    BY <1>5 DEF Exited, ControlInv, CliTypes
  <2>2. Quiet
    BY <1>5, <2>1 DEF Exited, vars, enumVars, walkVars, Quiet
  <2> QED BY <1>3, <2>2
<1>6. CASE Process /\ ~Walk
  BY <1>3, <1>4, <1>6, ProcessKinds
<1> QED BY <1>1, <1>2, <1>5, <1>6 DEF Next, Environment

-----------------------------------------------------------------------------
(* The types. *)

(* Every step keeps the types of razerd's own variables.                    *)
LEMMA CliTypesNext ==
  ASSUME KernelInv, WalkInv, CliTypes, ControlInv, Next
  PROVE  CliTypes'
<1>0. disconnects \in 0..MaxDisconnects /\ disconnect_count \subseteq -1..MaxDisconnects
  <2>1. disconnects \in 0..MaxDisconnects /\ MaxDisconnects \in Nat
    BY EnumerateAssumption DEF KernelInv
  <2>2. \A d \in (0..disconnects) \cup {-1} : d \in -1..MaxDisconnects
    BY <2>1
  <2> QED BY <2>1, <2>2 DEF disconnect_count, Unread
<1>1. ASSUME UNCHANGED <<command, exit, pids, opened, failed, idle, report>>,
             UNCHANGED <<before, after, tick, verdict, start, blind, lost>>,
             pc' \in {"main", "listing", "device", "finding", "before", "open", "confirm", "read",
                      "write", "watch", "exited"}
      PROVE  CliTypes'
  BY <1>1 DEF CliTypes
<1>2. ASSUME GiveUp, UNCHANGED command, pids # <<>> \/ command.name # "info"
      PROVE  /\ pc' \in {"device", "exited"} /\ exit' \in {"none", "success", "failure"}
             /\ pids' \in Seq(Nat) /\ failed' \in Nat
  <2>0. failed \in Nat /\ exit \in {"none", "success", "failure"} /\ pids \in Seq(Nat)
    BY DEF CliTypes
  <2>1. failed + 1 \in Nat /\ failed \in Nat /\ exit \in {"none", "success", "failure"}
        /\ pids \in Seq(Nat)
    BY <2>0
  <2>2. pids # <<>> => Tail(pids) \in Seq(Nat)
    BY NextPid
  <2> QED BY <1>2, <2>1, <2>2 DEF GiveUp, Exit
<1>3. CASE Main
  BY <1>3 DEF Main, Exit, watchVars, history, CliTypes
<1>4. CASE Walking
  BY <1>1, <1>4 DEF CliTypes, Walking, cliVars, watchVars, history
<1>5. CASE ListEnd
  BY <1>5 DEF ListEnd, Exit, watchVars, history, CliTypes
<1>6. CASE Listed
  <2>1. Supported(found) \in Seq(Nat)
    BY SupportedIds DEF WalkInv, WalkTypes
  <2> QED BY <1>6, <2>1 DEF Listed, Exit, watchVars, CliTypes
<1>7. CASE NextDevice
  BY <1>1, <1>7 DEF CliTypes, NextDevice, cliVars, watchVars, history
<1>8. CASE InfoEnd
  BY <1>8 DEF InfoEnd, Exit, watchVars, history, CliTypes
<1>9. CASE Found
  <2>1. pids # <<>> \/ command.name # "info"
    BY <1>9 DEF Found, ControlInv
  <2>2. UNCHANGED <<command, opened, idle, report, before, after, tick, verdict, start, blind, lost>>
    BY <1>9 DEF Found, watchVars, history
  <2>3. CASE outcome = "Ok"
    BY <1>9, <2>2, <2>3 DEF Found, CliTypes
  <2>4. CASE outcome # "Ok"
    <3>1. GiveUp
      BY <1>9, <2>4 DEF Found
    <3> QED BY <1>2, <2>1, <2>2, <3>1 DEF CliTypes
  <2> QED BY <2>3, <2>4
<1>10. CASE Open
  <2>1. pids # <<>> \/ command.name # "info"
    BY <1>10 DEF Open, ControlInv
  <2>2. UNCHANGED <<command, opened, idle, report, before, after, tick, verdict, start, blind, lost>>
    BY <1>10 DEF Open, watchVars, history
  <2>3. (pc' = "confirm" /\ UNCHANGED <<pids, failed, exit>>) \/ GiveUp
    BY <1>10 DEF Open
  <2> QED BY <1>2, <2>1, <2>2, <2>3 DEF CliTypes
<1>11. CASE Confirm
  <2>1. pids # <<>> \/ command.name # "info"
    BY <1>11 DEF Confirm, ControlInv
  <2>2. UNCHANGED <<command, idle, report, before, after, tick, verdict, start, blind, lost>>
    BY <1>11 DEF Confirm, watchVars, history
  <2>3. \/ pc' \in {"read", "write"} /\ opened' \in {opened, opened + 1}
           /\ UNCHANGED <<pids, failed, exit>>
        \/ GiveUp /\ UNCHANGED opened
    BY <1>11 DEF Confirm
  <2>4. opened \in Nat
    BY DEF CliTypes
  <2>5. opened' \in Nat
    BY <2>3, <2>4
  <2> QED BY <1>2, <2>1, <2>2, <2>3, <2>5 DEF CliTypes
<1>12. CASE Read
  <2> DEFINE R == {"Value", "ReceiverIdle", "Failed"}
  <2>1. PICK reading \in R : report' = Append(report, reading)
    BY <1>12 DEF Read, classify
  <2>2. report \in Seq(R) /\ Len(report) <= Len(Reports)
    BY DEF CliTypes
  <2>3. Len(report) # Len(Reports)
    BY <1>12 DEF Read, done_reading
  <2>4. Len(Reports) = 3
    BY DEF Reports
  <2>5. UNCHANGED <<pc, command, exit, pids, opened, failed, idle, before, after, tick, verdict,
                    start, blind, lost>>
    BY <1>12 DEF Read, watchVars
  <2> HIDE DEF R
  <2>6. report' \in Seq(R) /\ Len(report') = Len(report) + 1 /\ Len(report) \in Nat
    BY <2>1, <2>2
  <2>7. Len(report') <= Len(Reports)
    <3>1. Len(report) <= 3 /\ Len(report) # 3
      BY <2>2, <2>3, <2>4
    <3>2. \A n \in Nat : (n <= 3 /\ n # 3) => n + 1 <= 3
      OBVIOUS
    <3>3. Len(report') <= 3
      BY <2>6, <3>1, <3>2
    <3> QED BY <2>4, <3>3
  <2> QED BY <2>5, <2>6, <2>7 DEF CliTypes, R
<1>13. CASE ReportDevice
  <2>1. pids # <<>>
    BY <1>13 DEF ReportDevice, ControlInv
  <2>2. Tail(pids) \in Seq(Nat)
    BY <2>1, NextPid
  <2>3. report' = <<>> /\ Len(report') = 0 /\ Len(Reports) = 3
    BY <1>13 DEF ReportDevice, Reports
  <2>4. report' \in Seq({"Value", "ReceiverIdle", "Failed"}) /\ Len(report') <= Len(Reports)
    BY <2>3
  <2>5. idle' \in Nat
    <3>1. idle \in Nat
      BY DEF CliTypes
    <3>2. idle' = idle \/ idle' = idle + 1
      BY <1>13 DEF ReportDevice
    <3> QED BY <3>1, <3>2
  <2>6. /\ pids' = Tail(pids) /\ pc' = "device"
        /\ UNCHANGED <<command, exit, opened, failed, before, after, tick, verdict, start, blind, lost>>
    BY <1>13 DEF ReportDevice, watchVars, history
  <2> QED BY <2>2, <2>4, <2>5, <2>6 DEF CliTypes
<1>14. CASE Before
  <2>1. before' \in -1..MaxDisconnects
    BY <1>0, <1>14 DEF Before
  <2>2. start' \in 0..MaxDisconnects /\ blind' \in BOOLEAN
    BY <1>0, <1>14 DEF Before
  <2> QED BY <1>14, <2>1, <2>2 DEF Before, CliTypes
<1>15. CASE Write
  BY <1>1, <1>15 DEF CliTypes, Write, cliVars, watchVars
<1>16. CASE Watch
  <2>1. after' \in -1..MaxDisconnects
    BY <1>0, <1>16 DEF Watch
  <2>2. tick' \in 0..WATCH_SECONDS
    <3>1. tick \in 0..WATCH_SECONDS /\ WATCH_SECONDS \in Nat
      BY RazerdAssumption DEF CliTypes
    <3>2. tick < WATCH_SECONDS /\ (tick' = tick \/ tick' = tick + 1)
      BY <1>16 DEF Watch
    <3> QED BY <3>1, <3>2
  <2>3. /\ UNCHANGED <<command, pids, opened, failed, idle, report, before, start>>
        /\ pc' \in {pc, "exited"} /\ exit' \in {exit, "success"}
        /\ verdict' \in {verdict, "disconnect"}
    BY <1>16 DEF Watch, Exit
  <2>4. blind' \in BOOLEAN
    BY <1>16 DEF Watch
  <2>5. lost' \in BOOLEAN
    BY <1>16 DEF Watch, CliTypes
  <2> QED BY <2>1, <2>2, <2>3, <2>4, <2>5 DEF CliTypes
<1>17. CASE WatchEnd
  <2>1. after' \in -1..MaxDisconnects
    BY <1>0, <1>17 DEF WatchEnd
  <2> QED BY <1>17, <2>1 DEF WatchEnd, Exit, history, CliTypes
<1>18. CASE Environment
  BY <1>1, <1>18 DEF CliTypes, Environment, cliVars, watchVars, history
<1>19. CASE Exited
  BY <1>1, <1>19 DEF CliTypes, Exited, vars, cliVars, watchVars, history
<1> QED BY <1>3, <1>4, <1>5, <1>6, <1>7, <1>8, <1>9, <1>10, <1>11, <1>12, <1>13, <1>14, <1>15,
           <1>16, <1>17, <1>18, <1>19 DEF Next, Process

-----------------------------------------------------------------------------
(* Control. *)

(* An access of the walk neither begins nor takes one.                      *)
LEMMA WalkUnderway ==
  ASSUME Walk
  PROVE  wpc # "idle" /\ wpc' # "idle" /\ UNCHANGED <<want, fd>>
BY DEF Walk, Resolve, ReadGone, ReadVendor, ReadProduct, WalkEnd, Finish

(* A device given up leaves the rest of the list.                           *)
LEMMA GivenUp ==
  ASSUME CliTypes, ControlInv, GiveUp, pids # <<>> \/ command.name # "info"
  PROVE  /\ fd' = Closed
         /\ \A k \in 1..Len(pids') : supported(pids'[k])
         /\ \/ command.name = "info" /\ pc' = "device" /\ pids' = Tail(pids)
               /\ failed' = failed + 1 /\ exit' = exit
            \/ command.name # "info" /\ pc' = "exited" /\ UNCHANGED <<pids, failed>>
<1>1. \A k \in 1..Len(pids) : supported(pids[k])
  BY DEF ControlInv
<1> QED BY <1>1, NextPid DEF GiveUp, Exit

(* Every step keeps the control invariant.                                  *)
LEMMA ControlNext ==
  ASSUME KernelInv, WalkInv, CliTypes, ControlInv, Next
  PROVE  ControlInv'
<1>0. /\ wpc # "idle" <=> pc \in {"listing", "finding"}
      /\ \A k \in 1..Len(pids) : supported(pids[k])
      /\ pc # "read" => report = <<>>
      /\ \A k \in 1..(Len(report) - 1) : report[k] # "ReceiverIdle"
  BY DEF ControlInv
<1>1. CASE Main
  <2>1. /\ pc = "main" /\ wpc = "idle" /\ report = <<>> /\ UNCHANGED <<command, pids, report>>
    BY <1>0, <1>1 DEF Main
  <2>2. CASE pc' = "listing" /\ command.name \in {"list", "info"} /\ ReadDir(EveryNode)
    BY <1>0, <2>1, <2>2 DEF ControlInv, ReadDir
  <2>3. CASE /\ command.name = "set-device-mode" /\ accepted(command) /\ pc' = "finding"
             /\ ReadDir(Target(KEYBOARD, lookup(KEYBOARD).report_index))
    BY <1>0, <2>1, <2>3 DEF ControlInv, ReadDir, ThePid
  <2>4. CASE pc' = "exited" /\ UNCHANGED walkVars
    BY <1>0, <2>1, <2>4 DEF ControlInv, walkVars
  <2> QED BY <1>1, <2>2, <2>3, <2>4 DEF Main, Exit
<1>2. CASE Walking
  <2>1. wpc # "idle" /\ wpc' # "idle" /\ UNCHANGED <<want, pc, command, pids, report>>
    BY <1>2, WalkUnderway DEF Walking, cliVars
  <2> QED BY <1>0, <2>1 DEF ControlInv, ThePid
<1>3. CASE ListEnd
  <2>1. pc # "read" /\ pc' = "exited" /\ wpc' = "idle" /\ UNCHANGED <<command, pids, report>>
    BY <1>3 DEF ListEnd, TakeWalk, Exit
  <2> QED BY <1>0, <2>1 DEF ControlInv
<1>4. CASE Listed
  <2>1. /\ pc # "read" /\ pc' \in {"exited", "device"} /\ wpc' = "idle"
        /\ UNCHANGED <<command, report>> /\ command.name = "info"
        /\ pids' \in {pids, Supported(found)}
    BY <1>4 DEF Listed, TakeWalk, Exit
  <2>2. \A k \in 1..Len(Supported(found)) : supported(Supported(found)[k])
    BY SupportedIds DEF WalkInv, WalkTypes
  <2>3. \A k \in 1..Len(pids') : supported(pids'[k])
    BY <1>0, <2>1, <2>2
  <2> QED BY <1>0, <2>1, <2>3 DEF ControlInv
<1>5. CASE NextDevice
  <2>1. /\ pc = "device" /\ pc' = "finding" /\ pids # <<>> /\ UNCHANGED <<command, pids, report>>
        /\ wpc' # "idle" /\ want' = Target(Head(pids), lookup(Head(pids)).report_index)
    BY <1>5 DEF NextDevice, cliVars, ReadDir
  <2>2. command.name = "info"
    BY <2>1 DEF ControlInv
  <2> QED BY <1>0, <2>1, <2>2 DEF ControlInv, ThePid
<1>6. CASE InfoEnd
  <2>1. pc = "device" /\ pc' = "exited" /\ UNCHANGED <<wpc, command, pids, report>>
    BY <1>6 DEF InfoEnd, Exit, walkVars
  <2> QED BY <1>0, <2>1 DEF ControlInv
<1>7. CASE Found
  <2>0. pc = "finding" /\ wpc = "done" /\ wpc' = "idle" /\ UNCHANGED <<want, command, report>>
    BY <1>7 DEF Found, TakeWalk, WalkTaken
  <2>1. /\ pids # <<>> \/ command.name # "info"
        /\ command.name \in {"info", "set-device-mode"}
        /\ want = Target(ThePid, lookup(ThePid).report_index)
    BY <2>0 DEF ControlInv
  <2>2. CASE outcome = "Ok"
    <3>1. /\ pc' = IF command.name = "info" THEN "open" ELSE "before"
          /\ UNCHANGED <<pids, found>>
      BY <1>7, <2>2 DEF Found
    <3>2. ~want.all
      BY <2>1 DEF Target
    <3>3. found # <<>>
      BY <2>0, <2>2, <3>2 DEF WalkInv
    <3> QED BY <1>0, <2>0, <2>1, <3>1, <3>3 DEF ControlInv, ThePid
  <2>3. CASE outcome # "Ok"
    <3>1. GiveUp
      BY <1>7, <2>3 DEF Found
    <3> QED BY <1>0, <2>0, <2>1, <3>1, GivenUp DEF ControlInv
  <2> QED BY <2>2, <2>3
<1>8. CASE Open
  <2>0. pc = "open" /\ UNCHANGED <<wpc, want, command, report>>
    BY <1>8 DEF Open, WalkTaken
  <2>1. /\ pids # <<>> \/ command.name # "info"
        /\ command.name \in {"info", "set-device-mode"}
    BY <2>0 DEF ControlInv
  <2>2. (pc' = "confirm" /\ pids' = pids) \/ GiveUp
    BY <1>8 DEF Open
  <2>3. CASE pc' = "confirm" /\ pids' = pids
    BY <1>0, <2>0, <2>1, <2>3 DEF ControlInv
  <2>4. CASE GiveUp
    BY <1>0, <2>0, <2>1, <2>4, GivenUp DEF ControlInv
  <2> QED BY <2>2, <2>3, <2>4
<1>9. CASE Confirm
  <2>0. pc = "confirm" /\ UNCHANGED <<wpc, want, command, report>>
    BY <1>9 DEF Confirm, WalkTaken
  <2>1. /\ pids # <<>> \/ command.name # "info"
        /\ command.name \in {"info", "set-device-mode"}
    BY <2>0 DEF ControlInv
  <2>2. \/ /\ pc' = IF command.name = "info" THEN "read" ELSE "write"
           /\ pids' = pids
        \/ GiveUp
    BY <1>9 DEF Confirm
  <2>3. CASE /\ pc' = IF command.name = "info" THEN "read" ELSE "write"
             /\ pids' = pids
    BY <1>0, <2>0, <2>1, <2>3 DEF ControlInv
  <2>4. CASE GiveUp
    BY <1>0, <2>0, <2>1, <2>4, GivenUp DEF ControlInv
  <2> QED BY <2>2, <2>3, <2>4
<1>10. CASE Read
  <2>1. pc = "read" /\ UNCHANGED <<pc, wpc, want, found, command, pids>>
    BY <1>10 DEF Read, enumVars, walkVars
  <2>2. PICK reading \in {"Value", "ReceiverIdle", "Failed"} : report' = Append(report, reading)
    BY <1>10 DEF Read, classify
  <2>3. report \in Seq({"Value", "ReceiverIdle", "Failed"})
    BY DEF CliTypes
  <2>4. /\ Len(report) \in Nat /\ Len(report') = Len(report) + 1
        /\ \A k \in 1..Len(report) : report'[k] = report[k]
    BY <2>2, <2>3
  <2>5. report = <<>> \/ report[Len(report)] # "ReceiverIdle"
    BY <1>10 DEF Read, done_reading, Last
  <2>6. ASSUME NEW k \in 1..(Len(report') - 1) PROVE report'[k] # "ReceiverIdle"
    <3>1. k \in 1..Len(report) /\ report'[k] = report[k]
      BY <2>4
    <3>2. CASE k = Len(report)
      <4>1. report # <<>>
        BY <2>4, <3>1, <3>2
      <4> QED BY <2>5, <3>1, <3>2, <4>1
    <3>3. CASE k # Len(report)
      <4>1. k \in 1..(Len(report) - 1)
        BY <2>4, <3>1, <3>3
      <4> QED BY <1>0, <3>1, <4>1
    <3> QED BY <3>2, <3>3
  <2> QED BY <2>1, <2>6 DEF ControlInv, ThePid
<1>11. CASE ReportDevice
  <2>1. /\ pc = "read" /\ pc' = "device" /\ report' = <<>> /\ pids' = Tail(pids)
        /\ UNCHANGED <<wpc, command>>
    BY <1>11 DEF ReportDevice, walkVars
  <2>2. command.name = "info" /\ pids # <<>>
    BY <2>1 DEF ControlInv
  <2>3. \A k \in 1..Len(pids') : supported(pids'[k])
    BY <2>1, <2>2, NextPid
  <2> QED BY <1>0, <2>1, <2>2, <2>3 DEF ControlInv
<1>12. CASE Before
  <2>1. pc = "before" /\ pc' = "open" /\ UNCHANGED <<wpc, want, found, command, pids, report>>
    BY <1>12 DEF Before, enumVars, walkVars
  <2> QED BY <1>0, <2>1 DEF ControlInv, ThePid
<1>13. CASE Write
  <2>1. pc = "write" /\ pc' = "watch" /\ UNCHANGED <<wpc, want, found, command, pids, report>>
    BY <1>13 DEF Write, enumVars, walkVars, cliVars
  <2> QED BY <1>0, <2>1 DEF ControlInv
<1>14. CASE Watch \/ WatchEnd
  <2>1. /\ pc = "watch" /\ pc' \in {"watch", "exited"}
        /\ UNCHANGED <<wpc, want, found, command, pids, report>>
    BY <1>14 DEF Watch, WatchEnd, walkVars, Exit
  <2> QED BY <1>0, <2>1 DEF ControlInv
<1>15. CASE Environment \/ Exited
  <2>1. UNCHANGED <<wpc, want, found, pc, command, pids, report>>
    BY <1>15 DEF Environment, Exited, Hotplug, Plug, Unplug, Probe, vars, enumVars, walkVars,
                 cliVars
  <2> QED BY <1>0, <2>1 DEF ControlInv, ThePid
<1> QED BY <1>1, <1>2, <1>3, <1>4, <1>5, <1>6, <1>7, <1>8, <1>9, <1>10, <1>11, <1>12, <1>13,
           <1>14, <1>15 DEF Next, Process

-----------------------------------------------------------------------------
(* The fd and what is sent over it. *)

(* What open(2) gives back while the node found can be trusted.             *)
LEMMA OpenedHandle ==
  ASSUME KernelInv, WalkInv, ControlInv, pc = "open", NEW h \in open(found[1].minor), h.open
  PROVE  /\ h \in HidrawDevice /\ h.live
         /\ fresh => h.number = lookup(ThePid).report_index
<1>1. want = Target(ThePid, lookup(ThePid).report_index) /\ found # <<>>
  BY DEF ControlInv
<1>2. Picked
  BY <1>1 DEF WalkInv, Target
<1>3. found \in Seq(HidrawNode) /\ Len(found) = 1
  BY <1>2 DEF WalkInv, WalkTypes, Picked
<1>4. found[1] \in HidrawNode
  BY <1>3, ElementOfSeq
<1>5. found[1].minor \in Minors
  BY <1>4 DEF HidrawNode
<1> DEFINE m == found[1].minor
<1>6. h = Handle(nodes[m], bus) /\ nodes[m] # NoInterface
  BY DEF open, Closed
<1> HIDE DEF m
<1>7. h \in HidrawDevice
  BY <1>5, <1>6, HandleType DEF m
<1>8. h.live /\ h.number = nodes[m].number
  BY <1>6 DEF Handle
<1>9. fresh => nodes[m].number = want.interface
  BY <1>2 DEF Picked, m
<1>10. want.interface = lookup(ThePid).report_index
  BY <1>1 DEF Target
<1> QED BY <1>7, <1>8, <1>9, <1>10

(* A closed fd is one.                                                      *)
LEMMA ClosedIsClosed == Closed \in HidrawDevice \cup {Closed} /\ ~Closed.open
BY DEF Closed

(* Every step keeps what is known of the fd.                                *)
LEMMA HandleNext ==
  ASSUME KernelInv, WalkInv, CliTypes, ControlInv, HandleInv, Next
  PROVE  HandleInv'
<1>0. /\ fd \in HidrawDevice \cup {Closed}
      /\ fd.open <=> pc \in {"confirm", "read", "write", "watch"}
  BY DEF HandleInv
<1>1. ASSUME fd' = Closed, pc' \notin {"confirm", "read", "write", "watch"} PROVE HandleInv'
  BY <1>1, ClosedIsClosed DEF HandleInv
<1>2. ASSUME fd' = fd, pc \notin {"confirm", "read", "write", "watch"},
             pc' \notin {"confirm", "read", "write", "watch"}
      PROVE  HandleInv'
  BY <1>0, <1>2 DEF HandleInv
<1>3. CASE Main
  BY <1>1, <1>2, <1>3 DEF Main, ReadDir, Exit
<1>4. CASE Walking
  <2>1. wpc # "idle" /\ UNCHANGED <<fd, pc>>
    BY <1>4, WalkUnderway DEF Walking
  <2>2. pc \in {"listing", "finding"}
    BY <2>1 DEF ControlInv
  <2> QED BY <1>2, <2>1, <2>2
<1>5. CASE ListEnd \/ InfoEnd
  BY <1>1, <1>5 DEF ListEnd, InfoEnd, Exit
<1>6. CASE Listed
  BY <1>1, <1>2, <1>6 DEF Listed, Exit
<1>7. CASE NextDevice
  BY <1>2, <1>7 DEF NextDevice, ReadDir
<1>8. ASSUME GiveUp PROVE HandleInv'
  BY <1>1, <1>8 DEF GiveUp, Exit
<1>9. CASE Found
  <2>1. \/ GiveUp
        \/ pc = "finding" /\ pc' \in {"open", "before"} /\ fd' = fd
    BY <1>9 DEF Found
  <2> QED BY <1>2, <1>8, <2>1
<1>10. CASE Open
  <2>1. PICK h \in open(found[1].minor) :
           IF h.open THEN pc' = "confirm" /\ fd' = h /\ pids' = pids ELSE GiveUp
    BY <1>10 DEF Open
  <2>2. CASE h.open
    <3>1. h \in HidrawDevice /\ (fresh => h.number = lookup(ThePid).report_index)
      BY <1>10, <2>2, OpenedHandle DEF Open
    <3>2. UNCHANGED <<command, pids, fresh>> /\ pc' = "confirm" /\ fd' = h
      BY <1>10, <2>1, <2>2 DEF Open
    <3> QED BY <2>2, <3>1, <3>2 DEF HandleInv, ThePid
  <2> QED BY <1>8, <2>1, <2>2
<1>11. CASE Confirm
  <2>1. \/ GiveUp
        \/ /\ confirmed(fd, ThePid) /\ pc' \in {"read", "write"}
           /\ UNCHANGED <<fd, pids, fresh, command>>
    BY <1>11 DEF Confirm
  <2>2. CASE /\ confirmed(fd, ThePid) /\ pc' \in {"read", "write"}
             /\ UNCHANGED <<fd, pids, fresh, command>>
    <3>1. pc = "confirm" /\ fd.open /\ fd \in HidrawDevice
      BY <1>0, <1>11, ClosedIsClosed DEF Confirm
    <3>2. fd.device.vendor_id = VENDOR_ID /\ fd.device.product_id = ThePid
      BY <2>2, <3>1, ConfirmedIsMeant
    <3>3. fresh => fd.number = lookup(ThePid).report_index
      BY <3>1 DEF HandleInv
    <3> QED BY <1>0, <2>2, <3>1, <3>2, <3>3 DEF HandleInv, ThePid
  <2> QED BY <1>8, <2>1, <2>2
<1>12. CASE Read
  <2>1. UNCHANGED <<fd, pc, pids, fresh, command>>
    BY <1>12 DEF Read, enumVars
  <2> QED BY <2>1 DEF HandleInv, ThePid
<1>13. CASE ReportDevice
  BY <1>1, <1>13 DEF ReportDevice
<1>14. CASE Before
  BY <1>2, <1>14 DEF Before, enumVars
<1>15. CASE Write
  <2>1. UNCHANGED <<fd, pids, command>> /\ pc = "write" /\ pc' = "watch"
    BY <1>15 DEF Write, enumVars, cliVars
  <2> QED BY <1>0, <2>1 DEF HandleInv, ThePid
<1>16. CASE Watch
  <2>1. \/ pc' = "exited" /\ fd' = Closed
        \/ UNCHANGED <<fd, pc, pids, fresh, command>>
    BY <1>16 DEF Watch, Exit
  <2>2. CASE UNCHANGED <<fd, pc, pids, fresh, command>>
    BY <2>2 DEF HandleInv, ThePid
  <2> QED BY <1>1, <2>1, <2>2
<1>17. CASE WatchEnd
  BY <1>1, <1>17 DEF WatchEnd, Exit
<1>18. CASE Environment
  <2>1. UNCHANGED <<pc, pids, command>>
    BY <1>18 DEF Environment, cliVars
  <2>2. /\ fd' \in HidrawDevice \cup {Closed}
        /\ \/ UNCHANGED <<fd, fresh>>
           \/ /\ fresh' = FALSE
              /\ \/ fd' = fd
                 \/ fd.open /\ fd' = [fd EXCEPT !.live = FALSE]
    BY <1>0, <1>18, HotplugEffects DEF Environment
  <2>3. ASSUME fd.open, fd' = [fd EXCEPT !.live = FALSE]
        PROVE  fd'.open = fd.open /\ fd'.device = fd.device
    <3>1. fd \in HidrawDevice
      BY <1>0, <2>3, ClosedIsClosed
    <3> QED BY <2>3, <3>1 DEF HidrawDevice
  <2>4. /\ fd'.open = fd.open /\ (fd.open => fd'.device = fd.device)
        /\ fresh' = FALSE \/ (fresh' = fresh /\ fd' = fd)
    BY <2>2, <2>3
  <2>5. pc \in {"read", "write", "watch"} => fd.open
    BY <1>0
  <2> QED BY <2>1, <2>2, <2>4, <2>5 DEF HandleInv, ThePid
<1>19. CASE Exited
  <2>1. UNCHANGED <<fd, pc, pids, fresh, command>>
    BY <1>19 DEF Exited, vars, enumVars, cliVars
  <2> QED BY <2>1 DEF HandleInv, ThePid
<1> QED BY <1>3, <1>4, <1>5, <1>6, <1>7, <1>9, <1>10, <1>11, <1>12, <1>13, <1>14, <1>15,
           <1>16, <1>17, <1>18, <1>19 DEF Next, Process

(* Requests go out in Read and Write only, over an fd that was confirmed.   *)
LEMMA SentNext ==
  ASSUME CliTypes, ControlInv, HandleInv, SentInv, Next
  PROVE  SentInv'
<1>0. command' = command
  BY DEF Next, Process, Main, Walking, ListEnd, Listed, NextDevice, InfoEnd, Found, Open, Confirm,
         Read, ReportDevice, Before, Write, Watch, WatchEnd, Environment, Exited, vars, cliVars
<1>1. ASSUME sent' = sent PROVE SentInv'
  BY <1>0, <1>1 DEF SentInv, ReachesTheDeviceMeant, ControlInterfaceUnlessReplugged,
                    WritesAreDeliberate
<1>2. ASSUME NEW op, NEW tid, sent' = sent \cup {Request(op, tid)}, pc \in {"read", "write"},
             op # "set_device_mode" \/
               (/\ command.name = "set-device-mode" /\ accepted(command)
                /\ tid = IF command.flag = "hex" THEN command.tid
                         ELSE lookup(KEYBOARD).transaction_id)
      PROVE  SentInv'
  <2> DEFINE q == Request(op, tid)
  <2>1. /\ q.op = op /\ q.tid = tid /\ q.pid = ThePid /\ q.device = fd.device
        /\ q.number = fd.number /\ q.fresh = fresh
    BY DEF Request
  <2> HIDE DEF q
  <2>2. q.device.vendor_id = VENDOR_ID /\ q.device.product_id = q.pid
    BY <1>2, <2>1 DEF HandleInv
  <2>3. q.fresh => q.number = lookup(q.pid).report_index
    BY <1>2, <2>1 DEF HandleInv
  <2>4. ASSUME op = "set_device_mode"
        PROVE  /\ command.name = "set-device-mode" /\ command.mode # "other" /\ command.at_desk
               /\ \/ command.flag = "absent" /\ q.tid = lookup(q.pid).transaction_id
                  \/ command.flag = "hex" /\ q.tid = command.tid
    <3>1. command.name = "set-device-mode" /\ accepted(command) /\ q.pid = KEYBOARD
      BY <1>2, <2>1, <2>4 DEF ThePid
    <3>2. command \in CommandLine
      BY RazerdAssumption DEF CliTypes
    <3>3. command.flag \in {"absent", "hex"} \cup BadFlag
      BY <3>1, <3>2 DEF CommandLine
    <3> QED BY <1>2, <2>1, <2>4, <3>1, <3>3 DEF accepted
  <2>5. sent' = sent \cup {q}
    BY <1>2 DEF q
  <2> QED BY <1>0, <2>1, <2>2, <2>3, <2>4, <2>5 DEF SentInv, ReachesTheDeviceMeant,
                    ControlInterfaceUnlessReplugged, WritesAreDeliberate
<1>3. CASE Read
  <2>1. pc = "read" /\ ~done_reading(report)
    BY <1>3 DEF Read
  <2>2. \/ sent' = sent
        \/ sent' = sent \cup {Request(Reports[Len(report) + 1], lookup(ThePid).transaction_id)}
    BY <1>3 DEF Read
  <2>3. Reports[Len(report) + 1] # "set_device_mode"
    <3>1. report \in Seq({"Value", "ReceiverIdle", "Failed"}) /\ Len(report) <= Len(Reports)
      BY DEF CliTypes
    <3>2. Len(report) # Len(Reports)
      BY <2>1 DEF done_reading
    <3>3. Len(Reports) = 3
      BY DEF Reports
    <3>4. Len(report) \in Nat /\ Len(report) <= 3 /\ Len(report) # 3
      BY <3>1, <3>2, <3>3
    <3>5. \A n \in Nat : (n <= 3 /\ n # 3) => n + 1 \in 1..3
      OBVIOUS
    <3>6. Len(report) + 1 \in 1..3
      BY <3>4, <3>5
    <3>7. \A k \in 1..3 : Reports[k] # "set_device_mode"
      BY DEF Reports
    <3> QED BY <3>6, <3>7
  <2> QED BY <1>1, <1>2, <2>1, <2>2, <2>3
<1>4. CASE Write
  <2>1. command.name = "set-device-mode" /\ accepted(command) /\ pc = "write"
    BY <1>4 DEF Write, ControlInv
  <2>2. \/ sent' = sent
        \/ sent' = sent \cup {Request("set_device_mode",
                     IF command.flag = "hex" THEN command.tid
                     ELSE lookup(KEYBOARD).transaction_id)}
    BY <1>4 DEF Write
  <2> QED BY <1>1, <1>2, <2>1, <2>2
<1>5. CASE ~Read /\ ~Write
  <2>1. sent' = sent
    BY <1>5 DEF Next, Process, Main, Walking, ListEnd, Listed, NextDevice, InfoEnd, Found, Open,
           Confirm, ReportDevice, Before, Watch, WatchEnd, Environment, Exited, vars, history
  <2> QED BY <1>1, <2>1
<1> QED BY <1>3, <1>4, <1>5

-----------------------------------------------------------------------------
(* The watch. *)

(* An fd that was live when it was opened dies only with a disconnect, and  *)
(* the first look was taken before it was opened.                           *)
LEMMA WatchNext ==
  ASSUME KernelInv, WalkInv, CliTypes, ControlInv, HandleInv, WatchInv, Next
  PROVE  WatchInv'
<1>0. /\ start \in Nat /\ disconnects \in Nat /\ blind \in BOOLEAN /\ lost \in BOOLEAN
  <2>1. start \in 0..MaxDisconnects /\ disconnects \in 0..MaxDisconnects /\ MaxDisconnects \in Nat
    BY EnumerateAssumption DEF CliTypes, KernelInv
  <2>2. start \in Nat /\ disconnects \in Nat
    BY <2>1
  <2>3. blind \in BOOLEAN /\ lost \in BOOLEAN
    BY DEF CliTypes
  <2> QED BY <2>2, <2>3
<1>1. /\ start <= disconnects
      /\ (fd.open /\ ~fd.live) => start < disconnects
      /\ (pc \in {"open", "confirm", "write", "watch"} /\ command.name = "set-device-mode" /\ ~blind)
            => before = start
      /\ lost => pc \in {"watch", "exited"}
      /\ ~blind => ~lost
      /\ verdict # "none" => pc = "exited"
      /\ (verdict = "disconnect" /\ before = start) => disconnects > start
  BY DEF WatchInv, BlameIsBacked
(* Steps that leave the watch alone and no fd open.                         *)
<1>2. ASSUME UNCHANGED <<disconnects, before, start, blind, lost, verdict, command>>,
             fd' \in {fd, Closed},
             pc' \in {"open", "confirm", "write", "watch"} =>
                pc \in {"open", "confirm", "write", "watch"} \/ command.name # "set-device-mode",
             lost => pc' \in {"watch", "exited"},
             verdict # "none" => pc' = "exited"
      PROVE  WatchInv'
  <2>1. fd' = fd \/ ~fd'.open
    BY <1>2, ClosedIsClosed
  <2> QED BY <1>1, <1>2, <2>1 DEF WatchInv, BlameIsBacked
<1>3. CASE Main
  <2>1. /\ UNCHANGED <<disconnects, before, start, blind, lost, verdict, command>> /\ fd' \in {fd, Closed}
        /\ pc = "main" /\ pc' \in {"listing", "finding", "exited"}
    BY <1>3 DEF Main, ReadDir, Exit, busVars, watchVars, history
  <2> QED BY <1>1, <1>2, <2>1
<1>4. CASE Walking
  <2>1. wpc # "idle" /\ UNCHANGED <<fd, pc, before, start, blind, lost, verdict, command>>
    BY <1>4, WalkUnderway DEF Walking, cliVars, watchVars, history
  <2>2. disconnects' = disconnects
    BY <1>4 DEF Walking, Walk, Resolve, ReadGone, ReadVendor, ReadProduct, WalkEnd, busVars
  <2> QED BY <1>1, <1>2, <2>1, <2>2
<1>5. CASE ListEnd \/ InfoEnd
  <2>1. /\ UNCHANGED <<disconnects, before, start, blind, lost, verdict, command>> /\ fd' = Closed
        /\ pc' = "exited"
    BY <1>5 DEF ListEnd, InfoEnd, Exit, busVars, watchVars, history
  <2> QED BY <1>1, <1>2, <2>1
<1>6. CASE Listed
  <2>1. /\ UNCHANGED <<disconnects, before, start, blind, lost, verdict, command>> /\ fd' \in {fd, Closed}
        /\ pc = "listing" /\ pc' \in {"exited", "device"}
    BY <1>6 DEF Listed, Exit, busVars, watchVars
  <2> QED BY <1>1, <1>2, <2>1
<1>7. CASE NextDevice
  <2>1. /\ UNCHANGED <<disconnects, before, start, blind, lost, verdict, command, fd>>
        /\ pc = "device" /\ pc' = "finding"
    BY <1>7 DEF NextDevice, ReadDir, busVars, cliVars, watchVars, history
  <2> QED BY <1>1, <1>2, <2>1
<1>8. ASSUME GiveUp, UNCHANGED <<disconnects, before, start, blind, lost, verdict, command>>,
             pc \notin {"watch", "exited"}
      PROVE  WatchInv'
  <2>1. fd' = Closed /\ pc' \in {"device", "exited"}
    BY <1>8 DEF GiveUp, Exit
  <2> QED BY <1>1, <1>2, <1>8, <2>1
<1>9. CASE Found
  <2>1. /\ UNCHANGED <<disconnects, before, start, blind, lost, verdict, command>> /\ pc = "finding"
        /\ \/ GiveUp
           \/ fd' = fd /\ pc' = IF command.name = "info" THEN "open" ELSE "before"
    BY <1>9 DEF Found, busVars, watchVars, history
  <2> QED BY <1>1, <1>2, <1>8, <2>1
<1>10. CASE Open
  <2>1. UNCHANGED <<disconnects, before, start, blind, lost, verdict, command>> /\ pc = "open"
    BY <1>10 DEF Open, busVars, watchVars, history
  <2>2. PICK h \in open(found[1].minor) :
           IF h.open THEN pc' = "confirm" /\ fd' = h ELSE GiveUp
    BY <1>10 DEF Open
  <2>3. CASE h.open
    <3>1. h.live /\ pc' = "confirm" /\ fd' = h
      BY <2>1, <2>2, <2>3, OpenedHandle
    <3> QED BY <1>1, <2>1, <3>1 DEF WatchInv, BlameIsBacked
  <2> QED BY <1>8, <2>1, <2>2, <2>3
<1>11. CASE Confirm
  <2>1. /\ UNCHANGED <<disconnects, before, start, blind, lost, verdict, command>> /\ pc = "confirm"
        /\ GiveUp \/ (fd' = fd /\ pc' \in {"read", "write"})
    BY <1>11 DEF Confirm, busVars, watchVars, history
  <2> QED BY <1>1, <1>2, <1>8, <2>1
<1>12. CASE Read
  <2>1. UNCHANGED <<disconnects, before, start, blind, lost, verdict, command, fd, pc>>
    BY <1>12 DEF Read, enumVars, busVars, watchVars
  <2> QED BY <1>1, <1>2, <2>1
<1>13. CASE ReportDevice
  <2>1. /\ UNCHANGED <<disconnects, before, start, blind, lost, verdict, command>> /\ fd' = Closed
        /\ pc = "read" /\ pc' = "device"
    BY <1>13 DEF ReportDevice, busVars, watchVars, history
  <2> QED BY <1>1, <1>2, <2>1
<1>14. CASE Before
  <2>1. /\ UNCHANGED <<disconnects, lost, verdict, command, fd>>
        /\ pc = "before" /\ pc' = "open" /\ start' = disconnects
        /\ blind' = (before' # disconnects)
    BY <1>14 DEF Before, enumVars, busVars
  <2>2. verdict = "none"
    BY <1>1, <2>1
  <2>3. ~lost /\ ~fd.open
    BY <1>1, <2>1 DEF HandleInv
  <2>4. start' <= disconnects
    BY <1>0, <2>1
  <2> QED BY <2>1, <2>2, <2>3, <2>4 DEF WatchInv, BlameIsBacked
<1>15. CASE Write
  <2>1. UNCHANGED <<disconnects, before, start, blind, lost, verdict, command, fd>>
        /\ pc = "write" /\ pc' = "watch"
    BY <1>15 DEF Write, enumVars, busVars, cliVars, watchVars
  <2> QED BY <1>1, <1>2, <2>1
<1>16. CASE Watch
  <2>1. /\ UNCHANGED <<disconnects, before, start, command>> /\ pc = "watch"
        /\ after' \in (0..disconnects) \cup {Unread} /\ blind' = (blind \/ after' # disconnects)
    BY <1>16 DEF Watch, busVars, disconnect_count
  <2>2. command.name = "set-device-mode" /\ fd.open
    BY <2>1 DEF ControlInv, HandleInv
  <2>3. CASE grew(before, after')
    <3>1. pc' = "exited" /\ verdict' = "disconnect" /\ lost' = lost /\ ~fd'.open
      BY <1>16, <2>3, ClosedIsClosed DEF Watch, Exit
    <3>2. before = start => disconnects > start
      <4>1. after' \in 0..disconnects /\ after' > before
        BY <2>1, <2>3 DEF grew
      <4> QED BY <1>0, <4>1
    <3> QED BY <1>1, <2>1, <3>1, <3>2 DEF WatchInv, BlameIsBacked
  <2>4. CASE ~grew(before, after')
    <3>1. UNCHANGED <<pc, fd, verdict>> /\ lost' = ~fd.live
      BY <1>16, <2>4 DEF Watch
    <3>2. ASSUME ~blind' PROVE fd.live
      <4>1. ~blind /\ after' = disconnects /\ before = start
        BY <1>1, <2>1, <2>2, <3>2
      <4>2. disconnects # Unread /\ start # Unread
        BY <1>0 DEF Unread
      <4>3. ~(disconnects > start)
        BY <2>4, <4>1, <4>2 DEF grew
      <4> QED BY <1>0, <1>1, <2>2, <4>1, <4>3
    <3> QED BY <1>1, <2>1, <3>1, <3>2 DEF WatchInv, BlameIsBacked
  <2> QED BY <2>3, <2>4
<1>17. CASE WatchEnd
  <2>1. /\ UNCHANGED <<disconnects, before, start, blind, lost, command>>
        /\ pc' = "exited" /\ fd' = Closed /\ verdict' # "disconnect"
    BY <1>17 DEF WatchEnd, Exit, busVars, history
  <2> QED BY <1>1, <2>1, ClosedIsClosed DEF WatchInv, BlameIsBacked
<1>18. CASE Environment
  <2>1. UNCHANGED <<pc, before, start, blind, lost, verdict, command>>
    BY <1>18 DEF Environment, cliVars, watchVars, history
  <2>2. \/ UNCHANGED <<fd, disconnects>>
        \/ disconnects' = disconnects + 1
    BY <1>18, HotplugEffects DEF Environment, HandleInv
  <2>3. CASE UNCHANGED <<fd, disconnects>>
    BY <1>1, <1>2, <2>1, <2>3
  <2>4. CASE disconnects' = disconnects + 1
    <3>1. start' < disconnects'
      BY <1>0, <1>1, <2>1, <2>4
    <3>2. start' <= disconnects' /\ disconnects' > start'
      BY <1>0, <2>1, <2>4, <3>1
    <3> QED BY <1>1, <2>1, <3>1, <3>2 DEF WatchInv, BlameIsBacked
  <2> QED BY <2>2, <2>3, <2>4
<1>19. CASE Exited
  <2>1. UNCHANGED <<disconnects, before, start, blind, lost, verdict, command, fd, pc>>
    BY <1>19 DEF Exited, vars, enumVars, busVars, cliVars, watchVars, history
  <2> QED BY <1>1, <1>2, <2>1
<1> QED BY <1>3, <1>4, <1>5, <1>6, <1>7, <1>9, <1>10, <1>11, <1>12, <1>13, <1>14, <1>15,
           <1>16, <1>17, <1>18, <1>19 DEF Next, Process

-----------------------------------------------------------------------------
(* info's books. *)

(* Nothing listed, nothing to account for.                                  *)
LEMMA NothingListed == Cardinality({p \in ProductIds(<<>>) : supported(p)}) = 0
<1>1. ToSet(<<>>) = {}
  BY DEF ToSet
<1>2. {p \in ProductIds(<<>>) : supported(p)} = {}
  BY <1>1 DEF ProductIds
<1> QED BY <1>2, FS_EmptySet

(* The number of devices info accounts for is a number.                     *)
LEMMA TotalType == Total \in Nat
<1>1. \A p \in {q \in ProductIds(listed) : supported(q)} : supported(p)
  OBVIOUS
<1> DEFINE P == {q \in ProductIds(listed) : supported(q)}
<1> HIDE DEF P
<1>2. Cardinality(P) \in Nat
  BY <1>1, FewSupported DEF P
<1> QED BY <1>2 DEF Total, P

(* Every step of info keeps opened, failed and still to come in balance.    *)
LEMMA InfoNext ==
  ASSUME WalkInv, CliTypes, ControlInv, InfoInv, Next
  PROVE  InfoInv'
<1>0. /\ opened \in Nat /\ failed \in Nat /\ idle \in Nat /\ pids \in Seq(Nat)
      /\ Len(pids) \in Nat /\ Total \in Nat
  <2>1. opened \in Nat /\ failed \in Nat /\ idle \in Nat /\ pids \in Seq(Nat)
    BY DEF CliTypes
  <2> QED BY <2>1, TotalType
<1>1. command' = command
  BY DEF Next, Process, Main, Walking, ListEnd, Listed, NextDevice, InfoEnd, Found, Open, Confirm,
         Read, ReportDevice, Before, Write, Watch, WatchEnd, Environment, Exited, vars, cliVars
<1> SUFFICES ASSUME command.name = "info" PROVE InfoInv'
  BY <1>1 DEF InfoInv
<1>2. /\ pc \in {"main", "listing"} => opened = 0 /\ failed = 0 /\ idle = 0 /\ pids = <<>>
      /\ pc \in {"device", "finding", "open", "confirm", "exited"} =>
            opened + failed + Len(pids) = Total /\ idle <= opened
      /\ pc = "read" => opened + failed + Len(pids) = Total + 1 /\ idle < opened
      /\ (pc = "exited" /\ opened + failed > 0) => (exit = "success" <=> opened > 0)
      /\ Len(pids) <= Len(TABLE)
  BY DEF InfoInv
<1>3. listed' = listed => Total' = Total
  BY DEF Total
<1>4. Len(TABLE) = 3
  BY TableIs
<1>5. CASE Main
  <2>1. /\ pc = "main" /\ pc' = "listing" /\ UNCHANGED <<opened, failed, idle, pids>>
    BY <1>5 DEF Main
  <2> QED BY <1>2, <2>1 DEF InfoInv
<1>6. CASE Listed
  <2>1. pc = "listing" /\ UNCHANGED <<opened, failed, idle>>
    BY <1>6 DEF Listed
  <2>2. opened = 0 /\ failed = 0 /\ idle = 0 /\ pids = <<>>
    BY <1>2, <2>1
  <2>3. CASE outcome # "Ok"
    <3>1. listed' = <<>> /\ pc' = "exited" /\ pids' = pids
      BY <1>6, <2>3 DEF Listed, Exit
    <3>2. Total' = 0 /\ Len(pids') = 0
      BY <2>2, <3>1, NothingListed DEF Total
    <3> QED BY <1>4, <2>1, <2>2, <3>1, <3>2 DEF InfoInv
  <2>4. CASE outcome = "Ok"
    <3>1. /\ listed' = found /\ pc' \in {"exited", "device"}
          /\ pids' = Supported(found)
      BY <1>6, <2>2, <2>4 DEF Listed, Exit
    <3>2. Len(Supported(found)) = Cardinality({p \in ProductIds(found) : supported(p)})
          /\ Len(Supported(found)) <= Len(TABLE) /\ Supported(found) \in Seq(Nat)
      BY SupportedIds DEF WalkInv, WalkTypes
    <3>3. Len(pids') = Total' /\ Len(pids') <= Len(TABLE)
      BY <3>1, <3>2 DEF Total
    <3>4. Len(pids') \in Nat
      BY <3>1, <3>2
    <3> QED BY <2>1, <2>2, <3>1, <3>3, <3>4 DEF InfoInv
  <2> QED BY <2>3, <2>4
<1>7. CASE InfoEnd
  <2>1. /\ pc = "device" /\ pc' = "exited" /\ UNCHANGED <<opened, failed, idle, pids, listed>>
        /\ exit' = IF opened = 0 /\ failed > 0 THEN "failure" ELSE "success"
    BY <1>7 DEF InfoEnd, Exit, history
  <2> QED BY <1>0, <1>2, <1>3, <2>1 DEF InfoInv
<1>8. ASSUME GiveUp, pc \in {"finding", "open", "confirm"}, UNCHANGED <<opened, idle, listed>>
      PROVE  InfoInv'
  <2>1. pids # <<>>
    BY <1>8 DEF ControlInv
  <2>2. pc' = "device" /\ pids' = Tail(pids) /\ failed' = failed + 1
    BY <1>8, <2>1, GivenUp
  <2>3. Len(pids') = Len(pids) - 1
    BY <2>1, <2>2, NextPid
  <2>4. opened' + failed' + Len(pids') = Total'
    <3>1. opened + failed + Len(pids) = Total /\ Total' = Total
      BY <1>2, <1>3, <1>8
    <3>2. opened + (failed + 1) + (Len(pids) - 1) = Total
      BY <1>0, <3>1
    <3> QED BY <1>8, <2>2, <2>3, <3>1, <3>2
  <2>5. idle' <= opened'
    BY <1>2, <1>8
  <2>6. Len(pids') <= Len(TABLE)
    BY <1>0, <1>2, <1>4, <2>3
  <2> QED BY <2>2, <2>4, <2>5, <2>6 DEF InfoInv
<1>9. CASE Found
  <2>1. /\ pc = "finding" /\ UNCHANGED <<opened, idle, listed>>
        /\ GiveUp \/ (pc' = "open" /\ UNCHANGED <<failed, pids>>)
    BY <1>9 DEF Found, history
  <2>2. CASE pc' = "open" /\ UNCHANGED <<failed, pids>>
    BY <1>2, <1>3, <2>1, <2>2 DEF InfoInv
  <2> QED BY <1>8, <2>1, <2>2
<1>10. CASE Open
  <2>1. /\ pc = "open" /\ UNCHANGED <<opened, idle, listed>>
        /\ GiveUp \/ (pc' = "confirm" /\ UNCHANGED <<failed, pids>>)
    BY <1>10 DEF Open, history
  <2>2. CASE pc' = "confirm" /\ UNCHANGED <<failed, pids>>
    BY <1>2, <1>3, <2>1, <2>2 DEF InfoInv
  <2> QED BY <1>8, <2>1, <2>2
<1>11. CASE Confirm
  <2>1. /\ pc = "confirm" /\ UNCHANGED <<idle, listed>>
        /\ \/ GiveUp /\ opened' = opened
           \/ pc' = "read" /\ opened' = opened + 1 /\ UNCHANGED <<failed, pids>>
    BY <1>11 DEF Confirm, history
  <2>2. CASE pc' = "read" /\ opened' = opened + 1 /\ UNCHANGED <<failed, pids>>
    <3>1. opened' + failed' + Len(pids') = Total' + 1 /\ idle' < opened' /\ Len(pids') <= Len(TABLE)
      BY <1>0, <1>2, <1>3, <2>1, <2>2
    <3> QED BY <2>2, <3>1 DEF InfoInv
  <2> QED BY <1>8, <2>1, <2>2
<1>12. CASE ReportDevice
  <2>1. /\ pc = "read" /\ pc' = "device" /\ UNCHANGED <<opened, failed, listed>>
        /\ pids' = Tail(pids) /\ idle' \in {idle, idle + 1}
    BY <1>12 DEF ReportDevice, history
  <2>2. pids # <<>>
    BY <2>1 DEF ControlInv
  <2>3. Len(pids') = Len(pids) - 1
    BY <2>1, <2>2, NextPid
  <2>4. opened' + failed' + Len(pids') = Total'
    <3>1. opened + failed + Len(pids) = Total + 1 /\ Total' = Total
      BY <1>2, <1>3, <2>1
    <3>2. opened + failed + (Len(pids) - 1) = Total
      BY <1>0, <3>1
    <3> QED BY <2>1, <2>3, <3>1, <3>2
  <2>5. idle' <= opened'
    BY <1>0, <1>2, <2>1
  <2>6. Len(pids') <= Len(TABLE)
    BY <1>0, <1>2, <1>4, <2>3
  <2> QED BY <2>1, <2>4, <2>5, <2>6 DEF InfoInv
<1>13. CASE NextDevice
  <2>1. /\ pc = "device" /\ pc' = "finding" /\ UNCHANGED <<opened, failed, idle, pids, listed>>
    BY <1>13 DEF NextDevice, cliVars, history
  <2> QED BY <1>2, <1>3, <2>1 DEF InfoInv
<1>14. CASE Walking \/ Read \/ Environment \/ Exited
  <2>1. UNCHANGED <<pc, exit, opened, failed, idle, pids, listed>>
    BY <1>14 DEF Walking, Read, Environment, Exited, vars, cliVars, history
  <2> QED BY <1>2, <1>3, <2>1 DEF InfoInv
<1>15. CASE ListEnd \/ Before \/ Write \/ Watch \/ WatchEnd
  BY <1>15 DEF ListEnd, Before, Write, Watch, WatchEnd, ControlInv
<1> QED BY <1>5, <1>6, <1>7, <1>9, <1>10, <1>11, <1>12, <1>13, <1>14, <1>15 DEF Next, Process

-----------------------------------------------------------------------------
(* The invariant holds. *)

(* The invariant holds when main() is entered.                              *)
LEMMA InvInit == Init => Inv
<1> SUFFICES ASSUME Init PROVE Inv
  OBVIOUS
<1>1. KernelInv /\ WalkInv /\ ExactInv
  BY EnumInvInit DEF Init
<1>2. /\ wpc = "idle" /\ fd = Closed /\ disconnects = 0 /\ pc = "main"
      /\ command \in Commands /\ exit = "none"
      /\ pids = <<>> /\ opened = 0 /\ failed = 0 /\ idle = 0 /\ report = <<>>
      /\ before = Unread /\ after = Unread /\ tick = 0 /\ verdict = "none"
      /\ sent = {} /\ start = 0 /\ blind = FALSE /\ lost = FALSE
  BY DEF Init, EnumInit
<1>3. CliTypes
  <2>1. -1 \in -1..MaxDisconnects /\ 0 \in 0..WATCH_SECONDS /\ 0 \in 0..MaxDisconnects
    BY EnumerateAssumption, RazerdAssumption
  <2>2. Len(<<>>) <= Len(Reports)
    BY DEF Reports
  <2>3. <<>> \in Seq(Nat) /\ <<>> \in Seq({"Value", "ReceiverIdle", "Failed"})
    BY EmptySeq
  <2> QED BY <1>2, <2>1, <2>2, <2>3 DEF CliTypes, Unread
<1>4. ControlInv
  BY <1>2 DEF ControlInv
<1>5. HandleInv
  BY <1>2, ClosedIsClosed DEF HandleInv
<1>6. SentInv
  BY <1>2 DEF SentInv, ReachesTheDeviceMeant, ControlInterfaceUnlessReplugged, WritesAreDeliberate
<1>7. WatchInv
  BY <1>2, ClosedIsClosed DEF WatchInv, BlameIsBacked, Unread
<1>8. InfoInv
  BY <1>2, TableIs DEF InfoInv
<1> QED BY <1>1, <1>3, <1>4, <1>5, <1>6, <1>7, <1>8 DEF Inv

(* Every step keeps the invariant.                                          *)
LEMMA InvNext == Inv /\ [Next]_vars => Inv'
<1> SUFFICES ASSUME Inv, [Next]_vars PROVE Inv'
  OBVIOUS
<1>1. CASE Next
  BY <1>1, EnumNext, CliTypesNext, ControlNext, HandleNext, SentNext, WatchNext, InfoNext DEF Inv
<1>2. CASE UNCHANGED vars
  <2>1. UNCHANGED <<busVars, walkVars, fd, steady, fresh, pc, command, exit, pids, opened, failed,
                    idle, report, before, after, tick, verdict, listed, sent, start, blind, lost>>
    BY <1>2 DEF vars, enumVars, cliVars, watchVars, history
  <2>2. UNCHANGED <<bus, nodes, disconnects, wpc, want, names, path, vendor, found, outcome>>
    BY <2>1 DEF busVars, walkVars
  <2>3. KernelInv'
    BY <2>1, KernelStays DEF Inv
  <2>4. WalkInv'
    BY <2>1, <2>2 DEF Inv, WalkInv, WalkTypes, Picked
  <2>5. ExactInv'
    BY <2>1, <2>2 DEF Inv, ExactInv, ToCome, Seen, Meant, hidraw_names
  <2>6. CliTypes' /\ ControlInv'
    <3>1. CliTypes'
      BY <2>1 DEF Inv, CliTypes
    <3>2. ControlInv'
      BY <2>1, <2>2 DEF Inv, ControlInv, ThePid
    <3> QED BY <3>1, <3>2
  <2>7. HandleInv' /\ SentInv'
    BY <2>1, <2>2 DEF Inv, HandleInv, SentInv, ReachesTheDeviceMeant,
                      ControlInterfaceUnlessReplugged, WritesAreDeliberate, ThePid
  <2>8. WatchInv' /\ InfoInv'
    BY <2>1, <2>2 DEF Inv, WatchInv, BlameIsBacked, InfoInv, Total
  <2> QED BY <2>3, <2>4, <2>5, <2>6, <2>7, <2>8 DEF Inv
<1> QED BY <1>1, <1>2

(* Inv is an invariant of razerd, whatever the command line and the bus.    *)
LEMMA Invariance == Spec => []Inv
BY InvInit, InvNext, PTL DEF Spec

-----------------------------------------------------------------------------
(* The theorems. *)

(* Every variable of razerd's commands, the walk, the fd and the bus keeps  *)
(* its type, the seconds of the watch and the three readings their bounds.  *)
THEOREM TypeCorrect == Spec => []TypeOK
<1>1. Inv => TypeOK
  BY DEF Inv, KernelInv, WalkInv, WalkTypes, HandleInv, CliTypes, EnumTypeOK, TypeOK
<1> QED BY <1>1, Invariance, PTL

(* However devices are swapped between the walk and the open, no report is  *)
(* written into anything but a Razer device with the product id meant.      *)
THEOREM DeviceMeant == Spec => []ReachesTheDeviceMeant
<1>1. Inv => ReachesTheDeviceMeant
  BY DEF Inv, SentInv
<1> QED BY <1>1, Invariance, PTL

(* A request goes to the control interface unless something was unplugged   *)
(* after its node was resolved.                                             *)
THEOREM InterfaceMeant == Spec => []ControlInterfaceUnlessReplugged
<1>1. Inv => ControlInterfaceUnlessReplugged
  BY DEF Inv, SentInv
<1> QED BY <1>1, Invariance, PTL

(* set-device-mode writes only what the user asked for and confirmed.       *)
THEOREM Deliberate == Spec => []WritesAreDeliberate
<1>1. Inv => WritesAreDeliberate
  BY DEF Inv, SentInv
<1> QED BY <1>1, Invariance, PTL

(* If every look of the loop counted what the log held, a keyboard that is  *)
(* gone at the last of them is not given "no reset".                        *)
THEOREM ResetSeen == Spec => []NoResetIsSeen
<1>1. Inv => NoResetIsSeen
  BY DEF Inv, WatchInv, NoResetIsSeen
<1> QED BY <1>1, Invariance, PTL

(* If the first look counted all that the log held, the watch blames the    *)
(* write only over a disconnect since.                                      *)
THEOREM BlameBacked == Spec => []BlameIsBacked
<1>1. Inv => BlameIsBacked
  BY DEF Inv, WatchInv
<1> QED BY <1>1, Invariance, PTL

(* If the bus holds still, find_device returns the lowest matching node and *)
(* list_razer_nodes every Razer node once, in order.                        *)
THEOREM WalkExact == Spec => []WalkIsExact
<1>1. Inv => WalkIsExact
  BY ExactAtTheEnd DEF Inv
<1> QED BY <1>1, Invariance, PTL

(* info's books balance.                                                    *)
THEOREM InfoAccounted == Spec => []InfoAccounts
<1>1. Inv => InfoAccounts
  BY DEF Inv, InfoInv, InfoAccounts, Total
<1> QED BY <1>1, Invariance, PTL

(* Once a reading finds the receiver idle nothing more is sent to it.       *)
THEOREM IdleIsLast == Spec => NothingAfterIdle
<1>1. ASSUME Inv, [Next]_vars, NEW k \in 1..Len(report), report[k] = "ReceiverIdle"
      PROVE  sent' = sent
  <2>1. CASE Read
    <3>0. report \in Seq({"Value", "ReceiverIdle", "Failed"})
      BY <1>1 DEF Inv, CliTypes
    <3>1. \A j \in 1..(Len(report) - 1) : report[j] # "ReceiverIdle"
      BY <1>1 DEF Inv, ControlInv
    <3>2. k = Len(report) /\ report # <<>>
      BY <1>1, <3>0, <3>1
    <3>3. report = <<>> \/ report[Len(report)] # "ReceiverIdle"
      BY <2>1 DEF Read, done_reading, Last
    <3> QED BY <1>1, <3>2, <3>3
  <2>2. CASE Write
    <3>1. report = <<>>
      BY <1>1, <2>2 DEF Write, Inv, ControlInv
    <3>2. Len(report) = 0
      BY <3>1
    <3> QED BY <1>1, <3>2
  <2>3. CASE ~Read /\ ~Write
    BY <1>1, <2>3 DEF Next, Process, Main, Walking, ListEnd, Listed, NextDevice, InfoEnd, Found,
           Open, Confirm, ReportDevice, Before, Watch, WatchEnd, Environment, Exited, vars, history
  <2> QED BY <2>1, <2>2, <2>3
<1>2. Inv /\ [Next]_vars =>
        [\A k \in 1..Len(report) : report[k] = "ReceiverIdle" => sent' = sent]_vars
  BY <1>1
<1> QED BY <1>2, Invariance, PTL DEF Spec, NothingAfterIdle

-----------------------------------------------------------------------------
(* info gets on. *)

(* The three parts of the distance.                                         *)
LEMMA ThreeParts ==
  /\ DOMAIN Distance = {1, 2, 3}
  /\ Distance[1] = CASE pc = "main" -> Len(TABLE) + 2 [] pc = "listing" -> Len(TABLE) + 1
                     [] pc = "exited" -> -1 [] OTHER -> Len(pids)
  /\ Distance[2] = CASE pc = "device" -> 4 [] pc = "finding" -> 3 [] pc = "open" -> 2
                     [] pc = "confirm" -> 1 [] OTHER -> 0
  /\ Distance[3] = CASE wpc = "resolve" -> 3 * Len(names) + 2
                     [] wpc = "idVendor" -> 3 * Len(names) + 1
                     [] wpc = "idProduct" -> 3 * Len(names) [] wpc = "done" -> 1
                     [] OTHER -> Len(Reports) - Len(report)
BY DEF Distance

(* The same of the next state.                                              *)
LEMMA ThreePartsNext ==
  /\ Distance'[1] = CASE pc' = "main" -> Len(TABLE) + 2 [] pc' = "listing" -> Len(TABLE) + 1
                      [] pc' = "exited" -> -1 [] OTHER -> Len(pids')
  /\ Distance'[2] = CASE pc' = "device" -> 4 [] pc' = "finding" -> 3 [] pc' = "open" -> 2
                      [] pc' = "confirm" -> 1 [] OTHER -> 0
  /\ Distance'[3] = CASE wpc' = "resolve" -> 3 * Len(names') + 2
                      [] wpc' = "idVendor" -> 3 * Len(names') + 1
                      [] wpc' = "idProduct" -> 3 * Len(names') [] wpc' = "done" -> 1
                      [] OTHER -> Len(Reports) - Len(report')
BY DEF Distance

(* The order is lexicographic.                                              *)
LEMMA NearerBy ==
  /\ Distance'[1] < Distance[1] => Nearer(Distance', Distance)
  /\ Distance'[1] = Distance[1] /\ Distance'[2] < Distance[2] => Nearer(Distance', Distance)
  /\ /\ Distance'[1] = Distance[1] /\ Distance'[2] = Distance[2]
     /\ Distance'[3] < Distance[3]
     => Nearer(Distance', Distance)
<1>1. 1 \in DOMAIN Distance /\ 2 \in DOMAIN Distance /\ 3 \in DOMAIN Distance
  BY ThreeParts
<1>2. /\ \A j \in 1..(1 - 1) : FALSE
      /\ \A j \in 1..(2 - 1) : j = 1
      /\ \A j \in 1..(3 - 1) : j = 1 \/ j = 2
  OBVIOUS
<1>3. ASSUME Distance'[1] < Distance[1] PROVE Nearer(Distance', Distance)
  BY <1>1, <1>2, <1>3 DEF Nearer
<1>4. ASSUME Distance'[1] = Distance[1], Distance'[2] < Distance[2]
      PROVE  Nearer(Distance', Distance)
  BY <1>1, <1>2, <1>4 DEF Nearer
<1>5. ASSUME Distance'[1] = Distance[1], Distance'[2] = Distance[2], Distance'[3] < Distance[3]
      PROVE  Nearer(Distance', Distance)
  BY <1>1, <1>2, <1>5 DEF Nearer
<1> QED BY <1>3, <1>4, <1>5

(* A step of the walk uses up a name or a file of the one in hand.          *)
LEMMA WalkGetsOn ==
  ASSUME WalkInv, Walk
  PROVE  Distance'[3] < Distance[3]
<1> DEFINE n == Len(names)
<1>0. /\ names \in Seq(Minors) /\ n \in Nat
      /\ names # <<>> => n >= 1 /\ Len(Tail(names)) = n - 1
  <2>1. names \in Seq(Minors)
    BY DEF WalkInv, WalkTypes
  <2> QED BY <2>1, HeadTailProperties, EmptySeq
<1>1. wpc \in {"idVendor", "idProduct"} => names # <<>>
  BY DEF WalkInv, Reading
<1>2. CASE Resolve
  <2>1. /\ wpc = "resolve" /\ names # <<>>
        /\ \/ wpc' = "idVendor" /\ names' = names
           \/ wpc' = "resolve" /\ names' = Tail(names)
    BY <1>2 DEF Resolve
  <2> QED BY <1>0, <2>1, ThreeParts, ThreePartsNext
<1>3. CASE ReadGone
  <2>1. wpc \in {"idVendor", "idProduct"} /\ wpc' = "done"
    BY <1>3 DEF ReadGone, Finish
  <2> QED BY <1>0, <1>1, <2>1, ThreeParts, ThreePartsNext
<1>4. CASE ReadVendor
  <2>1. wpc = "idVendor" /\ wpc' = "idProduct" /\ names' = names
    BY <1>4 DEF ReadVendor
  <2> QED BY <1>0, <2>1, ThreeParts, ThreePartsNext
<1>5. CASE ReadProduct
  <2>1. /\ wpc = "idProduct"
        /\ \/ wpc' = "done"
           \/ wpc' = "resolve" /\ names' = Tail(names)
    BY <1>5 DEF ReadProduct, Finish
  <2> QED BY <1>0, <1>1, <2>1, ThreeParts, ThreePartsNext
<1>6. CASE WalkEnd
  <2>1. wpc = "resolve" /\ wpc' = "done"
    BY <1>6 DEF WalkEnd, Finish
  <2> QED BY <1>0, <2>1, ThreeParts, ThreePartsNext
<1> QED BY <1>2, <1>3, <1>4, <1>5, <1>6 DEF Walk

(* The next device, once the one in hand is given up or done with.          *)
LEMMA NextGetsOn ==
  ASSUME CliTypes, ControlInv, pids # <<>>, pids' = Tail(pids), pc' = "device",
         pc \in {"finding", "open", "confirm", "read"}
  PROVE  Distance'[1] < Distance[1]
<1>1. Len(pids) \in Nat /\ Len(pids') = Len(pids) - 1
  BY NextPid
<1> QED BY <1>1, ThreeParts, ThreePartsNext

(* Every step of info's own brings it nearer to its end.                    *)
LEMMA ProcessGetsOn ==
  ASSUME Inv, Process, command.name = "info"
  PROVE  Nearer(Distance', Distance)
<1>0. WalkInv /\ CliTypes /\ ControlInv /\ InfoInv
  BY DEF Inv
<1>1. /\ Len(TABLE) = 3 /\ Len(pids) \in Nat /\ Len(pids) <= 3
      /\ pc \in {"finding", "open", "confirm", "read"} => pids # <<>>
  <2>1. Len(TABLE) = 3
    BY TableIs
  <2>2. pids \in Seq(Nat)
    BY <1>0 DEF CliTypes
  <2>3. Len(pids) <= Len(TABLE)
    BY <1>0 DEF InfoInv
  <2>4. pc \in {"finding", "open", "confirm", "read"} => pids # <<>>
    BY <1>0 DEF ControlInv
  <2> QED BY <2>1, <2>2, <2>3, <2>4
<1>2. CASE Main
  <2>1. pc = "main" /\ pc' \in {"listing", "exited"}
    BY <1>2 DEF Main, Exit
  <2>2. Distance'[1] < Distance[1]
    BY <1>1, <2>1, ThreeParts, ThreePartsNext
  <2> QED BY <2>2, NearerBy
<1>3. CASE Walking
  <2>1. Walk /\ UNCHANGED <<pc, pids>>
    BY <1>3 DEF Walking, cliVars
  <2>2. Distance'[1] = Distance[1] /\ Distance'[2] = Distance[2]
    BY <2>1, ThreeParts, ThreePartsNext
  <2> QED BY <1>0, <2>1, <2>2, WalkGetsOn, NearerBy
<1>4. CASE Listed
  <2>1. pc = "listing" /\ (pc' = "exited" \/ (pc' = "device" /\ pids' = Supported(found)))
    BY <1>4 DEF Listed, Exit
  <2>2. Len(Supported(found)) \in Nat /\ Len(Supported(found)) <= 3
    <3>1. found \in Seq(HidrawNode)
      BY <1>0 DEF WalkInv, WalkTypes
    <3>2. Supported(found) \in Seq(Nat) /\ Len(Supported(found)) <= Len(TABLE)
      BY <3>1, SupportedIds
    <3> QED BY <1>1, <3>2
  <2>3. Distance'[1] < Distance[1]
    BY <1>1, <2>1, <2>2, ThreeParts, ThreePartsNext
  <2> QED BY <2>3, NearerBy
<1>5. CASE NextDevice
  <2>1. pc = "device" /\ pc' = "finding" /\ pids' = pids
    BY <1>5 DEF NextDevice, cliVars
  <2>2. Distance'[1] = Distance[1] /\ Distance'[2] < Distance[2]
    BY <2>1, ThreeParts, ThreePartsNext
  <2> QED BY <2>2, NearerBy
<1>6. CASE InfoEnd
  <2>1. pc = "device" /\ pc' = "exited"
    BY <1>6 DEF InfoEnd, Exit
  <2>2. Distance'[1] < Distance[1]
    BY <1>1, <2>1, ThreeParts, ThreePartsNext
  <2> QED BY <2>2, NearerBy
<1>7. CASE Found \/ Open \/ Confirm
  <2>1. \/ pc = "finding" /\ pc' = "open" /\ pids' = pids
        \/ pc = "open" /\ pc' = "confirm" /\ pids' = pids
        \/ pc = "confirm" /\ pc' = "read" /\ pids' = pids
        \/ pc \in {"finding", "open", "confirm"} /\ pc' = "device" /\ pids' = Tail(pids)
    BY <1>7 DEF Found, Open, Confirm, GiveUp
  <2>2. CASE pids' = pids /\ pc' # "device"
    <3>1. Distance'[1] = Distance[1] /\ Distance'[2] < Distance[2]
      BY <2>1, <2>2, ThreeParts, ThreePartsNext
    <3> QED BY <3>1, NearerBy
  <2>3. CASE pc' = "device"
    <3>1. Distance'[1] < Distance[1]
      BY <1>0, <1>1, <2>1, <2>3, NextGetsOn
    <3> QED BY <3>1, NearerBy
  <2> QED BY <2>1, <2>2, <2>3
<1>8. CASE Read
  <2>1. pc = "read" /\ UNCHANGED <<pc, pids, wpc>> /\ \E x \in classify : report' = Append(report, x)
    BY <1>8 DEF Read, enumVars, walkVars
  <2>2. wpc = "idle"
    BY <1>0, <2>1 DEF ControlInv
  <2>3. Len(report) \in Nat /\ Len(report') = Len(report) + 1
    <3>1. report \in Seq({"Value", "ReceiverIdle", "Failed"})
      BY <1>0 DEF CliTypes
    <3>2. classify \subseteq {"Value", "ReceiverIdle", "Failed"}
      BY DEF classify
    <3> QED BY <2>1, <3>1, <3>2
  <2>4. Distance'[1] = Distance[1] /\ Distance'[2] = Distance[2]
    BY <2>1, ThreeParts, ThreePartsNext
  <2>5. Distance'[3] < Distance[3]
    <3>1. Len(Reports) = 3
      BY DEF Reports
    <3> QED BY <2>1, <2>2, <2>3, <3>1, ThreeParts, ThreePartsNext
  <2> QED BY <2>4, <2>5, NearerBy
<1>9. CASE ReportDevice
  <2>1. pc = "read" /\ pc' = "device" /\ pids' = Tail(pids)
    BY <1>9 DEF ReportDevice
  <2>2. Distance'[1] < Distance[1]
    BY <1>0, <1>1, <2>1, NextGetsOn
  <2> QED BY <2>2, NearerBy
<1>10. ~ListEnd /\ ~Before /\ ~Write /\ ~Watch /\ ~WatchEnd
  BY <1>0 DEF ListEnd, Before, Write, Watch, WatchEnd, ControlInv
<1> QED BY <1>2, <1>3, <1>4, <1>5, <1>6, <1>7, <1>8, <1>9, <1>10 DEF Process

(* No loop of info starts over: every step it takes brings it nearer to its *)
(* end, in an order in which nothing descends for ever.                     *)
THEOREM InfoDescends == Spec => InfoGetsOn
<1>1. Inv /\ [Next]_vars =>
        [command.name = "info" /\ <<pc, wpc, names, report>>' # <<pc, wpc, names, report>>
           => Nearer(Distance', Distance)]_vars
  <2> SUFFICES ASSUME Inv, Next, command.name = "info",
                      <<pc, wpc, names, report>>' # <<pc, wpc, names, report>>
               PROVE  Nearer(Distance', Distance)
    OBVIOUS
  <2>1. ~Environment /\ ~Exited
    BY DEF Environment, Exited, Hotplug, Plug, Unplug, Probe, walkVars, cliVars, vars, enumVars
  <2> QED BY <2>1, ProcessGetsOn DEF Next
<1> QED BY <1>1, Invariance, PTL DEF Spec, InfoGetsOn
=============================================================================
