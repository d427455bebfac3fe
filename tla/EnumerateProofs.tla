-------------------------- MODULE EnumerateProofs --------------------------
(***************************************************************************)
(* Proofs about Enumerate: what sort_by_index returns, and an inductive    *)
(* invariant of the walk that Hotplug, Walk, ReadDir and the taking of a   *)
(* result keep, for any ports, minors and devices.                         *)
(***************************************************************************)
EXTENDS Enumerate, FiniteSetTheorems, FunctionTheorems, SequenceTheorems, TLAPS

Ascending(s) == \A i, j \in 1..Len(s) : i < j => s[i] < s[j]

-----------------------------------------------------------------------------
(* Sorting. *)

(* How many elements of S are no larger than k.                             *)
Rank(S, k) == Cardinality({j \in S : j <= k})

(* Ranks are places, and grow with the element.                             *)
LEMMA RankGrows ==
  ASSUME NEW S \in SUBSET Nat, IsFiniteSet(S)
  PROVE  /\ \A k \in S : Rank(S, k) \in 1..Cardinality(S)
         /\ \A j, k \in S : j < k => Rank(S, j) < Rank(S, k)
<1> DEFINE upto(k) == {j \in S : j <= k}
<1>0. Cardinality(S) \in Nat
  BY FS_CardinalityType
<1>1. \A k \in S : /\ IsFiniteSet(upto(k)) /\ Cardinality(upto(k)) \in Nat
                   /\ Cardinality(upto(k)) <= Cardinality(S)
  BY FS_Subset, FS_CardinalityType
<1>2. ASSUME NEW k \in S PROVE Cardinality(upto(k)) # 0
  <2>1. k \in upto(k)
    OBVIOUS
  <2> QED BY <1>1, <2>1, FS_EmptySet
<1>3. ASSUME NEW j \in S, NEW k \in S, j < k PROVE Cardinality(upto(j)) < Cardinality(upto(k))
  <2>0. \A x \in S : x \in Nat
    OBVIOUS
  <2>1. upto(j) \subseteq upto(k)
    <3>1. \A x \in S : x <= j => x <= k
      BY <1>3, <2>0
    <3> QED BY <3>1
  <2>2. k \in upto(k) /\ k \notin upto(j)
    BY <1>3, <2>0
  <2> HIDE DEF upto
  <2>3. /\ Cardinality(upto(j)) <= Cardinality(upto(k))
        /\ Cardinality(upto(k)) = Cardinality(upto(j)) => upto(k) = upto(j)
    BY <1>1, <2>1, FS_Subset
  <2> QED BY <1>1, <2>2, <2>3
<1> HIDE DEF upto
<1>4. \A k : Rank(S, k) = Cardinality(upto(k))
  BY DEF Rank, upto
<1> QED BY <1>0, <1>1, <1>2, <1>3, <1>4

(* Elements of the same rank are the same.                                  *)
LEMMA RankInjective ==
  ASSUME NEW S \in SUBSET Nat, IsFiniteSet(S), NEW j \in S, NEW k \in S,
         Rank(S, j) = Rank(S, k)
  PROVE  j = k
<1>1. /\ Rank(S, j) \in Int /\ Rank(S, k) \in Int
      /\ j < k => Rank(S, j) < Rank(S, k)
      /\ k < j => Rank(S, k) < Rank(S, j)
  BY RankGrows
<1> QED BY <1>1

(* A finite set of naturals can be listed in ascending order.               *)
LEMMA SortExists ==
  ASSUME NEW S \in SUBSET Nat, IsFiniteSet(S)
  PROVE  \E s \in [1..Cardinality(S) -> S] :
            \A i, j \in 1..Cardinality(S) : i < j => s[i] < s[j]
<1> DEFINE n == Cardinality(S)
           R == [k \in S |-> Rank(S, k)]
           s == [i \in 1..n |-> CHOOSE k \in S : R[k] = i]
<1>0. n \in Nat /\ IsFiniteSet(1..n) /\ Cardinality(1..n) = n
  <2>1. n \in Nat
    BY FS_CardinalityType
  <2> QED BY <2>1, FS_Interval
<1>1. R \in [S -> 1..n]
  BY RankGrows
<1>2. R \in Injection(S, 1..n)
  <2>1. \A j, k \in S : R[j] = R[k] => j = k
    BY RankInjective
  <2> HIDE DEF R, n
  <2> QED BY <1>1, <2>1, Fun_IsInj
<1>3. R \in Surjection(S, 1..n)
  BY <1>0, <1>2, FS_Injection
<1>4. \A i \in 1..n : \E k \in S : R[k] = i
  BY <1>3 DEF Surjection
<1>5. \A i \in 1..n : s[i] \in S /\ R[s[i]] = i
  <2> HIDE DEF R, n
  <2> QED BY <1>4
<1>6. s \in [1..n -> S]
  <2> HIDE DEF R, n
  <2> QED BY <1>5
<1>7. ASSUME NEW i \in 1..n, NEW j \in 1..n, i < j PROVE s[i] < s[j]
  <2>1. /\ s[i] \in Nat /\ s[j] \in Nat /\ s[i] \in S /\ s[j] \in S
        /\ Rank(S, s[i]) = i /\ Rank(S, s[j]) = j
    BY <1>5
  <2> HIDE DEF s, n
  <2>2. s[j] < s[i] => Rank(S, s[j]) < Rank(S, s[i])
    BY <2>1, RankGrows
  <2>3. s[i] # s[j]
    BY <1>0, <1>7, <2>1
  <2> QED BY <1>0, <1>7, <2>1, <2>2, <2>3
<1> QED BY <1>6, <1>7

(* An ascending listing of S has the element of rank i in place i.          *)
LEMMA PlaceIsRank ==
  ASSUME NEW S \in SUBSET Nat, IsFiniteSet(S), NEW n \in Nat, NEW s \in [1..n -> S],
         \A i, j \in 1..n : i < j => s[i] < s[j],
         \A k \in S : \E i \in 1..n : s[i] = k,
         NEW i \in 1..n
  PROVE  Rank(S, s[i]) = i
<1> DEFINE T == {j \in S : j <= s[i]}
           f == [j \in 1..i |-> s[j]]
<1>1. f \in [1..i -> T]
  <2>1. ASSUME NEW j \in 1..i PROVE s[j] \in S /\ s[j] <= s[i]
    <3>1. j \in 1..n /\ (j = i \/ j < i)
      OBVIOUS
    <3>2. s[j] \in S /\ s[i] \in S
      BY <3>1
    <3>3. s[j] \in Nat /\ s[i] \in Nat
      BY <3>2
    <3> QED BY <3>1, <3>2, <3>3
  <2> QED BY <2>1
<1>2. \A a, b \in 1..i : f[a] = f[b] => a = b
  <2> SUFFICES ASSUME NEW a \in 1..i, NEW b \in 1..i, s[a] = s[b] PROVE a = b
    OBVIOUS
  <2>1. a \in 1..n /\ b \in 1..n
    OBVIOUS
  <2>2. s[a] \in S
    BY <2>1
  <2>3. s[a] \in Nat
    BY <2>2
  <2> QED BY <2>1, <2>3
<1>3. \A k \in T : \E j \in 1..i : f[j] = k
  <2> SUFFICES ASSUME NEW k \in T PROVE \E j \in 1..i : s[j] = k
    OBVIOUS
  <2>1. PICK j \in 1..n : s[j] = k
    OBVIOUS
  <2>2. ~(i < j)
    <3> SUFFICES ASSUME i < j PROVE FALSE
      OBVIOUS
    <3>1. s[i] < s[j] /\ s[j] <= s[i] /\ s[i] \in Nat /\ s[j] \in Nat
      BY <2>1
    <3> QED BY <3>1
  <2> QED BY <2>1, <2>2
<1>4. f \in Bijection(1..i, T)
  <2> HIDE DEF f, T
  <2> QED BY <1>1, <1>2, <1>3, Fun_IsBij
<1>5. IsFiniteSet(1..i) /\ Cardinality(1..i) = i
  BY FS_Interval
<1>6. Cardinality(T) = i
  <2> HIDE DEF f, T
  <2> QED BY <1>4, <1>5, FS_Bijection DEF ExistsBijection
<1> QED BY <1>6 DEF Rank

(* sort_by_index lists the set, ascending, each element once.               *)
LEMMA Sorted ==
  ASSUME NEW S \in SUBSET Nat, IsFiniteSet(S)
  PROVE  /\ Cardinality(S) \in Nat
         /\ sort_by_index(S) \in [1..Cardinality(S) -> S]
         /\ sort_by_index(S) \in Seq(S) /\ Len(sort_by_index(S)) = Cardinality(S)
         /\ Ascending(sort_by_index(S))
         /\ \A k \in S : \E i \in 1..Cardinality(S) : sort_by_index(S)[i] = k
<1> DEFINE n == Cardinality(S)
           s == sort_by_index(S)
<1>0. n \in Nat /\ IsFiniteSet(1..n) /\ Cardinality(1..n) = n
  <2>1. n \in Nat
    BY FS_CardinalityType
  <2> QED BY <2>1, FS_Interval
<1>1. s \in [1..n -> S] /\ \A i, j \in 1..n : i < j => s[i] < s[j]
  BY SortExists DEF sort_by_index
<1> HIDE DEF s, n
<1>2. \A i \in 1..n : s[i] \in Nat
  BY <1>1
<1>3. \A i, j \in 1..n : s[i] = s[j] => i = j
  BY <1>0, <1>1, <1>2
<1>4. s \in Injection(1..n, S)
  BY <1>1, <1>3, Fun_IsInj
<1>5. s \in Surjection(1..n, S)
  BY <1>0, <1>4, FS_Injection DEF n
<1>6. \A k \in S : \E i \in 1..n : s[i] = k
  BY <1>5 DEF Surjection
<1>7. s \in Seq(S) /\ Len(s) = n
  BY <1>0, <1>1
<1> QED BY <1>0, <1>1, <1>6, <1>7 DEF s, n, Ascending

(* Its first element is the least.                                          *)
LEMMA LeastExists ==
  ASSUME NEW S \in SUBSET Nat, IsFiniteSet(S), S # {}
  PROVE  \E k \in S : \A j \in S : k <= j
<1> DEFINE n == Cardinality(S)
           s == sort_by_index(S)
<1>1. n \in Nat /\ n # 0
  BY FS_CardinalityType, FS_EmptySet
<1>2. /\ s \in [1..n -> S] /\ Len(s) = n /\ Ascending(s)
      /\ \A k \in S : \E i \in 1..n : s[i] = k
  BY Sorted
<1> HIDE DEF s, n
<1>3. s[1] \in S
  BY <1>1, <1>2
<1>4. ASSUME NEW j \in S PROVE s[1] <= j
  <2>1. PICK i \in 1..n : s[i] = j
    BY <1>2
  <2>2. i = 1 \/ s[1] < s[i]
    BY <1>1, <1>2, <2>1 DEF Ascending
  <2>3. s[1] \in Nat /\ j \in Nat
    BY <1>3
  <2> QED BY <2>1, <2>2, <2>3
<1> QED BY <1>3, <1>4

(* It is the only such listing.                                             *)
LEMMA SortUnique ==
  ASSUME NEW S \in SUBSET Nat, IsFiniteSet(S), NEW t \in Seq(S), Ascending(t),
         \A k \in S : \E i \in 1..Len(t) : t[i] = k
  PROVE  t = sort_by_index(S)
<1> DEFINE n == Cardinality(S)
           s == sort_by_index(S)
           m == Len(t)
<1>0. m \in Nat /\ t \in [1..m -> S] /\ \A i, j \in 1..m : i < j => t[i] < t[j]
  BY DEF Ascending
<1>1. n \in Nat /\ s \in [1..n -> S] /\ (\A i, j \in 1..n : i < j => s[i] < s[j])
      /\ (\A k \in S : \E i \in 1..n : s[i] = k) /\ s \in Seq(S) /\ Len(s) = n
  BY Sorted DEF Ascending
<1>2. \A k \in S : \E i \in 1..m : t[i] = k
  OBVIOUS
<1> HIDE DEF s, n, m
<1>3. \A i \in 1..m : t[i] \in S /\ Rank(S, t[i]) = i
  BY <1>0, <1>2, PlaceIsRank
<1>4. \A i \in 1..n : s[i] \in S /\ Rank(S, s[i]) = i
  BY <1>1, PlaceIsRank
<1>5. m <= n
  <2> SUFFICES ASSUME n < m PROVE FALSE
    BY <1>0, <1>1
  <2>1. t[m] \in S /\ Rank(S, t[m]) = m
    BY <1>0, <1>1, <1>3
  <2>2. Rank(S, t[m]) \in 1..n
    BY <2>1, RankGrows DEF n
  <2> QED BY <1>0, <1>1, <2>1, <2>2
<1>6. n <= m
  <2> SUFFICES ASSUME m < n PROVE FALSE
    BY <1>0, <1>1
  <2>1. s[n] \in S /\ Rank(S, s[n]) = n
    BY <1>0, <1>1, <1>4
  <2>2. PICK i \in 1..m : t[i] = s[n]
    BY <1>2, <2>1
  <2> QED BY <1>0, <1>1, <1>3, <2>1, <2>2
<1>7. m = n
  BY <1>0, <1>1, <1>5, <1>6
<1>8. ASSUME NEW i \in 1..n PROVE t[i] = s[i]
  <2>1. t[i] \in S /\ s[i] \in S /\ Rank(S, t[i]) = Rank(S, s[i])
    BY <1>3, <1>4, <1>7
  <2>2. \A j, k \in S : Rank(S, j) = Rank(S, k) => j = k
    BY RankInjective
  <2> QED BY <2>1, <2>2
<1> QED BY <1>0, <1>1, <1>7, <1>8 DEF s, n, m

-----------------------------------------------------------------------------
(* The invariant of the walk. *)

Underway == {"resolve", "idVendor", "idProduct"}
Reading == {"idVendor", "idProduct"}

(* The kernel: a node's interface is one of a device that is plugged in.    *)
KernelInv ==
  /\ bus \in [Ports -> Devices \cup {NoDevice}]
  /\ nodes \in [Minors -> Interface \cup {NoInterface}]
  /\ disconnects \in 0..MaxDisconnects
  /\ \A m \in hidraw_names : nodes[m] \in Interfaces(bus)

WalkTypes ==
  /\ wpc \in {"idle", "resolve", "idVendor", "idProduct", "done"}
  /\ want \in [all: BOOLEAN, pid: Nat, interface: Nat]
  /\ names \in Seq(Minors) /\ path \in Interface \cup {NoInterface} /\ vendor \in Nat
  /\ found \in Seq(HidrawNode)
  /\ outcome \in {"none", "Ok", "Io", "Sysfs", "DeviceNotFound"}
  /\ steady \in BOOLEAN /\ fresh \in BOOLEAN

(* The node a find_device returned, while it can be trusted.                *)
Picked ==
  /\ Len(found) = 1
  /\ fresh => /\ nodes[found[1].minor] # NoInterface
              /\ nodes[found[1].minor].number = want.interface

(* What the walk knows however the bus changes: until something is          *)
(* unplugged the name in hand still is the interface it resolved to, and a  *)
(* find_device that has found a node has found one.                         *)
WalkInv ==
  /\ WalkTypes
  /\ Ascending(names)
  /\ wpc \in Reading => /\ names # <<>> /\ path \in Interface
                        /\ fresh => nodes[Head(names)] = path
  /\ wpc \in Underway => outcome = "none"
  /\ ~want.all => /\ wpc \in Underway => found = <<>>
                  /\ (wpc = "done" /\ outcome = "Ok") => found # <<>>
                  /\ found # <<>> => Picked

(* What it knows when the bus has held still since read_dir: what is meant  *)
(* is found or still to come, in ascending order.                           *)
Elements(s) == {s[k] : k \in 1..Len(s)}
Seen == {found[k].minor : k \in 1..Len(found)}
ToCome == Elements(names)
ExactInv ==
  (steady /\ wpc # "idle" /\ outcome # "Io") =>
     /\ ToCome \subseteq hidraw_names
     /\ wpc \in Reading => path = nodes[Head(names)] /\ bus[path.port].usb
     /\ wpc = "idProduct" => vendor = bus[path.port].vendor_id
     /\ Seen \subseteq Meant(want)
     /\ \A m \in Seen, n \in ToCome : m < n
     /\ \A i, j \in 1..Len(found) : i < j => found[i].minor < found[j].minor
     /\ wpc # "done" => Meant(want) \subseteq Seen \cup ToCome
     /\ wpc = "done" =>
          IF want.all THEN outcome = "Ok" /\ Meant(want) \subseteq Seen
          ELSE IF found = <<>> THEN outcome = "DeviceNotFound" /\ Meant(want) = {}
          ELSE outcome = "Ok" /\ \A m \in Meant(want) : found[1].minor <= m

-----------------------------------------------------------------------------
(* The kernel's steps. *)

(* What an element of Interfaces(b) is.                                     *)
LEMMA OnBus ==
  ASSUME NEW b \in [Ports -> Devices \cup {NoDevice}], NEW i
  PROVE  i \in Interfaces(b) <=>
            /\ i \in Interface /\ b[i.port] \in Devices
            /\ i.number \in b[i.port].interfaces
<1>1. \A p \in Ports : b[p] \in Devices \/ b[p].interfaces = {}
  BY DEF NoDevice
<1>2. \A p \in Ports : b[p] \in Devices => b[p].interfaces \subseteq Nat
  <2>1. \A d \in Device : d.interfaces \subseteq Nat
    BY DEF Device
  <2>2. \A d \in Devices : d \in Device
    BY EnumerateAssumption
  <2> QED BY <2>1, <2>2
<1>3. ASSUME i \in Interfaces(b)
      PROVE  i \in Interface /\ b[i.port] \in Devices /\ i.number \in b[i.port].interfaces
  <2>1. PICK p \in Ports : i \in {[port |-> p, number |-> n] : n \in b[p].interfaces}
    BY <1>3 DEF Interfaces
  <2>2. PICK n \in b[p].interfaces : i = [port |-> p, number |-> n]
    BY <2>1
  <2>3. b[p] \in Devices /\ n \in Nat
    BY <1>1, <1>2, <2>2
  <2> QED BY <2>2, <2>3 DEF Interface
<1>4. ASSUME i \in Interface, i.number \in b[i.port].interfaces
      PROVE  i \in Interfaces(b)
  <2>1. i.port \in Ports /\ i = [port |-> i.port, number |-> i.number]
    BY <1>4 DEF Interface
  <2>2. i \in {[port |-> i.port, number |-> n] : n \in b[i.port].interfaces}
    BY <1>4, <2>1
  <2> QED BY <2>1, <2>2 DEF Interfaces
<1> QED BY <1>3, <1>4

(* The mark of a free minor is not an interface.                            *)
LEMMA NoInterfaceIsNone == NoInterface \notin Interface
BY DEF NoInterface, Interface

(* Every node stays one of a device that is plugged in.                     *)
LEMMA HotplugKeepsKernel ==
  ASSUME KernelInv, Hotplug
  PROVE  KernelInv'
<1>1. /\ bus \in [Ports -> Devices \cup {NoDevice}]
      /\ nodes \in [Minors -> Interface \cup {NoInterface}]
      /\ disconnects \in 0..MaxDisconnects
      /\ \A m \in Minors : nodes[m] # NoInterface => nodes[m] \in Interfaces(bus)
  BY DEF KernelInv, hidraw_names
<1>2. ASSUME NEW p \in Ports, Plug(p) PROVE KernelInv'
  <2>1. PICK d \in Devices : bus' = [bus EXCEPT ![p] = d]
    BY <1>2 DEF Plug
  <2>2. bus[p] = NoDevice /\ nodes' = nodes /\ disconnects' = disconnects
    BY <1>2 DEF Plug
  <2>3. bus' \in [Ports -> Devices \cup {NoDevice}]
    BY <1>1, <2>1
  <2>4. \A i \in Interfaces(bus) : i \in Interfaces(bus')
    <3> SUFFICES ASSUME NEW i \in Interfaces(bus) PROVE i \in Interfaces(bus')
      OBVIOUS
    <3>1. i \in Interface /\ i.number \in bus[i.port].interfaces /\ bus[i.port] \in Devices
      BY <1>1, OnBus
    <3>2. i.port # p /\ i.port \in Ports
      BY <2>2, <3>1 DEF NoDevice, Interface
    <3>3. bus'[i.port] = bus[i.port]
      BY <1>1, <2>1, <3>2
    <3> QED BY <2>3, <3>1, <3>3, OnBus
  <2> QED BY <1>1, <2>2, <2>3, <2>4 DEF KernelInv, hidraw_names
<1>3. ASSUME NEW p \in Ports, Unplug(p) PROVE KernelInv'
  <2>1. /\ bus' = [bus EXCEPT ![p] = NoDevice]
        /\ nodes' = [m \in Minors |-> IF On(p, nodes[m]) THEN NoInterface ELSE nodes[m]]
        /\ disconnects < MaxDisconnects /\ disconnects' = disconnects + 1
    BY <1>3 DEF Unplug
  <2>2. bus' \in [Ports -> Devices \cup {NoDevice}]
    BY <1>1, <2>1
  <2>3. nodes' \in [Minors -> Interface \cup {NoInterface}]
    BY <1>1, <2>1
  <2>4. disconnects' \in 0..MaxDisconnects
    BY <1>1, <2>1, EnumerateAssumption
  <2>5. ASSUME NEW m \in Minors, nodes'[m] # NoInterface PROVE nodes'[m] \in Interfaces(bus')
    <3>1. nodes'[m] = nodes[m] /\ nodes[m] # NoInterface /\ nodes[m].port # p
      BY <2>1, <2>5 DEF On
    <3>2. nodes[m] \in Interface /\ bus[nodes[m].port] \in Devices
          /\ nodes[m].number \in bus[nodes[m].port].interfaces
      BY <1>1, <3>1, OnBus
    <3>3. bus'[nodes[m].port] = bus[nodes[m].port]
      BY <1>1, <2>1, <3>1, <3>2 DEF Interface
    <3> QED BY <2>2, <3>1, <3>2, <3>3, OnBus
  <2> QED BY <2>2, <2>3, <2>4, <2>5 DEF KernelInv, hidraw_names
<1>4. ASSUME NEW i \in Interfaces(bus), NEW m \in Minors, Probe(i, m) PROVE KernelInv'
  <2>1. bus' = bus /\ nodes' = [nodes EXCEPT ![m] = i] /\ disconnects' = disconnects
    BY <1>4 DEF Probe
  <2>2. i \in Interface
    BY <1>1, OnBus
  <2> QED BY <1>1, <2>1, <2>2 DEF KernelInv, hidraw_names
<1> QED BY <1>2, <1>3, <1>4 DEF Hotplug

(* Plugging and probing take no node away, so the name in hand and the node *)
(* picked stay good until something is unplugged.                           *)
LEMMA HotplugKeepsWalk ==
  ASSUME KernelInv, WalkInv, Hotplug
  PROVE  WalkInv' /\ ExactInv'
<1>1. UNCHANGED walkVars /\ steady' = FALSE
  BY DEF Hotplug, Plug, Unplug, Probe
<1>2. \/ fresh' = FALSE
      \/ fresh' = fresh /\ \A m \in Minors : nodes[m] # NoInterface => nodes'[m] = nodes[m]
  <2>1. ASSUME NEW p \in Ports, Plug(p) PROVE nodes' = nodes /\ fresh' = fresh
    BY <2>1 DEF Plug
  <2>2. ASSUME NEW p \in Ports, Unplug(p) PROVE fresh' = FALSE
    BY <2>2 DEF Unplug
  <2>3. ASSUME NEW i \in Interfaces(bus), NEW m \in Minors, Probe(i, m)
        PROVE  /\ fresh' = fresh
               /\ \A k \in Minors : nodes[k] # NoInterface => nodes'[k] = nodes[k]
    BY <2>3 DEF Probe, KernelInv
  <2> QED BY <2>1, <2>2, <2>3 DEF Hotplug
<1>3. ExactInv'
  BY <1>1 DEF ExactInv
<1>4. WalkTypes'
  BY <1>1, <1>2 DEF WalkInv, WalkTypes, walkVars
<1>5. ASSUME wpc \in Reading
      PROVE  names # <<>> /\ path \in Interface /\ (fresh' => nodes'[Head(names)] = path)
  <2>1. names # <<>> /\ path \in Interface /\ (fresh => nodes[Head(names)] = path)
    BY <1>5 DEF WalkInv
  <2>2. names \in Seq(Minors)
    BY DEF WalkInv, WalkTypes
  <2>3. Head(names) \in Minors
    BY <2>1, <2>2
  <2> QED BY <1>2, <2>1, <2>3, NoInterfaceIsNone
<1>6. ASSUME Picked PROVE Picked'
  <2>1. found \in Seq(HidrawNode) /\ Len(found) = 1
    BY <1>6 DEF Picked, WalkInv, WalkTypes
  <2>2. found[1] \in HidrawNode
    BY <2>1, ElementOfSeq
  <2>3. found[1].minor \in Minors
    BY <2>2 DEF HidrawNode
  <2> QED BY <1>1, <1>2, <1>6, <2>3 DEF Picked, walkVars
<1>7. UNCHANGED <<wpc, want, names, path, found, outcome>>
  BY <1>1 DEF walkVars
<1> QED BY <1>3, <1>4, <1>5, <1>6, <1>7 DEF WalkInv, Ascending

-----------------------------------------------------------------------------
(* The walk's steps. *)

(* What is left of an ascending sequence without its head.                  *)
LEMMA TailAscends ==
  ASSUME NEW S \in SUBSET Nat, NEW s \in Seq(S), s # <<>>, Ascending(s)
  PROVE  /\ Tail(s) \in Seq(S) /\ Ascending(Tail(s))
         /\ Head(s) \in S /\ Head(s) \in Elements(s)
         /\ Elements(s) = {Head(s)} \cup Elements(Tail(s))
         /\ \A n \in Elements(Tail(s)) : Head(s) < n
<1>1. /\ Head(s) \in S /\ Head(s) = s[1] /\ Len(s) \in Nat /\ Len(s) >= 1
      /\ Tail(s) \in Seq(S) /\ Len(Tail(s)) = Len(s) - 1
      /\ \A i \in 1..(Len(s) - 1) : Tail(s)[i] = s[i + 1]
  BY HeadTailProperties, EmptySeq
<1>2. \A i, j \in 1..Len(s) : i < j => s[i] < s[j]
  BY DEF Ascending
<1>3. Ascending(Tail(s))
  <2> SUFFICES ASSUME NEW i \in 1..(Len(s) - 1), NEW j \in 1..(Len(s) - 1), i < j
               PROVE  Tail(s)[i] < Tail(s)[j]
    BY <1>1 DEF Ascending
  <2>1. i + 1 \in 1..Len(s) /\ j + 1 \in 1..Len(s) /\ i + 1 < j + 1
    BY <1>1
  <2> QED BY <1>1, <1>2, <2>1
<1>4. ASSUME NEW i \in 1..Len(s) PROVE s[i] = Head(s) \/ s[i] \in Elements(Tail(s))
  <2>1. CASE i = 1
    BY <1>1, <2>1
  <2>2. CASE i # 1
    <3>1. i - 1 \in 1..(Len(s) - 1) /\ Tail(s)[i - 1] = s[(i - 1) + 1] /\ (i - 1) + 1 = i
      BY <1>1, <2>2
    <3> QED BY <1>1, <3>1 DEF Elements
  <2> QED BY <2>1, <2>2
<1>5. ASSUME NEW n \in Elements(Tail(s)) PROVE n \in Elements(s) /\ Head(s) < n
  <2>1. PICK i \in 1..(Len(s) - 1) : n = Tail(s)[i]
    BY <1>1 DEF Elements
  <2>2. i + 1 \in 1..Len(s) /\ 1 \in 1..Len(s) /\ 1 < i + 1 /\ n = s[i + 1]
    BY <1>1, <2>1
  <2> QED BY <1>1, <1>2, <2>2 DEF Elements
<1>6. Head(s) \in Elements(s)
  BY <1>1 DEF Elements
<1>7. Elements(s) = {Head(s)} \cup Elements(Tail(s))
  <2>1. \A x \in Elements(s) : x = Head(s) \/ x \in Elements(Tail(s))
    BY <1>4 DEF Elements
  <2> QED BY <1>5, <1>6, <2>1
<1> QED BY <1>1, <1>3, <1>5, <1>6, <1>7

(* An empty list of names is in order and holds nothing.                    *)
LEMMA EmptyAscends == Ascending(<<>>) /\ Elements(<<>>) = {}
BY DEF Ascending, Elements

(* A u16 is a number, and survives the kernel's __s16.                      *)
LEMMA U16RoundTrip == \A n \in U16 : n \in Nat /\ as_u16(s16(n)) = n
<1> DEFINE top == 65535
<1>1. \A n \in Int : (0 <= n /\ n <= top) => as_u16(s16(n)) = n
  BY SMT DEF as_u16, s16
<1>2. U16 = 0..top
  BY DEF U16
<1>3. top \in Int
  BY SMT
<1> HIDE DEF top
<1> QED BY <1>1, <1>2, <1>3

(* The walk reads attribute files as numbers.                               *)
LEMMA IdTypes ==
  ASSUME KernelInv, NEW p \in Ports
  PROVE  bus[p].vendor_id \in Nat /\ bus[p].product_id \in Nat /\ bus[p].usb \in BOOLEAN
<1>1. \A n \in U16 : n \in Nat
  BY U16RoundTrip
<1>2. \A d \in Devices : d \in Device
  BY EnumerateAssumption
<1>3. \A d \in Device : d.vendor_id \in U16 /\ d.product_id \in U16 /\ d.usb \in BOOLEAN
  BY DEF Device
<1>4. bus[p] \in Devices \/ bus[p] = NoDevice
  BY DEF KernelInv
<1>5. CASE bus[p] \in Devices
  BY <1>1, <1>2, <1>3, <1>5
<1>6. CASE bus[p] = NoDevice
  BY <1>6 DEF NoDevice
<1> QED BY <1>4, <1>5, <1>6

(* Every file-system access keeps the types of the walk.                    *)
LEMMA WalkKeepsTypes ==
  ASSUME KernelInv, WalkInv, Walk
  PROVE  WalkTypes' /\ Ascending(names')
<1>0. /\ WalkTypes /\ Ascending(names)
      /\ wpc \in Reading => names # <<>> /\ path \in Interface
  BY DEF WalkInv
<1>1. ASSUME names # <<>>
      PROVE  Tail(names) \in Seq(Minors) /\ Ascending(Tail(names)) /\ Head(names) \in Minors
  BY <1>0, <1>1, TailAscends, EnumerateAssumption DEF WalkTypes
<1>2. CASE Resolve
  <2>1. names # <<>>
    BY <1>2 DEF Resolve
  <2>2. nodes[Head(names)] # NoInterface => nodes[Head(names)] \in Interface
    BY <1>1, <2>1 DEF KernelInv
  <2> QED BY <1>0, <1>1, <1>2, <2>1, <2>2 DEF Resolve, WalkTypes
<1>3. ASSUME Finish(outcome'), outcome' \in {"Ok", "Sysfs", "DeviceNotFound"},
             found' \in Seq(HidrawNode), UNCHANGED <<want, steady, fresh>>
      PROVE  WalkTypes' /\ Ascending(names')
  BY <1>0, <1>3, EmptyAscends DEF Finish, WalkTypes
<1>4. CASE ReadGone
  BY <1>0, <1>3, <1>4 DEF ReadGone, Finish, WalkTypes
<1>5. CASE ReadVendor
  <2>1. path.port \in Ports
    BY <1>0, <1>5 DEF ReadVendor, Reading, Interface
  <2> QED BY <1>0, <1>5, <2>1, IdTypes DEF ReadVendor, WalkTypes
<1>6. CASE ReadProduct
  <2> DEFINE info == [vendor_id |-> vendor, product_id |-> bus[path.port].product_id,
                      interface_number |-> path.number]
  <2>1. names # <<>> /\ path.port \in Ports /\ path.number \in Nat
    BY <1>0, <1>6 DEF ReadProduct, Reading, Interface
  <2>2. [minor |-> Head(names), info |-> info] \in HidrawNode
    BY <1>0, <1>1, <2>1, IdTypes DEF HidrawNode, UsbInterfaceInfo, WalkTypes
  <2>3. found' \in {found, Append(found, [minor |-> Head(names), info |-> info])}
    BY <1>6 DEF ReadProduct
  <2>4. found' \in Seq(HidrawNode)
    <3> DEFINE node == [minor |-> Head(names), info |-> info]
    <3>1. found \in Seq(HidrawNode) /\ node \in HidrawNode /\ found' \in {found, Append(found, node)}
      BY <1>0, <2>2, <2>3 DEF WalkTypes
    <3> HIDE DEF node
    <3> QED BY <3>1
  <2>5. \/ Finish("Ok")
        \/ /\ wpc' = "resolve" /\ names' = Tail(names)
           /\ path' = NoInterface /\ vendor' = 0 /\ UNCHANGED outcome
    BY <1>6 DEF ReadProduct
  <2>6. UNCHANGED <<want, steady, fresh>>
    BY <1>6 DEF ReadProduct
  <2>7. CASE Finish("Ok")
    BY <1>3, <2>4, <2>6, <2>7 DEF Finish
  <2>8. CASE /\ wpc' = "resolve" /\ names' = Tail(names)
             /\ path' = NoInterface /\ vendor' = 0 /\ UNCHANGED outcome
    BY <1>0, <1>1, <2>1, <2>4, <2>6, <2>8 DEF WalkTypes
  <2> QED BY <2>5, <2>7, <2>8
<1>7. CASE WalkEnd
  BY <1>0, <1>3, <1>7 DEF WalkEnd, Finish, WalkTypes
<1> QED BY <1>2, <1>4, <1>5, <1>6, <1>7 DEF Walk

(* find_device stops at the first match, and knows it by the interface it   *)
(* resolved.                                                                *)
LEMMA WalkKeepsWalk ==
  ASSUME KernelInv, WalkInv, Walk
  PROVE  WalkInv'
<1>0. WalkTypes' /\ Ascending(names')
  BY WalkKeepsTypes
<1>1. /\ WalkTypes
      /\ wpc \in Reading => (/\ names # <<>> /\ path \in Interface
                             /\ fresh => nodes[Head(names)] = path)
      /\ wpc \in Underway => outcome = "none"
      /\ (~want.all /\ wpc \in Underway) => found = <<>>
  BY DEF WalkInv
<1>2. CASE Resolve
  <2>1. /\ wpc = "resolve" /\ names # <<>> /\ want' = want /\ found' = found
        /\ outcome' = outcome /\ nodes' = nodes
        /\ \/ /\ nodes[Head(names)] # NoInterface /\ wpc' = "idVendor" /\ names' = names
              /\ path' = nodes[Head(names)]
           \/ wpc' = "resolve"
    BY <1>2 DEF Resolve, busVars
  <2>2. Head(names) \in Minors
    BY <1>1, <2>1 DEF WalkTypes
  <2>3. nodes[Head(names)] # NoInterface => nodes[Head(names)] \in Interface
    BY <2>2 DEF KernelInv
  <2> QED BY <1>0, <1>1, <2>1, <2>3 DEF WalkInv, Reading, Underway
<1>3. CASE ReadGone
  <2>1. wpc \in Underway /\ wpc' = "done" /\ outcome' = "Sysfs" /\ UNCHANGED <<want, found>>
    BY <1>3 DEF ReadGone, Finish, Underway
  <2> QED BY <1>0, <1>1, <2>1 DEF WalkInv, Reading, Underway
<1>4. CASE ReadVendor
  <2>1. /\ wpc = "idVendor" /\ wpc' = "idProduct"
        /\ UNCHANGED <<nodes, want, names, path, found, outcome, fresh>>
    BY <1>4 DEF ReadVendor, busVars
  <2> QED BY <1>0, <1>1, <2>1 DEF WalkInv, Reading, Underway
<1>5. CASE ReadProduct
  <2> DEFINE info == [vendor_id |-> vendor, product_id |-> bus[path.port].product_id,
                      interface_number |-> path.number]
             node == [minor |-> Head(names), info |-> info]
  <2>1. wpc = "idProduct" /\ UNCHANGED <<nodes, want, fresh>>
    BY <1>5 DEF ReadProduct, busVars
  <2>2. \/ matches(want, info) /\ ~want.all /\ Finish("Ok") /\ found' = Append(found, node)
        \/ ~matches(want, info) /\ found' = found /\ wpc' = "resolve" /\ UNCHANGED outcome
        \/ want.all /\ wpc' = "resolve" /\ UNCHANGED outcome
    BY <1>5 DEF ReadProduct
  <2>3. CASE matches(want, info) /\ ~want.all /\ Finish("Ok") /\ found' = Append(found, node)
    <3>1. found' = <<node>> /\ wpc' = "done" /\ outcome' = "Ok"
      <4>1. found = <<>> /\ found' = Append(found, node) /\ wpc' = "done" /\ outcome' = "Ok"
        BY <1>1, <2>1, <2>3 DEF Underway, Finish
      <4> HIDE DEF node
      <4> QED BY <4>1
    <3>2. path.number = want.interface
      BY <2>3 DEF matches
    <3>3. path # NoInterface /\ (fresh => nodes[Head(names)] = path)
      BY <1>1, <2>1, NoInterfaceIsNone DEF Reading
    <3>4. found'[1].minor = Head(names) /\ Len(found') = 1 /\ found' # <<>>
      BY <3>1
    <3>5. Picked'
      BY <2>1, <3>2, <3>3, <3>4 DEF Picked
    <3> QED BY <1>0, <3>1, <3>4, <3>5 DEF WalkInv, Reading, Underway
  <2>4. CASE \/ ~matches(want, info) /\ found' = found /\ wpc' = "resolve" /\ UNCHANGED outcome
             \/ want.all /\ wpc' = "resolve" /\ UNCHANGED outcome
    BY <1>0, <1>1, <2>1, <2>4 DEF WalkInv, Reading, Underway
  <2> QED BY <2>2, <2>3, <2>4
<1>6. CASE WalkEnd
  <2>1. /\ wpc = "resolve" /\ wpc' = "done" /\ UNCHANGED <<want, found>>
        /\ ~want.all => outcome' = "DeviceNotFound"
    BY <1>6 DEF WalkEnd, Finish
  <2> QED BY <1>0, <1>1, <2>1 DEF WalkInv, Reading, Underway
<1> QED BY <1>2, <1>3, <1>4, <1>5, <1>6 DEF Walk

(* The name in hand is meant just if the attributes read match.             *)
LEMMA HeadMeant ==
  ASSUME KernelInv, WalkInv, wpc = "idProduct", path = nodes[Head(names)],
         bus[path.port].usb, vendor = bus[path.port].vendor_id,
         Head(names) \in hidraw_names
  PROVE  Head(names) \in Meant(want) <=>
            matches(want, [vendor_id |-> vendor, product_id |-> bus[path.port].product_id,
                           interface_number |-> path.number])
BY DEF Meant, matches

(* On a bus that holds still, the walk loses nothing that is meant and      *)
(* finds it in order.                                                       *)
LEMMA WalkKeepsExact ==
  ASSUME KernelInv, WalkInv, ExactInv, Walk
  PROVE  ExactInv'
<1> SUFFICES ASSUME steady' = TRUE, wpc' # "idle", outcome' # "Io" PROVE ExactInv'
  <2>1. steady' = TRUE \/ steady' = FALSE
    BY WalkKeepsTypes DEF WalkTypes
  <2> QED BY <2>1 DEF ExactInv
<1>0. steady = TRUE /\ wpc \in Underway /\ wpc # "idle" /\ outcome = "none" /\ UNCHANGED <<want, busVars>>
  BY DEF Walk, Resolve, ReadGone, ReadVendor, ReadProduct, WalkEnd, Underway, WalkInv
<1>1. /\ ToCome \subseteq hidraw_names
      /\ wpc \in Reading => path = nodes[Head(names)] /\ bus[path.port].usb
      /\ wpc = "idProduct" => vendor = bus[path.port].vendor_id
      /\ Seen \subseteq Meant(want)
      /\ \A m \in Seen, n \in ToCome : m < n
      /\ \A i, j \in 1..Len(found) : i < j => found[i].minor < found[j].minor
      /\ Meant(want) \subseteq Seen \cup ToCome
  BY <1>0 DEF ExactInv, Underway
<1>2. hidraw_names' = hidraw_names /\ Meant(want)' = Meant(want) /\ bus' = bus /\ nodes' = nodes
  BY <1>0 DEF busVars, hidraw_names, Meant
<1>3. /\ names \in Seq(Minors) /\ Minors \in SUBSET Nat /\ Ascending(names)
      /\ found \in Seq(HidrawNode)
      /\ wpc \in Reading => names # <<>>
      /\ ~want.all => found = <<>>
  BY <1>0, EnumerateAssumption DEF WalkInv, WalkTypes
<1>4. ASSUME names # <<>>
      PROVE  /\ ToCome = {Head(names)} \cup Elements(Tail(names))
             /\ Head(names) \in ToCome /\ Head(names) \in Nat
             /\ \A n \in Elements(Tail(names)) : Head(names) < n
  BY <1>3, <1>4, TailAscends DEF ToCome
<1>5. CASE Resolve
  <2>1. wpc = "resolve" /\ names # <<>> /\ UNCHANGED <<vendor, found, outcome>>
    BY <1>5 DEF Resolve
  <2>2. Seen' = Seen
    BY <2>1 DEF Seen
  <2>3. CASE /\ nodes[Head(names)] # NoInterface /\ bus[nodes[Head(names)].port].usb
             /\ wpc' = "idVendor" /\ path' = nodes[Head(names)] /\ names' = names
    BY <1>0, <1>1, <1>2, <2>1, <2>2, <2>3 DEF ExactInv, ToCome, Reading
  <2>4. CASE /\ ~(nodes[Head(names)] # NoInterface /\ bus[nodes[Head(names)].port].usb)
             /\ names' = Tail(names) /\ wpc' = wpc
    <3>1. Head(names) \notin Meant(want)
      BY <2>4 DEF Meant, hidraw_names
    <3>2. ToCome' = Elements(Tail(names)) /\ ToCome' \subseteq ToCome
          /\ Meant(want) \subseteq Seen \cup ToCome'
      BY <1>1, <1>4, <2>1, <2>4, <3>1 DEF ToCome
    <3> QED BY <1>0, <1>1, <1>2, <2>1, <2>2, <2>4, <3>2 DEF ExactInv, Reading
  <2> QED BY <1>5, <2>3, <2>4 DEF Resolve
<1>6. CASE ReadGone
  <2>1. wpc \in Reading /\ path \notin Interfaces(bus)
    BY <1>6 DEF ReadGone, Reading
  <2>2. Head(names) \in hidraw_names /\ path = nodes[Head(names)]
    BY <1>1, <1>3, <1>4, <2>1
  <2> QED BY <2>1, <2>2 DEF KernelInv
<1>7. CASE ReadVendor
  <2>1. /\ wpc = "idVendor" /\ wpc' = "idProduct" /\ vendor' = bus[path.port].vendor_id
        /\ UNCHANGED <<names, path, found, outcome>>
    BY <1>7 DEF ReadVendor
  <2>2. Seen' = Seen /\ ToCome' = ToCome
    BY <2>1 DEF Seen, ToCome
  <2> QED BY <1>0, <1>1, <1>2, <2>1, <2>2 DEF ExactInv, Reading
<1>8. CASE ReadProduct
  <2> DEFINE info == [vendor_id |-> vendor, product_id |-> bus[path.port].product_id,
                      interface_number |-> path.number]
             node == [minor |-> Head(names), info |-> info]
  <2>1. /\ wpc = "idProduct" /\ wpc \in Reading /\ names # <<>>
        /\ path = nodes[Head(names)] /\ Head(names) \in hidraw_names
    BY <1>1, <1>3, <1>4, <1>8 DEF ReadProduct, Reading
  <2>2. Head(names) \in Meant(want) <=> matches(want, info)
    BY <1>1, <2>1, HeadMeant
  <2>3. node.minor = Head(names)
    OBVIOUS
  <2>4. /\ found' = IF matches(want, info) THEN Append(found, node) ELSE found
        /\ IF matches(want, info) /\ ~want.all THEN Finish("Ok")
           ELSE wpc' = "resolve" /\ names' = Tail(names) /\ UNCHANGED outcome
    BY <1>8 DEF ReadProduct
  <2> HIDE DEF info, node
  <2>5. CASE ~matches(want, info)
    <3>1. found' = found /\ names' = Tail(names) /\ wpc' = "resolve" /\ outcome' = outcome
      BY <2>4, <2>5
    <3>2. Seen' = Seen
      BY <3>1 DEF Seen
    <3>3. ToCome' = Elements(Tail(names)) /\ ToCome' \subseteq ToCome
          /\ Meant(want) \subseteq Seen \cup ToCome'
      BY <1>1, <1>4, <2>1, <2>2, <2>5, <3>1 DEF ToCome
    <3> QED BY <1>0, <1>1, <1>2, <3>1, <3>2, <3>3 DEF ExactInv, Reading
  <2>6. CASE matches(want, info)
    <3>1. found' = Append(found, node)
      BY <2>4, <2>6
    <3>2. /\ Len(found) \in Nat /\ Len(found') = Len(found) + 1 /\ found'[Len(found) + 1] = node
          /\ \A k \in 1..Len(found) : found'[k] = found[k]
      BY <1>3, <3>1
    <3>3. Seen' = Seen \cup {Head(names)}
      <4>1. \A k \in 1..Len(found') : found'[k].minor \in Seen \cup {Head(names)}
        BY <2>3, <3>2 DEF Seen
      <4>2. \A k \in 1..Len(found) : found[k].minor \in Seen'
        BY <3>2 DEF Seen
      <4>3. Head(names) \in Seen'
        BY <2>3, <3>2 DEF Seen
      <4> QED BY <4>1, <4>2, <4>3 DEF Seen
    <3>4. \A i, j \in 1..Len(found') : i < j => found'[i].minor < found'[j].minor
      <4> SUFFICES ASSUME NEW i \in 1..Len(found'), NEW j \in 1..Len(found'), i < j
                   PROVE  found'[i].minor < found'[j].minor
        OBVIOUS
      <4>1. CASE j \in 1..Len(found)
        <5>1. i \in 1..Len(found)
          BY <3>2, <4>1
        <5> QED BY <1>1, <3>2, <4>1, <5>1
      <4>2. CASE j = Len(found) + 1
        <5>1. i \in 1..Len(found)
          BY <3>2, <4>2
        <5>2. found[i].minor \in Seen
          BY <5>1 DEF Seen
        <5>3. found[i].minor < Head(names)
          BY <1>1, <1>4, <2>1, <5>2
        <5> QED BY <2>3, <3>2, <4>2, <5>1, <5>3
      <4> QED BY <3>2, <4>1, <4>2
    <3>5. Seen' \subseteq Meant(want)
      BY <1>1, <2>2, <2>6, <3>3
    <3>6. CASE want.all
      <4>1. wpc' = "resolve" /\ names' = Tail(names) /\ outcome' = outcome
        BY <2>4, <3>6
      <4>2. ToCome' = Elements(Tail(names)) /\ ToCome' \subseteq ToCome
            /\ Meant(want) \subseteq Seen' \cup ToCome'
        BY <1>1, <1>4, <2>1, <3>3, <4>1 DEF ToCome
      <4>3. \A m \in Seen', n \in ToCome' : m < n
        BY <1>1, <1>4, <2>1, <3>3, <4>2
      <4> QED BY <1>0, <1>1, <1>2, <3>4, <3>5, <4>1, <4>2, <4>3 DEF ExactInv, Reading
    <3>7. CASE ~want.all
      <4>1. wpc' = "done" /\ outcome' = "Ok" /\ names' = <<>>
        BY <2>4, <2>6, <3>7 DEF Finish
      <4>2. ToCome' = {}
        BY <4>1, EmptyAscends DEF ToCome
      <4>3. found = <<>> /\ found' # <<>> /\ found'[1].minor = Head(names)
        BY <1>3, <2>3, <3>1, <3>7
      <4>4. Seen = {}
        BY <4>3 DEF Seen
      <4>5. ASSUME NEW m \in Meant(want) PROVE found'[1].minor <= m
        <5>1. m = Head(names) \/ m \in Elements(Tail(names))
          BY <1>1, <1>4, <2>1, <4>4
        <5>2. m \in Nat
          BY EnumerateAssumption DEF Meant, hidraw_names
        <5> QED BY <1>4, <2>1, <4>3, <5>1, <5>2
      <4> QED BY <1>0, <1>2, <3>4, <3>5, <3>7, <4>1, <4>2, <4>3, <4>5 DEF ExactInv, Reading
    <3> QED BY <3>6, <3>7
  <2> QED BY <2>5, <2>6
<1>9. CASE WalkEnd
  <2>1. /\ names = <<>> /\ names' = <<>> /\ wpc' = "done" /\ UNCHANGED <<want, found>>
        /\ outcome' = IF want.all THEN "Ok" ELSE "DeviceNotFound"
    BY <1>9 DEF WalkEnd, Finish
  <2>2. ToCome = {} /\ ToCome' = {} /\ Seen' = Seen
    BY <2>1, EmptyAscends DEF ToCome, Seen
  <2>3. found = <<>> => Seen = {}
    BY DEF Seen
  <2> QED BY <1>0, <1>1, <1>2, <1>3, <2>1, <2>2, <2>3 DEF ExactInv, Reading
<1> QED BY <1>5, <1>6, <1>7, <1>8, <1>9 DEF Walk

(* A walk begins with every name there is.                                  *)
LEMMA ReadDirBegins ==
  ASSUME KernelInv, WalkInv, NEW t \in [all: BOOLEAN, pid: Nat, interface: Nat], ReadDir(t)
  PROVE  WalkInv' /\ ExactInv'
<1>1. hidraw_names \in SUBSET Nat /\ IsFiniteSet(hidraw_names) /\ hidraw_names \subseteq Minors
  <2>1. hidraw_names \in SUBSET Minors
    BY DEF hidraw_names
  <2> QED BY <2>1, EnumerateAssumption, FS_Subset
<1> DEFINE s == sort_by_index(hidraw_names)
<1>2. s \in Seq(hidraw_names) /\ Ascending(s) /\ Elements(s) = hidraw_names
  <2>1. /\ s \in Seq(hidraw_names) /\ Ascending(s) /\ Len(s) = Cardinality(hidraw_names)
        /\ \A k \in hidraw_names : \E i \in 1..Len(s) : s[i] = k
    BY <1>1, Sorted
  <2>2. \A i \in 1..Len(s) : s[i] \in hidraw_names
    BY <2>1, ElementOfSeq
  <2> QED BY <2>1, <2>2 DEF Elements
<1>3. s \in Seq(Minors)
  BY <1>1, <1>2, SeqMonotonic
<1> HIDE DEF s
<1>4. /\ want' = t /\ found' = <<>> /\ UNCHANGED <<busVars, path, vendor, fresh>>
      /\ steady' = TRUE
      /\ \/ names' = s /\ wpc' = "resolve" /\ outcome' = "none"
         \/ names' = <<>> /\ wpc' = "done" /\ outcome' = "Io"
  BY DEF ReadDir, s
<1>5. hidraw_names' = hidraw_names
  BY <1>4 DEF busVars, hidraw_names
<1>6. names' \in Seq(Minors) /\ Ascending(names')
  <2>1. CASE names' = s
    BY <1>2, <1>3, <2>1
  <2>2. CASE names' = <<>>
    BY <2>2, EmptyAscends
  <2> QED BY <1>4, <2>1, <2>2
<1>7. WalkTypes'
  BY <1>4, <1>6 DEF WalkInv, WalkTypes
<1>8. WalkInv'
  BY <1>4, <1>6, <1>7 DEF WalkInv, Reading, Underway
<1>9. CASE names' = s /\ wpc' = "resolve" /\ outcome' = "none"
  <2>1. ToCome' = hidraw_names' /\ Seen' = {}
    BY <1>2, <1>4, <1>5, <1>9 DEF ToCome, Seen
  <2>2. Meant(want)' \subseteq hidraw_names'
    BY DEF Meant
  <2>3. ExactInv'
    BY <1>4, <1>9, <2>1, <2>2 DEF ExactInv, Reading
  <2> QED BY <1>8, <2>3
<1>10. CASE outcome' = "Io"
  BY <1>8, <1>10 DEF ExactInv
<1> QED BY <1>4, <1>9, <1>10

(* Taking the walk's result, or leaving it alone, disturbs nothing.         *)
LEMMA IdleKeepsWalk ==
  ASSUME WalkInv, UNCHANGED <<busVars, want, names, path, vendor, steady, fresh>>,
         wpc' = "idle", outcome' \in {outcome, "none"}, found' \in {found, <<>>}
  PROVE  WalkInv' /\ ExactInv'
<1>1. WalkTypes' /\ Ascending(names')
  <2>1. WalkTypes'
    <3>1. found' \in Seq(HidrawNode)
      <4>1. found \in Seq(HidrawNode) /\ <<>> \in Seq(HidrawNode)
        BY EmptySeq DEF WalkInv, WalkTypes
      <4> QED BY <4>1
    <3> QED BY <3>1 DEF WalkInv, WalkTypes
  <2>2. Ascending(names')
    BY DEF WalkInv
  <2> QED BY <2>1, <2>2
<1>2. Picked => Picked' \/ found' = <<>>
  BY DEF Picked, busVars
<1>3. WalkInv'
  BY <1>1, <1>2 DEF WalkInv, Reading, Underway
<1> QED BY <1>3 DEF ExactInv

(* An empty bus and an idle walk satisfy the invariant.                     *)
LEMMA EnumInvInit == EnumInit => KernelInv /\ WalkInv /\ ExactInv
<1> SUFFICES ASSUME EnumInit PROVE KernelInv /\ WalkInv /\ ExactInv
  OBVIOUS
<1>1. KernelInv
  BY EnumerateAssumption DEF EnumInit, KernelInv, hidraw_names
<1>2. WalkInv
  BY EmptyAscends DEF EnumInit, WalkInv, WalkTypes, EveryNode, Reading, Underway
<1>3. ExactInv
  BY DEF EnumInit, ExactInv
<1> QED BY <1>1, <1>2, <1>3

(* The one-shot definition of what the walk returns, from its invariant.    *)
LEMMA ExactAtTheEnd == WalkInv /\ ExactInv => WalkIsExact
<1> SUFFICES ASSUME WalkInv, ExactInv, wpc = "done", steady, outcome # "Io"
             PROVE  LET all == sort_by_index(Meant(want))
                        got == [k \in 1..Len(found) |-> found[k].minor]
                    IN  IF want.all THEN outcome = "Ok" /\ got = all
                        ELSE IF all = <<>> THEN outcome = "DeviceNotFound" /\ got = <<>>
                        ELSE outcome = "Ok" /\ got = <<Head(all)>>
  BY DEF WalkIsExact
<1> DEFINE M == Meant(want)
           all == sort_by_index(M)
           got == [k \in 1..Len(found) |-> found[k].minor]
<1>1. M \in SUBSET Nat /\ IsFiniteSet(M)
  <2>1. M \in SUBSET Minors
    BY DEF Meant, hidraw_names
  <2> QED BY <2>1, EnumerateAssumption, FS_Subset
<1>2. /\ Seen \subseteq M
      /\ \A i, j \in 1..Len(found) : i < j => found[i].minor < found[j].minor
      /\ IF want.all THEN outcome = "Ok" /\ M \subseteq Seen
         ELSE IF found = <<>> THEN outcome = "DeviceNotFound" /\ M = {}
         ELSE outcome = "Ok" /\ \A m \in M : found[1].minor <= m
  BY DEF ExactInv
<1>3. found \in Seq(HidrawNode) /\ Len(found) \in Nat /\ (~want.all /\ found # <<>> => Len(found) = 1)
  BY DEF WalkInv, WalkTypes, Picked
<1> HIDE DEF M
<1>4. /\ all \in Seq(M) /\ Len(all) = Cardinality(M) /\ Ascending(all) /\ Cardinality(M) \in Nat
      /\ all \in [1..Cardinality(M) -> M]
      /\ \A k \in M : \E i \in 1..Cardinality(M) : all[i] = k
  BY <1>1, Sorted
<1> HIDE DEF all
<1>5. got \in Seq(M) /\ Len(got) = Len(found) /\ \A k \in 1..Len(found) : got[k] = found[k].minor
  BY <1>2, <1>3 DEF Seen
<1> HIDE DEF got
<1>6. CASE want.all
  <2>1. Ascending(got)
    BY <1>2, <1>5 DEF Ascending
  <2>2. \A k \in M : \E i \in 1..Len(got) : got[i] = k
    BY <1>2, <1>5, <1>6 DEF Seen
  <2>3. got = all
    BY <1>1, <1>5, <2>1, <2>2, SortUnique DEF all
  <2> QED BY <1>2, <1>6, <2>3 DEF all, got, M
<1>7. CASE ~want.all /\ found = <<>>
  <2>1. M = {} /\ outcome = "DeviceNotFound"
    BY <1>2, <1>7
  <2>2. Len(all) = 0 /\ Len(got) = 0
    BY <1>4, <1>5, <1>7, <2>1, FS_EmptySet
  <2>3. all = <<>> /\ got = <<>>
    BY <1>4, <1>5, <2>2, EmptySeq
  <2> QED BY <1>7, <2>1, <2>3 DEF all, got, M
<1>8. CASE ~want.all /\ found # <<>>
  <2>1. Len(found) = 1 /\ outcome = "Ok"
    BY <1>2, <1>3, <1>8
  <2>2. got[1] = found[1].minor /\ got[1] \in M /\ Len(got) = 1
    <3>1. 1 \in 1..Len(found) /\ 1 \in 1..Len(got)
      BY <1>5, <2>1
    <3> QED BY <1>5, <2>1, <3>1, ElementOfSeq
  <2>3. PICK i \in 1..Cardinality(M) : all[i] = got[1]
    BY <1>4, <2>2
  <2>4. all # <<>> /\ Head(all) = all[1] /\ all[1] \in M /\ all[1] \in Nat /\ got[1] \in Nat
    <3>1. 1 \in 1..Cardinality(M) /\ Len(all) # 0
      BY <1>4, <2>3
    <3>2. all[1] \in M /\ all # <<>>
      BY <1>4, <3>1
    <3>3. all[1] \in Nat /\ got[1] \in Nat
      BY <1>1, <2>2, <3>2
    <3> QED BY <1>4, <3>2, <3>3
  <2>5. got[1] <= all[1]
    BY <1>2, <1>8, <2>2, <2>4
  <2>6. i = 1 \/ all[1] < all[i]
    BY <1>4, <2>3 DEF Ascending
  <2>7. got[1] = all[1]
    BY <2>3, <2>4, <2>5, <2>6
  <2>8. got = <<Head(all)>>
    BY <1>5, <2>2, <2>4, <2>7
  <2> QED BY <1>8, <2>1, <2>4, <2>8 DEF all, got, M
<1> QED BY <1>6, <1>7, <1>8

-----------------------------------------------------------------------------
(* Opening. *)

(* An fd is one of a device that was plugged in.                            *)
LEMMA HandleType ==
  ASSUME KernelInv, NEW m \in Minors, nodes[m] # NoInterface
  PROVE  Handle(nodes[m], bus) \in HidrawDevice
<1>1. nodes[m] \in Interfaces(bus)
  BY DEF KernelInv, hidraw_names
<1>2. nodes[m] \in Interface /\ bus[nodes[m].port] \in Devices
  BY <1>1, OnBus DEF KernelInv
<1> QED BY <1>2 DEF Handle, HidrawDevice, Interface

(* open_expecting passes only the device it was told to expect.             *)
LEMMA ConfirmedIsMeant ==
  ASSUME NEW h \in HidrawDevice, NEW pid, confirmed(h, pid)
  PROVE  h.device.vendor_id = VENDOR_ID /\ h.device.product_id = pid
<1>1. h.device \in Device
  BY EnumerateAssumption DEF HidrawDevice
<1>2. h.device.vendor_id \in U16 /\ h.device.product_id \in U16
  BY <1>1 DEF Device
<1>3. /\ as_u16(s16(h.device.vendor_id)) = h.device.vendor_id
      /\ as_u16(s16(h.device.product_id)) = h.device.product_id
  BY <1>2, U16RoundTrip
<1>4. raw_info(h) = [vendor_id |-> VENDOR_ID, product_id |-> pid]
  BY DEF confirmed
<1>5. raw_info(h).vendor_id = VENDOR_ID /\ raw_info(h).product_id = pid
  BY <1>4
<1>6. /\ raw_info(h).vendor_id = as_u16(s16(h.device.vendor_id))
      /\ raw_info(h).product_id = as_u16(s16(h.device.product_id))
  BY DEF raw_info
<1> QED BY <1>3, <1>5, <1>6

(* What a step of the kernel does to the rest: only an unplug touches an fd *)
(* or the count, and after it nothing is fresh.                             *)
LEMMA HotplugEffects ==
  ASSUME KernelInv, Hotplug, fd \in HidrawDevice \cup {Closed}
  PROVE  /\ UNCHANGED walkVars
         /\ fd' \in HidrawDevice \cup {Closed}
         /\ \/ UNCHANGED <<fd, fresh, disconnects>>
            \/ /\ fresh' = FALSE /\ disconnects' = disconnects + 1
               /\ \/ fd' = fd
                  \/ fd.open /\ fd' = [fd EXCEPT !.live = FALSE]
<1>1. ASSUME NEW p \in Ports, Plug(p)
      PROVE  UNCHANGED walkVars /\ UNCHANGED <<fd, fresh, disconnects>>
  BY <1>1 DEF Plug
<1>2. ASSUME NEW i \in Interfaces(bus), NEW m \in Minors, Probe(i, m)
      PROVE  UNCHANGED walkVars /\ UNCHANGED <<fd, fresh, disconnects>>
  BY <1>2 DEF Probe
<1>3. ASSUME NEW p \in Ports, Unplug(p)
      PROVE  /\ UNCHANGED walkVars /\ fresh' = FALSE /\ disconnects' = disconnects + 1
             /\ fd' = fd \/ (fd.open /\ fd' = [fd EXCEPT !.live = FALSE])
  BY <1>3 DEF Unplug
<1>4. ASSUME fd.open, fd' = [fd EXCEPT !.live = FALSE] PROVE fd' \in HidrawDevice
  <2>1. fd \in HidrawDevice
    BY <1>4 DEF Closed
  <2>2. \A h \in HidrawDevice : [h EXCEPT !.live = FALSE] \in HidrawDevice
    BY DEF HidrawDevice
  <2> QED BY <1>4, <2>1, <2>2
<1>5. \/ UNCHANGED walkVars /\ UNCHANGED <<fd, fresh, disconnects>>
      \/ /\ UNCHANGED walkVars /\ fresh' = FALSE /\ disconnects' = disconnects + 1
         /\ fd' = fd \/ (fd.open /\ fd' = [fd EXCEPT !.live = FALSE])
  BY <1>1, <1>2, <1>3 DEF Hotplug
<1> QED BY <1>4, <1>5
=============================================================================
