--------------------------- MODULE RecoverProofs ---------------------------
(***************************************************************************)
(* Proofs about Recover and the HostState reader inside it, for any        *)
(* devices, users, unbinds and runs.                                       *)
(***************************************************************************)
EXTENDS Recover, TLAPS

Drivers == {NoDriver, "hid-generic", "razerkbd"}

(* The bus: one device at a port, a driver only on an interface that is     *)
(* there, razerkbd only while it is loaded and only on Razer's.             *)
BusInv ==
  /\ usb \subseteq Devices /\ OneEach(usb) /\ loaded \in BOOLEAN
  /\ driver \in [Instances -> Drivers]
  /\ \A i \in Instances : ~Live(i) => driver[i] = NoDriver
  /\ \A i \in Instances : driver[i] = "razerkbd" => loaded /\ Razer(i)

(* The reader, while the bus has held still since it started.               *)
ReaderInv ==
  /\ node \in Instances /\ pid = DeviceOf(node).product /\ entries \subseteq Instances
  /\ rpc \in {"idle", "canonicalize", "exists", "devnum", "hub", "read_dir", "link", "done", "killed"}
  /\ steady /\ rpc \notin {"idle", "killed"} =>
       /\ Bound(node) /\ rpc # "hub"
       /\ rpc \in {"exists", "devnum"} => port = DeviceOf(node).port
       /\ rpc \in {"read_dir", "link", "done"} => devnum = DeviceOf(node).devnum
       /\ rpc = "link" => node \in entries
       /\ rpc = "done" => \E i \in Instances :
            Bound(i) /\ DeviceOf(i).product = pid /\ owner = driver[i]

(* The script: what the pattern has named, and what is left of it.          *)
ScriptInv ==
  /\ pc \in {"ready", "stop", "pkill", "lsmod", "rmmod", "sleep", "bind", "write", "report", "done"}
  /\ id \in {i \in Instances : Razer(i)} \cup {NoId} /\ (pc = "write" => id # NoId)
  /\ todo \subseteq {i \in Instances : Razer(i)}
  /\ pc = "bind" =>
       \A i \in Instances : Orphan(i) /\ Razer(i) => i \in todo \cup excused
  /\ pc = "write" =>
       \A i \in Instances : Orphan(i) /\ Razer(i) => i \in todo \cup {id} \cup excused
  /\ NothingLeftOrphaned
  /\ pc \in {"sleep", "bind", "write", "report", "done"} /\ ~stuck => ~loaded

Inv == BusInv /\ ReaderInv /\ ScriptInv

-----------------------------------------------------------------------------
(* Instances and their devices *)

(* DeviceOf finds the device an instance belongs to.                        *)
LEMMA DeviceOfFinds ==
  \A i \in Instances : DeviceOf(i) \in Devices /\ i \in DeviceOf(i).instances
<1> SUFFICES ASSUME NEW i \in Instances
             PROVE  DeviceOf(i) \in Devices /\ i \in DeviceOf(i).instances
  OBVIOUS
<1>1. \E d \in Devices : i \in d.instances
  BY DEF Instances
<1> QED BY <1>1 DEF DeviceOf

(* There is only one.                                                       *)
LEMMA DeviceOfUnique ==
  \A d \in Devices : \A i \in d.instances : i \in Instances /\ DeviceOf(i) = d
<1> SUFFICES ASSUME NEW d \in Devices, NEW i \in d.instances
             PROVE  i \in Instances /\ DeviceOf(i) = d
  OBVIOUS
<1>1. i \in Instances
  BY DEF Instances
<1>2. \A e \in Devices : d # e => d.instances \cap e.instances = {}
  BY HidBusAssumption
<1> QED BY <1>1, <1>2, DeviceOfFinds

(* 0 stands for no instance.                                                *)
LEMMA NoIdIsNone == NoId \notin Instances
<1>1. \A d \in Devices : d.instances \subseteq Nat \ {0}
  BY HidBusAssumption DEF Device
<1> QED BY <1>1 DEF Instances, NoId

-----------------------------------------------------------------------------
(* The bus *)

(* The steps that change the bus: two of the script's and the others'.      *)
BusChange ==
  \/ Rmmod \/ Bind \/ Modprobe
  \/ \E d \in Devices : Plug(d) \/ Unplug(d)
  \/ \E i \in Instances : Unbind(i) \/ HelperBinds(i)

(* A step either leaves the bus alone or is one of those, and then the      *)
(* reader's history says so.                                                *)
LEMMA StepKinds ==
  ASSUME [Next]_vars
  PROVE  \/ BusChange /\ BusMoves
         \/ UNCHANGED busVars /\ (ReadState \/ RazerdDies \/ UNCHANGED readVars)
<1>1. CASE Trigger
  BY <1>1 DEF Trigger
<1>2. CASE StopUnits \/ StopUnitsEnd \/ Pkill \/ Lsmod
  BY <1>2 DEF StopUnits, StopUnitsEnd, Pkill, Lsmod, Script
<1>3. CASE Rmmod \/ Bind
  BY <1>3 DEF Rmmod, Bind, BusChange
<1>4. CASE RmmodFailed \/ Glob \/ BindFailed \/ BindEnd \/ Exit \/ TimedOut
  BY <1>4 DEF RmmodFailed, Glob, BindFailed, BindEnd, Exit, TimedOut, Script
<1>5. CASE \E i \in Instances : LookAt(i) \/ Report(i)
  BY <1>5 DEF LookAt, Report, Script
<1>6. CASE Bus
  BY <1>6 DEF Bus, Elsewhere, BusChange
<1>7. CASE ReadState
  BY <1>7 DEF ReadState, ReadStart, Canonicalize, Exists, ReadDevnum, ReadDir, ReadLink, ReadLinkEnd,
     busVars
<1>8. CASE UNCHANGED vars
  BY <1>8 DEF vars
<1> QED BY <1>1, <1>2, <1>3, <1>4, <1>5, <1>6, <1>7, <1>8 DEF Next, Step

(* The bus begins with drivers only where they may be.                      *)
LEMMA BusInit == InitBus => BusInv
BY DEF InitBus, BusInv, Drivers, MayHave, NoDriver

(* Hotplug and the binding of drivers keep the invariant of the bus.        *)
LEMMA BusNext ==
  ASSUME BusInv, BusChange
  PROVE  BusInv'
<1> USE DEF BusInv, Drivers
<1>0. NoDriver # "razerkbd" /\ NoDriver # "hid-generic"
  BY DEF NoDriver
<1>1. CASE Rmmod
  BY <1>0, <1>1 DEF Rmmod, Live
<1>2. CASE Bind
  <2>1. id \in Instances \/ driver' = driver
    BY <1>2 DEF Bind
  <2>2. Live(id) /\ UNCHANGED <<usb, loaded>>
    BY <1>2 DEF Bind, Orphan
  <2>3. driver' = [driver EXCEPT ![id] = "hid-generic"]
    BY <1>2 DEF Bind
  <2> QED BY <2>1, <2>2, <2>3 DEF Live
<1>3. CASE Modprobe
  BY <1>3 DEF Modprobe, Live
<1>4. ASSUME NEW d \in Devices, Plug(d) PROVE BusInv'
  <2>1. PICK f \in [d.instances -> Drivers] :
          /\ \A i \in d.instances : f[i] \in MayHave(i)
          /\ driver' = [i \in Instances |-> IF i \in d.instances THEN f[i] ELSE driver[i]]
    BY <1>4 DEF Plug
  <2>2. /\ usb' \subseteq Devices /\ OneEach(usb') /\ loaded' = loaded /\ usb' = usb \cup {d}
    BY <1>4 DEF Plug
  <2>3. driver' \in [Instances -> Drivers]
    BY <2>1
  <2>4. \A i \in Instances : ~Live(i)' => driver'[i] = NoDriver
    BY <2>1, <2>2, DeviceOfUnique DEF Live
  <2>5. \A i \in Instances : driver'[i] = "razerkbd" => loaded' /\ Razer(i)
    BY <1>0, <2>1, <2>2 DEF MayHave
  <2> QED BY <2>2, <2>3, <2>4, <2>5 DEF OneEach
<1>5. ASSUME NEW d \in Devices, Unplug(d) PROVE BusInv'
  <2>1. /\ usb' \subseteq Devices /\ OneEach(usb') /\ loaded' = loaded /\ usb' = usb \ {d}
    BY <1>5 DEF Unplug, OneEach
  <2>2. driver' = [i \in Instances |-> IF i \in d.instances THEN NoDriver ELSE driver[i]]
    BY <1>5 DEF Unplug
  <2>3. driver' \in [Instances -> Drivers]
    BY <2>2
  <2>4. \A i \in Instances : ~Live(i)' => driver'[i] = NoDriver
    BY <2>1, <2>2, DeviceOfFinds DEF Live
  <2>5. \A i \in Instances : driver'[i] = "razerkbd" => loaded' /\ Razer(i)
    BY <1>0, <2>1, <2>2
  <2> QED BY <2>1, <2>3, <2>4, <2>5 DEF OneEach
<1>6. ASSUME NEW i \in Instances, Unbind(i) PROVE BusInv'
  BY <1>0, <1>6 DEF Unbind, Live
<1>7. ASSUME NEW i \in Instances, HelperBinds(i) PROVE BusInv'
  BY <1>0, <1>7 DEF HelperBinds, Orphan, Live
<1> QED BY <1>1, <1>2, <1>3, <1>4, <1>5, <1>6, <1>7 DEF BusChange

-----------------------------------------------------------------------------
(* The reader *)

(* The reader of the bus has read nothing yet.                              *)
LEMMA ReaderInit == InitReader => ReaderInv
BY DEF InitReader, ReaderInv

(* A reader that is at rest, and one whose bus has moved, claim nothing.    *)
LEMMA ReaderQuiet ==
  ASSUME ReaderInv,
         \/ BusMoves
         \/ RazerdDies
         \/ UNCHANGED <<busVars, readVars>>
  PROVE  ReaderInv'
<1>1. CASE BusMoves
  BY <1>1 DEF ReaderInv, BusMoves
<1>2. CASE RazerdDies
  BY <1>2 DEF ReaderInv, RazerdDies
<1>3. CASE UNCHANGED <<busVars, readVars>>
  BY <1>3 DEF ReaderInv, busVars, readVars, Bound, Live
<1> QED BY <1>1, <1>2, <1>3

(* razerd's reader keeps its invariant while the bus changes.               *)
LEMMA ReaderNext ==
  ASSUME BusInv, ReaderInv, ReadState
  PROVE  ReaderInv'
<1> DEFINE here == DeviceOf(node)
<1>0. /\ node \in Instances /\ pid = here.product /\ here \in Devices
      /\ node' = node /\ pid' = pid
      /\ UNCHANGED busVars /\ \A i : Bound(i)' <=> Bound(i)
  BY DeviceOfFinds
  DEF ReaderInv, ReadState, ReadStart, Canonicalize, Exists, ReadDevnum, ReadDir, ReadLink,
      ReadLinkEnd, busVars, Bound, Live
<1>e. entries' \subseteq Instances
  BY DEF ReaderInv, ReadState, ReadStart, Canonicalize, Exists, ReadDevnum, ReadDir, ReadLink, ReadLinkEnd
<1>1. Bound(node) => here \in usb
  BY DEF Bound, Live
<1> HIDE DEF here
<1>2. CASE ReadStart
  BY <1>0, <1>e, <1>2 DEF ReadStart, ReaderInv
<1>3. CASE Canonicalize
  <2>1. CASE steady
    <3>1. Bound(node)
      BY <1>3, <2>1 DEF Canonicalize, ReaderInv
    <3>2. rpc' = "exists" /\ port' = DeviceOf(node).port
      BY <1>3, <3>1 DEF Canonicalize
    <3> QED BY <1>0, <1>e, <3>1, <3>2 DEF ReaderInv
  <2>2. CASE ~steady
    BY <1>0, <1>e, <1>3, <2>2 DEF Canonicalize, ReaderInv
  <2> QED BY <2>1, <2>2
<1>4. CASE Exists
  <2>1. CASE steady
    <3>1. Bound(node) /\ port = DeviceOf(node).port
      BY <1>4, <2>1 DEF Exists, ReaderInv
    <3>2. In(port) # {}
      BY <1>1, <3>1 DEF In, here
    <3>3. rpc' = "devnum" /\ port' = port
      BY <1>4, <3>2 DEF Exists
    <3> QED BY <1>0, <1>e, <3>1, <3>3 DEF ReaderInv
  <2>2. CASE ~steady
    BY <1>0, <1>e, <1>4, <2>2 DEF Exists, ReaderInv
  <2> QED BY <2>1, <2>2
<1>5. CASE ReadDevnum
  <2>1. CASE steady
    <3>1. Bound(node) /\ rpc = "devnum" /\ port = DeviceOf(node).port
      BY <1>5, <2>1 DEF ReadDevnum, ReaderInv
    <3>2. In(port) = {here}
      BY <1>1, <3>1 DEF In, here, BusInv, OneEach
    <3>3. rpc' = "read_dir" /\ devnum' = here.devnum
      BY <1>5, <3>1, <3>2 DEF ReadDevnum
    <3> QED BY <1>0, <1>e, <3>1, <3>3 DEF ReaderInv, here
  <2>2. CASE ~steady
    BY <1>0, <1>e, <1>5, <2>2 DEF ReadDevnum, ReaderInv
  <2> QED BY <2>1, <2>2
<1>6. CASE ReadDir
  <2>1. CASE steady
    <3>1. Bound(node) /\ devnum = DeviceOf(node).devnum
      BY <1>6, <2>1 DEF ReadDir, ReaderInv
    <3>2. rpc' = "link" /\ node \in entries' /\ devnum' = devnum
      BY <1>0, <1>e, <1>6, <3>1 DEF ReadDir, Bound
    <3> QED BY <1>0, <1>e, <3>1, <3>2 DEF ReaderInv
  <2>2. CASE ~steady
    BY <1>0, <1>e, <1>6, <2>2 DEF ReadDir, ReaderInv
  <2> QED BY <2>1, <2>2
<1>7. CASE ReadLink
  <2>1. CASE steady
    <3>1. Bound(node) /\ devnum = DeviceOf(node).devnum /\ node \in entries
      BY <1>7, <2>1 DEF ReadLink, ReaderInv
    <3>2. PICK i \in entries :
            IF DeviceOf(i).product = pid /\ Bound(i)
            THEN owner' = driver[i] /\ entries' = {} /\ rpc' = "done"
            ELSE entries' = entries \ {i} /\ UNCHANGED <<owner, rpc>>
      BY <1>7 DEF ReadLink
    <3>3. CASE DeviceOf(i).product = pid /\ Bound(i)
      <4>1. i \in Instances
        BY DEF ReaderInv
      <4> QED BY <1>0, <1>e, <1>7, <3>1, <3>2, <3>3, <4>1 DEF ReadLink, ReaderInv, busVars
    <3>4. CASE ~(DeviceOf(i).product = pid /\ Bound(i))
      <4>1. node \in entries' /\ rpc' = "link" /\ devnum' = devnum
        BY <1>0, <1>e, <1>7, <3>1, <3>2, <3>4 DEF ReadLink, here
      <4> QED BY <1>0, <1>e, <3>1, <4>1 DEF ReaderInv
    <3> QED BY <3>3, <3>4
  <2>2. CASE ~steady
    BY <1>0, <1>e, <1>7, <2>2 DEF ReadLink, ReaderInv
  <2> QED BY <2>1, <2>2
<1>8. CASE ReadLinkEnd
  BY <1>0, <1>e, <1>8 DEF ReadLinkEnd, ReaderInv
<1> QED BY <1>2, <1>3, <1>4, <1>5, <1>6, <1>7, <1>8 DEF ReadState

-----------------------------------------------------------------------------
(* The script *)

(* The script has done nothing yet.                                         *)
LEMMA ScriptInit == Init => ScriptInv
<1> SUFFICES ASSUME Init PROVE ScriptInv
  OBVIOUS
<1> QED BY DEF Init, ScriptInv, NothingLeftOrphaned

(* Orphans made elsewhere are in hand, still to come, or excused.           *)
LEMMA ElsewhereKeepsScript ==
  ASSUME ScriptInv, NEW S, Elsewhere(S), loaded' = loaded, stuck' = stuck,
         \A i \in Instances : Orphan(i)' => Orphan(i) \/ i \in S
  PROVE  ScriptInv'
<1>0. /\ UNCHANGED <<pc, todo, id>>
      /\ excused' = excused \cup {i \in S : Looked(i)}
  BY DEF Elsewhere
<1>1. ASSUME pc \in {"bind", "write"}, NEW i \in Instances, Orphan(i)', Razer(i)
      PROVE  i \in todo' \cup excused' \/ (pc = "write" /\ i = id')
  <2>1. CASE Orphan(i)
    BY <1>0, <1>1, <2>1 DEF ScriptInv
  <2>2. CASE i \in S
    BY <1>0, <1>1, <2>2 DEF Looked
  <2> QED BY <1>1, <2>1, <2>2
<1>2. ASSUME pc \in {"report", "done"}, NEW i \in Instances, Orphan(i)', Razer(i)
      PROVE  i \in excused'
  <2>1. CASE Orphan(i)
    BY <1>0, <1>2, <2>1 DEF ScriptInv, NothingLeftOrphaned
  <2>2. CASE i \in S
    BY <1>0, <1>2, <2>2 DEF Looked
  <2> QED BY <1>2, <2>1, <2>2
<1>3. NothingLeftOrphaned'
  BY <1>0, <1>2 DEF NothingLeftOrphaned
<1> QED BY <1>0, <1>1, <1>3 DEF ScriptInv

(* A statement that only moves between statements before the pattern is     *)
(* expanded.                                                                *)
LEMMA EarlyKeepsScript ==
  ASSUME ScriptInv, pc # "write", UNCHANGED <<todo, id>>,
         pc' \in {"stop", "pkill", "lsmod", "rmmod", "sleep"},
         pc' = "sleep" /\ ~stuck' => ~loaded'
  PROVE  ScriptInv'
BY DEF ScriptInv, NothingLeftOrphaned

(* Every step keeps the script's invariant.                                 *)
LEMMA ScriptNext ==
  ASSUME BusInv, ScriptInv, [Next]_vars
  PROVE  ScriptInv'
<1>1. CASE Trigger
  BY <1>1, EarlyKeepsScript DEF Trigger
<1>2. CASE StopUnits
  BY <1>2, EarlyKeepsScript DEF StopUnits
<1>3. CASE StopUnitsEnd
  BY <1>3, EarlyKeepsScript DEF StopUnitsEnd, Script
<1>4. CASE Pkill
  BY <1>4, EarlyKeepsScript DEF Pkill
<1>5. CASE Lsmod
  BY <1>5, EarlyKeepsScript DEF Lsmod, Script, busVars
<1>6. CASE Rmmod
  BY <1>6, EarlyKeepsScript DEF Rmmod
<1>7. CASE RmmodFailed
  BY <1>7, EarlyKeepsScript DEF RmmodFailed, Script, busVars
<1>8. CASE Glob
  <2>1. /\ pc' = "bind" /\ pc = "sleep" /\ UNCHANGED <<busVars, id, stuck>>
        /\ todo' = {i \in Instances : Live(i) /\ Razer(i)}
    BY <1>8 DEF Glob, Script
  <2>2. \A i \in Instances : Orphan(i)' => Live(i)
    BY <2>1 DEF Orphan, Live, busVars
  <2> QED BY <2>1, <2>2 DEF ScriptInv, NothingLeftOrphaned, busVars
<1>9. ASSUME NEW i \in Instances, LookAt(i) PROVE ScriptInv'
  <2>1. /\ pc = "bind" /\ i \in todo /\ todo' = todo \ {i}
        /\ UNCHANGED <<busVars, stuck, excused>>
        /\ \A j \in Instances : Orphan(j)' <=> Orphan(j)
    BY <1>9 DEF LookAt, Script, busVars, Orphan, Live
  <2>2. Razer(i) /\ i # NoId
    BY <2>1, NoIdIsNone DEF ScriptInv
  <2>3. CASE pc' = "write" /\ id' = i
    <3>1. \A j \in Instances : Orphan(j)' /\ Razer(j) => j \in todo' \cup {id'} \cup excused'
      BY <2>1, <2>3 DEF ScriptInv
    <3> QED BY <2>1, <2>2, <2>3, <3>1 DEF ScriptInv, NothingLeftOrphaned, busVars
  <2>4. CASE ~Orphan(i) /\ pc' = "bind" /\ id' \in {i, id}
    <3>1. \A j \in Instances : Orphan(j)' /\ Razer(j) => j \in todo' \cup excused'
      BY <2>1, <2>4 DEF ScriptInv
    <3> QED BY <2>1, <2>2, <2>4, <3>1 DEF ScriptInv, NothingLeftOrphaned, busVars
  <2>5. Bound(i) \/ ~Live(i) => ~Orphan(i)
    BY DEF Bound, Orphan
  <2> QED BY <1>9, <2>3, <2>4, <2>5 DEF LookAt, Script
<1>10. ASSUME NEW i \in Instances, Report(i) PROVE ScriptInv'
  <2>1. \A j \in Instances : Orphan(j)' <=> Orphan(j)
    BY <1>10 DEF Report, Script, busVars, Orphan, Live
  <2>2. id' \in {i, id} /\ i \in todo
    BY <1>10 DEF Report
  <2> QED BY <1>10, <2>1, <2>2 DEF Report, Script, ScriptInv, NothingLeftOrphaned, busVars
<1>11. CASE Bind
  <2>1. /\ pc = "write" /\ pc' = "bind" /\ UNCHANGED <<usb, loaded, todo, id, stuck, excused>>
        /\ driver' = [driver EXCEPT ![id] = "hid-generic"]
    BY <1>11 DEF Bind
  <2>2. \A i \in Instances : Orphan(i)' => Orphan(i) /\ i # id
    BY <2>1 DEF Orphan, Live, BusInv, NoDriver
  <2> QED BY <2>1, <2>2 DEF ScriptInv, NothingLeftOrphaned
<1>12. CASE BindFailed
  <2>1. \A j \in Instances : Orphan(j)' <=> Orphan(j)
    BY <1>12 DEF BindFailed, Script, busVars, Orphan, Live
  <2> QED BY <1>12, <2>1 DEF BindFailed, Script, ScriptInv, NothingLeftOrphaned, busVars
<1>13. CASE BindEnd
  <2>1. /\ pc = "bind" /\ pc' = "report" /\ todo = {} /\ UNCHANGED <<busVars, id, stuck, excused>>
        /\ todo' = {i \in Instances : Live(i) /\ Razer(i)}
        /\ \A j \in Instances : Orphan(j)' <=> Orphan(j)
    BY <1>13 DEF BindEnd, Script, busVars, Orphan, Live
  <2> QED BY <2>1 DEF ScriptInv, NothingLeftOrphaned, busVars
<1>14. CASE Exit
  <2>1. \A j \in Instances : Orphan(j)' <=> Orphan(j)
    BY <1>14 DEF Exit, Script, busVars, Orphan, Live
  <2> QED BY <1>14, <2>1 DEF Exit, Script, ScriptInv, NothingLeftOrphaned, busVars
<1>15. CASE Bus
  <2>1. ASSUME NEW d \in Devices, Plug(d), Elsewhere(d.instances), UNCHANGED stuck
        PROVE  ScriptInv'
    <3>1. \A i \in Instances : Orphan(i)' => Orphan(i) \/ i \in d.instances
      BY <2>1, DeviceOfFinds DEF Plug, Orphan, Live
    <3> QED BY <2>1, <3>1, ElsewhereKeepsScript DEF Plug
  <2>2. ASSUME NEW d \in Devices, Unplug(d), Elsewhere(d.instances), UNCHANGED stuck
        PROVE  ScriptInv'
    <3>1. \A i \in Instances : Orphan(i)' => Orphan(i)
      BY <2>2, DeviceOfUnique DEF Unplug, Orphan, Live
    <3> QED BY <2>2, <3>1, ElsewhereKeepsScript DEF Unplug
  <2>3. ASSUME NEW i \in Instances, Unbind(i) \/ HelperBinds(i), Elsewhere({i}), UNCHANGED stuck
        PROVE  ScriptInv'
    <3>1. \A j \in Instances : Orphan(j)' => Orphan(j) \/ j \in {i}
      BY <2>3 DEF Unbind, HelperBinds, Orphan, Live, BusInv
    <3> QED BY <2>3, <3>1, ElsewhereKeepsScript DEF Unbind, HelperBinds
  <2>4. ASSUME Modprobe, Elsewhere({}),
               stuck' = (stuck \/ pc \in {"sleep", "bind", "write", "report", "done"})
        PROVE  ScriptInv'
    <3>1. /\ \A j \in Instances : Orphan(j)' <=> Orphan(j)
          /\ UNCHANGED <<pc, todo, id>> /\ excused' = excused
      BY <2>4 DEF Modprobe, Elsewhere, Orphan, Live
    <3> QED BY <2>4, <3>1 DEF ScriptInv, NothingLeftOrphaned
  <2> QED BY <1>15, <2>1, <2>2, <2>3, <2>4 DEF Bus
<1>16. CASE UNCHANGED <<busVars, scriptVars>>
  <2>1. \A j \in Instances : Orphan(j)' <=> Orphan(j)
    BY <1>16 DEF busVars, Orphan, Live
  <2> QED BY <1>16, <2>1 DEF busVars, scriptVars, ScriptInv, NothingLeftOrphaned
<1>17. CASE TimedOut
  BY <1>17 DEF TimedOut, Script, ScriptInv, NothingLeftOrphaned
<1>18. ReadState => UNCHANGED busVars
  BY DEF ReadState, ReadStart, Canonicalize, Exists, ReadDevnum, ReadDir, ReadLink, ReadLinkEnd, busVars
<1> QED
  BY <1>1, <1>2, <1>3, <1>4, <1>5, <1>6, <1>7, <1>8, <1>9, <1>10, <1>11, <1>12, <1>13, <1>14,
     <1>15, <1>16, <1>17, <1>18
  DEF Next, Step, vars

-----------------------------------------------------------------------------
(* Every state of the host satisfies the three invariants.                  *)
LEMMA Invariance == Spec => []Inv
<1>1. Init => Inv
  BY BusInit, ReaderInit, ScriptInit DEF Init, Inv
<1>2. Inv /\ [Next]_vars => Inv'
  <2> SUFFICES ASSUME Inv, [Next]_vars PROVE Inv'
    OBVIOUS
  <2>1. BusInv'
    <3>1. CASE UNCHANGED busVars
      BY <3>1 DEF Inv, BusInv, busVars, OneEach, Live
    <3> QED BY <3>1, StepKinds, BusNext DEF Inv
  <2>2. ReaderInv'
    <3>1. CASE BusMoves
      BY <3>1, ReaderQuiet DEF Inv
    <3>2. CASE UNCHANGED busVars /\ (ReadState \/ RazerdDies \/ UNCHANGED readVars)
      BY <3>2, ReaderQuiet, ReaderNext DEF Inv
    <3> QED BY <3>1, <3>2, StepKinds
  <2>3. ScriptInv'
    BY ScriptNext DEF Inv
  <2> QED BY <2>1, <2>2, <2>3 DEF Inv
<1> QED BY <1>1, <1>2, PTL DEF Spec

(* The types, and that the script never takes up another vendor's           *)
(* interface.                                                               *)
THEOREM TypeCorrect == Spec => []TypeOK
<1>1. Inv => TypeOK
  BY DEF Inv, BusInv, ReaderInv, ScriptInv, TypeOK, Drivers
<1> QED BY <1>1, Invariance, PTL

(* razer-recover leaves every Razer interface with a driver, except those   *)
(* the kernel refused it and those that lost theirs behind its back, even   *)
(* after a run that was killed half way.                                    *)
THEOREM NoOrphans == Spec => []NothingLeftOrphaned
<1>1. Inv => NothingLeftOrphaned
  BY DEF Inv, ScriptInv
<1> QED BY <1>1, Invariance, PTL

(* It ends with razerkbd on no interface, unless lsmod missed the module,   *)
(* rmmod failed, or it came back.                                           *)
THEOREM Generic == Spec => []EndsOnGeneric
<1>1. Inv => EndsOnGeneric
  BY DEF Inv, BusInv, ScriptInv, EndsOnGeneric
<1> QED BY <1>1, Invariance, PTL

(* Its steps change the driver of no other interface.                       *)
THEOREM Bystanders == Spec => BystandersUntouched
<1> DEFINE Harmless ==
      pc' # pc => \A i \in Instances :
        driver'[i] # driver[i] => Razer(i) /\ driver[i] \in {NoDriver, "razerkbd"}
<1>1. Inv /\ [Next]_vars => [Harmless]_vars
  <2> SUFFICES ASSUME Inv, [Next]_vars, pc' # pc, NEW i \in Instances, driver'[i] # driver[i]
               PROVE  Razer(i) /\ driver[i] \in {NoDriver, "razerkbd"}
    OBVIOUS
  <2>2. CASE Rmmod
    BY <2>2 DEF Rmmod, Inv, BusInv
  <2>3. CASE Bind
    <3>1. driver' = [driver EXCEPT ![id] = "hid-generic"] /\ pc = "write" /\ Orphan(id)
      BY <2>3 DEF Bind
    <3>2. i = id
      BY <3>1 DEF Inv, BusInv
    <3> QED BY <3>1, <3>2, NoIdIsNone DEF Inv, ScriptInv, Orphan
  <2>4. CASE ~(Rmmod \/ Bind)
    <3>1. Bus
      <4>1. driver' # driver
        OBVIOUS
      <4> QED
        BY <2>4, <4>1
        DEF Next, Step, Trigger, StopUnits, StopUnitsEnd, Pkill, Lsmod, RmmodFailed, Glob, LookAt,
            Report, BindFailed, BindEnd, Exit, TimedOut, Script, ReadState, scriptVars, busVars, vars
    <3>2. pc' = pc
      BY <3>1 DEF Bus, Elsewhere
    <3> QED BY <3>2
  <2> QED BY <2>2, <2>3, <2>4
<1> QED BY <1>1, Invariance, PTL DEF Spec, BystandersUntouched

(* razerd's reading of /sys is exact whenever the bus held still for it.    *)
THEOREM SteadyReading == Spec => []SteadyReadingIsExact
<1>1. Inv => SteadyReadingIsExact
  BY DEF Inv, ReaderInv, SteadyReadingIsExact
<1> QED BY <1>1, Invariance, PTL
=============================================================================
