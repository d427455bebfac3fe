------------------------------- MODULE Recover -------------------------------
(***************************************************************************)
(* tools/recovery/razer-recover: stop the daemons, unload razerkbd, bind    *)
(* what no driver has to hid-generic, report.  Every command may fail and   *)
(* none stops the script; the unit's timeout does, anywhere.  Meanwhile     *)
(* devices come and go, openrazer's udev helper does its own binding, and   *)
(* razerd reads the bus (HostState) until the script kills it.              *)
(***************************************************************************)
EXTENDS HostState

CONSTANTS
  Users,      \* logged in, each with a user manager
  MaxRuns     \* times the unit is started

ASSUME RecoverAssumption == MaxRuns \in Nat

VARIABLES
  pc,         \* the statement
  asked,      \* users whose units were stopped
  daemons,    \* users whose openrazer-daemon runs
  todo, id,   \* names of the glob still to come, and the shell's $id
  runs,
  stuck,      \* history: lsmod missed razerkbd, rmmod failed, or it came back
  excused     \* history: interfaces whose bind failed, or that lost their
              \* driver or appeared after this run had looked

scriptVars == <<pc, asked, daemons, todo, id, runs, stuck, excused>>
vars == <<busVars, readVars, scriptVars>>

NoId == 0

Init ==
  /\ InitBus /\ InitReader
  /\ pc = "ready" /\ asked = {} /\ daemons \in SUBSET Users
  /\ todo = {} /\ id = NoId
  /\ runs = 0 /\ stuck = FALSE /\ excused = {}

-----------------------------------------------------------------------------
(* A statement that does not touch the bus.                                 *)
Script(from, to) ==
  /\ pc = from /\ pc' = to /\ UNCHANGED <<busVars, readVars>>

Trigger ==
  /\ pc \in {"ready", "done"} /\ runs < MaxRuns /\ pc' = "stop" /\ runs' = runs + 1
  /\ asked' = {} /\ stuck' = FALSE /\ excused' = {}
  /\ UNCHANGED <<busVars, readVars, daemons, todo, id>>

(* The reader's process ends wherever it is.                                *)
RazerdDies ==
  /\ rpc' = "killed" /\ port' = "" /\ entries' = {} /\ devnum' = 0 /\ owner' = NoDriver
  /\ UNCHANGED <<node, pid, steady>>

(* systemctl --user stop of both units, for each user; it may not reach the *)
(* manager, and razerd may be another user's.                               *)
StopUnits ==
  /\ pc = "stop" /\ (RazerdDies \/ UNCHANGED readVars)
  /\ \E u \in Users \ asked :
       asked' = asked \cup {u} /\ (daemons' = daemons \ {u} \/ UNCHANGED daemons)
  /\ UNCHANGED <<busVars, pc, todo, id, runs, stuck, excused>>

StopUnitsEnd ==
  /\ asked = Users /\ Script("stop", "pkill")
  /\ UNCHANGED <<asked, daemons, todo, id, runs, stuck, excused>>

(* pkill -x compares with a process name, of which the kernel keeps the     *)
(* first 15 characters: `openrazer-daemon` has 16 and matches none.         *)
CommLength == 15
KilledBy(length) == IF length <= CommLength THEN Users ELSE {}

Pkill ==
  /\ pc = "pkill" /\ pc' = "lsmod"
  /\ daemons' = daemons \ KilledBy(16)
  /\ RazerdDies
  /\ UNCHANGED <<busVars, asked, todo, id, runs, stuck, excused>>

(* Under pipefail `lsmod | grep -q` is false when there is no line, when    *)
(* lsmod fails, and when grep leaves at the first match and lsmod dies of   *)
(* SIGPIPE.                                                                 *)
Lsmod ==
  /\ \/ loaded /\ Script("lsmod", "rmmod") /\ UNCHANGED stuck
     \/ Script("lsmod", "sleep") /\ stuck' = loaded
  /\ UNCHANGED <<asked, daemons, todo, id, runs, excused>>

(* Mutant: modprobe -r, which a modprobe.d directive turns into a no-op.     *)
RmmodSilent ==
  /\ Script("rmmod", "sleep")
  /\ UNCHANGED <<asked, daemons, todo, id, runs, stuck, excused>>

(* Unloading leaves each interface razerkbd had with hid-generic, or with   *)
(* nothing.                                                                 *)
Rmmod ==
  /\ pc = "rmmod" /\ pc' = "sleep"
  /\ loaded' = FALSE
  /\ driver' \in [Instances -> {NoDriver, "hid-generic", "razerkbd"}]
  /\ \A i \in Instances :
       IF driver[i] = "razerkbd" THEN driver'[i] # "razerkbd" ELSE driver'[i] = driver[i]
  /\ BusMoves /\ UNCHANGED <<usb, seen, unbinds>>
  /\ UNCHANGED <<asked, daemons, todo, id, runs, stuck, excused>>

(* Mutant: a command that fails ends the script, as under set -e.           *)
RmmodFailedEnds ==
  /\ Script("rmmod", "done") /\ stuck' = TRUE
  /\ UNCHANGED <<asked, daemons, todo, id, runs, excused>>

(* In use, or gone since lsmod.                                             *)
RmmodFailed ==
  /\ Script("rmmod", "sleep") /\ stuck' = loaded
  /\ UNCHANGED <<asked, daemons, todo, id, runs, excused>>

(* Mutant: the pattern does not name the vendor.                            *)
GlobEverything ==
  /\ Script("sleep", "bind") /\ todo' = {i \in Instances : Live(i)}
  /\ UNCHANGED <<asked, daemons, id, runs, stuck, excused>>

(* sleep 0.5, and the shell expands the pattern once.                       *)
Glob ==
  /\ Script("sleep", "bind") /\ todo' = {i \in Instances : Live(i) /\ Razer(i)}
  /\ UNCHANGED <<asked, daemons, id, runs, stuck, excused>>

(* [ -e "$dev" ], $id, and [ ! -e "$dev/driver" ]: one that goes away       *)
(* between the two tests passes for an orphan.                              *)
LookAt(i) ==
  /\ i \in todo /\ todo' = todo \ {i}
  /\ \/ ~Bound(i) /\ Script("bind", "write") /\ id' = i
     \/ Bound(i) /\ Script("bind", "bind") /\ id' = i
     \/ ~Live(i) /\ Script("bind", "bind") /\ UNCHANGED id
  /\ UNCHANGED <<asked, daemons, runs, stuck, excused>>

(* The write to hid-generic/bind, of a name that may be gone or taken.      *)
Bind ==
  /\ pc = "write" /\ pc' = "bind" /\ Orphan(id)
  /\ driver' = [driver EXCEPT ![id] = "hid-generic"] /\ BusMoves
  /\ UNCHANGED <<usb, seen, loaded, unbinds>>
  /\ UNCHANGED <<asked, daemons, todo, id, runs, stuck, excused>>

BindFailed ==
  /\ Script("write", "bind") /\ excused' = excused \cup {id}
  /\ UNCHANGED <<asked, daemons, todo, id, runs, stuck>>

BindEnd ==
  /\ todo = {} /\ Script("bind", "report")
  /\ todo' = {i \in Instances : Live(i) /\ Razer(i)}
  /\ UNCHANGED <<asked, daemons, id, runs, stuck, excused>>

(* One line of the final binding state is printed.                          *)
Report(i) ==
  /\ i \in todo /\ todo' = todo \ {i} /\ Script("report", "report")
  /\ id' = IF Live(i) THEN i ELSE id
  /\ UNCHANGED <<asked, daemons, runs, stuck, excused>>

(* "recovery finished", exit 0.                                             *)
Exit ==
  /\ todo = {} /\ Script("report", "done") /\ id' = NoId
  /\ UNCHANGED <<asked, daemons, todo, runs, stuck, excused>>

(* TimeoutStartSec: systemd kills the run where it stands.                  *)
TimedOut ==
  /\ pc \notin {"ready", "done"} /\ Script(pc, "ready")
  /\ todo' = {} /\ id' = NoId
  /\ UNCHANGED <<asked, daemons, runs, stuck, excused>>

Step ==
  \/ StopUnits \/ StopUnitsEnd \/ Pkill \/ Lsmod \/ Rmmod \/ RmmodFailed
  \/ Glob \/ (\E i \in Instances : LookAt(i) \/ Report(i)) \/ Bind \/ BindFailed \/ BindEnd \/ Exit

-----------------------------------------------------------------------------
(* The others, and what the history makes of them. *)

Looked(i) ==
  CASE pc = "bind" -> i \notin todo
    [] pc = "write" -> i \notin todo \cup {id}
    [] pc \in {"report", "done"} -> TRUE
    [] OTHER -> FALSE

Elsewhere(S) ==
  /\ BusMoves
  /\ excused' = excused \cup {i \in S : Looked(i)}
  /\ UNCHANGED <<pc, asked, daemons, todo, id, runs>>

Bus ==
  \/ \E d \in Devices : (Plug(d) \/ Unplug(d)) /\ Elsewhere(d.instances) /\ UNCHANGED stuck
  \/ \E i \in Instances : (Unbind(i) \/ HelperBinds(i)) /\ Elsewhere({i}) /\ UNCHANGED stuck
  \/ Modprobe /\ Elsewhere({}) /\ stuck' = (stuck \/ pc \in {"sleep", "bind", "write", "report", "done"})

Next == Trigger \/ Step \/ TimedOut \/ Bus \/ (ReadState /\ UNCHANGED scriptVars)

Spec == Init /\ [][Next]_vars

-----------------------------------------------------------------------------
(* The variables have their types; what is written to hid-generic/bind is   *)
(* the name of a Razer interface.                                           *)
TypeOK ==
  /\ driver \in [Instances -> {NoDriver, "hid-generic", "razerkbd"}]
  /\ \A i \in Instances : driver[i] = "razerkbd" => loaded /\ Razer(i)
  /\ pc \in {"ready", "stop", "pkill", "lsmod", "rmmod", "sleep", "bind", "write", "report", "done"}
  /\ id \in {i \in Instances : Razer(i)} \cup {NoId} /\ (pc = "write" => id # NoId)
  /\ rpc \in {"idle", "canonicalize", "exists", "devnum", "hub", "read_dir", "link", "done", "killed"}

(* Whatever failed before, and wherever an earlier run was killed, a run    *)
(* that gets to its report leaves every Razer interface with a driver: the  *)
(* exceptions are those that hid-generic/bind refused, and those that lost  *)
(* theirs, or appeared, after the run had looked.                           *)
NothingLeftOrphaned ==
  pc \in {"report", "done"} => \A i \in Instances : Orphan(i) /\ Razer(i) => i \in excused

(* Recovery ends with razerkbd off every interface, so that the keyboard    *)
(* types, unless the test for the module missed it, it could not be         *)
(* unloaded, or it was loaded again.                                        *)
EndsOnGeneric ==
  pc = "done" /\ ~stuck => \A i \in Instances : driver[i] # "razerkbd"

(* The script is safe to run when nothing is wrong: it takes no interface   *)
(* from a driver other than razerkbd, and gives none to another's device.   *)
BystandersUntouched ==
  [][pc' # pc => \A i \in Instances :
       driver'[i] # driver[i] => Razer(i) /\ driver[i] \in {NoDriver, "razerkbd"}]_vars

(* After step 1 no daemon pokes the device, as the comment on it says.      *)
DaemonsStopped == pc \notin {"ready", "stop", "pkill"} => daemons = {}
=============================================================================
