------------------------------ MODULE Razerd ------------------------------
(***************************************************************************)
(* razerd's main.rs: the list, info and set-device-mode commands, run once  *)
(* from a shell while devices come and go.  The walk of a bus is            *)
(* Enumerate's; a session call is one step here, with the outcomes that     *)
(* Session shows it can have.                                               *)
(***************************************************************************)
EXTENDS Enumerate

CONSTANTS Commands,        \* the command lines
          WATCH_SECONDS    \* 90 in the source

(* flag says what followed --transaction-id, tid is its value.              *)
BadFlag == {"missing", "flag", "not_hex", "too_wide"}
CommandLine ==
  [name: {"list", "info", "--version", "other"}]
    \cup [name: {"set-device-mode"}, mode: {"normal", "driver", "other"},
          at_desk: BOOLEAN, flag: {"absent", "hex"} \cup BadFlag, tid: 0..255]

ASSUME RazerdAssumption ==
  /\ Commands \subseteq CommandLine /\ WATCH_SECONDS \in Nat \ {0}

VARIABLES
  pc, command, exit,            \* control, the command line, the exit code
  pids, opened, failed, idle,   \* info's work list and counters
  report,                       \* read_device's readings of the device at hand
  before, after, tick, verdict, \* set-device-mode's watch for a disconnect
  listed,                       \* history: the nodes info enumerated
  sent,                         \* history: what reached a device, and on which node
  start,                        \* history: the log's true count at the first look
  blind, lost                   \* history: a count read was not the log's; the device
                                \* written to was already gone at the last look

watchVars == <<before, after, tick, verdict>>
cliVars == <<command, exit, pids, opened, failed, idle, report, watchVars>>
history == <<listed, sent, start, blind, lost>>
vars == <<enumVars, pc, cliVars, history>>

KEYBOARD == 653      \* 0x028D
Unread == -1         \* disconnect_count() = None

Init ==
  /\ EnumInit
  /\ pc = "main" /\ command \in Commands /\ exit = "none"
  /\ pids = <<>> /\ opened = 0 /\ failed = 0 /\ idle = 0 /\ report = <<>>
  /\ before = Unread /\ after = Unread /\ tick = 0 /\ verdict = "none"
  /\ listed = <<>> /\ sent = {} /\ start = 0 /\ blind = FALSE /\ lost = FALSE

Exit(code) == pc' = "exited" /\ exit' = code /\ fd' = Closed

-----------------------------------------------------------------------------
(* main() and list(). *)

(* Mutant: a --transaction-id that does not parse is ignored.               *)
accepted_any_tid(c) == c.mode # "other" /\ c.at_desk

accepted(c) == c.mode # "other" /\ c.at_desk /\ c.flag \notin BadFlag

(* list and info enumerate every node; set-device-mode parses its arguments *)
(* before it touches anything and then looks for the keyboard.              *)
Main ==
  /\ pc = "main"
  /\ \/ /\ command.name \in {"list", "info"}
        /\ pc' = "listing" /\ ReadDir(EveryNode) /\ UNCHANGED exit
     \/ /\ command.name = "set-device-mode" /\ accepted(command)
        /\ pc' = "finding"
        /\ ReadDir(Target(KEYBOARD, lookup(KEYBOARD).report_index)) /\ UNCHANGED exit
     \/ /\ command.name = "--version"
        /\ Exit("success")
        /\ UNCHANGED <<busVars, walkVars, steady, fresh>>
     \/ /\ command.name = "other" \/ (command.name = "set-device-mode" /\ ~accepted(command))
        /\ Exit("failure")
        /\ UNCHANGED <<busVars, walkVars, steady, fresh>>
  /\ UNCHANGED <<command, pids, opened, failed, idle, report, watchVars, history>>

Walking ==
  /\ Walk
  /\ UNCHANGED <<pc, cliVars, history>>

(* The walk's result is taken: its state goes back to idle.                 *)
TakeWalk == wpc = "done" /\ wpc' = "idle"
WalkTaken == <<want, names, path, vendor>>

(* Distinct supported pids in enumeration order.                            *)
Supported(ns) ==
  LET ids == [k \in 1..Len(ns) |-> ns[k].info.product_id]
      new == {k \in 1..Len(ids) : supported(ids[k]) /\ \A j \in 1..(k - 1) : ids[j] # ids[k]}
  IN  [k \in 1..Cardinality(new) |-> ids[sort_by_index(new)[k]]]

(* The walk was list()'s: its rows are printed, or its error.               *)
ListEnd ==
  /\ pc = "listing" /\ command.name = "list" /\ TakeWalk
  /\ Exit(IF outcome = "Ok" THEN "success" ELSE "failure")
  /\ found' = <<>> /\ outcome' = "none"
  /\ UNCHANGED <<busVars, WalkTaken, steady, fresh, command, pids, opened, failed, idle,
                 report, watchVars, history>>

(* info() goes on with the devices it knows; none is a success, a failed    *)
(* walk a failure.                                                          *)
Listed ==
  /\ pc = "listing" /\ command.name = "info" /\ TakeWalk
  /\ IF outcome # "Ok" THEN Exit("failure") /\ UNCHANGED pids
     ELSE IF Supported(found) = <<>> THEN Exit("success") /\ UNCHANGED pids
     ELSE pc' = "device" /\ pids' = Supported(found) /\ UNCHANGED <<exit, fd>>
  /\ found' = <<>> /\ outcome' = "none"
  /\ listed' = IF outcome = "Ok" THEN found ELSE <<>>
  /\ UNCHANGED <<busVars, WalkTaken, steady, fresh, command, opened, failed, idle,
                 report, watchVars, sent, start, blind, lost>>

-----------------------------------------------------------------------------
(* info(). *)

NextDevice ==
  /\ pc = "device" /\ pids # <<>>
  /\ ReadDir(Target(Head(pids), lookup(Head(pids)).report_index))
  /\ pc' = "finding"
  /\ UNCHANGED <<cliVars, history>>

(* opened = 0 with a failure is the only way to fail.                       *)
InfoEnd ==
  /\ pc = "device" /\ pids = <<>>
  /\ Exit(IF opened = 0 /\ failed > 0 THEN "failure" ELSE "success")
  /\ UNCHANGED <<busVars, walkVars, steady, fresh, command, pids, opened, failed, idle,
                 report, watchVars, history>>

(* Mutants: the failure is not counted; the loop does not move on;          *)
(* set-device-mode starts over.                                             *)
GiveUpUncounted ==
  IF command.name = "info"
  THEN /\ pc' = "device" /\ pids' = Tail(pids)
       /\ fd' = Closed /\ UNCHANGED <<exit, failed>>
  ELSE Exit("failure") /\ UNCHANGED <<pids, failed>>

GiveUpStays ==
  IF command.name = "info"
  THEN /\ pc' = "device" /\ failed' = failed + 1
       /\ fd' = Closed /\ UNCHANGED <<exit, pids>>
  ELSE Exit("failure") /\ UNCHANGED <<pids, failed>>

GiveUpNever ==
  IF command.name = "info"
  THEN /\ pc' = "device" /\ pids' = Tail(pids) /\ failed' = failed + 1
       /\ fd' = Closed /\ UNCHANGED exit
  ELSE pc' = "main" /\ fd' = Closed /\ UNCHANGED <<exit, pids, failed>>

(* A device that cannot be found or opened ends set-device-mode, and is     *)
(* counted by info, which goes on with the next.                            *)
GiveUp ==
  IF command.name = "info"
  THEN /\ pc' = "device" /\ pids' = Tail(pids) /\ failed' = failed + 1
       /\ fd' = Closed /\ UNCHANGED exit
  ELSE Exit("failure") /\ UNCHANGED <<pids, failed>>

Found ==
  /\ pc = "finding" /\ TakeWalk
  /\ IF outcome = "Ok"
     THEN /\ pc' = IF command.name = "info" THEN "open" ELSE "before"
          /\ UNCHANGED <<pids, failed, exit, fd, found>>
     ELSE GiveUp /\ found' = <<>>
  /\ outcome' = "none"
  /\ UNCHANGED <<busVars, WalkTaken, steady, fresh, command, opened, idle, report,
                 watchVars, history>>

Open ==
  /\ pc = "open"
  /\ \E h \in open(found[1].minor) :
       IF h.open THEN pc' = "confirm" /\ fd' = h /\ UNCHANGED <<pids, failed, exit, found>>
       ELSE GiveUp /\ found' = <<>>
  /\ UNCHANGED <<busVars, wpc, outcome, WalkTaken, steady, fresh, command, opened, idle,
                 report, watchVars, history>>

ThePid == IF command.name = "info" THEN Head(pids) ELSE KEYBOARD

Confirm ==
  /\ pc = "confirm"
  /\ IF confirmed(fd, ThePid)
     THEN IF command.name = "info"
          THEN pc' = "read" /\ opened' = opened + 1 /\ UNCHANGED <<pids, failed, exit, fd>>
          ELSE pc' = "write" /\ UNCHANGED <<pids, opened, failed, exit, fd>>
     ELSE GiveUp /\ UNCHANGED opened
  /\ found' = <<>>
  /\ UNCHANGED <<busVars, wpc, outcome, WalkTaken, steady, fresh, command, idle, report,
                 watchVars, history>>

Reports == <<"firmware_version", "serial", "get_device_mode">>

(* A request that reached a device, on which interface, and whether the     *)
(* node could be stale.                                                     *)
Request(op, tid) ==
  [op |-> op, tid |-> tid, pid |-> ThePid, device |-> fd.device, number |-> fd.number,
   fresh |-> fresh]

(* Reading::classify of a session call: a dead fd is an I/O failure.        *)
classify == IF fd.live THEN {"Value", "ReceiverIdle", "Failed"} ELSE {"Failed"}

(* Mutant: only the opening probe is classified.                            *)
done_reading_first(r) == Len(r) = Len(Reports) \/ r = <<"ReceiverIdle">>

(* read_device stops at the first reading that finds the receiver idle.     *)
done_reading(r) == Len(r) = Len(Reports) \/ (r # <<>> /\ Last(r) = "ReceiverIdle")

Read ==
  /\ pc = "read" /\ ~done_reading(report)
  /\ \E reading \in classify : report' = Append(report, reading)
  /\ sent' = IF fd.live
             THEN sent \cup {Request(Reports[Len(report) + 1], lookup(ThePid).transaction_id)}
             ELSE sent
  /\ UNCHANGED <<enumVars, pc, command, exit, pids, opened, failed, idle, watchVars,
                 listed, start, blind, lost>>

receiver_idle(r) == \E k \in 1..Len(r) : r[k] = "ReceiverIdle"

(* The device's lines are printed, the idle ones counted, the fd dropped.   *)
ReportDevice ==
  /\ pc = "read" /\ done_reading(report)
  /\ idle' = IF receiver_idle(report) THEN idle + 1 ELSE idle
  /\ pids' = Tail(pids) /\ report' = <<>> /\ fd' = Closed /\ pc' = "device"
  /\ UNCHANGED <<busVars, walkVars, steady, fresh, command, exit, opened, failed, watchVars,
                 history>>

-----------------------------------------------------------------------------
(* set_device_mode(). *)

(* journalctl's "USB disconnect" lines, or None when it cannot be run.  Its *)
(* exit status is not looked at: one that runs and fails is counted by what *)
(* it printed, which may be nothing.                                        *)
disconnect_count == (0..disconnects) \cup {Unread}

Before ==
  /\ pc = "before"
  /\ before' \in disconnect_count
  /\ start' = disconnects
  /\ blind' = (before' # disconnects)
  /\ pc' = "open"
  /\ UNCHANGED <<enumVars, command, exit, pids, opened, failed, idle, report, after, tick, verdict,
                 listed, sent, lost>>

(* The session call, whatever its result: the result is only printed.       *)
Write ==
  /\ pc = "write"
  /\ sent' = IF fd.live
             THEN sent \cup {Request("set_device_mode",
                               IF command.flag = "hex" THEN command.tid
                               ELSE lookup(KEYBOARD).transaction_id)}
             ELSE sent
  /\ pc' = "watch"
  /\ UNCHANGED <<enumVars, cliVars, listed, start, blind, lost>>

(* Mutant: exactly one more.                                                *)
grew_by_one(b, a) == b # Unread /\ a # Unread /\ a = b + 1

(* Mutant: any disconnect of the boot will do.                              *)
grew_since_boot(b, a) == b # Unread /\ a # Unread /\ a > 0

(* The last "USB disconnect" count is above the first.                      *)
grew(b, a) == b # Unread /\ a # Unread /\ a > b

(* Mutant: one second too many.                                             *)
WatchTooLong ==
  /\ pc = "watch" /\ tick <= WATCH_SECONDS
  /\ after' \in disconnect_count
  /\ blind' = (blind \/ after' # disconnects)
  /\ IF grew(before, after')
     THEN Exit("success") /\ verdict' = "disconnect" /\ UNCHANGED <<tick, lost>>
     ELSE tick' = tick + 1 /\ lost' = ~fd.live /\ UNCHANGED <<pc, exit, fd, verdict>>
  /\ UNCHANGED <<busVars, walkVars, steady, fresh, command, pids, opened, failed, idle,
                 report, before, listed, sent, start>>

(* One second of the watch.                                                 *)
Watch ==
  /\ pc = "watch" /\ tick < WATCH_SECONDS
  /\ after' \in disconnect_count
  /\ blind' = (blind \/ after' # disconnects)
  /\ IF grew(before, after')
     THEN Exit("success") /\ verdict' = "disconnect" /\ UNCHANGED <<tick, lost>>
     ELSE tick' = tick + 1 /\ lost' = ~fd.live /\ UNCHANGED <<pc, exit, fd, verdict>>
  /\ UNCHANGED <<busVars, walkVars, steady, fresh, command, pids, opened, failed, idle,
                 report, before, listed, sent, start>>

(* The count is read once more and printed, and not compared.               *)
WatchEnd ==
  /\ pc = "watch" /\ tick = WATCH_SECONDS
  /\ after' \in disconnect_count
  /\ verdict' = IF before = Unread \/ after' = Unread THEN "silent" ELSE "no reset"
  /\ Exit("success")
  /\ UNCHANGED <<busVars, walkVars, steady, fresh, command, pids, opened, failed, idle,
                 report, before, tick, history>>

-----------------------------------------------------------------------------
Process ==
  \/ Main \/ Walking \/ ListEnd \/ Listed \/ NextDevice \/ InfoEnd \/ Found \/ Open \/ Confirm
  \/ Read \/ ReportDevice \/ Before \/ Write \/ Watch \/ WatchEnd

Environment == Hotplug /\ pc # "exited" /\ UNCHANGED <<pc, cliVars, history>>

Exited == pc = "exited" /\ UNCHANGED vars

Next == Process \/ Environment \/ Exited

Spec == Init /\ [][Next]_vars

(* The process is scheduled; every system call it makes returns.            *)
FairSpec == Spec /\ WF_vars(Process)

-----------------------------------------------------------------------------
(* Properties. *)

(* Every variable has its type.                                             *)
TypeOK ==
  /\ EnumTypeOK
  /\ pc \in {"main", "listing", "device", "finding", "before", "open", "confirm", "read",
             "write", "watch", "exited"}
  /\ command \in Commands /\ exit \in {"none", "success", "failure"}
  /\ pids \in Seq(Nat) /\ opened \in Nat /\ failed \in Nat /\ idle \in Nat
  /\ report \in Seq({"Value", "ReceiverIdle", "Failed"}) /\ Len(report) <= Len(Reports)
  /\ before \in -1..MaxDisconnects /\ after \in -1..MaxDisconnects
  /\ tick \in 0..WATCH_SECONDS /\ verdict \in {"none", "disconnect", "silent", "no reset"}
  /\ start \in 0..MaxDisconnects /\ blind \in BOOLEAN /\ lost \in BOOLEAN

(* transport.rs's reason for open_expecting: however devices are swapped    *)
(* between the walk and the open, no report of razerd's is written into     *)
(* anything but a Razer device with the product id it was meant for.        *)
ReachesTheDeviceMeant ==
  \A r \in sent : r.device.vendor_id = VENDOR_ID /\ r.device.product_id = r.pid

(* The interface number is the whole story (enumerate.rs): a request goes   *)
(* to the control interface unless something was unplugged after its node   *)
(* was resolved.                                                            *)
ControlInterfaceUnlessReplugged ==
  \A r \in sent : r.fresh => r.number = lookup(r.pid).report_index

(* The same without the exception, as transport.rs has it: HIDIOCGRAWINFO   *)
(* closes the window between the walk and the open.                         *)
ControlInterface ==
  \A r \in sent : r.number = lookup(r.pid).report_index

(* set-device-mode writes only what the user asked for and confirmed: with  *)
(* the transaction id given, or the table's when none was given.            *)
WritesAreDeliberate ==
  \A r \in sent : r.op = "set_device_mode" =>
     /\ command.name = "set-device-mode" /\ command.mode # "other" /\ command.at_desk
     /\ \/ command.flag = "absent" /\ r.tid = lookup(r.pid).transaction_id
        \/ command.flag = "hex" /\ r.tid = command.tid

ProductIds(ns) == {n.info.product_id : n \in ToSet(ns)}

(* info's books (main.rs, end of info): each distinct supported product id  *)
(* listed is opened, failed or still to come, never twice; an idle receiver *)
(* was opened; and after a listing that found something, success means that *)
(* at least one device was opened.                                          *)
InfoAccounts ==
  (pc \in {"device", "exited"} /\ command.name = "info") =>
     /\ opened + failed + Len(pids) = Cardinality({p \in ProductIds(listed) : supported(p)})
     /\ idle <= opened
     /\ (pc = "exited" /\ opened + failed > 0) => (exit = "success" <=> opened > 0)

(* read_device: once a reading finds the receiver idle nothing more is      *)
(* asked of that device.                                                    *)
NothingAfterIdle ==
  [][\A k \in 1..Len(report) : report[k] = "ReceiverIdle" => sent' = sent]_vars

(* How far info is from its end: devices, steps of the device in hand, and  *)
(* accesses of the walk or readings to come.                                *)
Distance ==
  <<CASE pc = "main" -> Len(TABLE) + 2 [] pc = "listing" -> Len(TABLE) + 1
      [] pc = "exited" -> -1 [] OTHER -> Len(pids),
    CASE pc = "device" -> 4 [] pc = "finding" -> 3 [] pc = "open" -> 2 [] pc = "confirm" -> 1
      [] OTHER -> 0,
    CASE wpc = "resolve" -> 3 * Len(names) + 2 [] wpc = "idVendor" -> 3 * Len(names) + 1
      [] wpc = "idProduct" -> 3 * Len(names) [] wpc = "done" -> 1
      [] OTHER -> Len(Reports) - Len(report)>>
Nearer(x, y) == \E k \in DOMAIN y : x[k] < y[k] /\ \A j \in 1..(k - 1) : x[j] = y[j]

(* Every step of info brings it nearer to its end, whatever comes and goes  *)
(* on the bus: with three interleaved loops, over nodes, readings and       *)
(* devices, none can start over.                                            *)
InfoGetsOn ==
  [][command.name = "info" /\ <<pc, wpc, names, report>>' # <<pc, wpc, names, report>>
     => Nearer(Distance', Distance)]_vars

(* The watch: if every look of the loop counted what the log held, a        *)
(* keyboard that is gone at the last of them is not given "no reset".  A    *)
(* journalctl that fails, by not running or by printing less than the log,  *)
(* can have it given: nothing tells razerd that it failed.                  *)
NoResetIsSeen ==
  (verdict = "no reset" /\ ~blind) => ~lost

(* "no reset within 90 s" is printed only over a count that did not grow,   *)
(* at least when every look of the loop counted what the log held.          *)
NoResetIsHonest == (verdict = "no reset" /\ ~blind) => after <= before

(* If the first look counted all that the log held, the watch blames the    *)
(* write only when some device has left the bus since: whatever the later   *)
(* looks miss, no earlier disconnect of the boot is held against it.  After *)
(* a first look that counted short an earlier one is.                       *)
BlameIsBacked == (verdict = "disconnect" /\ before = start) => disconnects > start

(* Whatever is plugged and unplugged meanwhile, the command ends.           *)
CommandEnds == <>(pc = "exited")
=============================================================================
