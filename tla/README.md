# A TLA+ model of openrazer_rust

`openrazer_rust` drives Razer keyboards and mice from user space: it sends
90-byte feature reports through `/dev/hidraw*` instead of through OpenRazer's
kernel module. This directory models its core, checks the model with TLC and
proves the safety properties with TLAPS.

## Inventory

| Part | State | Operations | Works with |
|---|---|---|---|
| `razer-proto` | none | report encoding, checksum, command constructors, `check_request`, `check_response`, parsers | called by `Session` |
| `razer-devices` | constant table | `lookup`, `contains` | called by `Session`, `razerd` |
| `razer-hid` `Session` | transaction id, `last_attempts`, `last_response_transaction_id` | `send`, `transact_raw`, `transact`, nine typed operations | the device, through two ioctls |
| `razer-hid` transport | one file descriptor | `open`, `open_expecting`, `raw_info`, `set_feature`, `get_feature` | the kernel |
| `razer-hid` enumeration | none | `find_device`, `list_razer_nodes` over sysfs | the kernel's hidraw nodes |
| `razerd` commands | work list, counters, exit code | `list`, `info`, `set-device-mode` | enumeration, transport, `Session`, the kernel log |
| `razerd` metrics registry | maps and counters under a `Mutex` | `record_transaction`, `set_device_state`, `record_poll`, `render` | a poller (not written yet), the endpoint |
| `razerd` host state | none | `read_sysfs_state`, `usb_parent_dir` | sysfs, while the bus changes |
| `razerd` metrics endpoint | one connection at a time | `serve`, `handle` | HTTP peers, the registry |
| `usb_replug.py` | `disabled` flag, hub port | disable, re-enable, wait | signals, atexit, the hub |
| `razer-recover` | drivers bound to interfaces | stop daemons, unload, rebind | systemd, which may kill it, and sysfs |
| mocks, `validate_hidraw.py`, units, udev and polkit rules | | | test doubles, a diagnostic, configuration |

What is hard here, and what makes each part correct:

* **Session.** GET returns whatever the reply buffer holds: a late reply, or a
  reply to another host. A retry repeats the SET, and one wrong byte 1 is what
  the project exists to avoid. Correct means: only the checked, stamped request
  goes out, at most five times, spaced, never after a transport error; only an
  answer to that command is accepted; the call returns.
* **Enumeration and opening.** Devices come and go between every two
  file-system accesses, and minors are reused. Correct means: the lowest
  matching node on a bus that holds still, and no report into another device on
  one that does not.
* **Commands.** One device of several fails; a receiver goes idle between two
  reads; the keyboard disconnects during, before or after the watch. Correct
  means honest counters, exit codes and verdicts, and no write nobody asked for.
* **Metrics.** Recorders write eight maps and counters while a page is rendered,
  and may die half way; one thread serves peers that may be silent or endless.
  Correct means: a page is one instant of the registry, a label is read as it was
  written, no page shows half of a call, every connection is let go of.
* **Host state.** Five file accesses, between any two of which the device may
  leave or its driver change. Correct means exact on a bus that holds still.
* **razer-recover.** Every command may fail, systemd may kill the run between any
  two, and openrazer's udev helper works on the same interfaces. Correct means: whatever failed, no Razer interface is left
  without a driver, razerkbd has none, and nobody else's device is touched.
* **usb_replug.py.** A signal handler between any two steps, clean-up code
  included. Correct means the port always comes back.

`PROJECT.json` lists the hazards line by line, each with the properties that
watch it.

## Modules

| Module | Models | Kind |
|---|---|---|
| `RazerProto` | `razer-proto` | operators |
| `DeviceTable` | `razer-devices` | operators |
| `Session` | `session.rs`, `error.rs`, the two ioctls of `transport.rs`, a device | state machine |
| `CallSpec` | what one call of `Session` promises its caller | abstract specification |
| `MCSession` | instances of `Session` | model |
| `SessionProofs` | theorems about `Session` and its refinement | proofs |
| `ReadBackProofs` | theorems about `Session` with a prompt device of its own | proofs |
| `Enumerate` | `enumerate.rs`, `sysfs.rs`, `open_expecting`, the USB bus | variables and actions, no specification of its own |
| `EnumerateProofs` | lemmas about the sort, the bus and the walk | proofs |
| `Razerd` | `main.rs`, composed with `Enumerate` | state machine |
| `MCRazerd` | instances of `Razerd` | model |
| `RazerdProofs` | theorems about `Razerd` and the walk in it | proofs |
| `Metrics` | the registry of `metrics.rs`: its recording calls and `render` | variables and actions |
| `Registry` | what a scrape shows, counted from the calls recorded | abstract specification |
| `Scrape` | `serve` and `handle` of `metrics.rs`, composed with `Metrics` | state machine |
| `MCScrape` | an instance of `Scrape` | model |
| `ScrapeProofs` | theorems about `Scrape` and the registry in it | proofs |
| `HidBus` | the kernel's HID bus (external) | variables and actions |
| `HostState` | `read_sysfs_state` and `usb_parent_dir` of `metrics.rs` on `HidBus` | variables and actions |
| `Recover` | `tools/recovery/razer-recover`, composed with `HostState` | state machine |
| `MCRecover` | an instance of `Recover` | model |
| `RecoverProofs` | theorems about `Recover` and the reader in it | proofs |
| `UsbReplug` | `tools/usb_replug.py` | state machine |
| `UsbReplugProofs` | theorems about `UsbReplug` | proofs |

**RazerProto.** A report is a record with the source's field names. The wire
form splits `remaining_packets` into its two big-endian bytes and carries the
XOR checksum of bytes 2 to 87; the argument array keeps the nine slots that any
command writes or any parser reads. `check_request`, `check_response` and the
parsers return the source's error variants.

**Session.** `pc` names the step the calling thread is at: `send` (check, stamp
and `HIDIOCSFEATURE`), `wait`, `get` (`HIDIOCGFEATURE` and what `transact` makes
of the response), `retry` (the 10 ms sleep), `idle`. A call is chosen by
`Call`, `CallUnsupported`, `CallUnencodable` or `CallRaw`; the loop variable,
`last_attempts` and `last_response_transaction_id` are assigned where the code
assigns them. The device is external: a one-slot command register, a one-slot
reply buffer and its settings. It answers when it likes, with any status byte of
`AnswerBytes`, perhaps with an odd transaction id or size; a Busy answer may or
may not have carried out the command. A second host may overwrite the command
register, the cable may be pulled, and a failed SET may or may not have arrived.
With `Prompt` the device answers within the entry's wait, which is the
assumption behind the fixed sleep in the code. Times are in microseconds;
`since` is the time slept since the last SET.

**CallSpec.** A call has one frame and a budget: five deliveries for `transact`,
one for `send` and `transact_raw`. It is refused (nothing delivered), or it
delivers its frame some number of times and returns `answered`, `unreadable`,
`faulted` or `exhausted`; the outcome bounds what was delivered, and nothing is
delivered after a fault. There is no device, clock or loop in it. `Session` maps
its request, policy, history and result to it (`Abstract`, `Outcome`), so
`KeepsContract` says what a caller may conclude from an error about a write that
may have happened.

**Enumerate.** `bus` maps ports to devices and `nodes` maps minors to
interfaces. The walk takes one step per access that can race: `read_dir`,
`canonicalize` together with the `is_file` checks, `idVendor`, and the remaining
attributes. An interface's sysfs path is its port and number, so it dies with
the device and lives again with the next device in that port. A file descriptor
stays with the device it was opened on and goes dead with it.

**Razerd.** One process runs one command line. `info` and `set-device-mode`
share `Found`, `Open` and `Confirm`; `GiveUp` is the difference between one
device's failure and the command's. A session call is one step, with the
outcomes that `Session` gives it. `disconnects` counts the kernel log's
"USB disconnect" lines. A look at it (`disconnect_count`) finds no `journalctl`
to run, or finds one whose exit status is not checked and so counts anything from
nothing to all of the lines. `start` remembers how many there were at the first
look and `blind` whether a look missed any: a program that is told less than
the log holds can report no more than that, so `NoResetIsSeen` speaks of runs in
which no look was blind and `BlameIsBacked` of runs whose first look was not.

**Metrics.** `at` is the statement each thread is at, `lock` the holder of the
`Mutex`. Each update between lock and unlock is a step: a recording call
increments the transactions, then the attempts, then the histogram, then the
errors. `Panic` is an unwinding with the guard held: it poisons the lock, after
which recording calls return without effect and `render` says so. No statement
of today's code panics there; the poisoned branches are the code's own defence
and are modelled as such. `render` is four steps (lock, devices, signals, self)
and its output is the set of its sample lines. A text is a sequence of pieces,
of which `\`, `"`, newline and carriage return are characters, so that the four
passes of `escape` can be told from any other order; `Special` and `Replaced`
tabulate them, as TLC would otherwise run the passes in every state. Durations are in
microseconds. `HELP` and `TYPE` lines, the build and the uptime gauge are left
out.

**Registry.** The abstract endpoint: a log of finished calls, and a page computed
from the log by counting it at one instant between request and answer, or the
notice that the registry is broken. `Scrape` maps a page to it by decoding its
labels the way a reader of the exposition format does (`Unquoted`): `\\`, `\"`
and `\n` are the format's escapes and any other backslash stands as written. A
carriage return, which the code writes as `\r`, is therefore read as a backslash
and an `r`, and `Registry` says so (`Legible`); every other label is read as it
was recorded. A page shows the device states that were last handed to
`set_device_state`, host facts included: nothing in `render` or `handle` reads
them again.

**Scrape.** A peer hands over one byte at a time (new line, white space, other),
closes, or fails; failing includes `IO_TIMEOUT` and bytes that are not UTF-8.
`got` counts the bytes of the line, `headers` the lines, `waits` every read or
write that could block. The target is chosen when the request line ends; one
that is not found and one that is missing are alike.

**HidBus, HostState, Recover.** A device plugged in again is another one, with a
new devnum and new instance numbers. `HostState` reads one file per step while
the bus moves; `steady` remembers whether it did. `Recover` takes one step per
command, each with its failure, and runs beside devices that come and go,
`modprobe`, openrazer's two-write rebinding and razerd's reader, which it kills
on the way. `excused` and `stuck` record why an interface may be left orphaned
or with razerkbd: a refused bind, a loss after the script had looked, a module
that the test did not see, that could not be unloaded or that came back. The test
is `lsmod | grep -q` under `pipefail`, which is also false when `lsmod` fails or
dies of SIGPIPE. `TimedOut` is the unit's `TimeoutStartSec`: a run is killed at
any statement and may be started again. Both runs of the script share the bus and
nothing else.

**UsbReplug.** `main` is the statement, `calls` the stack of `reenable()`
activations. A text file buffers: the kernel sees the digit when the file is
closed, on whatever path its `with` block is left. `Raise` is SystemExit leaving
every block, `RaiseSwallowed` SystemExit replaced by the OSError of a flush that
fails on the way, which `reenable()` catches: the interrupted activation returns
as if no signal had come, and the program may go on to its wait loop.

## Runs

| Run | Shows | Result |
|---|---|---|
| `session_shared` | `WireDiscipline`, `AttemptAccounting`, `AcceptedAnswersRequest`, `RetrySpacing` with a slow device, a second host, an unplug, transport errors, an overridden id | holds |
| `session_prompt` | `FreshAnswer`, `ReadBack` and the first two again, for all typed operations on four entries | holds |
| `session_returns` | `CallReturns`; `KeepsContract`, the refinement of `CallSpec` | holds |
| `razerd_set` | `ReachesTheDeviceMeant`, `ControlInterfaceUnlessReplugged`, `WritesAreDeliberate`, `NoResetIsSeen`, `BlameIsBacked`, `CommandEnds` | holds |
| `razerd_info` | `WalkIsExact`, `ReachesTheDeviceMeant`, `InfoAccounts`, `NothingAfterIdle`, `InfoGetsOn` | holds |
| `metrics_scrape` | `ImplementsRegistry`, the refinement of `Registry`; `FiguresAgree`: in a rendered registry the counters of one call agree; `Occupancy`; `EveryScrapeEnds` | holds |
| `recover` | `NothingLeftOrphaned`, `EndsOnGeneric`, `BystandersUntouched`, with runs that are killed half way; `SteadyReadingIsExact` of the reader beside it | holds |
| `replug_safe` | `PortReenabledUnlessTorn`, `DownIsFlagged`, `Terminates` | holds |
| `razerd_window` | `ControlInterface`: re-enumeration between walk and open | violated |
| `razerd_watch` | `NoResetIsHonest`: the last count is printed, not compared | violated |
| `recover_stray` | `DaemonsStopped`: `pkill -x` with a 16-character name | violated |
| `replug_torn` | `PortReenabled`, as the docstring promises it | violated |

The violated runs are the findings of `PROJECT.json`. Three concern behaviour: a
signal between `f.write('1')` and the close of the file leaves the port of
`usb_replug.py` down with the flag already cleared; `set-device-mode` can
print "no reset" next to a count that has grown; and `razer-recover`'s
`pkill -x openrazer-daemon` can match no process, because the kernel keeps 15
characters of a process name, so a daemon whose unit could not be stopped runs on.
The fourth is a place where a comment promises more than the code does.

Divergences met on the way that have no run:

* `error.rs:112` says `is_receiver_idle` is true when the device answered
  "consistently" with `RAZER_CMD_TIMEOUT`; it looks at the last of the five
  attempts only.
* `sysfs.rs:138` says a node that has just been unplugged is not an error; one
  that leaves after its link was resolved makes `read_hex` fail and ends the
  whole walk.
* The head of `main.rs` says that nothing in the binary writes to a device, which
  `set-device-mode` does; its usage text says that `info` reads each supported
  device, but of two devices of one model it reads the one with the lower node.
* `session.rs` says that a `last_attempts` of 1 means success at the first
  attempt, but a first attempt that ends in a transport error leaves it at 1 too.
* `read_sysfs_state` goes up from a device that has left to its hub and returns
  the hub's devnum, and looks for the product id of any vendor.
* `main.rs:126` calls the count of disconnects "the same evidence the whole
  investigation rests on", but `disconnect_count` does not look at `journalctl`'s
  exit status: one that runs and fails (no access, no journal) counts as few as 0.
  If that is the first look, disconnects from before the write are blamed on it;
  if it is a later one, a reset can go unseen.
* `metrics.rs:14-16` says that devnum, driver and presence are re-read on every
  scrape. `read_sysfs_state` has no caller in the binary, and a page shows what
  `set_device_state` was last given.
* `escape` writes a carriage return as `\r`, which the exposition format does not
  define: a reader takes it for a backslash and an `r` or, if it is strict, refuses
  the page.
* `razer-recover:43` tests for the module with `lsmod | grep -q` under the
  `pipefail` of line 15: `grep` leaves at its first match, `lsmod` may die of
  SIGPIPE, and the module then counts as not loaded and stays.
* In `razer-recover`'s report `readlink -f` prints the path of a `driver` link
  that does not exist, so an orphan shows as `driver`, never as `NONE`.

### Bounds

* `Session`: the source's five attempts. In `session_shared` one entry, one
  override, the statuses that accept and reject, two foreign frames and the calls
  that read, write and are malformed; a stale or foreign reply needs two calls or
  two attempts, and calls repeat without limit. `session_prompt` adds the other
  entries (no capability, unknown LED, mouse), two initial settings and every
  typed operation: the encodings differ by entry, so one of each kind is enough.
* `Razerd`: two ports, three minors (one interface more than one keyboard has,
  so that minors permute on re-enumeration), one or two disconnects: a swap
  takes one, and a count that jumps by two takes two. `WATCH_SECONDS` is 1 or 2
  for 90: the looks are alike. The kinds are a keyboard with two interfaces, a
  mouse, another vendor's device with the same product id, and a Bluetooth
  device.
* `Scrape`: two recorders and two recorded calls out of seven, so that one can be
  half way while the other waits and a page is rendered, and so that two calls
  meet in one series or in two whose names differ only by an escape. Lines of two
  bytes, two headers and a response of two bytes stand for 8192, 64 and the page:
  the code compares only with the limit, so below it, at it and above it are all
  the cases. The buckets are the source's eleven; the serial is not opted in.
* `Recover`: a keyboard with two interfaces, the same keyboard replugged, another
  vendor's device with the same product id, one foreign unbind, and two runs of
  the script, as it is said to be safe to run again; the first may be killed
  with any part of its work done.
* `UsbReplug`: two signals, so that a handler can be interrupted by another, and
  three polls for 25.

### Fairness

`CallReturns`, `CommandEnds` and `Terminates` assume weak fairness of the
program's own steps and nothing else: the thread is scheduled, sleeps end and
ioctls and file accesses return (the kernel bounds a control transfer). Nothing
is assumed of the device, the second host, the bus or the user.

`EveryScrapeEnds` assumes that the serving thread and a recorder inside a call
are scheduled and that every read and write returns, which `IO_TIMEOUT` sees to;
no peer has to connect and no recorder has to call. The `Mutex` of the standard
library is not fair, but there are finitely many recording calls in the instance,
and a poller that records once a cycle does not hold the lock for ever.

Nothing is claimed of how a run of `razer-recover` ends: the unit kills one that
takes longer than a minute, which a blocking `systemctl stop` may.

## Proofs

Every invariant and every action property that a passing run checks is also a
theorem, for every value of the constants; TLC checked each inductive invariant
on the instances of the runs before it was proved. The assumptions on the
constants are:

* `SessionAssumption`: the constants have the types the Rust declarations give
  them;
* `EnumerateAssumption`: finitely many minors, which are natural numbers, and
  vendor and product ids of 16 bits;
* `RazerdAssumption`: the command lines parse as the code parses them and the
  watch lasts at least a second;
* `MetricsAssumption`, `ScrapeAssumption`: the server is not one of the recording
  threads, a free lock is held by no thread, the limits are positive;
* `HidBusAssumption`: no two devices share a devnum or an instance number (the
  kernel hands them out from counters; the instances of the model begin at 1);
* `ReplugAssumption`, `RecoverAssumption`: the bounds are natural numbers.

| Theorem | Of | States |
|---|---|---|
| `TypeCorrect` | `SessionProofs`, `RazerdProofs`, `ScrapeProofs`, `RecoverProofs`, `UsbReplugProofs` | `TypeOK` |
| `WireDisciplined`, `AttemptsAccounted`, `AnswersMatch`, `RetriesSpaced` | `SessionProofs` | `WireDiscipline`, `AttemptAccounting`, `AcceptedAnswersRequest`, `RetrySpacing` |
| `ContractKept` | `SessionProofs` | `KeepsContract`: `Session` implements `CallSpec` |
| `AnswersFresh`, `WritesReadBack` | `ReadBackProofs` | `FreshAnswer`, `ReadBack`, if `Prompt` and no second host |
| `DeviceMeant`, `InterfaceMeant`, `Deliberate` | `RazerdProofs` | `ReachesTheDeviceMeant`, `ControlInterfaceUnlessReplugged`, `WritesAreDeliberate` |
| `ResetSeen`, `BlameBacked` | `RazerdProofs` | `NoResetIsSeen`, `BlameIsBacked` |
| `WalkExact` | `RazerdProofs` | `WalkIsExact` |
| `InfoAccounted`, `IdleIsLast`, `InfoDescends` | `RazerdProofs` | `InfoAccounts`, `NothingAfterIdle`, `InfoGetsOn` |
| `Occupied`, `Agreement` | `ScrapeProofs` | `Occupancy`, `FiguresAgree` |
| `NoOrphans`, `Generic`, `Bystanders`, `SteadyReading` | `RecoverProofs` | `NothingLeftOrphaned`, `EndsOnGeneric`, `BystandersUntouched`, `SteadyReadingIsExact` |
| `Reenabled`, `Flagged` | `UsbReplugProofs` | `PortReenabledUnlessTorn`, `DownIsFlagged` |

In each module one inductive invariant holds initially and is preserved by every
action, one step per action, and the theorems follow from it. Few of the
properties are inductive alone; what the invariant adds is this.

**Session.** `IInv` adds three parts. `Progress` ties the history to the control:
at each `pc`, how many SETs were made and how many responses were rejected, in
terms of the attempt number; with it a call that ends has accounted for its SETs.
`Justified` says that what is in progress was let in: the request that is about
to be sent again has passed `check_request`, the call its capability guard, and
every frame sent is that request stamped. `Spacing` says how long the thread has
slept at each `pc` since the last SET. The device's actions are settled by one
frame lemma, as they leave the host and the history alone. The refinement rests
on `IInv` too: `AbstractStep` gives, for each action, the abstract action it is
or the stutter, and `Progress` supplies what the abstract guards ask for, that a
SET stays within the budget and that an outcome is warranted by what was
delivered. None of these theorems assumes `Prompt`.

**Session with a prompt device of its own.** `SoleInv` follows the one command
through the device: after a SET the register holds this attempt's frame until it
is answered and is empty when the reply is read (`Fresh`); a successful answer
says what the device holds (`Answered`); after an accepted one nothing is pending
that could change the settings (`Settled`). That answers say so is a fact about
operators, proved for every entry and argument: the constructors fill the slots
the device looks at (`RequestSlots`), the wire form keeps them (`StampedSlots`),
the device carries them out (`CarriedOut`), both families of poll-rate codes
invert (`CodesInvert`) and the parsers look where the answer is (`ReadsBack`).

**Enumeration and razerd.** `EnumerateProofs` first shows that the sort exists,
is unique and has the least element at its head (`Sorted`, `SortUnique`), by
counting how many elements lie below each (`RankGrows`), since induction over the
set is not available. The walk has two invariants: `WalkInv`, what it knows
however the bus changes, that until something is unplugged the name in hand still
is the interface it resolved to; and `ExactInv`, what it knows while the bus has
held still, that whatever is meant has been found or is still to come and that
all found lie below all to come. `RazerdProofs` adds the control (`ControlInv`),
what is known of the open fd (`HandleInv`: after `open_expecting` it is on the
device meant, whatever was swapped before, by `ConfirmedIsMeant` and the round
trip of the ids through `__s16`), the watch (`WatchInv`: the first look precedes
the open, so a dead fd has added to the log what `start` had of it), and `info`'s books at every
statement (`InfoInv`). `InfoDescends` shows that every step of `info` lowers a
lexicographic measure; that `info` therefore ends is `CommandEnds`' argument,
left to TLC because it needs fairness.

**Scrape.** `LockInv`: a thread is between lock and unlock exactly when it holds
the lock, and nobody holds a poisoned one. `ConnInv`: the bytes read so far pay
for every wait. `InnerInv`: unless the lock is poisoned, the counters of the
registry agree but for the one call the holder of the lock has begun; a thread
that dies there poisons it, and `render` shows no figures then.

**Recover.** `BusInv`: a driver only on an interface that is there, razerkbd only
while it is loaded. `ReaderInv`: what the reader has collected while the bus held
still. `ScriptInv`: during step 3 every orphan of Razer's is still on the list,
in hand or excused; a killed run leaves nothing of this behind, and the next one
lists its orphans afresh.

**UsbReplug.** `StackOK`: which `reenable()` activations can be nested in which.
`FlagBeforeWrite`: the flag is set before the `1` is written, and nothing but an
unwinding handler gets between. `ActivationsDid`: an activation that has written
its `0` has left the port up, with the exceptions the property names. Every way
back from an activation, a swallowed SystemExit included, is one lemma
(`ReturnKeepsInv`), whatever activations it cuts off.

Only model-checked, and why:

* `CallReturns`, `CommandEnds`, `EveryScrapeEnds`, `Terminates`: liveness under fairness is out of the prover's reach.
* `ImplementsRegistry`: the page is a sum over the log of calls and its labels go
  through `escape` and back, both recursive over data; showing that they agree
  for every log and every text takes an induction the installed provers cannot
  instantiate. `Agreement` proves the part that is about threads: no page shows
  half of a call.

## Not modelled

* Printed text, error wording, `Display`, the names of devices.
* Argument slots 9 to 79 and the ioctl request numbers.
* `read_hex` on text that is not hexadecimal, and node names that are not
  `hidrawN`: the kernel produces neither.
* The mocks (test doubles of the transport, the clock and sysfs),
  `validate_hidraw.py` (one exchange without retries, of the kind `Session`
  models), the systemd, udev and polkit files (configuration, no logic) but for
  the time-out of `razer-recover.service`.
* The poller that the metrics are made for is not written yet, and neither is a
  command that starts `serve`; recorders here make any of the calls at any time.
* The list of input nodes that `razer-recover` prints at its end, and the text of
  its report: they change nothing.

## Plan

1. Done: `RazerProto`, `DeviceTable`, `Session` with its proofs, `Enumerate`,
   `Razerd`, `UsbReplug`.
2. Done: `CallSpec` and the proof that `Session` implements it; `Metrics`,
   `Registry` and `Scrape`; `HidBus`, `HostState` and `Recover`; liveness of the
   commands.
3. Done: proofs of every invariant and action property of the passing runs.
4. Left: an abstract specification of the registry's lock, a page as one instant
   of the maps, whose refinement needs no induction over the log; shorter proofs
   of the walk.
