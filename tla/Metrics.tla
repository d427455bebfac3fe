------------------------------ MODULE Metrics ------------------------------
(***************************************************************************)
(* The metric registry of razerd (metrics.rs): any number of threads call  *)
(* record_transaction, set_device_state and record_poll, one thread calls  *)
(* render, and a Mutex keeps them apart.  Between lock and unlock every    *)
(* update is a step of its own, and a thread may panic there, which        *)
(* poisons the Mutex: from then on record calls return without effect and  *)
(* render says so.                                                         *)
(*                                                                         *)
(* A text is a sequence of pieces, so that escaping can be told from not   *)
(* escaping; an Option is a sequence of length at most one; a duration is  *)
(* in microseconds.                                                        *)
(***************************************************************************)
EXTENDS Integers, Sequences, FiniteSets, SequencesExt

CONSTANTS
  Pollers, Server,   \* the recording threads, and the one that renders
  Calls,             \* the recording calls they make
  MaxCalls,          \* recording calls in one run
  expose_serial

LATENCY_BUCKETS ==
  <<500, 1000, 2000, 5000, 10000, 25000, 50000, 100000, 250000, 500000, 1000000>>

Text == Seq(STRING)
Option(S) == {s \in Seq(S) : Len(s) <= 1}
DeviceLabels == [device: Text, pid: Text]
DeviceState ==
  [present: BOOLEAN, usb_devnum: Option(Nat), kernel_driver: Option(Text), firmware: Option(Text),
   serial: Option(Text), device_mode: Option(0..255), poll_rate_hz: Option(Nat),
   brightness: Option(0..255), transaction_id: Option(0..255)]
Call ==
  [op: {"record_transaction"}, labels: DeviceLabels, command: Text, attempts: Nat, duration: Nat,
   error: Option(Text)]
  \cup [op: {"set_device_state"}, labels: DeviceLabels, state: DeviceState]
  \cup [op: {"record_poll"}, duration: Nat, failed: BOOLEAN]

Free == "free"

ASSUME MetricsAssumption ==
  /\ Server \notin Pollers /\ Free \notin Pollers \cup {Server} /\ MaxCalls \in Nat /\ expose_serial \in BOOLEAN
  /\ \A c \in Calls : c \in Call

VARIABLES
  inner,      \* Inner, behind the Mutex
  lock,       \* the thread that holds it, or Free
  poisoned,
  at,         \* thread -> the statement it is at
  arg,        \* poller -> the call it is in, if any
  out,        \* the lines render has written
  log         \* history: the calls that ran to their end, in order

metricVars == <<inner, lock, poisoned, at, arg, out, log>>

-----------------------------------------------------------------------------
(* The maps and the histogram of Inner. *)

Histogram == [counts |-> [i \in DOMAIN LATENCY_BUCKETS |-> 0], sum |-> 0, total |-> 0]

observe(h, v) ==
  [counts |-> [i \in DOMAIN h.counts |-> h.counts[i] + IF v <= LATENCY_BUCKETS[i] THEN 1 ELSE 0],
   sum |-> h.sum + v, total |-> h.total + 1]

insert(m, k, v) == [x \in DOMAIN m \cup {k} |-> IF x = k THEN v ELSE m[x]]
entry(m, k, default) == IF k \in DOMAIN m THEN m[k] ELSE default
add(m, k, n) == insert(m, k, entry(m, k, 0) + n)

Inner ==
  [devices |-> <<>>, transactions |-> <<>>, attempts |-> <<>>, errors |-> <<>>, latency |-> <<>>,
   poll_failures |-> 0, last_poll_duration |-> 0, polls |-> 0]

InitMetrics ==
  /\ inner = Inner /\ lock = Free /\ poisoned = FALSE
  /\ arg = [p \in Pollers |-> <<>>] /\ out = {} /\ log = <<>>

-----------------------------------------------------------------------------
(* The recording threads. *)

(* The statement a call starts with once it has the lock.                   *)
FirstStep == [record_transaction |-> "transactions", set_device_state |-> "insert",
              record_poll |-> "polls"]

Enter(p) ==
  /\ at[p] = "idle"
  /\ Len(log) + Cardinality({q \in Pollers : arg[q] # <<>>}) < MaxCalls
  /\ \E c \in Calls : arg' = [arg EXCEPT ![p] = <<c>>]
  /\ at' = [at EXCEPT ![p] = "lock"]
  /\ UNCHANGED <<inner, lock, poisoned, out, log>>

Acquire(p) ==
  /\ at[p] = "lock" /\ lock = Free
  /\ IF poisoned
     THEN /\ at' = [at EXCEPT ![p] = "idle"] /\ arg' = [arg EXCEPT ![p] = <<>>]
          /\ UNCHANGED lock
     ELSE /\ at' = [at EXCEPT ![p] = FirstStep[arg[p][1].op]] /\ lock' = p
          /\ UNCHANGED arg
  /\ UNCHANGED <<inner, poisoned, out, log>>

Step(p, from, to, g) ==
  /\ at[p] = from /\ at' = [at EXCEPT ![p] = to] /\ inner' = g
  /\ UNCHANGED <<lock, poisoned, arg, out, log>>

(* The last statement: the guard is dropped behind it.                      *)
LastStep(p, from, g) ==
  /\ at[p] = from /\ at' = [at EXCEPT ![p] = "idle"] /\ inner' = g
  /\ lock' = Free
  /\ log' = Append(log, arg[p][1]) /\ arg' = [arg EXCEPT ![p] = <<>>]
  /\ UNCHANGED <<poisoned, out>>

Key(c) == <<c.labels, c.command>>

Transactions(p, c) ==
  Step(p, "transactions", "attempts",
       [inner EXCEPT !.transactions = add(@, Key(c), 1)])

Attempts(p, c) ==
  Step(p, "attempts", "latency",
       [inner EXCEPT !.attempts = add(@, Key(c), c.attempts)])

Latency(p, c) ==
  Step(p, "latency", "errors",
       [inner EXCEPT !.latency = insert(@, Key(c), observe(entry(@, Key(c), Histogram), c.duration))])

Errors(p, c) ==
  LastStep(p, "errors",
           IF c.error = <<>> THEN inner
           ELSE [inner EXCEPT !.errors = add(@, <<c.labels, c.error[1]>>, 1)])

Insert(p, c) ==
  LastStep(p, "insert", [inner EXCEPT !.devices = insert(@, c.labels, c.state)])

Polls(p, c) == Step(p, "polls", "duration", [inner EXCEPT !.polls = @ + 1])

Duration(p, c) == Step(p, "duration", "failures", [inner EXCEPT !.last_poll_duration = c.duration])

Failures(p, c) ==
  LastStep(p, "failures", IF c.failed THEN [inner EXCEPT !.poll_failures = @ + 1] ELSE inner)

Update(p) ==
  /\ arg[p] # <<>>
  /\ LET c == arg[p][1] IN
       \/ Transactions(p, c) \/ Attempts(p, c) \/ Latency(p, c) \/ Errors(p, c)
       \/ Insert(p, c)
       \/ Polls(p, c) \/ Duration(p, c) \/ Failures(p, c)

(* A panic while the guard is held: the unwinding poisons and releases.     *)
Panic(p) ==
  /\ lock = p
  /\ poisoned' = TRUE /\ lock' = Free
  /\ at' = [at EXCEPT ![p] = "dead"] /\ arg' = [arg EXCEPT ![p] = <<>>]
  /\ UNCHANGED <<inner, out, log>>

-----------------------------------------------------------------------------
(* render *)

replace(s, c, by) == FlattenSeq([i \in DOMAIN s |-> IF s[i] = c THEN by ELSE <<s[i]>>])

Special == {"\\", "\"", "\n", "\r"}

(* What the four passes of escape make of a character, one after another.   *)
Replaced ==
  [c \in Special |->
     replace(replace(replace(replace(<<c>>, "\\", <<"\\", "\\">>), "\"", <<"\\", "\"">>),
                     "\n", <<"\\", "n">>), "\r", <<"\\", "r">>)]

escape(s) == FlattenSeq([i \in DOMAIN s |-> IF s[i] \in Special THEN Replaced[s[i]] ELSE <<s[i]>>])

Line(series, labels, value) == [series |-> series, labels |-> labels, value |-> value]
Label(name, text) == <<<<name, escape(text)>>>>
render_labels(l) == Label("device", l.device) \o Label("pid", l.pid)

(* {:02X} and {:.4}.                                                        *)
HexDigit(d) == <<"0", "1", "2", "3", "4", "5", "6", "7", "8", "9", "A", "B", "C", "D", "E", "F">>[d + 1]
Hex2(b) == <<"0x", HexDigit(b \div 16), HexDigit(b % 16)>>
Ratio4(b) == (10000 * b + 127) \div 255

(* `if let Some(x)`: one label or one line, or none.                        *)
IfSome(name, option) == [i \in DOMAIN option |-> <<name, escape(option[i])>>]

DeviceLines(l, s) ==
  LET Gauge(series, more, v) == Line(series, render_labels(l) \o more, v)
      serial == IF expose_serial THEN s.serial ELSE <<>>
      extra == IfSome("firmware", s.firmware)
               \o IfSome("transaction_id", [i \in DOMAIN s.transaction_id |-> Hex2(s.transaction_id[i])])
               \o IfSome("serial", serial)
  IN  {Gauge("razer_device_info", extra, 1),
       Gauge("razer_device_present", <<>>, IF s.present THEN 1 ELSE 0)}
      \cup {Gauge("razer_device_usb_devnum", <<>>, n) : n \in ToSet(s.usb_devnum)}
      \cup {Gauge("razer_device_kernel_driver", Label("driver", d), 1) : d \in ToSet(s.kernel_driver)}
      \cup {Gauge("razer_device_mode", <<>>, m) : m \in ToSet(s.device_mode)}
      \cup {Gauge("razer_device_poll_rate_hz", <<>>, p) : p \in ToSet(s.poll_rate_hz)}
      \cup {Gauge("razer_device_brightness_ratio", <<>>, Ratio4(b)) : b \in ToSet(s.brightness)}

CounterLines(series, m, label) ==
  {Line(series, render_labels(k[1]) \o Label(label, k[2]), m[k]) : k \in DOMAIN m}

HistogramLines(k, h) ==
  LET base == render_labels(k[1]) \o Label("command", k[2])
      series == "razer_transaction_duration_seconds"
      Bucket(le, n) == Line(series \o "_bucket", base \o Label("le", <<le>>), n)
  IN  {Bucket(ToString(LATENCY_BUCKETS[i]), h.counts[i]) : i \in DOMAIN LATENCY_BUCKETS}
      \cup {Bucket("+Inf", h.total), Line(series \o "_sum", base, h.sum),
            Line(series \o "_count", base, h.total)}

PoisonedLine == Line("# registry poisoned", <<>>, 0)

(* Mutant: render tries again for as long as the lock is poisoned.          *)
RenderLockUnlessPoisoned ==
  /\ at[Server] = "render" /\ lock = Free /\ ~poisoned
  /\ out' = {} /\ at' = [at EXCEPT ![Server] = "devices"] /\ lock' = Server
  /\ UNCHANGED <<inner, poisoned, arg, log>>

(* Mutant: a poisoned lock is taken all the same.                           *)
RenderLockIgnoresPoison ==
  /\ at[Server] = "render" /\ lock = Free
  /\ out' = {} /\ at' = [at EXCEPT ![Server] = "devices"] /\ lock' = Server
  /\ UNCHANGED <<inner, poisoned, arg, log>>

RenderLock ==
  /\ at[Server] = "render" /\ lock = Free
  /\ IF poisoned
     THEN out' = {PoisonedLine} /\ at' = [at EXCEPT ![Server] = "write"] /\ UNCHANGED lock
     ELSE out' = {} /\ at' = [at EXCEPT ![Server] = "devices"] /\ lock' = Server
  /\ UNCHANGED <<inner, poisoned, arg, log>>

(* Mutant: the guard is dropped after the devices.                          *)
RenderDevicesUnlocks ==
  /\ at[Server] = "devices"
  /\ out' = out \cup UNION {DeviceLines(l, inner.devices[l]) : l \in DOMAIN inner.devices}
  /\ at' = [at EXCEPT ![Server] = "signals"] /\ lock' = Free
  /\ UNCHANGED <<inner, poisoned, arg, log>>

RenderDevices ==
  /\ at[Server] = "devices"
  /\ out' = out \cup UNION {DeviceLines(l, inner.devices[l]) : l \in DOMAIN inner.devices}
  /\ at' = [at EXCEPT ![Server] = "signals"]
  /\ UNCHANGED <<inner, lock, poisoned, arg, log>>

RenderSignals ==
  /\ at[Server] = "signals"
  /\ out' = out \cup CounterLines("razer_transactions_total", inner.transactions, "command")
                \cup CounterLines("razer_transaction_attempts_total", inner.attempts, "command")
                \cup CounterLines("razer_transaction_errors_total", inner.errors, "reason")
                \cup UNION {HistogramLines(k, inner.latency[k]) : k \in DOMAIN inner.latency}
  /\ at' = [at EXCEPT ![Server] = "self"]
  /\ UNCHANGED <<inner, lock, poisoned, arg, log>>

RenderSelf ==
  /\ at[Server] = "self"
  /\ out' = out \cup {Line("razer_polls_total", <<>>, inner.polls),
                      Line("razer_poll_failures_total", <<>>, inner.poll_failures),
                      Line("razer_poll_duration_seconds", <<>>, inner.last_poll_duration)}
  /\ at' = [at EXCEPT ![Server] = "write"] /\ lock' = Free
  /\ UNCHANGED <<inner, poisoned, arg, log>>

Render == RenderLock \/ RenderDevices \/ RenderSignals \/ RenderSelf

Record(p) == Enter(p) \/ Acquire(p) \/ Update(p) \/ Panic(p)
=============================================================================
