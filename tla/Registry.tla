------------------------------ MODULE Registry ------------------------------
(***************************************************************************)
(* What the metrics endpoint promises, with no mutex, no socket and no     *)
(* text: recording calls take effect one at a time, and a scrape shows,    *)
(* for some instant between its request and its answer, the figures that   *)
(* counting the calls recorded so far gives.                               *)
(***************************************************************************)
EXTENDS Integers, Sequences, FiniteSetsExt, SequencesExt

CONSTANTS
  Calls,          \* the recording calls that may be made
  Buckets,        \* the upper bounds of the latency histogram
  ExposeSerial    \* --expose-serial

VARIABLES
  log,      \* the recording calls that have taken effect, in order
  broken,   \* a recorder died half way through a call
  phase,    \* of the connection: "idle", "asked" or "answered"
  page      \* the samples shown

rvars == <<log, broken, phase, page>>

Page(kind, samples) == [kind |-> kind, samples |-> samples]
NoPage == Page("none", {})
Poisoned == Page("poisoned", {})

(* One time series: its name, its label names and values, its value.        *)
Sample(series, labels, value) == [series |-> series, labels |-> labels, value |-> value]

-----------------------------------------------------------------------------
(* The figures, by counting.                                                *)

Of(op, h) == {i \in DOMAIN h : h[i].op = op}
LastOf(S, h) == h[Max(S)]

Identity(l) == <<<<"device", l.device>>, <<"pid", l.pid>>>>
Shown(name, option) == [i \in DOMAIN option |-> <<name, option[i]>>]

Digits == <<"0", "1", "2", "3", "4", "5", "6", "7", "8", "9", "A", "B", "C", "D", "E", "F">>
InHex(b) == CHOOSE t \in {<<"0x", Digits[h], Digits[l]>> : h, l \in 1..16} :
              \E h, l \in 1..16 : t = <<"0x", Digits[h], Digits[l]>> /\ 16 * (h - 1) + (l - 1) = b

(* b / 255 to four places, as {:.4} rounds it; no byte is half way.         *)
TenThousandths(b) == (20000 * b + 255) \div 510

DeviceFigures(l, s) ==
  LET Gauge(series, labels, option) == {Sample(series, Identity(l) \o labels, v) : v \in ToSet(option)}
  IN  UNION {
        Gauge("razer_device_info", Shown("firmware", s.firmware)
                \o Shown("transaction_id", [i \in DOMAIN s.transaction_id |-> InHex(s.transaction_id[i])])
                \o IF ExposeSerial THEN Shown("serial", s.serial) ELSE <<>>, <<1>>),
        Gauge("razer_device_present", <<>>, IF s.present THEN <<1>> ELSE <<0>>),
        Gauge("razer_device_usb_devnum", <<>>, s.usb_devnum),
        UNION {Gauge("razer_device_kernel_driver", <<<<"driver", d>>>>, <<1>>) :
                 d \in ToSet(s.kernel_driver)},
        Gauge("razer_device_mode", <<>>, s.device_mode),
        Gauge("razer_device_poll_rate_hz", <<>>, s.poll_rate_hz),
        Gauge("razer_device_brightness_ratio", <<>>,
              [i \in DOMAIN s.brightness |-> TenThousandths(s.brightness[i])])}

(* What was last set of each device.  This goes for presence, devnum and    *)
(* driver too: metrics.rs says that they are re-read on every scrape, but   *)
(* render reads nothing from /sys, so that a page is as old as the last     *)
(* set_device_state.                                                        *)
Devices(h) ==
  LET Sets(l) == {i \in Of("set_device_state", h) : h[i].labels = l}
  IN  UNION {DeviceFigures(l, LastOf(Sets(l), h).state) :
               l \in {h[i].labels : i \in Of("set_device_state", h)}}

Signals(h) ==
  LET T == Of("record_transaction", h)
      Under(l, c) == {i \in T : h[i].labels = l /\ h[i].command = c}
      Figures(l, c) ==
        LET n == Cardinality(Under(l, c))
            within(b) == Cardinality({i \in Under(l, c) : h[i].duration <= b})
            key == Append(Identity(l), <<"command", c>>)
            le(text) == Append(key, <<"le", <<text>>>>)
            series == "razer_transaction_duration_seconds"
        IN  {Sample("razer_transactions_total", key, n),
             Sample("razer_transaction_attempts_total", key,
                    MapThenSumSet(LAMBDA i : h[i].attempts, Under(l, c))),
             Sample(series \o "_sum", key, MapThenSumSet(LAMBDA i : h[i].duration, Under(l, c))),
             Sample(series \o "_count", key, n),
             Sample(series \o "_bucket", le("+Inf"), n)}
            \cup {Sample(series \o "_bucket", le(ToString(Buckets[j])), within(Buckets[j])) :
                    j \in DOMAIN Buckets}
      Failed(l, r) == {i \in T : h[i].labels = l /\ h[i].error = <<r>>}
  IN  UNION {Figures(h[i].labels, h[i].command) : i \in T}
      \cup UNION {{Sample("razer_transaction_errors_total",
                          Append(Identity(h[i].labels), <<"reason", r>>),
                          Cardinality(Failed(h[i].labels, r))) : r \in ToSet(h[i].error)} : i \in T}

Polls(h) ==
  LET P == Of("record_poll", h)
  IN  {Sample("razer_polls_total", <<>>, Cardinality(P)),
       Sample("razer_poll_failures_total", <<>>, Cardinality({i \in P : h[i].failed})),
       Sample("razer_poll_duration_seconds", <<>>, IF P = {} THEN 0 ELSE LastOf(P, h).duration)}

(* A label value as its reader has it.  The format cannot express a         *)
(* carriage return: it reads as a backslash and an r, and is not told from  *)
(* a name that has these two.                                               *)
Legible(text) == FlattenSeq([i \in DOMAIN text |->
                               IF text[i] = "\r" THEN <<"\\", "r">> ELSE <<text[i]>>])

Exposition(h) ==
  {[s EXCEPT !.labels = [i \in DOMAIN @ |-> <<@[i][1], Legible(@[i][2])>>]] :
     s \in Devices(h) \cup Signals(h) \cup Polls(h)}

-----------------------------------------------------------------------------
Init == log = <<>> /\ broken = FALSE /\ phase = "idle" /\ page = NoPage

Record ==
  /\ ~broken
  /\ \E c \in Calls : log' = Append(log, c)
  /\ UNCHANGED <<broken, phase, page>>

Break == broken' = TRUE /\ UNCHANGED <<log, phase, page>>

Ask == phase = "idle" /\ phase' = "asked" /\ UNCHANGED <<log, broken, page>>

Show ==
  /\ phase = "asked" /\ phase' = "answered"
  /\ page' = IF broken THEN Poisoned ELSE Page("figures", Exposition(log))
  /\ UNCHANGED <<log, broken>>

(* The connection ends, answered or not.                                    *)
Close ==
  /\ phase \in {"asked", "answered"} /\ phase' = "idle" /\ page' = NoPage
  /\ UNCHANGED <<log, broken>>

Next == Record \/ Break \/ Ask \/ Show \/ Close

Spec == Init /\ [][Next]_rvars
=============================================================================
