------------------------------- MODULE Scrape -------------------------------
(***************************************************************************)
(* The metrics endpoint of razerd: serve and handle of metrics.rs, one     *)
(* thread and one connection at a time, rendering the registry that the    *)
(* recording threads of Metrics write to.                                  *)
(*                                                                         *)
(* The peer does what it likes.  A read hands over some bytes, finds the   *)
(* end of the stream, or fails (IO_TIMEOUT, a reset, bytes that are not    *)
(* UTF-8); a byte at a time is the slowest a peer can be.                  *)
(***************************************************************************)
EXTENDS Metrics

CONSTANTS
  MAX_REQUEST_LINE, MAX_HEADER_LINE, MAX_HEADERS,
  ResponseLength     \* bytes of a response

ASSUME ScrapeAssumption ==
  /\ MAX_REQUEST_LINE \in Nat \ {0} /\ MAX_HEADER_LINE \in Nat \ {0}
  /\ MAX_HEADERS \in Nat \ {0} /\ ResponseLength \in Nat \ {0}

VARIABLES
  path,      \* the target of the request line
  headers,   \* header lines read
  got,       \* bytes of the line being read, or of the response written
  blank,     \* nothing but white space in the line so far
  waits      \* history: reads and writes of this connection that could block

connVars == <<path, headers, got, blank, waits>>
vars == <<metricVars, connVars>>

(* "" stands for every target that is not found.                            *)
Paths == {"", "/metrics", "/"}
Connected == {"setup", "line", "headers", "respond", "render", "devices", "signals", "self", "write"}
Working == {"transactions", "attempts", "latency", "errors", "insert", "polls", "duration", "failures"}

Init ==
  /\ InitMetrics
  /\ at = [t \in Pollers \cup {Server} |-> IF t = Server THEN "bind" ELSE "idle"]
  /\ path = "" /\ headers = 0 /\ got = 0 /\ blank = TRUE /\ waits = 0

-----------------------------------------------------------------------------
GoTo(label) ==
  /\ at' = [at EXCEPT ![Server] = label]
  /\ UNCHANGED <<inner, lock, poisoned, arg, log>>
Fresh == got' = 0 /\ blank' = TRUE
(* handle returns and drops the stream.                                     *)
HangUp ==
  /\ GoTo("accept") /\ out' = {}
  /\ path' = "" /\ headers' = 0 /\ Fresh /\ waits' = 0

(* serve: an address that cannot be listened on ends it.                    *)
Bind ==
  /\ at[Server] = "bind"
  /\ GoTo("accept") \/ GoTo("stopped")
  /\ UNCHANGED <<connVars, out>>

AcceptFailed == at[Server] = "accept" /\ UNCHANGED vars

Accept ==
  /\ at[Server] = "accept" /\ GoTo("setup")
  /\ UNCHANGED <<connVars, out>>

SetupFailed == at[Server] = "setup" /\ HangUp

(* Both time-outs are set and the stream is cloned for the reader.          *)
Setup ==
  /\ at[Server] = "setup" /\ GoTo("line")
  /\ UNCHANGED <<connVars, out>>

ReadFailed == at[Server] \in {"line", "headers"} /\ HangUp

Bytes == {"newline", "space", "other"}
Longer(b) == got' = got + 1 /\ blank' = (blank /\ b # "other") /\ waits' = waits + 1

(* split_whitespace().nth(1): an empty line has no target.                  *)
EndRequestLine(empty) ==
  /\ path' \in IF empty THEN {""} ELSE Paths
  /\ GoTo("headers") /\ Fresh /\ waits' = waits + 1
  /\ UNCHANGED <<headers, out>>

(* Mutant: a line may be one byte longer than the buffer it is taken from.  *)
RequestByteTooMany ==
  /\ at[Server] = "line"
  /\ \E b \in Bytes :
       \/ b = "newline" /\ EndRequestLine(blank)
       \/ b # "newline" /\ got > MAX_REQUEST_LINE /\ HangUp
       \/ /\ b # "newline" /\ got <= MAX_REQUEST_LINE
          /\ Longer(b) /\ GoTo("line") /\ UNCHANGED <<path, headers, out>>

(* A line that fills MAX_REQUEST_LINE without a newline is not answered.    *)
RequestByte ==
  /\ at[Server] = "line"
  /\ \E b \in Bytes :
       \/ b = "newline" /\ EndRequestLine(blank)
       \/ b # "newline" /\ got + 1 = MAX_REQUEST_LINE /\ HangUp
       \/ /\ b # "newline" /\ got + 1 < MAX_REQUEST_LINE
          /\ Longer(b) /\ GoTo("line") /\ UNCHANGED <<path, headers, out>>

RequestEof == at[Server] = "line" /\ EndRequestLine(blank)

(* Mutant: the header loop ends at the blank line only.                     *)
EndHeaderAtBlank(empty) ==
  /\ UNCHANGED headers /\ Fresh /\ waits' = waits + 1
  /\ GoTo(IF empty THEN "respond" ELSE "headers")
  /\ UNCHANGED <<path, out>>

EndHeader(empty) ==
  /\ headers' = headers + 1 /\ Fresh /\ waits' = waits + 1
  /\ GoTo(IF empty \/ headers + 1 = MAX_HEADERS THEN "respond" ELSE "headers")
  /\ UNCHANGED <<path, out>>

(* A line that fills MAX_HEADER_LINE counts as one; its rest is the next.   *)
HeaderByte ==
  /\ at[Server] = "headers"
  /\ \E b \in Bytes :
       LET ends == b = "newline" \/ got + 1 = MAX_HEADER_LINE IN
       \/ ends /\ EndHeader(blank /\ b # "other")
       \/ /\ ~ends
          /\ Longer(b) /\ GoTo("headers") /\ UNCHANGED <<path, headers, out>>

(* Ok(0), or the last line without its newline.                             *)
HeaderEof == at[Server] = "headers" /\ EndHeader(blank)

Respond ==
  /\ at[Server] = "respond"
  /\ GoTo(IF path = "/metrics" THEN "render" ELSE "write")
  /\ UNCHANGED <<connVars, out>>

(* write_all goes on until the last byte; its error is ignored.             *)
WriteByte ==
  /\ at[Server] = "write"
  /\ IF got + 1 = ResponseLength THEN HangUp
     ELSE /\ got' = got + 1 /\ waits' = waits + 1 /\ GoTo("write")
          /\ UNCHANGED <<path, headers, blank, out>>

WriteFailed == at[Server] = "write" /\ HangUp

Handle ==
  \/ SetupFailed \/ Setup
  \/ ReadFailed \/ RequestByte \/ RequestEof \/ HeaderByte \/ HeaderEof
  \/ Respond \/ WriteByte \/ WriteFailed
  \/ Render /\ UNCHANGED connVars

Next ==
  \/ Bind \/ AcceptFailed \/ Accept \/ Handle
  \/ \E p \in Pollers : Record(p) /\ UNCHANGED connVars

Spec == Init /\ [][Next]_vars

(* Every thread is scheduled, and IO_TIMEOUT makes every read and write     *)
(* return.  No peer has to connect, and no poller to make a call.           *)
FairSpec ==
  /\ Spec /\ WF_vars(Handle)
  /\ \A p \in Pollers : WF_vars((Acquire(p) \/ Update(p)) /\ UNCHANGED connVars)

-----------------------------------------------------------------------------
(* The variables have their types: no line outgrows what `take` lets        *)
(* through, and no more than MAX_HEADERS lines are read.                    *)
TypeOK ==
  /\ lock \in Pollers \cup {Server, Free} /\ poisoned \in BOOLEAN
  /\ at[Server] \in Connected \cup {"bind", "accept", "stopped"}
  /\ \A p \in Pollers : at[p] \in Working \cup {"idle", "lock", "dead"}
  /\ path \in Paths /\ headers \in 0..MAX_HEADERS /\ blank \in BOOLEAN
  /\ got \in 0..(CASE at[Server] = "line" -> MAX_REQUEST_LINE - 1
                   [] at[Server] = "headers" -> MAX_HEADER_LINE - 1
                   [] at[Server] = "write" -> ResponseLength - 1
                   [] OTHER -> 0)

(* One connection makes a bounded number of reads and writes that can block *)
(* for IO_TIMEOUT each, whatever its peer sends and however slowly: this is *)
(* how long the one thread of serve can be away from the others.            *)
Occupancy ==
  waits <= MAX_REQUEST_LINE + MAX_HEADERS * MAX_HEADER_LINE
           + IF at[Server] = "write" THEN ResponseLength ELSE 0

(* What render reads is no half of a call: every command that was counted   *)
(* has its attempts and its latency, the histogram counts as many           *)
(* transactions as the counter does and its buckets are cumulative, so that *)
(* no scrape sees a bucket above the next or above the total, and no more   *)
(* polls failed than were made.                                             *)
FiguresAgree ==
  at[Server] \in {"devices", "signals", "self"} =>
    /\ DOMAIN inner.transactions = DOMAIN inner.latency
    /\ DOMAIN inner.attempts = DOMAIN inner.latency
    /\ \A k \in DOMAIN inner.latency :
         LET h == inner.latency[k] IN
         /\ h.total = inner.transactions[k]
         /\ \A i, j \in DOMAIN LATENCY_BUCKETS :
              i <= j => h.counts[i] <= h.counts[j] /\ h.counts[j] <= h.total
    /\ inner.poll_failures <= inner.polls

(* Every connection is let go of, so that the next peer is served: a silent *)
(* peer, an endless request, a peer that stops reading and a recorder that  *)
(* died with the lock held included.                                        *)
EveryScrapeEnds == (at[Server] \in Connected) ~> (at[Server] = "accept")

-----------------------------------------------------------------------------
(* The endpoint as the abstract registry: a page as its reader takes it.    *)

Decoded == [c \in {"\\", "\"", "n"} |-> IF c = "n" THEN "\n" ELSE c]

(* What a scraper makes of a quoted label value: the three escapes of the   *)
(* format are decoded and any other is left as it stands.                   *)
Unquoted(s) ==
  LET from[i \in 1..(Len(s) + 2)] ==
        CASE i > Len(s) -> <<>>
          [] s[i] \in {"\"", "\n"} \/ (s[i] = "\\" /\ i = Len(s)) -> <<"malformed">>
          [] s[i] = "\\" /\ i < Len(s) /\ s[i + 1] \in DOMAIN Decoded -> <<Decoded[s[i + 1]]>> \o from[i + 2]
          [] OTHER -> <<s[i]>> \o from[i + 1]
  IN  from[1]

AsSample(line) ==
  [line EXCEPT !.labels = [i \in DOMAIN @ |-> <<@[i][1], Unquoted(@[i][2])>>]]

phase ==
  CASE at[Server] \notin Connected -> "idle"
    [] at[Server] = "write" /\ path = "/metrics" -> "answered"
    [] OTHER -> "asked"

page ==
  CASE phase # "answered" -> [kind |-> "none", samples |-> {}]
    [] out = {PoisonedLine} -> [kind |-> "poisoned", samples |-> {}]
    [] OTHER -> [kind |-> "figures", samples |-> {AsSample(line) : line \in out}]

Abstract == INSTANCE Registry WITH
  Buckets <- LATENCY_BUCKETS, ExposeSerial <- expose_serial,
  log <- log, broken <- poisoned, phase <- phase, page <- page

(* Every scrape shows the figures of one instant between its request and    *)
(* its answer: exactly those that counting the calls recorded until then    *)
(* gives, no half of a call, the serial only when opted in; and none at all *)
(* once a recorder has died half way.  A reader of the format has every     *)
(* label as it was recorded, but for carriage returns (Registry's Legible), *)
(* and of a device what was last set, its host facts included.              *)
ImplementsRegistry == Abstract!Spec
=============================================================================
