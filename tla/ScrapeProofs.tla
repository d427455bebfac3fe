---------------------------- MODULE ScrapeProofs ----------------------------
(***************************************************************************)
(* Proofs about Scrape and the Metrics registry in it, for any number of   *)
(* recording threads and calls and any limits of a request.                *)
(***************************************************************************)
EXTENDS Scrape, TLAPS

Rendering == {"devices", "signals", "self"}
ServerLabels == Connected \cup {"bind", "accept", "stopped"}
PollerLabels == Working \cup {"idle", "lock", "dead"}
Threads == Pollers \cup {Server}

(* The statements of each kind of call.                                     *)
StatementsOf(op) ==
  CASE op = "record_transaction" -> {"transactions", "attempts", "latency", "errors"}
    [] op = "set_device_state" -> {"insert"}
    [] op = "record_poll" -> {"polls", "duration", "failures"}

(* The Mutex: a thread is between lock and unlock exactly when it holds it, *)
(* nobody holds a poisoned one, and a thread there is in its own call.      *)
LockInv ==
  /\ at \in [Threads -> ServerLabels \cup PollerLabels]
  /\ at[Server] \in ServerLabels /\ \A p \in Pollers : at[p] \in PollerLabels
  /\ DOMAIN arg = Pollers
  /\ lock \in Threads \cup {Free} /\ poisoned \in BOOLEAN
  /\ poisoned => lock = Free
  /\ at[Server] \in Rendering <=> lock = Server
  /\ \A p \in Pollers :
       /\ at[p] \in Working <=> lock = p
       /\ at[p] \in {"idle", "dead"} => arg[p] = <<>>
       /\ at[p] = "lock" => \E c \in Calls : arg[p] = <<c>>
       /\ at[p] \in Working =>
            \E c \in Calls : arg[p] = <<c>> /\ at[p] \in StatementsOf(c.op)

(* The connection: what has been read so far pays for every wait.           *)
ConnInv ==
  /\ path \in Paths /\ headers \in 0..MAX_HEADERS /\ blank \in BOOLEAN
  /\ got \in Nat /\ waits \in Nat
  /\ at[Server] \in {"bind", "stopped", "accept", "setup"} => waits = 0 /\ headers = 0 /\ got = 0
  /\ at[Server] = "line" => waits = got /\ headers = 0 /\ got < MAX_REQUEST_LINE
  /\ at[Server] = "headers" =>
       /\ headers < MAX_HEADERS /\ got < MAX_HEADER_LINE
       /\ waits <= MAX_REQUEST_LINE + headers * MAX_HEADER_LINE + got
  /\ at[Server] \in {"respond", "render"} \cup Rendering =>
       got = 0 /\ waits <= MAX_REQUEST_LINE + MAX_HEADERS * MAX_HEADER_LINE
  /\ at[Server] = "write" =>
       /\ got < ResponseLength
       /\ waits <= MAX_REQUEST_LINE + MAX_HEADERS * MAX_HEADER_LINE + got

(* The maps of the transaction counters.                                    *)
Cumulative(h) ==
  /\ h.total \in Nat /\ h.counts \in [DOMAIN LATENCY_BUCKETS -> Nat]
  /\ \A i, j \in DOMAIN LATENCY_BUCKETS :
       i <= j => h.counts[i] <= h.counts[j] /\ h.counts[j] <= h.total
Counted(k) == entry(inner.latency, k, Histogram).total

(* The transactions counter is ahead of the histogram by the calls in S.    *)
Ahead(S) ==
  /\ DOMAIN inner.transactions = DOMAIN inner.latency \cup S
  /\ \A k \in DOMAIN inner.transactions :
       inner.transactions[k] = Counted(k) + IF k \in S THEN 1 ELSE 0

(* The statement the holder of the lock is at, when it records, and the key *)
(* of the call whose counters it has begun to update.                       *)
Stage == IF lock \in Pollers THEN at[lock] ELSE "outside"
Begun == IF Stage \in {"attempts", "latency"} THEN {Key(arg[lock][1])} ELSE {}

InnerInv ==
  /\ DOMAIN inner = DOMAIN Inner
  /\ inner.polls \in Nat /\ inner.poll_failures \in Nat
  /\ \A k \in DOMAIN inner.latency : Cumulative(inner.latency[k])
  /\ ~poisoned =>
       /\ Ahead(Begun)
       /\ DOMAIN inner.attempts =
            IF Stage = "latency" THEN DOMAIN inner.transactions ELSE DOMAIN inner.latency
       /\ inner.poll_failures
            + (IF Stage \in {"duration", "failures"} THEN 1 ELSE 0) <= inner.polls

Inv == LockInv /\ ConnInv /\ InnerInv

-----------------------------------------------------------------------------
(* The Mutex *)

(* The server is no poller, and a free lock is held by neither.             *)
LEMMA ThreadsDiffer ==
  Server \notin Pollers /\ Free \notin Threads
BY MetricsAssumption DEF Threads

(* The lock begins free.                                                    *)
LEMMA LockInit == Init => LockInv
<1> SUFFICES ASSUME Init PROVE LockInv
  OBVIOUS
<1>1. /\ at = [t \in Threads |-> IF t = Server THEN "bind" ELSE "idle"]
      /\ lock = Free /\ poisoned = FALSE /\ arg = [p \in Pollers |-> <<>>]
  BY DEF Init, InitMetrics, Threads
<1>2. at[Server] = "bind" /\ \A p \in Pollers : at[p] = "idle"
  BY <1>1, ThreadsDiffer DEF Threads
<1>3. "bind" \in ServerLabels \ Rendering /\ "idle" \in PollerLabels \ Working
  BY DEF ServerLabels, PollerLabels, Rendering, Working
<1>4. lock \notin Threads
  BY <1>1, ThreadsDiffer
<1> QED BY <1>1, <1>2, <1>3, <1>4 DEF LockInv, Threads

(* The server goes from one statement to another outside the lock.          *)
LEMMA GoToKeepsLock ==
  ASSUME LockInv, at[Server] \notin Rendering, NEW label \in ServerLabels \ Rendering, GoTo(label)
  PROVE  /\ LockInv' /\ at'[Server] = label
         /\ UNCHANGED <<inner, lock, poisoned, arg>> /\ \A p \in Pollers : at'[p] = at[p]
<1>1. at' = [at EXCEPT ![Server] = label] /\ UNCHANGED <<inner, lock, poisoned, arg>>
  BY DEF GoTo
<1>2. at'[Server] = label /\ \A p \in Pollers : at'[p] = at[p]
  BY <1>1, ThreadsDiffer DEF LockInv, Threads
<1>3. at' \in [Threads -> ServerLabels \cup PollerLabels]
  BY <1>1 DEF LockInv
<1> QED BY <1>1, <1>2, <1>3 DEF LockInv

(* A label of render or of the connection is no label of the lock's other   *)
(* side.                                                                    *)
LEMMA RenderKeepsLock ==
  ASSUME LockInv, Render
  PROVE  LockInv' /\ \A p \in Pollers : at'[p] = at[p]
<1>1. /\ Rendering \subseteq ServerLabels /\ "render" \in ServerLabels \ Rendering
      /\ "write" \in ServerLabels \ Rendering
  BY DEF Rendering, ServerLabels, Connected
<1>2. \A p \in Pollers : p # Server /\ p # Free
  BY ThreadsDiffer DEF Threads
<1>3. Server \in Threads /\ Server # Free
  BY ThreadsDiffer DEF Threads
<1>4. UNCHANGED <<poisoned, arg>>
  BY DEF Render, RenderLock, RenderDevices, RenderSignals, RenderSelf
<1>5. ASSUME NEW to \in ServerLabels, at' = [at EXCEPT ![Server] = to],
             lock \in {Server, Free}, lock' = IF to \in Rendering THEN Server ELSE Free,
             poisoned => lock' = Free
      PROVE  LockInv' /\ \A p \in Pollers : at'[p] = at[p]
  <2>1. at'[Server] = to /\ \A p \in Pollers : at'[p] = at[p]
    BY <1>2, <1>3, <1>5 DEF LockInv, Threads
  <2>2. at' \in [Threads -> ServerLabels \cup PollerLabels]
    BY <1>5 DEF LockInv
  <2>3. lock' \in Threads \cup {Free} /\ (at'[Server] \in Rendering <=> lock' = Server)
    BY <1>3, <1>5, <2>1
  <2>4. \A p \in Pollers : lock # p /\ lock' # p
    BY <1>2, <1>5
  <2> QED BY <1>4, <1>5, <2>1, <2>2, <2>3, <2>4 DEF LockInv
<1>6. CASE RenderLock
  <2>1. CASE poisoned
    BY <1>1, <1>5, <1>6, <2>1 DEF RenderLock
  <2>2. CASE ~poisoned
    <3>1. "devices" \in Rendering
      BY DEF Rendering
    <3> QED BY <1>1, <1>5, <1>6, <2>2, <3>1 DEF RenderLock
  <2> QED BY <2>1, <2>2
<1>7. CASE RenderDevices
  <2>1. "devices" \in Rendering /\ "signals" \in Rendering
    BY DEF Rendering
  <2>2. lock = Server /\ lock' = Server /\ ~poisoned
    BY <1>3, <1>7, <2>1 DEF RenderDevices, LockInv
  <2> QED BY <1>1, <1>5, <1>7, <2>1, <2>2 DEF RenderDevices
<1>8. CASE RenderSignals
  <2>1. "signals" \in Rendering /\ "self" \in Rendering
    BY DEF Rendering
  <2>2. lock = Server /\ lock' = Server /\ ~poisoned
    BY <1>3, <1>8, <2>1 DEF RenderSignals, LockInv
  <2> QED BY <1>1, <1>5, <1>8, <2>1, <2>2 DEF RenderSignals
<1>9. CASE RenderSelf
  <2>1. "self" \in Rendering
    BY DEF Rendering
  <2>2. lock = Server /\ lock' = Free
    BY <1>9, <2>1 DEF RenderSelf, LockInv
  <2> QED BY <1>1, <1>5, <1>9, <2>2 DEF RenderSelf
<1> QED BY <1>6, <1>7, <1>8, <1>9 DEF Render

(* A step of one recording thread, from what it does to that thread.        *)
LEMMA PollerKeepsLock ==
  ASSUME LockInv, NEW p \in Pollers, NEW to \in PollerLabels, at' = [at EXCEPT ![p] = to],
         DOMAIN arg' = Pollers, \A q \in Pollers \ {p} : arg'[q] = arg[q],
         (lock' \in {p, Free} /\ lock \in {p, Free}) \/ (lock' = lock /\ lock # p),
         poisoned' \in BOOLEAN, poisoned' => lock' = Free,
         to \in Working <=> lock' = p,
         to \in {"idle", "dead"} => arg'[p] = <<>>,
         to = "lock" => \E c \in Calls : arg'[p] = <<c>>,
         to \in Working => \E c \in Calls : arg'[p] = <<c>> /\ to \in StatementsOf(c.op)
  PROVE  /\ LockInv' /\ at'[p] = to
         /\ at'[Server] = at[Server] /\ \A q \in Pollers \ {p} : at'[q] = at[q]
<1>1. p \in Threads /\ p # Server /\ p # Free /\ Server # Free /\ \A q \in Pollers : q # Free /\ q # Server
  BY ThreadsDiffer DEF Threads
<1>2. at'[p] = to /\ at'[Server] = at[Server] /\ \A q \in Pollers \ {p} : at'[q] = at[q]
  BY <1>1 DEF LockInv, Threads
<1>3. at' \in [Threads -> ServerLabels \cup PollerLabels]
  BY DEF LockInv
<1>4. lock' \in Threads \cup {Free} /\ (lock' = Server <=> lock = Server)
  BY <1>1 DEF LockInv
<1>5. \A q \in Pollers \ {p} : lock' = q <=> lock = q
  BY <1>1
<1>6. ASSUME NEW q \in Pollers
      PROVE  /\ at'[q] \in PollerLabels /\ (at'[q] \in Working <=> lock' = q)
             /\ at'[q] \in {"idle", "dead"} => arg'[q] = <<>>
             /\ at'[q] = "lock" => \E c \in Calls : arg'[q] = <<c>>
             /\ at'[q] \in Working => \E c \in Calls : arg'[q] = <<c>> /\ at'[q] \in StatementsOf(c.op)
  <2>1. CASE q = p
    BY <1>2, <2>1
  <2>2. CASE q # p
    <3>1. at'[q] = at[q] /\ arg'[q] = arg[q] /\ (lock' = q <=> lock = q)
      BY <1>2, <1>5, <2>2
    <3> QED BY <3>1 DEF LockInv
  <2> QED BY <2>1, <2>2
<1> QED BY <1>2, <1>3, <1>4, <1>6 DEF LockInv

(* The calls by their operation.                                            *)
LEMMA CallKinds ==
  ASSUME NEW c \in Calls
  PROVE  /\ c.op \in {"record_transaction", "set_device_state", "record_poll"}
         /\ c.op = "record_transaction" => c.attempts \in Nat /\ c.duration \in Nat
<1>1. c \in Call
  BY MetricsAssumption
<1> QED BY <1>1 DEF Call

(* A call in hand is at one of its own statements.                          *)
LEMMA StatementKinds ==
  ASSUME NEW c \in Calls, NEW l \in StatementsOf(c.op)
  PROVE  /\ l \in Working
         /\ l \in {"transactions", "attempts", "latency", "errors"} <=> c.op = "record_transaction"
         /\ l = "insert" <=> c.op = "set_device_state"
         /\ l \in {"polls", "duration", "failures"} <=> c.op = "record_poll"
BY CallKinds DEF StatementsOf, Working

(* A recorder keeps the invariant of the lock.                              *)
LEMMA RecordKeepsLock ==
  ASSUME LockInv, NEW p \in Pollers, Record(p)
  PROVE  /\ LockInv'
         /\ at'[Server] = at[Server] /\ \A q \in Pollers \ {p} : at'[q] = at[q]
<1>0. /\ p # Free /\ lock \in Threads \cup {Free} /\ DOMAIN arg = Pollers /\ poisoned \in BOOLEAN
      /\ poisoned => lock = Free
  BY ThreadsDiffer DEF LockInv, Threads
<1>l. /\ "idle" \in PollerLabels \ Working /\ "dead" \in PollerLabels \ Working
      /\ "lock" \in PollerLabels \ Working /\ Working \subseteq PollerLabels
  BY DEF PollerLabels, Working
<1>1. CASE Enter(p)
  <2>1. PICK c \in Calls : arg' = [arg EXCEPT ![p] = <<c>>]
    BY <1>1 DEF Enter
  <2>2. at[p] = "idle" /\ at' = [at EXCEPT ![p] = "lock"] /\ UNCHANGED <<lock, poisoned>>
    BY <1>1 DEF Enter
  <2>3. lock # p
    BY <1>l, <2>2 DEF LockInv
  <2>4. DOMAIN arg' = Pollers /\ arg'[p] = <<c>> /\ \A q \in Pollers \ {p} : arg'[q] = arg[q]
    BY <1>0, <2>1
  <2> QED BY <1>0, <1>l, <2>2, <2>3, <2>4, PollerKeepsLock
<1>2. CASE Acquire(p)
  <2>1. at[p] = "lock" /\ lock = Free /\ UNCHANGED poisoned
    BY <1>2 DEF Acquire
  <2>2. CASE poisoned
    <3>1. /\ at' = [at EXCEPT ![p] = "idle"] /\ lock' = lock
          /\ DOMAIN arg' = Pollers /\ arg'[p] = <<>> /\ \A q \in Pollers \ {p} : arg'[q] = arg[q]
      BY <1>0, <1>2, <2>2 DEF Acquire
    <3> QED BY <1>0, <1>l, <2>1, <3>1, PollerKeepsLock
  <2>3. CASE ~poisoned
    <3>1. PICK c \in Calls : arg[p] = <<c>>
      BY <2>1 DEF LockInv
    <3>2. at' = [at EXCEPT ![p] = FirstStep[c.op]] /\ lock' = p /\ arg' = arg
      BY <1>2, <2>3, <3>1 DEF Acquire
    <3>3. FirstStep[c.op] \in StatementsOf(c.op)
      BY CallKinds DEF FirstStep, StatementsOf
    <3>4. FirstStep[c.op] \in Working
      BY <3>3, StatementKinds
    <3>5. FirstStep[c.op] \notin {"idle", "dead", "lock"}
      BY <3>4 DEF Working
    <3> HIDE DEF FirstStep
    <3> QED BY <1>0, <1>l, <2>1, <2>3, <3>1, <3>2, <3>3, <3>4, <3>5, PollerKeepsLock
  <2> QED BY <2>2, <2>3
<1>3. CASE Update(p)
  <2>0. arg[p] # <<>>
    BY <1>3 DEF Update
  <2>1. at[p] \in Working
    BY <1>3 DEF Update, Transactions, Attempts, Latency, Errors, Insert, Polls, Duration, Failures,
       Step, LastStep, Working
  <2>2. lock = p /\ ~poisoned
    BY <1>0, <2>1 DEF LockInv
  <2>3. PICK c \in Calls : arg[p] = <<c>> /\ at[p] \in StatementsOf(c.op)
    BY <2>1 DEF LockInv
  <2>4. ASSUME NEW from, NEW to \in StatementsOf(c.op), NEW g, Step(p, from, to, g)
        PROVE  /\ LockInv'
               /\ at'[Server] = at[Server] /\ \A q \in Pollers \ {p} : at'[q] = at[q]
    <3>1. at' = [at EXCEPT ![p] = to] /\ UNCHANGED <<lock, poisoned, arg>>
      BY <2>4 DEF Step
    <3>2. to \in Working /\ to \notin {"idle", "dead", "lock"}
      BY StatementKinds DEF Working
    <3> QED BY <1>0, <1>l, <2>2, <2>3, <3>1, <3>2, PollerKeepsLock
  <2>5. ASSUME NEW from, NEW g, LastStep(p, from, g)
        PROVE  /\ LockInv'
               /\ at'[Server] = at[Server] /\ \A q \in Pollers \ {p} : at'[q] = at[q]
    <3>1. /\ at' = [at EXCEPT ![p] = "idle"] /\ lock' = Free /\ poisoned' = poisoned
          /\ arg' = [arg EXCEPT ![p] = <<>>]
      BY <2>5 DEF LastStep
    <3>2. DOMAIN arg' = Pollers /\ arg'[p] = <<>> /\ \A q \in Pollers \ {p} : arg'[q] = arg[q]
      BY <1>0, <3>1
    <3> QED BY <1>0, <1>l, <2>2, <3>1, <3>2, PollerKeepsLock
  <2>6. CASE Transactions(p, c)
    <3>1. at[p] = "transactions"
      BY <2>6 DEF Transactions, Step
    <3>2. "attempts" \in StatementsOf(c.op)
      BY <2>3, <3>1, StatementKinds DEF StatementsOf
    <3> QED BY <2>4, <2>6, <3>2 DEF Transactions
  <2>7. CASE Attempts(p, c)
    <3>1. at[p] = "attempts"
      BY <2>7 DEF Attempts, Step
    <3>2. "latency" \in StatementsOf(c.op)
      BY <2>3, <3>1, StatementKinds DEF StatementsOf
    <3> QED BY <2>4, <2>7, <3>2 DEF Attempts
  <2>8. CASE Latency(p, c)
    <3>1. at[p] = "latency"
      BY <2>8 DEF Latency, Step
    <3>2. "errors" \in StatementsOf(c.op)
      BY <2>3, <3>1, StatementKinds DEF StatementsOf
    <3> QED BY <2>4, <2>8, <3>2 DEF Latency
  <2>9. CASE Polls(p, c)
    <3>1. at[p] = "polls"
      BY <2>9 DEF Polls, Step
    <3>2. "duration" \in StatementsOf(c.op)
      BY <2>3, <3>1, StatementKinds DEF StatementsOf
    <3> QED BY <2>4, <2>9, <3>2 DEF Polls
  <2>10. CASE Duration(p, c)
    <3>1. at[p] = "duration"
      BY <2>10 DEF Duration, Step
    <3>2. "failures" \in StatementsOf(c.op)
      BY <2>3, <3>1, StatementKinds DEF StatementsOf
    <3> QED BY <2>4, <2>10, <3>2 DEF Duration
  <2>11. CASE Errors(p, c) \/ Insert(p, c) \/ Failures(p, c)
    BY <2>5, <2>11 DEF Errors, Insert, Failures
  <2>12. arg[p][1] = c
    BY <2>3
  <2> QED BY <1>3, <2>6, <2>7, <2>8, <2>9, <2>10, <2>11, <2>12 DEF Update
<1>4. CASE Panic(p)
  <2>1. /\ lock = p /\ lock' = Free /\ poisoned' = TRUE /\ at' = [at EXCEPT ![p] = "dead"]
        /\ arg' = [arg EXCEPT ![p] = <<>>]
    BY <1>4 DEF Panic
  <2>2. DOMAIN arg' = Pollers /\ arg'[p] = <<>> /\ \A q \in Pollers \ {p} : arg'[q] = arg[q]
    BY <1>0, <2>1
  <2> QED BY <1>0, <1>l, <2>1, <2>2, PollerKeepsLock
<1> QED BY <1>1, <1>2, <1>3, <1>4 DEF Record

-----------------------------------------------------------------------------
(* The connection *)

(* One more header line costs what a line may be long, and MAX_HEADERS of   *)
(* them no more than that many times as much.                               *)
LEMMA HeaderCost ==
  ASSUME NEW n \in Nat, n < MAX_HEADERS
  PROVE  /\ (n + 1) * MAX_HEADER_LINE = n * MAX_HEADER_LINE + MAX_HEADER_LINE
         /\ (n + 1) * MAX_HEADER_LINE <= MAX_HEADERS * MAX_HEADER_LINE
         /\ n * MAX_HEADER_LINE \in Nat /\ MAX_HEADERS * MAX_HEADER_LINE \in Nat
<1>1. MAX_HEADER_LINE \in Nat /\ MAX_HEADERS \in Nat
  BY ScrapeAssumption
<1>2. \A a, b, c \in Nat : /\ (a + 1) * c = a * c + c /\ a * c \in Nat
                           /\ a <= b => a * c <= b * c
  OBVIOUS
<1>3. n + 1 <= MAX_HEADERS /\ n + 1 \in Nat
  BY <1>1
<1> QED BY <1>1, <1>2, <1>3

(* There is no connection yet.                                              *)
LEMMA ConnInit == Init => ConnInv
<1> SUFFICES ASSUME Init PROVE ConnInv
  OBVIOUS
<1>1. at[Server] = "bind"
  BY DEF Init
<1>2. 0 \in 0..MAX_HEADERS
  BY ScrapeAssumption
<1> QED BY <1>1, <1>2 DEF Init, ConnInv, Paths, Rendering

(* The recording threads leave the connection alone.                        *)
LEMMA OthersKeepConn ==
  ASSUME ConnInv, UNCHANGED connVars, at'[Server] = at[Server]
  PROVE  ConnInv'
BY DEF ConnInv, connVars

(* A connection that ends leaves the endpoint free.                         *)
LEMMA HangUpKeepsConn ==
  ASSUME LockInv, HangUp
  PROVE  ConnInv'
<1>1. at'[Server] = "accept"
  BY DEF HangUp, GoTo, LockInv, Threads
<1>2. 0 \in 0..MAX_HEADERS
  BY ScrapeAssumption
<1> QED BY <1>1, <1>2 DEF HangUp, Fresh, ConnInv, Paths, Rendering

(* A complete request line keeps the limits.                                *)
LEMMA EndRequestLineKeepsConn ==
  ASSUME LockInv, ConnInv, at[Server] = "line", NEW e \in BOOLEAN, EndRequestLine(e)
  PROVE  ConnInv'
<1>1. at'[Server] = "headers" /\ path' \in Paths
  BY DEF EndRequestLine, GoTo, LockInv, Threads, Paths
<1>2. headers' = 0 /\ got' = 0 /\ blank' = TRUE /\ waits' = got + 1
  BY DEF EndRequestLine, Fresh, ConnInv
<1>3. got \in Nat /\ got < MAX_REQUEST_LINE
  BY DEF ConnInv
<1>4. 0 * MAX_HEADER_LINE = 0 /\ 0 < MAX_HEADERS /\ 0 < MAX_HEADER_LINE /\ 0 \in 0..MAX_HEADERS
      /\ MAX_REQUEST_LINE \in Nat
  BY ScrapeAssumption
<1>5. waits' \in Nat /\ waits' <= MAX_REQUEST_LINE + headers' * MAX_HEADER_LINE + got'
  BY <1>2, <1>3, <1>4
<1> QED BY <1>1, <1>2, <1>4, <1>5 DEF ConnInv, Rendering

(* A complete header line keeps the limits.                                 *)
LEMMA EndHeaderKeepsConn ==
  ASSUME LockInv, ConnInv, at[Server] = "headers", NEW e \in BOOLEAN, EndHeader(e)
  PROVE  ConnInv'
<1>1. /\ at'[Server] = IF e \/ headers + 1 = MAX_HEADERS THEN "respond" ELSE "headers"
      /\ path' = path /\ headers' = headers + 1 /\ got' = 0 /\ blank' = TRUE /\ waits' = waits + 1
  BY DEF EndHeader, Fresh, GoTo, LockInv, Threads
<1>2. /\ headers \in Nat /\ headers < MAX_HEADERS /\ got \in Nat /\ got < MAX_HEADER_LINE
      /\ waits \in Nat /\ waits <= MAX_REQUEST_LINE + headers * MAX_HEADER_LINE + got
      /\ path \in Paths
  BY DEF ConnInv
<1>3. MAX_HEADERS \in Nat /\ MAX_HEADER_LINE \in Nat \ {0} /\ MAX_REQUEST_LINE \in Nat
  BY ScrapeAssumption
<1> DEFINE cost == headers * MAX_HEADER_LINE
           next == (headers + 1) * MAX_HEADER_LINE
           all == MAX_HEADERS * MAX_HEADER_LINE
<1>4. cost \in Nat /\ all \in Nat /\ next = cost + MAX_HEADER_LINE /\ next <= all
  BY <1>2, HeaderCost
<1>5. waits \in Nat /\ waits <= MAX_REQUEST_LINE + cost + got
  BY <1>2
<1>6. headers' * MAX_HEADER_LINE = next
  BY <1>1
<1> HIDE DEF cost, next, all
<1>7. waits' \in Nat /\ waits' <= MAX_REQUEST_LINE + next + got' /\ waits' <= MAX_REQUEST_LINE + all
  BY <1>1, <1>2, <1>3, <1>4, <1>5
<1>8. headers' \in 0..MAX_HEADERS /\ (headers + 1 # MAX_HEADERS => headers' < MAX_HEADERS)
  BY <1>1, <1>2, <1>3
<1>9. CASE at'[Server] = "respond"
  BY <1>1, <1>2, <1>7, <1>8, <1>9 DEF ConnInv, Rendering, all
<1>10. CASE at'[Server] = "headers" /\ headers + 1 # MAX_HEADERS
  BY <1>1, <1>2, <1>3, <1>6, <1>7, <1>8, <1>10 DEF ConnInv, Rendering
<1> QED BY <1>1, <1>9, <1>10

(* The server's steps outside render.                                       *)
ConnStep ==
  \/ Bind \/ Accept \/ SetupFailed \/ Setup \/ ReadFailed \/ RequestByte \/ RequestEof
  \/ HeaderByte \/ HeaderEof \/ Respond \/ WriteByte \/ WriteFailed

(* They stay outside the lock.                                              *)
LEMMA ConnStepGoes ==
  ASSUME LockInv, ConnStep
  PROVE  at[Server] \notin Rendering /\ \E label \in ServerLabels \ Rendering : GoTo(label)
<1> DEFINE Goes == \E label \in ServerLabels \ Rendering : GoTo(label)
<1>1. /\ "accept" \in ServerLabels \ Rendering /\ "stopped" \in ServerLabels \ Rendering
      /\ "setup" \in ServerLabels \ Rendering /\ "line" \in ServerLabels \ Rendering
      /\ "headers" \in ServerLabels \ Rendering /\ "respond" \in ServerLabels \ Rendering
      /\ "render" \in ServerLabels \ Rendering /\ "write" \in ServerLabels \ Rendering
  BY DEF ServerLabels, Connected, Rendering
<1>2. HangUp => Goes
  BY <1>1 DEF HangUp
<1>3. \A e : EndRequestLine(e) => Goes
  BY <1>1 DEF EndRequestLine
<1>4. \A e : EndHeader(e) => Goes
  <2> SUFFICES ASSUME NEW e, EndHeader(e) PROVE Goes
    OBVIOUS
  <2>1. GoTo("respond") \/ GoTo("headers")
    BY DEF EndHeader
  <2> QED BY <1>1, <2>1
<1>5. CASE Bind
  BY <1>1, <1>5 DEF Bind, Rendering
<1>6. CASE Accept \/ Setup
  BY <1>1, <1>6 DEF Accept, Setup, Rendering
<1>7. CASE SetupFailed \/ ReadFailed \/ WriteFailed
  BY <1>2, <1>7 DEF SetupFailed, ReadFailed, WriteFailed, Rendering
<1>8. CASE RequestByte
  BY <1>1, <1>2, <1>3, <1>8 DEF RequestByte, Rendering
<1>9. CASE RequestEof \/ HeaderEof
  BY <1>3, <1>4, <1>9 DEF RequestEof, HeaderEof, Rendering
<1>10. CASE HeaderByte
  BY <1>1, <1>4, <1>10 DEF HeaderByte, Rendering
<1>11. CASE Respond
  <2>1. GoTo("render") \/ GoTo("write")
    BY <1>11 DEF Respond
  <2> QED BY <1>1, <1>11, <2>1 DEF Respond, Rendering
<1>12. CASE WriteByte
  BY <1>1, <1>2, <1>12 DEF WriteByte, Rendering
<1> QED BY <1>5, <1>6, <1>7, <1>8, <1>9, <1>10, <1>11, <1>12 DEF ConnStep

(* Every step of serve and handle keeps the limits.                         *)
LEMMA ConnStepKeepsConn ==
  ASSUME LockInv, ConnInv, ConnStep
  PROVE  ConnInv'
<1>0. \A label : GoTo(label) => at'[Server] = label
  BY DEF GoTo, LockInv, Threads
<1>a. /\ MAX_REQUEST_LINE \in Nat \ {0} /\ MAX_HEADER_LINE \in Nat \ {0}
      /\ MAX_HEADERS \in Nat \ {0} /\ ResponseLength \in Nat \ {0}
  BY ScrapeAssumption
<1>t. /\ path \in Paths /\ headers \in 0..MAX_HEADERS /\ blank \in BOOLEAN
      /\ got \in Nat /\ waits \in Nat
  BY DEF ConnInv
<1>1. CASE Bind \/ Accept \/ Setup
  <2>1. at[Server] \in {"bind", "accept", "setup"} /\ at'[Server] \in {"accept", "stopped", "setup", "line"}
    BY <1>0, <1>1 DEF Bind, Accept, Setup
  <2>2. UNCHANGED connVars
    BY <1>1 DEF Bind, Accept, Setup
  <2> QED BY <1>a, <2>1, <2>2 DEF ConnInv, connVars, Rendering
<1>2. CASE SetupFailed \/ ReadFailed \/ WriteFailed
  BY <1>2, HangUpKeepsConn DEF SetupFailed, ReadFailed, WriteFailed
<1>3. CASE RequestByte
  <2>1. PICK b \in Bytes :
          \/ EndRequestLine(blank)
          \/ HangUp
          \/ got + 1 < MAX_REQUEST_LINE /\ Longer(b) /\ GoTo("line") /\ UNCHANGED <<path, headers, out>>
    BY <1>3 DEF RequestByte
  <2>2. at[Server] = "line"
    BY <1>3 DEF RequestByte
  <2>3. CASE EndRequestLine(blank)
    BY <1>t, <2>2, <2>3, EndRequestLineKeepsConn
  <2>4. CASE got + 1 < MAX_REQUEST_LINE /\ Longer(b) /\ GoTo("line") /\ UNCHANGED <<path, headers, out>>
    <3>1. at'[Server] = "line" /\ got' = got + 1 /\ waits' = waits + 1 /\ blank' \in BOOLEAN
      BY <1>0, <2>4 DEF Longer
    <3> QED BY <1>a, <1>t, <2>2, <2>4, <3>1 DEF ConnInv, Rendering
  <2> QED BY <2>1, <2>3, <2>4, HangUpKeepsConn
<1>4. CASE RequestEof
  BY <1>4, <1>t, EndRequestLineKeepsConn DEF RequestEof
<1>5. CASE HeaderByte
  <2>1. PICK b \in Bytes :
          \/ EndHeader(blank /\ b # "other")
          \/ got + 1 # MAX_HEADER_LINE /\ Longer(b) /\ GoTo("headers") /\ UNCHANGED <<path, headers, out>>
    BY <1>5 DEF HeaderByte
  <2>2. at[Server] = "headers"
    BY <1>5 DEF HeaderByte
  <2>3. CASE EndHeader(blank /\ b # "other")
    <3>1. (blank /\ b # "other") \in BOOLEAN
      OBVIOUS
    <3> QED BY <2>2, <2>3, <3>1, EndHeaderKeepsConn
  <2>4. CASE got + 1 # MAX_HEADER_LINE /\ Longer(b) /\ GoTo("headers") /\ UNCHANGED <<path, headers, out>>
    <3>1. at'[Server] = "headers" /\ got' = got + 1 /\ waits' = waits + 1 /\ blank' \in BOOLEAN
      BY <1>0, <2>4 DEF Longer
    <3>2. /\ headers < MAX_HEADERS /\ got < MAX_HEADER_LINE
          /\ waits <= MAX_REQUEST_LINE + headers * MAX_HEADER_LINE + got
          /\ headers * MAX_HEADER_LINE \in Nat
      BY <1>t, <2>2, HeaderCost DEF ConnInv
    <3>3. got' \in Nat /\ waits' \in Nat /\ got' < MAX_HEADER_LINE
      BY <1>a, <1>t, <2>4, <3>1, <3>2
    <3>4. waits' <= MAX_REQUEST_LINE + headers * MAX_HEADER_LINE + got'
      BY <1>a, <1>t, <3>1, <3>2
    <3> QED BY <1>t, <2>4, <3>1, <3>2, <3>3, <3>4 DEF ConnInv, Rendering
  <2> QED BY <2>1, <2>3, <2>4
<1>6. CASE HeaderEof
  BY <1>6, <1>t, EndHeaderKeepsConn DEF HeaderEof
<1>7. CASE Respond
  <2>1. at[Server] = "respond" /\ at'[Server] \in {"render", "write"} /\ UNCHANGED connVars
    BY <1>0, <1>7 DEF Respond
  <2>2. MAX_HEADERS * MAX_HEADER_LINE \in Nat
    BY <1>a
  <2>3. got = 0 /\ waits <= MAX_REQUEST_LINE + MAX_HEADERS * MAX_HEADER_LINE
    BY <2>1 DEF ConnInv
  <2>4. waits <= MAX_REQUEST_LINE + MAX_HEADERS * MAX_HEADER_LINE + got /\ got < ResponseLength
    BY <1>a, <1>t, <2>2, <2>3
  <2> QED BY <1>t, <2>1, <2>3, <2>4 DEF ConnInv, connVars, Rendering
<1>8. CASE WriteByte
  <2>1. CASE HangUp
    BY <2>1, HangUpKeepsConn
  <2>2. CASE /\ got + 1 # ResponseLength /\ got' = got + 1 /\ waits' = waits + 1 /\ GoTo("write")
             /\ UNCHANGED <<path, headers, blank, out>>
    <3>1. at[Server] = "write" /\ at'[Server] = "write"
      BY <1>0, <1>8, <2>2 DEF WriteByte
    <3>2. /\ got < ResponseLength
          /\ waits <= MAX_REQUEST_LINE + MAX_HEADERS * MAX_HEADER_LINE + got
          /\ MAX_HEADERS * MAX_HEADER_LINE \in Nat
      BY <1>a, <3>1 DEF ConnInv
    <3>3. got' \in Nat /\ waits' \in Nat /\ got' < ResponseLength
      BY <1>a, <1>t, <2>2, <3>2
    <3>4. waits' <= MAX_REQUEST_LINE + MAX_HEADERS * MAX_HEADER_LINE + got'
      BY <1>a, <1>t, <2>2, <3>2
    <3> QED BY <1>t, <2>2, <3>1, <3>3, <3>4 DEF ConnInv, Rendering
  <2> QED BY <1>8, <2>1, <2>2 DEF WriteByte
<1> QED BY <1>1, <1>2, <1>3, <1>4, <1>5, <1>6, <1>7, <1>8 DEF ConnStep

(* Rendering takes no byte of the connection.                               *)
LEMMA RenderKeepsConn ==
  ASSUME LockInv, ConnInv, Render, UNCHANGED connVars
  PROVE  ConnInv'
<1>1. at[Server] \in {"render"} \cup Rendering /\ at'[Server] \in Rendering \cup {"write"}
  BY DEF Render, RenderLock, RenderDevices, RenderSignals, RenderSelf, Rendering, LockInv, Threads
<1>2. got = 0 /\ waits \in Nat /\ waits <= MAX_REQUEST_LINE + MAX_HEADERS * MAX_HEADER_LINE
  BY <1>1 DEF ConnInv
<1>3. /\ MAX_HEADERS * MAX_HEADER_LINE \in Nat /\ MAX_REQUEST_LINE \in Nat
      /\ ResponseLength \in Nat \ {0}
  BY ScrapeAssumption
<1>4. got < ResponseLength /\ waits <= MAX_REQUEST_LINE + MAX_HEADERS * MAX_HEADER_LINE + got
  BY <1>2, <1>3
<1> QED BY <1>1, <1>2, <1>4 DEF ConnInv, connVars, Rendering

-----------------------------------------------------------------------------
(* The figures *)

(* The bounds of the buckets grow.                                          *)
LEMMA BucketsGrow ==
  /\ DOMAIN LATENCY_BUCKETS = 1..11
  /\ \A i, j \in 1..11 : i <= j => LATENCY_BUCKETS[i] <= LATENCY_BUCKETS[j]
  /\ \A i \in 1..11 : LATENCY_BUCKETS[i] \in Nat
<1>1. DOMAIN LATENCY_BUCKETS = 1..11
  BY DEF LATENCY_BUCKETS
<1>2. /\ LATENCY_BUCKETS[1] = 500 /\ LATENCY_BUCKETS[2] = 1000 /\ LATENCY_BUCKETS[3] = 2000
      /\ LATENCY_BUCKETS[4] = 5000 /\ LATENCY_BUCKETS[5] = 10000 /\ LATENCY_BUCKETS[6] = 25000
      /\ LATENCY_BUCKETS[7] = 50000 /\ LATENCY_BUCKETS[8] = 100000 /\ LATENCY_BUCKETS[9] = 250000
      /\ LATENCY_BUCKETS[10] = 500000 /\ LATENCY_BUCKETS[11] = 1000000
  BY DEF LATENCY_BUCKETS
<1> HIDE DEF LATENCY_BUCKETS
<1> QED BY <1>1, <1>2

(* Counting one more transaction keeps a histogram cumulative, and its      *)
(* total grows by one.                                                      *)
LEMMA ObserveCumulates ==
  ASSUME NEW h, Cumulative(h), NEW v \in Nat
  PROVE  Cumulative(observe(h, v)) /\ observe(h, v).total = h.total + 1
<1> DEFINE B == DOMAIN LATENCY_BUCKETS
           one(i) == IF v <= LATENCY_BUCKETS[i] THEN 1 ELSE 0
           c == [i \in B |-> h.counts[i] + one(i)]
<1>1. h.counts \in [B -> Nat] /\ h.total \in Nat
  BY DEF Cumulative
<1>2. observe(h, v) = [counts |-> c, sum |-> h.sum + v, total |-> h.total + 1]
  BY <1>1 DEF observe
<1>3. ASSUME NEW i \in B, NEW j \in B, i <= j
      PROVE  one(i) <= one(j) /\ one(i) \in 0..1 /\ one(j) \in 0..1
  <2>1. LATENCY_BUCKETS[i] <= LATENCY_BUCKETS[j] /\ LATENCY_BUCKETS[i] \in Nat /\ LATENCY_BUCKETS[j] \in Nat
    BY <1>3, BucketsGrow
  <2> QED BY <2>1
<1>4. ASSUME NEW i \in B PROVE one(i) \in 0..1
  OBVIOUS
<1> HIDE DEF one, B
<1>5. c \in [B -> Nat]
  BY <1>1, <1>4
<1>6. ASSUME NEW i \in B, NEW j \in B, i <= j PROVE c[i] <= c[j] /\ c[j] <= h.total + 1
  <2>1. h.counts[i] <= h.counts[j] /\ h.counts[j] <= h.total
    BY <1>6 DEF Cumulative, B
  <2>2. h.counts[i] \in Nat /\ h.counts[j] \in Nat
    BY <1>1
  <2>3. one(i) <= one(j) /\ one(i) \in 0..1 /\ one(j) \in 0..1
    BY <1>3, <1>6
  <2> QED BY <1>1, <2>1, <2>2, <2>3
<1> HIDE DEF c
<1>7. /\ observe(h, v).counts = c /\ observe(h, v).total = h.total + 1
  BY <1>2
<1> QED BY <1>1, <1>5, <1>6, <1>7 DEF Cumulative, B

(* An empty histogram is cumulative.                                        *)
LEMMA HistogramCumulates == Cumulative(Histogram) /\ Histogram.total = 0
BY DEF Cumulative, Histogram

(* The registry begins with figures that agree.                             *)
LEMMA InnerInit == Init => InnerInv
<1> SUFFICES ASSUME Init PROVE InnerInv
  OBVIOUS
<1>1. inner = Inner /\ lock = Free /\ poisoned = FALSE
  BY DEF Init, InitMetrics
<1>2. Stage = "outside" /\ Begun = {}
  <2>1. lock \notin Pollers
    BY <1>1, ThreadsDiffer DEF Threads
  <2> QED BY <2>1 DEF Stage, Begun
<1>3. /\ inner.latency = <<>> /\ inner.transactions = <<>> /\ inner.attempts = <<>>
      /\ inner.polls = 0 /\ inner.poll_failures = 0
  BY <1>1 DEF Inner
<1>4. DOMAIN inner.latency = {} /\ DOMAIN inner.transactions = {} /\ DOMAIN inner.attempts = {}
  BY <1>3
<1> QED BY <1>1, <1>2, <1>3, <1>4 DEF InnerInv, Ahead

(* A step that updates nothing and begins nothing.                          *)
LEMMA InnerFramed ==
  ASSUME InnerInv, inner' = inner, poisoned \in BOOLEAN, poisoned => poisoned',
         ~poisoned' => Begun' = Begun /\ (Stage' = Stage \/ {Stage, Stage'} \cap
                         {"attempts", "latency", "duration", "failures"} = {})
  PROVE  InnerInv'
<1>1. ~poisoned' => ~poisoned
  OBVIOUS
<1>2. \A k : Counted(k)' = Counted(k)
  BY DEF Counted
<1>3. \A S : Ahead(S)' <=> Ahead(S)
  BY <1>2 DEF Ahead
<1>4. ~poisoned' => Ahead(Begun)'
  BY <1>1, <1>3 DEF InnerInv, Ahead, Counted
<1>5. ASSUME ~poisoned'
      PROVE  /\ Stage' = "latency" <=> Stage = "latency"
             /\ Stage' \in {"duration", "failures"} <=> Stage \in {"duration", "failures"}
  BY <1>5
<1> QED BY <1>1, <1>4, <1>5 DEF InnerInv

(* The holder of the lock, if it records, is not disturbed by the others.   *)
LEMMA StageFramed ==
  ASSUME UNCHANGED lock, lock \in Pollers => at'[lock] = at[lock] /\ arg'[lock] = arg[lock]
  PROVE  Stage' = Stage /\ Begun' = Begun
BY DEF Stage, Begun, Key

(* A step that records nothing keeps the figures.                           *)
LEMMA OtherStepsKeepInner ==
  ASSUME LockInv, InnerInv,
         \/ inner' = inner /\ UNCHANGED <<lock, poisoned, arg>> /\ \A p \in Pollers : at'[p] = at[p]
         \/ Render
         \/ \E p \in Pollers : Enter(p) \/ Acquire(p) \/ Panic(p)
  PROVE  InnerInv'
<1>0. poisoned \in BOOLEAN
  BY DEF LockInv
<1>1. CASE inner' = inner /\ UNCHANGED <<lock, poisoned, arg>> /\ \A p \in Pollers : at'[p] = at[p]
  BY <1>0, <1>1, StageFramed, InnerFramed
<1>2. CASE Render
  <2>1. inner' = inner /\ UNCHANGED <<poisoned, arg>>
    BY <1>2 DEF Render, RenderLock, RenderDevices, RenderSignals, RenderSelf
  <2>2. lock \notin Pollers /\ lock' \notin Pollers
    BY <1>2, ThreadsDiffer
    DEF Render, RenderLock, RenderDevices, RenderSignals, RenderSelf, LockInv, Rendering, Threads
  <2>3. Stage = "outside" /\ Stage' = "outside" /\ Begun = {} /\ Begun' = {}
    BY <2>2 DEF Stage, Begun
  <2> QED BY <1>0, <2>1, <2>3, InnerFramed
<1>3. ASSUME NEW p \in Pollers, Enter(p) PROVE InnerInv'
  <2>1. at[p] = "idle" /\ UNCHANGED <<inner, lock, poisoned>>
    BY <1>3 DEF Enter
  <2>2. lock # p
    BY <2>1 DEF LockInv, Working
  <2>3. \A q \in Pollers : q # p => at'[q] = at[q] /\ arg'[q] = arg[q]
    BY <1>3 DEF Enter, LockInv, Threads
  <2> QED BY <1>0, <2>1, <2>2, <2>3, StageFramed, InnerFramed
<1>4. ASSUME NEW p \in Pollers, Acquire(p) PROVE InnerInv'
  <2>1. at[p] = "lock" /\ lock = Free /\ UNCHANGED <<inner, poisoned>>
    BY <1>4 DEF Acquire
  <2>2. Stage = "outside" /\ Begun = {}
    BY <2>1, ThreadsDiffer DEF Stage, Begun, Threads
  <2>3. Stage' \in {"outside", "transactions", "insert", "polls"}
    <3>1. CASE poisoned
      <4>1. lock' = Free
        BY <1>4, <2>1, <3>1 DEF Acquire
      <4> QED BY <4>1, ThreadsDiffer DEF Stage, Threads
    <3>2. CASE ~poisoned
      <4>1. PICK c \in Calls : arg[p] = <<c>>
        BY <2>1 DEF LockInv
      <4>2. lock' = p /\ at' = [at EXCEPT ![p] = FirstStep[c.op]]
        BY <1>4, <3>2, <4>1 DEF Acquire
      <4>3. at'[p] = FirstStep[c.op]
        BY <4>2 DEF LockInv, Threads
      <4>4. FirstStep[c.op] \in {"transactions", "insert", "polls"}
        BY CallKinds DEF FirstStep
      <4> HIDE DEF FirstStep
      <4> QED BY <4>2, <4>3, <4>4 DEF Stage
    <3> QED BY <3>1, <3>2
  <2>4. Begun' = {}
    BY <2>3 DEF Begun
  <2> QED BY <1>0, <2>1, <2>2, <2>3, <2>4, InnerFramed
<1>5. ASSUME NEW p \in Pollers, Panic(p) PROVE InnerInv'
  BY <1>0, <1>5, InnerFramed DEF Panic
<1> QED BY <1>1, <1>2, <1>3, <1>4, <1>5

(* A recording step keeps the figures, or leaves them to the poison.        *)
LEMMA UpdateKeepsInner ==
  ASSUME LockInv, InnerInv, NEW p \in Pollers, Update(p)
  PROVE  InnerInv'
<1> DEFINE T == inner.transactions
           A == inner.attempts
           L == inner.latency
<1>1. at[p] \in Working
  BY DEF Update, Transactions, Attempts, Latency, Errors, Insert, Polls, Duration, Failures,
     Step, LastStep, Working
<1>2. lock = p /\ ~poisoned
  BY <1>1, ThreadsDiffer DEF LockInv, Threads
<1>3. PICK c \in Calls : arg[p] = <<c>> /\ at[p] \in StatementsOf(c.op)
  BY <1>1 DEF LockInv
<1>4. arg[p][1] = c /\ Stage = at[p] /\ Begun = IF at[p] \in {"attempts", "latency"} THEN {Key(c)} ELSE {}
  BY <1>2, <1>3 DEF Stage, Begun
<1>5. /\ DOMAIN inner = DOMAIN Inner /\ inner.polls \in Nat /\ inner.poll_failures \in Nat
      /\ \A k \in DOMAIN L : Cumulative(L[k])
      /\ Ahead(Begun)
      /\ DOMAIN A = IF Stage = "latency" THEN DOMAIN T ELSE DOMAIN L
      /\ inner.poll_failures + (IF Stage \in {"duration", "failures"} THEN 1 ELSE 0) <= inner.polls
  BY <1>2 DEF InnerInv
<1>6. /\ "transactions" \in DOMAIN inner /\ "attempts" \in DOMAIN inner /\ "latency" \in DOMAIN inner
      /\ "errors" \in DOMAIN inner /\ "devices" \in DOMAIN inner /\ "polls" \in DOMAIN inner
      /\ "last_poll_duration" \in DOMAIN inner /\ "poll_failures" \in DOMAIN inner
  BY <1>5 DEF Inner
<1>7. ASSUME NEW from, NEW to, NEW g, Step(p, from, to, g)
      PROVE  /\ at[p] = from /\ inner' = g /\ poisoned' = poisoned /\ Stage' = to
             /\ Begun' = IF to \in {"attempts", "latency"} THEN {Key(c)} ELSE {}
  <2>1. at[p] = from /\ at'[p] = to /\ inner' = g /\ UNCHANGED <<lock, poisoned, arg>>
    BY <1>7 DEF Step, LockInv, Threads
  <2>2. Stage' = to
    BY <1>2, <2>1 DEF Stage
  <2>3. arg'[lock'][1] = c
    BY <1>2, <1>4, <2>1
  <2> QED BY <2>1, <2>2, <2>3 DEF Begun, Key
<1>8. ASSUME NEW from, NEW g, LastStep(p, from, g)
      PROVE  at[p] = from /\ inner' = g /\ poisoned' = poisoned /\ Stage' = "outside" /\ Begun' = {}
  <2>1. at[p] = from /\ inner' = g /\ poisoned' = poisoned /\ lock' = Free
    BY <1>8 DEF LastStep
  <2>2. Stage' = "outside"
    BY <2>1, ThreadsDiffer DEF Stage, Threads
  <2> QED BY <2>1, <2>2 DEF Begun
<1>9. ASSUME inner'.latency = L, inner'.transactions = T, Begun' = Begun PROVE Ahead(Begun)'
  <2>1. \A k : Counted(k)' = Counted(k)
    BY <1>9 DEF Counted
  <2> QED BY <1>5, <1>9, <2>1 DEF Ahead
<1> DEFINE k0 == Key(c)
<1>10. CASE Transactions(p, c)
  <2> DEFINE n == entry(T, k0, 0) + 1
  <2>1. /\ at[p] = "transactions" /\ Stage' = "attempts" /\ Begun' = {k0} /\ poisoned' = poisoned
        /\ inner' = [inner EXCEPT !.transactions = insert(T, k0, n)]
    BY <1>7, <1>10 DEF Transactions, add
  <2>2. /\ inner'.transactions = insert(T, k0, n) /\ inner'.latency = L /\ inner'.attempts = A
        /\ inner'.polls = inner.polls /\ inner'.poll_failures = inner.poll_failures
        /\ DOMAIN inner' = DOMAIN inner
    BY <1>6, <2>1
  <2>3. \A k : Counted(k)' = Counted(k)
    BY <2>2 DEF Counted
  <2>4. DOMAIN T = DOMAIN L /\ \A k \in DOMAIN T : T[k] = Counted(k) + 0
    BY <1>4, <1>5, <2>1 DEF Ahead
  <2>5. n = Counted(k0) + 1 /\ \A k \in DOMAIN T : T[k] = Counted(k)
    <3>1. ASSUME NEW k \in DOMAIN T PROVE Counted(k) \in Nat
      BY <1>5, <2>4, <3>1 DEF Counted, entry, Cumulative
    <3>2. \A k \in DOMAIN T : T[k] = Counted(k)
      BY <2>4, <3>1
    <3>3. CASE k0 \in DOMAIN T
      BY <3>2, <3>3 DEF entry
    <3>4. CASE k0 \notin DOMAIN T
      BY <2>4, <3>2, <3>4, HistogramCumulates DEF entry, Counted
    <3> QED BY <3>2, <3>3, <3>4
  <2> HIDE DEF n, k0, T, L, A
  <2>6. /\ DOMAIN inner'.transactions = DOMAIN L \cup {k0}
        /\ inner'.transactions[k0] = n
        /\ \A k \in DOMAIN T : k # k0 => inner'.transactions[k] = T[k]
    BY <2>2, <2>4 DEF insert
  <2>7. ASSUME NEW k \in DOMAIN inner'.transactions
        PROVE  inner'.transactions[k] = Counted(k)' + IF k \in {k0} THEN 1 ELSE 0
    <3>1. CASE k = k0
      BY <2>3, <2>5, <2>6, <3>1
    <3>2. CASE k # k0
      <4>1. k \in DOMAIN T
        BY <2>4, <2>6, <3>2
      <4>2. Counted(k) \in Nat
        BY <1>5, <2>4, <4>1 DEF Counted, entry, Cumulative, L
      <4> QED BY <2>3, <2>5, <2>6, <3>2, <4>1, <4>2
    <3> QED BY <3>1, <3>2
  <2>8. Ahead(Begun)'
    BY <2>1, <2>2, <2>6, <2>7 DEF Ahead, L
  <2>9. DOMAIN inner'.attempts = DOMAIN inner'.latency
    BY <1>4, <1>5, <2>1, <2>2 DEF A, L
  <2> QED BY <1>4, <1>5, <2>1, <2>2, <2>8, <2>9 DEF InnerInv, L
<1>11. CASE Attempts(p, c)
  <2> DEFINE n == entry(A, k0, 0) + c.attempts
  <2>1. /\ at[p] = "attempts" /\ Stage' = "latency" /\ Begun' = {k0} /\ poisoned' = poisoned
        /\ inner' = [inner EXCEPT !.attempts = insert(A, k0, n)]
    BY <1>7, <1>11 DEF Attempts, add
  <2>2. /\ inner'.attempts = insert(A, k0, n) /\ inner'.latency = L /\ inner'.transactions = T
        /\ inner'.polls = inner.polls /\ inner'.poll_failures = inner.poll_failures
        /\ DOMAIN inner' = DOMAIN inner
    BY <1>6, <2>1
  <2>3. Ahead(Begun)'
    BY <1>4, <1>9, <2>1, <2>2
  <2>4. DOMAIN T = DOMAIN L \cup {k0} /\ DOMAIN A = DOMAIN L
    BY <1>4, <1>5, <2>1 DEF Ahead
  <2> HIDE DEF n, k0
  <2>5. DOMAIN inner'.attempts = DOMAIN inner'.transactions
    BY <2>2, <2>4 DEF insert
  <2> QED BY <1>4, <1>5, <2>1, <2>2, <2>3, <2>5 DEF InnerInv
<1>12. CASE Latency(p, c)
  <2> DEFINE h == entry(L, k0, Histogram)
             g == observe(h, c.duration)
  <2>1. /\ at[p] = "latency" /\ Stage' = "errors" /\ Begun' = {} /\ poisoned' = poisoned
        /\ inner' = [inner EXCEPT !.latency = insert(L, k0, g)]
    BY <1>7, <1>12 DEF Latency
  <2>2. /\ inner'.latency = insert(L, k0, g) /\ inner'.attempts = A /\ inner'.transactions = T
        /\ inner'.polls = inner.polls /\ inner'.poll_failures = inner.poll_failures
        /\ DOMAIN inner' = DOMAIN inner
    BY <1>6, <2>1
  <2>3. c.duration \in Nat
    BY <1>3, <2>1, StatementKinds, CallKinds
  <2>4. Cumulative(h) /\ h.total = Counted(k0)
    BY <1>5, HistogramCumulates DEF entry, Counted
  <2> HIDE DEF h
  <2>5. Cumulative(g) /\ g.total = Counted(k0) + 1
    BY <2>3, <2>4, ObserveCumulates
  <2>6. /\ DOMAIN T = DOMAIN L \cup {k0} /\ DOMAIN A = DOMAIN T
        /\ \A k \in DOMAIN T : T[k] = Counted(k) + IF k \in {k0} THEN 1 ELSE 0
    BY <1>4, <1>5, <2>1 DEF Ahead
  <2> HIDE DEF g, k0, T, L, A
  <2>7. /\ DOMAIN inner'.latency = DOMAIN L \cup {k0} /\ inner'.latency[k0] = g
        /\ \A k \in DOMAIN L : k # k0 => inner'.latency[k] = L[k]
    BY <2>2 DEF insert
  <2>8. \A k \in DOMAIN inner'.latency : Cumulative(inner'.latency[k])
    BY <1>5, <2>5, <2>7 DEF L
  <2>9. ASSUME NEW k \in DOMAIN inner'.transactions
        PROVE  inner'.transactions[k] = Counted(k)' + IF k \in {} THEN 1 ELSE 0
    <3>1. k \in DOMAIN inner'.latency /\ k \in DOMAIN T
      BY <2>2, <2>6, <2>7
    <3>2. Counted(k)' = inner'.latency[k].total /\ Counted(k)' \in Nat
      BY <2>8, <3>1 DEF Counted, entry, Cumulative
    <3>3. CASE k = k0
      BY <2>2, <2>5, <2>6, <2>7, <3>1, <3>2, <3>3
    <3>4. CASE k # k0
      <4>1. k \in DOMAIN L /\ inner'.latency[k] = L[k]
        BY <2>6, <2>7, <3>1, <3>4
      <4>2. Counted(k) = L[k].total
        BY <4>1 DEF Counted, entry, L
      <4>3. T[k] = Counted(k) + 0
        BY <2>6, <3>1, <3>4
      <4> QED BY <2>2, <3>2, <4>1, <4>2, <4>3
    <3> QED BY <3>3, <3>4
  <2>10. Ahead(Begun)'
    BY <2>1, <2>2, <2>6, <2>7, <2>9 DEF Ahead
  <2>11. DOMAIN inner'.attempts = DOMAIN inner'.latency
    BY <2>2, <2>6, <2>7
  <2> QED BY <1>4, <1>5, <2>1, <2>2, <2>8, <2>10, <2>11 DEF InnerInv
<1>13. CASE Errors(p, c) \/ Insert(p, c)
  <2>1. /\ Stage \in {"errors", "insert"} /\ Stage' = "outside" /\ Begun' = {} /\ poisoned' = poisoned
        /\ Begun = {}
    BY <1>4, <1>8, <1>13 DEF Errors, Insert
  <2>2. /\ inner'.attempts = A /\ inner'.latency = L /\ inner'.transactions = T
        /\ inner'.polls = inner.polls /\ inner'.poll_failures = inner.poll_failures
        /\ DOMAIN inner' = DOMAIN inner
    BY <1>6, <1>8, <1>13 DEF Errors, Insert
  <2>3. Ahead(Begun)'
    BY <1>9, <2>1, <2>2
  <2> QED BY <1>4, <1>5, <2>1, <2>2, <2>3 DEF InnerInv
<1>14. CASE Polls(p, c)
  <2>1. /\ Stage = "polls" /\ Stage' = "duration" /\ Begun' = {} /\ poisoned' = poisoned
        /\ Begun = {} /\ inner' = [inner EXCEPT !.polls = @ + 1]
    BY <1>4, <1>7, <1>14 DEF Polls
  <2>2. /\ inner'.attempts = A /\ inner'.latency = L /\ inner'.transactions = T
        /\ inner'.polls = inner.polls + 1 /\ inner'.poll_failures = inner.poll_failures
        /\ DOMAIN inner' = DOMAIN inner
    BY <1>6, <2>1
  <2>3. Ahead(Begun)'
    BY <1>9, <2>1, <2>2
  <2> QED BY <1>4, <1>5, <2>1, <2>2, <2>3 DEF InnerInv
<1>15. CASE Duration(p, c)
  <2>1. /\ Stage = "duration" /\ Stage' = "failures" /\ Begun' = {} /\ poisoned' = poisoned
        /\ Begun = {} /\ inner' = [inner EXCEPT !.last_poll_duration = c.duration]
    BY <1>4, <1>7, <1>15 DEF Duration
  <2>2. /\ inner'.attempts = A /\ inner'.latency = L /\ inner'.transactions = T
        /\ inner'.polls = inner.polls /\ inner'.poll_failures = inner.poll_failures
        /\ DOMAIN inner' = DOMAIN inner
    BY <1>6, <2>1
  <2>3. Ahead(Begun)'
    BY <1>9, <2>1, <2>2
  <2> QED BY <1>4, <1>5, <2>1, <2>2, <2>3 DEF InnerInv
<1>16. CASE Failures(p, c)
  <2>1. /\ Stage = "failures" /\ Stage' = "outside" /\ Begun' = {} /\ poisoned' = poisoned
        /\ Begun = {}
        /\ inner' = IF c.failed THEN [inner EXCEPT !.poll_failures = @ + 1] ELSE inner
    BY <1>4, <1>8, <1>16 DEF Failures
  <2>2. /\ inner'.attempts = A /\ inner'.latency = L /\ inner'.transactions = T
        /\ inner'.polls = inner.polls /\ DOMAIN inner' = DOMAIN inner
        /\ inner'.poll_failures \in {inner.poll_failures, inner.poll_failures + 1}
    BY <1>6, <2>1
  <2>3. Ahead(Begun)'
    BY <1>9, <2>1, <2>2
  <2> QED BY <1>4, <1>5, <2>1, <2>2, <2>3 DEF InnerInv
<1> QED
  BY <1>4, <1>10, <1>11, <1>12, <1>13, <1>14, <1>15, <1>16 DEF Update

-----------------------------------------------------------------------------
(* Every state of the daemon satisfies the three invariants.                *)
LEMMA Invariance == Spec => []Inv
<1>1. Init => Inv
  BY LockInit, ConnInit, InnerInit DEF Inv
<1>2. Inv /\ [Next]_vars => Inv'
  <2> SUFFICES ASSUME Inv, [Next]_vars PROVE Inv'
    OBVIOUS
  <2>0. LockInv /\ ConnInv /\ InnerInv
    BY DEF Inv
  <2>1. CASE ConnStep
    <3>1. PICK label \in ServerLabels \ Rendering : GoTo(label)
      BY <2>0, <2>1, ConnStepGoes
    <3>2. at[Server] \notin Rendering
      BY <2>0, <2>1, ConnStepGoes
    <3>3. /\ LockInv' /\ UNCHANGED <<inner, lock, poisoned, arg>>
          /\ \A p \in Pollers : at'[p] = at[p]
      BY <2>0, <3>1, <3>2, GoToKeepsLock
    <3> QED BY <2>0, <2>1, <3>3, ConnStepKeepsConn, OtherStepsKeepInner DEF Inv
  <2>2. CASE Render /\ UNCHANGED connVars
    BY <2>0, <2>2, RenderKeepsLock, RenderKeepsConn, OtherStepsKeepInner DEF Inv
  <2>3. ASSUME NEW p \in Pollers, Record(p), UNCHANGED connVars PROVE Inv'
    <3>1. LockInv' /\ ConnInv'
      BY <2>0, <2>3, RecordKeepsLock, OthersKeepConn
    <3>2. InnerInv'
      BY <2>0, <2>3, OtherStepsKeepInner, UpdateKeepsInner DEF Record
    <3> QED BY <3>1, <3>2 DEF Inv
  <2>4. CASE UNCHANGED vars
    <3>1. UNCHANGED <<inner, lock, poisoned, arg, at>> /\ UNCHANGED connVars
      BY <2>4 DEF vars, metricVars
    <3>2. LockInv'
      BY <2>0, <3>1 DEF LockInv
    <3>3. ConnInv'
      BY <2>0, <3>1, OthersKeepConn
    <3>4. InnerInv'
      BY <2>0, <3>1, OtherStepsKeepInner
    <3> QED BY <3>2, <3>3, <3>4 DEF Inv
  <2> QED BY <2>1, <2>2, <2>3, <2>4 DEF Next, Handle, ConnStep, AcceptFailed
<1> QED BY <1>1, <1>2, PTL DEF Spec

-----------------------------------------------------------------------------
(* The types: no line of a request outgrows its limit, no more than         *)
(* MAX_HEADERS lines are read.                                              *)
THEOREM TypeCorrect == Spec => []TypeOK
<1>1. Inv => TypeOK
  <2> SUFFICES ASSUME Inv PROVE TypeOK
    OBVIOUS
  <2>1. /\ lock \in Pollers \cup {Server, Free} /\ poisoned \in BOOLEAN
        /\ at[Server] \in Connected \cup {"bind", "accept", "stopped"}
        /\ \A p \in Pollers : at[p] \in Working \cup {"idle", "lock", "dead"}
    BY DEF Inv, LockInv, Threads, ServerLabels, PollerLabels
  <2>2. path \in Paths /\ headers \in 0..MAX_HEADERS /\ blank \in BOOLEAN
    BY DEF Inv, ConnInv
  <2>3. /\ at[Server] = "line" => got \in 0..(MAX_REQUEST_LINE - 1)
        /\ at[Server] = "headers" => got \in 0..(MAX_HEADER_LINE - 1)
        /\ at[Server] = "write" => got \in 0..(ResponseLength - 1)
    BY ScrapeAssumption DEF Inv, ConnInv
  <2>4. at[Server] \notin {"line", "headers", "write"} => got \in 0..0
    BY <2>1 DEF Inv, ConnInv, Connected, Rendering
  <2> QED BY <2>1, <2>2, <2>3, <2>4 DEF TypeOK
<1> QED BY <1>1, Invariance, PTL

(* One connection keeps the endpoint for at most one wait for each byte its *)
(* limits let through, whatever they are.                                   *)
THEOREM Occupied == Spec => []Occupancy
<1>1. Inv => Occupancy
  <2> SUFFICES ASSUME Inv PROVE Occupancy
    OBVIOUS
  <2> DEFINE all == MAX_HEADERS * MAX_HEADER_LINE
  <2>1. /\ MAX_REQUEST_LINE \in Nat /\ all \in Nat /\ ResponseLength \in Nat
        /\ waits \in Nat /\ got \in Nat /\ headers \in 0..MAX_HEADERS
    BY ScrapeAssumption DEF Inv, ConnInv
  <2>2. at[Server] = "write" => waits <= MAX_REQUEST_LINE + all + ResponseLength
    <3>1. at[Server] = "write" => got < ResponseLength /\ waits <= MAX_REQUEST_LINE + all + got
      BY DEF Inv, ConnInv
    <3> QED BY <2>1, <3>1
  <2>3. at[Server] # "write" => waits <= MAX_REQUEST_LINE + all
    <3>1. CASE at[Server] = "headers"
      <4> DEFINE cost == headers * MAX_HEADER_LINE
      <4>1. /\ got < MAX_HEADER_LINE /\ waits <= MAX_REQUEST_LINE + cost + got
            /\ headers \in Nat /\ headers < MAX_HEADERS
        BY <3>1 DEF Inv, ConnInv
      <4>2. cost \in Nat /\ cost + MAX_HEADER_LINE <= all /\ MAX_HEADER_LINE \in Nat
        BY <4>1, HeaderCost, ScrapeAssumption
      <4> HIDE DEF cost, all
      <4> QED BY <2>1, <4>1, <4>2
    <3>2. CASE at[Server] = "line"
      <4>1. waits = got /\ got < MAX_REQUEST_LINE
        BY <3>2 DEF Inv, ConnInv
      <4> HIDE DEF all
      <4> QED BY <2>1, <4>1
    <3>3. CASE at[Server] \in {"respond", "render"} \cup Rendering
      BY <3>3 DEF Inv, ConnInv
    <3>4. CASE at[Server] \in {"bind", "stopped", "accept", "setup"}
      <4>1. waits = 0
        BY <3>4 DEF Inv, ConnInv
      <4> HIDE DEF all
      <4> QED BY <2>1, <4>1
    <3>5. \/ at[Server] \in {"headers", "line", "write"} \/ at[Server] \in {"respond", "render"} \cup Rendering
          \/ at[Server] \in {"bind", "stopped", "accept", "setup"}
      BY DEF Inv, LockInv, ServerLabels, Connected, Rendering
    <3> QED BY <3>1, <3>2, <3>3, <3>4, <3>5
  <2> HIDE DEF all
  <2>4. CASE at[Server] = "write"
    BY <2>2, <2>4 DEF Occupancy, all
  <2>5. CASE at[Server] # "write"
    <3>1. MAX_REQUEST_LINE + all + 0 = MAX_REQUEST_LINE + all
      BY <2>1
    <3> QED BY <2>3, <2>5, <3>1 DEF Occupancy, all
  <2> QED BY <2>4, <2>5
<1> QED BY <1>1, Invariance, PTL

(* What render reads is no half of a call, for any number of threads that   *)
(* record, and die recording.                                               *)
THEOREM Agreement == Spec => []FiguresAgree
<1>1. Inv => FiguresAgree
  <2> SUFFICES ASSUME Inv, at[Server] \in Rendering
               PROVE  /\ DOMAIN inner.transactions = DOMAIN inner.latency
                      /\ DOMAIN inner.attempts = DOMAIN inner.latency
                      /\ \A k \in DOMAIN inner.latency :
                           /\ inner.latency[k].total = inner.transactions[k]
                           /\ Cumulative(inner.latency[k])
                      /\ inner.poll_failures <= inner.polls
    BY DEF FiguresAgree, Rendering, Cumulative
  <2>1. lock = Server /\ ~poisoned
    BY ThreadsDiffer DEF Inv, LockInv, Threads
  <2>2. Stage = "outside" /\ Begun = {}
    BY <2>1, ThreadsDiffer DEF Stage, Begun
  <2>3. /\ DOMAIN inner.transactions = DOMAIN inner.latency
        /\ \A k \in DOMAIN inner.transactions : inner.transactions[k] = Counted(k) + 0
        /\ \A k \in DOMAIN inner.latency : Cumulative(inner.latency[k])
    BY <2>1, <2>2 DEF Inv, InnerInv, Ahead
  <2>4. \A k \in DOMAIN inner.latency : inner.latency[k].total = inner.transactions[k]
    BY <2>3 DEF Counted, entry, Cumulative
  <2>5. DOMAIN inner.attempts = DOMAIN inner.latency /\ inner.poll_failures <= inner.polls
    BY <2>1, <2>2 DEF Inv, InnerInv
  <2> QED BY <2>3, <2>4, <2>5
<1> QED BY <1>1, Invariance, PTL
=============================================================================
