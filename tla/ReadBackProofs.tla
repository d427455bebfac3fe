--------------------------- MODULE ReadBackProofs ---------------------------
(***************************************************************************)
(* Proofs about a Session whose device nobody else writes to and which     *)
(* answers within entry.wait: whose answer is taken, and that constructor, *)
(* device, parser and table agree on every setting.                        *)
(***************************************************************************)
EXTENDS SessionProofs

(* The regime: the wait is long enough, and there is no second host.        *)
Sole == Prompt /\ ForeignFrames = {}

-----------------------------------------------------------------------------
(* What each typed operation puts in the slots the device looks at.         *)

Header(r, class, id) == r.command_class = class /\ r.command_id = id

Slots(e, c, r) ==
  /\ c.name = "set_device_mode" => Header(r, 0, 4) /\ r.arguments[0] = c.arg
  /\ c.name = "get_device_mode" => Header(r, 0, 132) /\ r.arguments[1] = 0
  /\ c.name = "set_brightness" =>
       Header(r, 15, 4) /\ r.arguments[1] = e.default_led /\ r.arguments[2] = c.arg
  /\ c.name = "get_brightness" => Header(r, 15, 132)
  /\ c.name = "set_poll_rate" /\ e.poll_rate_kind = "V2" =>
       Header(r, 0, 64) /\ r.arguments[1] = v2_code[c.arg]
  /\ c.name = "set_poll_rate" /\ e.poll_rate_kind = "Legacy" =>
       Header(r, 0, 5) /\ r.arguments[0] = legacy_code[c.arg]
  /\ c.name = "get_poll_rate" /\ e.poll_rate_kind = "V2" => Header(r, 0, 192)
  /\ c.name = "get_poll_rate" /\ e.poll_rate_kind = "Legacy" =>
       Header(r, 0, 133) /\ r.arguments[0] = 0

(* The constructors of cmd.rs put them there.                               *)
LEMMA RequestSlots ==
  ASSUME NEW e \in DeviceEntry, NEW c \in TypedCalls
  PROVE  Slots(e, c, request_of(e, c))
<1> DEFINE r == request_of(e, c)
<1>0. 0 \in ArgSlots /\ 1 \in ArgSlots /\ 2 \in ArgSlots
  BY DEF ArgSlots
<1>a. \A k, i, n : /\ Header(NewReport(k, i, n), k, i)
                   /\ \A j \in ArgSlots : NewReport(k, i, n).arguments[j] = 0
  BY DEF NewReport, Header
<1>b. \A k, i, n, s : /\ Header(with_args(NewReport(k, i, n), s), k, i)
                      /\ \A j \in ArgSlots : j < Len(s) =>
                           with_args(NewReport(k, i, n), s).arguments[j] = s[j + 1]
  BY DEF with_args, NewReport, Header
<1>1. CASE c.name = "set_device_mode"
  <2>1. r = with_args(NewReport(0, 4, 2), <<c.arg, 0>>)
    BY <1>1 DEF request_of, cmd_set_device_mode
  <2>2. Header(r, 0, 4) /\ r.arguments[0] = c.arg
    <3> HIDE DEF r
    <3> QED BY <1>0, <1>b, <2>1
  <2> QED BY <1>1, <2>2 DEF Slots
<1>2. CASE c.name = "get_device_mode"
  <2>1. r = NewReport(0, 132, 2)
    BY <1>2 DEF request_of, cmd_get_device_mode
  <2>2. Header(r, 0, 132) /\ r.arguments[1] = 0
    BY <1>0, <1>a, <2>1
  <2> QED BY <1>2, <2>2 DEF Slots
<1>3. CASE c.name = "set_brightness"
  <2>1. r = with_args(NewReport(15, 4, 3), <<1, e.default_led, c.arg>>)
    BY <1>3 DEF request_of, cmd_set_brightness, VarStore
  <2>2. Header(r, 15, 4) /\ r.arguments[1] = e.default_led /\ r.arguments[2] = c.arg
    <3> DEFINE args == <<1, e.default_led, c.arg>>
    <3>1. Len(args) = 3 /\ args[2] = e.default_led /\ args[3] = c.arg
      OBVIOUS
    <3>2. r = with_args(NewReport(15, 4, 3), args)
      BY <2>1
    <3> HIDE DEF r, args
    <3>3. /\ Header(r, 15, 4)
          /\ \A j \in ArgSlots : j < Len(args) => r.arguments[j] = args[j + 1]
      BY <1>b, <3>2
    <3> QED BY <1>0, <3>1, <3>3
  <2> QED BY <1>3, <2>2 DEF Slots
<1>4. CASE c.name = "get_brightness"
  <2>1. r = with_args(NewReport(15, 132, 3), <<1, e.default_led>>)
    BY <1>4 DEF request_of, cmd_get_brightness, VarStore
  <2>2. Header(r, 15, 132)
    BY <1>b, <2>1
  <2> QED BY <1>4, <2>2 DEF Slots
<1>5. CASE c.name = "set_poll_rate" /\ e.poll_rate_kind = "V2"
  <2>1. r = with_args(NewReport(0, 64, 2), <<0, v2_code[c.arg]>>)
    BY <1>5 DEF request_of, cmd_set_poll_rate_v2
  <2>2. Header(r, 0, 64) /\ r.arguments[1] = v2_code[c.arg]
    BY <1>0, <1>b, <2>1
  <2> QED BY <1>5, <2>2 DEF Slots
<1>6. CASE c.name = "set_poll_rate" /\ e.poll_rate_kind = "Legacy"
  <2>1. r = with_args(NewReport(0, 5, 1), <<legacy_code[c.arg]>>)
    BY <1>6 DEF request_of, cmd_set_poll_rate_legacy
  <2>2. Header(r, 0, 5) /\ r.arguments[0] = legacy_code[c.arg]
    BY <1>0, <1>b, <2>1
  <2> QED BY <1>6, <2>2 DEF Slots
<1>7. CASE c.name = "get_poll_rate" /\ e.poll_rate_kind = "V2"
  <2>1. r = NewReport(0, 192, 1)
    BY <1>7 DEF request_of, cmd_get_poll_rate_v2
  <2>2. Header(r, 0, 192)
    BY <1>a, <2>1
  <2> QED BY <1>7, <2>2 DEF Slots
<1>8. CASE c.name = "get_poll_rate" /\ e.poll_rate_kind = "Legacy"
  <2>1. r = NewReport(0, 133, 1)
    BY <1>8 DEF request_of, cmd_get_poll_rate_legacy
  <2>2. Header(r, 0, 133) /\ r.arguments[0] = 0
    BY <1>0, <1>a, <2>1
  <2> QED BY <1>8, <2>2 DEF Slots
<1>9. CASE c.name \notin {"set_device_mode", "get_device_mode", "set_brightness",
                          "get_brightness", "set_poll_rate", "get_poll_rate"}
  BY <1>9 DEF Slots
<1>10. e.poll_rate_kind \in {"Legacy", "V2"}
  BY DEF DeviceEntry
<1> QED BY <1>1, <1>2, <1>3, <1>4, <1>5, <1>6, <1>7, <1>8, <1>9, <1>10

(* Stamping and the wire form leave those slots alone.                      *)
LEMMA StampedSlots ==
  ASSUME NEW e, NEW c, NEW r \in RazerReport, Slots(e, c, r)
  PROVE  Slots(e, c, Stamped(r))
<1>1. /\ Stamped(r).command_class = r.command_class
      /\ Stamped(r).command_id = r.command_id
      /\ Stamped(r).arguments = r.arguments
  BY DEF Stamped, to_bytes, with_transaction_id, RazerReport
<1> QED BY <1>1 DEF Slots, Header

-----------------------------------------------------------------------------
(* What a device that carried the operation out holds (s) and answers (a).  *)

Done(e, c, s, a) ==
  /\ c.name = "set_device_mode" => s.mode = c.arg
  /\ c.name = "set_brightness" => s.brightness = c.arg
  /\ c.name = "set_poll_rate" => s.rate = c.arg
  /\ c.name = "get_device_mode" => a[0] = s.mode /\ a[1] = 0
  /\ c.name = "get_brightness" => a[2] = s.brightness
  /\ c.name = "get_poll_rate" /\ e.poll_rate_kind = "V2" => a[1] = v2_code[s.rate]
  /\ c.name = "get_poll_rate" /\ e.poll_rate_kind = "Legacy" =>
       a[0] = IF s.rate \in DOMAIN legacy_code THEN legacy_code[s.rate] ELSE 0

(* Both poll-rate families decode what they encode, and 0 is no code.       *)
LEMMA CodesInvert ==
  /\ \A rate \in DOMAIN legacy_code :
       /\ legacy_code[rate] \in DOMAIN from_legacy_code
       /\ from_legacy_code[legacy_code[rate]] = rate
  /\ \A rate \in PollRate :
       /\ v2_code[rate] \in DOMAIN from_v2_code
       /\ from_v2_code[v2_code[rate]] = rate
  /\ 0 \notin DOMAIN from_legacy_code
BY DEF legacy_code, v2_code, from_legacy_code, from_v2_code, PollRate

(* A device carries out a well-formed frame of its own family.              *)
LEMMA CarriedOut ==
  ASSUME NEW e \in DeviceEntry, NEW c \in TypedCalls, encodable(e, c),
         NEW f \in Frame, Slots(e, c, f), NEW s \in DeviceSettings
  PROVE  Done(e, c, Applied(e, f, s), Payload(e, f, s))
<1> DEFINE s2 == Applied(e, f, s)
           a == Payload(e, f, s)
<1>0. /\ e.poll_rate_kind \in {"Legacy", "V2"} /\ f.arguments \in [ArgSlots -> Byte]
      /\ 0 \in ArgSlots /\ 1 \in ArgSlots /\ 2 \in ArgSlots
  BY DEF DeviceEntry, Frame, ArgSlots
<1>a. \A x, v, i, j : x \in [ArgSlots -> Byte] /\ i \in ArgSlots /\ j \in ArgSlots =>
        [x EXCEPT ![i] = v][j] = IF i = j THEN v ELSE x[j]
  OBVIOUS
<1>b. \A v : /\ [s EXCEPT !.mode = v].mode = v
             /\ [s EXCEPT !.brightness = v].brightness = v
             /\ [s EXCEPT !.rate = v].rate = v
  BY DEF DeviceSettings
<1>1. CASE c.name = "set_device_mode"
  <2>1. s2 = [s EXCEPT !.mode = c.arg]
    BY <1>1 DEF Slots, Header, Applied
  <2>2. s2.mode = c.arg
    BY <1>b, <2>1
  <2> QED BY <1>1, <2>2 DEF Done
<1>2. CASE c.name = "set_brightness"
  <2>1. s2 = [s EXCEPT !.brightness = c.arg]
    BY <1>2 DEF Slots, Header, Applied
  <2>2. s2.brightness = c.arg
    BY <1>b, <2>1
  <2> QED BY <1>2, <2>2 DEF Done
<1>3. CASE c.name = "set_poll_rate"
  <2>1. c.arg \in PollRate
    BY <1>3 DEF TypedCalls
  <2>2. s2 = [s EXCEPT !.rate = c.arg]
    <3>1. CASE e.poll_rate_kind = "V2"
      <4>1. f.arguments[1] \in DOMAIN from_v2_code /\ from_v2_code[f.arguments[1]] = c.arg
        BY <1>3, <2>1, <3>1, CodesInvert DEF Slots
      <4>2. f.command_class = 0 /\ f.command_id = 64
        BY <1>3, <3>1 DEF Slots, Header
      <4> QED BY <3>1, <4>1, <4>2 DEF Applied
    <3>2. CASE e.poll_rate_kind = "Legacy"
      <4>1. c.arg \in DOMAIN legacy_code
        BY <1>3, <3>2 DEF encodable
      <4>2. f.arguments[0] \in DOMAIN from_legacy_code
            /\ from_legacy_code[f.arguments[0]] = c.arg
        BY <1>3, <3>2, <4>1, CodesInvert DEF Slots
      <4>3. f.command_class = 0 /\ f.command_id = 5
        BY <1>3, <3>2 DEF Slots, Header
      <4> QED BY <3>2, <4>2, <4>3 DEF Applied
    <3> QED BY <1>0, <3>1, <3>2
  <2>3. s2.rate = c.arg
    BY <1>b, <2>2
  <2> QED BY <1>3, <2>3 DEF Done
<1>4. CASE c.name = "get_device_mode"
  <2>1. f.command_class = 0 /\ f.command_id = 132 /\ f.arguments[1] = 0
    BY <1>4 DEF Slots, Header
  <2>2. s2 = s /\ a = [f.arguments EXCEPT ![0] = s.mode]
    BY <2>1 DEF Applied, Payload
  <2>3. a[0] = s2.mode /\ a[1] = 0
    BY <1>0, <1>a, <2>1, <2>2
  <2> QED BY <1>4, <2>3 DEF Done
<1>5. CASE c.name = "get_brightness"
  <2>1. f.command_class = 15 /\ f.command_id = 132
    BY <1>5 DEF Slots, Header
  <2>2. s2 = s /\ a = [f.arguments EXCEPT ![2] = s.brightness]
    BY <2>1 DEF Applied, Payload
  <2>3. a[2] = s2.brightness
    BY <1>0, <1>a, <2>2
  <2> QED BY <1>5, <2>3 DEF Done
<1>6. CASE c.name = "get_poll_rate" /\ e.poll_rate_kind = "V2"
  <2>1. f.command_class = 0 /\ f.command_id = 192
    BY <1>6 DEF Slots, Header
  <2>2. s2 = s /\ a = [f.arguments EXCEPT ![1] = v2_code[s.rate]]
    BY <2>1 DEF Applied, Payload
  <2>3. a[1] = v2_code[s2.rate]
    BY <1>0, <1>a, <2>2
  <2> QED BY <1>6, <2>3 DEF Done
<1>7. CASE c.name = "get_poll_rate" /\ e.poll_rate_kind = "Legacy"
  <2>1. f.command_class = 0 /\ f.command_id = 133 /\ f.arguments[0] = 0
    BY <1>7 DEF Slots, Header
  <2>2. s2 = s
    BY <2>1 DEF Applied
  <2>3. a = IF s.rate \in DOMAIN legacy_code
            THEN [f.arguments EXCEPT ![0] = legacy_code[s.rate]] ELSE f.arguments
    BY <2>1 DEF Payload
  <2>4. a[0] = IF s2.rate \in DOMAIN legacy_code THEN legacy_code[s2.rate] ELSE 0
    BY <1>0, <1>a, <2>1, <2>2, <2>3
  <2> QED BY <1>7, <2>4 DEF Done
<1>8. CASE c.name \notin {"set_device_mode", "get_device_mode", "set_brightness",
                          "get_brightness", "set_poll_rate", "get_poll_rate"}
  BY <1>8 DEF Done
<1> QED BY <1>0, <1>1, <1>2, <1>3, <1>4, <1>5, <1>6, <1>7, <1>8

-----------------------------------------------------------------------------
(* The inductive invariant. *)

(* A typed call goes through transact with the request of its operation.    *)
Request ==
  call # RawCall =>
    /\ policy = "transact"
    /\ pc # "idle" => encodable(entry, call) /\ request = request_of(entry, call)

(* While the device is there, the register holds this attempt's frame until *)
(* it is answered, and is empty when the reply is read.                     *)
Fresh ==
  connected =>
    /\ pc = "wait" => \/ command = Slot("current", Stamped(request))
                      \/ command.by = "none" /\ reply.by = "current"
    /\ pc = "get" => command.by = "none" /\ reply.by = "current"

(* What that answer says is what the device holds.                          *)
Answered ==
  (connected /\ pc \in {"wait", "get"} /\ command.by = "none" /\ call # RawCall
     /\ reply.frame.status = SUCCESSFUL)
  => Done(entry, call, settings, reply.frame.arguments)

(* After an accepted answer nothing is left that could change the settings. *)
Settled ==
  (pc = "idle" /\ call # RawCall /\ result.kind = "Ok") => command.by = "none"

SoleInv == Request /\ Fresh /\ Answered /\ Settled /\ FreshAnswer /\ ReadBack

(* An operation asked for is a typed one.                                   *)
LEMMA TypedIsNotRaw ==
  ASSUME TypeOK
  PROVE  /\ call # RawCall => call \in TypedCalls
         /\ \A n \in OpNames : Asked(n) => call # RawCall
BY SessionAssumption DEF TypeOK, RawCall, Asked, OpNames

(* ReadBack only speaks of a typed call that returned Ok.                   *)
LEMMA OthersReadBack ==
  ASSUME TypeOK, call = RawCall \/ result.kind # "Ok" \/ pc # "idle"
  PROVE  ReadBack
BY TypedIsNotRaw DEF ReadBack, Asked, OpNames

(* ReadBack' is due only of a step that returns Ok from a typed call.       *)
LEMMA OthersReadBackNext ==
  ASSUME TypeOK', (call = RawCall \/ result.kind # "Ok" \/ pc # "idle")'
  PROVE  ReadBack'
BY OthersReadBack, PTL

(* Before the first call there is nothing to answer for.                    *)
LEMMA SoleInit == Init => SoleInv
<1> SUFFICES ASSUME Init PROVE SoleInv
  OBVIOUS
<1>1. pc = "idle" /\ call = RawCall /\ result.kind = "none"
  BY DEF Init, Failed, Result
<1>2. ReadBack
  BY <1>1, InitType, OthersReadBack
<1> QED BY <1>1, <1>2 DEF SoleInv, Request, Fresh, Answered, Settled, FreshAnswer

(* The parser reads back what an answer says.                               *)
LEMMA ReadsBack ==
  ASSUME NEW e \in DeviceEntry, NEW c \in TypedCalls, NEW s \in DeviceSettings, NEW r,
         Done(e, c, s, r.arguments), parse_reply(e, c, r).err = NoError
  PROVE  /\ c.name = "get_device_mode" => parse_reply(e, c, r).value = <<s.mode, 0>>
         /\ c.name = "get_brightness" => parse_reply(e, c, r).value = <<s.brightness>>
         /\ c.name = "get_poll_rate" => parse_reply(e, c, r).value = <<s.rate>>
<1> DEFINE a == r.arguments
<1>0. e.poll_rate_kind \in {"Legacy", "V2"} /\ s.rate \in PollRate
  BY DEF DeviceEntry, DeviceSettings
<1>1. CASE c.name = "get_device_mode"
  BY <1>1 DEF Done, parse_reply, parse_device_mode, Parsed
<1>2. CASE c.name = "get_brightness"
  BY <1>2 DEF Done, parse_reply, parse_brightness, Parsed
<1>3. CASE c.name = "get_poll_rate" /\ e.poll_rate_kind = "V2"
  <2>1. a[1] \in DOMAIN from_v2_code /\ from_v2_code[a[1]] = s.rate
    BY <1>0, <1>3, CodesInvert DEF Done
  <2>2. parse_reply(e, c, r) = Parsed(<<s.rate>>)
    BY <1>3, <2>1 DEF parse_reply, parse_poll_rate_v2
  <2> QED BY <1>3, <2>2 DEF Parsed
<1>4. CASE c.name = "get_poll_rate" /\ e.poll_rate_kind = "Legacy"
  <2>1. parse_reply(e, c, r) = parse_poll_rate_legacy(r)
    BY <1>4 DEF parse_reply
  <2>2. a[0] \in DOMAIN from_legacy_code
    BY <2>1 DEF parse_poll_rate_legacy, Unparsed, ProtoError, NoError
  <2>3. from_legacy_code[a[0]] = s.rate
    BY <1>4, <2>2, CodesInvert DEF Done
  <2> QED BY <1>4, <2>1, <2>2, <2>3 DEF parse_poll_rate_legacy, Parsed
<1> QED BY <1>0, <1>1, <1>2, <1>3, <1>4

(* A step of the device, of the cable or of nobody.  With no second host    *)
(* and the register empty, the settings stay.                               *)
LEMMA DeviceStep ==
  ASSUME Sole, TypeOK, TypeOK', SoleInv, Environment \/ UNCHANGED vars
  PROVE  SoleInv'
<1> USE DEF SoleInv
<1>0. /\ UNCHANGED <<entry, tid, pc, call, policy, request, result>>
      /\ entry \in DeviceEntry
  BY EnvironmentFrame, SessionAssumption DEF TypeOK
<1>1. Request' /\ FreshAnswer'
  BY <1>0 DEF Request, FreshAnswer, encodable, request_of
<1>2. CASE UNCHANGED vars
  <2>1. UNCHANGED <<connected, command, reply, settings>>
    BY <1>2 DEF vars, device
  <2>2. Stamped(request)' = Stamped(request)
    BY <1>0 DEF Stamped
  <2>3. Fresh'
    BY <1>0, <2>1, <2>2 DEF Fresh
  <2>4. Answered'
    BY <1>0, <2>1 DEF Answered, Done
  <2>5. Settled' /\ ReadBack'
    BY <1>0, <2>1 DEF Settled, ReadBack, Asked
  <2> QED BY <1>1, <2>3, <2>4, <2>5
<1>3. CASE Unplug
  <2>1. ~connected' /\ command'.by = "none" /\ settings' = settings
    BY <1>3 DEF Unplug, NoCommand, Slot
  <2>2. Fresh' /\ Answered' /\ Settled'
    BY <2>1 DEF Fresh, Answered, Settled
  <2>3. ReadBack'
    BY <1>0, <2>1 DEF ReadBack, Asked
  <2> QED BY <1>1, <2>2, <2>3
<1>4. CASE Answer
  <2> DEFINE f == command.frame
  <2>1. PICK b \in AnswerBytes, t \in {f.transaction_id} \cup OddTids,
             size \in {f.data_size} \cup OddSizes :
          /\ reply' = Slot(command.by,
               [f EXCEPT !.status = b, !.data_size = size, !.transaction_id = t,
                 !.arguments = IF b = SUCCESSFUL THEN Payload(entry, f, settings) ELSE @])
          /\ \/ settings' = Applied(entry, f, settings)
             \/ b # SUCCESSFUL /\ UNCHANGED settings
    BY <1>4 DEF Answer
  <2>2. /\ command.by # "none" /\ command'.by = "none" /\ connected' = connected
    BY <1>4 DEF Answer, NoCommand, Slot
  <2>3. f \in Frame /\ settings \in DeviceSettings
    BY DEF TypeOK
  <2>4. /\ reply'.by = command.by
        /\ reply'.frame.status = b
        /\ b = SUCCESSFUL => reply'.frame.arguments = Payload(entry, f, settings)
    BY <2>1, <2>3 DEF Slot, Frame
  <2>5. Settled'
    BY <2>2 DEF Settled
  <2>6. Fresh'
    <3>1. connected /\ pc = "wait" => command.by = "current"
      BY <2>2 DEF Fresh, Slot
    <3>2. ~(connected /\ pc = "get")
      BY <2>2 DEF Fresh
    <3> QED BY <1>0, <2>2, <2>4, <3>1, <3>2 DEF Fresh
  <2>7. Answered'
    <3> SUFFICES ASSUME connected, pc \in {"wait", "get"}, call # RawCall, b = SUCCESSFUL
                 PROVE  Done(entry, call, settings', reply'.frame.arguments)
      BY <1>0, <2>2, <2>4 DEF Answered
    <3>1. pc = "wait" /\ f = Stamped(request)
      BY <2>2 DEF Fresh, Slot
    <3>2. call \in TypedCalls /\ encodable(entry, call) /\ request = request_of(entry, call)
      BY <3>1, TypedIsNotRaw DEF Request
    <3>3. request \in RazerReport
      BY DEF TypeOK
    <3>4. Slots(entry, call, f)
      BY <1>0, <3>1, <3>2, <3>3, RequestSlots, StampedSlots
    <3>5. settings' = Applied(entry, f, settings)
      BY <2>1
    <3>6. Done(entry, call, Applied(entry, f, settings), Payload(entry, f, settings))
      BY <1>0, <2>3, <3>2, <3>4, CarriedOut
    <3> QED BY <2>4, <3>5, <3>6
  <2>8. ReadBack'
    <3>1. ~(pc' = "idle" /\ call' # RawCall /\ result'.kind = "Ok")
      BY <1>0, <2>2 DEF Settled
    <3>2. (call = RawCall \/ result.kind # "Ok" \/ pc # "idle")'
      BY <3>1 DEF RawCall
    <3> QED BY <3>2, OthersReadBackNext
  <2> QED BY <1>1, <2>5, <2>6, <2>7, <2>8
<1>5. ~ForeignSet
  BY DEF Sole, ForeignSet
<1> QED BY <1>2, <1>3, <1>4, <1>5 DEF Environment

(* A call begins: nothing is said yet of its answer.                        *)
LEMMA CallerStep ==
  ASSUME TypeOK, TypeOK', SoleInv, Caller
  PROVE  SoleInv'
<1> USE DEF SoleInv
<1>1. ASSUME NEW c \in Calls, CallUnsupported(c) \/ CallUnencodable(c)
      PROVE  SoleInv'
  <2>1. pc' = "idle" /\ result'.kind \notin {"Ok"} /\ policy' = "transact"
    BY <1>1 DEF CallUnsupported, CallUnencodable, NewCall, Return, Failed, Result
  <2>2. ReadBack'
    BY <2>1, OthersReadBackNext
  <2> QED BY <2>1, <2>2 DEF Request, Fresh, Answered, Settled, FreshAnswer
<1>2. ASSUME NEW c \in Calls, Call(c) PROVE SoleInv'
  <2>1. /\ pc' = "send" /\ call' = c /\ policy' = "transact" /\ entry' = entry
        /\ encodable(entry, c) /\ request' = request_of(entry, c)
    BY <1>2 DEF Call, NewCall, BeginTransact, fixed
  <2>2. ReadBack'
    BY <2>1, OthersReadBackNext
  <2>3. Request'
    BY <2>1 DEF Request
  <2> QED BY <2>1, <2>2, <2>3 DEF Fresh, Answered, Settled, FreshAnswer
<1>3. ASSUME NEW rc \in RawCalls, CallRaw(rc) PROVE SoleInv'
  <2>1. pc' = "send" /\ call' = RawCall
    BY <1>3 DEF CallRaw, NewCall, BeginTransact
  <2>2. ReadBack'
    BY <2>1, OthersReadBackNext
  <2>3. RawCall' = RawCall
    BY DEF RawCall
  <2> QED BY <2>1, <2>2, <2>3 DEF Request, Fresh, Answered, Settled, FreshAnswer
<1> QED BY <1>1, <1>2, <1>3 DEF Caller

(* A step of the call in progress.                                          *)
LEMMA HostStep ==
  ASSUME Sole, TypeOK, TypeOK', Progress, SoleInv, Host
  PROVE  SoleInv'
<1> USE DEF SoleInv
<1>0. /\ UNCHANGED <<entry, tid, call, policy, request>> /\ pc # "idle"
      /\ Stamped(request)' = Stamped(request)
  <2>1. UNCHANGED <<entry, tid, call, policy, request>> /\ pc # "idle"
    BY DEF Host, SendMalformed, SetFeatureOk, SetFeatureError, SetFeature, Wait, GetFeatureError,
         GetFeatureShort, GetRaw, Accept, Reject, Retry, GetFeature, fixed
  <2> QED BY <2>1 DEF Stamped
<1>1. Request'
  BY <1>0 DEF Request, encodable, request_of
<1>2. CASE Accept
  <2>1. /\ pc = "get" /\ connected /\ policy = "transact" /\ pc' = "idle"
        /\ UNCHANGED <<connected, command, reply, settings>>
        /\ result' = Result(IF parse_reply(entry, call, Response).err = NoError
                            THEN "Ok" ELSE "Proto",
                            parse_reply(entry, call, Response).err, Response, reply.by,
                            parse_reply(entry, call, Response).value)
    BY <1>2 DEF Accept, GetFeature, Return, device
  <2>2. /\ result'.by = reply.by /\ result'.response = Response
        /\ result'.value = parse_reply(entry, call, Response).value
        /\ result'.kind = "Ok" => parse_reply(entry, call, Response).err = NoError
    BY <2>1 DEF Result
  <2>3. command.by = "none" /\ reply.by = "current"
    BY <2>1 DEF Fresh
  <2>4. Fresh' /\ Answered' /\ Settled' /\ FreshAnswer'
    BY <2>1, <2>2, <2>3 DEF Fresh, Answered, Settled, FreshAnswer
  <2>5. ReadBack'
    <3>1. CASE result'.kind # "Ok" \/ call' = RawCall \/ result'.response.status.raw # SUCCESSFUL
      <4>1. \A n \in OpNames : ~Asked(n)'
        BY <1>0, <3>1 DEF Asked, RawCall, OpNames
      <4> QED BY <4>1 DEF ReadBack, OpNames
    <3>2. CASE result'.kind = "Ok" /\ call # RawCall /\ Response.status.raw = SUCCESSFUL
      <4>1. reply.frame.status = SUCCESSFUL /\ Response.arguments = reply.frame.arguments
        BY <3>2 DEF Response, from_bytes, from_u8
      <4>2. Done(entry, call, settings, Response.arguments)
        BY <2>1, <2>3, <3>2, <4>1 DEF Answered
      <4>3. call \in TypedCalls /\ entry \in DeviceEntry /\ settings \in DeviceSettings
        BY <3>2, TypedIsNotRaw, SessionAssumption DEF TypeOK
      <4>4. parse_reply(entry, call, Response).err = NoError
        BY <2>2, <3>2
      <4>5. /\ call.name = "get_device_mode" => result'.value = <<settings.mode, 0>>
            /\ call.name = "get_brightness" => result'.value = <<settings.brightness>>
            /\ call.name = "get_poll_rate" => result'.value = <<settings.rate>>
        BY <2>2, <4>2, <4>3, <4>4, ReadsBack
      <4>6. /\ call.name = "set_device_mode" => settings.mode = call.arg
            /\ call.name = "set_brightness" => settings.brightness = call.arg
            /\ call.name = "set_poll_rate" => settings.rate = call.arg
        BY <4>2 DEF Done
      <4> QED BY <1>0, <2>1, <4>5, <4>6 DEF ReadBack, Asked
    <3> QED BY <1>0, <2>2, <3>1, <3>2 DEF RawCall
  <2> QED BY <1>1, <2>4, <2>5
<1>3. CASE Wait
  <2>1. /\ pc = "wait" /\ command.by = "none"
        /\ UNCHANGED <<connected, command, reply, settings>>
        /\ \/ policy = "send" /\ pc' = "idle"
           \/ pc' = "get"
    BY <1>3 DEF Wait, Sole, Return, device
  <2>2. call # RawCall => pc' = "get"
    BY <2>1 DEF Request
  <2>3. ReadBack'
    <3>1. (call = RawCall \/ result.kind # "Ok" \/ pc # "idle")'
      BY <1>0, <2>2 DEF RawCall
    <3> QED BY <3>1, OthersReadBackNext
  <2>4. Fresh'
    BY <2>1 DEF Fresh, Slot
  <2>5. Answered'
    BY <1>0, <2>1 DEF Answered, Done, RawCall
  <2>6. Settled' /\ FreshAnswer'
    BY <1>0, <2>1, <2>2 DEF Settled, FreshAnswer, RawCall
  <2> QED BY <1>1, <2>3, <2>4, <2>5, <2>6
<1>4. CASE SetFeatureOk
  <2>1. pc' = "wait" /\ command' = Slot("current", Stamped(request))
    BY <1>4 DEF SetFeatureOk, Deliver
  <2>2. ReadBack'
    BY <2>1, OthersReadBackNext
  <2>3. Fresh'
    BY <1>0, <2>1 DEF Fresh, Slot
  <2>4. command'.by = "current"
    BY <2>1 DEF Slot
  <2> QED BY <1>1, <2>1, <2>2, <2>3, <2>4 DEF Answered, Settled, FreshAnswer
<1>5. CASE GetRaw
  <2>1. pc' = "idle" /\ policy = "transact_raw"
    BY <1>5 DEF GetRaw, Return
  <2>2. call = RawCall
    BY <2>1 DEF Request
  <2>3. (call = RawCall \/ result.kind # "Ok" \/ pc # "idle")'
    BY <1>0, <2>2 DEF RawCall
  <2>4. ReadBack'
    BY <2>3, OthersReadBackNext
  <2> QED BY <1>0, <1>1, <2>1, <2>2, <2>4
          DEF Fresh, Answered, Settled, FreshAnswer, RawCall
<1>6. CASE \/ SendMalformed \/ SetFeatureError \/ GetFeatureError \/ GetFeatureShort
           \/ Reject \/ Retry
  <2>1. \/ pc' = "idle" /\ result'.kind # "Ok"
        \/ pc' \in {"send", "retry"}
    BY <1>6 DEF SendMalformed, SetFeatureError, GetFeatureError, GetFeatureShort, Reject, Retry,
         Return, Failed, Result
  <2>2. ReadBack'
    BY <2>1, OthersReadBackNext
  <2> QED BY <1>1, <2>1, <2>2 DEF Fresh, Answered, Settled, FreshAnswer
<1> QED BY <1>2, <1>3, <1>4, <1>5, <1>6 DEF Host

(* SoleInv is an invariant of a session alone with a prompt device.         *)
THEOREM SoleInvariance == Sole => (Spec => [](IInv /\ SoleInv))
<1> SUFFICES ASSUME Sole PROVE Spec => [](IInv /\ SoleInv)
  OBVIOUS
<1>1. IInv /\ IInv' /\ SoleInv /\ [Next]_vars => SoleInv'
  BY DeviceStep, CallerStep, HostStep DEF IInv, Next
<1> QED BY <1>1, SoleInit, Inductive, PTL DEF Spec

(* With a prompt device of one's own, an accepted reply is the reply to the *)
(* attempt that read it.                                                    *)
THEOREM AnswersFresh == Prompt /\ ForeignFrames = {} => (Spec => []FreshAnswer)
<1>1. SoleInv => FreshAnswer
  BY DEF SoleInv
<1> QED BY <1>1, SoleInvariance, PTL DEF Sole

(* And a typed write has set, a typed read returned, what the device holds. *)
THEOREM WritesReadBack == Prompt /\ ForeignFrames = {} => (Spec => []ReadBack)
<1>1. SoleInv => ReadBack
  BY DEF SoleInv
<1> QED BY <1>1, SoleInvariance, PTL DEF Sole
=============================================================================
