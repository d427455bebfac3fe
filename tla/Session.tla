------------------------------ MODULE Session ------------------------------
(***************************************************************************)
(* razer-hid's Session: one host thread that turns a typed operation into  *)
(* SET/GET feature-report exchanges with the device, under the C driver's  *)
(* retry policy, while the device, a second host (the kernel driver or     *)
(* another hidraw client) and the cable act on their own.                  *)
(*                                                                         *)
(* Host state.  entry and tid are fixed when the session is built; pc says *)
(* which ioctl or sleep of the call in progress comes next.                *)
(* Device state (external, from how the code uses it): a one-slot command  *)
(* register, a one-slot reply buffer that GET reads whatever it holds, and *)
(* the settings the commands read and write.                               *)
(* History: sent, rejected and since only serve the properties.                *)
(***************************************************************************)
EXTENDS RazerProto, DeviceTable

CONSTANTS
  Entries,        \* the table entries a session may be bound to
  Overrides,      \* transaction ids with_transaction_id_override may be given
  Calls,          \* typed operations the caller may ask for
  RawCalls,       \* send / transact_raw / transact with a caller-built report
  ForeignFrames,  \* frames a second host may put on the same device
  AnswerBytes,    \* status bytes the device may answer with
  OddTids, OddSizes,  \* fields it may answer with instead of echoing the request's
  Prompt,         \* the device answers within entry.wait
  Settings        \* the device's possible initial settings

OpNames == {"set_device_mode", "get_device_mode", "firmware_version", "serial",
            "set_brightness", "get_brightness", "set_static_effect",
            "set_poll_rate", "get_poll_rate"}
(* An operation and its argument, as far as the Rust types let it be.       *)
TypedCalls ==
  {c \in [name: OpNames, arg: Nat] :
     /\ c.name = "set_device_mode" => c.arg \in DeviceMode
     /\ c.name \in {"set_brightness", "set_static_effect"} => c.arg \in Byte
     /\ c.name = "set_poll_rate" => c.arg \in PollRate}
DeviceSettings == [mode: Byte, brightness: Byte, rate: PollRate, serial: [ArgSlots -> Byte]]
Policies == {"send", "transact_raw", "transact"}

ASSUME SessionAssumption ==
  /\ Entries \subseteq DeviceEntry
  /\ Overrides \subseteq Byte
  /\ Calls \subseteq TypedCalls
  /\ RawCalls \subseteq [policy: Policies, request: RazerReport]
  /\ ForeignFrames \subseteq Frame
  /\ AnswerBytes \subseteq Byte
  /\ OddTids \subseteq Byte /\ OddSizes \subseteq Byte
  /\ Prompt \in BOOLEAN
  /\ Settings \subseteq DeviceSettings

MAX_ATTEMPTS == 5
RETRY_DELAY == 10000

VARIABLES
  entry, tid,                       \* Session::entry, Session::transaction_id
  pc, call, policy, request,        \* the call in progress
  attempt,                          \* the loop variable of transact
  last_attempts, last_rtid,         \* Session::last_attempts, last_response_transaction_id
  result,                           \* what the last call returned
  connected, command, reply, settings,   \* the device
  sent, rejected, since       \* history

fixed == <<entry, tid>>
host == <<pc, call, policy, request, attempt, last_attempts, last_rtid, result>>
device == <<connected, command, reply, settings>>
history == <<sent, rejected, since>>
vars == <<fixed, host, device, history>>

-----------------------------------------------------------------------------
(* What a typed operation asks for.                                         *)

Capability == [n \in OpNames |->
  CASE n \in {"set_device_mode", "get_device_mode"} -> "DEVICE_MODE"
    [] n = "firmware_version" -> "FIRMWARE_VERSION"
    [] n = "serial" -> "SERIAL"
    [] n \in {"set_brightness", "get_brightness"} -> "BRIGHTNESS"
    [] n = "set_static_effect" -> "STATIC_EFFECT"
    [] n \in {"set_poll_rate", "get_poll_rate"} -> "POLL_RATE"]

(* Mutant: no capability guard.                                             *)
require_nothing(e, c) == TRUE

require(e, c) == contains(e.capabilities, Capability[c.name])

(* Session::led: the ids LedId can represent.                               *)
led(e, c) ==
  c.name \in {"set_brightness", "get_brightness", "set_static_effect"}
     => e.default_led \in {0, 1, 4, 5}

(* The legacy family cannot express every rate; v2 can.                     *)
encodable(e, c) ==
  c.name = "set_poll_rate" /\ e.poll_rate_kind = "Legacy" => c.arg \in DOMAIN legacy_code

request_of(e, c) ==
  CASE c.name = "set_device_mode" -> cmd_set_device_mode(c.arg)
    [] c.name = "get_device_mode" -> cmd_get_device_mode
    [] c.name = "firmware_version" -> cmd_get_firmware_version
    [] c.name = "serial" -> cmd_get_serial
    [] c.name = "set_brightness" -> cmd_set_brightness(VarStore, e.default_led, c.arg)
    [] c.name = "get_brightness" -> cmd_get_brightness(VarStore, e.default_led)
    [] c.name = "set_static_effect" ->
         cmd_set_static_effect(VarStore, e.default_led, <<c.arg, c.arg, c.arg>>)
    [] c.name = "set_poll_rate" -> IF e.poll_rate_kind = "V2"
                                     THEN cmd_set_poll_rate_v2(c.arg, 0)
                                     ELSE cmd_set_poll_rate_legacy(c.arg)
    [] c.name = "get_poll_rate" -> IF e.poll_rate_kind = "V2"
                                     THEN cmd_get_poll_rate_v2
                                     ELSE cmd_get_poll_rate_legacy

parse_reply(e, c, response) ==
  CASE c.name = "get_device_mode" -> parse_device_mode(response)
    [] c.name = "firmware_version" -> parse_firmware_version(response)
    [] c.name = "serial" -> parse_serial(response)
    [] c.name = "get_brightness" -> parse_brightness(response)
    [] c.name = "get_poll_rate" -> IF e.poll_rate_kind = "V2"
                                     THEN parse_poll_rate_v2(response)
                                     ELSE parse_poll_rate_legacy(response)
    [] OTHER -> Parsed(<<>>)

-----------------------------------------------------------------------------
(* The device.  A command or reply remembers whose it is: "current" for the *)
(* attempt in progress, "earlier" for any previous SET of this session,     *)
(* "foreign" for the second host.                                           *)

Owners == {"none", "current", "earlier", "foreign"}
Slot(by, frame) == [by |-> by, frame |-> frame]
NoCommand == Slot("none", to_bytes(NewReport(0, 0, 0)))
Aged(slot) == [slot EXCEPT !.by = IF slot.by = "current" THEN "earlier" ELSE slot.by]

(* The settings after the device carries out a frame in its own family.     *)
Applied(e, f, s) ==
  CASE f.command_class = 0 /\ f.command_id = 4 -> [s EXCEPT !.mode = f.arguments[0]]
    [] f.command_class = 15 /\ f.command_id = 4 /\ f.arguments[1] = e.default_led ->
         [s EXCEPT !.brightness = f.arguments[2]]
    [] /\ f.command_class = 0 /\ f.command_id = 5 /\ e.poll_rate_kind = "Legacy"
       /\ f.arguments[0] \in DOMAIN from_legacy_code ->
         [s EXCEPT !.rate = from_legacy_code[f.arguments[0]]]
    [] /\ f.command_class = 0 /\ f.command_id = 64 /\ e.poll_rate_kind = "V2"
       /\ f.arguments[1] \in DOMAIN from_v2_code ->
         [s EXCEPT !.rate = from_v2_code[f.arguments[1]]]
    [] OTHER -> s

(* The argument slots of a successful reply; anything else echoes them.     *)
Payload(e, f, s) ==
  CASE f.command_class = 0 /\ f.command_id = 132 -> [f.arguments EXCEPT ![0] = s.mode]
    [] f.command_class = 0 /\ f.command_id = 129 -> [f.arguments EXCEPT ![0] = 2]
    [] f.command_class = 0 /\ f.command_id = 130 -> s.serial
    [] f.command_class = 15 /\ f.command_id = 132 -> [f.arguments EXCEPT ![2] = s.brightness]
    [] /\ f.command_class = 0 /\ f.command_id = 133 /\ s.rate \in DOMAIN legacy_code ->
         [f.arguments EXCEPT ![0] = legacy_code[s.rate]]
    [] f.command_class = 0 /\ f.command_id = 192 ->
         [f.arguments EXCEPT ![1] = v2_code[s.rate]]
    [] OTHER -> f.arguments

-----------------------------------------------------------------------------
Result(kind, err, response, by, value) ==
  [kind |-> kind, err |-> err, response |-> response, by |-> by, value |-> value]
NoReport == NewReport(0, 0, 0)
Failed(kind, err) == Result(kind, err, NoReport, "none", <<>>)
RawCall == [name |-> "raw", arg |-> 0]

Return(r) == pc' = "idle" /\ result' = r

Init ==
  /\ entry \in Entries
  /\ tid \in {entry.transaction_id} \cup Overrides
  /\ pc = "idle" /\ call = RawCall /\ policy = "transact" /\ request = NoReport
  /\ attempt = 0 /\ last_attempts = 0 /\ last_rtid = -1
  /\ result = Failed("none", NoError)
  /\ connected = TRUE /\ command = NoCommand
  /\ reply = Slot("earlier", to_bytes(NoReport))
  /\ settings \in Settings
  /\ sent = <<>> /\ rejected = 0 /\ since = 0

(* A new call forgets the history of the previous one.                      *)
NewCall(c, p) ==
  /\ pc = "idle"
  /\ call' = c /\ policy' = p
  /\ sent' = <<>> /\ rejected' = 0
  /\ UNCHANGED <<fixed, device, last_rtid, since>>

CallUnsupported(c) ==
  /\ ~require(entry, c) \/ ~led(entry, c)
  /\ NewCall(c, "transact")
  /\ Return(Failed("Unsupported", NoError))
  /\ UNCHANGED <<request, attempt, last_attempts>>

CallUnencodable(c) ==
  /\ require(entry, c) /\ ~encodable(entry, c)
  /\ NewCall(c, "transact")
  /\ Return(Failed("Proto", ProtoError("Malformed", "legacy_poll_rate")))
  /\ UNCHANGED <<request, attempt, last_attempts>>

(* The head of transact's loop for attempt 0.                               *)
BeginTransact(r) ==
  /\ pc' = "send" /\ request' = r /\ result' = Failed("none", NoError)
  /\ attempt' = 0 /\ last_attempts' = 1

Call(c) ==
  /\ require(entry, c) /\ led(entry, c) /\ encodable(entry, c)
  /\ NewCall(c, "transact")
  /\ BeginTransact(request_of(entry, c))

CallRaw(rc) ==
  /\ NewCall(RawCall, rc.policy)
  /\ \/ rc.policy = "transact" /\ BeginTransact(rc.request)
     \/ /\ rc.policy # "transact"
        /\ pc' = "send" /\ request' = rc.request /\ result' = Failed("none", NoError)
        /\ UNCHANGED <<attempt, last_attempts>>

-----------------------------------------------------------------------------
(* Session::send.  The request is checked before the id is stamped; the     *)
(* stamp overwrites whatever the caller left there; to_bytes recomputes the *)
(* checksum.  The wait follows only an ioctl that succeeded.                *)

(* Mutant: a transaction id the caller left in the report survives.         *)
StampedUnlessSet(r) ==
  to_bytes(IF r.transaction_id = 0 THEN with_transaction_id(r, tid) ELSE r)

Stamped(r) == to_bytes(with_transaction_id(r, tid))

SendMalformed ==
  /\ pc = "send"
  /\ check_request(request) # NoError
  /\ Return(Failed("Proto", check_request(request)))
  /\ UNCHANGED <<fixed, device, history, call, policy, request, attempt,
                 last_attempts, last_rtid>>

Deliver(f) ==
  /\ connected
  /\ command' = Slot("current", f) /\ reply' = Aged(reply)
  /\ UNCHANGED <<connected, settings>>

SetFeature ==
  /\ pc = "send"
  /\ check_request(request) = NoError
  /\ sent' = Append(sent, Stamped(request)) /\ since' = 0
  /\ UNCHANGED <<rejected, fixed, call, policy, request, attempt,
                 last_attempts, last_rtid>>

(* Mutant: the read follows the write with no wait.                         *)
SetFeatureOkNoWait ==
  /\ SetFeature
  /\ Deliver(Stamped(request))
  /\ pc' = "get" /\ UNCHANGED result

SetFeatureOk ==
  /\ SetFeature
  /\ Deliver(Stamped(request))
  /\ pc' = "wait" /\ UNCHANGED result

(* A failed ioctl may or may not have reached the device.                   *)
SetFeatureError ==
  /\ SetFeature
  /\ Return(Failed("Io", NoError))
  /\ \/ Deliver(Stamped(request))
     \/ reply' = Aged(reply) /\ command' = Aged(command) /\ UNCHANGED <<connected, settings>>

(* Mutant: poll until the device has answered instead of sleeping.          *)
WaitForAnswer ==
  /\ pc = "wait" /\ command.by # "current"
  /\ since' = since + entry.wait
  /\ pc' = "get" /\ UNCHANGED result
  /\ UNCHANGED <<fixed, device, sent, rejected, call, policy, request, attempt,
                 last_attempts, last_rtid>>

Wait ==
  /\ pc = "wait"
  /\ Prompt => command.by = "none"
  /\ since' = since + entry.wait
  /\ \/ policy = "send" /\ Return(Result("Ok", NoError, NoReport, "none", <<>>))
     \/ policy # "send" /\ pc' = "get" /\ UNCHANGED result
  /\ UNCHANGED <<fixed, device, sent, rejected, call, policy, request, attempt,
                 last_attempts, last_rtid>>

-----------------------------------------------------------------------------
(* The GET of transact_raw, and what transact makes of the response.        *)

GetFeature == pc = "get" /\ UNCHANGED <<fixed, device, since, sent, call, policy, request,
                                        attempt, last_attempts>>

GetFeatureError ==
  /\ GetFeature
  /\ Return(Failed("Io", NoError))
  /\ UNCHANGED <<last_rtid, rejected>>

(* Mutant: a short read is retried, as upstream does.                       *)
GetFeatureShortRetried ==
  /\ GetFeature /\ connected
  /\ \/ attempt + 1 < MAX_ATTEMPTS /\ pc' = "retry" /\ UNCHANGED result
     \/ attempt + 1 >= MAX_ATTEMPTS /\ Return(Failed("ShortRead", NoError))
  /\ UNCHANGED <<last_rtid, rejected>>

GetFeatureShort ==
  /\ GetFeature /\ connected
  /\ Return(Failed("ShortRead", NoError))
  /\ UNCHANGED <<last_rtid, rejected>>

Response == from_bytes(reply.frame)

GetRaw ==
  /\ GetFeature /\ connected /\ policy = "transact_raw"
  /\ Return(Result("Ok", NoError, Response, reply.by, <<>>))
  /\ UNCHANGED <<last_rtid, rejected>>

Accept ==
  /\ GetFeature /\ connected /\ policy = "transact"
  /\ check_response(request, Response) = NoError
  /\ last_rtid' = Response.transaction_id
  /\ LET parsed == parse_reply(entry, call, Response)
     IN  Return(Result(IF parsed.err = NoError THEN "Ok" ELSE "Proto",
                       parsed.err, Response, reply.by, parsed.value))
  /\ UNCHANGED rejected

(* Mutant: one attempt too many.                                            *)
RejectOffByOne ==
  /\ GetFeature /\ connected /\ policy = "transact"
  /\ LET e == check_response(request, Response)
     IN  /\ e # NoError
         /\ last_rtid' = Response.transaction_id
         /\ rejected' = rejected + 1
         /\ \/ attempt < MAX_ATTEMPTS /\ pc' = "retry" /\ UNCHANGED result
            \/ attempt >= MAX_ATTEMPTS /\ Return(Failed("RetriesExhausted", e))

Reject ==
  /\ GetFeature /\ connected /\ policy = "transact"
  /\ LET e == check_response(request, Response)
     IN  /\ e # NoError
         /\ last_rtid' = Response.transaction_id
         /\ rejected' = rejected + 1
         /\ \/ attempt + 1 < MAX_ATTEMPTS /\ pc' = "retry" /\ UNCHANGED result
            \/ attempt + 1 >= MAX_ATTEMPTS /\ Return(Failed("RetriesExhausted", e))

(* Mutants: no delay between attempts; the attempt is counted after it.     *)
RetryAtOnce ==
  /\ pc = "retry"
  /\ pc' = "send"
  /\ attempt' = attempt + 1 /\ last_attempts' = attempt + 2
  /\ UNCHANGED <<fixed, device, history, call, policy, request, last_rtid, result>>

RetryUncounted ==
  /\ pc = "retry"
  /\ pc' = "send"
  /\ since' = since + RETRY_DELAY
  /\ attempt' = attempt + 1 /\ last_attempts' = attempt + 1
  /\ UNCHANGED <<fixed, device, sent, rejected, call, policy, request,
                 last_rtid, result>>

Retry ==
  /\ pc = "retry"
  /\ pc' = "send"
  /\ since' = since + RETRY_DELAY
  /\ attempt' = attempt + 1 /\ last_attempts' = attempt + 2
  /\ UNCHANGED <<fixed, device, sent, rejected, call, policy, request,
                 last_rtid, result>>

-----------------------------------------------------------------------------
(* The environment: the device answers, a second host writes to it, the     *)
(* cable is pulled (the open file never works again).                       *)

Answer ==
  /\ command.by # "none"
  /\ \E b \in AnswerBytes, t \in {command.frame.transaction_id} \cup OddTids,
        size \in {command.frame.data_size} \cup OddSizes :
       LET f == command.frame
           ok == b = SUCCESSFUL
       IN  /\ reply' = Slot(command.by,
                [f EXCEPT !.status = b, !.data_size = size, !.transaction_id = t,
                          !.arguments = IF ok THEN Payload(entry, f, settings) ELSE @])
           /\ \/ b \in {SUCCESSFUL, BUSY} /\ settings' = Applied(entry, f, settings)
              \/ b # SUCCESSFUL /\ UNCHANGED settings
  /\ command' = NoCommand
  /\ UNCHANGED <<fixed, host, history, connected>>

ForeignSet ==
  /\ connected
  /\ \E f \in ForeignFrames : command' = Slot("foreign", f)
  /\ UNCHANGED <<fixed, host, history, connected, reply, settings>>

Unplug ==
  /\ connected
  /\ connected' = FALSE /\ command' = NoCommand
  /\ UNCHANGED <<fixed, host, history, reply, settings>>

-----------------------------------------------------------------------------
Caller == \/ \E c \in Calls : CallUnsupported(c) \/ CallUnencodable(c) \/ Call(c)
          \/ \E rc \in RawCalls : CallRaw(rc)

Host == \/ SendMalformed \/ SetFeatureOk \/ SetFeatureError \/ Wait
        \/ GetFeatureError \/ GetFeatureShort \/ GetRaw \/ Accept \/ Reject
        \/ Retry

Environment == Answer \/ ForeignSet \/ Unplug

Next == Caller \/ Host \/ Environment

Spec == Init /\ [][Next]_vars

(* The thread that made the call runs on; nothing is assumed of the device. *)
FairSpec == Spec /\ WF_vars(Host)

-----------------------------------------------------------------------------
(* Properties *)

ResultKinds == {"none", "Ok", "Unsupported", "Proto", "Io", "ShortRead", "RetriesExhausted"}

(* Every variable has the type its Rust declaration gives it.               *)
TypeOK ==
  /\ entry \in Entries /\ tid \in Byte
  /\ pc \in {"idle", "send", "wait", "get", "retry"}
  /\ call \in Calls \cup {RawCall} /\ policy \in Policies /\ request \in RazerReport
  /\ attempt \in 0..(MAX_ATTEMPTS - 1) /\ last_attempts \in 0..MAX_ATTEMPTS
  /\ last_rtid \in Byte \cup {-1}
  /\ result.kind \in ResultKinds /\ result.by \in Owners
  /\ result.response \in RazerReport
  /\ connected \in BOOLEAN /\ settings \in DeviceSettings
  /\ command \in [by: Owners, frame: Frame]
  /\ reply \in [by: Owners \ {"none"}, frame: Frame]
  /\ sent \in Seq(Frame) /\ rejected \in 0..MAX_ATTEMPTS /\ since \in Nat

(* The frames a call put on the wire (Session::send): each is the request   *)
(* with the session's transaction id, the table's unless overridden, and a  *)
(* checksum of its own; each passed check_request; and a typed operation    *)
(* only ever sends to a device that has the capability.                     *)
WireDiscipline ==
  LET frame == Stamped(request) IN
  \A i \in 1..Len(sent) :
    /\ sent[i] = frame
    /\ sent[i].transaction_id = tid
    /\ sent[i].data_size <= ARGS_LEN /\ sent[i].protocol_type = 0 /\ sent[i].reserved = 0
    /\ call # RawCall => Capability[call.name] \in entry.capabilities

(* HidError::terminal_status and is_receiver_idle.                          *)
terminal_status(r) ==
  IF r.kind \in {"RetriesExhausted", "Proto"} /\ r.err.kind = "DeviceStatus"
  THEN r.err.info ELSE "none"
is_receiver_idle(r) == terminal_status(r) = "Timeout"

(* Every SET is paid for: a call that is refused sends nothing, and every   *)
(* SET after the first follows a complete response the code rejected, so a  *)
(* transport fault or a malformed request is never retried and a rejected   *)
(* write reaches the device at most five times (transact), and a receiver   *)
(* is called idle only after all five.                                      *)
AttemptAccounting ==
  /\ Len(sent) <= MAX_ATTEMPTS
  /\ pc = "idle" =>
       /\ result.kind \in {"none", "Unsupported"} => Len(sent) = 0
       /\ result.kind \in {"Io", "ShortRead", "Ok"} => Len(sent) = rejected + 1
       /\ result.kind = "RetriesExhausted" =>
            Len(sent) = MAX_ATTEMPTS /\ rejected = MAX_ATTEMPTS
       /\ is_receiver_idle(result) => rejected = MAX_ATTEMPTS
       /\ result.kind = "Proto" =>
            \/ Len(sent) = 0 /\ rejected = 0
            \/ Len(sent) = rejected + 1 /\ result.by # "none"
       /\ Len(sent) > 0 /\ policy = "transact" => last_attempts = Len(sent)
       /\ policy # "transact" => Len(sent) <= 1

(* Whatever the second host and a slow device leave in the reply buffer, a  *)
(* typed read returns Ok only with a value out of a reply to that very      *)
(* command, one the device marked successful or busy (check_response).      *)
AcceptedAnswersRequest ==
  pc = "idle" /\ policy = "transact" /\ result.kind = "Ok" =>
    /\ result.response.command_class = request.command_class
    /\ result.response.command_id = request.command_id
    /\ result.response.remaining_packets = request.remaining_packets
    /\ result.response.status.raw \in {SUCCESSFUL, BUSY}
    /\ result.response.data_size <= ARGS_LEN
    /\ last_rtid = result.response.transaction_id

(* On a device that answers within entry.wait and that nobody else uses, an *)
(* accepted reply belongs to the attempt that read it, never to an earlier  *)
(* attempt or call.                                                         *)
FreshAnswer ==
  pc = "idle" /\ policy = "transact" /\ result.kind = "Ok" => result.by = "current"

(* Two SETs of one call are at least wait + RETRY_DELAY apart: send sleeps  *)
(* after the SET, transact sleeps before the next attempt.                  *)
RetrySpacing ==
  [][Len(sent') > Len(sent) /\ Len(sent) > 0 => since >= entry.wait + RETRY_DELAY]_vars

Asked(name) == call.name = name /\ result.kind = "Ok" /\ result.response.status.raw = SUCCESSFUL

(* On the same device, a successful typed write has set exactly what was    *)
(* asked, in this device's own encoding, and a successful typed read        *)
(* returned what the device holds: the argument slots, the LED and the      *)
(* poll-rate family all agree between cmd, parse and the table.             *)
ReadBack ==
  pc = "idle" =>
    /\ Asked("set_device_mode") => settings.mode = call.arg
    /\ Asked("set_brightness") => settings.brightness = call.arg
    /\ Asked("set_poll_rate") => settings.rate = call.arg
    /\ Asked("get_device_mode") => result.value = <<settings.mode, 0>>
    /\ Asked("get_brightness") => result.value = <<settings.brightness>>
    /\ Asked("get_poll_rate") => result.value = <<settings.rate>>

(* Every call returns, whatever the device, the cable and the second host   *)
(* do: the retry loop is bounded and every sleep and ioctl ends.            *)
CallReturns == pc # "idle" ~> pc = "idle"

-----------------------------------------------------------------------------
(* The abstract specification of a call, and the states of it that the      *)
(* variables of this module stand for.                                      *)

Budget(p) == IF p = "transact" THEN MAX_ATTEMPTS ELSE 1
Outcome ==
  CASE result.kind = "none" -> "none"
    [] result.kind = "Unsupported" -> "refused"
    [] result.kind = "Ok" -> "answered"
    [] result.kind = "RetriesExhausted" -> "exhausted"
    [] result.kind \in {"Io", "ShortRead"} -> "faulted"
    [] result.kind = "Proto" -> IF result.by = "none" THEN "refused" ELSE "unreadable"

Abstract == INSTANCE CallSpec
  WITH Frames <- Frame, Budgets <- {1, MAX_ATTEMPTS},
       phase <- IF pc = "idle" THEN "returned" ELSE "running",
       frame <- Stamped(request), budget <- Budget(policy),
       wire <- sent, outcome <- Outcome

(* Session keeps the contract of CallSpec: one unchanging frame per call,   *)
(* delivered at most five times by transact and once by send and            *)
(* transact_raw, no delivery after a fault, an answer or a refusal, and a   *)
(* returned error that says what may have reached the device.               *)
KeepsContract == Abstract!Spec
=============================================================================
