--------------------------- MODULE SessionProofs ---------------------------
(***************************************************************************)
(* Proofs about Session for every table entry, override, call, second      *)
(* host and device.                                                        *)
(***************************************************************************)
EXTENDS Session, TLAPS

(* The XOR of two nibbles is a nibble.                                      *)
LEMMA NibbleType == \A a, b \in 0..15 : XorNibble[a][b] \in 0..15
<1> SUFFICES ASSUME NEW a \in 0..15, NEW b \in 0..15
             PROVE  XorNibble[a][b] \in 0..15
  OBVIOUS
<1> DEFINE bit(w) == IF (a \div w) % 2 = (b \div w) % 2 THEN 0 ELSE w
<1>1. XorNibble[a][b] = bit(1) + bit(2) + bit(4) + bit(8)
  BY DEF XorNibble
<1>2. /\ bit(1) \in {0, 1} /\ bit(2) \in {0, 2} /\ bit(4) \in {0, 4} /\ bit(8) \in {0, 8}
  OBVIOUS
<1> HIDE DEF bit
<1> QED BY <1>1, <1>2

(* Four nibbles fold to a nibble.                                           *)
LEMMA NibblesType ==
  \A p, q, r, s \in 0..15 : XorNibbles(p, q, r, s) \in 0..15
BY NibbleType DEF XorNibbles

(* The checksum of a frame is a byte.                                       *)
LEMMA CrcType == \A f \in Frame : crc(f) \in Byte
<1> SUFFICES ASSUME NEW f \in Frame PROVE crc(f) \in Byte
  OBVIOUS
<1> DEFINE n(b, w) == (b \div w) % 16
           a == f.arguments
           nibble(w) ==
             XorNibbles(
               XorNibbles(n(f.remaining_hi, w), n(f.remaining_lo, w),
                          n(f.protocol_type, w), n(f.data_size, w)),
               XorNibbles(n(f.command_class, w), n(f.command_id, w), n(a[0], w), n(a[1], w)),
               XorNibbles(n(a[2], w), n(a[3], w), n(a[4], w), n(a[5], w)),
               XorNibbles(n(a[6], w), n(a[7], w), n(a[8], w), 0))
<1>1. \A b \in Byte : n(b, 1) \in 0..15 /\ n(b, 16) \in 0..15
  BY DEF Byte
<1>2. /\ f.remaining_hi \in Byte /\ f.remaining_lo \in Byte /\ f.protocol_type \in Byte
      /\ f.data_size \in Byte /\ f.command_class \in Byte /\ f.command_id \in Byte
      /\ \A i \in ArgSlots : a[i] \in Byte
  BY DEF Frame
<1> HIDE DEF n, a
<1>3. ASSUME NEW w \in {1, 16} PROVE nibble(w) \in 0..15
  <2>1. \A b \in Byte : n(b, w) \in 0..15
    BY <1>1
  <2>2. /\ n(a[0], w) \in 0..15 /\ n(a[1], w) \in 0..15 /\ n(a[2], w) \in 0..15
        /\ n(a[3], w) \in 0..15 /\ n(a[4], w) \in 0..15 /\ n(a[5], w) \in 0..15
        /\ n(a[6], w) \in 0..15 /\ n(a[7], w) \in 0..15 /\ n(a[8], w) \in 0..15
    BY <1>2, <2>1 DEF ArgSlots
  <2> HIDE DEF nibble
  <2>3. XorNibbles(n(f.remaining_hi, w), n(f.remaining_lo, w),
                   n(f.protocol_type, w), n(f.data_size, w)) \in 0..15
    <3>1. /\ n(f.remaining_hi, w) \in 0..15 /\ n(f.remaining_lo, w) \in 0..15
          /\ n(f.protocol_type, w) \in 0..15 /\ n(f.data_size, w) \in 0..15
      BY <1>2, <2>1
    <3> QED BY <3>1, NibblesType
  <2>4. XorNibbles(n(f.command_class, w), n(f.command_id, w), n(a[0], w), n(a[1], w)) \in 0..15
    <3>1. n(f.command_class, w) \in 0..15 /\ n(f.command_id, w) \in 0..15
      BY <1>2, <2>1
    <3> QED BY <3>1, <2>2, NibblesType
  <2>5. XorNibbles(n(a[2], w), n(a[3], w), n(a[4], w), n(a[5], w)) \in 0..15
    BY <2>2, NibblesType
  <2>6. XorNibbles(n(a[6], w), n(a[7], w), n(a[8], w), 0) \in 0..15
    <3>1. 0 \in 0..15
      OBVIOUS
    <3> QED BY <3>1, <2>2, NibblesType
  <2> QED BY <2>3, <2>4, <2>5, <2>6, NibblesType DEF nibble
<1>4. nibble(1) \in 0..15 /\ nibble(16) \in 0..15
  BY <1>3
<1>5. crc(f) = 16 * nibble(16) + nibble(1)
  BY DEF crc, n, a
<1> HIDE DEF nibble
<1> QED BY <1>4, <1>5 DEF Byte

(* Both bytes of a 16-bit number are bytes, and they make it up again.      *)
LEMMA SplitU16 ==
  ASSUME NEW k \in U16
  PROVE  k \div 256 \in Byte /\ k % 256 \in Byte
<1>1. k \in Int /\ 0 <= k /\ k <= 65535
  <2>1. \A top \in Int : k \in 0..top => k \in Int /\ 0 <= k /\ k <= top
    OBVIOUS
  <2>2. 256 * 256 - 1 \in Int
    OBVIOUS
  <2>3. k \in Int /\ 0 <= k /\ k <= 256 * 256 - 1
    BY <2>1, <2>2, Zenon DEF U16
  <2> QED BY <2>3
<1> DEFINE q == k \div 256
           m == k % 256
<1>2. q \in Int /\ 0 <= q /\ q <= 255 /\ m \in Int /\ 0 <= m /\ m <= 255
  BY <1>1
<1> HIDE DEF q, m
<1>3. q \in Byte /\ m \in Byte
  BY <1>2 DEF Byte
<1> QED BY <1>3 DEF q, m

(* Two bytes make a 16-bit number.                                          *)
LEMMA JoinU16 == \A hi, lo \in Byte : 256 * hi + lo \in U16
<1> SUFFICES ASSUME NEW hi \in Byte, NEW lo \in Byte PROVE 256 * hi + lo \in U16
  OBVIOUS
<1>1. hi \in Int /\ lo \in Int /\ 0 <= hi /\ hi <= 255 /\ 0 <= lo /\ lo <= 255
  BY DEF Byte
<1> DEFINE n == 256 * hi + lo
<1>2. n \in Int /\ 0 <= n /\ n <= 256 * 256 - 1
  BY <1>1
<1>3. 256 * 256 - 1 \in Int
  OBVIOUS
<1> HIDE DEF n
<1>4. \A top \in Int : n <= top => n \in 0..top
  BY <1>2
<1>5. n \in U16
  BY <1>2, <1>3, <1>4, Zenon DEF U16
<1> QED BY <1>5 DEF n

(* to_bytes makes a frame of any report.                                    *)
LEMMA ToBytesType == \A r \in RazerReport : to_bytes(r) \in Frame
<1> SUFFICES ASSUME NEW r \in RazerReport PROVE to_bytes(r) \in Frame
  OBVIOUS
<1> DEFINE wire == [status |-> to_u8(r.status),
               transaction_id |-> r.transaction_id,
               remaining_hi |-> r.remaining_packets \div 256,
               remaining_lo |-> r.remaining_packets % 256,
               protocol_type |-> r.protocol_type,
               data_size |-> r.data_size,
               command_class |-> r.command_class,
               command_id |-> r.command_id,
               arguments |-> r.arguments,
               crc |-> 0,
               reserved |-> r.reserved]
<1>1. r.remaining_packets \in U16 /\ r.status \in Status
  BY DEF RazerReport
<1>2. to_u8(r.status) \in Byte
  BY <1>1 DEF to_u8, Status
<1>3. r.remaining_packets \div 256 \in Byte /\ r.remaining_packets % 256 \in Byte
  BY <1>1, SplitU16
<1>4. 0 \in Byte
  BY DEF Byte
<1>5. wire \in Frame
  BY <1>2, <1>3, <1>4 DEF Frame, RazerReport
<1>6. crc(wire) \in Byte
  BY <1>5, CrcType
<1>7. to_bytes(r) = [wire EXCEPT !.crc = crc(wire)]
  BY DEF to_bytes
<1> HIDE DEF wire
<1> QED BY <1>5, <1>6, <1>7 DEF Frame

(* from_bytes makes a report of any frame.                                  *)
LEMMA FromBytesType == \A f \in Frame : from_bytes(f) \in RazerReport
<1> SUFFICES ASSUME NEW f \in Frame PROVE from_bytes(f) \in RazerReport
  OBVIOUS
<1>1. f.status \in Byte /\ f.remaining_hi \in Byte /\ f.remaining_lo \in Byte
  BY DEF Frame
<1>2. from_u8(f.status) \in Status
  BY <1>1 DEF from_u8, Status, StatusNames
<1>3. 256 * f.remaining_hi + f.remaining_lo \in U16
  BY <1>1, JoinU16
<1> QED BY <1>2, <1>3 DEF from_bytes, RazerReport, Frame

(* RazerReport::new makes a report.                                         *)
LEMMA NewReportType ==
  \A c, i, n \in Byte : NewReport(c, i, n) \in RazerReport
<1> SUFFICES ASSUME NEW c \in Byte, NEW i \in Byte, NEW n \in Byte
             PROVE  NewReport(c, i, n) \in RazerReport
  OBVIOUS
<1>1. 0 \in Byte /\ 0 \in U16
  BY DEF Byte, U16
<1>2. New \in Status
  BY <1>1 DEF New, from_u8, Status
<1>3. [j \in ArgSlots |-> 0] \in [ArgSlots -> Byte]
  BY <1>1
<1> QED BY <1>1, <1>2, <1>3 DEF NewReport, RazerReport

(* with_args keeps a report a report.                                       *)
LEMMA WithArgsType ==
  \A r \in RazerReport, s \in Seq(Byte) : with_args(r, s) \in RazerReport
<1> SUFFICES ASSUME NEW r \in RazerReport, NEW s \in Seq(Byte)
             PROVE  with_args(r, s) \in RazerReport
  OBVIOUS
<1> DEFINE args == [i \in ArgSlots |-> IF i < Len(s) THEN s[i + 1] ELSE r.arguments[i]]
<1>1. r.arguments \in [ArgSlots -> Byte]
  BY DEF RazerReport
<1>2. \A i \in ArgSlots : i < Len(s) => s[i + 1] \in Byte
  BY DEF ArgSlots
<1>3. args \in [ArgSlots -> Byte]
  BY <1>1, <1>2
<1>4. with_args(r, s) = [r EXCEPT !.arguments = args]
  BY DEF with_args
<1> HIDE DEF args
<1> QED BY <1>3, <1>4 DEF RazerReport

(* So does stamping the transaction id.                                     *)
LEMMA StampType ==
  \A r \in RazerReport, t \in Byte : with_transaction_id(r, t) \in RazerReport
BY DEF with_transaction_id, RazerReport

(* The codes of both poll-rate families are bytes.                          *)
LEMMA CodeType ==
  /\ \A rate \in DOMAIN legacy_code : legacy_code[rate] \in Byte
  /\ \A rate \in PollRate : v2_code[rate] \in Byte
  /\ \A code \in DOMAIN from_legacy_code : from_legacy_code[code] \in PollRate
  /\ \A code \in DOMAIN from_v2_code : from_v2_code[code] \in PollRate
BY DEF legacy_code, v2_code, from_legacy_code, from_v2_code, PollRate, Byte

(* Every request a typed operation builds is a report.                      *)
LEMMA RequestType ==
  ASSUME NEW e \in DeviceEntry, NEW c \in TypedCalls, encodable(e, c)
  PROVE  request_of(e, c) \in RazerReport
<1>1. /\ e.default_led \in Byte /\ e.poll_rate_kind \in {"Legacy", "V2"}
      /\ c.name \in OpNames
  BY DEF DeviceEntry, TypedCalls, Byte
<1>2. /\ 0 \in Byte /\ 1 \in Byte /\ 2 \in Byte /\ 3 \in Byte /\ 4 \in Byte /\ 5 \in Byte
      /\ 6 \in Byte /\ 9 \in Byte /\ 15 \in Byte /\ 22 \in Byte /\ 64 \in Byte
      /\ 129 \in Byte /\ 130 \in Byte /\ 132 \in Byte /\ 133 \in Byte /\ 192 \in Byte
  BY DEF Byte
<1>3. CASE c.name = "set_device_mode"
  <2>1. c.arg \in Byte
    BY <1>3 DEF TypedCalls, DeviceMode, Byte
  <2>2. <<c.arg, 0>> \in Seq(Byte)
    BY <2>1, <1>2
  <2>3. with_args(NewReport(0, 4, 2), <<c.arg, 0>>) \in RazerReport
    BY <1>2, <2>2, NewReportType, WithArgsType
  <2> QED BY <1>3, <2>3 DEF request_of, cmd_set_device_mode
<1>4. CASE c.name \in {"get_device_mode", "firmware_version", "serial"}
  BY <1>2, <1>4, NewReportType
     DEF request_of, cmd_get_device_mode, cmd_get_firmware_version, cmd_get_serial
<1>5. CASE c.name \in {"set_brightness", "get_brightness"}
  <2>1. c.name = "set_brightness" => c.arg \in Byte
    BY DEF TypedCalls
  <2>2. c.name = "set_brightness" => <<1, e.default_led, c.arg>> \in Seq(Byte)
    BY <2>1, <1>1, <1>2
  <2>3. <<1, e.default_led>> \in Seq(Byte)
    BY <1>1, <1>2
  <2>4. CASE c.name = "set_brightness"
    <3>1. with_args(NewReport(15, 4, 3), <<1, e.default_led, c.arg>>) \in RazerReport
      BY <1>2, <2>2, <2>4, NewReportType, WithArgsType
    <3> QED BY <2>4, <3>1 DEF request_of, cmd_set_brightness, VarStore
  <2>5. CASE c.name = "get_brightness"
    <3>1. with_args(NewReport(15, 132, 3), <<1, e.default_led>>) \in RazerReport
      BY <1>2, <2>3, NewReportType, WithArgsType
    <3> QED BY <2>5, <3>1 DEF request_of, cmd_get_brightness, VarStore
  <2> QED BY <1>5, <2>4, <2>5
<1>6. CASE c.name = "set_static_effect"
  <2>1. c.arg \in Byte
    BY <1>6 DEF TypedCalls
  <2> DEFINE args == <<1, e.default_led, 1, 0, 0, 1, c.arg, c.arg, c.arg>>
  <2>2. args \in Seq(Byte)
    BY <2>1, <1>1, <1>2
  <2>3. with_args(NewReport(15, 2, 9), args) \in RazerReport
    <3> HIDE DEF args
    <3> QED BY <1>2, <2>2, NewReportType, WithArgsType
  <2> QED BY <1>6, <2>3 DEF request_of, cmd_set_static_effect, VarStore
<1>7. CASE c.name = "set_poll_rate"
  <2>1. c.arg \in PollRate
    BY <1>7 DEF TypedCalls
  <2>2. CASE e.poll_rate_kind = "V2"
    <3>1. <<0, v2_code[c.arg]>> \in Seq(Byte)
      BY <2>1, <1>2, CodeType
    <3>2. with_args(NewReport(0, 64, 2), <<0, v2_code[c.arg]>>) \in RazerReport
      BY <1>2, <3>1, NewReportType, WithArgsType
    <3> QED BY <1>7, <2>2, <3>2 DEF request_of, cmd_set_poll_rate_v2
  <2>3. CASE e.poll_rate_kind = "Legacy"
    <3>1. <<legacy_code[c.arg]>> \in Seq(Byte)
      BY <1>7, <2>3, CodeType DEF encodable
    <3>2. with_args(NewReport(0, 5, 1), <<legacy_code[c.arg]>>) \in RazerReport
      BY <1>2, <3>1, NewReportType, WithArgsType
    <3> QED BY <1>7, <2>3, <3>2 DEF request_of, cmd_set_poll_rate_legacy
  <2> QED BY <1>1, <2>2, <2>3
<1>8. CASE c.name = "get_poll_rate"
  BY <1>2, <1>8, NewReportType
     DEF request_of, cmd_get_poll_rate_v2, cmd_get_poll_rate_legacy
<1> QED BY <1>1, <1>3, <1>4, <1>5, <1>6, <1>7, <1>8 DEF OpNames

-----------------------------------------------------------------------------
(* The inductive invariant.                                                 *)

(* How far the call in progress has come, at each ioctl and sleep: what was *)
(* sent, how many responses were rejected, which attempt is under way.      *)
Progress ==
  /\ policy # "transact" => Len(sent) <= 1 /\ rejected = 0
  /\ pc = "send" =>
       IF policy = "transact"
       THEN Len(sent) = attempt /\ rejected = attempt /\ last_attempts = attempt + 1
       ELSE Len(sent) = 0
  /\ pc \in {"wait", "get"} =>
       IF policy = "transact"
       THEN Len(sent) = attempt + 1 /\ rejected = attempt /\ last_attempts = attempt + 1
       ELSE Len(sent) = 1
  /\ pc = "get" => policy # "send"
  /\ pc = "retry" =>
       /\ policy = "transact" /\ attempt + 1 < MAX_ATTEMPTS
       /\ Len(sent) = attempt + 1 /\ rejected = attempt + 1 /\ last_attempts = attempt + 1

(* Why a frame could go out: the request passed its check, the entry has    *)
(* the capability, and every frame so far is the stamped request.           *)
Justified ==
  /\ pc # "idle" /\ call # RawCall => require(entry, call)
  /\ Len(sent) > 0 => check_request(request) = NoError
  /\ Len(sent) > 0 /\ call # RawCall => require(entry, call)
  /\ \A i \in 1..Len(sent) : sent[i] = Stamped(request)

(* The time slept since the last SET of the call.                           *)
Spacing ==
  /\ pc \in {"get", "retry"} => since >= entry.wait
  /\ pc = "send" /\ Len(sent) > 0 => since >= entry.wait + RETRY_DELAY

IInv == TypeOK /\ Progress /\ Justified /\ Spacing /\ AttemptAccounting
        /\ AcceptedAnswersRequest

-----------------------------------------------------------------------------
(* The device keeps its types.                                              *)
LEMMA AppliedType ==
  ASSUME NEW e \in DeviceEntry, NEW f \in Frame, NEW s \in DeviceSettings
  PROVE  Applied(e, f, s) \in DeviceSettings
<1>1. f.arguments[0] \in Byte /\ f.arguments[1] \in Byte /\ f.arguments[2] \in Byte
  BY DEF Frame, ArgSlots
<1>2. [s EXCEPT !.mode = f.arguments[0]] \in DeviceSettings
  BY <1>1 DEF DeviceSettings
<1>3. [s EXCEPT !.brightness = f.arguments[2]] \in DeviceSettings
  BY <1>1 DEF DeviceSettings
<1>4. ASSUME NEW r \in PollRate PROVE [s EXCEPT !.rate = r] \in DeviceSettings
  BY DEF DeviceSettings
<1>5. f.arguments[0] \in DOMAIN from_legacy_code =>
        [s EXCEPT !.rate = from_legacy_code[f.arguments[0]]] \in DeviceSettings
  BY <1>4, CodeType
<1>6. f.arguments[1] \in DOMAIN from_v2_code =>
        [s EXCEPT !.rate = from_v2_code[f.arguments[1]]] \in DeviceSettings
  BY <1>4, CodeType
<1> QED BY <1>2, <1>3, <1>5, <1>6 DEF Applied

(* What the device puts in the argument slots of a reply are bytes.         *)
LEMMA PayloadType ==
  ASSUME NEW e \in DeviceEntry, NEW f \in Frame, NEW s \in DeviceSettings
  PROVE  Payload(e, f, s) \in [ArgSlots -> Byte]
<1> DEFINE a == f.arguments
<1>1. a \in [ArgSlots -> Byte]
  BY DEF Frame
<1>2. /\ s.mode \in Byte /\ s.brightness \in Byte /\ s.rate \in PollRate
      /\ s.serial \in [ArgSlots -> Byte]
  BY DEF DeviceSettings
<1> HIDE DEF a
<1>3. ASSUME NEW i \in ArgSlots, NEW v \in Byte PROVE [a EXCEPT ![i] = v] \in [ArgSlots -> Byte]
  BY <1>1
<1>4. 0 \in ArgSlots /\ 1 \in ArgSlots /\ 2 \in ArgSlots /\ 2 \in Byte
  BY DEF ArgSlots, Byte
<1>5. /\ [a EXCEPT ![0] = s.mode] \in [ArgSlots -> Byte]
      /\ [a EXCEPT ![0] = 2] \in [ArgSlots -> Byte]
      /\ [a EXCEPT ![2] = s.brightness] \in [ArgSlots -> Byte]
  BY <1>2, <1>3, <1>4
<1>6. s.rate \in DOMAIN legacy_code =>
        [a EXCEPT ![0] = legacy_code[s.rate]] \in [ArgSlots -> Byte]
  BY <1>3, <1>4, CodeType
<1>7. [a EXCEPT ![1] = v2_code[s.rate]] \in [ArgSlots -> Byte]
  BY <1>2, <1>3, <1>4, CodeType
<1> QED BY <1>1, <1>2, <1>5, <1>6, <1>7 DEF Payload, a

(* NewReport(0, 0, 0) and the frame made of it, used as "nothing".          *)
LEMMA NothingType ==
  /\ NoReport \in RazerReport
  /\ to_bytes(NoReport) \in Frame
  /\ NoCommand \in [by: Owners, frame: Frame]
<1>0. 0 \in Byte
  BY DEF Byte
<1>1. NewReport(0, 0, 0) \in RazerReport
  BY <1>0, NewReportType
<1>2. to_bytes(NewReport(0, 0, 0)) \in Frame
  BY <1>1, ToBytesType
<1> QED BY <1>1, <1>2 DEF NoReport, NoCommand, Slot, Owners

(* Every initial state is well typed.                                       *)
LEMMA InitType == Init => TypeOK
<1> SUFFICES ASSUME Init PROVE TypeOK
  OBVIOUS
<1>1. entry \in DeviceEntry /\ settings \in DeviceSettings /\ tid \in Byte
  <2>1. entry \in Entries /\ Entries \subseteq DeviceEntry
    BY SessionAssumption DEF Init
  <2>2. entry.transaction_id \in Byte
    BY <2>1 DEF DeviceEntry, Byte
  <2>3. settings \in DeviceSettings /\ Overrides \subseteq Byte
    BY SessionAssumption DEF Init
  <2> QED BY <2>1, <2>2, <2>3 DEF Init
<1>2. /\ reply \in [by: Owners \ {"none"}, frame: Frame] /\ command \in [by: Owners, frame: Frame]
      /\ request \in RazerReport
  BY NothingType DEF Init, Slot, Owners
<1>3. /\ result.kind \in ResultKinds /\ result.by \in Owners
      /\ result.response \in RazerReport
  BY NothingType DEF Init, Failed, Result, Owners, ResultKinds
<1>4. sent \in Seq(Frame)
  BY DEF Init
<1> QED BY <1>1, <1>2, <1>3, <1>4 DEF Init, TypeOK, Policies, MAX_ATTEMPTS

(* The frame a session sends is a frame.                                    *)
LEMMA StampedType ==
  ASSUME TypeOK
  PROVE  Stamped(request) \in Frame
BY StampType, ToBytesType DEF TypeOK, Stamped

(* A reply that a new SET makes old keeps its type.                         *)
LEMMA AgedType ==
  ASSUME NEW slot \in [by: Owners, frame: Frame]
  PROVE  /\ Aged(slot) \in [by: Owners, frame: Frame]
         /\ slot.by # "none" => Aged(slot).by # "none"
BY DEF Aged, Owners

(* Every step keeps the types; the bounds on the attempts need Progress.    *)
LEMMA TypeStep == TypeOK /\ Progress /\ [Next]_vars => TypeOK'
<1> SUFFICES ASSUME TypeOK, Progress, [Next]_vars PROVE TypeOK'
  OBVIOUS
<1> USE DEF TypeOK
<1>a. entry \in DeviceEntry /\ entry.wait \in Nat
  BY SessionAssumption DEF DeviceEntry
<1>b. NoReport \in RazerReport /\ NoCommand \in [by: Owners, frame: Frame]
  BY NothingType
<1>1. ASSUME NEW c \in Calls, CallUnsupported(c) PROVE TypeOK'
  BY <1>1, <1>b DEF CallUnsupported, NewCall, Return, Failed, Result, fixed, device,
     Policies, Owners, ResultKinds, MAX_ATTEMPTS
<1>2. ASSUME NEW c \in Calls, CallUnencodable(c) PROVE TypeOK'
  <2>1. result'.kind = "Proto" /\ result'.by = "none" /\ result'.response = NoReport
    BY <1>2 DEF CallUnencodable, Return, Failed, Result
  <2>2. pc' = "idle" /\ UNCHANGED <<request, attempt, last_attempts>> /\ NewCall(c, "transact")
    BY <1>2 DEF CallUnencodable, Return
  <2> QED BY <1>b, <2>1, <2>2 DEF NewCall, fixed, device, Policies, Owners, ResultKinds,
     MAX_ATTEMPTS
<1>3. ASSUME NEW c \in Calls, Call(c) PROVE TypeOK'
  <2>1. request_of(entry, c) \in RazerReport
    BY <1>3, <1>a, RequestType, SessionAssumption DEF Call
  <2> QED BY <1>3, <1>b, <2>1 DEF Call, NewCall, BeginTransact, Failed, Result, fixed, device,
     Policies, Owners, ResultKinds, MAX_ATTEMPTS
<1>4. ASSUME NEW rc \in RawCalls, CallRaw(rc) PROVE TypeOK'
  <2>1. rc.request \in RazerReport /\ rc.policy \in Policies
    BY SessionAssumption
  <2> QED BY <1>4, <1>b, <2>1 DEF CallRaw, NewCall, BeginTransact, Failed, Result, fixed,
     device, Owners, ResultKinds, MAX_ATTEMPTS
<1>5. CASE SendMalformed
  BY <1>5, <1>b DEF SendMalformed, Return, Failed, Result, fixed, device, history, Owners,
     ResultKinds
<1>6. CASE SetFeatureOk
  <2>1. Stamped(request) \in Frame /\ Aged(reply) \in [by: Owners \ {"none"}, frame: Frame]
    BY StampedType, AgedType
  <2> QED BY <1>6, <2>1 DEF SetFeatureOk, SetFeature, Deliver, Slot, fixed, Owners
<1>7. CASE SetFeatureError
  <2>1. /\ Stamped(request) \in Frame /\ Aged(reply) \in [by: Owners \ {"none"}, frame: Frame]
        /\ Aged(command) \in [by: Owners, frame: Frame]
    BY StampedType, AgedType
  <2> QED BY <1>7, <1>b, <2>1 DEF SetFeatureError, SetFeature, Deliver, Return, Failed, Result,
     Slot, fixed, Owners, ResultKinds
<1>8. CASE Wait
  BY <1>8, <1>a, <1>b DEF Wait, Return, Result, fixed, device, Owners, ResultKinds
<1>9. CASE GetFeatureError
  BY <1>9, <1>b DEF GetFeatureError, GetFeature, Return, Failed, Result, fixed, device,
     Owners, ResultKinds
<1>10. CASE GetFeatureShort
  BY <1>10, <1>b DEF GetFeatureShort, GetFeature, Return, Failed, Result, fixed, device,
     Owners, ResultKinds
<1>c. Response \in RazerReport /\ Response.transaction_id \in Byte
  <2>1. Response \in RazerReport
    BY FromBytesType DEF Response
  <2> QED BY <2>1 DEF RazerReport
<1>11. CASE GetRaw
  BY <1>11, <1>c DEF GetRaw, GetFeature, Return, Result, fixed, device, ResultKinds
<1>12. CASE Accept
  BY <1>12, <1>c DEF Accept, GetFeature, Return, Result, fixed, device, ResultKinds
<1>13. CASE Reject
  BY <1>13, <1>b, <1>c DEF Reject, GetFeature, Return, Failed, Result, fixed, device, Owners,
     ResultKinds, Progress, MAX_ATTEMPTS
<1>14. CASE Retry
  BY <1>14 DEF Retry, fixed, device, Progress, MAX_ATTEMPTS, RETRY_DELAY
<1>15. CASE Answer
  <2>1. PICK b \in AnswerBytes, t \in {command.frame.transaction_id} \cup OddTids,
             size \in {command.frame.data_size} \cup OddSizes :
          /\ reply' = Slot(command.by,
               [command.frame EXCEPT !.status = b, !.data_size = size, !.transaction_id = t,
                 !.arguments = IF b = SUCCESSFUL THEN Payload(entry, command.frame, settings)
                               ELSE @])
          /\ \/ settings' = Applied(entry, command.frame, settings)
             \/ UNCHANGED settings
    BY <1>15 DEF Answer
  <2>2. b \in Byte /\ t \in Byte /\ size \in Byte
    BY SessionAssumption DEF Frame
  <2>3. Payload(entry, command.frame, settings) \in [ArgSlots -> Byte]
    BY <1>a, PayloadType
  <2>4. settings' \in DeviceSettings
    BY <2>1, <1>a, AppliedType
  <2>5. reply' \in [by: Owners \ {"none"}, frame: Frame]
    BY <1>15, <2>1, <2>2, <2>3 DEF Answer, Slot, Frame
  <2> QED BY <1>15, <1>b, <2>4, <2>5 DEF Answer, fixed, host, history
<1>16. CASE ForeignSet
  BY <1>16, SessionAssumption DEF ForeignSet, fixed, host, history, Slot, Owners
<1>17. CASE Unplug
  BY <1>17, <1>b DEF Unplug, fixed, host, history
<1>18. CASE UNCHANGED vars
  BY <1>18 DEF vars, fixed, host, device, history
<1> QED BY <1>1, <1>2, <1>3, <1>4, <1>5, <1>6, <1>7, <1>8, <1>9, <1>10, <1>11, <1>12, <1>13,
           <1>14, <1>15, <1>16, <1>17, <1>18 DEF Next, Caller, Host, Environment

-----------------------------------------------------------------------------
(* The bookkeeping of a call.                                               *)

(* The device, the second host and the cable touch nothing of the host's.   *)
LEMMA EnvironmentFrame ==
  ASSUME Environment \/ UNCHANGED vars
  PROVE  /\ UNCHANGED <<entry, tid, pc, call, policy, request, attempt>>
         /\ UNCHANGED <<last_attempts, last_rtid, result, sent, rejected, since>>
<1>1. UNCHANGED <<fixed, host, history>>
  BY DEF Environment, Answer, ForeignSet, Unplug, vars
<1> QED BY <1>1 DEF fixed, host, history

(* The facts a step of the loop changes about the counters.                 *)
LEMMA ProgressStep == TypeOK /\ Progress /\ [Next]_vars => Progress'
<1> SUFFICES ASSUME TypeOK, Progress, [Next]_vars PROVE Progress'
  OBVIOUS
<1> USE DEF Progress, MAX_ATTEMPTS
<1>a. /\ sent \in Seq(Frame) /\ Len(sent) \in Nat /\ attempt \in 0..4 /\ rejected \in 0..5
      /\ policy \in Policies
  BY DEF TypeOK
<1>1. ASSUME NEW c \in Calls, CallUnsupported(c) \/ CallUnencodable(c) PROVE Progress'
  BY <1>1 DEF CallUnsupported, CallUnencodable, NewCall, Return
<1>2. ASSUME NEW c \in Calls, Call(c) PROVE Progress'
  BY <1>2 DEF Call, NewCall, BeginTransact
<1>3. ASSUME NEW rc \in RawCalls, CallRaw(rc) PROVE Progress'
  BY <1>3 DEF CallRaw, NewCall, BeginTransact
<1>4. CASE SendMalformed
  BY <1>4 DEF SendMalformed, Return, history
<1>5. CASE SetFeatureOk \/ SetFeatureError
  <2>1. /\ Len(sent') = Len(sent) + 1 /\ pc = "send" /\ pc' \in {"wait", "idle"}
        /\ UNCHANGED <<rejected, policy, attempt, last_attempts>>
    BY <1>5, <1>a, StampedType DEF SetFeatureOk, SetFeatureError, SetFeature, Return
  <2> QED BY <2>1, <1>a
<1>6. CASE Wait
  BY <1>6 DEF Wait, Return
<1>7. CASE GetFeatureError \/ GetFeatureShort \/ GetRaw \/ Accept
  BY <1>7 DEF GetFeatureError, GetFeatureShort, GetRaw, Accept, GetFeature, Return
<1>8. CASE Reject
  BY <1>8, <1>a DEF Reject, GetFeature, Return
<1>9. CASE Retry
  BY <1>9, <1>a DEF Retry
<1>10. CASE Environment \/ UNCHANGED vars
  BY <1>10, EnvironmentFrame
<1> QED BY <1>1, <1>2, <1>3, <1>4, <1>5, <1>6, <1>7, <1>8, <1>9, <1>10
        DEF Next, Caller, Host

(* Nothing goes out that the guards did not let through.                    *)
LEMMA JustifiedStep == TypeOK /\ Progress /\ Justified /\ [Next]_vars => Justified'
<1> SUFFICES ASSUME TypeOK, Progress, Justified, [Next]_vars PROVE Justified'
  OBVIOUS
<1>a. sent \in Seq(Frame) /\ Len(sent) \in Nat
  BY DEF TypeOK
<1>b. (tid' = tid /\ request' = request) => Stamped(request)' = Stamped(request)
  BY DEF Stamped
<1>1. ASSUME NEW c \in Calls,
             CallUnsupported(c) \/ CallUnencodable(c) \/ Call(c)
      PROVE  Justified'
  <2>1. sent' = <<>> /\ entry' = entry /\ call' = c /\ (pc' # "idle" => require(entry, c))
    BY <1>1 DEF CallUnsupported, CallUnencodable, Call, NewCall, Return, fixed
  <2> QED BY <2>1 DEF Justified, require
<1>2. ASSUME NEW rc \in RawCalls, CallRaw(rc) PROVE Justified'
  BY <1>2 DEF CallRaw, NewCall, Justified
<1>3. CASE SetFeatureOk \/ SetFeatureError
  <2>1. /\ sent' = Append(sent, Stamped(request)) /\ pc # "idle"
        /\ check_request(request) = NoError
        /\ UNCHANGED <<entry, tid, call, request>>
    BY <1>3 DEF SetFeatureOk, SetFeatureError, SetFeature, fixed
  <2>2. Stamped(request)' = Stamped(request)
    BY <2>1, <1>b
  <2>3. \A i \in 1..Len(sent') : sent'[i] = Stamped(request)
    BY <2>1, <1>a, StampedType DEF Justified
  <2> QED BY <2>1, <2>2, <2>3 DEF Justified, require
<1>4. CASE \/ SendMalformed \/ Wait \/ GetFeatureError \/ GetFeatureShort \/ GetRaw
           \/ Accept \/ Reject \/ Retry \/ Environment \/ UNCHANGED vars
  <2>1. /\ UNCHANGED <<entry, tid, call, request, sent>>
        /\ pc = "idle" => pc' = "idle"
    BY <1>4 DEF SendMalformed, Wait, GetFeatureError, GetFeatureShort, GetRaw, Accept, Reject,
       Retry, GetFeature, Environment, Answer, ForeignSet, Unplug, vars, host, history, fixed
  <2>2. Stamped(request)' = Stamped(request)
    BY <2>1, <1>b
  <2> QED BY <2>1, <2>2 DEF Justified, require
<1> QED BY <1>1, <1>2, <1>3, <1>4 DEF Next, Caller, Host

(* The sleeps add up.                                                       *)
LEMMA SpacingStep == TypeOK /\ Progress /\ Spacing /\ [Next]_vars => Spacing'
<1> SUFFICES ASSUME TypeOK, Progress, Spacing, [Next]_vars PROVE Spacing'
  OBVIOUS
<1>a. since \in Nat /\ entry.wait \in Nat /\ sent \in Seq(Frame) /\ Len(sent) \in Nat
  <2>1. entry \in DeviceEntry
    BY SessionAssumption DEF TypeOK
  <2> QED BY <2>1 DEF TypeOK, DeviceEntry
<1> USE DEF Spacing, RETRY_DELAY
<1>1. CASE Caller
  <2>1. ASSUME NEW c \in Calls, CallUnsupported(c) \/ CallUnencodable(c) \/ Call(c)
        PROVE  sent' = <<>> /\ pc' \in {"idle", "send"}
    <3>1. NewCall(c, "transact") /\ pc' \in {"idle", "send"}
      BY <2>1 DEF CallUnsupported, CallUnencodable, Call, BeginTransact, Return
    <3> QED BY <3>1 DEF NewCall
  <2>2. ASSUME NEW rc \in RawCalls, CallRaw(rc)
        PROVE  sent' = <<>> /\ pc' \in {"idle", "send"}
    BY <2>2 DEF CallRaw, NewCall, BeginTransact
  <2> QED BY <1>1, <2>1, <2>2 DEF Caller
<1>2. CASE SetFeatureOk \/ SetFeatureError
  BY <1>2 DEF SetFeatureOk, SetFeatureError, SetFeature, Return, fixed
<1>3. CASE Wait
  BY <1>3, <1>a DEF Wait, Return, fixed
<1>4. CASE Retry
  BY <1>4, <1>a DEF Retry, fixed
<1>5. CASE \/ SendMalformed \/ GetFeatureError \/ GetFeatureShort \/ GetRaw
           \/ Accept \/ Reject
  BY <1>5 DEF SendMalformed, GetFeatureError, GetFeatureShort, GetRaw, Accept, Reject,
     GetFeature, Return, fixed, history
<1>6. CASE Environment \/ UNCHANGED vars
  BY <1>6, EnvironmentFrame
<1> QED BY <1>1, <1>2, <1>3, <1>4, <1>5, <1>6 DEF Next, Host

(* Only a device's status makes a call idle (is_receiver_idle).             *)
LEMMA IdleExhausted ==
  \A r : is_receiver_idle(r) =>
           r.kind = "RetriesExhausted" \/ (r.kind = "Proto" /\ r.err.kind = "DeviceStatus")
BY DEF is_receiver_idle, terminal_status

(* A reply that cannot be read is malformed, whoever reads it.              *)
LEMMA ParseErrors ==
  \A e, c, r : parse_reply(e, c, r).err.kind \in {"none", "Malformed"}
<1>1. \A v : Parsed(v).err.kind = "none"
  BY DEF Parsed, NoError, ProtoError
<1>2. \A i : Unparsed(i).err.kind = "Malformed"
  BY DEF Unparsed, ProtoError
<1> SUFFICES ASSUME NEW e, NEW c, NEW r
             PROVE  parse_reply(e, c, r).err.kind \in {"none", "Malformed"}
  OBVIOUS
<1>3. parse_serial(r).err.kind \in {"none", "Malformed"}
  BY <1>1, <1>2 DEF parse_serial
<1>4. /\ parse_device_mode(r).err.kind = "none" /\ parse_firmware_version(r).err.kind = "none"
      /\ parse_brightness(r).err.kind = "none"
  BY <1>1 DEF parse_device_mode, parse_firmware_version, parse_brightness
<1>5. parse_poll_rate_v2(r).err.kind \in {"none", "Malformed"}
  BY <1>1, <1>2 DEF parse_poll_rate_v2
<1>6. parse_poll_rate_legacy(r).err.kind \in {"none", "Malformed"}
  BY <1>1, <1>2 DEF parse_poll_rate_legacy
<1> QED BY <1>1, <1>3, <1>4, <1>5, <1>6 DEF parse_reply

(* What a finished call leaves behind.                                      *)
LEMMA AccountingStep ==
  TypeOK /\ Progress /\ Justified /\ AttemptAccounting /\ [Next]_vars => AttemptAccounting'
<1> SUFFICES ASSUME TypeOK, Progress, Justified, AttemptAccounting, [Next]_vars
             PROVE  AttemptAccounting'
  OBVIOUS
<1> USE DEF MAX_ATTEMPTS
<1>a. /\ sent \in Seq(Frame) /\ Len(sent) \in Nat /\ attempt \in 0..4 /\ rejected \in 0..5
      /\ policy \in Policies
  BY DEF TypeOK
<1>1. ASSUME NEW c \in Calls, CallUnsupported(c) \/ CallUnencodable(c)
      PROVE  AttemptAccounting'
  <2>1. /\ NewCall(c, "transact") /\ pc' = "idle"
        /\ result'.kind \in {"Unsupported", "Proto"}
        /\ result'.kind = "Proto" => result'.err.kind = "Malformed"
    BY <1>1 DEF CallUnsupported, CallUnencodable, Return, Failed, Result, ProtoError
  <2>2. sent' = <<>> /\ rejected' = 0 /\ policy' = "transact"
    BY <2>1 DEF NewCall
  <2> QED BY <2>1, <2>2, IdleExhausted DEF AttemptAccounting
<1>2. ASSUME NEW c \in Calls, Call(c) PROVE AttemptAccounting'
  BY <1>2 DEF Call, NewCall, BeginTransact, AttemptAccounting
<1>3. ASSUME NEW rc \in RawCalls, CallRaw(rc) PROVE AttemptAccounting'
  BY <1>3 DEF CallRaw, NewCall, BeginTransact, AttemptAccounting
<1>4. CASE SendMalformed
  <2>1. /\ pc = "send" /\ result'.kind = "Proto" /\ check_request(request) # NoError
        /\ UNCHANGED <<sent, rejected, policy, last_attempts>>
    BY <1>4 DEF SendMalformed, Return, Failed, Result, history
  <2>2. Len(sent) = 0
    BY <2>1, <1>a DEF Justified
  <2>3. rejected = 0
    BY <2>1, <2>2, <1>a DEF Progress
  <2>4. result'.err.kind # "DeviceStatus"
    BY <1>4 DEF SendMalformed, Return, Failed, Result, check_request, ProtoError, NoError
  <2> QED BY <2>1, <2>2, <2>3, <2>4, IdleExhausted DEF AttemptAccounting
<1>5. CASE SetFeatureOk \/ SetFeatureError
  <2>1. /\ Len(sent') = Len(sent) + 1 /\ pc = "send"
        /\ pc' = "wait" \/ (pc' = "idle" /\ result'.kind = "Io")
        /\ UNCHANGED <<rejected, policy, attempt, last_attempts>>
    BY <1>5, <1>a, StampedType
       DEF SetFeatureOk, SetFeatureError, SetFeature, Return, Failed, Result
  <2>2. /\ Len(sent') = rejected' + 1 /\ Len(sent') <= 5 /\ Len(sent') > 0
        /\ policy' = "transact" => last_attempts' = Len(sent')
        /\ policy' # "transact" => Len(sent') <= 1
    <3>1. CASE policy = "transact"
      <4>1. Len(sent) = attempt /\ rejected = attempt /\ last_attempts = attempt + 1
        BY <2>1, <3>1 DEF Progress
      <4> QED BY <4>1, <2>1, <3>1, <1>a
    <3>2. CASE policy # "transact"
      <4>1. Len(sent) = 0 /\ rejected = 0
        BY <2>1, <3>2 DEF Progress
      <4> QED BY <4>1, <2>1, <3>2
    <3> QED BY <3>1, <3>2
  <2> QED BY <2>1, <2>2, IdleExhausted DEF AttemptAccounting
<1>6. CASE Wait
  <2>1. /\ pc = "wait"
        /\ pc' = "get" \/ (pc' = "idle" /\ result'.kind = "Ok")
        /\ UNCHANGED <<sent, rejected, policy, attempt, last_attempts>>
    BY <1>6 DEF Wait, Return, Result
  <2>2. /\ Len(sent) = rejected + 1 /\ Len(sent) <= 5 /\ Len(sent) > 0
        /\ policy = "transact" => last_attempts = Len(sent)
        /\ policy # "transact" => Len(sent) <= 1
    <3>1. CASE policy = "transact"
      <4>1. Len(sent) = attempt + 1 /\ rejected = attempt /\ last_attempts = attempt + 1
        BY <2>1, <3>1 DEF Progress
      <4> QED BY <4>1, <3>1, <1>a
    <3>2. CASE policy # "transact"
      <4>1. Len(sent) = 1 /\ rejected = 0
        BY <2>1, <3>2 DEF Progress
      <4> QED BY <4>1, <3>2
    <3> QED BY <3>1, <3>2
  <2> QED BY <2>1, <2>2, IdleExhausted DEF AttemptAccounting
<1>7. CASE GetFeatureError \/ GetFeatureShort \/ GetRaw
  <2>1. /\ pc = "get" /\ pc' = "idle" /\ result'.kind \in {"Io", "ShortRead", "Ok"}
        /\ UNCHANGED <<sent, rejected, policy, attempt, last_attempts>>
    BY <1>7 DEF GetFeatureError, GetFeatureShort, GetRaw, GetFeature, Return, Failed, Result
  <2>2. /\ Len(sent) = rejected + 1 /\ Len(sent) <= 5 /\ Len(sent) > 0
        /\ policy = "transact" => last_attempts = Len(sent)
        /\ policy # "transact" => Len(sent) <= 1
    <3>1. pc = "get"
      BY <2>1
    <3>2. CASE policy = "transact"
      BY <3>1, <3>2, <1>a DEF Progress
    <3>3. CASE policy # "transact"
      BY <3>1, <3>3, <1>a DEF Progress
    <3> QED BY <3>2, <3>3
  <2> QED BY <2>1, <2>2, IdleExhausted DEF AttemptAccounting
<1>8. CASE Accept
  <2>1. /\ pc = "get" /\ pc' = "idle" /\ policy = "transact"
        /\ result'.kind \in {"Ok", "Proto"} /\ result'.by = reply.by
        /\ UNCHANGED <<sent, rejected, policy, attempt, last_attempts>>
    BY <1>8 DEF Accept, GetFeature, Return, Result
  <2>2. reply.by # "none"
    BY DEF TypeOK
  <2>3. /\ Len(sent') = rejected' + 1 /\ Len(sent') <= 5 /\ last_attempts' = Len(sent')
    BY <2>1, <1>a DEF Progress
  <2>4. result'.err = parse_reply(entry, call, Response).err
    BY <1>8 DEF Accept, Return, Result
  <2>5. result'.err.kind # "DeviceStatus"
    BY <2>4, ParseErrors
  <2> QED BY <2>1, <2>2, <2>3, <2>5, IdleExhausted DEF AttemptAccounting
<1>9. CASE Reject
  <2>1. /\ pc = "get" /\ policy = "transact" /\ rejected' = rejected + 1
        /\ \/ pc' = "retry"
           \/ pc' = "idle" /\ attempt + 1 >= 5 /\ result'.kind = "RetriesExhausted"
        /\ UNCHANGED <<sent, policy, attempt, last_attempts>>
    BY <1>9 DEF Reject, GetFeature, Return, Failed, Result
  <2>2. /\ Len(sent') = rejected' /\ Len(sent') <= 5 /\ last_attempts' = Len(sent')
        /\ pc' = "idle" => rejected' = 5
    BY <2>1, <1>a DEF Progress
  <2> QED BY <2>1, <2>2, IdleExhausted DEF AttemptAccounting
<1>10. CASE Retry
  <2>1. pc' = "send" /\ UNCHANGED sent
    BY <1>10 DEF Retry
  <2> QED BY <2>1, IdleExhausted DEF AttemptAccounting
<1>11. CASE Environment \/ UNCHANGED vars
  BY <1>11, EnvironmentFrame DEF AttemptAccounting
<1> QED BY <1>1, <1>2, <1>3, <1>4, <1>5, <1>6, <1>7, <1>8, <1>9, <1>10, <1>11
        DEF Next, Caller, Host

(* An accepted answer stays the answer until the next call.                 *)
LEMMA AcceptedStep ==
  TypeOK /\ AcceptedAnswersRequest /\ [Next]_vars => AcceptedAnswersRequest'
<1> SUFFICES ASSUME TypeOK, AcceptedAnswersRequest, [Next]_vars
             PROVE  AcceptedAnswersRequest'
  OBVIOUS
<1>1. ASSUME NEW c \in Calls, CallUnsupported(c) \/ CallUnencodable(c) \/ Call(c)
      PROVE  AcceptedAnswersRequest'
  <2>1. pc' # "idle" \/ result'.kind # "Ok"
    BY <1>1 DEF CallUnsupported, CallUnencodable, Call, BeginTransact, Return, Failed, Result
  <2> QED BY <2>1 DEF AcceptedAnswersRequest
<1>2. ASSUME NEW rc \in RawCalls, CallRaw(rc) PROVE AcceptedAnswersRequest'
  BY <1>2 DEF CallRaw, BeginTransact, AcceptedAnswersRequest
<1>3. CASE Accept
  <2> DEFINE r == Response
  <2>1. /\ result'.response = r /\ last_rtid' = r.transaction_id
        /\ request' = request /\ check_response(request, r) = NoError
    BY <1>3 DEF Accept, GetFeature, Return, Result
  <2>2. r.status = from_u8(reply.frame.status) /\ reply.frame.status \in Byte
    BY DEF Response, from_bytes, TypeOK, Frame
  <2> HIDE DEF r
  <2>3. /\ r.command_class = request.command_class /\ r.command_id = request.command_id
        /\ r.remaining_packets = request.remaining_packets
        /\ r.data_size <= ARGS_LEN /\ is_ok(r.status)
    BY <2>1 DEF check_response, check_data_size, ProtoError, NoError
  <2>4. r.status.raw \in {SUCCESSFUL, BUSY}
    BY <2>2, <2>3 DEF is_ok, from_u8, StatusNames, SUCCESSFUL, BUSY, Byte
  <2> QED BY <2>1, <2>3, <2>4 DEF AcceptedAnswersRequest
<1>4. CASE \/ SendMalformed \/ SetFeatureOk \/ SetFeatureError \/ Wait \/ GetFeatureError
           \/ GetFeatureShort \/ GetRaw \/ Reject \/ Retry
  <2>1. pc' # "idle" \/ result'.kind # "Ok" \/ policy' # "transact"
    BY <1>4 DEF SendMalformed, SetFeatureOk, SetFeatureError, SetFeature, Wait,
       GetFeatureError, GetFeatureShort, GetRaw, GetFeature, Reject, Retry, Return,
       Failed, Result
  <2> QED BY <2>1 DEF AcceptedAnswersRequest
<1>5. CASE Environment \/ UNCHANGED vars
  BY <1>5, EnvironmentFrame DEF AcceptedAnswersRequest
<1> QED BY <1>1, <1>2, <1>3, <1>4, <1>5 DEF Next, Caller, Host

-----------------------------------------------------------------------------
(* The theorems.                                                            *)

(* IInv is an invariant of every session.                                   *)
THEOREM Inductive == Spec => []IInv
<1>1. Init => IInv
  <2> SUFFICES ASSUME Init PROVE IInv
    OBVIOUS
  <2>1. TypeOK
    BY InitType
  <2>2. /\ pc = "idle" /\ sent = <<>> /\ rejected = 0 /\ policy = "transact"
        /\ result.kind = "none"
    BY DEF Init, Failed, Result
  <2>3. Len(sent) = 0
    BY <2>2
  <2>4. Progress /\ Spacing /\ AttemptAccounting
    BY <2>2, <2>3, IdleExhausted DEF Progress, Spacing, AttemptAccounting, MAX_ATTEMPTS
  <2>5. Justified
    BY <2>2, <2>3 DEF Justified
  <2>6. AcceptedAnswersRequest
    BY <2>2 DEF AcceptedAnswersRequest
  <2> QED BY <2>1, <2>4, <2>5, <2>6 DEF IInv
<1>2. IInv /\ [Next]_vars => IInv'
  BY TypeStep, ProgressStep, JustifiedStep, SpacingStep, AccountingStep, AcceptedStep DEF IInv
<1> QED BY <1>1, <1>2, PTL DEF Spec

(* Type correctness, for every entry, override, caller, device and host.    *)
THEOREM TypeCorrect == Spec => []TypeOK
<1>1. IInv => TypeOK
  BY DEF IInv
<1> QED BY <1>1, Inductive, PTL

(* Session::send never lets a frame out that is not the checked request     *)
(* under the session's own transaction id, to a device with the capability. *)
THEOREM WireDisciplined == Spec => []WireDiscipline
<1>1. IInv => WireDiscipline
  <2> SUFFICES ASSUME IInv, NEW i \in 1..Len(sent)
               PROVE  /\ sent[i] = Stamped(request)
                      /\ sent[i].transaction_id = tid
                      /\ sent[i].data_size <= ARGS_LEN /\ sent[i].protocol_type = 0
                      /\ sent[i].reserved = 0
                      /\ call # RawCall => Capability[call.name] \in entry.capabilities
    BY DEF WireDiscipline
  <2>1. Len(sent) > 0
    <3>1. Len(sent) \in Nat
      BY DEF IInv, TypeOK
    <3> QED BY <3>1
  <2>2. /\ sent[i] = Stamped(request) /\ check_request(request) = NoError
        /\ call # RawCall => require(entry, call)
    BY <2>1 DEF IInv, Justified
  <2>3. /\ request.data_size <= ARGS_LEN /\ request.protocol_type = 0 /\ request.reserved = 0
    BY <2>2 DEF check_request, check_data_size, ProtoError, NoError
  <2>4. request \in RazerReport
    BY DEF IInv, TypeOK
  <2>5. /\ Stamped(request).transaction_id = tid
        /\ Stamped(request).data_size = request.data_size
        /\ Stamped(request).protocol_type = request.protocol_type
        /\ Stamped(request).reserved = request.reserved
    BY <2>4 DEF Stamped, to_bytes, with_transaction_id, RazerReport
  <2>6. require(entry, call) => Capability[call.name] \in entry.capabilities
    BY DEF require, contains
  <2> QED BY <2>2, <2>3, <2>5, <2>6
<1> QED BY <1>1, Inductive, PTL

(* Every SET is paid for by a rejected response, at most five per call.     *)
THEOREM AttemptsAccounted == Spec => []AttemptAccounting
<1>1. IInv => AttemptAccounting
  BY DEF IInv
<1> QED BY <1>1, Inductive, PTL

(* Whatever is in the reply buffer, transact returns Ok only with a reply   *)
(* to the command it sent.                                                  *)
THEOREM AnswersMatch == Spec => []AcceptedAnswersRequest
<1>1. IInv => AcceptedAnswersRequest
  BY DEF IInv
<1> QED BY <1>1, Inductive, PTL

(* Two SETs of one call are at least wait + RETRY_DELAY apart.              *)
THEOREM RetriesSpaced == Spec => RetrySpacing
<1>1. IInv /\ [Next]_vars =>
        [Len(sent') > Len(sent) /\ Len(sent) > 0 => since >= entry.wait + RETRY_DELAY]_vars
  <2> SUFFICES ASSUME IInv, Next, Len(sent') > Len(sent), Len(sent) > 0
               PROVE  since >= entry.wait + RETRY_DELAY
    OBVIOUS
  <2>a. Len(sent) \in Nat
    BY DEF IInv, TypeOK
  <2>1. ASSUME NEW c \in Calls, CallUnsupported(c) \/ CallUnencodable(c) \/ Call(c)
        PROVE  FALSE
    <3>1. NewCall(c, "transact")
      BY <2>1 DEF CallUnsupported, CallUnencodable, Call
    <3> QED BY <3>1, <2>a DEF NewCall
  <2>2. ASSUME NEW rc \in RawCalls, CallRaw(rc) PROVE FALSE
    BY <2>2, <2>a DEF CallRaw, NewCall
  <2>3. CASE \/ SendMalformed \/ Wait \/ GetFeatureError \/ GetFeatureShort \/ GetRaw
             \/ Accept \/ Reject \/ Retry
    <3>1. sent' = sent
      BY <2>3 DEF SendMalformed, Wait, GetFeatureError, GetFeatureShort, GetRaw, Accept,
         Reject, Retry, GetFeature, history
    <3> QED BY <3>1, <2>a
  <2>4. CASE Environment
    BY <2>4, <2>a, EnvironmentFrame
  <2>5. CASE SetFeatureOk \/ SetFeatureError
    BY <2>5 DEF SetFeatureOk, SetFeatureError, SetFeature, IInv, Spacing
  <2> QED BY <2>1, <2>2, <2>3, <2>4, <2>5 DEF Next, Caller, Host
<1> QED BY <1>1, Inductive, PTL DEF Spec, RetrySpacing

-----------------------------------------------------------------------------
(* The refinement: what a call shows its caller is a behaviour of CallSpec. *)

(* A step that leaves alone what the mapping looks at is a stutter.         *)
LEMMA AbstractStutter ==
  ASSUME UNCHANGED <<request, policy, sent, tid>>,
         (pc = "idle") <=> (pc' = "idle"), UNCHANGED Outcome
  PROVE  UNCHANGED Abstract!cvars
<1>1. Stamped(request)' = Stamped(request) /\ Budget(policy)' = Budget(policy)
  BY DEF Stamped, Budget
<1> QED BY <1>1 DEF Abstract!cvars

(* A running call that returns, with an outcome the wire bears out.         *)
LEMMA AbstractReturn ==
  ASSUME UNCHANGED <<request, policy, sent, tid>>, pc # "idle", pc' = "idle",
         Outcome' \in Abstract!Outcomes,
         Abstract!Warranted(Outcome', Len(sent), Budget(policy))
  PROVE  Abstract!Return
<1>1. Stamped(request)' = Stamped(request) /\ Budget(policy)' = Budget(policy)
  BY DEF Stamped, Budget
<1> QED BY <1>1 DEF Abstract!Return

(* A SET, and the frame it puts on the wire.                                *)
LEMMA AbstractDeliver ==
  ASSUME IInv, SetFeature
  PROVE  /\ pc = "send" /\ UNCHANGED <<request, policy, tid>>
         /\ Len(sent) < Budget(policy) /\ sent' = Append(sent, Stamped(request))
         /\ Stamped(request)' = Stamped(request) /\ Budget(policy)' = Budget(policy)
<1>1. /\ pc = "send" /\ UNCHANGED <<request, policy, tid>>
      /\ sent' = Append(sent, Stamped(request))
  BY DEF SetFeature, fixed
<1>2. Len(sent) < Budget(policy)
  BY <1>1 DEF IInv, TypeOK, Progress, Budget, MAX_ATTEMPTS
<1> QED BY <1>1, <1>2 DEF Stamped, Budget

(* A call's beginning, typed or raw.                                        *)
LEMMA AbstractBegin ==
  ASSUME TypeOK', pc = "idle", pc' = "send", sent' = <<>>, result' = Failed("none", NoError)
  PROVE  Abstract!Begin
<1>1. Stamped(request)' \in Frame
  BY StampType, ToBytesType DEF TypeOK, Stamped
<1>2. Budget(policy)' \in {1, MAX_ATTEMPTS}
  BY DEF Budget
<1>3. Outcome' = "none"
  BY DEF Outcome, Failed, Result
<1> QED BY <1>1, <1>2, <1>3 DEF Abstract!Begin

(* Every step of the session is a step of the abstract call or a stutter.   *)
LEMMA AbstractStep == IInv /\ IInv' /\ [Next]_vars => [Abstract!Next]_(Abstract!cvars)
<1> SUFFICES ASSUME IInv, IInv', [Next]_vars
             PROVE  Abstract!Next \/ UNCHANGED Abstract!cvars
  OBVIOUS
<1>a. TypeOK /\ TypeOK' /\ Progress /\ Len(sent) \in Nat
  BY DEF IInv, TypeOK
<1>b. /\ policy # "transact" => Budget(policy) = 1
      /\ policy = "transact" => Budget(policy) = 5
  BY DEF Budget, MAX_ATTEMPTS
<1>1. ASSUME NEW c \in Calls, CallUnsupported(c) \/ CallUnencodable(c)
      PROVE  Abstract!Next
  <2>1. /\ pc = "idle" /\ pc' = "idle" /\ policy' = "transact" /\ sent' = <<>>
        /\ UNCHANGED <<request, tid>>
        /\ result'.kind \in {"Unsupported", "Proto"} /\ result'.by = "none"
    BY <1>1 DEF CallUnsupported, CallUnencodable, NewCall, Return, Failed, Result, fixed
  <2>2. Stamped(request)' = Stamped(request) /\ Budget(policy)' \in {1, MAX_ATTEMPTS}
    BY <2>1 DEF Stamped, Budget
  <2>3. Outcome' = "refused"
    BY <2>1 DEF Outcome
  <2> QED BY <2>1, <2>2, <2>3 DEF Abstract!Next, Abstract!Refuse
<1>2. ASSUME NEW c \in Calls, Call(c) PROVE Abstract!Next
  <2>1. /\ pc = "idle" /\ pc' = "send" /\ sent' = <<>> /\ result' = Failed("none", NoError)
    BY <1>2 DEF Call, NewCall, BeginTransact
  <2> QED BY <2>1, <1>a, AbstractBegin DEF Abstract!Next
<1>3. ASSUME NEW rc \in RawCalls, CallRaw(rc) PROVE Abstract!Next
  <2>1. /\ pc = "idle" /\ pc' = "send" /\ sent' = <<>> /\ result' = Failed("none", NoError)
    BY <1>3 DEF CallRaw, NewCall, BeginTransact
  <2> QED BY <2>1, <1>a, AbstractBegin DEF Abstract!Next
<1>4. CASE SendMalformed
  <2>1. /\ pc = "send" /\ pc' = "idle" /\ check_request(request) # NoError
        /\ result'.kind = "Proto" /\ result'.by = "none"
        /\ UNCHANGED <<request, policy, sent, tid>>
    BY <1>4 DEF SendMalformed, Return, Failed, Result, history, fixed
  <2>2. Len(sent) = 0
    BY <2>1, <1>a DEF IInv, Justified
  <2>3. Outcome' = "refused"
    BY <2>1 DEF Outcome
  <2>4. /\ Outcome' \in Abstract!Outcomes
        /\ Abstract!Warranted(Outcome', Len(sent), Budget(policy))
    BY <2>2, <2>3 DEF Abstract!Outcomes, Abstract!Warranted
  <2> QED BY <2>1, <2>4, AbstractReturn DEF Abstract!Next
<1>5. CASE SetFeatureOk
  <2>1. SetFeature /\ pc' = "wait" /\ UNCHANGED result
    BY <1>5 DEF SetFeatureOk
  <2>2. UNCHANGED Outcome
    BY <2>1 DEF Outcome
  <2> QED BY <2>1, <2>2, AbstractDeliver DEF Abstract!Next, Abstract!Deliver
<1>6. CASE SetFeatureError
  <2>1. SetFeature /\ pc' = "idle" /\ result'.kind = "Io"
    BY <1>6 DEF SetFeatureError, Return, Failed, Result
  <2>2. Outcome' = "faulted"
    BY <2>1 DEF Outcome
  <2> QED BY <2>1, <2>2, AbstractDeliver DEF Abstract!Next, Abstract!DeliverAndFault
<1>7. CASE Wait
  <2>1. /\ pc = "wait" /\ UNCHANGED <<request, policy, sent, tid>>
        /\ \/ policy = "send" /\ pc' = "idle" /\ result'.kind = "Ok"
           \/ pc' = "get" /\ UNCHANGED result
    BY <1>7 DEF Wait, Return, Result, fixed
  <2>2. CASE pc' = "get"
    <3>1. UNCHANGED Outcome
      BY <2>1, <2>2 DEF Outcome
    <3> QED BY <2>1, <2>2, <3>1, AbstractStutter
  <2>3. CASE pc' = "idle"
    <3>1. Outcome' = "answered"
      BY <2>1, <2>3 DEF Outcome
    <3>2. Len(sent) = 1 /\ Budget(policy) = 1
      <4>1. pc = "wait" /\ policy = "send"
        BY <2>1, <2>3
      <4>2. Budget(policy) = 1
        BY <4>1, <1>b
      <4> QED BY <4>1, <4>2, <1>a DEF Progress
    <3>3. /\ Outcome' \in Abstract!Outcomes
          /\ Abstract!Warranted(Outcome', Len(sent), Budget(policy))
      BY <3>1, <3>2 DEF Abstract!Outcomes, Abstract!Warranted
    <3> QED BY <2>1, <2>3, <3>3, AbstractReturn DEF Abstract!Next
  <2> QED BY <2>1, <2>2, <2>3
<1>8. CASE GetFeatureError \/ GetFeatureShort \/ GetRaw \/ Accept
  <2>1. /\ pc = "get" /\ pc' = "idle" /\ UNCHANGED <<request, policy, sent, tid>>
        /\ \/ result'.kind \in {"Io", "ShortRead", "Ok"}
           \/ result'.kind = "Proto" /\ result'.by = reply.by
    BY <1>8 DEF GetFeatureError, GetFeatureShort, GetRaw, Accept, GetFeature, Return,
       Failed, Result, fixed
  <2>2. reply.by # "none"
    BY <1>a DEF TypeOK
  <2>3. Outcome' \in {"answered", "unreadable", "faulted"}
    BY <2>1, <2>2 DEF Outcome
  <2>4. Len(sent) \in 1..Budget(policy)
    <3>1. attempt \in 0..4 /\ pc = "get"
      BY <2>1, <1>a DEF TypeOK, MAX_ATTEMPTS
    <3>2. CASE policy = "transact"
      <4>1. Len(sent) = attempt + 1
        BY <3>1, <3>2, <1>a DEF Progress
      <4> QED BY <4>1, <3>1, <3>2, <1>b
    <3>3. CASE policy # "transact"
      <4>1. Len(sent) = 1
        BY <3>1, <3>3, <1>a DEF Progress
      <4> QED BY <4>1, <3>3, <1>b
    <3> QED BY <3>2, <3>3
  <2>5. /\ Outcome' \in Abstract!Outcomes
        /\ Abstract!Warranted(Outcome', Len(sent), Budget(policy))
    BY <2>3, <2>4 DEF Abstract!Outcomes, Abstract!Warranted
  <2> QED BY <2>1, <2>5, AbstractReturn DEF Abstract!Next
<1>9. CASE Reject
  <2>1. /\ pc = "get" /\ policy = "transact" /\ UNCHANGED <<request, policy, sent, tid>>
        /\ \/ pc' = "retry" /\ UNCHANGED result
           \/ /\ pc' = "idle" /\ attempt + 1 >= 5 /\ result'.kind = "RetriesExhausted"
    BY <1>9 DEF Reject, GetFeature, Return, Failed, Result, fixed, MAX_ATTEMPTS
  <2>2. CASE pc' = "retry"
    <3>1. UNCHANGED Outcome
      BY <2>1, <2>2 DEF Outcome
    <3> QED BY <2>1, <2>2, <3>1, AbstractStutter
  <2>3. CASE pc' = "idle"
    <3>1. Outcome' = "exhausted"
      BY <2>1, <2>3 DEF Outcome
    <3>2. Len(sent) = Budget(policy)
      BY <2>1, <2>3, <1>a, <1>b DEF Progress, TypeOK, MAX_ATTEMPTS
    <3>3. /\ Outcome' \in Abstract!Outcomes
          /\ Abstract!Warranted(Outcome', Len(sent), Budget(policy))
      BY <3>1, <3>2 DEF Abstract!Outcomes, Abstract!Warranted
    <3> QED BY <2>1, <2>3, <3>3, AbstractReturn DEF Abstract!Next
  <2> QED BY <2>1, <2>2, <2>3
<1>10. CASE Retry
  <2>1. /\ pc = "retry" /\ pc' = "send"
        /\ UNCHANGED <<request, policy, sent, tid, result>>
    BY <1>10 DEF Retry, fixed
  <2>2. UNCHANGED Outcome
    BY <2>1 DEF Outcome
  <2> QED BY <2>1, <2>2, AbstractStutter
<1>11. CASE Environment \/ UNCHANGED vars
  <2>1. UNCHANGED <<request, policy, sent, tid, pc, result>>
    BY <1>11, EnvironmentFrame DEF fixed, host, history
  <2>2. UNCHANGED Outcome
    BY <2>1 DEF Outcome
  <2> QED BY <2>1, <2>2, AbstractStutter
<1> QED BY <1>1, <1>2, <1>3, <1>4, <1>5, <1>6, <1>7, <1>8, <1>9, <1>10, <1>11
        DEF Next, Caller, Host

(* Session implements CallSpec, for every device, second host and caller: a *)
(* call delivers one unchanging frame within its budget, never after a      *)
(* fault, an answer or a refusal, and the error it returns says what may    *)
(* have reached the device.                                                 *)
THEOREM ContractKept == Spec => KeepsContract
<1>1. Init => Abstract!Init
  <2> SUFFICES ASSUME Init PROVE Abstract!Init
    OBVIOUS
  <2>1. Stamped(request) \in Frame
    BY InitType, StampedType
  <2>2. Budget(policy) \in {1, MAX_ATTEMPTS}
    BY DEF Budget
  <2>3. pc = "idle" /\ sent = <<>> /\ Outcome = "none"
    BY DEF Init, Outcome, Failed, Result
  <2> QED BY <2>1, <2>2, <2>3 DEF Abstract!Init
<1> QED BY <1>1, Inductive, AbstractStep, PTL DEF Spec, KeepsContract, Abstract!Spec
=============================================================================
