----------------------------- MODULE RazerProto -----------------------------
(***************************************************************************)
(* The razer-proto crate: the 90-byte report, its wire form, the command   *)
(* constructors and the acceptance tests.  Pure operators, no state.       *)
(*                                                                         *)
(* A report is a record with the source's field names.  The argument array *)
(* keeps the slots some command writes or some parser reads (0..8, the     *)
(* nine of set_static_effect); slots 9..79 are zero in every command and   *)
(* matter to nobody but the serial, which is the longest run of slots.     *)
(***************************************************************************)
EXTENDS Integers, Sequences

ARGS_LEN == 80
ArgSlots == 0..8
Byte == 0..255
U16 == 0..(256 * 256 - 1)

-----------------------------------------------------------------------------
(* Status: the variant and the byte it stands for (Unknown keeps any byte). *)

StatusNames == <<"Busy", "Successful", "Failure", "Timeout", "NotSupported">>
Status == [name: {"New", "Unknown"} \cup {StatusNames[i] : i \in 1..5}, raw: Byte]

from_u8(v) ==
  [name |-> IF v = 0 THEN "New" ELSE IF v \in 1..5 THEN StatusNames[v] ELSE "Unknown",
   raw  |-> v]
to_u8(status) == status.raw
is_ok(status) == status.name \in {"Successful", "Busy"}

New == from_u8(0)
BUSY == 1
SUCCESSFUL == 2
FAILURE == 3
TIMEOUT == 4
NOT_SUPPORTED == 5

-----------------------------------------------------------------------------
(* RazerReport *)

RazerReport ==
  [status: Status, transaction_id: Byte, remaining_packets: U16,
   protocol_type: Byte, data_size: Byte, command_class: Byte, command_id: Byte,
   arguments: [ArgSlots -> Byte], crc: Byte, reserved: Byte]

NewReport(command_class, command_id, data_size) ==
  [status |-> New, transaction_id |-> 0, remaining_packets |-> 0,
   protocol_type |-> 0, data_size |-> data_size,
   command_class |-> command_class, command_id |-> command_id,
   arguments |-> [i \in ArgSlots |-> 0], crc |-> 0, reserved |-> 0]

with_args(report, args) ==
  [report EXCEPT !.arguments =
     [i \in ArgSlots |-> IF i < Len(args) THEN args[i + 1] ELSE report.arguments[i]]]

with_transaction_id(report, tid) == [report EXCEPT !.transaction_id = tid]

(***************************************************************************)
(* The wire form.  remaining_packets is two big-endian bytes; byte 88 is   *)
(* the XOR of bytes 2..=87, so it covers neither the status (0), nor the   *)
(* transaction id (1), nor the reserved byte (89).                         *)
(***************************************************************************)
XorNibble ==
  [a \in 0..15 |-> [b \in 0..15 |->
     LET bit(w) == IF (a \div w) % 2 = (b \div w) % 2 THEN 0 ELSE w
     IN  bit(1) + bit(2) + bit(4) + bit(8)]]

XorNibbles(p, q, r, s) == XorNibble[XorNibble[p][q]][XorNibble[r][s]]

crc(wire) ==
  LET a == wire.arguments
      nibble(w) ==
        LET n(b) == (b \div w) % 16
        IN  XorNibbles(
              XorNibbles(n(wire.remaining_hi), n(wire.remaining_lo),
                         n(wire.protocol_type), n(wire.data_size)),
              XorNibbles(n(wire.command_class), n(wire.command_id), n(a[0]), n(a[1])),
              XorNibbles(n(a[2]), n(a[3]), n(a[4]), n(a[5])),
              XorNibbles(n(a[6]), n(a[7]), n(a[8]), 0))
  IN  16 * nibble(16) + nibble(1)

to_bytes(report) ==
  LET wire == [status |-> to_u8(report.status),
               transaction_id |-> report.transaction_id,
               remaining_hi |-> report.remaining_packets \div 256,
               remaining_lo |-> report.remaining_packets % 256,
               protocol_type |-> report.protocol_type,
               data_size |-> report.data_size,
               command_class |-> report.command_class,
               command_id |-> report.command_id,
               arguments |-> report.arguments,
               crc |-> 0,
               reserved |-> report.reserved]
  IN  [wire EXCEPT !.crc = crc(wire)]

from_bytes(wire) ==
  [status |-> from_u8(wire.status),
   transaction_id |-> wire.transaction_id,
   remaining_packets |-> 256 * wire.remaining_hi + wire.remaining_lo,
   protocol_type |-> wire.protocol_type,
   data_size |-> wire.data_size,
   command_class |-> wire.command_class,
   command_id |-> wire.command_id,
   arguments |-> wire.arguments,
   crc |-> wire.crc,
   reserved |-> wire.reserved]

Frame ==
  [status: Byte, transaction_id: Byte, remaining_hi: Byte, remaining_lo: Byte,
   protocol_type: Byte, data_size: Byte, command_class: Byte, command_id: Byte,
   arguments: [ArgSlots -> Byte], crc: Byte, reserved: Byte]

-----------------------------------------------------------------------------
(* Polling rates, in hertz, and their two encodings.                        *)

PollRate == {125, 250, 500, 1000, 2000, 4000, 8000}
legacy_code ==
  [rate \in {1000, 500, 125} |-> CASE rate = 1000 -> 1 [] rate = 500 -> 2 [] rate = 125 -> 8]
from_legacy_code ==
  [code \in {1, 2, 8} |-> CASE code = 1 -> 1000 [] code = 2 -> 500 [] code = 8 -> 125]
v2_code ==
  [rate \in PollRate |->
     CASE rate = 8000 -> 1 [] rate = 4000 -> 2 [] rate = 2000 -> 4 [] rate = 1000 -> 8
       [] rate = 500 -> 16 [] rate = 250 -> 32 [] rate = 125 -> 64]
from_v2_code ==
  [code \in {1, 2, 4, 8, 16, 32, 64} |->
     CASE code = 1 -> 8000 [] code = 2 -> 4000 [] code = 4 -> 2000 [] code = 8 -> 1000
       [] code = 16 -> 500 [] code = 32 -> 250 [] code = 64 -> 125]

-----------------------------------------------------------------------------
(* cmd.rs: every constructor leaves byte 1 (the transaction id) at zero.    *)

VarStore == 1
DeviceMode == {0, 3}

cmd_set_device_mode(mode) == with_args(NewReport(0, 4, 2), <<mode, 0>>)
cmd_get_device_mode == NewReport(0, 132, 2)
cmd_get_firmware_version == NewReport(0, 129, 2)
cmd_get_serial == NewReport(0, 130, 22)
cmd_set_brightness(storage, led, brightness) ==
  with_args(NewReport(15, 4, 3), <<storage, led, brightness>>)
cmd_get_brightness(storage, led) == with_args(NewReport(15, 132, 3), <<storage, led>>)
cmd_set_static_effect(storage, led, rgb) ==
  with_args(NewReport(15, 2, 9),
            <<storage, led, 1, 0, 0, 1, rgb[1], rgb[2], rgb[3]>>)
cmd_set_effect_none(storage, led) == with_args(NewReport(15, 2, 6), <<storage, led, 0>>)
cmd_set_poll_rate_legacy(rate) == with_args(NewReport(0, 5, 1), <<legacy_code[rate]>>)
cmd_get_poll_rate_legacy == NewReport(0, 133, 1)
cmd_set_poll_rate_v2(rate, argument) ==
  with_args(NewReport(0, 64, 2), <<argument, v2_code[rate]>>)
cmd_get_poll_rate_v2 == NewReport(0, 192, 1)

-----------------------------------------------------------------------------
(* ProtoError: the variant and the detail a caller can tell apart.          *)

ProtoError(kind, info) == [kind |-> kind, info |-> info]
NoError == ProtoError("none", "none")

check_data_size(report) == report.data_size <= ARGS_LEN

check_request(request) ==
  IF ~check_data_size(request) THEN ProtoError("DataSizeTooLarge", "data_size")
  ELSE IF request.protocol_type # 0 THEN ProtoError("Malformed", "protocol_type")
  ELSE IF request.reserved # 0 THEN ProtoError("Malformed", "reserved")
  ELSE NoError

(* Mutant: the echo of command_id is not compared.                          *)
check_response_any_id(request, response) ==
  IF ~check_data_size(request) \/ ~check_data_size(response)
    THEN ProtoError("DataSizeTooLarge", "data_size")
  ELSE IF response.command_class # request.command_class
    THEN ProtoError("ResponseMismatch", "command_class")
  ELSE IF is_ok(response.status) THEN NoError
  ELSE ProtoError("DeviceStatus", response.status.name)

check_response(request, response) ==
  IF ~check_data_size(request) \/ ~check_data_size(response)
    THEN ProtoError("DataSizeTooLarge", "data_size")
  ELSE IF response.remaining_packets # request.remaining_packets
    THEN ProtoError("ResponseMismatch", "remaining_packets")
  ELSE IF response.command_class # request.command_class
    THEN ProtoError("ResponseMismatch", "command_class")
  ELSE IF response.command_id # request.command_id
    THEN ProtoError("ResponseMismatch", "command_id")
  ELSE IF is_ok(response.status) THEN NoError
  ELSE ProtoError("DeviceStatus", response.status.name)

-----------------------------------------------------------------------------
(* parse.rs: one reader per payload, each with the value and its error.     *)

Parsed(value) == [err |-> NoError, value |-> value]
Unparsed(info) == [err |-> ProtoError("Malformed", info), value |-> <<>>]

parse_firmware_version(response) == Parsed(<<response.arguments[0], response.arguments[1]>>)
parse_device_mode(response) == Parsed(<<response.arguments[0], response.arguments[1]>>)
(* Mutant: the brightness is looked for in the slot of the other readers.   *)
parse_brightness_slot0(response) == Parsed(<<response.arguments[0]>>)
parse_brightness(response) == Parsed(<<response.arguments[2]>>)

parse_poll_rate_legacy(response) ==
  LET code == response.arguments[0]
  IN  IF code \in DOMAIN from_legacy_code THEN Parsed(<<from_legacy_code[code]>>)
      ELSE Unparsed("legacy_poll_rate")

parse_poll_rate_v2(response) ==
  LET code == response.arguments[1]
  IN  IF code \in DOMAIN from_v2_code THEN Parsed(<<from_v2_code[code]>>)
      ELSE Unparsed("v2_poll_rate")

(* ASCII bytes up to the first NUL, without trailing white space.           *)
Space == {9, 10, 11, 12, 13, 32}
parse_serial(response) ==
  LET raw == [k \in 1..9 |-> response.arguments[k - 1]]
      text(n) == \A k \in 1..n : raw[k] # 0
      end == CHOOSE n \in 0..9 : text(n) /\ (n = 9 \/ raw[n + 1] = 0)
      kept == CHOOSE n \in 0..end :
                /\ \A k \in n + 1 .. end : raw[k] \in Space
                /\ n = 0 \/ raw[n] \notin Space
  IN  IF \E k \in 1..end : raw[k] > 127 THEN Unparsed("serial")
      ELSE Parsed(SubSeq(raw, 1, kept))
=============================================================================
