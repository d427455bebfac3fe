------------------------------ MODULE MCSession ------------------------------
(* Small instances of Session.                                              *)
EXTENDS Session

Op(name, arg) == [name |-> name, arg |-> arg]

TheKeyboard == {TABLE[3]}
(* The fixture of session.rs's capability-guard tests, and an entry whose   *)
(* LED id LedId cannot represent.                                           *)
NoCapabilities == [Keyboard(57005) EXCEPT !.capabilities = {}]
UnknownLed == [Mouse(170) EXCEPT !.default_led = 2,
                                 !.capabilities = {"BRIGHTNESS", "STATIC_EFFECT"}]
GuardEntries == {TABLE[2], TABLE[3], NoCapabilities, UnknownLed}

SerialSlots(a, b, c, d) ==
  [i \in ArgSlots |-> CASE i = 0 -> a [] i = 1 -> b [] i = 2 -> c [] i = 3 -> d [] OTHER -> 0]
Held(rate, serial) == [mode |-> 0, brightness |-> 9, rate |-> rate, serial |-> serial]
OneSetting == {Held(1000, SerialSlots(80, 77, 32, 0))}
TwoSettings == {Held(500, SerialSlots(80, 77, 32, 0)), Held(250, SerialSlots(80, 200, 0, 65))}

SharedCalls == {Op("get_brightness", 0), Op("set_device_mode", 3)}
StatefulCalls ==
  {Op("set_device_mode", 3), Op("get_device_mode", 0), Op("serial", 0),
   Op("set_brightness", 255), Op("get_brightness", 0),
   Op("set_poll_rate", 125), Op("set_poll_rate", 250), Op("get_poll_rate", 0)}
OtherCalls == {Op("firmware_version", 0), Op("set_static_effect", 7)}

Raw(p, r) == [policy |-> p, request |-> r]
BadSize == [cmd_set_device_mode(3) EXCEPT !.data_size = 81]
BadReserved == [cmd_get_serial EXCEPT !.reserved = 1]
BadProtocol == [cmd_get_serial EXCEPT !.protocol_type = 1]
(* A caller-built report with a stale transaction id and a packet count.    *)
Multi == [cmd_get_device_mode EXCEPT !.transaction_id = 255, !.remaining_packets = 258]
SharedRaw == {Raw("send", cmd_set_device_mode(3)), Raw("transact_raw", cmd_get_device_mode),
              Raw("transact", BadSize), Raw("transact", Multi)}
ContractRaw == {Raw("send", Multi), Raw("transact", BadSize)}
MalformedRaw == {Raw("transact", BadReserved), Raw("send", BadProtocol)}

Foreign == {to_bytes(with_transaction_id(cmd_get_firmware_version, 31)),
            to_bytes(with_transaction_id(cmd_get_brightness(VarStore, 5), 63))}
==============================================================================
