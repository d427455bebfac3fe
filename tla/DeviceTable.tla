---------------------------- MODULE DeviceTable ----------------------------
(***************************************************************************)
(* The razer-devices crate: capabilities and the three-entry device table. *)
(* Capabilities are the set of flags (the source's bit mask); the model    *)
(* name is left out.  wait is in microseconds.                             *)
(***************************************************************************)
EXTENDS Integers, Sequences

VENDOR_ID == 5426                                            \* 0x1532

Capabilities == {"DEVICE_MODE", "FIRMWARE_VERSION", "SERIAL", "BRIGHTNESS",
                 "STATIC_EFFECT", "POLL_RATE"}
contains(caps, cap) == cap \in caps

DeviceEntry ==
  [pid: Nat, kind: {"Keyboard", "Mouse"}, transaction_id: 0..255,
   report_index: 0..255, response_index: 0..255, wait: Nat,
   capabilities: SUBSET Capabilities, default_led: 0..255,
   poll_rate_kind: {"Legacy", "V2"}]

COMMON_CAPS == {"DEVICE_MODE", "FIRMWARE_VERSION", "SERIAL", "BRIGHTNESS",
                "STATIC_EFFECT", "POLL_RATE"}
ZERO_LED == 0
BACKLIGHT_LED == 5

Mouse(pid) ==
  [pid |-> pid, kind |-> "Mouse", transaction_id |-> 31,
   report_index |-> 0, response_index |-> 0, wait |-> 31000,
   capabilities |-> COMMON_CAPS, default_led |-> ZERO_LED,
   poll_rate_kind |-> "Legacy"]

Keyboard(pid) ==
  [pid |-> pid, kind |-> "Keyboard", transaction_id |-> 31,
   report_index |-> 3, response_index |-> 3, wait |-> 600,
   capabilities |-> COMMON_CAPS, default_led |-> BACKLIGHT_LED,
   poll_rate_kind |-> "V2"]

(* 0x00AA Basilisk V3 Pro wired, 0x00AB its wireless receiver, 0x028D       *)
(* BlackWidow V4 Pro.                                                       *)
TABLE == <<Mouse(170), Mouse(171), Keyboard(653)>>

supported(pid) == \E i \in 1..Len(TABLE) : TABLE[i].pid = pid
lookup(pid) == TABLE[CHOOSE i \in 1..Len(TABLE) :
                       TABLE[i].pid = pid /\ \A j \in 1..(i - 1) : TABLE[j].pid # pid]
=============================================================================
