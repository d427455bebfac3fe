------------------------------ MODULE MCScrape ------------------------------
(* A small instance of Scrape.                                              *)
EXTENDS Scrape

(* Two names that differ, and that careless escaping makes alike.           *)
L1 == [device |-> <<"Weird ", "\\", "n">>, pid |-> <<"0x028D">>]
L2 == [device |-> <<"Weird ", "\n">>, pid |-> <<"0x028D">>]

Unknown ==
  [present |-> FALSE, usb_devnum |-> <<>>, kernel_driver |-> <<>>, firmware |-> <<>>,
   serial |-> <<>>, device_mode |-> <<>>, poll_rate_hz |-> <<>>, brightness |-> <<>>,
   transaction_id |-> <<>>]
Known ==
  [present |-> TRUE, usb_devnum |-> <<11>>, kernel_driver |-> <<<<"razerkbd", "\r", "\n">>>>,
   firmware |-> <<<<"v1", "\"">>>>, serial |-> <<<<"TESTSERIAL">>>>, device_mode |-> <<3>>,
   poll_rate_hz |-> <<1000>>, brightness |-> <<128>>, transaction_id |-> <<31>>]

Transaction(l, n, d, e) ==
  [op |-> "record_transaction", labels |-> l, command |-> <<"serial">>, attempts |-> n,
   duration |-> d, error |-> e]
SomeCalls ==
  {Transaction(L1, 1, 1000, <<>>), Transaction(L2, 1, 1000, <<>>),
   Transaction(L1, 5, 50001, <<<<"retries_exhausted">>>>),
   [op |-> "set_device_state", labels |-> L1, state |-> Known],
   [op |-> "set_device_state", labels |-> L1, state |-> Unknown],
   [op |-> "record_poll", duration |-> 2000, failed |-> TRUE],
   [op |-> "record_poll", duration |-> 3000, failed |-> FALSE]}
==============================================================================
