----------------------------- MODULE UsbReplug -----------------------------
(***************************************************************************)
(* tools/usb_replug.py: take a hub port down and always bring it back.     *)
(*                                                                         *)
(* Python runs a signal handler between any two bytecodes, so a signal may *)
(* arrive between any two steps here, inside reenable() included, and its  *)
(* SystemExit then unwinds everything.  A text file buffers: f.write only  *)
(* fills the buffer, the kernel sees the digit when the file is closed,    *)
(* whichever way its `with` block is left.                                 *)
(*                                                                         *)
(* main is the statement the program is at; calls is the stack of          *)
(* reenable() activations, innermost last, each with who called it.        *)
(***************************************************************************)
EXTENDS Integers, Sequences, SequencesExt

CONSTANTS MaxSignals,   \* signals delivered to one run
          Polls         \* range(25) of the wait loop

ASSUME ReplugAssumption == MaxSignals \in Nat /\ Polls \in Nat

VARIABLES
  main, calls, exiting,   \* control: statement, reenable() stack, SystemExit in flight
  disabled,               \* state['disabled']
  port,                   \* the hub port, as the kernel has it
  status, polls,          \* exit status of main(), iterations of the wait loop
  signals, failed, torn   \* history: signals so far, a reenable that failed, and a
                          \* signal that found the '1' written but not yet flushed

vars == <<main, calls, exiting, disabled, port, status, polls, signals, failed, torn>>

TryBody == {"open", "opened", "flagged", "written", "sleep"}
Activation == [by: {"finally", "atexit", "bail"},
               pc: {"check", "open", "written", "clear", "raise"}]

Init ==
  /\ main = "start" /\ calls = <<>> /\ exiting = FALSE
  /\ disabled = FALSE /\ port = "up"
  /\ status = -1 /\ polls = 0
  /\ signals = 0 /\ failed = FALSE /\ torn = FALSE

(* A statement of main runs when no handler or reenable() does.             *)
At(label) == main = label /\ calls = <<>>
Enter(by) == calls' = Append(calls, [by |-> by, pc |-> "check"])

-----------------------------------------------------------------------------
(* main() *)

(* No keyboard, no disable attribute, or high speed already.                *)
Start ==
  /\ At("start")
  /\ \/ main' = "open" /\ UNCHANGED status
     \/ main' = "exited" /\ status' \in {0, 1}
  /\ UNCHANGED <<calls, exiting, disabled, port, polls, signals, failed, torn>>

Open ==
  /\ At("open")
  /\ \/ main' = "opened" /\ UNCHANGED <<calls, exiting>>
     \/ main' = "finally" /\ exiting' = TRUE /\ Enter("finally")     \* OSError
  /\ UNCHANGED <<disabled, port, status, polls, signals, failed, torn>>

(* Mutant: the port is taken down without setting the flag.                 *)
SetFlagLater ==
  /\ At("opened")
  /\ main' = "flagged"
  /\ UNCHANGED <<calls, exiting, disabled, port, status, polls, signals, failed, torn>>

SetFlag ==
  /\ At("opened")
  /\ main' = "flagged" /\ disabled' = TRUE
  /\ UNCHANGED <<calls, exiting, port, status, polls, signals, failed, torn>>

Write ==
  /\ At("flagged")
  /\ main' = "written"
  /\ UNCHANGED <<calls, exiting, disabled, port, status, polls, signals, failed, torn>>

Close ==
  /\ At("written")
  /\ \/ port' = "down" /\ main' = "sleep" /\ UNCHANGED <<calls, exiting>>
     \/ UNCHANGED port /\ main' = "finally" /\ exiting' = TRUE /\ Enter("finally")
  /\ UNCHANGED <<disabled, status, polls, signals, failed, torn>>

Sleep ==
  /\ At("sleep")
  /\ main' = "finally" /\ Enter("finally")
  /\ UNCHANGED <<exiting, disabled, port, status, polls, signals, failed, torn>>

(* Mutant: poll for the device until it is back.                            *)
WaitLoopUnbounded ==
  /\ At("wait")
  /\ \/ port = "up" /\ status' = 0 /\ main' = "atexit" /\ Enter("atexit")
     \/ UNCHANGED <<status, main, calls>>
  /\ UNCHANGED <<polls, exiting, disabled, port, signals, failed, torn>>

(* Mutant: one poll too many.                                               *)
WaitLoopOneMore ==
  /\ At("wait")
  /\ \/ polls <= Polls /\ polls' = polls + 1 /\ UNCHANGED <<status, main, calls>>
     \/ /\ polls <= Polls /\ port = "up" /\ UNCHANGED polls
        /\ status' = 0 /\ main' = "atexit" /\ Enter("atexit")
     \/ /\ polls > Polls /\ UNCHANGED polls
        /\ status' = 1 /\ main' = "atexit" /\ Enter("atexit")
  /\ UNCHANGED <<exiting, disabled, port, signals, failed, torn>>

(* The device can only be back with a new number if its port is up.         *)
(* find_device() lets an OSError other than a missing file through.         *)
WaitLoop ==
  /\ At("wait")
  /\ \/ polls < Polls /\ polls' = polls + 1 /\ UNCHANGED <<status, exiting, main, calls>>
     \/ /\ polls < Polls /\ port = "up" /\ status' = 0 /\ UNCHANGED <<polls, exiting>>
        /\ main' = "atexit" /\ Enter("atexit")
     \/ /\ polls < Polls /\ status' = 1 /\ exiting' = TRUE /\ UNCHANGED polls
        /\ main' = "atexit" /\ Enter("atexit")
     \/ /\ polls = Polls /\ status' = 1 /\ UNCHANGED <<polls, exiting>>
        /\ main' = "atexit" /\ Enter("atexit")
  /\ UNCHANGED <<disabled, port, signals, failed, torn>>

-----------------------------------------------------------------------------
(* reenable(), one activation: the last of calls.                           *)

In(pc) == calls # <<>> /\ Last(calls).pc = pc
Goto(pc) == calls' = [calls EXCEPT ![Len(calls)].pc = pc]

(* What follows activation i: the handler's sys.exit, the rest of main or   *)
(* the end of the process.                                                  *)
ReturnFrom(i) ==
  CASE calls[i].by = "bail" ->
         calls' = [SubSeq(calls, 1, i) EXCEPT ![i].pc = "raise"] /\ UNCHANGED main
    [] calls[i].by = "finally" ->
         IF exiting THEN main' = "atexit" /\ calls' = <<[by |-> "atexit", pc |-> "check"]>>
                    ELSE main' = "wait" /\ calls' = <<>>
    [] calls[i].by = "atexit" -> main' = "exited" /\ calls' = <<>>

ReturnToCaller == ReturnFrom(Len(calls))

CheckFlag ==
  /\ In("check")
  /\ \/ disabled /\ Goto("open") /\ UNCHANGED main
     \/ ~disabled /\ ReturnToCaller
  /\ UNCHANGED <<exiting, disabled, port, status, polls, signals, failed, torn>>

OpenAgain ==
  /\ In("open")
  /\ \/ Goto("written") /\ UNCHANGED <<main, failed>>
     \/ ReturnToCaller /\ failed' = TRUE
  /\ UNCHANGED <<exiting, disabled, port, status, polls, signals, torn>>

CloseAgain ==
  /\ In("written")
  /\ \/ port' = "up" /\ Goto("clear") /\ UNCHANGED <<main, failed>>
     \/ ReturnToCaller /\ failed' = TRUE /\ UNCHANGED port
  /\ UNCHANGED <<exiting, disabled, status, polls, signals, torn>>

ClearFlag ==
  /\ In("clear")
  /\ disabled' = FALSE /\ ReturnToCaller
  /\ UNCHANGED <<exiting, port, status, polls, signals, failed, torn>>

-----------------------------------------------------------------------------
(* Signals *)

(* Before the handlers are installed a signal just ends the process.        *)
KilledEarly ==
  /\ At("start")
  /\ main' = "exited"
  /\ UNCHANGED <<calls, exiting, disabled, port, status, polls, signals, failed, torn>>

Signal ==
  /\ main \notin {"start", "exited"}
  /\ signals < MaxSignals
  /\ signals' = signals + 1
  /\ Enter("bail")
  /\ torn' = (torn \/ At("written"))
  /\ UNCHANGED <<main, exiting, disabled, port, status, polls, failed>>

(* SystemExit closes the files of the blocks it leaves, and so flushes the  *)
(* zeros of the reenable() calls it interrupted, from the innermost out.    *)
Flushed(first) ==
  IF \E k \in first..Len(calls) : calls[k].pc = "written" THEN "up" ELSE port

(* It leaves them all.  The '1' of main's block is flushed last; if that    *)
(* fails an OSError goes on in its place.                                   *)
Raise ==
  /\ In("raise")
  /\ port' = Flushed(1) \/ (main = "written" /\ port' = "down")
  /\ exiting' = TRUE
  /\ \/ main \in TryBody /\ main' = "finally" /\ calls' = <<[by |-> "finally", pc |-> "check"]>>
     \/ main \in {"finally", "wait"} /\ main' = "atexit"
          /\ calls' = <<[by |-> "atexit", pc |-> "check"]>>
     \/ main = "atexit" /\ main' = "exited" /\ calls' = <<>>
  /\ UNCHANGED <<disabled, status, polls, signals, failed, torn>>

(* Or it ends at activation i, whose zero could not be flushed: reenable()  *)
(* swallows the OSError that took its place and returns as if no signal had *)
(* come.                                                                    *)
RaiseSwallowed ==
  /\ In("raise")
  /\ \E i \in 1..Len(calls) :
       calls[i].pc = "written" /\ port' = Flushed(i + 1) /\ ReturnFrom(i)
  /\ failed' = TRUE
  /\ UNCHANGED <<exiting, disabled, status, polls, signals, torn>>

Exited == main = "exited" /\ UNCHANGED vars

Process == \/ Start \/ Open \/ SetFlag \/ Write \/ Close \/ Sleep \/ WaitLoop
           \/ CheckFlag \/ OpenAgain \/ CloseAgain \/ ClearFlag
           \/ Raise \/ RaiseSwallowed

Next == Process \/ Signal \/ KilledEarly \/ Exited

Spec == Init /\ [][Next]_vars
FairSpec == Spec /\ WF_vars(Process)

-----------------------------------------------------------------------------
(* Properties *)

(* Every variable has its type.                                             *)
TypeOK ==
  /\ main \in TryBody \cup {"start", "finally", "wait", "atexit", "exited"}
  /\ calls \in Seq(Activation) /\ Len(calls) <= MaxSignals + 1
  /\ exiting \in BOOLEAN /\ disabled \in BOOLEAN /\ port \in {"up", "down"}
  /\ status \in {-1, 0, 1} /\ polls \in 0..Polls /\ signals \in 0..MaxSignals
  /\ failed \in BOOLEAN /\ torn \in BOOLEAN

(* The docstring's promise (usb_replug.py:33): once the process is gone the *)
(* port is up, unless re-enabling it failed and the user was told.          *)
PortReenabled == main = "exited" /\ ~failed => port = "up"

(* The promise holds of every run in which no signal found the '1' written  *)
(* and not yet flushed, however many signals arrive and wherever else:      *)
(* inside reenable(), inside another handler, while unwinding.              *)
PortReenabledUnlessTorn == ~torn => PortReenabled

(* Meanwhile a port that is down is known to be down, so that whichever     *)
(* caller of reenable() comes next brings it back.                          *)
DownIsFlagged == port = "down" /\ ~torn => disabled

(* The process ends: at most MaxSignals interruptions, bounded polling.     *)
Terminates == <>(main = "exited")
=============================================================================
