-------------------------- MODULE UsbReplugProofs --------------------------
(***************************************************************************)
(* Proofs about UsbReplug for any number of signals and polls.              *)
(***************************************************************************)
EXTENDS UsbReplug, TLAPS

(* How the stack of reenable() activations relates to the statement main is *)
(* at: the outermost one is main's own call, if main is in one, and every   *)
(* other a handler's, one for each signal at most.                          *)
StackOK ==
  /\ main \in {"start", "exited"} => calls = <<>>
  /\ main \in {"finally", "atexit"} =>
       /\ calls # <<>> /\ calls[1].by = main
       /\ Len(calls) <= signals + 1
       /\ \A k \in 2..Len(calls) : calls[k].by = "bail"
  /\ main \in TryBody \cup {"wait"} =>
       /\ Len(calls) <= signals
       /\ \A k \in 1..Len(calls) : calls[k].by = "bail"

(* state['disabled'] is set before the '1' is written, and nothing but an   *)
(* unwinding handler gets between.                                          *)
FlagBeforeWrite ==
  /\ main \in {"flagged", "written"} /\ calls = <<>> => disabled
  /\ main = "written" /\ calls # <<>> => torn

(* An activation that has written the '0', and one that is over, leave the  *)
(* port up, with the exceptions PortReenabledUnlessTorn names.              *)
ActivationsDid ==
  \A k \in 1..Len(calls) :
    /\ calls[k].pc = "clear" => torn \/ port = "up"
    /\ calls[k].pc = "raise" => torn \/ failed \/ port = "up"

Inv ==
  /\ TypeOK /\ StackOK /\ FlagBeforeWrite /\ ActivationsDid
  /\ DownIsFlagged /\ PortReenabledUnlessTorn
  /\ main = "start" => port = "up"

-----------------------------------------------------------------------------
(* The stack *)

(* A call puts one activation on top and leaves the others alone.           *)
LEMMA Pushed ==
  ASSUME calls \in Seq(Activation), NEW b \in {"finally", "atexit", "bail"}, Enter(b)
  PROVE  /\ calls' \in Seq(Activation) /\ Len(calls') = Len(calls) + 1 /\ calls' # <<>>
         /\ \A k \in 1..Len(calls) : calls'[k] = calls[k]
         /\ calls'[Len(calls) + 1] = [by |-> b, pc |-> "check"]
BY DEF Enter, Activation

(* A step of reenable() moves the innermost activation only, and not to     *)
(* another caller.                                                          *)
LEMMA Moved ==
  ASSUME calls \in Seq(Activation), calls # <<>>,
         NEW p \in {"check", "open", "written", "clear", "raise"}, Goto(p)
  PROVE  /\ calls' \in Seq(Activation) /\ Len(calls') = Len(calls) /\ calls' # <<>>
         /\ \A k \in 1..Len(calls) : calls'[k].by = calls[k].by
         /\ \A k \in 1..Len(calls) : k # Len(calls) => calls'[k] = calls[k]
         /\ calls'[Len(calls)].pc = p
<1>1. Len(calls) \in Nat \ {0} /\ Len(calls) \in 1..Len(calls)
  OBVIOUS
<1>2. \A k \in 1..Len(calls) : calls[k] \in Activation
  OBVIOUS
<1> DEFINE top == [calls[Len(calls)] EXCEPT !.pc = p]
<1>3. top \in Activation /\ top.by = calls[Len(calls)].by /\ top.pc = p
  BY <1>1, <1>2 DEF Activation
<1>4. calls' = [calls EXCEPT ![Len(calls)] = top]
  BY DEF Goto
<1> HIDE DEF top
<1> QED BY <1>1, <1>2, <1>3, <1>4

(* A stack of one, as main's own calls make.                                *)
LEMMA Single ==
  ASSUME NEW b \in {"finally", "atexit"}, calls' = <<[by |-> b, pc |-> "check"]>>
  PROVE  /\ calls' \in Seq(Activation) /\ Len(calls') = 1 /\ calls' # <<>>
         /\ calls'[1] = [by |-> b, pc |-> "check"]
BY DEF Activation

(* Where an activation returns to.  Only main's own call returns into main, *)
(* and it is the outermost one; a handler goes on to its sys.exit, with the *)
(* activations it interrupted as they were.                                 *)
LEMMA Returned ==
  ASSUME TypeOK, StackOK, NEW i \in 1..Len(calls), ReturnFrom(i)
  PROVE  \/ /\ main' = main
            /\ calls' \in Seq(Activation) /\ Len(calls') = i /\ calls' # <<>>
            /\ \A k \in 1..i : calls'[k].by = calls[k].by
            /\ \A k \in 1..i : k # i => calls'[k] = calls[k]
            /\ calls'[i].pc = "raise"
         \/ /\ main = "finally" /\ exiting /\ main' = "atexit"
            /\ calls' = <<[by |-> "atexit", pc |-> "check"]>>
         \/ main = "finally" /\ main' = "wait" /\ calls' = <<>>
         \/ main = "atexit" /\ main' = "exited" /\ calls' = <<>>
<1>1. /\ Len(calls) \in Nat /\ i \in Nat \ {0} /\ i <= Len(calls) /\ calls \in Seq(Activation)
      /\ \A k \in 1..Len(calls) : calls[k] \in Activation
  BY DEF TypeOK
<1>2. calls[i].by \in {"finally", "atexit", "bail"}
  BY <1>1 DEF Activation
<1>3. CASE calls[i].by = "bail"
  <2> DEFINE low == SubSeq(calls, 1, i)
             top == [calls[i] EXCEPT !.pc = "raise"]
  <2>1. low \in Seq(Activation) /\ Len(low) = i /\ \A k \in 1..i : low[k] = calls[k]
    BY <1>1
  <2>2. top \in Activation /\ top.by = calls[i].by /\ top.pc = "raise"
    BY <1>1 DEF Activation
  <2>3. main' = main /\ calls' = [low EXCEPT ![i] = top]
    BY <1>1, <1>3, <2>1 DEF ReturnFrom
  <2> HIDE DEF low, top
  <2> QED BY <1>1, <2>1, <2>2, <2>3
<1>4. ASSUME calls[i].by # "bail" PROVE calls[i].by = main
  <2>1. main \in {"finally", "atexit"}
    <3>1. main \notin {"start", "exited"}
      BY <1>1 DEF StackOK
    <3>2. main \notin TryBody \cup {"wait"}
      BY <1>1, <1>4 DEF StackOK
    <3> QED BY <3>1, <3>2 DEF TypeOK
  <2>2. /\ calls[1].by = main /\ \A k \in 2..Len(calls) : calls[k].by = "bail"
    BY <2>1 DEF StackOK
  <2>3. i = 1
    BY <1>1, <1>4, <2>2
  <2> QED BY <2>2, <2>3
<1>5. CASE calls[i].by = "finally"
  BY <1>4, <1>5 DEF ReturnFrom
<1>6. CASE calls[i].by = "atexit"
  BY <1>4, <1>6 DEF ReturnFrom
<1> QED BY <1>2, <1>3, <1>5, <1>6

-----------------------------------------------------------------------------
(* The invariant *)

(* The invariant holds when the script starts.                              *)
LEMMA InvInit == Init => Inv
<1> SUFFICES ASSUME Init PROVE Inv
  OBVIOUS
<1>1. calls \in Seq(Activation) /\ Len(calls) = 0
  BY DEF Init
<1>2. TypeOK
  <2>1. 0 \in 0..Polls /\ 0 \in 0..MaxSignals /\ 0 <= MaxSignals + 1
    BY ReplugAssumption
  <2> QED BY <1>1, <2>1 DEF Init, TypeOK
<1>3. StackOK /\ FlagBeforeWrite /\ ActivationsDid
  BY <1>1 DEF Init, StackOK, TryBody, FlagBeforeWrite, ActivationsDid
<1> QED
  BY <1>2, <1>3 DEF Init, Inv, DownIsFlagged, PortReenabledUnlessTorn, PortReenabled

(* An activation may return when it has brought the port up, or found it    *)
(* up, or reported that it could not.                                       *)
LEMMA ReturnKeepsInv ==
  ASSUME Inv, NEW i \in 1..Len(calls), ReturnFrom(i),
         UNCHANGED <<exiting, status, polls, signals, torn>>,
         disabled' \in BOOLEAN, failed' \in BOOLEAN, failed => failed',
         port' \in {port, "up"}, torn \/ failed' \/ port' = "up",
         DownIsFlagged'
  PROVE  Inv'
<1> USE DEF Inv
<1>0. /\ main \in TryBody \cup {"start", "finally", "wait", "atexit", "exited"}
      /\ Len(calls) \in Nat /\ i \in Nat \ {0} /\ i <= Len(calls) /\ calls # <<>>
      /\ signals \in Nat /\ MaxSignals \in Nat /\ signals <= MaxSignals
      /\ port' \in {"up", "down"}
  BY ReplugAssumption DEF TypeOK
<1>1. CASE /\ main' = main
           /\ calls' \in Seq(Activation) /\ Len(calls') = i /\ calls' # <<>>
           /\ \A k \in 1..i : calls'[k].by = calls[k].by
           /\ \A k \in 1..i : k # i => calls'[k] = calls[k]
           /\ calls'[i].pc = "raise"
  <2>2. TypeOK'
    BY <1>0, <1>1 DEF TypeOK
  <2>3. StackOK'
    BY <1>0, <1>1 DEF StackOK
  <2>4. FlagBeforeWrite'
    BY <1>0, <1>1 DEF FlagBeforeWrite
  <2>5. ActivationsDid'
    BY <1>0, <1>1 DEF ActivationsDid
  <2>6. PortReenabledUnlessTorn' /\ (main' = "start" => port' = "up")
    BY <1>0, <1>1 DEF StackOK, PortReenabledUnlessTorn, PortReenabled
  <2> QED BY <2>2, <2>3, <2>4, <2>5, <2>6
<1>2. CASE /\ main = "finally" /\ exiting /\ main' = "atexit"
           /\ calls' = <<[by |-> "atexit", pc |-> "check"]>>
  <2>1. /\ calls' \in Seq(Activation) /\ Len(calls') = 1 /\ calls' # <<>>
        /\ calls'[1] = [by |-> "atexit", pc |-> "check"]
    BY <1>2, Single
  <2>2. TypeOK'
    BY <1>0, <1>2, <2>1 DEF TypeOK
  <2>3. StackOK'
    BY <1>0, <1>2, <2>1 DEF StackOK, TryBody
  <2>4. FlagBeforeWrite' /\ ActivationsDid'
    BY <1>2, <2>1 DEF FlagBeforeWrite, ActivationsDid
  <2> QED BY <1>2, <2>2, <2>3, <2>4 DEF PortReenabledUnlessTorn, PortReenabled
<1>3. CASE main' \in {"wait", "exited"} /\ calls' = <<>>
  <2>1. calls' \in Seq(Activation) /\ Len(calls') = 0
    BY <1>3
  <2>2. TypeOK'
    BY <1>0, <1>3, <2>1 DEF TypeOK
  <2>3. StackOK'
    BY <1>0, <1>3, <2>1 DEF StackOK, TryBody
  <2>4. FlagBeforeWrite' /\ ActivationsDid'
    BY <1>3, <2>1 DEF FlagBeforeWrite, ActivationsDid
  <2> QED BY <1>3, <2>2, <2>3, <2>4 DEF PortReenabledUnlessTorn, PortReenabled
<1> QED BY <1>1, <1>2, <1>3, Returned

(* main's own call of reenable(), from a statement of the try body or when  *)
(* the process ends.                                                        *)
LEMMA CallKeepsInv ==
  ASSUME Inv, calls = <<>>, main' \in {"finally", "atexit"}, Enter(main'),
         UNCHANGED <<disabled, port, signals, failed, torn>>,
         exiting' \in BOOLEAN, status' \in {-1, 0, 1}, polls' \in 0..Polls
  PROVE  Inv'
<1> USE DEF Inv
<1>1. /\ calls \in Seq(Activation) /\ Len(calls) = 0
      /\ signals \in Nat /\ MaxSignals \in Nat
  BY ReplugAssumption DEF TypeOK
<1>2. /\ calls' \in Seq(Activation) /\ Len(calls') = 1 /\ calls' # <<>>
      /\ calls'[1] = [by |-> main', pc |-> "check"]
  BY <1>1, Pushed
<1>3. TypeOK'
  BY <1>1, <1>2 DEF TypeOK
<1>4. StackOK'
  BY <1>1, <1>2 DEF StackOK, TryBody
<1>5. FlagBeforeWrite' /\ ActivationsDid'
  BY <1>2 DEF FlagBeforeWrite, ActivationsDid
<1> QED BY <1>3, <1>4, <1>5 DEF PortReenabledUnlessTorn, PortReenabled, DownIsFlagged

(* A statement of main that makes no call.                                  *)
LEMMA MainKeepsInv ==
  ASSUME Inv, calls = <<>>, UNCHANGED <<calls, exiting, signals, failed, torn>>,
         main' \in TryBody \cup {"wait", "exited"}, disabled' \in BOOLEAN, port' \in {"up", "down"},
         status' \in {-1, 0, 1}, polls' \in 0..Polls,
         main' \in {"flagged", "written"} => disabled',
         DownIsFlagged', main' = "exited" => port' = "up"
  PROVE  Inv'
<1> USE DEF Inv
<1>1. Len(calls) = 0 /\ Len(calls') = 0 /\ signals \in Nat
  BY DEF TypeOK
<1>2. TypeOK'
  BY DEF TypeOK
<1>3. StackOK'
  BY <1>1 DEF StackOK, TryBody
<1>4. FlagBeforeWrite' /\ ActivationsDid'
  BY <1>1 DEF FlagBeforeWrite, ActivationsDid
<1> QED BY <1>2, <1>3, <1>4 DEF TryBody, PortReenabledUnlessTorn, PortReenabled

(* A step inside reenable().                                                *)
LEMMA GotoKeepsInv ==
  ASSUME Inv, calls # <<>>, NEW p \in {"open", "written", "clear"}, Goto(p),
         UNCHANGED <<main, exiting, disabled, status, polls, signals, failed, torn>>,
         port' \in {port, "up"}, p = "clear" => port' = "up"
  PROVE  Inv'
<1> USE DEF Inv
<1>0. Len(calls) \in Nat \ {0} /\ signals \in Nat
  BY DEF TypeOK
<1>1. /\ calls' \in Seq(Activation) /\ Len(calls') = Len(calls) /\ calls' # <<>>
      /\ \A k \in 1..Len(calls) : calls'[k].by = calls[k].by
      /\ \A k \in 1..Len(calls) : k # Len(calls) => calls'[k] = calls[k]
      /\ calls'[Len(calls)].pc = p
  BY Moved DEF TypeOK
<1>2. TypeOK'
  BY <1>1 DEF TypeOK
<1>3. StackOK'
  BY <1>0, <1>1 DEF StackOK
<1>4. FlagBeforeWrite' /\ DownIsFlagged'
  BY <1>1 DEF FlagBeforeWrite, DownIsFlagged
<1>5. ActivationsDid'
  BY <1>1 DEF ActivationsDid
<1>6. main' \notin {"start", "exited"}
  BY DEF StackOK
<1> QED BY <1>2, <1>3, <1>4, <1>5, <1>6 DEF PortReenabledUnlessTorn, PortReenabled

(* Every step of main, a handler or atexit keeps the invariant.             *)
LEMMA InvNext == Inv /\ [Next]_vars => Inv'
<1> SUFFICES ASSUME Inv, [Next]_vars PROVE Inv'
  OBVIOUS
<1>t. TypeOK /\ DownIsFlagged
  BY DEF Inv
<1>1. CASE Start
  <2>1. main = "start" /\ port = "up" /\ calls = <<>>
    BY <1>1 DEF Start, At, Inv
  <2>2. DownIsFlagged'
    BY <1>1, <2>1 DEF Start, DownIsFlagged
  <2> QED BY <1>1, <1>t, <2>1, <2>2, MainKeepsInv DEF Start, TypeOK, TryBody
<1>2. CASE Open
  <2>1. CASE main' = "opened" /\ UNCHANGED <<calls, exiting>>
    BY <1>2, <1>t, <2>1, MainKeepsInv DEF Open, At, TypeOK, TryBody, DownIsFlagged
  <2>2. CASE main' = "finally" /\ exiting' = TRUE /\ Enter("finally")
    BY <1>2, <1>t, <2>2, CallKeepsInv DEF Open, At, TypeOK
  <2> QED BY <1>2, <2>1, <2>2 DEF Open
<1>3. CASE SetFlag
  BY <1>3, <1>t, MainKeepsInv DEF SetFlag, At, TypeOK, TryBody, DownIsFlagged
<1>4. CASE Write
  <2>1. disabled
    BY <1>4 DEF Write, At, Inv, FlagBeforeWrite
  <2> QED BY <1>4, <1>t, <2>1, MainKeepsInv DEF Write, At, TypeOK, TryBody, DownIsFlagged
<1>5. CASE Close
  <2>1. disabled
    BY <1>5 DEF Close, At, Inv, FlagBeforeWrite
  <2>2. CASE port' = "down" /\ main' = "sleep" /\ UNCHANGED <<calls, exiting>>
    BY <1>5, <1>t, <2>1, <2>2, MainKeepsInv DEF Close, At, TypeOK, TryBody, DownIsFlagged
  <2>3. CASE UNCHANGED port /\ main' = "finally" /\ exiting' = TRUE /\ Enter("finally")
    BY <1>5, <1>t, <2>3, CallKeepsInv DEF Close, At, TypeOK
  <2> QED BY <1>5, <2>2, <2>3 DEF Close
<1>6. CASE Sleep
  BY <1>6, <1>t, CallKeepsInv DEF Sleep, At, TypeOK
<1>7. CASE WaitLoop
  <2>1. CASE polls < Polls /\ polls' = polls + 1 /\ UNCHANGED <<status, exiting, main, calls>>
    <3>1. polls' \in 0..Polls
      BY <1>t, <2>1, ReplugAssumption DEF TypeOK
    <3> QED BY <1>7, <1>t, <2>1, <3>1, MainKeepsInv DEF WaitLoop, At, TypeOK, DownIsFlagged
  <2>2. CASE /\ polls' = polls /\ status' \in {0, 1} /\ exiting' \in {exiting, TRUE}
             /\ main' = "atexit" /\ Enter("atexit")
    BY <1>7, <1>t, <2>2, CallKeepsInv DEF WaitLoop, At, TypeOK
  <2> QED BY <1>7, <2>1, <2>2 DEF WaitLoop
<1>8. CASE CheckFlag
  <2>1. CASE disabled /\ Goto("open") /\ UNCHANGED main
    BY <1>8, <2>1, GotoKeepsInv DEF CheckFlag, In
  <2>2. CASE ~disabled /\ ReturnToCaller
    <3>1. port = "up" \/ torn
      BY <1>t, <2>2 DEF TypeOK, DownIsFlagged
    <3>2. DownIsFlagged'
      BY <1>8, <1>t DEF CheckFlag, DownIsFlagged
    <3>3. Len(calls) \in 1..Len(calls)
      BY <1>8, <1>t DEF CheckFlag, In, TypeOK
    <3> QED BY <1>8, <1>t, <2>2, <3>1, <3>2, <3>3, ReturnKeepsInv DEF CheckFlag, ReturnToCaller, TypeOK
  <2> QED BY <1>8, <2>1, <2>2 DEF CheckFlag
<1>9. CASE OpenAgain
  <2>1. CASE Goto("written") /\ UNCHANGED <<main, failed>>
    BY <1>9, <2>1, GotoKeepsInv DEF OpenAgain, In
  <2>2. CASE ReturnToCaller /\ failed' = TRUE
    <3>1. DownIsFlagged'
      BY <1>9, <1>t DEF OpenAgain, DownIsFlagged
    <3>2. Len(calls) \in 1..Len(calls)
      BY <1>9, <1>t DEF OpenAgain, In, TypeOK
    <3> QED BY <1>9, <1>t, <2>2, <3>1, <3>2, ReturnKeepsInv DEF OpenAgain, ReturnToCaller, TypeOK
  <2> QED BY <1>9, <2>1, <2>2 DEF OpenAgain
<1>10. CASE CloseAgain
  <2>1. CASE port' = "up" /\ Goto("clear") /\ UNCHANGED <<main, failed>>
    BY <1>10, <2>1, GotoKeepsInv DEF CloseAgain, In
  <2>2. CASE ReturnToCaller /\ failed' = TRUE /\ UNCHANGED port
    <3>1. DownIsFlagged'
      BY <1>10, <1>t, <2>2 DEF CloseAgain, DownIsFlagged
    <3>2. Len(calls) \in 1..Len(calls)
      BY <1>10, <1>t DEF CloseAgain, In, TypeOK
    <3> QED BY <1>10, <1>t, <2>2, <3>1, <3>2, ReturnKeepsInv DEF CloseAgain, ReturnToCaller, TypeOK
  <2> QED BY <1>10, <2>1, <2>2 DEF CloseAgain
<1>11. CASE ClearFlag
  <2>1. calls # <<>> /\ Last(calls) = calls[Len(calls)] /\ Len(calls) \in 1..Len(calls)
    BY <1>11, <1>t DEF ClearFlag, In, Last, TypeOK
  <2>2. torn \/ port = "up"
    BY <1>11, <2>1 DEF ClearFlag, In, Inv, ActivationsDid
  <2>3. DownIsFlagged'
    BY <1>11, <2>2 DEF ClearFlag, DownIsFlagged
  <2> QED BY <1>11, <1>t, <2>1, <2>2, <2>3, ReturnKeepsInv DEF ClearFlag, ReturnToCaller, TypeOK
<1>12. CASE Raise
  <2>0. /\ calls # <<>> /\ Last(calls) = calls[Len(calls)] /\ Len(calls) \in 1..Len(calls)
        /\ signals \in Nat /\ MaxSignals \in Nat /\ TypeOK
    BY <1>12, <1>t, ReplugAssumption DEF Raise, In, Last, TypeOK
  <2>1. torn \/ failed \/ port = "up"
    BY <1>12, <2>0 DEF Raise, In, Inv, ActivationsDid
  <2>2. port' \in {"up", "down"} /\ (torn \/ port' \in {port, "up"})
    BY <1>12, <1>t, <2>0 DEF Raise, Flushed, Inv, FlagBeforeWrite, TypeOK
  <2>3. DownIsFlagged'
    BY <1>12, <1>t, <2>2 DEF Raise, DownIsFlagged
  <2>4. ASSUME NEW b \in {"finally", "atexit"}, main' = b, calls' = <<[by |-> b, pc |-> "check"]>>
        PROVE  Inv'
    <3>1. /\ calls' \in Seq(Activation) /\ Len(calls') = 1 /\ calls' # <<>>
          /\ calls'[1] = [by |-> b, pc |-> "check"]
      BY <2>4, Single
    <3>2. TypeOK'
      BY <1>12, <2>0, <2>2, <2>4, <3>1 DEF Raise, TypeOK
    <3>3. StackOK'
      BY <1>12, <2>0, <2>4, <3>1 DEF Raise, StackOK, TryBody
    <3>4. FlagBeforeWrite' /\ ActivationsDid'
      BY <2>4, <3>1 DEF FlagBeforeWrite, ActivationsDid
    <3> QED BY <2>3, <2>4, <3>2, <3>3, <3>4 DEF Inv, PortReenabledUnlessTorn, PortReenabled
  <2>5. ASSUME main' = "exited", calls' = <<>> PROVE Inv'
    <3>1. calls' \in Seq(Activation) /\ Len(calls') = 0
      BY <2>5
    <3>2. TypeOK'
      BY <1>12, <2>0, <2>2, <2>5, <3>1 DEF Raise, TypeOK
    <3>3. StackOK' /\ FlagBeforeWrite' /\ ActivationsDid'
      BY <2>5, <3>1 DEF StackOK, TryBody, FlagBeforeWrite, ActivationsDid
    <3>4. PortReenabledUnlessTorn'
      BY <1>12, <2>1, <2>2 DEF Raise, PortReenabledUnlessTorn, PortReenabled
    <3> QED BY <2>3, <2>5, <3>2, <3>3, <3>4 DEF Inv
  <2> QED BY <1>12, <2>4, <2>5 DEF Raise
<1>13. CASE Signal
  <2>1. /\ calls' \in Seq(Activation) /\ Len(calls') = Len(calls) + 1 /\ calls' # <<>>
        /\ \A k \in 1..Len(calls) : calls'[k] = calls[k]
        /\ calls'[Len(calls) + 1] = [by |-> "bail", pc |-> "check"]
    BY <1>13, <1>t, Pushed DEF Signal, TypeOK
  <2>2. /\ Len(calls) \in Nat /\ signals \in Nat /\ MaxSignals \in Nat
        /\ signals' = signals + 1 /\ signals' \in 0..MaxSignals
    BY <1>13, <1>t, ReplugAssumption DEF Signal, TypeOK
  <2>3. StackOK'
    <3>1. main' \notin {"start", "exited"} /\ main' = main
      BY <1>13 DEF Signal
    <3>2. ASSUME main' \in {"finally", "atexit"}
          PROVE  /\ calls'[1].by = main' /\ Len(calls') <= signals' + 1
                 /\ \A k \in 2..Len(calls') : calls'[k].by = "bail"
      <4>1. /\ calls # <<>> /\ calls[1].by = main /\ Len(calls) <= signals + 1
            /\ \A k \in 2..Len(calls) : calls[k].by = "bail"
        BY <3>1, <3>2 DEF Inv, StackOK
      <4>2. 1 \in 1..Len(calls)
        BY <1>t, <4>1 DEF TypeOK
      <4> QED BY <2>1, <2>2, <3>1, <4>1, <4>2
    <3>3. ASSUME main' \in TryBody \cup {"wait"}
          PROVE  Len(calls') <= signals' /\ \A k \in 1..Len(calls') : calls'[k].by = "bail"
      <4>1. Len(calls) <= signals /\ \A k \in 1..Len(calls) : calls[k].by = "bail"
        BY <3>1, <3>3 DEF Inv, StackOK
      <4> QED BY <2>1, <2>2, <4>1
    <3> QED BY <2>1, <3>1, <3>2, <3>3 DEF StackOK
  <2>4. TypeOK'
    <3>1. Len(calls') <= MaxSignals + 1
      <4>1. main \in TryBody \cup {"wait", "finally", "atexit"} /\ main' = main
        BY <1>13, <1>t DEF Signal, TypeOK
      <4>2. Len(calls') <= signals' + 1
        BY <2>1, <2>2, <2>3, <4>1 DEF StackOK
      <4> QED BY <2>1, <2>2, <4>2
    <3>2. torn' \in BOOLEAN
      BY <1>13 DEF Signal
    <3> QED BY <1>13, <1>t, <2>1, <2>2, <3>1, <3>2 DEF Signal, TypeOK
  <2>5. FlagBeforeWrite' /\ DownIsFlagged'
    <3>1. main' = "written" => torn'
      BY <1>13 DEF Signal, At, Inv, FlagBeforeWrite
    <3>2. torn => torn'
      BY <1>13 DEF Signal
    <3> QED BY <1>13, <1>t, <2>1, <3>1, <3>2 DEF Signal, FlagBeforeWrite, DownIsFlagged
  <2>6. ActivationsDid'
    <3>1. torn => torn'
      BY <1>13 DEF Signal
    <3>2. \A k \in 1..Len(calls') : k \in 1..Len(calls) \/ k = Len(calls) + 1
      BY <2>1, <2>2
    <3> QED BY <1>13, <2>1, <3>1, <3>2 DEF Signal, Inv, ActivationsDid
  <2> QED
    BY <1>13, <2>3, <2>4, <2>5, <2>6 DEF Signal, Inv, PortReenabledUnlessTorn, PortReenabled
<1>14. CASE KilledEarly
  <2>1. main = "start" /\ port = "up" /\ calls = <<>>
    BY <1>14 DEF KilledEarly, At, Inv
  <2>2. DownIsFlagged'
    BY <1>14, <2>1 DEF KilledEarly, DownIsFlagged
  <2> QED BY <1>14, <1>t, <2>1, <2>2, MainKeepsInv DEF KilledEarly, TypeOK, TryBody
<1>15. CASE RaiseSwallowed
  <2>1. PICK i \in 1..Len(calls) : port' = Flushed(i + 1) /\ ReturnFrom(i)
    BY <1>15 DEF RaiseSwallowed
  <2>2. port' \in {port, "up"}
    BY <2>1 DEF Flushed
  <2>3. DownIsFlagged'
    BY <1>15, <1>t, <2>2 DEF RaiseSwallowed, DownIsFlagged
  <2> QED BY <1>15, <1>t, <2>1, <2>2, <2>3, ReturnKeepsInv DEF RaiseSwallowed, TypeOK
<1>16. CASE UNCHANGED vars
  BY <1>16 DEF vars, Inv, TypeOK, StackOK, FlagBeforeWrite, ActivationsDid, DownIsFlagged,
     PortReenabledUnlessTorn, PortReenabled
<1> QED
  BY <1>1, <1>2, <1>3, <1>4, <1>5, <1>6, <1>7, <1>8, <1>9, <1>10, <1>11, <1>12, <1>13, <1>14, <1>15,
     <1>16
  DEF Next, Process, Exited

(* Every state of the program satisfies the invariant.                      *)
LEMMA Invariance == Spec => []Inv
<1>1. Init => Inv
  BY InvInit
<1>2. Inv /\ [Next]_vars => Inv'
  BY InvNext
<1> QED BY <1>1, <1>2, PTL DEF Spec

-----------------------------------------------------------------------------
(* The types; among them the depth of the stack: one activation of main's   *)
(* and one for each signal, however the handlers interrupt each other.      *)
THEOREM TypeCorrect == Spec => []TypeOK
<1>1. Inv => TypeOK
  BY DEF Inv
<1> QED BY <1>1, Invariance, PTL

(* usb_replug.py:33, for any number of signals delivered at any point: the  *)
(* port is up when the process is gone, unless re-enabling it failed or a   *)
(* signal found the '1' in the buffer of the file.                          *)
THEOREM Reenabled == Spec => []PortReenabledUnlessTorn
<1>1. Inv => PortReenabledUnlessTorn
  BY DEF Inv
<1> QED BY <1>1, Invariance, PTL

(* The flag reenable() tests never misses a port that is down, with the     *)
(* same exception.                                                          *)
THEOREM Flagged == Spec => []DownIsFlagged
<1>1. Inv => DownIsFlagged
  BY DEF Inv
<1> QED BY <1>1, Invariance, PTL
=============================================================================
