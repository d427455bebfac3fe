------------------------------ MODULE CallSpec ------------------------------
(***************************************************************************)
(* What a Session call promises its caller, with no device, no clock and   *)
(* no retry loop in sight: one fixed frame is delivered some number of     *)
(* times within a budget, then one outcome is reported, and the outcome    *)
(* says how much may have been delivered.                                  *)
(***************************************************************************)
EXTENDS Integers, Sequences

CONSTANTS
  Frames,   \* what may go on the wire
  Budgets   \* how often a call may deliver its frame

VARIABLES
  phase,    \* "returned" or "running"
  frame,    \* the frame of the call
  budget,   \* how often it may be delivered
  wire,     \* what the call has delivered
  outcome   \* what the last call reported

cvars == <<phase, frame, budget, wire, outcome>>

(* An outcome and what it lets the caller conclude about the wire.          *)
Outcomes == {"refused", "answered", "unreadable", "faulted", "exhausted"}
Warranted(o, delivered, limit) ==
  /\ o = "refused" => delivered = 0
  /\ o \in {"answered", "unreadable", "faulted"} => delivered \in 1..limit
  /\ o = "exhausted" => delivered = limit

Init ==
  /\ phase = "returned" /\ frame \in Frames /\ budget \in Budgets
  /\ wire = <<>> /\ outcome = "none"

(* A call the session turns down before it has built a frame.               *)
Refuse ==
  /\ phase = "returned"
  /\ budget' \in Budgets /\ wire' = <<>> /\ outcome' = "refused"
  /\ UNCHANGED <<phase, frame>>

Begin ==
  /\ phase = "returned" /\ phase' = "running"
  /\ frame' \in Frames /\ budget' \in Budgets /\ wire' = <<>> /\ outcome' = "none"

Deliver ==
  /\ phase = "running" /\ Len(wire) < budget
  /\ wire' = Append(wire, frame)
  /\ UNCHANGED <<phase, frame, budget, outcome>>

(* A delivery that fails is the last one of its call.                       *)
DeliverAndFault ==
  /\ phase = "running" /\ Len(wire) < budget
  /\ wire' = Append(wire, frame)
  /\ phase' = "returned" /\ outcome' = "faulted"
  /\ UNCHANGED <<frame, budget>>

Return ==
  /\ phase = "running" /\ phase' = "returned"
  /\ outcome' \in {o \in Outcomes : Warranted(o, Len(wire), budget)}
  /\ UNCHANGED <<frame, budget, wire>>

Next == Refuse \/ Begin \/ Deliver \/ DeliverAndFault \/ Return

Spec == Init /\ [][Next]_cvars
=============================================================================
