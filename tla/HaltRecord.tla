----------------------------- MODULE HaltRecord -----------------------------
(***************************************************************************)
(* What the persisted halts of risk-mgmt promise, seen from outside the    *)
(* process: BLACK, once on record, leaves it only after a human's reset    *)
(* was accepted, and the halted session on record only moves forward and   *)
(* never past today.  A process that dies may take an acknowledgement that *)
(* was not yet on record with it, never the record.                        *)
(***************************************************************************)
EXTENDS Integers

VARIABLES
  day,     \* the current session
  black,   \* a latched BLACK is on record
  red,     \* the halted session on record, 0 for none
  ack      \* a human reset was accepted and is not yet on record

vars == <<day, black, red, ack>>

Init == day = 1 /\ black = FALSE /\ red = 0 /\ ack = FALSE

NextDay == day' = day + 1 /\ UNCHANGED <<black, red, ack>>

\* A snapshot reaches the record.  BLACK leaves it only on an acknowledged
\* reset, a halted session never gives way to an earlier one.
Store ==
  /\ black /\ ~black' => ack
  /\ black' \in BOOLEAN
  /\ red' \in red..day
  /\ ack' \in BOOLEAN /\ (ack' => ack)
  /\ UNCHANGED day

\* A human's reset was accepted, or the process that accepted it died.
AcceptReset == ack' = TRUE /\ UNCHANGED <<day, black, red>>
Forget      == ack' = FALSE /\ UNCHANGED <<day, black, red>>

Next == NextDay \/ Store \/ AcceptReset \/ Forget

Spec == Init /\ [][Next]_vars
=============================================================================
