-------------------------- MODULE ScheduleNegotiation --------------------------
(***************************************************************************)
(* What AssignmentsService promises a customer and a provider about one    *)
(* job, with every operation atomic: a window can be proposed as long as   *)
(* the assignment is not rejected, a confirmation agrees to the window     *)
(* that is on the table and never to an empty one, a rejection clears it.  *)
(***************************************************************************)
CONSTANTS
  Windows,    \* the visit windows that can be proposed
  NoWindow    \* no window is on the table

VARIABLES
  stage,      \* where the negotiation stands
  window      \* the window on the table

Init == stage = "none" /\ window = NoWindow

\* The customer accepts a quote (again, after a rejection).
Accept ==
  /\ stage \in {"none", "rejected"}
  /\ stage' = "open"
  /\ window' = NoWindow

Propose(w) ==
  /\ stage \notin {"none", "rejected"}
  /\ stage' = "proposed"
  /\ window' = w

Confirm ==
  /\ stage \notin {"none", "rejected"}
  /\ window # NoWindow
  /\ stage' = "agreed"
  /\ UNCHANGED window

Reject ==
  /\ stage # "none"
  /\ stage' = "rejected"
  /\ window' = NoWindow

\* The provider reports the work done, or the customer verifies it.
Finish ==
  /\ stage # "none"
  /\ stage' = "done"
  /\ UNCHANGED window

Revoke ==
  /\ stage # "none"
  /\ stage' = "none"
  /\ window' = NoWindow

Next ==
  \/ Accept \/ Confirm \/ Reject \/ Finish \/ Revoke
  \/ \E w \in Windows : Propose(w)

Spec == Init /\ [][Next]_<<stage, window>>
=============================================================================
