--------------------------- MODULE OrderLifecycle ---------------------------
(***************************************************************************)
(* What the kiosk promises about an order: it is placed, and then moves    *)
(* one stage at a time along STATUS_TRANSITIONS, never back, never past a  *)
(* stage (services/kiosk-service/src/routes/orders.ts, "Valid status       *)
(* transitions").  KioskOrders is shown to implement it.                   *)
(***************************************************************************)
CONSTANT Orders

VARIABLE stage  \* stage[o]: how far order o has come, "none" before it is placed

\* STATUS_TRANSITIONS, with the creation of the order as its first transition.
NextStage == [none |-> "pending", pending |-> "preparing",
              preparing |-> "ready", ready |-> "collected"]

Stages == {"none", "pending", "preparing", "ready", "collected"}

Init == stage = [o \in Orders |-> "none"]

Advance(o) ==
    /\ stage[o] # "collected"
    /\ stage' = [stage EXCEPT ![o] = NextStage[stage[o]]]

Next == \E o \in Orders : Advance(o)

Spec == Init /\ [][Next]_stage
=============================================================================
