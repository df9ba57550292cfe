---------------------------- MODULE PointsAccount ----------------------------
(***************************************************************************)
(* What the rewards service promises an attendee: one account, on which    *)
(* every action counts once, for what one of the two ways in says it is    *)
(* worth, and from which a reward is paid whole or not at all              *)
(* (services/rewards-service/src/kafka/consumer.ts, "Idempotent: duplicate *)
(* events (same deduplication key) are silently discarded").  The cost is  *)
(* the client's: one below zero is not refused, and adds points.           *)
(* RewardsLedger is shown to implement it.                                 *)
(***************************************************************************)
EXTENDS Integers

CONSTANTS Keys, Paths, Worth, Costs

VARIABLES
    total,      \* the points the attendee may spend
    counted     \* the actions that were counted

accountVars == <<total, counted>>

Init == total = 0 /\ counted = {}

Award(p, k) ==
    /\ k \notin counted
    /\ total' = total + Worth[p][k]
    /\ counted' = counted \cup {k}

\* The first action that counts opens the account.
Redeem(cost) ==
    /\ counted # {} /\ total >= cost
    /\ total' = total - cost
    /\ UNCHANGED counted

Next == (\E p \in Paths, k \in Keys : Award(p, k)) \/ (\E cost \in Costs : Redeem(cost))

Spec == Init /\ [][Next]_accountVars
=============================================================================
