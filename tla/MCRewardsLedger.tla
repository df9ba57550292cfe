-------------------------- MODULE MCRewardsLedger --------------------------
(* TLC instances of RewardsLedger.  The worths keep the shape of the two   *)
(* maps: one action they agree on, one that only the consumer's map names  *)
(* (the request path falls back to the default).                           *)
EXTENDS RewardsLedger, TLC

BothPaths == {"consumer", "request"}

CONSTANTS k1, k2, k3

ThreeActions ==
    [consumer |-> (k1 :> 1 @@ k2 :> 3 @@ k3 :> 1),
     request  |-> (k1 :> 1 @@ k2 :> 2 @@ k3 :> 1)]

\* Two rewards, and a cost below zero.
SomeCosts == {1, 2, -1}
=============================================================================
