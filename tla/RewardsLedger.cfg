SPECIFICATION FairSpec
CONSTANTS
    k1 = k1
    k2 = k2
    k3 = k3
    Calls = {c1, c2, c3}
    Keys = {k1, k2, k3}
    None = None
    Costs <- SomeCosts
    MaxRedemptions = 4
    Paths <- BothPaths
    Worth <- ThreeActions
INVARIANTS BalanceAccountsForCredits CreditIsExclusive RedemptionsAddUp
PROPERTIES AwardsSettle AccountIsKept
CHECK_DEADLOCK FALSE
