SPECIFICATION SessionFairSpec
CONSTANTS
    Requests = {r1, r2}
    Handlers = {h1, h2}
    MaxPairs = 3
    MaxKills = 1
INVARIANTS ExchangedOnce HeldTokenIsGood
PROPERTY RequestsSettle
