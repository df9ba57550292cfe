SPECIFICATION PreSyncFairSpec
CONSTANTS
    Runs = {r1, r2}
    Rows = {a, b}
INVARIANTS CompleteIsCached IncompleteIsRetried
PROPERTY RetriesSettle
