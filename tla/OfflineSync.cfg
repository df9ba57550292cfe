SPECIFICATION FairSpec
CONSTANTS
    sos = sos
    report = report
    refused = refused
    Signals = {sos, report, refused}
    Rank <- TypeRank
    Accepts <- AllButRefused
    Replays = {r1, r2}
    None = None
    MaxReceived = 2
    MaxFaults = 2
INVARIANTS QueuedIsKept DuplicatesOnlyAfterLoss
PROPERTIES AcceptableIsSent OutboxIsKept
