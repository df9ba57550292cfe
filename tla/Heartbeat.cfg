SPECIFICATION FairSpec
CONSTANTS
    Sensors = {s1, s2}
    None = None
    HeartbeatInterval = 2
    CheckSpan = 2
INVARIANTS CollectedWasSilent
PROPERTIES SilentDroppedWasReported SilentLeavesTracking
