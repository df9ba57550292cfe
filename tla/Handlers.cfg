SPECIFICATION FairSpec
CONSTANTS
    Subject <- VenueSubjects
    Items = {i1, i2}
    Calls = {c1, c2, p1, p2}
    Timers = {p1, p2}
    MaxFaults = 1
    Nodes = {"n1", "n2", "n3", "n4"}
    From = "n1"
    To = "n4"
    Graphs <- SmallGraphs
    RedZones <- SmallRedZones
    INFINITY = 1000
INVARIANTS AnnouncedIsRecorded OnceOnly ActiveIsAnnounced RoutesAreCheapest 
PROPERTIES LifecycleIsKept ShownInOrder ScreenCatchesUp
CHECK_DEADLOCK FALSE
