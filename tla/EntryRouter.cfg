SPECIFICATION EntryFairSpec
CONSTANTS
    Gates = {g1, g2, g3}
    Attendees = {a1}
    Sockets = {w1}
    NoData = NoData
    Absent = Absent
    Snapshots <- TwoLevels
    Deltas = {{g1, g2}, {g3}}
    MaxChannel = 1
    MaxHandlers = 2
PROPERTIES PushIsNotOutOfDate RedGateIsLeft
