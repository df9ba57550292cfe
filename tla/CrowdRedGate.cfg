SPECIFICATION FairSpec
CONSTANTS
    Gates = {g1, g2}
    Attendees = {a1}
    Sockets = {w1}
    NoData = NoData
    Absent = Absent
    Counts = {2}
    Capacity = 2
    AmberPercent = 60
    RedPercent = 80
    WindowTicks = 0
    MaxSent = 2
    MaxChannel = 1
    MaxHandlers = 1
PROPERTY RedGateIsLeft
CHECK_DEADLOCK FALSE
