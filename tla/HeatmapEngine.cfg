SPECIFICATION HeatmapSpec
CONSTANTS
    z1 = z1
    z2 = z2
    Zones = {z1, z2}
    NoData = NoData
    Counts = {1, 2}
    Capacity = 3
    AmberPercent = 50
    RedPercent = 80
    WindowTicks = 1
    MaxSent = 3
    MaxChannel = 1
SYMMETRY ZoneSymmetry
INVARIANTS EachReadingOnce SnapshotNotInflated
PROPERTY PublishedIsStored
CHECK_DEADLOCK FALSE
