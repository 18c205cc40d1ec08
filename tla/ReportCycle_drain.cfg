SPECIFICATION Spec
CONSTANTS
    Order <- BackfillOrder
    Kind <- MCKind
    Interval <- DrainInterval
    Table <- MCTable
    HourTable = "hour"
    MinCycle = 4
    Hour = 6
    Freeze = 30
    Start = 5
    MaxTime = 37
    MaxPause = 1
    MaxWait = 2
    MaxBoots = 0
    LinkUpFrom = 16
    ClockSets <- NoClockSets
    NoData = NoData
INVARIANTS BacklogDrained NoPeriodSkipped
