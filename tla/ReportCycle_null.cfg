SPECIFICATION Spec
CONSTANTS
    Order <- BackfillOrder
    Kind <- MCKind
    Interval <- MCInterval
    Table <- MCTable
    HourTable = "hour"
    MinCycle = 4
    Hour = 6
    Freeze = 3
    Start = 5
    MaxTime = 16
    MaxPause = 1
    MaxWait = 1
    MaxBoots = 0
    LinkUpFrom = 99
    ClockSets <- NoClockSets
    NoData = NoData
INVARIANTS EveryRecordAccounted
