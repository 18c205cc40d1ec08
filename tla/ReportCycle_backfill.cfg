SPECIFICATION Spec
CONSTANTS
    Order <- BackfillOrder
    Kind <- MCKind
    Interval <- MCInterval
    Table <- MCTable
    HourTable = "hour"
    MinCycle = 4
    Hour = 6
    Freeze = 3
    Start = 5
    MaxTime = 15
    MaxPause = 2
    MaxWait = 1
    MaxBoots = 1
    LinkUpFrom = 99
    ClockSets <- NoClockSets
    NoData = NoData
INVARIANTS TypeOK AccountedFor RecordedOnce DataOfItsPeriod
PROPERTY LedgerSpec
