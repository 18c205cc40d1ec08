SPECIFICATION Spec
CONSTANTS
    Order <- AllOrder
    Kind <- MCKind
    Interval <- MCInterval
    Table <- MCTable
    HourTable = "hour"
    MinCycle = 4
    Hour = 6
    Freeze = 6
    Start = 5
    MaxTime = 11
    MaxPause = 1
    MaxWait = 0
    MaxBoots = 0
    LinkUpFrom = 99
    ClockSets <- BackAndForth
    NoData = NoData
INVARIANT CheckTimeExact
PROPERTY LedgerSpec
