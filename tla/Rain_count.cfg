SPECIFICATION Spec
CONSTANTS
    Slots = 2
    DayHours = 2
    DayStart = 1
    Unit = 1
    Threshold = 1
    Byte = 3
    MaxTime = 3
    MaxPulses = 2
    MaxStops = 1
INVARIANTS TypeOK TotalRain HourRain SlotRain DayRain AlarmRaised
