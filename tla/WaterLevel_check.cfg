SPECIFICATION Spec
CONSTANTS
    N = 2
    Slots = 2
    Levels = {3, 6, 8}
    Word = 8
    Stray = {0}
    Step = 2
    High = 5
    MaxTime = 3
    MaxSamples = 2
    MaxStops = 1
INVARIANTS TypeOK RowOfItsHour
PROPERTIES MoveIsReal MoveReported
