SPECIFICATION FairSpec
CONSTANTS
    Versions <- Branches
    First <- Delivered
    Interval = 2
    MaxFds = 5
    MaxOffers = 1
    MaxFaults = 2
    MaxLosses = 1
    MaxSwitch = 1
INVARIANTS TypeOK LeaksCounted
PROPERTIES NoDowngrade 
