SPECIFICATION FairSpec
CONSTANTS
    WorkStates = {"M2"}
    MaxFds = 3
    MaxMsgs = 1
    MaxOutages = 0
    MaxTimeouts = 0
    MaxPackets = 0
    MaxCrashes = 1
    Resend = 2
PROPERTY ClosedReconnects
