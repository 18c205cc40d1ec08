SPECIFICATION FairSpec
CONSTANTS
    WorkStates = {"M2", "M4"}
    MaxFds = 2
    MaxMsgs = 2
    MaxOutages = 2
    MaxTimeouts = 3
    MaxPackets = 1
    MaxCrashes = 1
    Resend = 2
INVARIANTS TypeOK AtMostOnce
PROPERTIES AlwaysOnlineAgain BufferEmptied
