SPECIFICATION FairSpec
CONSTANTS
    Num <- OneAndTwelve
    Key <- Keys
    Val <- Values
    Default <- FactoryFile
    Installed <- InstalledFile
    MaxCmds = 3
    MaxLosses = 2
    NoVal = NoVal
    Torn = Torn
CHECK_DEADLOCK FALSE
INVARIANTS TypeOK PasswordWasSet StartsAgain
PROPERTY ChangeSaved
