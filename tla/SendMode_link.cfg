SPECIFICATION FairSpec
CONSTANTS
    ReportCmd <- Xiaoshi
    CenterCmd <- TwoCommands
    Factory <- FactoryCommands
    Retries = 3
    MaxReports = 2
    MaxCommands = 1
    MaxFlight = 1
    Answers <- Confirms
    NoCmd = NoCmd
INVARIANTS TypeOK AckMeansReceived CommandOnce
PROPERTIES CommandDone WaitReturns
