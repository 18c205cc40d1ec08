SPECIFICATION FairSpec
CONSTANTS
    Order <- TwoSensors
    Port <- OnePort
    Takes <- ShortPrefix
    Direct <- OthersDirect
    Retries = 2
    Deadline = 2
    Cuts = {"whole", "torn"}
    ErrCnt <- Unknown
    MaxWire = 1
    MaxBus = 2
INVARIANTS TypeOK AnswerTaken
PROPERTIES NoForeignValue AskedAgain
