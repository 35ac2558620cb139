SPECIFICATION Spec
CONSTANTS
    Files <- FilesOf
    TypeOrder <- TypesOf
    Strays <- StraysOf
    TopK = 2
    Histories <- HistoriesOf
    Concurrency = 2
    Configs <- ConfigsOf
    Lanes = {"bedrock", "default"}
    MaxPins = 3
INVARIANTS
    Isolated
    CreditIsEarned
    ReportWhole
    TalliesAgree
    Charges
    SweepWhole
PROPERTIES
    AsSerial
    SweepEnds
CHECK_DEADLOCK FALSE
