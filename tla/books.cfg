SPECIFICATION BooksSpec
CONSTANTS
    Sources = {s1, s2}
    Exchange = exchange
    Lots = {1}
    MaxTrades = 3
    Consumers = {consumer}
    Recovery = recovery
    Operator = operator
    Free = free
    Plan <- Fills
    MaxTroubles = 1
    Coins = {btc, eth}
    Isolated = {eth}
    Prices = {3, 4}
    EntryLots = {1}
    StartingBalance = 6
    Rate = 1
    EntryLeverage = 2
    MaxLeverage <- Leverages
    DefaultLeverage = 2
    DayLimit = 60
    WeekLimit = 60
    PeakLimit = 25
    SourceLimit = 80
    Day = 1
    Week = 1
    Retention = 1
    Lookback = 1
    SnapshotEvery = 1
    MaxTime = 2
    MaxEntries = 2
    MaxRiskTroubles = 1
    Overlap = 1
    WeekLength = 3
    Lookbacks = {1, 3}
    MaxFlowTime = 7
INVARIANTS BooksTyped  OneSided FundingBooked FlowsCounted
PROPERTIES ExecutedOnce DrawdownHeld
CHECK_DEADLOCK FALSE
