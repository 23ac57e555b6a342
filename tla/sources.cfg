SPECIFICATION SourcesSpec
CONSTANTS
    MaxAge = 1
    Refresh = 1
    MaxTime = 2
    MaxFills = 2
    Processes = {"p", "q"}
    Executing = {"e"}
    Background = {"b", "c"}
    Home <- Owners
    Burst = 4
    Rate = 1
    Reserve = 2
    LocalBurst = 3
    LocalRate = 1
    Base = 1
    Extra = 1
    RetryAfter = 1
    Syncs = {score, request}
    Runs = {"r1", "r2"}
    NoRun = NoRun
    Operation = "wallet_scoring"
    Positions <- SourcePositions
    FillLots = {1, 8}
    MaxQueue = 2
    MaxLate = 1
    Equities = {2}
    Ratio = 1
    MinOrder = 4
    SourceMultiple = 7
    TotalMultiple = 7
    OtherExposures = {0, 12}
    Sizes <- SignedSizes
    MaxTraded = 2
    MaxRevision = 2
    Wallets = {1, 2}
    Slots = 1
    Top = 1
    Profiles <- Found
    MinTrades = 9
    MaxDrawdown = 5
    MinClosed = 5
    MinScore = 2
    MaxLoss = 5
    MaxChanges = 1
    Page = 3
    MaxPages = 3
    Target = 3
    Window = 2
    Overlap = 1
    RetentionAge = 1
    Days = {1}
    Ends = {0}
    Bursts = {1, 2}
    Spans = {1}
    MaxImports = 2
    MaxHistoryTime = 2
INVARIANTS SourcesTyped DecidesOnRecent ReserveKept CopyTracksSource 
           ExposureKeepsSlot SyncedIsComplete
PROPERTIES CapsHeld 
CHECK_DEADLOCK FALSE
