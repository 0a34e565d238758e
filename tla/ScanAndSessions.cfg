SPECIFICATION StudySpec
CONSTANTS
    MinInSample = 3
    MinOos = 2
    MaxFolds = 3
    Searchers = {weekly, user}
    Readers = {scan, page}
    ScanReader = scan
    Candles <- MCCandles
    Prices <- MCPrices
    Configs <- MCConfigs
    MaxDays = 4
    Ttl = 2
    MaxSaves = 2
    PointSets <- MCPointSets
    Outcomes <- MCOutcomes
    Settings <- MCSettings
    Breadths <- MCBreadths
    a = a
    b = b
    c = c
    Stocks = {a, b, c}
    Pages = {p}
    Ids = {1, 2, 3}
    Taken = {1, 2}
    MaxBatch = 1
    MaxCommands = 1
    Cash = {0, 21}
    Regimes <- MCRegimes
    Sector <- MCSector
    Cluster <- MCCluster
    Price <- MCPrice
    Volatility <- MCVolatility
    FirstBuyPct = 50
    MaxHoldings = 2
    HoldingsFloor = 1
    MaxPerSector = 1
    MaxPerCluster = 1
    AmountFloor = 40
INVARIANTS BestAreChosen FoldsAreSound ClustersConnect FreshWithinTtl FillsWithinCandle Books EngineAgrees ScanWithinLimits
PROPERTIES NoFlipFlop ManualRowsUntouched
CHECK_DEADLOCK FALSE
