\* Two trades of any generations, every decoder; every chain of four blocks, stored in
\* jobs of three; every range of three moments; two accounts of an exchange.  What there
\* is to do ends: no deadlock check.
CONSTANTS
    Programs = {"assembly", "storage", "push", "withdrawals", "trades", "orders",
                "reports", "token rates", "rate cache", "caps"}
    Shapes <- AllShapes
    MaxTrades = 2
    Handlers = {1, 2, 3, 4}
    None = None
    ReserveIDs = {r1, r2}
    ReserveAddrs = {a1, a2}
    r1 = r1
    r2 = r2
    Routes <- MCRoutes
    HeadBlock = 4
    JobBlocks = 2
    MaxStorageStops = 2
    Users = {u1, u2}
    LastMoment = 3
    TimeFrame = 1
    RetryTimes = 2
    BinanceAccounts <- MCAccounts
    WindowLimit = 1
    LastTime = 3
    LastBinanceId = 2
    MaxDisturbances = 1
    NoTx = 0
    TradeAccounts = {v1, v3}
    Pairs <- MCPairs
    UnsupportedPairs = {}
    BatchSize = 2
    TradePageSize = 1
    LastTrade = 2
    MaxTradeStops = 1
    Symbols = {s1, s2}
    OrdersPageSize = 1
    BatchDuration = 1
    LastHour = 3
    LastOrder = 2
    MaxOrderStops = 1
    Sales <- MCSales
    DayHours = 2
    LastSaleHour = 3
    MaxSales = 3
    Zones <- MCZones
    Questions <- MCQuestions
    NoCountry = "none"
    DefaultDay = 1
    LastRateDay = 5
    MaxRateStops = 2
    MaxGivenRanges = 1
    Askers = {k1, k2}
    DayTicks = 4
    TodayExpires = 1
    RateExpires = 3
    CallTime = 1
    LastRateTick = 6
    Traders = {u1, u2}
    Banned = {u2}
    CapWindow = 2
    VolumeExpiry = 2
    RunTime = 1
    DailyLimit <- MCDailyLimit
    TxLimit <- MCTxLimit
    LastCapTick = 6
    MaxDeals = 3
    MaxCacherStops = 1
SPECIFICATION Spec
CHECK_DEADLOCK FALSE
INVARIANTS
    TypeOK
    TradesAreAssembled
    SplitsHaveTheirReserves
    RunRegistersAll
    NothingBelowResumePoint
    WithdrawalsAreUpToDate
    ReportsAddUp
    AnswersAreRecent
