\* The resolver on every chain of three days and a bit; the fetcher of rates over four
\* days, with a reserve that may be added late; withdrawals of two accounts.  Days,
\* blocks and ids run out, and a job that fails after the end of the range hangs the
\* fetcher: no deadlock check.
CONSTANTS
    Programs = {"resolver", "fetcher", "huobi withdrawals", "binance withdrawals"}
    Reserves = {r1, r2}
    Created <- OneLater
    MaxDay = 4
    MaxFailures = 1
    MaxBlock = 12
    DaysOf <- MCDays
    BlockStep = 2
    MaxEstimate = 7
    HuobiAccounts <- MCAccounts
    Currencies = {c1, c2}
    HuobiPageSize = 1
    LastHuobiId = 2
    MaxHuobiStops = 1
    BinanceAccounts <- MCAccounts
    WindowLimit = 1
    LastTime = 3
    LastBinanceId = 1
    MaxDisturbances = 1
    NoTx = 0
SPECIFICATION Spec
CHECK_DEADLOCK FALSE
INVARIANTS
    TypeOK
    DaysAreStored
    OnlyLastBlocks
    NoWithdrawalIsPassed
PROPERTIES
    NextIsNextDay
    CallsEnd
    AllIsStored
