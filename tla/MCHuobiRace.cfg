\* Two currencies of an account, fetched while withdrawals are made.
CONSTANTS
    Programs = {"huobi withdrawals"}
    Reserves = {r1, r2}
    Created <- OneLater
    MaxDay = 4
    MaxFailures = 0
    MaxBlock = 12
    DaysOf <- MCDays
    BlockStep = 2
    MaxEstimate = 7
    HuobiAccounts <- MCAccounts
    Currencies = {c1, c2}
    HuobiPageSize = 1
    LastHuobiId = 2
    MaxHuobiStops = 1
    BinanceAccounts <- MCAccounts
    WindowLimit = 1
    LastTime = 3
    LastBinanceId = 1
    MaxDisturbances = 1
    NoTx = 0
SPECIFICATION Spec
CHECK_DEADLOCK FALSE
INVARIANTS
    AllUpToLatestAreReturned
