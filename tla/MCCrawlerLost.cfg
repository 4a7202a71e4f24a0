\* COMMIT may fail: a job is completed although nothing of it is stored.
CONSTANTS
    MaxBlocks = 2
    StartV2 = 2
    StartV3 = 5
    StartV4 = 8
    Trades <- MCTrades
    MaxHead = 7
    FirstBlock = 1
    Flags <- Daemon
    Confirmations = 1
    MaxReorgDepth = 1
    MaxReorgs = 0
    MaxWorkers = 2
    RecentBlocks = 3
    MaxCrashes = 0
    MaxLost = 1
    Unset = Unset
SPECIFICATION Spec
INVARIANTS
    CompletedJobIsStored
