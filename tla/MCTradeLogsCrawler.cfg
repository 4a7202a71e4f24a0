\* The daemon and ranges crawled by hand, one process after the other: every
\* interleaving of mining, fetching, saving, two crashes, one reorganisation and one
\* lost COMMIT, over every generation boundary.
CONSTANTS
    MaxBlocks = 2
    StartV2 = 2
    StartV3 = 5
    StartV4 = 8
    Trades <- MCTrades
    MaxHead = 9
    FirstBlock = 1
    Flags <- DaemonAndRanges
    Confirmations = 1
    MaxReorgDepth = 1
    MaxReorgs = 1
    MaxWorkers = 2
    RecentBlocks = 3
    MaxCrashes = 2
    MaxLost = 1
    Unset = Unset
SPECIFICATION Spec
INVARIANTS
    TypeOK
    NoGapBelowLastBlock
    StoredIsCanonical
    OneFirstTrade
    RoundsAreComplete
    BigTradesAreQueued
PROPERTIES
    EventuallyStored
