\* A transfer between the reserve and the company wallet.  The chain ends: no deadlock check.
CONSTANTS
    Programs = {"transactions"}
    Addresses <- MCAddresses
    TypeOf <- MCTypeOf
    Txs <- MCTxs
    LastTxBlock = 7
    Batch = 2
    FromBlock = 1
    MaxCrashes = 1
    Unset = Unset
    KnownAddresses = {a1, a2}
    AddressTypes = {t1, t2}
    MaxAddressId = 3
    MaxVersion = 2
    Readers = {q1}
    NotGiven = NotGiven
    Null = Null
    Tokens = {1, 2, 3, 4}
    KeyOf <- MCKeyOf
    TimeOf <- MCTimeOf
    Listers = {r1, r2}
    MaxListings = 3
    MaxRunStops = 1
    MaxTokensVersion = 3
    NoParent = NoParent
    BlockOf <- MCBlockOf
    FirstFeeBlock = 1
    MaxBlocks = 2
    LastFeeBlock = 7
    MaxFeeCrashes = 1
    Names = {n1, n2}
    AppAddresses = {a1, a2, a3}
    MaxAppId = 3
    NoName = NoName
    HeaderBlocks = {1, 2, 3, 4, 5}
    MaxCachedBlocks = 2
    Resolvers = {g1, g2}
    MaxRaces = 2
    NoBlock = NoBlock
    Profiles = {a1, a2, a3}
    MaxCacheSize = 2
    Clients = {c1, c2, c3}
    NoAddress = NoAddress
    Requests = {q1, q2}
    MinuteLength = 2
    LastTick = 4
SPECIFICATION Spec
CHECK_DEADLOCK FALSE
INVARIANTS
    WalletTransfersAreReturned
