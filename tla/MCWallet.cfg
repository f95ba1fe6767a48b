\* Wallet: two wallets at one cache file.
CONSTANTS
    w1 = w1
    w2 = w2
    shielded = shielded
    dust = dust
    None = None
    Wallets = {w1, w2}
    SubWallets = {shielded, dust}
    MaxIndex = 1
    StableSamples = 2
    Timeout = 3
    Patience = 1
SPECIFICATION FairSpec
INVARIANTS
    TypeOK
    SyncedIsComplete
    CacheIsClean
PROPERTIES
    OwnersKept
    CallsEnd
CHECK_DEADLOCK FALSE
