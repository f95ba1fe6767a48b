\* PackageReader: up to four deliveries of one transaction's events.
CONSTANTS
    c = c
    d = d
    emit = emit
    other = other
    n = n
    m = m
    p = p
    q = q
    live = live
    home = home
    away = away
    hash = hash
    None = None
    Contracts = {c, d}
    EntryPoints = {emit, other}
    Names = {n, m}
    Parts = {p, q}
    States = {live}
    MaxSegment = 2
    Networks = {home, away}
    Hashes = {hash}
    MaxEvents = 8
    MaxGroups = 8
    Candidates <- MCCandidates
    Home = home
    Hash = hash
    Target <- MCTarget
    ReadOptions <- MCReadOptions
    Noise <- MCNoise
    MaxDeliveries = 4
SPECIFICATION Spec
INVARIANTS
    TypeOK
    OrderFree
    PlacedIsWhole
    VerdictIsLedger
PROPERTY
    RejectedForGood
CHECK_DEADLOCK FALSE
