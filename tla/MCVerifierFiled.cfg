\* Verifier: an event filed under a transaction that is not its own.
CONSTANTS
    c = c
    d = d
    emit = emit
    other = other
    n = n
    m = m
    p = p
    q = q
    live = live
    home = home
    committed = committed
    rotated = rotated
    None = None
    Contracts = {c, d}
    EntryPoints = {emit, other}
    Names = {n, m}
    Parts = {p, q}
    States = {live}
    MaxSegment = 2
    Networks = {home}
    Hashes = {1, 2}
    MaxEvents = 4
    MaxGroups = 4
    Network = home
    Target <- MCTarget
    Requests <- MCRequests
    Landings <- MCLandings
    Unhashed <- MCUnhashed
    Keys = {committed, rotated}
    ExpectedKey = committed
    PageSize = 2
    MaxLies = 2
    MaxBlocks = 2
SPECIFICATION Spec
INVARIANTS
    LevelOneClean
CHECK_DEADLOCK FALSE
