\* Publication: two runs given one path at the same time.
CONSTANTS
    c = c
    emit = emit
    other = other
    n = n
    p = p
    q = q
    live = live
    rotated = rotated
    home = home
    hash = hash
    r1 = r1
    r2 = r2
    None = None
    Contracts = {c}
    EntryPoints = {emit, other}
    Names = {n}
    Parts = {p, q}
    States = {live, rotated}
    MaxSegment = 5
    Networks = {home}
    Hashes = {hash}
    MaxEvents = 4
    MaxGroups = 8
    Runs = {r1, r2}
    Paths = {r1}
    PathOf <- MCPathOf
    Overlapping = TRUE
    Asked <- MCAsked
    Target <- MCTarget
    Drafts <- MCDrafts
    Others <- MCOthers
    StateChanges <- MCStateChanges
    TTL = 1
    Grace = 2
    Ahead <- MCAhead
    MaxAttempts = 1
    Horizon = 3
SPECIFICATION Spec
INVARIANT
    RecordedFirst
CHECK_DEADLOCK FALSE
