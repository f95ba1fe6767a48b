\* Publisher: providers that answer anything, chain steps under the queries.
CONSTANTS
    c1 = c1
    c2 = c2
    emit = emit
    other = other
    n = n
    p = p
    q = q
    live = live
    rotated = rotated
    keyless = keyless
    None = None
    Contracts = {c1, c2}
    EntryPoints = {emit, other}
    Names = {n}
    Parts = {p, q}
    States = {live, rotated, keyless}
    MaxSegment = 3
    Keyed <- MCKeyed
    Authorised <- MCAuthorised
    RequestLists <- MCRequestLists
    MaxPackages = 2
    MaxParts = 2
    MaxAttempts = 2
    BlockLimit = 4
    StrayExecutions <- MCStrayExecutions
    StrayIntents <- MCStrayIntents
    MaxBlocks = 2
SPECIFICATION Spec
INVARIANTS
    TypeOK
    SubmissionPublishesRequests
    PinnedReads
    SubmittedAsFinalized
    SubmissionFits
CHECK_DEADLOCK FALSE
