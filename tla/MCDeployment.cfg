\* Deployment: deploys and pins in teams of two, over shared files and boards.
CONSTANTS
    pin = pin
    emitPart = emitPart
    d1 = d1
    d2 = d2
    d3 = d3
    p1 = p1
    p2 = p2
    p3 = p3
    c1 = c1
    c2 = c2
    c3 = c3
    board = board
    stranger = stranger
    x1 = x1
    x2 = x2
    x3 = x3
    drawnFile = drawnFile
    keyFile = keyFile
    keptFile = keptFile
    g1 = g1
    g2 = g2
    None = None
    Contracts = {c1, c2, c3, board, stranger}
    EntryPoints = {pin, emitPart}
    Names = {}
    Parts = {}
    States = {}
    MaxSegment = 5
    Runs = {d1, d2, d3, p1, p2, p3}
    Deploys = {d1, d2, d3}
    Teams <- MCTeams
    Paths = {x1, x2, x3}
    Files = {drawnFile, keyFile, keptFile}
    Out <- MCOut
    SecretFile <- MCSecretFile
    KeyFile <- MCKeyFile
    Reuses <- MCReuses
    Address <- MCAddress
    Digest <- MCDigest
    Digests = {g1, g2}
    Pin = pin
    Draws = {1, 2}
    Answers <- MCAnswers
    Others <- MCOthers
    Genesis <- MCGenesis
    Kept <- MCKept
    MaxMaintained = 1
    MaxChain = 3
SPECIFICATION Spec
INVARIANTS
    TypeOK
    KeysKept
    VerifiedIsTrue
    QuietVerifies
CHECK_DEADLOCK FALSE
