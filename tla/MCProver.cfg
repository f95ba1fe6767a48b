\* Prover: three requests through one slot, two attempts each.
CONSTANTS
    a = a
    b = b
    c = c
    d = d
    Requests = {a, b, c}
    MaxConcurrent = 1
    MaxAttempts = 2
    MaxPerTurn = 2
SPECIFICATION FairSpec
INVARIANTS
    TypeOK
    NoIdleSlot
PROPERTY
    AllEnd
CHECK_DEADLOCK FALSE
