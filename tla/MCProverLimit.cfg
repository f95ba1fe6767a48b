\* Prover: the limit on requests in flight.
CONSTANTS
    a = a
    b = b
    c = c
    d = d
    Requests = {a, b, c, d}
    MaxConcurrent = 2
    MaxAttempts = 2
    MaxPerTurn = 2
SPECIFICATION Spec
INVARIANT
    InFlightLimit
CHECK_DEADLOCK FALSE
