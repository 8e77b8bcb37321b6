SPECIFICATION Spec
CONSTANTS
    a = a
    b = b
    d1 = d1
    d2 = d2
    p1 = p1
    p2 = p2
    w1 = w1
    w2 = w2
    c = c
    Blocks = {a, b, c}
    Genuine = {a, b}
    DCs = {d1, d2}
    Promoters = {p1, p2}
    Writers = {w1, w2}
    MaxClock = 2
    None = None
SYMMETRY Symmetric
INVARIANT ClaimGenuine
INVARIANT ConsumableHolds
CHECK_DEADLOCK FALSE
