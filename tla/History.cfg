SPECIFICATION Spec
CONSTANTS
    p1 = p1
    p2 = p2
    q3 = q3
    l1 = l1
    l2 = l2
    u1 = u1
    u2 = u2
    c1 = c1
    c2 = c2
    c3 = c3
    dx = dx
    dy = dy
    m1 = m1
    m2 = m2
    d1 = d1
    d2 = d2
    f1 = f1
    f2 = f2
    e0 = e0
    b1 = b1
    b2 = b2
    s1 = s1
    s2 = s2
    old = old
    i1 = i1
    i2 = i2
    g1 = g1
    g2 = g2
    Empty = Empty
    None = None
SYMMETRY Symmetric
INVARIANTS
    TypeOK
    SerialHistory
    MovedNotLost
    IdentityKept
    WitnessSafe
    
    FreshLeaderOwns
    BeliefEnds
PROPERTIES
    LocksKept
    StepsKeepOthers
CHECK_DEADLOCK FALSE
