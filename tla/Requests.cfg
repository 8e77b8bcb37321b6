SPECIFICATION Spec
CONSTANTS
    q1 = q1
    q2 = q2
    q3 = q3
    q4 = q4
    r1 = r1
    r2 = r2
    r3 = r3
    user = user
    link = link
    client = client
    alice = alice
    bob = bob
    n1 = n1
    n2 = n2
    s1 = s1
    s2 = s2
    s3 = s3
    t1 = t1
    t2 = t2
    u1 = u1
    u2 = u2
    None = None
    k1 = k1
    k2 = k2
    x1 = x1
    x2 = x2
    x3 = x3
    NoGate = NoGate
    Reset = Reset
    Drop = Drop
SYMMETRY Symmetric
INVARIANTS
    TypeOK
    LimitsHold
    NothingLeaks
    NoLostWakeup
    OnePublisher
    AnswersTrue
    PublishedHeld
PROPERTIES
    EditsKept
CHECK_DEADLOCK FALSE
