SPECIFICATION Spec
CONSTANTS
    q1 = q1
    q2 = q2
    q3 = q3
    q4 = q4
    user = user
    link = link
    client = client
    alice = alice
    bob = bob
    n1 = n1
    t1 = t1
    t2 = t2
    u1 = u1
    l1 = l1
    o1 = o1
    e1 = e1
    s1 = s1
    p1 = p1
    p2 = p2
    None = None
    NoGate = NoGate
    Reset = Reset
    Drop = Drop
    Dead = Dead
    Super = Super
PROPERTIES
    RequestsEnd
    LeadershipReturns
    PurgesEnd
CHECK_DEADLOCK FALSE
