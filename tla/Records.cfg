SPECIFICATION Spec
CONSTANTS
    q1 = q1
    q2 = q2
    u1 = u1
    u2 = u2
    u3 = u3
    g1 = g1
    g2 = g2
    g3 = g3
    l1 = l1
    l2 = l2
    t1 = t1
    t2 = t2
    p1 = p1
    n1 = n1
    o1 = o1
    e1 = e1
    e2 = e2
    s1 = s1
    s2 = s2
    k1 = k1
    a1 = a1
    y1 = y1
    Super = Super
    Dead = Dead
    None = None
    w1 = w1
    w2 = w2
SYMMETRY Symmetric
INVARIANTS
    TypeOK
    TablesAgree
    AccessFollowsGrants
    CredentialsEnd
    DeletionsExact
PROPERTIES
    StepsAllowed
CHECK_DEADLOCK FALSE
