SPECIFICATION Spec
CONSTANTS
    k1 = k1  k2 = k2  d1 = d1  d2 = d2  w1 = w1  w2 = w2  a1 = a1  a2 = a2
    g1 = g1  g2 = g2  r1 = r1  r2 = r2  east = east  west = west  t1 = t1  t2 = t2
    NoKey = NoKey  NoAuth = NoAuth  NoStamp = NoStamp  NoAttempt = NoAttempt
    Keys = {k1, k2}
    Installed = NoKey
    Auths = {}
    Workers = {}
    Recoverers = {}
    Stamps = {t1}
    Writers = {w1, w2}
    Attempts = {a1, a2}
    DCs = {east, west}
    Home <- HomeSplit
    Faults = {"writer", "timeout"}
INVARIANTS
    PublishedPinned
PROPERTIES
    NamedObjectKept
SYMMETRY Symmetric
CHECK_DEADLOCK FALSE
