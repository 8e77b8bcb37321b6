SPECIFICATION Spec
CONSTANTS
    k1 = k1  k2 = k2  d1 = d1  d2 = d2  w1 = w1  w2 = w2  a1 = a1  a2 = a2
    g1 = g1  g2 = g2  r1 = r1  r2 = r2  east = east  west = west  t1 = t1  t2 = t2
    NoKey = NoKey  NoAuth = NoAuth  NoStamp = NoStamp  NoAttempt = NoAttempt
    Keys = {k1, k2}
    Installed = k1
    Auths = {d1}
    Workers = {g1}
    Recoverers = {r1}
    Stamps = {t1, t2}
    Writers = {w1}
    Attempts = {a1}
    DCs = {east}
    Home <- HomeEast
    Faults = {"worker", "recoverer", "writer", "sweep", "timeout"}
INVARIANTS
    TypeOK
    CondemnedFenced
PROPERTIES
    CommittedIrrevocable
SYMMETRY Symmetric
CHECK_DEADLOCK FALSE
