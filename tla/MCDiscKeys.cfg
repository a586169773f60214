CONSTANTS
    g1 = g1
    g2 = g2
    default = default
    other = other
    p1 = p1
    p2 = p2
    w1 = w1
    w2 = w2
    Gens = {g1, g2}
    Prefixes = {default, other}
    Default = default
    Parts = {p1, p2}
    Passwords = {w1, w2}
    Chosen = {w1}
SPECIFICATION Spec
INVARIANTS
    TypeOK
    SameNameOpens
    RefusalExplained
    OkMeansAll
PROPERTIES
    WindowRecovers
CHECK_DEADLOCK FALSE
