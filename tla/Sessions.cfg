\* Two requests at a time for two users of one name; calls may fail.
CONSTANTS
    u1 = u1
    u2 = u2
    n1 = n1
    Worker = {w1, w2}
    User = {u1, u2}
    Google = {u2}
    NameOf <- MCNameOf
    Token = {t1, t2, t3}
    None = None
    Faults = {"storage"}
SPECIFICATION Spec
SYMMETRY Symmetry
INVARIANTS
    TypeOK
    SiblingsWereRaced
    LoginLeavesActive
PROPERTY RevokedStays
