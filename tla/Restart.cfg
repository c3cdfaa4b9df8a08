\* Two connections of one user: calls fail, clients drop, the server restarts.
CONSTANTS
    c1 = c1
    c2 = c2
    u1 = u1
    u2 = u2
    Conn = {c1, c2}
    User = {u1}
    UserOf <- MCSameUser
    Listener = listener
    Faults = {"storage", "socket", "crash", "repeat", "document"}
SPECIFICATION Spec
SYMMETRY MCAlike
INVARIANTS
    JoinedIsComplete
\* A connection is used once: the run is over when all have ended.
CHECK_DEADLOCK FALSE
