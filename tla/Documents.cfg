\* Two users who create two documents, one of them with two connections.
CONSTANTS
    u1 = u1
    u2 = u2
    a1 = a1
    a2 = a2
    User = {u1, u2}
    Conn = {a1, a2}
    Owner <- MCOwner
    Doc = {d1, d2}
    None = None
    MaxSeq = 2
    Faults = {"storage", "retry", "account"}
SPECIFICATION Spec
INVARIANTS
    TypeOK
    AnsweredIsNumbered
PROPERTIES
    RolesAreEarned
SYMMETRY Symmetry
\* Sockets end and accounts are deleted; the run may end there.
CHECK_DEADLOCK FALSE
