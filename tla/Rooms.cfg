\* Two users join and leave; clients drop, send bad messages, publications get lost.
CONSTANTS
    c1 = c1
    c2 = c2
    u1 = u1
    u2 = u2
    Conn = {c1, c2}
    User = {u1, u2}
    UserOf <- MCOwnUser
    Listener = listener
    Faults = {"socket", "message", "publish"}
SPECIFICATION FairSpec
INVARIANTS
    TypeOK
    JoinedIsComplete
    EmptyRoomIsAwaited
    MembershipIsBacked
PROPERTIES
    PingingRemains
    
\* A connection is used once: the run is over when all have ended.
CHECK_DEADLOCK FALSE
