\* Two users, two documents, one server process.
CONSTANTS
    Conn = {c1, c2}
    Doc = {d1, d2}
    Server = {s1}
    None = None
    MaxEvents = 5
    Faults = {"publish", "listener"}
SPECIFICATION FairSpec
INVARIANTS
    TypeOK
    OneRoomIsLossless
    OldEventsAreOfReturners
PROPERTIES
    TypingEnds
    EventsArrive
\* The run is over once the clients have sent their messages.
CHECK_DEADLOCK FALSE
