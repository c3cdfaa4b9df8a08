\* Two users edit at once, and calls fail, sockets drop, presence keys expire.
CONSTANTS
    Conn = {c1, c2}
    Author = {}
    Char <- MCChar
    Requests <- MCInsertions
    Bases = {1}
    InitialContent <- MCText
    Faults = {"storage", "retry", "socket", "expiry"}
    MaxSeq = 3
SPECIFICATION Spec
SYMMETRY Symmetry
INVARIANTS
    NumbersAreUnique
    AnnouncedIsCommitted
    CommittedIsLogged
    DraftIsOfEdit
PROPERTIES
    ReplayReadsPublished
    RefinesLedger
