\* Two users edit and replay at once; a presence key may expire meanwhile.
CONSTANTS
    Conn = {c1, c2}
    Author = {c1}
    Char <- MCChar
    Requests <- MCInsertions
    Bases = {1}
    InitialContent <- MCText
    Faults = {"expiry"}
    MaxSeq = 3
SPECIFICATION FairSpec
INVARIANTS
    GapsArePending
PROPERTIES
    HandlersFinish
    CommittedIsPublished
