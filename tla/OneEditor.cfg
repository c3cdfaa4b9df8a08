\* One user edits, and calls and messages fail and the document is deleted.
CONSTANTS
    Conn = {c1}
    Author = {c1}
    Char <- MCChar
    Requests <- MCRequests
    Bases = {1, 2}
    InitialContent <- MCText
    Faults = {"storage", "retry", "publish", "message", "delete"}
    MaxSeq = 4
SPECIFICATION Spec
INVARIANTS
    TypeOK
    ContentIsReplay
