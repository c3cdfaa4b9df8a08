\* Two users insert at once.
CONSTANTS
    Conn = {c1, c2}
    Author = {c1}
    Char <- MCChar
    Requests <- MCInsertions
    Bases = {1}
    InitialContent <- MCText
    Faults = {}
    MaxSeq = 3
SPECIFICATION Spec
INVARIANT AckedTextIsKept
