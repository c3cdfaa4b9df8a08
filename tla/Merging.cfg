\* Every pair of edits of up to three characters on a text of four.
CONSTANTS
    Char <- MCChar
    BaseLength = 4
    MaxText = 3
    MaxHistory = 1
SPECIFICATION Spec
INVARIANTS
    DisjointEditsMerge
    DiscardedWasDone
\* The run is over once the incoming edit has been handled.
CHECK_DEADLOCK FALSE
