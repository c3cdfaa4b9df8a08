\* Two edits logged since the base of the third.
CONSTANTS
    Char <- MCChar
    BaseLength = 3
    MaxText = 1
    MaxHistory = 2
SPECIFICATION Spec
INVARIANT DeletesWhatWasMeant
CHECK_DEADLOCK FALSE
