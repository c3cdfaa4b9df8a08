\* Three requests for two addresses and two names.
CONSTANTS
    r1 = r1
    r2 = r2
    r3 = r3
    a1 = a1
    a2 = a2
    n1 = n1
    n2 = n2
    Request = {r1, r2, r3}
    Asks <- MCAsks
    Address = {a1, a2}
    Name = {n1, n2}
    None = None
    MaxRetries = 1
    Tries <- MCTries
    Faults <- MCFaults
SPECIFICATION FairSpec
INVARIANTS
    TypeOK
    VerifiedByOwnMail
    
    RetiredStayRetired
    MarkedIsNotSentAgain
PROPERTIES
    CodesAdvance
    VerifiedKeepsPassword
    AnsweredIsSettled
\* A request is used once: the run is over when all are answered.
CHECK_DEADLOCK FALSE
