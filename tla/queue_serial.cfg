SPECIFICATION Spec
SYMMETRY Symmetry
CONSTANTS
    Request = {r1, r2, r3}
    p1 = p1
    p2 = p2
    h1 = h1
    h2 = h2
    NoPR = NoPR
    NoHead = NoHead
    PR = {p1, p2}
    Head = {h1, h2}
    Calls <- SerialCalls
    IdOrder <- NumericOrder
    FirstId = 1
    LastId = 3
    MaxConcurrent = 2
    MaxTime = 1
    MaxErrors = 0
    MaxRestarts = 0
    MaxCommands = 0
    OneCallAtATime = TRUE
INVARIANT TypeOK
INVARIANT NoLostWakeup
INVARIANT SerialPerPr
 
 
PROPERTY OnlyDeadReviewsAreStale
PROPERTY ImplementsSlotPool
