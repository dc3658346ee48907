SPECIFICATION FairSpec
CHECK_DEADLOCK FALSE
CONSTANTS
    Request = {r1, r2}
    p1 = p1
    p2 = p2
    h1 = h1
    h2 = h2
    NoPR = NoPR
    NoHead = NoHead
    PR = {p1, p2}
    Head = {h1, h2}
    Calls <- MixedCalls
    IdOrder <- NumericOrder
    FirstId = 1
    LastId = 2
    MaxConcurrent = 0
    MaxTime = 0
    MaxErrors = 1
    MaxRestarts = 1
    MaxCommands = 1
    OneCallAtATime = FALSE
INVARIANT SlotsAccounted
INVARIANT RunningSetExact
INVARIANT NoOrphanRunning
 
 
