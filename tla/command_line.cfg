SPECIFICATION Spec
CONSTANTS
    Callers = {c1, c2}
    Commands = {"start", "inbox", "requested", "history", "chat", "diagnose", "reset"}
    Prs = {p1, p2}
    Limit = 1
    InboxLimit = 3
    MaxMade = 2
    MaxEvents = 2
CHECK_DEADLOCK FALSE
INVARIANT ChatKeepsItsWord
PROPERTY InboxOffersNothingUnderReview
