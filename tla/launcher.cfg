CONSTANTS
    p1 = p1  p2 = p2  p3 = p3
    Child = {p1, p2, p3}
    Workers = 2
    Daemon = TRUE
    MaxSignals = 3
SPECIFICATION FairSpec
INVARIANTS ChildrenKnown
PROPERTIES Refilled TermEnds OrphansEnd
CHECK_DEADLOCK FALSE
