CONSTANTS
    c1 = c1  c2 = c2  k1 = k1  k2 = k2
    Msg = {c1, c2}
    Cast = {}
    CacheSize = 2
    MaxCopies = 2
    MaxDrops = 1
    MaxResends = 0
    MaxOutages = 0
SPECIFICATION Spec
INVARIANTS ReplyOfOwnRun
PROPERTIES NotAcceptedWhileRunning
CHECK_DEADLOCK FALSE
SYMMETRY CallSymmetry
