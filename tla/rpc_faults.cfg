CONSTANTS
    c1 = c1  c2 = c2  k1 = k1  k2 = k2
    Msg = {c1}
    Cast = {}
    CacheSize = 1
    MaxCopies = 4
    MaxDrops = 1
    MaxResends = 1
    MaxOutages = 1
SPECIFICATION Spec
INVARIANTS WaitersExact OnlyLateDiscarded ReplyNotLost
PROPERTIES ImplementsContract
CHECK_DEADLOCK FALSE
