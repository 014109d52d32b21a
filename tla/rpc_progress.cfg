CONSTANTS
    c1 = c1  c2 = c2  k1 = k1  k2 = k2
    Msg = {c1, k1}
    Cast = {k1}
    CacheSize = 1
    MaxCopies = 2
    MaxDrops = 1
    MaxResends = 0
    MaxOutages = 1
SPECIFICATION FairSpec
INVARIANTS RequestNotLost
PROPERTIES WaitEnds DeliveryEnds CastRuns
CHECK_DEADLOCK FALSE
