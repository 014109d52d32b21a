CONSTANTS
    t1 = t1  t2 = t2  t3 = t3
    c1 = c1  c2 = c2  c3 = c3  c4 = c4 
    Caller = {t1, t2, t3}
    Connection = {c1, c2, c3, c4}
    NoConn = NoConn
    MaxSize = 2
    MinSize = 0
    MaxUndone = 1
SPECIFICATION FairSpec
INVARIANTS SlotsCounted NotShared NotLeaked UsableUnlessUndone
PROPERTIES SlotComesUp
CHECK_DEADLOCK FALSE
