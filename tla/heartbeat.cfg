CONSTANTS
    w1 = w1  w2 = w2  w3 = w3
    Worker = {w1, w2, w3}
    Heartbeat = Heartbeat
    NoOne = NoOne
SPECIFICATION FairSpec
INVARIANTS OneHolder NoLostWakeup
PROPERTIES CloseEnds
