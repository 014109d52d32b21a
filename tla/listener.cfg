CONSTANTS
    m1 = m1  m2 = m2  m3 = m3
    Message = {m1, m2, m3}
    NoMessage = NoMessage
    PoolSize = 2
SPECIFICATION FairSpec
INVARIANTS ClosedWhenQuiet TaskPerWaiter
PROPERTIES ImplementsDrain ShutdownEnds
CHECK_DEADLOCK FALSE
