CONSTANTS
    t1 = t1  t2 = t2  t3 = t3
    Thread = {t1, t2}
    MaxCalls = 3
    MaxEpochs = 4
    MayFail = TRUE
    MayTimeout = TRUE
SPECIFICATION FairSpec
INVARIANTS BodiesExclude ReturnMeansComplete ListensWithExecutor
PROPERTIES ImplementsLifeCycle CallsReturn
CHECK_DEADLOCK FALSE
