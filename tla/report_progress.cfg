CONSTANTS
    p1 = p1  p2 = p2  q1 = q1  gP = gP  gQ = gQ  caseA = caseA  caseB = caseB
    Step = {p1, p2, q1}
    Group = {gP, gQ}
    Case = {caseA, caseB}
    GroupOf <- TwoGroupOf
    CaseOf <- TwoCaseOf
    Prereq <- PBeforeQ
    Serial = {gP}
    LinuxStep = {q1}
    PoolSize = 1
    MaxRetries = 1
    MaxRepeats = 0
    CanExpire = TRUE
SPECIFICATION FairSpec
INVARIANTS LogCollected
PROPERTIES FinishUnlessLost
CHECK_DEADLOCK FALSE
