CONSTANTS
    p1 = p1  p2 = p2  q1 = q1  gP = gP  gQ = gQ  caseA = caseA  caseB = caseB
    Step = {p1, p2, q1}
    Group = {gP, gQ}
    Case = {caseA, caseB}
    GroupOf <- TwoGroupOf
    CaseOf <- TwoCaseOf
    Prereq <- NoPrereq
    Serial = {}
    LinuxStep = {p2}
    PoolSize = 2
    MaxRetries = 0
    MaxRepeats = 1
    CanExpire = FALSE
SPECIFICATION Spec
INVARIANTS OnlyAccepted NoOverlapNoLoss EarlyFinishOnlyAfterFault
PROPERTIES CommitLogsOwnOutput
CHECK_DEADLOCK FALSE
