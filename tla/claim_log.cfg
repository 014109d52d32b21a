CONSTANTS
    p1 = p1  p2 = p2  q1 = q1  gP = gP  gQ = gQ  caseA = caseA  caseB = caseB
    Step = {p1, p2}
    Group = {gP}
    Case = {caseA}
    GroupOf <- OneGroupOf
    CaseOf <- OneCaseOf
    Prereq <- OnePrereq
    Serial = {}
    LinuxStep = {}
    PoolSize = 2
    MaxRetries = 0
    MaxRepeats = 0
    CanExpire = FALSE
SPECIFICATION Spec
INVARIANTS LogCollected
CHECK_DEADLOCK FALSE
