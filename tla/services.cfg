CONSTANTS
    w1 = w1  w2 = w2  w3 = w3
    Worker = {w1, w2, w3}
    Interval = 2
    InitialDelay = 1
    DownTime = 3
    MaxCount = 4
    MaxRow = 2
SPECIFICATION Spec
INVARIANTS UpWhenCalm DownWhenDead RegisteredUnlessDeleted
SYMMETRY Perms
