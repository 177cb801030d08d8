SPECIFICATION Spec
CONSTANTS
    Reqs = {r1, r2, r3}
    Machines = {d1, d2}
    None = None
    TempLife = 2
    ResetLife = 1
    ChangeLife = 1
    AccessLife = 2
    CodeLife = 1
    StatusTtl = 1
    Grace = 2
    Skew = 1
    Keep = 2
    Day = 3
    Cut = 1
    End = 1
    Slow = 1
    MaxDeviceNo = 2
    MaxTime = 4
    MaxOps = 4
SYMMETRY AccessSymmetry
CONSTRAINT ThirdAlone
INVARIANTS NoFork ChainKept OldSessionsEnd ResetStands StopsWithinTtl
CHECK_DEADLOCK FALSE
