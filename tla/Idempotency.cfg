SPECIFICATION FairSpec
CONSTANTS
    Reqs = {r1, r2, r3}
    Keys = {k1}
    Prints = {p1, p2}
    Nobody = Nobody
    TTL = 1
    Ceiling = 1
    MaxTime = 2
INVARIANTS RecordIffWork SuccessIsReal
PROPERTIES ImplementsWriteOnce Served
CHECK_DEADLOCK FALSE
