SPECIFICATION FairSpec
CONSTANTS
    t1 = t1
    t2 = t2
    t3 = t3
    Readers = {r1, r2}
    Writers = {w1}
    Tokens = {t1, t2, t3}
    Polls = 1
    None = None
CONSTRAINT DrawnInOrder
INVARIANTS NoStaleAnswer OneLoader
PROPERTY Answered
CHECK_DEADLOCK FALSE
