SPECIFICATION RowLocksSpec
CONSTANTS
    None = None
    d1 = d1
    d2 = d2
    m1 = m1
    old = old
    credit = credit
    cash = cash
    other = other
    void = void
    back1 = back1
    back2 = back2
    pay = pay
    owed = owed
    open = open
    close = close
    out = out
    retire = retire
    po1 = po1
    receive = receive
    fix = fix
    Jobs <- MCJobs
    Body <- MCBody
    Before = {old}
    Devices = {d1, d2}
    Mechanics = {m1}
    Parts = {1, 2}
    CreditLimit = 3
    OpeningStock <- MCOpeningStock
    OpeningTab <- MCOpeningTab
    MaxStarted = 3
INVARIANT NoDeadlock
PROPERTY ImplementsOneByOne
CHECK_DEADLOCK FALSE
