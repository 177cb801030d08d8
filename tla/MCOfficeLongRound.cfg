SPECIFICATION OfficeSpec
CONSTANTS
    None = None
    Parts = {"pull"}
    w1 = w1  w2 = w2  x1 = x1  x2 = x2  y1 = y1  y2 = y2
    \* quotes
    q1 = q1  b1 = b1  b2 = b2
    Quotes = {q1, q2}
    QuoteBills = {b1, b2}
    QuoteOf <- MCQuoteOf
    Converts = {b2}
    QuoteRequests = {w1, w2}
    LastDay = 1
    ValidDays = 0
    KeepDays = 0
    MaxQuoteRequests = 3
    \* images
    Catalogue = {x1, x2}
    Bills = {s1}
    PhotoIds = {x1, x2}
    Pictures = {y1, y2}
    Uploads = {w1, w2}
    MaxWaiting = 1
    MaxPhotos = 1
    Grace = 1
    LastTick = 1
    MaxWork = 2
    \* the pull
    RowCount = 2
    Writers = {w1, w2}
    Ceiling = 1
    Rewind = 2
    PageLimit = 1
    MaxRound = 2
    LastSecond = 3
    MaxWrites = 2
    Traded = {}
    \* the log level
    Levels = {info, debug}
    EnvLevel = info
    Garbage = garbage
    MaxPuts = 4
    \* payment accounts
    a1 = a1  a2 = a2  a3 = a3
    AccountIds = {a1, a2, a3}
    Values = {x1, x2}
    AccountWriters = {w1, w2}
    MaxActive = 2
    MaxEdits = 3
    \* people, parked bills, review items
    Customers = {c1}
    Mechanics = {x1, x2}
    Carts = {cart1}
    Items = {item1}
    Clerks = {w1, w2}
    MaxOwed = 1
    MaxTasks = 4
    \* attempts
    Callers = {w1, w2}
    Limit <- MCLimit
    Plan = "loadtest"
    LastSlice = 1
    MaxTries = 3
SYMMETRY Symmetric
INVARIANTS
    NothingMissed
CHECK_DEADLOCK FALSE
