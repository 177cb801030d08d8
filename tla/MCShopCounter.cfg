SPECIFICATION Spec
CONSTANTS
    p1 = p1
    p2 = p2
    mk1 = mk1
    cu1 = cu1
    Nil = Nil
    Products = {p1, p2}
    Prices = {3}
    Devices = {d1, d2, d3}
    Mechanics = {mk1}
    Customers = {}
    SaleIds = {s1}
    ReturnIds = {r1, r2}
    PaymentIds = {pm1}
    EntryIds = {e1}
    ShiftIds = {h1, h2, h3}
    OrderIds = {o1, o2}
    Bills <- CounterBills
    Notes <- CounterNotes
    Forms <- StockForms
    Amounts = {2}
    Deltas <- StockDeltas
    Costs = {9}
    Flags = {FALSE, TRUE}
    CreditLimit <- LedgerLimit
    LegacyCredit <- NoMechanics
    OpeningStock <- CounterStock
    OpeningCost <- CounterCost
    PointUnit = 1000
    MaxStock = 5
SYMMETRY CounterSymmetry
CONSTRAINT DrawersMachinesOrGoods
INVARIANTS DrawersOrderly NoDayLost StockExplained CostWithinPrices
PROPERTY ClosedDrawerFrozen
CHECK_DEADLOCK FALSE
