SPECIFICATION Spec
CONSTANTS
    p1 = p1
    p2 = p2
    mk1 = mk1
    cu1 = cu1
    Nil = Nil
    Products = {p1, p2}
    Prices = {20, 33, 500}
    Devices = {d1}
    Mechanics = {mk1}
    Customers = {cu1}
    SaleIds = {s1, s2}
    ReturnIds = {r1, r2, r3, r4}
    PaymentIds = {pm1}
    EntryIds = {}
    ShiftIds = {h1}
    OrderIds = {}
    Bills <- MoneyBills
    Notes <- MoneyNotes
    Forms = {}
    Amounts = {0, 900}
    Deltas = {}
    Costs = {}
    Flags = {FALSE, TRUE}
    CreditLimit <- LedgerLimit
    LegacyCredit <- NoMechanics
    OpeningStock <- RefundStock
    OpeningCost <- RefundCost
    PointUnit = 1000
    MaxStock = 100
SYMMETRY MoneySymmetry
CONSTRAINT RefundsOrLedger
INVARIANTS RefundsWithinBill RefundedMoneyMatches
PROPERTY TabFollowsDocuments
CHECK_DEADLOCK FALSE
