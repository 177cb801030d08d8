------------------------------- MODULE Returns -------------------------------
(***************************************************************************)
(* POST /returns (returns.service.ts createIn): a credit note against a    *)
(* bill, online and replayed by POST /sync/push.                           *)
(***************************************************************************)
EXTENDS Sales

Least(x, y) == IF x <= y THEN x ELSE y

\* soldLines: what the bill sold, per product and price; the body names no amount.
Sold(s) == sales[s].bill.items

RefundedQty(s, p) == Total(Prices, LAMBDA c : Refunded(s, <<p, c>>))

\* Mutant: what earlier credit notes took back is not subtracted.
RemainingOfSold(s, l) == Sold(s)[l]

\* assertRefundable: what is left of a line, and never more than is left of
\* the product.
Remaining(s, l) ==
    Least(Sold(s)[l] - Refunded(s, l),
          QtyOf(Sold(s), l[1]) - RefundedQty(s, l[1]))

\* assertRefundable: priced as the bill sold it, and no more than remains.
Refundable(s, items) ==
    \A l \in Lines : items[l] > 0 =>
        Sold(s)[l] > 0 /\ items[l] <= Remaining(s, l)

\* Mutant: the refund forgets the discount the bill was given.
RefundAmountGross(b, items) == Worth(items)

\* refundAmounts: the bill's discount at the rate it was given.
RefundAmount(b, items) ==
    Worth(items) - (IF b.subtotal > 0
                    THEN Rounded(Worth(items) * b.discount, b.subtotal)
                    ELSE 0)

\* reverseCustomer: the share of the points, floored.
PointsToReverse(x, refund) ==
    LET base == IF x.points > 0 THEN x.points ELSE PointsFor(x.bill.total)
    IN  IF x.bill.total > 0 THEN (base * refund) \div x.bill.total ELSE 0

ReverseCustomer(x, refund) ==
    [c \in Customers |->
        IF c = x.bill.cust
        THEN [points |-> AtLeastZero(customers[c].points - PointsToReverse(x, refund)),
              spend  |-> AtLeastZero(customers[c].spend - refund)]
        ELSE customers[c]]

\* The share of a mechanic's discount or markup this refund takes back.
InProportion(b, amount, refund) ==
    IF b.total > 0 THEN Rounded(amount * refund, b.total) ELSE 0

\* Mutant: every refund of a bill on the tab comes off the tab.
OffTabAlways(b, note, refund) ==
    IF note.method = DEDUCT_FROM_CREDIT \/ b.pay = MECHANIC_CREDIT THEN refund ELSE 0

\* credit_balance moves on 'หักจากเครดิต' and nothing else.
OffTab(b, note, refund) == IF note.method = DEDUCT_FROM_CREDIT THEN refund ELSE 0

\* lockMechanic: the two totals as they stand under the lock; the legacy one is
\* taken when total_discount is zero.
DiscountBase(m) ==
    IF mechanics[m].discount # 0 THEN mechanics[m].discount ELSE LegacyCredit[m]

ReverseMechanic(b, note, refund) ==
    [m \in Mechanics |->
        IF m = b.mech
        THEN LET x == mechanics[m]
             IN  [tab      |-> AtLeastZero(x.tab - OffTab(b, note, refund)),
                  sales    |-> AtLeastZero(x.sales - refund),
                  discount |-> AtLeastZero(DiscountBase(m) - InProportion(b, DiscountOf(b), refund)),
                  markup   |-> AtLeastZero(x.markup - InProportion(b, MarkupOf(b), refund))]
        ELSE mechanics[m]]

\* autoVoid: every unit of the bill has come back, this note included.
ReturnedWhole(s, items) ==
    Total(Lines, LAMBDA l : Refunded(s, l)) + Units(items) >= Units(Sold(s))

\* Mutant: a non-cash refund is stamped with the device's drawer, closed or not.
StampsActive(d, method) ==
    IF method = CASH THEN OpenShifts(d)
    ELSE IF ActiveShifts(d) = {} THEN {Nil} ELSE ActiveShifts(d)

\* Cash leaves the open drawer; another refund is stamped with it if there is one.
Stamps(d, method) ==
    IF method # CASH /\ OpenShifts(d) = {} THEN {Nil} ELSE OpenShifts(d)

\* existingReturn: the same note again is a replay, another one a collision.
ExistingReturn(r, s, n) ==
    IF returns[r] = Nil THEN "none"
    ELSE IF returns[r].sale = s /\ returns[r].note = n THEN "replayed"
    ELSE "CLIENT_ID_REUSED"

\* lockSale: the bill's row, held to the end; a voided one takes nothing back.
LockSale(s) == sales[s] # Nil /\ ~ sales[s].voided

\* insertReturn, insertLines
NoteRow(s, n, refund, h) == [sale |-> s, note |-> n, total |-> refund, shift |-> h]

CreateReturn(d, r, s, n) ==
    /\ devices[d] \in {"enrolled", "retired"}
    /\ ExistingReturn(r, s, n) = "none"
    /\ LockSale(s)
    /\ n.method = DEDUCT_FROM_CREDIT => sales[s].bill.mech # Nil
    /\ Refundable(s, n.items)
    /\ Fits(n.items)
    /\ LET x == sales[s]
           refund == RefundAmount(x.bill, n.items)
       IN  /\ \E h \in Stamps(d, n.method) :
                 returns' = [returns EXCEPT ![r] = NoteRow(s, n, refund, h)]
           /\ customers' = ReverseCustomer(x, refund)
           /\ mechanics' = ReverseMechanic(x.bill, n, refund)
           /\ sales' = [sales EXCEPT ![s] =
                          [x EXCEPT !.voided = ReturnedWhole(s, n.items)]]
    /\ stock' = Restored(n.items)
    /\ UNCHANGED <<cost, live, adjusted, boughtAt, payments, entries, shifts, orders, people,
                   overrides, reviews>>
=============================================================================
