-------------------------------- MODULE Sales --------------------------------
(***************************************************************************)
(* POST /sales (sales.service.ts createIn), online and replayed by         *)
(* POST /sync/push, and POST /sales/:id/void (void.service.ts voidIn).     *)
(* An id already taken is answered from the stored row or refused, and     *)
(* moves nothing.                                                          *)
(***************************************************************************)
EXTENDS ShopState

\* pointsFor: one point per PointUnit satang of the stored total.
PointsFor(total) == total \div PointUnit

\* assertSaleTotals: the client's figures are kept if within one satang.
Near(x, y) == x - y <= 1 /\ y - x <= 1

AssertTotals(b) ==
    /\ Near(Worth(b.items), b.subtotal)
    /\ Near(Worth(b.items) - b.discount, b.total)

\* lockMechanicAndCheckLimit: only a bill going on a tab is measured.
OverLimit(b) ==
    /\ b.mech # Nil
    /\ b.pay = MECHANIC_CREDIT
    /\ mechanics[b.mech].tab + b.total > CreditLimit[b.mech]

\* assertStock, over the rows lockProducts returned (live products only).
InStock(items) ==
    \A p \in Products : QtyOf(items, p) > 0 =>
        p \in live /\ QtyOf(items, p) <= stock[p]

\* A negative delta is a discount given to the mechanic, a positive one a markup.
DiscountOf(b) == IF b.delta < 0 THEN - b.delta ELSE 0
MarkupOf(b) == IF b.delta > 0 THEN b.delta ELSE 0
OnTab(b) == IF b.pay = MECHANIC_CREDIT THEN b.total ELSE 0

\* applyCustomer
ApplyCustomer(b) ==
    [c \in Customers |->
        IF c = b.cust
        THEN [points |-> customers[c].points + PointsFor(b.total),
              spend  |-> customers[c].spend + b.total]
        ELSE customers[c]]

\* applyMechanic
ApplyMechanic(b) ==
    [m \in Mechanics |->
        IF m = b.mech
        THEN [tab      |-> mechanics[m].tab + OnTab(b),
              sales    |-> mechanics[m].sales + b.total,
              discount |-> mechanics[m].discount + DiscountOf(b),
              markup   |-> mechanics[m].markup + MarkupOf(b)]
        ELSE mechanics[m]]

\* What a bill let past the limit leaves behind: the audit row, and for a
\* bill sold offline an item for the owner.
RecordOverride(s, b, offline) ==
    /\ overrides' = IF OverLimit(b) THEN overrides \cup {s} ELSE overrides
    /\ reviews' = IF OverLimit(b) /\ offline
                  THEN reviews \cup {<<"credit_override", s>>}
                  ELSE reviews

\* existingSale: what an id already taken is answered with.  The push replays a
\* voided bill too, since the goods left the shop; online it may be rung up anew.
ExistingSale(s, b, offline) ==
    IF sales[s] = Nil THEN "none"
    ELSE IF sales[s].bill.total # b.total THEN "SALE_ID_REUSED"
    ELSE IF sales[s].voided /\ ~ offline THEN "SALE_VOIDED"
    ELSE "replayed"

\* insertSale: points and drawer are the server's, never the body's.
SaleRow(b, h, offline) ==
    [bill |-> b, points |-> PointsFor(b.total), shift |-> h, offline |-> offline,
     voided |-> FALSE]

\* deduct: strictly, never clamped.
Deducted(items) == [p \in Products |-> stock[p] - QtyOf(items, p)]

CreateSale(d, s, b, override, offline) ==
    /\ ExistingSale(s, b, offline) = "none"
    /\ AssertTotals(b)
    /\ \E h \in OpenShifts(d) :
          sales' = [sales EXCEPT ![s] = SaleRow(b, h, offline)]
    /\ OverLimit(b) => override
    /\ InStock(b.items)
    /\ stock' = Deducted(b.items)
    /\ customers' = ApplyCustomer(b)
    /\ mechanics' = ApplyMechanic(b)
    /\ RecordOverride(s, b, offline)
    /\ UNCHANGED <<cost, live, adjusted, boughtAt, returns, payments, entries, shifts,
                   orders, people>>

-----------------------------------------------------------------------------
\* reverseLedger, the customer's half: in full, never in proportion.
UndoCustomer(x) ==
    [c \in Customers |->
        IF c = x.bill.cust
        THEN [points |-> AtLeastZero(customers[c].points - x.points),
              spend  |-> AtLeastZero(customers[c].spend - x.bill.total)]
        ELSE customers[c]]

\* reverseLedger, the mechanic's half.
UndoMechanic(x) ==
    [m \in Mechanics |->
        IF m = x.bill.mech
        THEN [tab      |-> AtLeastZero(mechanics[m].tab - OnTab(x.bill)),
              sales    |-> AtLeastZero(mechanics[m].sales - x.bill.total),
              discount |-> AtLeastZero(mechanics[m].discount - DiscountOf(x.bill)),
              markup   |-> AtLeastZero(mechanics[m].markup - MarkupOf(x.bill))]
        ELSE mechanics[m]]

\* stock + qty is stored in an INT: past its top Postgres raises and the
\* transaction rolls back.
Fits(items) == \A p \in Products : stock[p] + QtyOf(items, p) <= MaxStock

\* restoreStock, of a void and of a credit note: soft-deleted products too.
Restored(items) == [p \in Products |-> stock[p] + QtyOf(items, p)]

\* The push replays only the void of a bill sold offline, and tells the owner.
FlagOfflineVoid(s, offline) ==
    /\ offline => sales[s].offline             \* VOID_NEEDS_ONLINE
    /\ reviews' = IF offline THEN reviews \cup {<<"void_offline", s>>} ELSE reviews

\* Mutant: a bill with a credit note against it may still be voided.
VoidSaleReturned(d, s, offline) ==
    /\ sales[s] # Nil
    /\ ~ sales[s].voided
    /\ sales[s].shift \in OpenShifts(d)
    /\ Fits(sales[s].bill.items)
    /\ stock' = Restored(sales[s].bill.items)
    /\ customers' = UndoCustomer(sales[s])
    /\ mechanics' = UndoMechanic(sales[s])
    /\ sales' = [sales EXCEPT ![s] = [sales[s] EXCEPT !.voided = TRUE]]
    /\ FlagOfflineVoid(s, offline)
    /\ UNCHANGED <<cost, live, adjusted, boughtAt, returns, payments, entries, shifts,
                   orders, people, overrides>>

VoidSale(d, s, offline) ==
    /\ sales[s] # Nil
    /\ ~ sales[s].voided                       \* SALE_VOIDED
    /\ NotesOf(s) = {}                         \* SALE_HAS_RETURNS
    /\ sales[s].shift \in OpenShifts(d)        \* SALE_NOT_IN_OPEN_SHIFT
    /\ Fits(sales[s].bill.items)
    /\ stock' = Restored(sales[s].bill.items)
    /\ customers' = UndoCustomer(sales[s])
    /\ mechanics' = UndoMechanic(sales[s])
    /\ sales' = [sales EXCEPT ![s] = [sales[s] EXCEPT !.voided = TRUE]]
    /\ FlagOfflineVoid(s, offline)
    /\ UNCHANGED <<cost, live, adjusted, boughtAt, returns, payments, entries, shifts,
                   orders, people, overrides>>
=============================================================================
