-------------------------------- MODULE Shop --------------------------------
(***************************************************************************)
(* One shop's server: the counter (sales, voids, credit notes), the drawer *)
(* and its machines, and purchasing, over the shared rows of ShopState.    *)
(***************************************************************************)
EXTENDS Returns, Drawers, Purchasing

Counter(d) ==
    \/ \E s \in SaleIds, b \in Bills, override, offline \in Flags :
          CreateSale(d, s, b, override, offline)
    \/ \E s \in SaleIds, offline \in Flags : VoidSale(d, s, offline)
    \/ \E r \in ReturnIds, s \in SaleIds, n \in Notes : CreateReturn(d, r, s, n)
    \/ \E p \in PaymentIds, m \in Mechanics, amount \in Amounts,
          method \in {CASH, TRANSFER}, allow \in Flags :
          CreatePayment(d, p, m, amount, method, allow)

Drawer(d) ==
    \/ \E h \in ShiftIds, cash \in Amounts : OpenShift(d, h, cash)
    \/ \E cash \in Amounts : CloseShift(d, cash)
    \/ \E e \in EntryIds, type \in {"in", "out"}, amount \in Amounts,
          offline \in Flags : AddEntry(d, e, type, amount, offline)

Machine(d) ==
    \/ IssueDevice(d)
    \/ EnrolDevice(d)
    \/ \E pending \in Flags : ReportUnsynced(d, pending)
    \/ \E cash \in Amounts \cup {Nil}, force \in Flags : RetireDevice(d, cash, force)
    \/ \E e \in Devices, force \in Flags : ReplaceDevice(d, e, force)

Stockroom ==
    \/ \E o \in OrderIds, f \in Forms : CreateOrder(o, f)
    \/ \E o \in OrderIds : ReceiveOrder(o)
    \/ \E o \in OrderIds : CancelOrder(o)
    \/ \E o \in OrderIds : DeleteOrder(o)
    \/ \E p \in Products, delta \in Deltas : AdjustStock(p, delta)
    \/ \E p \in Products, c \in Costs : EditCost(p, c)
    \/ \E p \in Products : DeleteProduct(p)

Next ==
    \/ \E d \in Devices : Counter(d) \/ Drawer(d) \/ Machine(d)
    \/ Stockroom

Spec == Init /\ [][Next]_vars

-----------------------------------------------------------------------------
GoodsTyped ==
    /\ stock \in [Products -> 0..MaxStock]
    /\ live \subseteq Products
    /\ adjusted \in [Products -> Int]

DocumentsTyped ==
    /\ sales \in [SaleIds -> Sale \cup {Nil}]
    /\ returns \in [ReturnIds -> Return \cup {Nil}]
    /\ payments \in [PaymentIds -> Payment \cup {Nil}]
    /\ entries \in [EntryIds -> Entry \cup {Nil}]
    /\ orders \in [OrderIds -> Order \cup {Nil}]

DrawersTyped ==
    /\ shifts \in [ShiftIds -> Shift \cup {Nil}]
    /\ devices \in [Devices -> Stages]
    /\ unsynced \in [Devices -> BOOLEAN]

LedgersTyped ==
    /\ mechanics \in [Mechanics -> [tab : Nat, sales : Nat, discount : Nat, markup : Nat]]
    /\ customers \in [Customers -> [points : Nat, spend : Nat]]
    /\ overrides \subseteq SaleIds

(* The rows have the types of their columns; in particular no sequence of  *)
(* bills, refunds, receipts and corrections takes a stock below zero       *)
(* (CHECK stock >= 0, which would be a 500) or past INT4_MAX.              *)
TypeOK ==
    /\ GoodsTyped
    /\ DocumentsTyped
    /\ DrawersTyped
    /\ LedgersTyped
    /\ cost \in [Products -> Nat]

(* Goods are conserved (assertStock, deduct, both restoreStock, receivePO, *)
(* adjustStock): the stock of a product is what it opened with, plus what  *)
(* received orders brought, plus the audited corrections, less what        *)
(* standing bills sold, plus what credit notes took back - whatever the    *)
(* order of sales, voids, partial returns, receipts and deletions.         *)
StockExplained ==
    \A p \in Products :
        stock[p] = OpeningStock[p] + adjusted[p]
          + Total({o \in Stored(orders) : orders[o].status = "received"},
                  LAMBDA o : orders[o].taken[p])
          - Total({s \in Stored(sales) : CountedSale(s)},
                  LAMBDA s : QtyOf(sales[s].bill.items, p))
          + Total(Stored(returns), LAMBDA r : QtyOf(returns[r].note.items, p))

(* The credit notes against a bill never take back more of a line than it  *)
(* sold (assertRefundable under lockSale), a manually voided bill has      *)
(* none, and a bill is void by its notes exactly when every line has come  *)
(* back whole (autoVoid).                                                  *)
RefundsWithinBill ==
    \A s \in Stored(sales) :
        LET sold == sales[s].bill.items
        IN  /\ \A l \in Lines : Refunded(s, l) <= sold[l]
            /\ NotesOf(s) # {} =>
                 (sales[s].voided <=> \A l \in Lines : Refunded(s, l) = sold[l])

(* Rounding the discount of each credit note by itself (refundAmounts)     *)
(* never drifts further from the bill's own money than half a satang a     *)
(* note, on top of the satang assertSaleTotals lets the client be off.     *)
RefundedMoneyMatches ==
    \A s \in Stored(sales) :
        LET b == sales[s].bill
            back == Total(NotesOf(s), LAMBDA r : returns[r].total)
            drift == 2 * (back - b.total)
            slack == Cardinality(NotesOf(s)) + 4
        IN  /\ drift <= slack
            /\ NotesOf(s) # {} /\ sales[s].voided => -drift <= slack

(* The owner may write any cost (PATCH /products/:id) and the next average *)
(* starts from it.  From there on the average cost of a product stays      *)
(* between the lowest and the highest of that cost, or of the opening one, *)
(* and of the prices paid since (weightedAverageCostSatang): freebies and  *)
(* rounding at each line do not drag it outside, nor does any sale, void,  *)
(* refund, correction or deletion between two receipts.                    *)
CostWithinPrices ==
    \A p \in Products : Min(boughtAt[p]) <= cost[p] /\ cost[p] <= Max(boughtAt[p])

-----------------------------------------------------------------------------
\* A step that leaves every counted or archived drawer as it was.
KeepsClosedDrawers ==
    \A h \in Stored(shifts) :
        shifts[h].closed \/ ~ shifts[h].active =>
            /\ Takings(h)' = Takings(h)
            /\ ExpectedCash(h)' = ExpectedCash(h)
            /\ shifts[h].counted' = shifts[h].counted

(* A drawer that was counted, or archived, stays as it was: no later bill, *)
(* void, refund of a bill sold in it, payment or entry changes its         *)
(* documents, the cash it should hold, or the count (requireOpenShiftIdFor, *)
(* currentShiftIdFor, the SALE_NOT_IN_OPEN_SHIFT rule and COUNTED_SALE).   *)
ClosedDrawerFrozen == [][KeepsClosedDrawers]_vars

(* At most one machine of a shop is live, each machine has at most one     *)
(* current drawer, and a machine that is not enrolled - retired by the     *)
(* owner or replaced by the platform - has none (devices.retire,           *)
(* closeForRetirement, replaceDevice, open).                               *)
DrawersOrderly ==
    /\ \A d \in Devices :
          /\ \A g, h \in ActiveShifts(d) : g = h
          /\ devices[d] # "enrolled" => ActiveShifts(d) = {}
    /\ \A d, e \in Devices :
          {devices[d], devices[e]} \subseteq {"issued", "enrolled"} => d = e

(* No day's takings are lost: a drawer that is no longer current was       *)
(* counted, or the owner has an item saying that it was not (archive,      *)
(* closeForRetirement, replaceDevice).                                     *)
NoDayLost ==
    \A h \in Stored(shifts) :
        ~ shifts[h].active =>
            \/ shifts[h].closed /\ shifts[h].counted # Nil
            \/ shifts[h].auto /\ <<"shift_uncounted", h>> \in reviews

-----------------------------------------------------------------------------
\* What mechanic m's documents say he owes.
Owed(m) ==
    Total({s \in Stored(sales) : sales[s].bill.mech = m /\ CountedSale(s)},
          LAMBDA s : OnTab(sales[s].bill))
    - Total({r \in Stored(returns) : /\ returns[r].note.method = DEDUCT_FROM_CREDIT
                                     /\ sales[returns[r].sale].bill.mech = m},
            LAMBDA r : returns[r].total)
    - Total({p \in Stored(payments) : payments[p].mech = m},
            LAMBDA p : payments[p].amount)

(* A mechanic's tab moves by exactly what his documents move, and is       *)
(* otherwise only floored at zero (applyMechanic, reverseLedger,           *)
(* reverseMechanic, reduceBalance): a cash refund of a credit bill, the    *)
(* void of a cash bill or a refused request never touches it.              *)
TabFollowsDocuments ==
    [][\A m \in Mechanics :
          mechanics[m].tab' = AtLeastZero(mechanics[m].tab + Owed(m)' - Owed(m))]_vars
=============================================================================
