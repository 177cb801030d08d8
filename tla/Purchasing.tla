----------------------------- MODULE Purchasing -----------------------------
(***************************************************************************)
(* Purchase orders (purchase-orders.service.ts), the weighted average cost *)
(* of what they bring in (weighted-average.ts), and the manual correction, *)
(* the owner's edit of the cost and the removal of a product               *)
(* (products.service.ts).  A line of an order names a product by its part  *)
(* number; among live products the number is unique and here it stays, so  *)
(* a line matches its product while that is live and nothing afterwards.   *)
(***************************************************************************)
EXTENDS ShopState

counters == <<sales, returns, payments, entries, shifts, people, ledgers,
              overrides, reviews>>

\* savePO
CreateOrder(o, f) ==
    /\ orders[o] = Nil
    /\ orders' = [orders EXCEPT ![o] = [form |-> f, status |-> "open",
                                        taken |-> [p \in Products |-> 0]]]
    /\ UNCHANGED <<goods, counters>>

\* Mutant: a line with no price counts as free goods.
WeightedAverageCostZero(oldStock, oldCost, newQty, lineCost) ==
    Rounded(oldStock * oldCost + newQty * lineCost, oldStock + newQty)

\* weightedAverageCostSatang: half up; a line with no price comes in at the old cost.
WeightedAverageCost(oldStock, oldCost, newQty, lineCost) ==
    LET effective == IF lineCost > 0 THEN lineCost ELSE oldCost
    IN  Rounded(oldStock * oldCost + newQty * effective, oldStock + newQty)

\* The stock and the cost of p after the first i lines of form f, applied in line order.
AfterLines(f, p) ==
    LET after[i \in 0..Len(f)] ==
          IF i = 0 THEN [stock |-> stock[p], cost |-> cost[p]]
          ELSE LET was == after[i - 1]
               IN  IF f[i].part # p THEN was
                   ELSE [stock |-> was.stock + f[i].qty,
                         cost  |-> WeightedAverageCost(was.stock, was.cost,
                                                       f[i].qty, f[i].cost)]
    IN  after[Len(f)]

\* What order form f puts on the shelf: lines of products no longer live are left out.
Taken(f) == [p \in Products |-> IF p \in live THEN OrderedQty(f, p) ELSE 0]

\* What form f pays for product p: a line with no price pays nothing.
PaidFor(f, p) == {f[i].cost : i \in {j \in DOMAIN f : f[j].part = p /\ f[j].cost > 0}}

\* lockPo: PO_NOT_FOUND otherwise.
LockPo(o) == orders[o] # Nil

\* receivePO
ReceiveOrder(o) ==
    /\ LockPo(o)
    /\ orders[o].status = "open"               \* PO_ALREADY_RECEIVED, PO_CANCELLED
    /\ LET f == orders[o].form
       IN  /\ \A p \in Products : stock[p] + Taken(f)[p] <= MaxStock
           /\ stock' = [p \in Products |-> stock[p] + Taken(f)[p]]
           /\ cost' = [p \in Products |-> IF p \in live THEN AfterLines(f, p).cost
                                                        ELSE cost[p]]
           /\ boughtAt' = [p \in Products |-> IF p \in live THEN boughtAt[p] \cup PaidFor(f, p)
                                                        ELSE boughtAt[p]]
           /\ orders' = [orders EXCEPT ![o] = [form |-> f, status |-> "received",
                                               taken |-> Taken(f)]]
    /\ UNCHANGED <<live, adjusted, counters>>

\* cancelPO; cancelling a cancelled order answers it unchanged.
CancelOrder(o) ==
    /\ LockPo(o)
    /\ orders[o].status = "open"
    /\ orders' = [orders EXCEPT ![o] = [orders[o] EXCEPT !.status = "cancelled"]]
    /\ UNCHANGED <<goods, counters>>

\* deletePO: only before receiving.
DeleteOrder(o) ==
    /\ LockPo(o)
    /\ orders[o].status # "received"
    /\ orders' = [orders EXCEPT ![o] = Nil]
    /\ UNCHANGED <<goods, counters>>

-----------------------------------------------------------------------------
\* adjustStock: the one path that clamps at zero; the audit row keeps what the
\* stock was before and after.
AdjustStock(p, delta) ==
    /\ p \in live
    /\ stock[p] + delta <= MaxStock
    /\ stock' = [stock EXCEPT ![p] = AtLeastZero(stock[p] + delta)]
    /\ adjusted' = [adjusted EXCEPT ![p] =
                      adjusted[p] + AtLeastZero(stock[p] + delta) - stock[p]]
    /\ UNCHANGED <<cost, live, boughtAt, orders, counters>>

\* updateIn of a body that names the cost; its other columns take no part here.
EditCost(p, c) ==
    /\ p \in live
    /\ cost' = [cost EXCEPT ![p] = c]
    /\ boughtAt' = [boughtAt EXCEPT ![p] = {c}]
    /\ UNCHANGED <<stock, live, adjusted, orders, counters>>

\* DELETE /products/:id is soft.
DeleteProduct(p) ==
    /\ p \in live
    /\ live' = live \ {p}
    /\ UNCHANGED <<stock, cost, adjusted, boughtAt, orders, counters>>
=============================================================================
