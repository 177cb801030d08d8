------------------------------- MODULE MCShop -------------------------------
(***************************************************************************)
(* Small shops.  Each run leaves most of the bodies of requests empty and  *)
(* looks at one part of the shop; the next-state relation is always Shop's.*)
(***************************************************************************)
EXTENDS Shop, TLC

CONSTANTS p1, p2, mk1, cu1

\* A body's lines from the ones it has: a set of <<product, price, qty>>.
L(S) == [l \in Lines |-> IF \E x \in S : <<x[1], x[2]>> = l
                         THEN (CHOOSE x \in S : <<x[1], x[2]>> = l)[3] ELSE 0]

B(S, subtotal, discount, total, pay, mech, cust, delta) ==
    [items |-> L(S), subtotal |-> subtotal, discount |-> discount, total |-> total,
     pay |-> pay, mech |-> mech, cust |-> cust, delta |-> delta]

N(S, method) == [items |-> L(S), method |-> method]

NoMechanics == [m \in Mechanics |-> 0]

\* Refunds: one product at two prices on one bill, a discount that does not
\* divide, a total off by a satang, and one that is simply wrong.
RefundBills ==
    {B({<<p1, 33, 2>>, <<p1, 20, 1>>}, 86, 30, 56, CASH, Nil, Nil, 0),
     B({<<p1, 33, 1>>, <<p2, 20, 3>>}, 93, 25, 69, CASH, Nil, Nil, 0),
     B({<<p1, 33, 3>>}, 99, 10, 89, CASH, Nil, Nil, 0),
     B({<<p2, 33, 1>>}, 33, 0, 90, CASH, Nil, Nil, 0)}
RefundNotes ==
    {N({<<p1, 33, 1>>}, CASH), N({<<p1, 33, 1>>, <<p1, 20, 1>>}, CASH),
     N({<<p2, 20, 1>>}, CASH), N({<<p2, 20, 2>>}, CASH)}
RefundStock == [p \in Products |-> 5]
RefundCost == [p \in Products |-> 1]
MoneySymmetry == Permutations(SaleIds) \cup Permutations(ReturnIds)

\* Stock: an order naming one part twice and another with no price, and
\* corrections in both directions.
StockBills == {B({<<p1, 3, 1>>, <<p2, 3, 2>>}, 9, 0, 9, CASH, Nil, Nil, 0)}
StockNotes == {N({<<p2, 3, 1>>}, CASH)}
StockForms == {<<[part |-> p1, qty |-> 1, cost |-> 5], [part |-> p2, qty |-> 1, cost |-> 0],
                 [part |-> p1, qty |-> 2, cost |-> 2]>>,
               <<[part |-> p2, qty |-> 3, cost |-> 6]>>}
StockDeltas == {-2, 1}

\* Drawers: cash and credit bills of a mechanic, refunds of every method.
DrawerBills ==
    {B({<<p1, 3, 2>>}, 6, 0, 6, CASH, mk1, Nil, 0),
     B({<<p1, 3, 2>>}, 6, 0, 6, MECHANIC_CREDIT, mk1, Nil, 0)}
DrawerNotes == {N({<<p1, 3, 2>>}, CASH), N({<<p1, 3, 1>>}, TRANSFER)}

\* Ledgers: bills on and off the tab, one over the limit, one with a markup and
\* one with a discount; refunds off the tab, in cash and by transfer.
LedgerBills ==
    {B({<<p1, 500, 2>>, <<p2, 500, 1>>}, 1500, 99, 1401, MECHANIC_CREDIT, mk1, cu1, 40),
     B({<<p1, 500, 1>>, <<p2, 500, 1>>}, 1000, 0, 1000, CASH, mk1, cu1, -30)}
LedgerNotes == {N({<<p1, 500, 1>>}, DEDUCT_FROM_CREDIT), N({<<p1, 500, 1>>, <<p2, 500, 1>>}, CASH)}
LedgerLimit == [m \in Mechanics |-> 1500]

-----------------------------------------------------------------------------
(* Each run holds several of the above in one shop, and looks no further    *)
(* once a behaviour would mix them.                                        *)

BillsOf == {sales[s].bill : s \in Stored(sales)}

\* Refunds or ledgers.
MoneyBills == RefundBills \cup LedgerBills
MoneyNotes == RefundNotes \cup LedgerNotes
RefundsOrLedger ==
    /\ \A d \in Devices : ~ unsynced[d]
    /\ \A h \in Stored(shifts) : shifts[h].start = 0 /\ shifts[h].counted \in {0, Nil}
    /\ \/ /\ BillsOf \subseteq RefundBills /\ Stored(payments) = {}
          /\ \A s \in Stored(sales) : ~ sales[s].offline
       \/ BillsOf \subseteq LedgerBills /\ Cardinality(Stored(returns)) <= 3

\* Drawers, machines or goods.
CounterBills == DrawerBills \cup StockBills
CounterNotes == DrawerNotes \cup StockNotes
CounterStock == (p1 :> 2) @@ (p2 :> 2)
CounterCost == (p1 :> 4) @@ (p2 :> 1)
CounterSymmetry == Permutations(ShiftIds) \cup Permutations(Devices)
                     \cup Permutations(ReturnIds) \cup Permutations(OrderIds)

GoodsStill ==
    /\ Stored(orders) = {} /\ live = Products /\ cost = OpeningCost
    /\ \A p \in Products : adjusted[p] = 0
\* The products whose cost the owner wrote.
Edited == {p \in Products : OpeningCost[p] \notin boughtAt[p]}
NoDocuments == Stored(sales) \cup Stored(entries) \cup Stored(payments) = {}
Machines(n) == Cardinality({d \in Devices : devices[d] # "absent"}) <= n
DrawersMachinesOrGoods ==
    \/ GoodsStill /\ NoDocuments
    \/ /\ GoodsStill /\ BillsOf \subseteq DrawerBills
       /\ Machines(2) /\ Cardinality(Stored(shifts)) <= 2
       /\ \A d \in Devices : ~ unsynced[d]
       /\ \A s \in Stored(sales) : ~ sales[s].offline
       /\ {x[1] : x \in reviews} \subseteq {"shift_uncounted"}
    \/ /\ Machines(1) /\ Cardinality(Stored(shifts)) = 1
       /\ Stored(entries) \cup Stored(payments) = {} /\ BillsOf \subseteq StockBills
       /\ Cardinality(Stored(returns)) <= 1
       /\ Edited \subseteq {p1} /\ (Edited # {} => BillsOf = {})
       /\ \A d \in Devices : devices[d] # "retired" /\ ~ unsynced[d]
       /\ \A h \in Stored(shifts) : ~ shifts[h].closed
       /\ \A s \in Stored(sales) : ~ sales[s].offline
=============================================================================
