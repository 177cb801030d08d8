------------------------------ MODULE ShopState ------------------------------
(***************************************************************************)
(* The rows of one shop (one tenant) that money and goods move through,    *)
(* and the definitions the services share.  A document is a function from  *)
(* its id (chosen by the client) to its row, or Nil while the id is free.  *)
(* Every service writes in one Postgres transaction that holds the row     *)
(* locks of what it reads, so here a handler is one step.                  *)
(*                                                                         *)
(* Money is integer satang, as in the services (common/money.ts).          *)
(***************************************************************************)
EXTENDS Integers, Sequences, FiniteSets, FiniteSetsExt, Functions

CONSTANTS Products, Prices,        \* a line of a bill is a product at a price
          Devices, Mechanics, Customers,
          SaleIds, ReturnIds, PaymentIds, EntryIds, ShiftIds, OrderIds,
          Bills,                   \* the bodies of POST /sales
          Notes,                   \* the bodies of POST /returns
          Forms,                   \* the lines of POST /purchase-orders
          Amounts,                 \* sums of cash named in a request
          Deltas,                  \* stock corrections asked for
          Costs,                   \* costs the owner writes over a product's
          Flags,                   \* values of a body's switches: override, replay, force
          CreditLimit,             \* mechanics.credit_limit
          LegacyCredit,            \* mechanics.total_credit: read, never written
          OpeningStock, OpeningCost,
          PointUnit,               \* satang per loyalty point
          MaxStock,                \* INT4_MAX, the top of products.stock
          Nil                      \* SQL NULL, and an id not taken

VARIABLES stock, cost, live,       \* products: stock, cost; live: deleted_at IS NULL
          adjusted,                \* audit_log 'stock.adjust': net of after - before
          boughtAt,                \* history: the cost that was set last and the prices paid since
          sales, returns, payments, entries, shifts, orders,
          devices, unsynced,       \* devices: their stage; unsynced_ops > 0
          mechanics, customers,    \* the ledgers' running totals
          overrides,               \* audit_log 'sale.credit_limit_override'
          reviews                  \* owner_review_items: <<kind, ref>>

goods == <<stock, cost, live, adjusted, boughtAt>>
ledgers == <<mechanics, customers>>
people == <<devices, unsynced>>
vars == <<goods, sales, returns, payments, entries, shifts, orders, people,
          ledgers, overrides, reviews>>

-----------------------------------------------------------------------------
(* The shapes of the rows. *)

CASH == "cash"             \* 'เงินสด'
MECHANIC_CREDIT == "tab"   \* 'เครดิตช่าง'
TRANSFER == "transfer"
DEDUCT_FROM_CREDIT == "deduct"   \* 'หักจากเครดิต'

Lines == Products \X Prices

\* One quantity per product and price: the lines of a body after aggregate().
Items == [Lines -> Nat]

Bill == [items : Items, subtotal : Nat, discount : Nat, total : Nat,
         pay : {CASH, MECHANIC_CREDIT, TRANSFER},
         mech : Mechanics \cup {Nil}, cust : Customers \cup {Nil},
         delta : Int]

Note == [items : Items, method : {CASH, TRANSFER, DEDUCT_FROM_CREDIT}]

Form == Seq([part : Products, qty : Nat \ {0}, cost : Nat])

Sale == [bill : Bills, points : Nat, shift : ShiftIds,
         offline : BOOLEAN, voided : BOOLEAN]

Return == [sale : SaleIds, note : Notes, total : Int, shift : ShiftIds \cup {Nil}]

Payment == [mech : Mechanics, amount : Amounts, method : {CASH, TRANSFER},
            shift : ShiftIds]

Entry == [shift : ShiftIds, type : {"in", "out"}, amount : Amounts]

Shift == [device : Devices, start : Amounts, active : BOOLEAN, closed : BOOLEAN,
          auto : BOOLEAN, counted : Amounts \cup {Nil}]

Order == [form : Forms, status : {"open", "received", "cancelled"},
          taken : [Products -> Nat]]

Stages == {"absent", "issued", "enrolled", "retired"}

Stored(rows) == {i \in DOMAIN rows : rows[i] # Nil}

-----------------------------------------------------------------------------
(* Sums.  They range over functions, so that two sums over the same terms  *)
(* are the same by substitution.                                           *)

Total(S, f(_)) == SumFunction([x \in S |-> f(x)])

\* Units of product p, at whatever price (aggregate() of the sale path).
QtyOf(items, p) == Total(Prices, LAMBDA c : items[<<p, c>>])

Units(items) == Total(Lines, LAMBDA l : items[l])

Worth(items) == Total(Lines, LAMBDA l : items[l] * l[2])

OrderedQty(form, p) ==
    Total({i \in DOMAIN form : form[i].part = p}, LAMBDA i : form[i].qty)

\* GREATEST(0, x): the floor of every running total.
AtLeastZero(x) == IF x < 0 THEN 0 ELSE x

\* Math.round(n / d) for n >= 0 and d > 0.
Rounded(n, d) == (2 * n + d) \div (2 * d)

-----------------------------------------------------------------------------
(* What the services ask of the rows. *)

\* The credit notes issued against sale s.
NotesOf(s) == {r \in Stored(returns) : returns[r].sale = s}

Refunded(s, l) == Total(NotesOf(s), LAMBDA r : returns[r].note.items[l])

\* A bill that counts as money taken and goods sold: all but the manually
\* voided ones, which are the voided ones with no credit note.
CountedSale(s) == ~ (sales[s].voided /\ NotesOf(s) = {})

\* The drawer a device may take money into.
OpenShifts(d) ==
    {h \in Stored(shifts) : /\ shifts[h].device = d
                            /\ shifts[h].active
                            /\ ~ shifts[h].closed}

ActiveShifts(d) ==
    {h \in Stored(shifts) : shifts[h].device = d /\ shifts[h].active}

\* Every document stamped with shift h, with the cash it puts in the drawer.
Takings(h) ==
    [sold     |-> [s \in {x \in Stored(sales) : sales[x].shift = h} |->
                      IF sales[s].bill.pay = CASH /\ CountedSale(s)
                      THEN sales[s].bill.total ELSE 0],
     paid     |-> [p \in {x \in Stored(payments) : payments[x].shift = h} |->
                      IF payments[p].method = CASH THEN payments[p].amount ELSE 0],
     refunded |-> [r \in {x \in Stored(returns) : returns[x].shift = h} |->
                      IF returns[r].note.method = CASH THEN returns[r].total ELSE 0],
     moved    |-> [e \in {x \in Stored(entries) : entries[x].shift = h} |->
                      IF entries[e].type = "in" THEN entries[e].amount
                                                ELSE - entries[e].amount]]

ExpectedCash(h) ==
    shifts[h].start + SumFunction(Takings(h).sold) + SumFunction(Takings(h).paid)
      - SumFunction(Takings(h).refunded) + SumFunction(Takings(h).moved)

-----------------------------------------------------------------------------
ASSUME BodiesAssumption ==
    /\ Bills \subseteq Bill
    /\ Notes \subseteq Note
    /\ Forms \subseteq Form
    /\ Prices \subseteq Nat
    /\ Amounts \subseteq Nat
    /\ Deltas \subseteq Int
    /\ Costs \subseteq Nat
    /\ Flags \subseteq BOOLEAN

(* What the request parsers let through: quantities and prices are         *)
(* naturals by the shapes above.                                           *)

\* parseItemsArray: at least one line.
ParseItems(items) == Units(items) > 0

\* A discount larger than the goods would make the total negative.
AssertMoneyMakesSense(b) == b.discount <= b.subtotal

ParseCreateSale(b) == ParseItems(b.items) /\ AssertMoneyMakesSense(b)

ParseCreateReturn(n) == ParseItems(n.items)

ASSUME ParsedAssumption ==
    /\ \A b \in Bills : ParseCreateSale(b)
    /\ \A n \in Notes : ParseCreateReturn(n)

\* A shop has finitely many products, and a price is at most MAX_SATANG (money.ts).
ASSUME CatalogueAssumption == IsFiniteSet(Products) /\ IsFiniteSet(Prices)

ASSUME OpeningAssumption ==
    /\ CreditLimit \in [Mechanics -> Nat]
    /\ LegacyCredit \in [Mechanics -> Nat]
    /\ MaxStock \in Nat
    /\ OpeningStock \in [Products -> 0..MaxStock]
    /\ OpeningCost \in [Products -> Nat]
    /\ PointUnit \in Nat \ {0}

\* NULL is no value of a column and no row.
ASSUME NilAssumption ==
    /\ Nil \notin ShiftIds \cup Mechanics \cup Customers \cup Amounts
    /\ Nil \notin Sale \cup Return \cup Payment \cup Entry \cup Shift \cup Order

Init ==
    /\ stock = OpeningStock
    /\ cost = OpeningCost
    /\ live = Products
    /\ adjusted = [p \in Products |-> 0]
    /\ boughtAt = [p \in Products |-> {OpeningCost[p]}]
    /\ sales = [s \in SaleIds |-> Nil]
    /\ returns = [r \in ReturnIds |-> Nil]
    /\ payments = [p \in PaymentIds |-> Nil]
    /\ entries = [e \in EntryIds |-> Nil]
    /\ shifts = [h \in ShiftIds |-> Nil]
    /\ orders = [o \in OrderIds |-> Nil]
    /\ devices = [d \in Devices |-> "absent"]
    /\ unsynced = [d \in Devices |-> FALSE]
    /\ mechanics = [m \in Mechanics |->
                      [tab |-> 0, sales |-> 0, discount |-> 0, markup |-> 0]]
    /\ customers = [c \in Customers |-> [points |-> 0, spend |-> 0]]
    /\ overrides = {}
    /\ reviews = {}
=============================================================================
