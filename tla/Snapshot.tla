------------------------------ MODULE Snapshot ------------------------------
(***************************************************************************)
(* A shop's data as one file: what an export writes, what the pre-flight   *)
(* of an import refuses, and what an import writes.                        *)
(*                                                                         *)
(* A shop, and a file, give every table a set of rows.  A row has the id,  *)
(* the number and the references the schema constrains; what it says       *)
(* beside them is left out.  A file carries besides what is wrong with its *)
(* values (flaws): dates that do not parse, amounts no column takes, and   *)
(* an "odd value" that no column takes either and no check looks at: a     *)
(* type or a status the schema does not list, an amount that is absent and *)
(* written as 0, a position that is no whole number.                       *)
(***************************************************************************)
EXTENDS Naturals, FiniteSets, FiniteSetsExt

CONSTANTS Legacy,       \* ids the old app gave: no UUIDs
          MaxAccounts,  \* MAX_ACTIVE_PAYMENT_ACCOUNTS
          Devices,      \* the device numbers this shop has
          None

ASSUME AccountsAssumption == MaxAccounts \in Nat

People == {"customers", "mechanics"}
Numbered == {"sales", "returns", "purchase_orders", "quotes", "credit_payments"}
Transactions == Numbered \cup {"shifts"}
NeverCopied == {"owner_review_items"}
Carried == Transactions \cup People
           \cup {"movements", "parked_sales", "suppliers", "products", "categories"}
Replaced == Carried \cup NeverCopied
Tables == Replaced \cup {"payment_accounts", "settings"}

NoRows == [t \in Tables |-> {}]
Flaws == {"no meta", "negative stock", "bad position", "bad date", "bad amount", "bad account",
          "odd value"}
EmptyFile == [data |-> NoRows, flaws |-> {}]

Ids(rows) == {r.id : r \in rows}
Live(rows) == {r \in rows : r.live}
Named(rows, id) == CHOOSE r \in rows : r.id = id

IdsDiffer(rows) == \A r, s \in rows : r.id = s.id => r = s

\* What a row has of each table's columns here.
Columns(t) ==
    CASE t = "products" -> {"id", "part", "category", "live", "stock"}
      [] t \in People -> {"id", "code", "live"}
      [] t = "payment_accounts" -> {"id", "live", "default"}
      [] t = "sales" -> {"id", "no", "customer", "mechanic", "product", "named", "account"}
      [] t = "returns" -> {"id", "no", "sale", "mechanic"}
      [] t = "quotes" -> {"id", "no", "sale"}
      [] t = "purchase_orders" -> {"id", "no"}
      [] t = "credit_payments" -> {"id", "no", "mechanic"}
      [] t = "movements" -> {"id", "product", "named", "ref"}
      [] t = "suppliers" -> {"id", "product"}
      [] t = "shifts" -> {"id", "active"}
      [] OTHER -> {"id"}

\* Any file and any shop, whatever else is wrong with it: finitely many rows of these
\* columns; a number of one of this shop's devices ends in its place; one row of settings.
Tabled(data) ==
    /\ \A t \in Tables : \A r \in data[t] : r = [c \in Columns(t) |-> r[c]]
    /\ \A t \in Numbered \cup {"payment_accounts"} : IsFiniteSet(data[t])
    /\ \A t \in Numbered : \A r \in data[t] : r.no[1] \in Devices => r.no[2] \in Nat
    /\ IdsDiffer(data["settings"])

(***************************************************************************)
(* Export.  No section filters on deleted_at; a product's row loses it, a  *)
(* quote's the bill it became, a movement's what it is for.  An open       *)
(* drawer is one of the shifts.  The owner's review items are in no file.  *)
(***************************************************************************)
ProductSection(shop) == {[p EXCEPT !.live = TRUE] : p \in shop["products"]}
PeopleSection(shop, t) == shop[t]
SaleSection(shop) == shop["sales"]
ReturnSection(shop) == shop["returns"]
QuoteSection(shop) == {[q EXCEPT !.sale = None] : q \in shop["quotes"]}
MovementSection(shop) == {[m EXCEPT !.ref = None] : m \in shop["movements"]}
PaymentSection(shop) == shop["credit_payments"]
ShiftSection(shop) == shop["shifts"]

Section(shop, t) ==
    CASE t = "products" -> ProductSection(shop)
      [] t \in People -> PeopleSection(shop, t)
      [] t = "sales" -> SaleSection(shop)
      [] t = "returns" -> ReturnSection(shop)
      [] t = "quotes" -> QuoteSection(shop)
      [] t = "movements" -> MovementSection(shop)
      [] t = "credit_payments" -> PaymentSection(shop)
      [] t = "shifts" -> ShiftSection(shop)
      [] t \in NeverCopied -> {}
      [] OTHER -> shop[t]

BuildTenantSnapshot(shop) == [data |-> [t \in Tables |-> Section(shop, t)], flaws |-> {}]

(***************************************************************************)
(* Pre-flight: reads the file alone, and refuses it whole.                 *)
(***************************************************************************)
PlanBadIds(f) == \E t \in Tables : Ids(f.data[t]) \cap Legacy # {}

\* Mutant: part numbers are left to the database.
PartClashNever(f) == FALSE

PartClash(f) == \E p, q \in f.data["products"] : p.id # q.id /\ p.part = q.part

PlanDuplicateDocNumbers(f) ==
    \E t \in Numbered : \E r, s \in f.data[t] : r.id # s.id /\ r.no = s.no

PlanUnparseableDates(f) == "bad date" \in f.flaws
PlanClampViolations(f) == "bad amount" \in f.flaws

\* The shop-wide rules of QR accounts, and no id twice.
PlanPaymentAccountViolations(f) ==
    LET rows == f.data["payment_accounts"] IN
    \/ "bad account" \in f.flaws
    \/ \E a, b \in rows : a # b /\ a.id = b.id
    \/ Cardinality({a \in Live(rows) : a.default}) > 1
    \/ Cardinality(Live(rows)) > MaxAccounts

\* The ids a table's rows are asked for by the rest of the file.
MovementProducts(f) == {m.product : m \in f.data["movements"]} \ {None}
Wanted(f, t) ==
    IF t = "customers" THEN {s.customer : s \in f.data["sales"]} \ {None}
    ELSE {r.mechanic : r \in f.data["sales"] \cup f.data["credit_payments"]} \ {None}

\* Bills carry the names of the people on them, credit notes their mechanic's, payments
\* none; a product is named by its movements and by the lines of bills.
NamesPerson(f, t, id) ==
    \/ \E s \in f.data["sales"] : s.named /\ id = IF t = "customers" THEN s.customer ELSE s.mechanic
    \/ t = "mechanics" /\ \E r \in f.data["returns"] : r.mechanic = id
NamesProduct(f, id) ==
    \/ \E m \in f.data["movements"] : m.product = id /\ m.named
    \/ \E s \in f.data["sales"] : s.product = id

MissingPeople(f, t) == Wanted(f, t) \ Ids(f.data[t])
MissingProducts(f) == MovementProducts(f) \ Ids(f.data["products"])

\* Rows the shop deleted and history names come back soft-deleted: under a part number no
\* live row is compared with, and a code made of the id.
PersonTombstones(f, t) == {[id |-> id, code |-> id, live |-> FALSE] : id \in MissingPeople(f, t)}
ProductTombstones(f) ==
    {[id |-> id, part |-> id, category |-> None, live |-> FALSE, stock |-> 0] :
         id \in MissingProducts(f)}

MissingRefs(f) ==
    \/ \E r \in f.data["movements"] \cup f.data["suppliers"] : r.product = None
    \/ \E p \in f.data["credit_payments"] : p.mechanic = None

Unnamed(f) ==
    \/ \E id \in MissingProducts(f) : ~ NamesProduct(f, id)
    \/ \E t \in People : \E id \in MissingPeople(f, t) : ~ NamesPerson(f, t, id)

ReturnsWithoutSale(f) == \E r \in f.data["returns"] : r.sale \notin Ids(f.data["sales"])

\* A price list of a product that is gone is no history: its rows are dropped.
DroppedSuppliers(f) ==
    {s \in f.data["suppliers"] :
        s.product # None /\ s.product \notin Ids(f.data["products"]) \cup MissingProducts(f)}

AssertNoTransactions(shop) == \A t \in Transactions : shop[t] = {}

Refused(f) ==
    \/ f.flaws \cap {"no meta", "negative stock", "bad position"} # {}
    \/ PlanBadIds(f) \/ PartClash(f) \/ PlanDuplicateDocNumbers(f)
    \/ PlanUnparseableDates(f) \/ PlanClampViolations(f) \/ PlanPaymentAccountViolations(f)
    \/ MissingRefs(f) \/ Unnamed(f) \/ ReturnsWithoutSale(f)

(***************************************************************************)
(* Import.  base is the shop after the delete of replace mode, if any.     *)
(***************************************************************************)
\* INSERT ... ON CONFLICT (tenant_id, id) DO NOTHING: of two rows of one id one is kept.
Insert(base, rows) ==
    base \cup {Named(rows, id) : id \in Ids(rows) \ Ids(base)}

\* A category that only products still name is created.
WriteCategories(base, f) ==
    base["categories"] \cup f.data["categories"]
        \cup {[id |-> p.category] : p \in f.data["products"]}
WriteProducts(base, f) == Insert(base["products"], f.data["products"]) \cup ProductTombstones(f)
WriteSuppliers(base, f) == Insert(base["suppliers"], f.data["suppliers"] \ DroppedSuppliers(f))
WritePeople(base, f, t) == Insert(base[t], f.data[t]) \cup PersonTombstones(f, t)

\* Only a file that has accounts had the shop's deleted; these are plain INSERTs.
WriteAccounts(base, f) ==
    base["payment_accounts"]
        \cup {[a EXCEPT !.default = @ /\ a.live] : a \in f.data["payment_accounts"]}

\* An account the file does not carry is forgotten, the bill is not.
WriteSales(base, f) ==
    Insert(base["sales"],
           {[s EXCEPT !.account = IF @ \in Ids(f.data["payment_accounts"]) THEN @ ELSE None] :
               s \in f.data["sales"]})

WriteReturns(base, f) == Insert(base["returns"], f.data["returns"])
WriteCreditPayments(base, f) == Insert(base["credit_payments"], f.data["credit_payments"])
WriteOrders(base, f) == Insert(base["purchase_orders"], f.data["purchase_orders"])
WriteQuotes(base, f) == Insert(base["quotes"], f.data["quotes"])
WriteMovements(base, f) == Insert(base["movements"], f.data["movements"])

\* Every imported shift is archived, the file's open drawer included.
WriteShifts(base, f) ==
    Insert(base["shifts"], {[sh EXCEPT !.active = FALSE] : sh \in f.data["shifts"]})
WriteParked(base, f) == Insert(base["parked_sales"], f.data["parked_sales"])
WriteSettings(base, f) == IF f.data["settings"] = {} THEN base["settings"] ELSE f.data["settings"]

Written(base, f, t) ==
    CASE t = "categories" -> WriteCategories(base, f)
      [] t = "products" -> WriteProducts(base, f)
      [] t = "suppliers" -> WriteSuppliers(base, f)
      [] t \in People -> WritePeople(base, f, t)
      [] t = "payment_accounts" -> WriteAccounts(base, f)
      [] t = "sales" -> WriteSales(base, f)
      [] t = "returns" -> WriteReturns(base, f)
      [] t = "credit_payments" -> WriteCreditPayments(base, f)
      [] t = "purchase_orders" -> WriteOrders(base, f)
      [] t = "quotes" -> WriteQuotes(base, f)
      [] t = "movements" -> WriteMovements(base, f)
      [] t = "shifts" -> WriteShifts(base, f)
      [] t = "parked_sales" -> WriteParked(base, f)
      [] t = "settings" -> WriteSettings(base, f)
      [] t \in NeverCopied -> base[t]

\* The tables rows of the file are inserted into.
WrittenTo(f) == Carried \cup IF f.data["payment_accounts"] = {} THEN {} ELSE {"payment_accounts"}

WriteSnapshot(base, f) == [t \in Tables |-> Written(base, f, t)]

\* Mutant: the file's number is taken as it is, not the greatest.
SeedDocCountersLast(counters, f) ==
    [t \in Numbered |-> [d \in Devices |->
        LET nos == {r.no[2] : r \in {x \in f.data[t] : x.no[1] = d}} IN
        IF nos = {} THEN counters[t][d] ELSE Max(nos)]]

\* The counters after the import: never behind a number of the file that one of this
\* shop's devices could have issued.  A number is its device and its place.
SeedDocCounters(counters, f) ==
    [t \in Numbered |-> [d \in Devices |->
        Max({counters[t][d]} \cup {r.no[2] : r \in {x \in f.data[t] : x.no[1] = d}})]]

(***************************************************************************)
(* The schema: what the database takes as a shop.                          *)
(***************************************************************************)
Refers(rows, ids) == \A id \in rows : id \in ids \cup {None}

\* Foreign keys: of bills, credit notes, movements, price lists and credit payments.
ReferencesHold(shop) ==
    /\ Refers({s.customer : s \in shop["sales"]}, Ids(shop["customers"]))
    /\ Refers({r.mechanic : r \in shop["sales"] \cup shop["credit_payments"]}, Ids(shop["mechanics"]))
    /\ Refers({s.account : s \in shop["sales"]}, Ids(shop["payment_accounts"]))
    /\ {r.sale : r \in shop["returns"]} \subseteq Ids(shop["sales"])
    /\ {m.product : m \in shop["movements"] \cup shop["suppliers"]} \subseteq Ids(shop["products"])
    /\ {p.mechanic : p \in shop["credit_payments"]} \subseteq Ids(shop["mechanics"])

Constraints == {"keys", "part numbers", "numbers", "references", "default account",
                "codes", "movement refs"}

\* Codes of customers and mechanics are unique, deleted rows included; a document moves a
\* product once in each way.
Satisfied(c, shop) ==
    CASE c = "keys" -> \A t \in Tables : IdsDiffer(shop[t])
      [] c = "part numbers" -> \A p, q \in Live(shop["products"]) : p.part = q.part => p = q
      [] c = "numbers" -> \A t \in Numbered : \A r, s \in shop[t] : r.no = s.no => r = s
      [] c = "references" -> ReferencesHold(shop)
      [] c = "default account" -> Cardinality({a \in Live(shop["payment_accounts"]) : a.default}) <= 1
      [] c = "codes" -> \A t \in People : \A r, s \in shop[t] : r.code = s.code => r = s
      [] c = "movement refs" ->
            \A m, n \in shop["movements"] :
                m.ref # None /\ m.ref = n.ref /\ m.product = n.product => m = n

Violated(shop) == {c \in Constraints : ~ Satisfied(c, shop)}
Fits(shop) == Violated(shop) = {}

\* What the database holds against writing a file: the shop it would make, and any value
\* of it that no column takes.
Objections(f, shop) == Violated(shop) \cup (f.flaws \cap {"odd value"})

\* What the pre-flight leaves to the database.
Unforeseen == {"codes", "movement refs", "odd value"}
=============================================================================
