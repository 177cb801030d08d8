------------------------------ MODULE RowLocks ------------------------------
(***************************************************************************)
(* The same requests as they run: each is a READ COMMITTED transaction that *)
(* takes its row locks one after another, reads under each and is refused   *)
(* by what it read, and keeps them until it commits or is rolled back.      *)
(* "Lock order" in server/README.md, and the comments of the services that  *)
(* name it, are about this.                                                 *)
(*                                                                         *)
(* Nobody sees a transaction's writes before it commits, so they are one    *)
(* step there.  Locks nobody waits for in a circle are left out: a request's *)
(* own key and the quote it converts come before its first row, the         *)
(* customer after its last.                                                 *)
(***************************************************************************)
EXTENDS OneByOne, Sequences

CONSTANT MaxStarted     \* requests of a behaviour

VARIABLES
    state,      \* of each request: "new", "running" or "ended"
    held,       \* the locks it holds
    step,       \* how many of its plan it has gone through
    found       \* what it read: its shift, the tab, the figures in stock

lockVars == <<drawer, retired, doc, tab, stock, state, held, step, found>>

Lock(kind, row, mode) == [kind |-> kind, row |-> row, mode |-> mode]

\* FOR SHARE suffers FOR SHARE; FOR UPDATE and FOR NO KEY UPDATE suffer none of these.
Conflict(k, l) == k.kind = l.kind /\ k.row = l.row /\ {k.mode, l.mode} # {"share"}

Nothing == [shift |-> None, owed |-> 0, stock |-> OpeningStock]

RowLocksInit ==
    /\ OneByOneInit
    /\ state = [j \in Jobs |-> IF j \in Before THEN "ended" ELSE "new"]
    /\ held = [j \in Jobs |-> {}]
    /\ step = [j \in Jobs |-> 0] /\ found = [j \in Jobs |-> Nothing]

-----------------------------------------------------------------------------
(* What each request locks, and in which order *)

\* SELECT … ORDER BY id FOR UPDATE.
Products(ps) ==
    LET ids == CHOOSE s \in [1..Cardinality(ps) -> ps] :
                  \A i, k \in DOMAIN s : i < k => s[i] < s[k]
    IN [i \in DOMAIN ids |-> Lock("product", ids[i], "update")]
Mechanic(m) == IF m = None THEN <<>> ELSE <<Lock("mechanic", m, "update")>>
Drawer(j, mode) == <<Lock("drawer", Body[j].device, mode)>>
Counter(j) == <<Lock("counter", <<Body[j].device, Body[j].op>>, "update")>>
Row(kind, row) == <<Lock(kind, row, "update")>>

SalePlan(j) ==
    Drawer(j, "share") \o Mechanic(Body[j].mechanic) \o Products(Body[j].parts) \o Counter(j)
\* Mutant: the mechanic with the ledger, after the stock, as the lines of the code read.
VoidPlanStockFirst(j) ==
    Row("bill", Bill(j)) \o Drawer(j, "share")
      \o Products(Body[Bill(j)].parts) \o Mechanic(Body[Bill(j)].mechanic)

VoidPlan(j) ==
    Row("bill", Bill(j)) \o Drawer(j, "share")
      \o Mechanic(Body[Bill(j)].mechanic) \o Products(Body[Bill(j)].parts)
ReturnPlan(j) ==
    Row("bill", Bill(j)) \o Drawer(j, "share")
      \o Mechanic(Body[Bill(j)].mechanic) \o Products(Body[j].parts) \o Counter(j)
PaymentPlan(j) == Mechanic(Body[j].mechanic) \o Drawer(j, "share") \o Counter(j)
DevicePlan(j) == Row("device", Body[j].device) \o Drawer(j, "update")
ReceivePlan(j) == Row("order", Bill(j)) \o Products(Body[j].parts)

PlanOf(j) ==
    CASE Body[j].op = "sale"               -> SalePlan(j)
      [] Body[j].op = "void"               -> VoidPlan(j)
      [] Body[j].op = "return"             -> ReturnPlan(j)
      [] Body[j].op = "payment"            -> PaymentPlan(j)
      [] Body[j].op \in {"open", "retire"} -> DevicePlan(j)
      [] Body[j].op = "receive"            -> ReceivePlan(j)
      [] Body[j].op = "adjust"             -> Products(Body[j].parts)
      [] OTHER                             -> Drawer(j, "update")

Plan == [j \in Jobs |-> PlanOf(j)]

-----------------------------------------------------------------------------
(* The next lock of a request, and what it reads under it *)

Running == {j \in Jobs : state[j] = "running"}
Left(j) == Len(Plan[j]) - step[j]

\* The row a drawer's SELECT sees when it starts: the open shift, or for those who
\* write it the one not archived yet.
Seen(j, mode) == IF mode = "share" THEN OpenShift(Body[j].device) ELSE Shift(Body[j].device)

Wanted(j) ==
    LET l == Plan[j][step[j] + 1]
        aimed == found[j].shift IN
    IF l.kind = "drawer"
    THEN [l EXCEPT !.row = IF aimed # None THEN aimed ELSE Seen(j, l.mode)]
    ELSE l

Blockers(j) ==
    IF Left(j) = 0 THEN {}
    ELSE {k \in Running \ {j} : \E l \in held[k] : Conflict(l, Wanted(j))}

\* A row that was waited for is looked at again: a shift closed or archived in the
\* meantime is not found, nor the one opened after it.
Reading(j, l) ==
    CASE l.kind = "drawer" ->
            [found[j] EXCEPT !.shift = IF l.row = Seen(j, l.mode) THEN OpenShift(Body[j].device) ELSE None]
      [] l.kind = "mechanic" -> [found[j] EXCEPT !.owed = tab[l.row]]
      [] l.kind = "product"  -> [found[j] EXCEPT !.stock = [@ EXCEPT ![l.row] = stock[l.row]]]
      [] OTHER               -> found[j]

\* The stock of a bill is looked at once all its products are locked; a payment's
\* amount once its drawer is.
Allows(j, l, read) ==
    CASE l.kind = "order"    -> ~ Received(l.row)
      [] l.kind = "device"   -> l.row \notin retired
      [] l.kind = "bill"     -> BillAllows(j)
      [] l.kind = "drawer"   -> /\ DrawerAllows(j, read.shift)
                                /\ Body[j].op = "payment" => TabAllows(j, read.owed)
      [] l.kind = "mechanic" -> Body[j].op = "sale" => TabAllows(j, read.owed)
      [] l.kind = "product"  -> \/ Left(j) > 1 /\ Plan[j][step[j] + 2].kind = "product"
                                \/ StockAllows(j, read.stock)
      [] OTHER               -> TRUE

-----------------------------------------------------------------------------
(* The transactions *)

Begin(j) ==
    /\ state[j] = "new" /\ Cardinality({k \in Jobs \ Before : state[k] # "new"}) < MaxStarted
    /\ state' = [state EXCEPT ![j] = "running"]
    /\ UNCHANGED <<shopVars, held, step, found>>

End(j) ==
    /\ state' = [state EXCEPT ![j] = "ended"]
    /\ held' = [held EXCEPT ![j] = {}]
    /\ step' = [step EXCEPT ![j] = 0]
    /\ found' = [found EXCEPT ![j] = Nothing]

\* Its statement has started, and the row it saw is the one it waits for.
Wait(j) ==
    /\ j \in Running /\ Blockers(j) # {}
    /\ Wanted(j).kind = "drawer" /\ found[j].shift = None
    /\ found' = [found EXCEPT ![j] = [@ EXCEPT !.shift = Wanted(j).row]]
    /\ UNCHANGED <<shopVars, state, held, step>>

\* Mutant: requireOpenShiftIdFor as a plain SELECT, without FOR SHARE.
TakePlain(j) ==
    /\ j \in Running /\ Left(j) > 0 /\ Blockers(j) = {}
    /\ Allows(j, Wanted(j), Reading(j, Wanted(j)))
    /\ held' = [held EXCEPT ![j] = @ \cup {l \in {Wanted(j)} : l.mode = "update"}]
    /\ step' = [step EXCEPT ![j] = @ + 1]
    /\ found' = [found EXCEPT ![j] = Reading(j, Wanted(j))]
    /\ UNCHANGED <<shopVars, state>>

Take(j) ==
    /\ j \in Running /\ Left(j) > 0 /\ Blockers(j) = {}
    /\ Allows(j, Wanted(j), Reading(j, Wanted(j)))
    /\ held' = [held EXCEPT ![j] = @ \cup {l \in {Wanted(j)} : l.row # None}]
    /\ step' = [step EXCEPT ![j] = @ + 1]
    /\ found' = [found EXCEPT ![j] = Reading(j, Wanted(j))]
    /\ UNCHANGED <<shopVars, state>>

Refuse(j) ==
    /\ j \in Running /\ Left(j) > 0 /\ Blockers(j) = {}
    /\ ~ Allows(j, Wanted(j), Reading(j, Wanted(j)))
    /\ End(j) /\ UNCHANGED shopVars

Commit(j) ==
    /\ j \in Running /\ Left(j) = 0
    /\ Effect(j, found[j].shift, found[j].stock)
    /\ End(j)

\* lock_timeout, statement_timeout, a lost connection.
RollBack(j) == j \in Running /\ End(j) /\ UNCHANGED shopVars

RowLocksNext ==
    \E j \in Jobs :
        Begin(j) \/ Wait(j) \/ Take(j) \/ Refuse(j) \/ Commit(j) \/ RollBack(j)

RowLocksSpec == RowLocksInit /\ [][RowLocksNext]_lockVars

-----------------------------------------------------------------------------
(* Properties *)

\* No circle of requests each waiting for a row another of them holds, whichever
\* requests of a shop meet and wherever they have got to: the order in which the
\* services take their locks, and the shared lock on the drawer, see to it.
NoDeadlock ==
    \A S \in (SUBSET Running) \ {{}} : \E j \in S : Blockers(j) \cap S = {}

\* What a request read is still so when it commits: the requests that overlap leave
\* what they would have left one after another, so no bill lands in a drawer already
\* counted, no refund exceeds its bill, no tab its limit, no cash-out the drawer, and
\* no correction of stock overwrites a sale.
ImplementsOneByOne == OneByOneSpec
=============================================================================
