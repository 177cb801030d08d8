------------------------------ MODULE OneByOne ------------------------------
(***************************************************************************)
(* The money and stock requests of a shop when no two of them overlap: each *)
(* is checked and done in one step.  Shop takes this for granted, request   *)
(* by request in full; here the rows are reduced to what two requests can   *)
(* disagree about.  A line is one unit, costs 1, and nothing else does.     *)
(***************************************************************************)
EXTENDS Integers, FiniteSets, Absent

CONSTANTS
    Jobs,           \* the requests, each done at most once
    Body,           \* what each of them says
    Before,         \* the sales rung up before the behaviour begins
    Devices, Mechanics, Parts,
    CreditLimit, OpeningStock, OpeningTab

Ops == {"sale", "void", "return", "payment", "open", "close", "entry", "retire",
        "receive", "adjust"}

\* What a request may leave behind.
Papers == [shift : (Devices \X Nat) \cup {None}, stands : BOOLEAN, back : SUBSET Parts]

ASSUME OneByOneAssumption ==
    /\ IsFiniteSet(Jobs)
    /\ \A j \in Jobs : /\ Body[j].op \in Ops
                       /\ Body[j].device \in Devices
                       /\ Body[j].mechanic \in Mechanics \cup {None}
                       /\ Body[j].parts \subseteq Parts
                       /\ Body[j].op \in {"void", "return"} =>
                             Body[j].of \in Jobs /\ Body[Body[j].of].op = "sale"
                       /\ Body[j].op = "receive" => Body[j].of # None
    /\ \A j \in Before : j \in Jobs /\ Body[j].op = "sale"
    /\ IsFiniteSet(Parts) /\ Parts \subseteq Int
    /\ CreditLimit >= 0
    /\ OpeningStock \in [Parts -> Int] /\ OpeningTab \in [Mechanics -> Int]
    /\ None \notin Jobs \cup Devices \cup Mechanics \cup Parts \cup Papers
    /\ None \notin (Devices \X Nat) \cup (Devices \X Ops)

VARIABLES
    drawer,     \* of each machine: the number of its latest shift, and whether it is open
    retired,    \* machines out of use
    doc,        \* what each request left: the shift it is stamped with; of a bill, what came back
    tab, stock

shopVars == <<drawer, retired, doc, tab, stock>>

Done(j) == doc[j] # None
Shift(d) == <<d, drawer[d].no>>
OpenShift(d) == IF drawer[d].open THEN Shift(d) ELSE None
Paper(shift) == [shift |-> shift, stands |-> TRUE, back |-> {}]
Total(j) == Cardinality(Body[j].parts)
OnTab(j) == Body[j].how = "credit"
Bill(j) == Body[j].of

\* A bill that came back whole is void too, and its credit notes still subtract.
Counted(b) == doc[b].stands \/ doc[b].back # {}
Cash(shift) ==
    LET Of(op) == {j \in Jobs : Done(j) /\ doc[j].shift = shift
                                /\ Body[j].op = op /\ Body[j].how = "cash"}
        Worth(S) == Cardinality(UNION {{j} \X Body[j].parts : j \in S})
    IN Worth({b \in Of("sale") : Counted(b)}) + Cardinality(Of("payment"))
         - Worth(Of("return")) - Cardinality(Of("entry"))

OneByOneInit ==
    /\ drawer = [d \in Devices |-> [no |-> 1, open |-> TRUE]]
    /\ retired = {}
    /\ doc = [j \in Jobs |-> IF j \in Before THEN Paper(<<Body[j].device, 1>>) ELSE None]
    /\ tab = OpeningTab
    /\ stock = OpeningStock

-----------------------------------------------------------------------------
(* What each request writes *)

Write(j, shift) == doc' = [doc EXCEPT ![j] = Paper(shift)]
OffTab(m, n) == tab' = IF m = None THEN tab ELSE [tab EXCEPT ![m] = IF @ > n THEN @ - n ELSE 0]
PutBack(ps) == stock' = [p \in Parts |-> stock[p] + IF p \in ps THEN 1 ELSE 0]

Sell(j, shift) ==
    /\ Write(j, shift)
    /\ tab' = IF OnTab(j) THEN [tab EXCEPT ![Body[j].mechanic] = @ + Total(j)] ELSE tab
    /\ stock' = [p \in Parts |-> stock[p] - IF p \in Body[j].parts THEN 1 ELSE 0]
    /\ UNCHANGED <<drawer, retired>>

Void(j) ==
    LET b == Bill(j) IN
    /\ doc' = [doc EXCEPT ![j] = Paper(None), ![b] = [doc[b] EXCEPT !.stands = FALSE]]
    /\ OffTab(Body[b].mechanic, IF OnTab(b) THEN Total(b) ELSE 0)
    /\ PutBack(Body[b].parts)
    /\ UNCHANGED <<drawer, retired>>

Refund(j, shift) ==
    LET b == Bill(j)
        back == doc[b].back \cup Body[j].parts IN
    /\ doc' = [doc EXCEPT ![j] = Paper(shift),
                          ![b] = [doc[b] EXCEPT !.back = back, !.stands = back # Body[b].parts]]
    /\ OffTab(Body[b].mechanic, IF OnTab(j) THEN Total(j) ELSE 0)
    /\ PutBack(Body[j].parts)
    /\ UNCHANGED <<drawer, retired>>

Pay(j, shift) == Write(j, shift) /\ OffTab(Body[j].mechanic, 1) /\ UNCHANGED <<drawer, retired, stock>>
Entry(j, shift) == Write(j, shift) /\ UNCHANGED <<drawer, retired, tab, stock>>

SetDrawer(d, no, open) == drawer' = [drawer EXCEPT ![d] = [no |-> no, open |-> open]]
Open(j, d) ==
    /\ SetDrawer(d, drawer[d].no + 1, TRUE)
    /\ Write(j, None) /\ UNCHANGED <<retired, tab, stock>>
Close(j, d) ==
    /\ SetDrawer(d, drawer[d].no, FALSE)
    /\ Write(j, None) /\ UNCHANGED <<retired, tab, stock>>
Retire(j, d) ==
    /\ SetDrawer(d, drawer[d].no, FALSE)
    /\ retired' = retired \cup {d}
    /\ Write(j, None) /\ UNCHANGED <<tab, stock>>

\* A receipt and a correction write the figure they reckoned from the one they read.
Reckoned(j, was) ==
    IF Body[j].op = "receive" THEN was + 1 ELSE IF was > 2 THEN was - 2 ELSE 0
SetStock(j, from) ==
    /\ stock' = [p \in Parts |-> IF p \in Body[j].parts THEN Reckoned(j, from[p]) ELSE stock[p]]
    /\ Write(j, None) /\ UNCHANGED <<drawer, retired, tab>>

-----------------------------------------------------------------------------
(* The checks of the requests, each about one of the rows they read *)

Received(order) == \E i \in Jobs : Body[i].op = "receive" /\ Done(i) /\ Bill(i) = order
BillAllows(j) ==
    /\ Done(Bill(j)) /\ doc[Bill(j)].stands
    /\ doc[Bill(j)].back \cap (IF Body[j].op = "void" THEN Parts ELSE Body[j].parts) = {}
TabAllows(j, owed) ==
    CASE Body[j].op = "sale" /\ OnTab(j) -> owed + Total(j) <= CreditLimit
      [] Body[j].op = "payment"          -> owed >= 1
      [] OTHER                           -> TRUE
DrawerAllows(j, shift) ==
    CASE Body[j].op \in {"open", "retire"} -> TRUE
      [] Body[j].op = "void"               -> shift # None /\ shift = doc[Bill(j)].shift
      [] Body[j].op = "entry"              -> shift # None /\ Cash(shift) >= 1
      [] Body[j].op = "return"             -> Body[j].how = "cash" => shift # None
      [] OTHER                             -> shift # None
StockAllows(j, on) == Body[j].op = "sale" => \A p \in Body[j].parts : on[p] >= 1

\* What a request writes, given the shift and the figures it read.
Effect(j, shift, from) ==
    CASE Body[j].op = "sale"    -> Sell(j, shift)
      [] Body[j].op = "void"    -> Void(j)
      [] Body[j].op = "return"  -> Refund(j, shift)
      [] Body[j].op = "payment" -> Pay(j, shift)
      [] Body[j].op = "entry"   -> Entry(j, shift)
      [] Body[j].op = "open"    -> Open(j, Body[j].device)
      [] Body[j].op = "close"   -> Close(j, Body[j].device)
      [] Body[j].op = "retire"  -> Retire(j, Body[j].device)
      [] OTHER                  -> SetStock(j, from)

-----------------------------------------------------------------------------
(* The requests, each checked and done at once.  A refund that moves no cash *)
(* may miss the drawer that was opened while it waited for the one before.   *)

DoAtOnce(j) ==
    LET op == Body[j].op
        m == Body[j].mechanic IN
    /\ ~ Done(j) /\ Done(j)'
    /\ op \in {"open", "retire"} => Body[j].device \notin retired
    /\ op = "receive" => ~ Received(Bill(j))
    /\ op \in {"void", "return"} => BillAllows(j)
    /\ m # None => TabAllows(j, tab[m])
    /\ StockAllows(j, stock)
    /\ \E shift \in {OpenShift(Body[j].device)}
                       \cup (IF op = "return" /\ Body[j].how # "cash" THEN {None} ELSE {}) :
          /\ op \notin {"receive", "adjust"} => DrawerAllows(j, shift)
          /\ Effect(j, shift, stock)

OneByOneNext == \E j \in Jobs : DoAtOnce(j)

OneByOneSpec == OneByOneInit /\ [][OneByOneNext]_shopVars
=============================================================================
