------------------------------ MODULE Registers -----------------------------
(***************************************************************************)
(* The small registers of the counter and the office: customers and         *)
(* mechanics (server/src/customers, server/src/mechanics), parked bills     *)
(* (server/src/parked-sales) and the owner's review items                   *)
(* (server/src/review-items).  Each write is one transaction that locks     *)
(* what it judges by - a row, or the sequence codes are taken from - and    *)
(* decides on what it read under the lock.                                  *)
(***************************************************************************)
EXTENDS Naturals, FiniteSetsExt, Absent

CONSTANTS
    Customers, Mechanics, Carts, Items,     \* ids; an item is there when the run begins
    Clerks,             \* slots for transactions under way
    MaxOwed,            \* how much a mechanic is lent
    MaxTasks           \* how many transactions there are

People == Customers \cup Mechanics
PersonRow == [code : Nat, owes : Nat, deleted : BOOLEAN]

ASSUME RegistersAssumption ==
    /\ Customers \cap Mechanics = {} /\ Carts \cap Items = {} /\ People \cap (Carts \cup Items) = {}
    /\ {MaxOwed, MaxTasks} \subseteq Nat
    /\ None \notin People \cup Carts \cup Items \cup Clerks \cup PersonRow

VARIABLES
    person,         \* id -> its row, or None
    cart,           \* parked bill -> is its row there
    reviewedBy,     \* review item -> who reviewed it, or None
    task,           \* slot -> the transaction in it, or None
    tasks,          \* how many transactions there were
    parked,         \* history: the carts ever parked
    handed,         \* history: <<cart or item, clerk, which task>> of each one handed out
    buried,         \* history: mechanics deleted while they owed
    refusedCode     \* history: a new code was taken already

registerVars == <<person, cart, reviewedBy, task, tasks, parked, handed, buried, refusedCode>>
registerRows == <<person, cart, reviewedBy, parked, handed, buried, refusedCode>>

RegistersInit ==
    /\ person = [p \in People |-> None] /\ cart = [c \in Carts |-> FALSE]
    /\ reviewedBy = [i \in Items |-> None]
    /\ task = [w \in Clerks |-> None] /\ tasks = 0
    /\ parked = {} /\ handed = {} /\ buried = {} /\ refusedCode = FALSE

Kind(p) == IF p \in Customers THEN "customers" ELSE "mechanics"
Taken(kind) == {person[p].code : p \in {x \in People : person[x] # None /\ Kind(x) = kind}}

\* Deleted people keep their codes.
MaxCode(kind) == IF Taken(kind) = {} THEN 0 ELSE Max(Taken(kind))

-----------------------------------------------------------------------------
(* Transactions *)

Ops(id) ==
    CASE id \in People -> {"create", "update", "delete"} \cup (IF id \in Mechanics THEN {"credit", "pay"} ELSE {})
      [] id \in Carts -> {"park", "recall"}
      [] OTHER -> {"review"}

Take(w, id, op) ==
    /\ task[w] = None /\ tasks < MaxTasks /\ tasks' = tasks + 1 /\ op \in Ops(id)
    /\ task' = [task EXCEPT ![w] = [op |-> op, id |-> id, step |-> "asked", max |-> 0, owes |-> 0,
                                    gone |-> FALSE, nth |-> tasks]]
    /\ UNCHANGED registerRows

\* What is locked: the shop's code sequence of a kind, or the row.
\* Mutant: a deletion reads the balance without FOR UPDATE.
LockOnButDelete(t) ==
    IF t.op = "create" THEN <<Kind(t.id)>>
    ELSE IF t.op = "delete" THEN <<"read", t.id>> ELSE <<"row", t.id>>
LockOn(t) == IF t.op = "create" THEN <<Kind(t.id)>> ELSE <<"row", t.id>>

\* Mutant: nobody waits.
WaitsNever(w) == FALSE
RowWaits(w) ==
    \E v \in Clerks \ {w} : task[v] # None /\ task[v].step = "locked" /\ LockOn(task[v]) = LockOn(task[w])

Gone(id) ==
    CASE id \in People -> person[id] = None \/ (person[id] # None /\ person[id].deleted)
      [] id \in Carts -> ~ cart[id]
      [] OTHER -> reviewedBy[id] # None

LockAndRead(w) ==
    /\ task[w] # None /\ task[w].step = "asked" /\ ~ RowWaits(w)
    /\ LET id == task[w].id IN
       task' = [task EXCEPT ![w] =
                  [@ EXCEPT !.step = "locked", !.gone = Gone(id),
                            !.max = IF id \in People THEN MaxCode(Kind(id)) ELSE 0,
                            !.owes = IF id \in People /\ person[id] # None THEN person[id].owes ELSE 0]]
    /\ UNCHANGED <<registerRows, tasks>>

Ready(w, op) ==
    /\ task[w] # None /\ task[w].step = "locked" /\ task[w].op = op
    /\ task' = [task EXCEPT ![w] = None] /\ UNCHANGED tasks

\* Refused, timed out or cut off: nothing of it stays.
Abandon(w) ==
    /\ task[w] # None /\ task' = [task EXCEPT ![w] = None] /\ UNCHANGED <<registerRows, tasks>>

-----------------------------------------------------------------------------
(* People *)

\* createIn: the next code after the highest, and a unique index behind it.
CreatePerson(w) ==
    /\ Ready(w, "create")
    /\ LET p == task[w].id
           code == task[w].max + 1 IN
       IF person[p] # None THEN UNCHANGED <<person, refusedCode>>
       ELSE IF code \in Taken(Kind(p)) THEN refusedCode' = TRUE /\ UNCHANGED person
       ELSE /\ person' = [person EXCEPT ![p] = [code |-> code, owes |-> 0, deleted |-> FALSE]]
            /\ UNCHANGED refusedCode
    /\ UNCHANGED <<cart, reviewedBy, parked, handed, buried>>

\* updateIn: names and limits only, and only of somebody who is there.
UpdatePerson(w) == Ready(w, "update") /\ UNCHANGED registerRows

\* deleteIn: a mechanic who owes is not deleted; a customer always is, and twice is once.
DeletePerson(w) ==
    /\ Ready(w, "delete")
    /\ LET p == task[w].id
           hasBalance == p \in Mechanics /\ ~ task[w].gone /\ task[w].owes > 0 IN
       IF hasBalance \/ person[p] = None \/ (person[p] # None /\ person[p].deleted)
       THEN UNCHANGED <<person, buried>>
       ELSE /\ person' = [person EXCEPT ![p] = [@ EXCEPT !.deleted = TRUE]]
            /\ buried' = IF person[p].owes > 0 THEN buried \cup {p} ELSE buried
    /\ UNCHANGED <<cart, reviewedBy, parked, handed, refusedCode>>

\* A credit bill takes the mechanic's row first, deleted or not.
SellOnCredit(w) ==
    /\ Ready(w, "credit")
    /\ LET p == task[w].id IN
       person' = IF person[p] = None \/ (person[p] # None /\ person[p].owes >= MaxOwed) THEN person
                 ELSE [person EXCEPT ![p] = [person[p] EXCEPT !.owes = @ + 1]]
    /\ UNCHANGED <<cart, reviewedBy, parked, handed, buried, refusedCode>>

\* A payment too, and never more than is owed.
PayCredit(w) ==
    /\ Ready(w, "pay")
    /\ LET p == task[w].id IN
       person' = IF task[w].owes = 0 THEN person ELSE [person EXCEPT ![p] = [person[p] EXCEPT !.owes = @ - 1]]
    /\ UNCHANGED <<cart, reviewedBy, parked, handed, buried, refusedCode>>

-----------------------------------------------------------------------------
(* Parked bills and review items *)

\* parkIn: a fresh id every time.
Park(w) ==
    /\ Ready(w, "park")
    /\ LET c == task[w].id IN
       IF c \in parked THEN UNCHANGED <<cart, parked>>
       ELSE cart' = [cart EXCEPT ![c] = TRUE] /\ parked' = parked \cup {c}
    /\ UNCHANGED <<person, reviewedBy, handed, buried, refusedCode>>

\* removeIn: DELETE ... RETURNING is the recall; who finds no row gets a 404.
Recall(w) ==
    /\ Ready(w, "recall")
    /\ IF task[w].gone THEN UNCHANGED <<cart, handed>>
       ELSE /\ cart' = [cart EXCEPT ![task[w].id] = FALSE]
            /\ handed' = handed \cup {<<task[w].id, w, task[w].nth>>}
    /\ UNCHANGED <<person, reviewedBy, parked, buried, refusedCode>>

\* markReviewedIn: who comes second is answered with the first one's review, and writes no
\* audit row.
MarkReviewed(w) ==
    /\ Ready(w, "review")
    /\ IF task[w].gone THEN UNCHANGED <<reviewedBy, handed>>
       ELSE /\ reviewedBy' = [reviewedBy EXCEPT ![task[w].id] = w]
            /\ handed' = handed \cup {<<task[w].id, w, task[w].nth>>}
    /\ UNCHANGED <<person, cart, parked, buried, refusedCode>>

RegistersNext ==
    \E w \in Clerks :
        \/ \E id \in People \cup Carts \cup Items : \E op \in Ops(id) : Take(w, id, op)
        \/ LockAndRead(w) \/ Abandon(w)
        \/ CreatePerson(w) \/ UpdatePerson(w) \/ DeletePerson(w) \/ SellOnCredit(w) \/ PayCredit(w)
        \/ Park(w) \/ Recall(w) \/ MarkReviewed(w)

-----------------------------------------------------------------------------
(* Properties *)

\* No mechanic is taken off the list while he owes, not even when a credit bill is being
\* rung up for him at that moment.
NoDebtBuried == buried = {}

\* Each code goes to one person without an error, each parked bill to one till, and each
\* review item is reviewed, and audited, once.
OneTakerEach ==
    /\ ~ refusedCode
    /\ \A p, q \in People : p # q /\ Kind(p) = Kind(q) /\ person[p] # None /\ person[q] # None =>
          person[p].code # person[q].code
    /\ \A x, y \in handed : x[1] = y[1] => x = y
=============================================================================
