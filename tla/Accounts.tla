------------------------------ MODULE Accounts ------------------------------
(***************************************************************************)
(* The shop's QR payment accounts (server/src/payment-accounts).  A write   *)
(* is one transaction: it takes the shop's advisory lock, reads what it     *)
(* judges by, and writes back the whole row it read with its own fields     *)
(* changed.                                                                 *)
(***************************************************************************)
EXTENDS Naturals, FiniteSets, Absent

CONSTANTS
    AccountIds,         \* ids the owner's app gives out
    Values,             \* what a nickname or a bank code can be
    AccountWriters,     \* slots for transactions under way
    MaxActive,          \* MAX_ACTIVE_PAYMENT_ACCOUNTS
    MaxEdits           \* how many writes there are

ASSUME AccountsAssumption ==
    /\ {MaxActive, MaxEdits} \subseteq Nat /\ None \notin AccountIds \cup Values

VARIABLES
    account,        \* id -> its row, or None
    edit,           \* slot -> the write in it, or None
    edits,          \* how many writes there were
    wanted,         \* history: id -> field -> the value last committed for it
    clash           \* history: a write met uq_payment_accounts_default

accountVars == <<account, edit, edits, wanted, clash>>

Fields == {"nickname", "bankCode"}

AccountsInit ==
    /\ account = [a \in AccountIds |-> None] /\ edit = [w \in AccountWriters |-> None] /\ edits = 0
    /\ wanted = [a \in AccountIds |-> None] /\ clash = FALSE

Active == {a \in AccountIds : account[a] # None /\ ~ account[a].deleted}

-----------------------------------------------------------------------------
(* Requests *)

\* A create says every field, a patch some; a delete none.
Asked(op, fields, value) ==
    /\ op = "create" => fields = Fields
    /\ op = "delete" => fields = {}
    /\ value = None <=> fields = {}

AskEdit(w, op, a) ==
    /\ edit[w] = None /\ edits < MaxEdits /\ edits' = edits + 1
    /\ \E fields \in SUBSET Fields, value \in Values \cup {None}, default \in {"yes", "no", None} :
          /\ Asked(op, fields, value) /\ (op = "delete" => default = None)
          /\ edit' = [edit EXCEPT ![w] =
                [op |-> op, id |-> a, fields |-> fields, value |-> value, default |-> default,
                 step |-> "asked", read |-> None, active |-> 0]]
    /\ UNCHANGED <<account, wanted, clash>>

\* pg_advisory_xact_lock: one account writer of the shop at a time.
LockAccounts(w) ==
    \A v \in AccountWriters \ {w} : edit[v] # None => edit[v].step = "asked"

\* The row, and how many are active, as read under the lock.
Judge(w) ==
    /\ edit[w] # None /\ edit[w].step = "asked" /\ LockAccounts(w)
    /\ edit' = [edit EXCEPT ![w] = [@ EXCEPT !.step = "judged", !.read = account[edit[w].id],
                                             !.active = Cardinality(Active)]]
    /\ UNCHANGED <<account, edits, wanted, clash>>

\* ClientIdReused, PAYMENT_ACCOUNT_LIMIT, or nothing active by that id.
Refused(w) ==
    LET e == edit[w] IN
    IF e.op = "create" THEN e.read # None \/ e.active >= MaxActive
    ELSE e.read = None \/ (e.read # None /\ e.read.deleted)

Leave(w) == edit' = [edit EXCEPT ![w] = None]

\* Refused, a field of the other kind, or cut off: all of it is rolled back.
GiveUp(w) ==
    /\ edit[w] # None /\ Leave(w)
    /\ UNCHANGED <<account, edits, wanted, clash>>

-----------------------------------------------------------------------------
(* Writes *)

\* What the new row says; a patch keeps every field it does not name as it was read.
NewRow(e) ==
    LET old == e.read IN
    [nickname |-> IF "nickname" \in e.fields THEN e.value ELSE old.nickname,
     bankCode |-> IF "bankCode" \in e.fields THEN e.value ELSE old.bankCode,
     default  |-> IF e.default # None THEN e.default = "yes" ELSE old # None /\ old.default,
     deleted  |-> FALSE]

\* The default moves: the old one is cleared in the transaction that sets the new one.
\* Mutant: it is not cleared.
ClearNoDefault(a, e) == account
ClearDefault(a, e) ==
    IF e.default = "yes" /\ (e.read = None \/ (e.read # None /\ ~ e.read.default))
    THEN [b \in AccountIds |-> IF b # a /\ b \in Active THEN [account[b] EXCEPT !.default = FALSE]
                               ELSE account[b]]
    ELSE account

\* uq_payment_accounts_default
TwoDefaults(rows) ==
    \E a, b \in AccountIds : a # b /\ rows[a] # None /\ rows[b] # None
                             /\ rows[a].default /\ rows[b].default

\* createIn, updateIn
Save(w) ==
    /\ edit[w] # None /\ edit[w].step = "judged" /\ edit[w].op # "delete" /\ ~ Refused(w)
    /\ LET e == edit[w]
           rows == [ClearDefault(e.id, e) EXCEPT ![e.id] = NewRow(e)] IN
       IF TwoDefaults(rows)
       THEN clash' = TRUE /\ UNCHANGED <<account, wanted>>
       ELSE /\ account' = rows /\ UNCHANGED clash
            /\ wanted' = [wanted EXCEPT ![e.id] =
                            [f \in Fields |-> IF f \in e.fields THEN e.value ELSE wanted[e.id][f]]]
    /\ Leave(w) /\ UNCHANGED edits

\* removeIn: a soft delete, and the shop is left with no default.
Remove(w) ==
    /\ edit[w] # None /\ edit[w].step = "judged" /\ edit[w].op = "delete" /\ ~ Refused(w)
    /\ account' = [account EXCEPT ![edit[w].id] = [@ EXCEPT !.deleted = TRUE, !.default = FALSE]]
    /\ Leave(w) /\ UNCHANGED <<edits, wanted, clash>>

AccountsNext ==
    \E w \in AccountWriters :
        \/ \E op \in {"create", "patch", "delete"}, a \in AccountIds : AskEdit(w, op, a)
        \/ Judge(w) \/ GiveUp(w) \/ Save(w) \/ Remove(w)

-----------------------------------------------------------------------------
(* Properties *)

\* Two owners' windows overlap as if one came after the other: never more than five accounts
\* or two defaults, moving the default is never refused by the index that guards it, and a
\* write that changes one field takes no other write's field back.
AccountsOrderly ==
    /\ Cardinality(Active) <= MaxActive /\ ~ clash
    /\ \A a, b \in AccountIds :
          account[a] # None /\ account[b] # None /\ account[a].default /\ account[b].default => a = b
    /\ \A a \in AccountIds : account[a] # None =>
          account[a].nickname = wanted[a]["nickname"] /\ account[a].bankCode = wanted[a]["bankCode"]
=============================================================================
