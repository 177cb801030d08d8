------------------------------ MODULE SyncState ------------------------------
(***************************************************************************)
(* One till and its shop's server.  The till keeps an outbox of what it    *)
(* did while the line was bad (outbox_ops) and its own copy of the number  *)
(* counters; the server keeps the documents, the idempotency keys, the     *)
(* counters and what the owner is asked to look at.                        *)
(*                                                                         *)
(* An operation is a bill, or the credit note or the void of a bill; its   *)
(* id and its key are the operation itself, since a till draws each once.  *)
(* The key's fingerprint is the one thing that differs between a bill sent *)
(* online and the same bill queued: the queued one carries a number.       *)
(***************************************************************************)
EXTENDS DocNumbers, Sequences, FiniteSets, SequencesExt

CONSTANTS Bills,          \* the carts rung up
          Returned, Voided, \* the bills the till may return, and void, afterwards
          LateDated,      \* the bills whose till clock runs ahead of the server's
          MaxPushes,      \* bound: requests to /sync/push
          BatchSize,      \* MAX_SYNC_OPS, take(50)
          StuckAt,        \* attempts >= 3
          MaxResends,     \* bound: resends and discards of the owner
          MaxMishaps,     \* bound: lost answers, transient errors, restarts, expired keys
          None

ASSUME BillsAssumption == Returned \subseteq Bills /\ Voided \subseteq Bills /\ LateDated \subseteq Bills
ASSUME PushAssumption ==
    /\ MaxPushes \in Nat
    /\ BatchSize \in Nat \ {0} /\ StuckAt \in Nat \ {0} /\ MaxResends \in Nat /\ MaxMishaps \in Nat

Pushes == 1..MaxPushes

Sale(b) == <<"sale", b>>
Return(b) == <<"return", b>>
Void(b) == <<"void", b>>

Ops == {Sale(b) : b \in Bills} \cup {Return(b) : b \in Returned} \cup {Void(b) : b \in Voided}

VARIABLES mode,       \* SyncStatus
          outbox,     \* outbox_ops in the order they were made
          counter,    \* the till's doc_counters
          paper,      \* the number the till printed, by operation
          attempt,    \* what became of each operation at the counter (PendingWrites)
          due,        \* push() was called, or its loop goes round again
          waiting,    \* the push the till waits on: single flight
          posts,      \* POST /sales on its way to the server, or being retried there
          replies,    \* answers of POST /sales on their way back
          push,       \* the pushes, by number
          rows,       \* the server's documents
          keys,       \* idempotency_keys: the fingerprint a key was recorded with
          counters,   \* the server's doc_counters
          review,     \* owner_review_items
          unsynced,   \* devices.unsynced_ops
          effects,    \* how often each operation changed the shop's books
          verdicts,   \* every verdict a push gave: the operation and its code
          dropped,    \* operations the owner discarded
          resends,    \* what the owner did in the till's review screen
          mishaps     \* what went wrong so far

till == <<mode, outbox, counter, paper, attempt, due, waiting>>
server == <<rows, keys, counters, review, unsynced, effects, verdicts>>
wire == <<posts, replies, push>>
owner == <<dropped, resends, mishaps>>
vars == <<till, server, wire, owner>>

SeriesOf(op) == IF op[1] = "sale" THEN "RC" ELSE "CN"

\* endpointForOp: one route, whose body differs between the counter and the outbox.
Fingerprints == {"online", "queued"}

\* outbox_ops.  A void prints no number.
OutboxOp == [op : Ops, no : DocNo \cup {None}, status : {"pending", "stuck", "rejected"},
             attempts : 0..StuckAt]

\* dated: whose clock the row's date is.
Row == [no : DocNo \cup {None}, offline : BOOLEAN, dated : {"till", "server"}]

Result == {"applied", "rejected", "retry"}

\* over: the till has taken its answer, or nobody waits for one any more.
Push == [stage : {"running", "answered", "over"}, ops : Seq(OutboxOp), results : Seq(Result),
         nos : Seq(DocNo \cup {None}), remaining : Nat]

ASSUME NoneAssumption ==
    None \notin Row /\ None \notin Push /\ None \notin Pushes /\ None \notin Fingerprints

Over == [stage |-> "over", ops |-> <<>>, results |-> <<>>, nos |-> <<>>, remaining |-> 0]

\* Something goes wrong, once more.
Mishap ==
    /\ mishaps < MaxMishaps
    /\ mishaps' = mishaps + 1
    /\ UNCHANGED <<dropped, resends>>

\* The places i of s that are in I, in their order.
Kept(s, I) ==
    [k \in 1..Cardinality(I) |-> s[CHOOSE i \in I : Cardinality({j \in I : j <= i}) = k]]

Stored(op) == rows[op] # None
Queued(op) == \E i \in DOMAIN outbox : outbox[i].op = op

TypeOK ==
    /\ mode \in {"online", "degraded", "syncing"}
    /\ \A i \in DOMAIN outbox : outbox[i] \in OutboxOp
    /\ counter \in Counters /\ counters \in Counters
    /\ paper \in [Ops -> DocNo \cup {None}]
    /\ attempt \in [Ops -> {"none", "asked", "parked", "online", "queued", "given up"}]
    /\ due \in BOOLEAN
    /\ posts \subseteq Bills
    /\ waiting \in Pushes \cup {None}
    /\ replies \subseteq [bill : Bills, no : DocNo \cup {None}]
    /\ \A p \in Pushes : push[p] # None =>
          /\ Len(push[p].results) = Len(push[p].nos)
          /\ Len(push[p].results) <= Len(push[p].ops)
          /\ Len(push[p].ops) \in 0..BatchSize
    /\ rows \in [Ops -> Row \cup {None}]
    /\ keys \in [Ops -> Fingerprints \cup {None}]
    /\ unsynced \in Nat
=============================================================================
