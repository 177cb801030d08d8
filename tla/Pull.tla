-------------------------------- MODULE Pull --------------------------------
(***************************************************************************)
(* The incremental pull: a till reads products, customers and mechanics in *)
(* the order of (updated_at, id), a page at a time, from where it stopped  *)
(* (server/src/products, customers, mechanics with ?updatedSince=,          *)
(* api_products_repository.dart syncFromServer).  A row is stamped when its *)
(* transaction starts, or when the statement runs, and is seen only once    *)
(* it commits, so stamps become visible out of order.  Stocks and balances  *)
(* are moved by the till's own work before the server has it, and a pull     *)
(* leaves them alone while that work waits in the outbox.                    *)
(***************************************************************************)
EXTENDS Integers, FiniteSets, Absent

CONSTANTS
    RowCount,           \* rows are numbered in the order of their ids
    Writers,            \* slots for transactions under way
    Ceiling,            \* TX_COMMIT_CEILING_MS and the round trip to COMMIT
    Rewind,             \* how far a round goes back behind the last cursor
    PageLimit,
    MaxRound,           \* how long a round is let run: nothing in the code bounds it
    LastSecond,
    MaxWrites,          \* how many transactions of others there are, and pieces of the till's work
    Traded              \* the rows that the till's own work moves

ASSUME PullAssumption ==
    /\ {RowCount, Ceiling, Rewind, PageLimit, MaxRound, LastSecond, MaxWrites} \subseteq Nat
    /\ PageLimit > 0 /\ Ceiling < Rewind /\ Traded \subseteq 1 .. RowCount

VARIABLES
    second,         \* the database's clock
    row,            \* row -> [at, ver] as committed; a deleted row stays, as a tombstone
    writer,         \* slot -> the transaction in it, or None
    copy,           \* row -> the version in the till's copy, 0 before it has one
    cursor,         \* the till's stored cursor, or None
    round,          \* the pull under way, or None
    writes,         \* how many of those there were
    table,          \* what this till pulls: its products, or its customers or mechanics
    outbox,         \* row -> the work on it that the server has not answered: none, queued or rejected
    took,           \* row -> the version with which the server took that work, 0 before
    stale,          \* rows whose stock or balance at the till is not reckoned from what stands
    behind          \* history: products that stayed stale when they were last served

tillVars == <<table, outbox, took, stale, behind>>
pullVars == <<second, row, writer, copy, cursor, round, writes, tillVars>>

Rows == 1 .. RowCount
Pushing(r) == \E w \in Writers : writer[w] # None /\ r \in writer[w].pushed

PullInit ==
    /\ second = 0 /\ row = [r \in Rows |-> [at |-> 0, ver |-> 1]]
    /\ writer = [w \in Writers |-> None] /\ writes = 0
    /\ copy = [r \in Rows |-> 0] /\ cursor = None /\ round = None
    /\ table \in {"products", "people"} /\ outbox = [r \in Rows |-> "none"]
    /\ took = [r \in Rows |-> 0] /\ stale = Rows /\ behind = {}

-----------------------------------------------------------------------------
(* Writers *)

\* runTx, TenantJobRunner; an import takes its own connection and no ceiling.
Begin(w, import, work) ==
    /\ writer[w] = None
    /\ writer' = [writer EXCEPT ![w] = [began |-> second, stamp |-> [r \in {} |-> 0], pushed |-> work,
                                        import |-> import, sealed |-> None]]
    /\ UNCHANGED <<second, row, copy, cursor, round, tillVars>>
BeginTx(w, import) == Begin(w, import, {}) /\ writes < MaxWrites /\ writes' = writes + 1

\* The till's queued work on a row is sent, and this is the only request that runs it.
BeginPush(w, r) ==
    /\ outbox[r] = "queued" /\ took[r] = 0 /\ ~ Pushing(r)
    /\ Begin(w, FALSE, {r}) /\ UNCHANGED writes

\* A written row stays locked until its writer is done.
Holds(w, r) == writer[w] # None /\ r \in DOMAIN writer[w].stamp
Free(w, r) == \A v \in Writers \ {w} : ~ Holds(v, r)

\* now() is the transaction's start (a sale, a void, a return, a payment);
\* clock_timestamp() is the statement's (an edit, a delete, a receipt).
Stamps(w) == {writer[w].began, second}

Write(w, r, at) ==
    /\ writer[w] # None /\ ~ writer[w].import /\ Free(w, r) /\ at \in Stamps(w)
    /\ LET was == writer[w].stamp IN
       writer' = [writer EXCEPT ![w] =
                    [@ EXCEPT !.stamp = [x \in DOMAIN was \cup {r} |-> IF x = r THEN at ELSE was[x]]]]
    /\ UNCHANGED <<second, row, copy, cursor, round, writes, tillVars>>

\* Whatever an import wrote, its last statements stamp everything again.
Restamp(w) ==
    /\ writer[w] # None /\ writer[w].import /\ writer[w].sealed = None
    /\ \A r \in Rows : Free(w, r)
    /\ writer' = [writer EXCEPT ![w] = [@ EXCEPT !.stamp = [r \in Rows |-> second], !.sealed = second]]
    /\ UNCHANGED <<second, row, copy, cursor, round, writes, tillVars>>

\* assertWithinCommitCeiling; an import commits right after its stamps.
WithinCeiling(w) ==
    IF writer[w].import
    THEN writer[w].sealed # None /\ second - writer[w].sealed <= Ceiling
    ELSE second - writer[w].began <= Ceiling

Commit(w) ==
    /\ writer[w] # None /\ WithinCeiling(w) /\ writer[w].pushed \subseteq DOMAIN writer[w].stamp
    /\ row' = [r \in Rows |-> IF Holds(w, r) THEN [at |-> writer[w].stamp[r], ver |-> row[r].ver + 1]
                              ELSE row[r]]
    /\ took' = [r \in Rows |-> IF outbox[r] = "queued" /\ r \in writer[w].pushed THEN row'[r].ver
                               ELSE took[r]]
    /\ stale' = stale \cup {r \in Rows : Holds(w, r)}
    /\ writer' = [writer EXCEPT ![w] = None]
    /\ UNCHANGED <<second, copy, cursor, round, writes, table, outbox, behind>>

\* Refused, timed out by the role's settings, past the ceiling, or cut off.
Rollback(w) ==
    /\ writer[w] # None /\ writer' = [writer EXCEPT ![w] = None]
    /\ UNCHANGED <<second, row, copy, cursor, round, writes, tillVars>>

Tick ==
    /\ second < LastSecond /\ second' = second + 1
    /\ UNCHANGED <<row, writer, copy, cursor, round, writes, tillVars>>

-----------------------------------------------------------------------------
(* The till's own work: one piece of it on a row at a time                 *)

Becomes(r, status) ==
    /\ outbox' = [outbox EXCEPT ![r] = status]
    /\ UNCHANGED <<second, row, writer, copy, cursor, round, table>>

\* It moves the till's own figures at once.
QueueOp(r) ==
    /\ r \in Traded /\ copy[r] # 0 /\ outbox[r] = "none" /\ ~ Pushing(r)
    /\ writes < MaxWrites /\ writes' = writes + 1
    /\ Becomes(r, "queued") /\ UNCHANGED <<took, stale, behind>>

\* The server refuses it for good; the owner may send it again, as he may a stuck one.
Reject(r) ==
    /\ outbox[r] = "queued" /\ took[r] = 0 /\ ~ Pushing(r)
    /\ Becomes(r, "rejected") /\ UNCHANGED <<writes, took, stale, behind>>
Resend(r) ==
    /\ outbox[r] = "rejected" /\ Becomes(r, "queued") /\ UNCHANGED <<writes, took, stale, behind>>

\* The answer brings the figures as the work left them, newer ones or not, or it brings
\* none (a customer's, or when more work on the row waits).
Applied(r, patched) ==
    /\ outbox[r] = "queued" /\ took[r] # 0
    /\ \/ ~ patched /\ UNCHANGED <<stale, behind>>
       \/ /\ patched /\ took[r] = row[r].ver
          /\ stale' = stale \ {r} /\ behind' = behind \ {r}
       \/ /\ patched /\ took[r] # row[r].ver
          /\ stale' = stale \cup {r}
          /\ behind' = IF table = "products" THEN behind \cup {r} ELSE behind
    /\ took' = [took EXCEPT ![r] = 0] /\ Becomes(r, "none") /\ UNCHANGED writes

\* Discarded: undone at the till, unless the server has it.
Discard(r) ==
    /\ outbox[r] # "none" /\ took' = [took EXCEPT ![r] = 0]
    /\ Becomes(r, "none") /\ UNCHANGED <<writes, stale, behind>>

-----------------------------------------------------------------------------
(* A round of pages *)

Before(x, y) == row[x].at < row[y].at \/ (row[x].at = row[y].at /\ x < y)

Past(since, after) ==
    {r \in Rows : row[r].at > since \/ (after # None /\ row[r].at = since /\ r > after)}

Page(since, after) ==
    LET rest == Past(since, after) IN
    {r \in rest : Cardinality({x \in rest : Before(x, r)}) < PageLimit}

\* A round begins behind the stored cursor, or at the beginning of time.
\* Mutant: it begins at the cursor.
SinceNoRewind(full) == IF full \/ cursor = None THEN -1 ELSE cursor
Since(full) == IF full \/ cursor = None \/ cursor < Rewind THEN -1 ELSE cursor - Rewind

StartRound(full) ==
    /\ round = None
    /\ round' = [since |-> Since(full), after |-> None, last |-> None, began |-> second,
                guard |-> {r \in Rows : table = "products" /\ outbox[r] = "queued"}, floor |-> None]
    /\ UNCHANGED <<second, row, writer, copy, cursor, writes, tillVars>>

\* Whose figures a page leaves alone: products that had unsent work when the round began,
\* people who have some, refused or not, when the page is written.
Guarded == IF table = "products" THEN round.guard ELSE {r \in Rows : outbox[r] # "none"}

\* protectedFloor: the earliest stamp of a person left alone; the product pull has none.
Floor(page) ==
    LET stamps == {row[r].at : r \in page \cap Guarded}
                  \cup (IF round.floor = None THEN {} ELSE {round.floor})
    IN IF table = "products" \/ stamps = {} THEN round.floor
       ELSE CHOOSE at \in stamps : \A other \in stamps : at <= other

\* The server's figures overwrite the till's, and with them the effect of work it has not taken.
Spoilt(r) == outbox[r] # "none" /\ took[r] = 0

\* A page is upserted, and its last row's key is the next page's cursor.
ReadPage ==
    /\ round # None /\ second - round.began <= MaxRound
    /\ LET page == Page(round.since, round.after) IN
       /\ page # {}
       /\ \E last \in page :
             /\ \A r \in page : ~ Before(last, r)
             /\ copy' = [r \in Rows |-> IF r \in page THEN row[r].ver ELSE copy[r]]
             /\ round' = [round EXCEPT !.since = row[last].at, !.after = last,
                                       !.last = row[last].at, !.floor = Floor(page)]
       /\ stale' = (stale \ (page \ Guarded)) \cup {r \in page \ Guarded : Spoilt(r)}
       /\ behind' = (behind \ page) \cup {r \in page \cap stale' : table = "products"}
    /\ UNCHANGED <<second, row, writer, cursor, writes, table, outbox, took>>

\* earlierStamp: no later than the floor.
\* Mutant: the floor is forgotten.
StopsNoFloor == round.last
Stops ==
    IF round.floor # None /\ round.floor < round.last THEN round.floor ELSE round.last

\* An empty page ends the round, and only then is the cursor stored.
EndRound ==
    /\ round # None /\ Page(round.since, round.after) = {}
    /\ cursor' = IF round.last = None THEN cursor ELSE Stops
    /\ round' = None
    /\ UNCHANGED <<second, row, writer, copy, writes, tillVars>>

\* The network fails, or the app is closed: what was read is kept, the cursor is not moved.
RoundFails ==
    /\ round # None /\ round' = None
    /\ UNCHANGED <<second, row, writer, copy, cursor, writes, tillVars>>

PullNext ==
    \/ \E w \in Writers :
          \/ \E import \in BOOLEAN : BeginTx(w, import)
          \/ \E r \in Rows, at \in 0 .. LastSecond : Write(w, r, at)
          \/ \E r \in Rows : BeginPush(w, r)
          \/ Restamp(w) \/ Commit(w) \/ Rollback(w)
    \/ Tick \/ ReadPage \/ EndRound \/ RoundFails
    \/ \E full \in BOOLEAN : StartRound(full)
    \/ \E r \in Rows :
          \/ QueueOp(r) \/ Reject(r) \/ Resend(r) \/ Discard(r)
          \/ \E patched \in BOOLEAN : Applied(r, patched)

-----------------------------------------------------------------------------
(* Properties *)

\* The till has a row as it stands, and its stock or balance unless it is a product that
\* stayed stale when it was served, or was made so by a late answer.
UpToDate(r) == copy[r] = row[r].ver /\ (r \in stale => table = "products" /\ r \in behind)

\* No row is left behind: what the next round will not ask for, the till has as it stands.
\* Rows that commit late, share a stamp across a page boundary, or get an older stamp than
\* they had are all found, and so is a person whose balance was left alone because work on
\* it waited in the outbox.
NothingMissed ==
    cursor # None => \A r \in Rows : row[r].at <= cursor - Rewind => UpToDate(r)
=============================================================================
