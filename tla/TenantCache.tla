----------------------------- MODULE TenantCache -----------------------------
(***************************************************************************)
(* The read cache of one tenant and one namespace (tenant-cache.service.ts) *)
(* under its busiest reader, the product list (products.service.ts list).  *)
(*                                                                         *)
(* Every cached key carries a generation: a random token held in Redis.  A *)
(* writer commits and then replaces the generation; a reader takes it      *)
(* before it queries, so what it stores late lands under a dead one.  The  *)
(* rows are a version number, one per committed write.  One list query is  *)
(* one key of each generation, guarded by its stampede lock.               *)
(*                                                                         *)
(* Redis runs allkeys-lru: any key may be gone at any time, and any call   *)
(* to it may fail, executed or not.                                        *)
(***************************************************************************)
EXTENDS Naturals

CONSTANTS Readers, Writers,    \* requests, each run once
          Tokens,              \* 64 random bits: no token is drawn twice
          Polls,               \* LOCK_WAIT_MS / LOCK_POLL_MS
          None

ASSUME TokensAssumption == None \notin Tokens /\ None \notin Readers

ASSUME PollsAssumption == Polls \in Nat

VARIABLES db,           \* Postgres: how many writes are committed
          gen,          \* Redis: the generation, None when the key is absent
          drawn,        \* the tokens drawn so far
          store, lock,  \* Redis: under each generation, the value and its lock
          rd,           \* what each reader holds
          wr,           \* the stage of each writer, and the version it wrote
          invalidated,  \* the newest write whose invalidation Redis executed
          expired       \* readers whose lock was lost before they released it

vars == <<db, gen, drawn, store, lock, rd, wr, invalidated, expired>>
redis == <<gen, drawn, store, lock>>
postgres == <<db, wr, invalidated>>

Before == {"idle", "prefix", "create", "reread"}     \* no key yet
Waiting == {"get", "flight", "peek", "again"}        \* looking for the value
Loading == {"count", "page", "set", "release"}       \* reading it itself
Stages == Before \cup Waiting \cup Loading \cup {"done"}

Value == [total : Nat, page : Nat]

\* key: the generation its key is made of.  holds: its release is not a no-op.
\* floor: what was invalidated when it began.  out: its answer.
Reader == [at : Stages, key : Tokens \cup {None}, holds : BOOLEAN, polls : 0..Polls,
           total : Nat, floor : Nat, out : Value \cup {None}]

Writer == [at : {"idle", "committed", "done"}, version : Nat]

Init ==
    /\ db = 0
    /\ gen = None
    /\ drawn = {}
    /\ store = [t \in Tokens |-> None]
    /\ lock = [t \in Tokens |-> None]
    /\ rd = [r \in Readers |-> [at |-> "idle", key |-> None, holds |-> FALSE, polls |-> 0,
                                total |-> 0, floor |-> 0, out |-> None]]
    /\ wr = [w \in Writers |-> [at |-> "idle", version |-> 0]]
    /\ invalidated = 0
    /\ expired = {}

-----------------------------------------------------------------------------
\* Mutant: a token that only differs from the current one (a counter that
\* starts again after its key was evicted).
NewTokenReused == Tokens \ {gen}

\* newToken
NewToken == Tokens \ drawn

\* A request for the list arrives.
Begin(r) ==
    /\ rd[r].at = "idle"
    /\ rd' = [rd EXCEPT ![r] = [rd[r] EXCEPT !.at = "prefix", !.floor = invalidated]]
    /\ UNCHANGED <<redis, postgres, expired>>

\* prefix: GET of the generation, again after creating it.
ReadGeneration(r) ==
    /\ rd[r].at \in {"prefix", "reread"}
    /\ LET next == IF gen # None THEN "get"
                   ELSE IF rd[r].at = "prefix" THEN "create" ELSE "count"
       IN  rd' = [rd EXCEPT ![r] = [rd[r] EXCEPT !.at = next, !.key = gen]]
    /\ UNCHANGED <<redis, postgres, expired>>

\* prefix: SET .. NX of a new generation.
CreateGeneration(r) ==
    /\ rd[r].at = "create"
    /\ \/ gen = None /\ \E t \in NewToken : gen' = t /\ drawn' = drawn \cup {t}
       \/ gen # None /\ UNCHANGED <<gen, drawn>>
    /\ rd' = [rd EXCEPT ![r] = [rd[r] EXCEPT !.at = "reread"]]
    /\ UNCHANGED <<store, lock, postgres, expired>>

\* prefix: Redis fails; this request neither reads nor writes the cache.
FailPrefix(r) ==
    /\ rd[r].at \in {"prefix", "create", "reread"}
    /\ rd' = [rd EXCEPT ![r] = [rd[r] EXCEPT !.at = "count", !.key = None]]
    /\ UNCHANGED <<redis, postgres, expired>>

\* The request is over and its locals are gone.
Finish(r, out) ==
    rd' = [rd EXCEPT ![r] = [rd[r] EXCEPT !.at = "done", !.key = None, !.holds = FALSE,
                                          !.polls = 0, !.total = 0, !.out = out]]

\* get, by the list and by a waiter of singleFlight: a hit is the answer.
Hit(r) ==
    /\ rd[r].at \in {"get", "peek"}
    /\ store[rd[r].key] # None
    /\ Finish(r, store[rd[r].key])
    /\ UNCHANGED <<redis, postgres, expired>>

\* get: nothing there, or Redis failed.
Miss(r) ==
    /\ rd[r].at \in {"get", "peek"}
    /\ rd' = [rd EXCEPT ![r] =
                [rd[r] EXCEPT !.at = IF rd[r].at = "get" THEN "flight" ELSE "again"]]
    /\ UNCHANGED <<redis, postgres, expired>>

\* singleFlight: the lock is free and this request loads the value.
Lock(r) ==
    /\ rd[r].at \in {"flight", "again"}
    /\ lock[rd[r].key] = None
    /\ lock' = [lock EXCEPT ![rd[r].key] = r]
    /\ rd' = [rd EXCEPT ![r] = [rd[r] EXCEPT !.at = "count", !.holds = TRUE]]
    /\ UNCHANGED <<gen, drawn, store, postgres, expired>>

\* singleFlight: another request loads it; wait, until the deadline.
Poll(r) ==
    /\ rd[r].at \in {"flight", "again"}
    /\ lock[rd[r].key] # None
    /\ \/ rd[r].at = "flight"
       \/ rd[r].polls < Polls
    /\ rd' = [rd EXCEPT ![r] =
                [rd[r] EXCEPT !.at = "peek",
                              !.polls = IF rd[r].at = "again" THEN rd[r].polls + 1
                                                              ELSE rd[r].polls]]
    /\ UNCHANGED <<redis, postgres, expired>>

\* Mutant: a waiter waits for the lock however long it takes.
GiveUpNever(r) == FALSE /\ UNCHANGED vars

\* singleFlight: the deadline has passed; load it without a lock.
GiveUp(r) ==
    /\ rd[r].at = "again"
    /\ lock[rd[r].key] # None
    /\ rd' = [rd EXCEPT ![r] = [rd[r] EXCEPT !.at = "count"]]
    /\ UNCHANGED <<redis, postgres, expired>>

\* singleFlight: Redis fails, perhaps after taking the lock, which then waits
\* for its TTL.
FailFlight(r) ==
    /\ rd[r].at \in {"flight", "again"}
    /\ lock' \in {lock} \cup (IF lock[rd[r].key] = None
                              THEN {[lock EXCEPT ![rd[r].key] = r]} ELSE {})
    /\ rd' = [rd EXCEPT ![r] = [rd[r] EXCEPT !.at = "count"]]
    /\ UNCHANGED <<gen, drawn, store, postgres, expired>>

\* listUncachedIn: the count, then the page; each statement of a READ COMMITTED
\* transaction sees what is committed when it starts.
ReadCount(r) ==
    /\ rd[r].at = "count"
    /\ rd' = [rd EXCEPT ![r] = [rd[r] EXCEPT !.at = "page", !.total = db]]
    /\ UNCHANGED <<redis, postgres, expired>>

ReadPage(r) ==
    /\ rd[r].at = "page"
    /\ rd' = [rd EXCEPT ![r] =
                [rd[r] EXCEPT !.at = IF rd[r].key = None THEN "release" ELSE "set",
                              !.out = [total |-> rd[r].total, page |-> db]]]
    /\ UNCHANGED <<redis, postgres, expired>>

\* The query throws; the lock is released in the finally.
FailLoad(r) ==
    /\ rd[r].at \in {"count", "page"}
    /\ rd' = [rd EXCEPT ![r] = [rd[r] EXCEPT !.at = "release"]]
    /\ UNCHANGED <<redis, postgres, expired>>

\* set, which may fail and is then skipped.
Store(r) ==
    /\ rd[r].at = "set"
    /\ store' \in {store, [store EXCEPT ![rd[r].key] = rd[r].out]}
    /\ rd' = [rd EXCEPT ![r] = [rd[r] EXCEPT !.at = "release"]]
    /\ UNCHANGED <<gen, drawn, lock, postgres, expired>>

\* Mutant: the lock is deleted whoever holds it.
OwnLockAny(r) == TRUE

\* RELEASE_LOCK deletes the lock only if it still holds our token.
OwnLock(r) == lock[rd[r].key] = r

\* release: a no-op without a lock; it may fail, and the lock waits for its TTL.
Release(r) ==
    /\ rd[r].at = "release"
    /\ \/ rd[r].holds /\ OwnLock(r) /\ lock' = [lock EXCEPT ![rd[r].key] = None]
       \/ UNCHANGED lock
    /\ Finish(r, rd[r].out)
    /\ UNCHANGED <<gen, drawn, store, postgres, expired>>

-----------------------------------------------------------------------------
\* executePostCommitHooks: runTx has committed, and what it registered has not run yet.
PostCommitHooks(w) == wr[w].at = "committed"

\* A write commits (runTx); its hooks run afterwards.
CommitWrite(w) ==
    /\ wr[w].at = "idle"
    /\ db' = db + 1
    /\ wr' = [wr EXCEPT ![w] = [at |-> "committed", version |-> db + 1]]
    /\ UNCHANGED <<redis, rd, invalidated, expired>>

\* invalidate: SET of a fresh generation.
Invalidate(w) ==
    /\ PostCommitHooks(w)
    /\ \E t \in NewToken : gen' = t /\ drawn' = drawn \cup {t}
    /\ invalidated' = IF wr[w].version > invalidated THEN wr[w].version ELSE invalidated
    /\ wr' = [wr EXCEPT ![w] = [wr[w] EXCEPT !.at = "done"]]
    /\ UNCHANGED <<db, store, lock, rd, expired>>

\* invalidate: Redis is down, or the process dies first; stale until the TTL.
FailInvalidate(w) ==
    /\ PostCommitHooks(w)
    /\ wr' = [wr EXCEPT ![w] = [wr[w] EXCEPT !.at = "done"]]
    /\ UNCHANGED <<db, redis, rd, invalidated, expired>>

-----------------------------------------------------------------------------
\* A key reaches its TTL, or Redis evicts it.
LoseGeneration ==
    /\ gen # None
    /\ gen' = None
    /\ UNCHANGED <<drawn, store, lock, rd, postgres, expired>>

LoseValue(t) ==
    /\ store[t] # None
    /\ store' = [store EXCEPT ![t] = None]
    /\ UNCHANGED <<gen, drawn, lock, rd, postgres, expired>>

LoseLock(t) ==
    /\ lock[t] # None
    /\ expired' = expired \cup {lock[t]}
    /\ lock' = [lock EXCEPT ![t] = None]
    /\ UNCHANGED <<gen, drawn, store, rd, postgres>>

-----------------------------------------------------------------------------
Read(r) ==
    \/ ReadGeneration(r) \/ CreateGeneration(r)
    \/ Hit(r) \/ Miss(r)
    \/ Lock(r) \/ Poll(r) \/ GiveUp(r)
    \/ ReadCount(r) \/ ReadPage(r)
    \/ Store(r) \/ Release(r)

Fail(r) == FailPrefix(r) \/ FailFlight(r) \/ FailLoad(r)

Write(w) == CommitWrite(w) \/ Invalidate(w) \/ FailInvalidate(w)

Next ==
    \/ \E r \in Readers : Begin(r) \/ Read(r) \/ Fail(r)
    \/ \E w \in Writers : Write(w)
    \/ LoseGeneration
    \/ \E t \in Tokens : LoseValue(t) \/ LoseLock(t)

Spec == Init /\ [][Next]_vars

\* Every await of a request settles (redisCommandTimeoutMs, statement_timeout);
\* none is assumed to fail.
FairSpec == Spec /\ \A r \in Readers : WF_vars(Read(r))

-----------------------------------------------------------------------------
(* The variables have their types. *)
TypeOK ==
    /\ db \in Nat
    /\ gen \in Tokens \cup {None}
    /\ drawn \subseteq Tokens
    /\ store \in [Tokens -> Value \cup {None}]
    /\ lock \in [Tokens -> Readers \cup {None}]
    /\ rd \in [Readers -> Reader]
    /\ wr \in [Writers -> Writer]
    /\ invalidated \in Nat
    /\ expired \subseteq Readers

(* No read that begins after a write was invalidated is answered with the  *)
(* rows from before it, from the cache, from another request's load or     *)
(* from Postgres: neither a late write of a slow reader nor an evicted     *)
(* generation brings them back (prefix before the query, random tokens).   *)
NoStaleAnswer ==
    \A r \in Readers : rd[r].out # None =>
        rd[r].out.total >= rd[r].floor /\ rd[r].out.page >= rd[r].floor

(* A request that took the lock of a key and has not released it still has *)
(* it, unless it expired: a loader that comes late never frees the lock of *)
(* the next one, so two load at once only past a TTL (RELEASE_LOCK).       *)
OneLoader ==
    \A r \in Readers :
        rd[r].holds => lock[rd[r].key] = r \/ r \in expired

(* Every request that begins is answered, whatever Redis does and whoever  *)
(* holds the lock (LOCK_WAIT_MS).                                          *)
Answered == \A r \in Readers : rd[r].at = "prefix" ~> rd[r].at = "done"
=============================================================================
