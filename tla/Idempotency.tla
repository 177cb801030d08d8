----------------------------- MODULE Idempotency -----------------------------
(***************************************************************************)
(* The idempotency record of server/src/idempotency: claim, work and       *)
(* completion of one write in ONE Postgres transaction (runIdempotent over *)
(* TenantService.runTx), with retries of the same key arriving             *)
(* concurrently, the Redis copy of a finished answer, the hourly cleanup   *)
(* of expired records, crashes and commits whose outcome the server never  *)
(* learns.                                                                 *)
(*                                                                         *)
(* A request is an attempt: a retry is another element of Reqs with the    *)
(* same key.  The response body a request's work produces is named by the  *)
(* request itself, so "r was answered with body b" says whose work b is.   *)
(***************************************************************************)
EXTENDS Integers, FiniteSets

CONSTANTS Reqs,        \* attempts (HTTP requests carrying Idempotency-Key)
          Keys,        \* (tenant_id, key) pairs
          Prints,      \* (endpoint, request_hash) fingerprints
          Nobody,      \* no request / no body
          TTL,         \* IDEMPOTENCY_TTL_SECONDS, in ticks
          Ceiling,     \* commitCeilingMs, in ticks
          MaxTime      \* bound on the clock

ASSUME NobodyAssumption == Nobody \notin Reqs
ASSUME TimeAssumption == TTL \in Nat /\ Ceiling \in Nat /\ MaxTime \in Nat

VARIABLES now,      \* the database's clock
          key,      \* key[r], print[r]: what attempt r carries
          print,
          phase,    \* where r's handler is
          began,    \* now() of r's transaction: its start, not the wall clock
          claim,    \* claim[k]: the uncommitted row of k, seen only by its owner
          row,      \* row[k]: the committed row of idempotency_keys
          cache,    \* cache[k]: the Redis entry t:<tenant>:idem:<key>
          found,    \* found[r]: body and remaining life r read from the row
          sets,     \* Redis SET commands sent and not yet applied
          executed, \* requests whose work is committed
          answer    \* what the server told r's client

vars == <<now, key, print, phase, began, claim, row, cache, found, sets, executed, answer>>

Phases == {"new", "claiming", "claimed", "worked", "completed",
           "repeat", "reading", "caching", "over"}

InTx == Phases \ {"new", "over"}

Status == {"in_progress", "done"}

NoRow == [owner |-> Nobody, status |-> "in_progress", created |-> 0]

NoEntry == [body |-> Nobody, expires |-> 0]

NothingFound == [body |-> Nobody, ttl |-> 0]

Unanswered == [kind |-> "none", body |-> Nobody]

Ok(b) == [kind |-> "ok", body |-> b]

Refused(why) == [kind |-> why, body |-> Nobody]

Answers == [kind : {"none", "ok", "reused", "in_flight", "error"},
            body : Reqs \cup {Nobody}]

TypeOK ==
    /\ now \in 0..MaxTime
    /\ key \in [Reqs -> Keys]
    /\ print \in [Reqs -> Prints]
    /\ phase \in [Reqs -> Phases]
    /\ began \in [Reqs -> 0..MaxTime]
    /\ claim \in [Keys -> [owner : Reqs \cup {Nobody}, status : Status]]
    /\ row \in [Keys -> [owner : Reqs \cup {Nobody}, status : Status,
                         created : 0..MaxTime]]
    /\ cache \in [Keys -> [body : Reqs \cup {Nobody}, expires : Nat]]
    /\ found \in [Reqs -> [body : Reqs \cup {Nobody}, ttl : Nat]]
    /\ sets \subseteq [key : Keys, body : Reqs, ttl : Nat \ {0}]
    /\ executed \subseteq Reqs
    /\ answer \in [Reqs -> Answers]

Unclaimed == [owner |-> Nobody, status |-> "in_progress"]

Init ==
    /\ now = 0
    /\ key \in [Reqs -> Keys]
    /\ print \in [Reqs -> Prints]
    /\ phase = [r \in Reqs |-> "new"]
    /\ began = [r \in Reqs |-> 0]
    /\ claim = [k \in Keys |-> Unclaimed]
    /\ row = [k \in Keys |-> NoRow]
    /\ cache = [k \in Keys |-> NoEntry]
    /\ found = [r \in Reqs |-> NothingFound]
    /\ sets = {}
    /\ executed = {}
    /\ answer = [r \in Reqs |-> Unanswered]

(***************************************************************************)
(* The transaction owner, TenantService.runTx.                             *)
(***************************************************************************)

\* runTx opens the transaction; now() is fixed from here on.
Begin(r) ==
    /\ phase[r] = "new"
    /\ phase' = [phase EXCEPT ![r] = "claiming"]
    /\ began' = [began EXCEPT ![r] = now]
    /\ UNCHANGED <<now, key, print, claim, row, cache, found, sets, executed, answer>>

\* What rolling back undoes: the uncommitted claim row, if r owns it.
Released(r) ==
    [k \in Keys |-> IF claim[k].owner = r THEN Unclaimed ELSE claim[k]]

\* The end of an attempt whose transaction did not commit.
RollBack(r, a) ==
    /\ phase' = [phase EXCEPT ![r] = "over"]
    /\ claim' = Released(r)
    /\ answer' = [answer EXCEPT ![r] = a]
    /\ UNCHANGED <<now, key, print, began, row, cache, found, sets, executed>>

\* Any statement may fail (a rejected write, statement_timeout, a lost connection).
Fail(r) ==
    /\ phase[r] \in InTx
    /\ RollBack(r, Refused("error"))

\* The process dies: Postgres rolls the transaction back, nobody answers.
Crash(r) ==
    /\ phase[r] \in InTx
    /\ RollBack(r, Unanswered)

(***************************************************************************)
(* claim                                                                   *)
(***************************************************************************)

\* Mutant: the claim does not wait for an uncommitted row of the same key.
InsertClaimUnblocked(r) ==
    /\ phase[r] = "claiming"
    /\ row[key[r]].owner = Nobody
    /\ claim' = [claim EXCEPT ![key[r]] = [owner |-> r, status |-> "in_progress"]]
    /\ phase' = [phase EXCEPT ![r] = "claimed"]
    /\ UNCHANGED <<now, key, print, began, row, cache, found, sets, executed, answer>>

\* Mutant: ON CONFLICT DO UPDATE, so a committed row is taken over.
InsertClaimTakeover(r) ==
    /\ phase[r] = "claiming"
    /\ claim[key[r]].owner = Nobody
    /\ claim' = [claim EXCEPT ![key[r]] = [owner |-> r, status |-> "in_progress"]]
    /\ phase' = [phase EXCEPT ![r] = "claimed"]
    /\ UNCHANGED <<now, key, print, began, row, cache, found, sets, executed, answer>>

\* INSERT .. ON CONFLICT DO NOTHING found the key free: r owns it.
InsertClaim(r) ==
    /\ phase[r] = "claiming"
    /\ claim[key[r]].owner = Nobody
    /\ row[key[r]].owner = Nobody
    /\ claim' = [claim EXCEPT ![key[r]] = [owner |-> r, status |-> "in_progress"]]
    /\ phase' = [phase EXCEPT ![r] = "claimed"]
    /\ UNCHANGED <<now, key, print, began, row, cache, found, sets, executed, answer>>

\* The insert did nothing: a committed row holds the key.
FindRepeat(r) ==
    /\ phase[r] = "claiming"
    /\ row[key[r]].owner # Nobody
    /\ phase' = [phase EXCEPT ![r] = "repeat"]
    /\ UNCHANGED <<now, key, print, began, claim, row, cache, found, sets, executed, answer>>

\* lock_timeout while the owner of the key is still running: 503, transaction aborted.
TimeOutClaim(r) ==
    /\ phase[r] = "claiming"
    /\ claim[key[r]].owner # Nobody
    /\ RollBack(r, Refused("in_flight"))

\* requestHash, and the endpoint beside it.
SameRequest(r, body) == print[body] = print[r]

\* Same key, same endpoint, same body: replay.  Anything else: 409.
Decide(r, body) ==
    IF SameRequest(r, body) THEN Ok(body) ELSE Refused("reused")

\* A transaction that wrote nothing ends: commit and rollback are the same.
Conclude(r, a) ==
    /\ phase' = [phase EXCEPT ![r] = "over"]
    /\ answer' = [answer EXCEPT ![r] = a]

\* readCache answers; asked only once the key is known to be a repeat.
HitCache(r) ==
    /\ phase[r] = "repeat"
    /\ cache[key[r]].body # Nobody
    /\ now < cache[key[r]].expires
    /\ Conclude(r, Decide(r, cache[key[r]].body))
    /\ UNCHANGED <<now, key, print, began, claim, row, cache, found, sets, executed>>

\* readCache has nothing, was evicted, fails or times out: on to Postgres.
MissCache(r) ==
    /\ phase[r] = "repeat"
    /\ phase' = [phase EXCEPT ![r] = "reading"]
    /\ UNCHANGED <<now, key, print, began, claim, row, cache, found, sets, executed, answer>>

\* ttl_seconds as the SELECT computes it: against the transaction's now().
RemainingLife(r) ==
    LET left == TTL - (began[r] - row[key[r]].created)
    IN  IF left < 0 THEN 0 ELSE left

\* Mutant: a vanished row is read again instead of refused.
FindNoRowSpin(r) ==
    /\ phase[r] = "reading"
    /\ row[key[r]].owner = Nobody
    /\ UNCHANGED vars

\* The SELECT finds no row (cleanup ran in between): "not ours to replay".
FindNoRow(r) ==
    /\ phase[r] = "reading"
    /\ row[key[r]].owner = Nobody
    /\ Conclude(r, Refused("reused"))
    /\ UNCHANGED <<now, key, print, began, claim, row, cache, found, sets, executed>>

\* decide on the row: a mismatch is refused, a match is remembered for the cache.
\* (A committed row that is not done makes claim throw; Assertions shows there is none.)
ReadRow(r) ==
    /\ phase[r] = "reading"
    /\ row[key[r]].owner # Nobody
    /\ row[key[r]].status = "done"
    /\ LET owner == row[key[r]].owner IN
       \/ /\ Decide(r, owner).kind = "reused"
          /\ Conclude(r, Decide(r, owner))
          /\ UNCHANGED found
       \/ /\ Decide(r, owner).kind = "ok"
          /\ phase' = [phase EXCEPT ![r] = "caching"]
          /\ found' = [found EXCEPT ![r] = [body |-> owner, ttl |-> RemainingLife(r)]]
          /\ UNCHANGED answer
    /\ UNCHANGED <<now, key, print, began, claim, row, cache, sets, executed>>

\* writeCache, on the replay path only.  tryCache stops waiting for Redis after
\* its timeout, so the SET may still be on its way when the answer leaves.
WriteCache(r) ==
    /\ phase[r] = "caching"
    /\ Conclude(r, Ok(found[r].body))
    /\ sets' = IF found[r].ttl <= 0 THEN sets
               ELSE sets \cup {[key |-> key[r], body |-> found[r].body,
                                ttl |-> found[r].ttl]}
    /\ UNCHANGED <<now, key, print, began, claim, row, cache, found, executed>>

\* Redis executes SET .. EX ttl: the life counts from here.
ApplySet(s) ==
    /\ cache' = [cache EXCEPT ![s.key] = [body |-> s.body, expires |-> now + s.ttl]]
    /\ sets' = sets \ {s}
    /\ UNCHANGED <<now, key, print, phase, began, claim, row, found, executed, answer>>

(***************************************************************************)
(* The owner of the key: work, complete, commit.                           *)
(***************************************************************************)

\* The handler body, inside the transaction that holds the claim.
Work(r) ==
    /\ phase[r] = "claimed"
    /\ phase' = [phase EXCEPT ![r] = "worked"]
    /\ UNCHANGED <<now, key, print, began, claim, row, cache, found, sets, executed, answer>>

\* Mutant: the answer is cached at write time, before the commit.
CompleteAndCache(r) ==
    /\ phase[r] = "worked"
    /\ claim[key[r]].owner = r
    /\ claim' = [claim EXCEPT ![key[r]] = [owner |-> r, status |-> "done"]]
    /\ phase' = [phase EXCEPT ![r] = "completed"]
    /\ sets' = sets \cup {[key |-> key[r], body |-> r, ttl |-> TTL]}
    /\ UNCHANGED <<now, key, print, began, row, cache, found, executed, answer>>

\* complete: UPDATE .. SET status = 'done' on the row r inserted.
Complete(r) ==
    /\ phase[r] = "worked"
    /\ claim[key[r]].owner = r
    /\ claim' = [claim EXCEPT ![key[r]] = [owner |-> r, status |-> "done"]]
    /\ phase' = [phase EXCEPT ![r] = "completed"]
    /\ UNCHANGED <<now, key, print, began, row, cache, found, sets, executed, answer>>

\* COMMIT publishes the claim row and the work together.
Publish(r) ==
    /\ row' = [row EXCEPT ![key[r]] = [owner |-> r, status |-> claim[key[r]].status,
                                       created |-> began[r]]]
    /\ claim' = Released(r)
    /\ executed' = executed \cup {r}
    /\ phase' = [phase EXCEPT ![r] = "over"]

InCeiling(r) == now - began[r] <= Ceiling

Commit(r) ==
    /\ phase[r] = "completed"
    /\ InCeiling(r)
    /\ Publish(r)
    /\ answer' = [answer EXCEPT ![r] = Ok(r)]
    /\ UNCHANGED <<now, key, print, began, cache, found, sets>>

\* The commit reached Postgres; its acknowledgement, or the server, did not survive.
CommitUnacknowledged(r) ==
    /\ phase[r] = "completed"
    /\ InCeiling(r)
    /\ Publish(r)
    /\ answer' \in {[answer EXCEPT ![r] = a] : a \in {Unanswered, Refused("error")}}
    /\ UNCHANGED <<now, key, print, began, cache, found, sets>>

\* CommitCeilingExceededError: too old to commit, rolled back.
RefuseCommit(r) ==
    /\ phase[r] = "completed"
    /\ ~InCeiling(r)
    /\ RollBack(r, Refused("error"))

(***************************************************************************)
(* The environment.                                                        *)
(***************************************************************************)

\* Mutant: the cleanup is off by one and takes a record in its last second.
CleanupEarly(k) ==
    /\ row[k].owner # Nobody
    /\ row[k].created <= now - TTL
    /\ row' = [row EXCEPT ![k] = NoRow]
    /\ UNCHANGED <<now, key, print, phase, began, claim, cache, found, sets, executed, answer>>

\* handleIdemCleanup: DELETE .. WHERE created_at < now() - ttl.
Cleanup(k) ==
    /\ row[k].owner # Nobody
    /\ row[k].created < now - TTL
    /\ row' = [row EXCEPT ![k] = NoRow]
    /\ UNCHANGED <<now, key, print, phase, began, claim, cache, found, sets, executed, answer>>

Tick ==
    /\ now < MaxTime
    /\ now' = now + 1
    /\ UNCHANGED <<key, print, phase, began, claim, row, cache, found, sets, executed, answer>>

\* The steps a live server always takes eventually.
Serve(r) ==
    \/ InsertClaim(r) \/ FindRepeat(r) \/ TimeOutClaim(r)
    \/ HitCache(r) \/ MissCache(r)
    \/ FindNoRow(r) \/ ReadRow(r) \/ WriteCache(r)
    \/ Work(r) \/ Complete(r) \/ Commit(r) \/ RefuseCommit(r)

Next ==
    \/ \E r \in Reqs : Begin(r) \/ Serve(r) \/ CommitUnacknowledged(r)
                       \/ Fail(r) \/ Crash(r)
    \/ \E s \in sets : ApplySet(s)
    \/ \E k \in Keys : Cleanup(k)
    \/ Tick

Spec == Init /\ [][Next]_vars

FairSpec == Spec /\ \A r \in Reqs : WF_vars(Serve(r))
-----------------------------------------------------------------------------
\* r's record is past its life, so the cleanup may have taken it.
Expired(r) == began[r] < now - TTL

\* The two internal errors claim and complete throw are never reached: a row a
\* retry reads is always done, and the row complete updates is always still there.
Assertions ==
    \A r \in Reqs :
        /\ phase[r] = "reading" /\ row[key[r]].owner # Nobody
              => row[key[r]].status = "done"
        /\ phase[r] = "worked" => claim[key[r]].owner = r

\* A record and the work it describes are committed together or not at all: every
\* record stands for committed work, and work keeps its record until it expires.
RecordIffWork ==
    /\ \A k \in Keys : row[k].owner # Nobody =>
          /\ row[k].owner \in executed
          /\ key[row[k].owner] = k
          /\ row[k].created = began[row[k].owner]
    /\ \A r \in executed : row[key[r]].owner = r \/ Expired(r)

\* The double charge: within the life of its record, at most one of the attempts
\* that carry a key commits its work.
AtMostOnce ==
    \A r, s \in executed :
        key[r] = key[s] /\ ~Expired(r) /\ ~Expired(s) => r = s

\* A success is never a phantom: its body is that of committed work, done under the
\* same key for the same endpoint and body, whichever of Postgres and Redis gave it.
SuccessIsReal ==
    \A r \in Reqs : answer[r].kind = "ok" =>
        LET done == answer[r].body IN
        /\ done \in executed
        /\ key[done] = key[r]
        /\ print[done] = print[r]

\* A retry of the same request is never refused as a reused key while the record
\* is live: 409 needs another request under that key, or an expired record.
ConflictIsReal ==
    \A r \in Reqs : answer[r].kind = "reused" =>
        \E s \in executed : key[s] = key[r] /\ (print[s] # print[r] \/ Expired(s))

\* Every request that reached the claim is answered or dies with its process; no
\* retry waits for ever on the original.
Served == \A r \in Reqs : phase[r] \in InTx ~> phase[r] = "over"

-----------------------------------------------------------------------------
\* What all of this promises: each key's work is written once.
WriteOnce == INSTANCE WriteOnce WITH record <- [k \in Keys |-> row[k].owner]

\* The idempotency record implements the abstract write-once store.
ImplementsWriteOnce == WriteOnce!Spec

-----------------------------------------------------------------------------
=============================================================================
