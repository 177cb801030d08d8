------------------------------ MODULE RateLimit ------------------------------
(***************************************************************************)
(* The counters in Redis that bound guesses and requests                    *)
(* (server/src/rate-limit/rate-limit.service.ts) and the three callers that  *)
(* go through them: a login of an owner or of a platform admin, which clears *)
(* its name's bucket and gives its address's attempt back, the enrolment of  *)
(* a machine, which gives both attempts back, and the guard before every     *)
(* request of a shop.  A key holds the time slice it was made in, so a step  *)
(* only ever meets the buckets of the present slice; whatever Redis does not *)
(* answer is let through.  That Redis is the cache, which evicts keys and   *)
(* keeps nothing over a restart: a bucket may be gone at any moment.        *)
(***************************************************************************)
EXTENDS Integers, FiniteSets, Absent

CONSTANTS
    Callers,        \* logins and enrolments under way at once
    Limit,          \* for each bucket, how many attempts a slice lets in
    Plan,           \* tenants.plan: nothing changes it once the shop exists
    LastSlice,      \* how many times the slice changes
    MaxTries        \* logins, enrolments, requests and lost counters of a behaviour

Buckets == {"address", "name", "enrolAddress", "everyone", "route"}
Kinds == {"login", "enrol"}
First(kind) == IF kind = "login" THEN "address" ELSE "enrolAddress"
Second(kind) == IF kind = "login" THEN "name" ELSE "everyone"

ASSUME RateLimitAssumption ==
    /\ IsFiniteSet(Callers) /\ None \notin Int
    /\ Limit \in [Buckets -> Nat] /\ LastSlice \in Nat /\ MaxTries \in Nat

VARIABLES
    slice,      \* Math.floor(now / windowSec)
    bucket,     \* the counters of this slice, None where there is no key
    caller,     \* what each caller does, and the buckets of this slice that counted it
    tries,      \* how many of those there were
    passed,     \* history: attempts this slice counted and let in that gave no right answer
    slack       \* history: what this slice may let in again: given back beyond those, or lost

limitVars == <<slice, bucket, caller, tries, passed, slack>>

Away == [at |-> "idle", kind |-> "login", counted |-> {}]

RateLimitInit ==
    /\ slice = 0 /\ bucket = [b \in Buckets |-> None] /\ tries = 0
    /\ caller = [c \in Callers |-> Away]
    /\ passed = [b \in Buckets |-> 0] /\ slack = [b \in Buckets |-> 0]

Begins == tries < MaxTries /\ tries' = tries + 1

\* RATE_LIMIT_LUA: the count and the look at it are one step.
Count(b) == IF bucket[b] = None THEN 1 ELSE bucket[b] + 1
Consume(b) == bucket' = [bucket EXCEPT ![b] = Count(b)]
LetIn(b) == passed' = [passed EXCEPT ![b] = @ + 1]

\* consumeAttempt for a caller who goes on to `next`, or is refused.
ConsumeAttempt(c, kind, b, next) ==
    \/ /\ Consume(b) /\ Count(b) <= Limit[b] /\ LetIn(b)
       /\ caller' = [caller EXCEPT ![c] =
              [at |-> next, kind |-> kind, counted |-> caller[c].counted \cup {b}]]
    \/ /\ Consume(b) /\ Count(b) > Limit[b]
       /\ caller' = [caller EXCEPT ![c] = Away] /\ UNCHANGED passed
    \/ /\ Consume(b) \/ UNCHANGED bucket        \* Redis does not answer
       /\ caller' = [caller EXCEPT ![c] = [caller[c] EXCEPT !.at = next, !.kind = kind]]
       /\ UNCHANGED passed

Arrive(c, kind) ==
    /\ caller[c].at = "idle" /\ Begins
    /\ ConsumeAttempt(c, kind, First(kind), "second") /\ UNCHANGED <<slice, slack>>
Proceed(c) ==
    /\ caller[c].at = "second"
    /\ ConsumeAttempt(c, caller[c].kind, Second(caller[c].kind), "check")
    /\ UNCHANGED <<slice, tries, slack>>

\* A retired machine or a wrong password, code or name: the attempts stay counted.
Fail(c) ==
    /\ \/ caller[c].at = "second" /\ caller[c].kind = "login"
       \/ caller[c].at = "check"
    /\ caller' = [caller EXCEPT ![c] = Away]
    /\ UNCHANGED <<slice, bucket, tries, passed, slack>>

Right(c) ==
    /\ caller[c].at = "check"
    /\ caller' = [caller EXCEPT ![c] = [caller[c] EXCEPT !.at =
           IF caller[c].kind = "login" THEN "clear" ELSE "refund"]]
    /\ passed' = [b \in Buckets |-> IF b \in caller[c].counted THEN passed[b] - 1 ELSE passed[b]]
    /\ UNCHANGED <<slice, bucket, tries, slack>>

\* clearKey, of the slice it is called in.
ClearKey(c) ==
    /\ caller[c].at = "clear" /\ caller' = [caller EXCEPT ![c] = [caller[c] EXCEPT !.at = "refund"]]
    /\ \/ /\ bucket' = [bucket EXCEPT !["name"] = None]
          /\ slack' = [slack EXCEPT !["name"] = @ + Limit["name"]]
       \/ UNCHANGED <<bucket, slack>>
    /\ UNCHANGED <<slice, tries, passed>>

\* REFUND_LUA: never makes the key.
\* Mutant: a plain DECR, which starts the next slice below zero.
GiveBackPlain(b) == bucket' = [bucket EXCEPT ![b] = IF @ = None THEN -1 ELSE @ - 1]
GiveBack(b) == bucket' = [bucket EXCEPT ![b] = IF @ = None THEN None ELSE @ - 1]

\* refundAttempt: of the slice it is called in, which may be a later one than the attempt's.
RefundAttempt(c, b) ==
    \/ /\ GiveBack(b)
       /\ slack' = [slack EXCEPT ![b] =
              IF bucket[b] # None /\ b \notin caller[c].counted THEN @ + 1 ELSE @]
    \/ UNCHANGED <<bucket, slack>>

Succeed(c) ==
    /\ caller[c].at = "refund"
    /\ RefundAttempt(c, First(caller[c].kind))
    /\ caller' = [caller EXCEPT ![c] =
           IF caller[c].kind = "login" THEN Away ELSE [caller[c] EXCEPT !.at = "refundAll"]]
    /\ UNCHANGED <<slice, tries, passed>>
SucceedAll(c) ==
    /\ caller[c].at = "refundAll" /\ RefundAttempt(c, "everyone")
    /\ caller' = [caller EXCEPT ![c] = Away] /\ UNCHANGED <<slice, tries, passed>>

\* getTenantPlan: 'basic' when neither Redis nor the table can tell.
GetTenantPlan == {Plan, "basic"}

\* checkRateLimit, of the shop and the route.
CheckRateLimit ==
    \/ "loadtest" \in GetTenantPlan /\ UNCHANGED <<bucket, passed>>
    \/ /\ "basic" \in GetTenantPlan
       /\ \/ Consume("route") /\ Count("route") <= Limit["route"] /\ LetIn("route")
          \/ Consume("route") /\ Count("route") > Limit["route"] /\ UNCHANGED passed
          \/ UNCHANGED <<bucket, passed>>    \* Redis does not answer

\* The guard of a request that is not exempt: a shop's own, by its token.
CanActivate == Begins /\ CheckRateLimit /\ UNCHANGED <<slice, caller, slack>>

\* WindowKey: the next slice has keys of its own.
WindowKey ==
    /\ slice < LastSlice /\ slice' = slice + 1
    /\ bucket' = [b \in Buckets |-> None]
    /\ caller' = [c \in Callers |-> [caller[c] EXCEPT !.counted = {}]]
    /\ passed' = [b \in Buckets |-> 0] /\ slack' = [b \in Buckets |-> 0]
    /\ UNCHANGED tries

\* allkeys-lru, no snapshot and no log: a key Redis dropped starts again from nothing
\* (a restart drops them all, one after the other).
Evict(b) ==
    /\ Begins
    /\ bucket[b] # None /\ bucket' = [bucket EXCEPT ![b] = None]
    /\ slack' = [slack EXCEPT ![b] = @ + Limit[b]]
    /\ UNCHANGED <<slice, caller, passed>>

RateLimitNext ==
    \/ \E c \in Callers :
          \/ \E kind \in Kinds : Arrive(c, kind)
          \/ Proceed(c) \/ Fail(c) \/ Right(c) \/ ClearKey(c) \/ Succeed(c) \/ SucceedAll(c)
    \/ \E b \in Buckets : Evict(b)
    \/ CanActivate \/ WindowKey

-----------------------------------------------------------------------------
(* Properties *)

\* A slice lets in no more attempts without a right answer than its limit, however they
\* interleave: a success returns its own attempt and nobody else's (#138), except a
\* refund that comes in a later slice or that Redis never counted.  A name whose right
\* password was given starts again, and so does every counter Redis loses: with each loss
\* the slice lets one more limit in, and no more than that (docs/adr/0006).
GuessesBounded == \A b \in Buckets : passed[b] <= Limit[b] + slack[b]
=============================================================================
