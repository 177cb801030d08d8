----------------------------- MODULE AccessState -----------------------------
(***************************************************************************)
(* What one shop's access rests on: its row in tenants, its owner's row in *)
(* users, its machines, the chains of refresh tokens (refresh_families),   *)
(* the status TenantGuard keeps in Redis, the tokens in clients' hands and *)
(* the requests in flight.                                                 *)
(*                                                                         *)
(* A password is the number of its drawing and its hash is that number;    *)
(* time is the whole second a JWT counts in, many steps to one second.     *)
(* The access and the refresh token of one reply are one token here.       *)
(* audit_log rows are written beside these steps and read by none of them. *)
(***************************************************************************)
EXTENDS Integers, FiniteSets

CONSTANTS Reqs,                   \* requests, each made once
          Machines,               \* the ids the shop's devices may get
          None,
          TempLife, ResetLife,    \* CREATE_ and RESET_TEMP_PASSWORD_TTL_HOURS
          ChangeLife, AccessLife, \* PWCHANGE_TOKEN_TTL, and the '15m' of an access token
          CodeLife,               \* enrolExpires, REISSUE_ENROL_CODE_TTL_DAYS, ENROL_CODE_TTL_MINUTES
          StatusTtl,              \* the EX of t:{tid}:status
          Grace,                  \* REFRESH_GRACE_MAX_SEC
          Skew, Keep,             \* clockTolerance; the day a dead chain is kept
          Day, Cut, End,          \* a day, its 03:00 and its 04:00
          Slow,                   \* no call of a guard and no refresh's transaction takes longer
          MaxDeviceNo,            \* MAX_DEVICE_NO
          MaxTime, MaxOps         \* bounds: the clock; requests and operations of the platform

\* The refresh tokens the bounds allow: one of each request, and the one of Init.
Jtis == 1..(2 * Cardinality(Reqs) + 1)
Time == Nat
Moment == Time \cup {None}
Status == {"active", "suspended", "closed"}

User == [hash : Nat, must : BOOLEAN, expires : Moment, changed : Moment, active : BOOLEAN]
Chain == [current : Jtis, previous : Jtis, rotated : Time, graceUsed : BOOLEAN,
          revoked : BOOLEAN, expires : Time]
StatusKey == [status : Status \cup {None}, until : Time]
Machine == [no : Nat, role : {"pos", "backoffice"}, code : BOOLEAN, until : Moment,
            token : BOOLEAN, retired : BOOLEAN, enrolled : Nat]

\* pw: the password its session was opened with.  crossed: the password changed
\* while a request of its session was in flight, or in the second it was signed.
Token == [typ : {"session", "pwchange"}, jti : Jtis, fid : Jtis \cup {None},
          iat : Time, exp : Time, did : Machines \cup {None}, pw : Nat, crossed : BOOLEAN]

\* tok: the token it presented.  pw, row, at: what it read and when.
\* jti: what the chain answered.  lag: how long the shop was stopped when let in.
Request == [stage : {"idle", "verify", "rotate", "sign", "write", "signNew", "read", "set", "in",
                     "done"},
            tok : Token \cup {None}, did : Machines \cup {None}, pw : Nat,
            row : User \cup {None}, status : Status \cup {None}, at : Moment,
            jti : Jtis \cup {None}, lag : Int]

ASSUME LivesAssumption ==
    /\ {TempLife, ResetLife, ChangeLife, AccessLife, CodeLife, StatusTtl, Grace, Skew, Keep,
        Slow, MaxDeviceNo, MaxTime, MaxOps} \subseteq Nat
    /\ Day \in Nat /\ Cut \in 0..End /\ End \in 0..Day /\ Day > 0
    /\ Skew + Slow <= Keep

ASSUME NamesAssumption ==
    /\ IsFiniteSet(Reqs)
    /\ None \notin Int \cup Machines \cup Status \cup User \cup Chain \cup StatusKey \cup Token

VARIABLES now,
          tenant,    \* tenants: status; stopped, since when it is not active
          cached,    \* Redis t:{tid}:status, and when it expires
          purging,   \* an updateStatus that committed and has not deleted the key yet
          user,      \* users: the owner
          secrets,   \* passwords drawn so far
          temps,     \* the ones that were temporary
          jtis,      \* token ids drawn so far
          chains,    \* refresh_families, by id
          machines,  \* devices
          tokens,    \* tokens that reached a client
          req,       \* requests
          answers,   \* how often each refresh token was rotated, and answered in grace
          replaced,  \* every change of a temporary password: by which token, of which password
          admin      \* operations of the platform so far

vars == <<now, tenant, cached, purging, user, secrets, temps, jtis, chains, machines, tokens,
          req, answers, replaced, admin>>

Idle == [stage |-> "idle", tok |-> None, did |-> None, pw |-> 0, row |-> None,
         status |-> None, at |-> None, jti |-> None, lag |-> 0]
Done == [Idle EXCEPT !.stage = "done"]

\* calculateRefreshExpiry: 04:00, of the next day once it is 03:00.
RefreshExpiry(t) == ((t \div Day) + (IF t % Day >= Cut THEN 1 ELSE 0)) * Day + End

\* verify: signature and type; exp with the clock's tolerance.
Verified(t, typ, exp) == t.typ = typ /\ now < exp + Skew

\* One more request or operation, within the bound.
Room == Cardinality({r \in Reqs : req[r] # Idle}) + admin < MaxOps

\* A request arrives.
Arrives(r) == req[r] = Idle /\ Room

\* The request ends, refused.
Refuse(r) == req' = [req EXCEPT ![r] = Done]

\* The reply leaves; one that never arrives is a token nobody presents.
Reply(r, t) ==
    /\ req' = [req EXCEPT ![r] = Done]
    /\ tokens' = tokens \cup {t}

NewMachine(no, role) ==
    [no |-> no, role |-> role, code |-> TRUE, until |-> now + CodeLife, token |-> FALSE,
     retired |-> FALSE, enrolled |-> 0]

Live(d) == machines[d] # None /\ ~ machines[d].retired

\* device_no: one more than any the shop ever had.
NextNo ==
    LET nos == {machines[d].no : d \in {x \in Machines : machines[x] # None}}
    IN  IF nos = {} THEN 1 ELSE 1 + (CHOOSE n \in nos : \A k \in nos : k <= n)
=============================================================================
