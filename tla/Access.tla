------------------------------- MODULE Access -------------------------------
(***************************************************************************)
(* One shop's access: its owner's sessions beside what the platform does   *)
(* to the shop meanwhile.                                                  *)
(***************************************************************************)
EXTENDS Sessions, Tenancy

NoUser == [hash |-> 0, must |-> FALSE, expires |-> None, changed |-> None, active |-> FALSE]

\* A shop that is about to be created, or one that has run for long: its owner
\* chose a password before the column existed and a session of the morning is
\* in use on its one till.
Init ==
    /\ now = 0
    /\ cached = None
    /\ purging = FALSE
    /\ temps = {}
    /\ chains = [f \in Jtis |-> None]
    /\ req = [r \in Reqs |-> Idle]
    /\ answers = [j \in Jtis |-> [rotated |-> 0, graced |-> 0]]
    /\ replaced = {}
    /\ admin = 0
    /\ \/ /\ tenant = [status |-> None, stopped |-> None]
          /\ user = NoUser
          /\ secrets = 0 /\ jtis = 0
          /\ machines = [d \in Machines |-> None]
          /\ tokens = {}
       \/ /\ tenant = [status |-> "active", stopped |-> None]
          /\ user = [NoUser EXCEPT !.hash = 1, !.active = TRUE]
          /\ secrets = 1 /\ jtis = 1
          /\ \E d \in Machines :
                /\ machines = [x \in Machines |->
                                 IF x = d THEN [NewMachine(1, "pos") EXCEPT
                                                  !.code = FALSE, !.until = None, !.token = TRUE,
                                                  !.enrolled = 1]
                                 ELSE None]
                /\ tokens = {[typ |-> "session", jti |-> 1, fid |-> None, iat |-> 0,
                              exp |-> RefreshExpiry(0), did |-> d, pw |-> 1, crossed |-> FALSE]}

\* A second passes; no call of the guard and no transaction of a refresh outlasts Slow.
Tick ==
    /\ now < MaxTime
    /\ \A r \in Reqs : req[r].stage \in {"set", "rotate"} => now - req[r].at < Slow
    /\ now' = now + 1
    /\ UNCHANGED <<tenant, cached, purging, user, secrets, temps, jtis, chains, machines, tokens,
                   req, answers, replaced, admin>>

Request1(r) ==
    \/ \E d \in Machines \cup {None} : LoginLookup(r, d)
    \/ LoginSign(r)
    \/ \E t \in tokens : RefreshRead(r, t) \/ ChangeRead(r, t) \/ GuardCached(r, t) \/ GuardRead(r, t)
    \/ RotateRefreshChain(r) \/ RefreshSign(r)
    \/ ChangeWrite(r) \/ ChangeSign(r)
    \/ GuardSet(r)
    \/ \E d \in Machines : GuardPush(r, d)

Platform ==
    \/ IssueOwnerTempPassword
    \/ \E s \in Status : UpdateStatus(s)
    \/ PurgeStatus
    \/ \E d \in Machines :
          \/ CreateTenant(d) \/ ReissueEnrolCode(d) \/ EnrolDevice(d) \/ RetireDevice(d)
          \/ \E role \in {"pos", "backoffice"} : CreateDevice(d, role)
          \/ \E e \in Machines : ReplaceDevice(d, e)

Next == (\E r \in Reqs : Request1(r)) \/ Platform \/ Tick

Spec == Init /\ [][Next]_vars

-----------------------------------------------------------------------------
(* The variables have their types; a temporary password has an expiry and  *)
(* no other has (ck_users_temp_password_expiry).                           *)
TypeOK ==
    /\ now \in 0..MaxTime
    /\ tenant \in [status : Status \cup {None}, stopped : Moment]
    /\ cached \in StatusKey \cup {None}
    /\ purging \in BOOLEAN
    /\ user \in User /\ user.must = (user.expires # None)
    /\ secrets \in Nat /\ temps \subseteq 1..secrets
    /\ jtis \in Jtis \cup {0}
    /\ chains \in [Jtis -> Chain \cup {None}]
    /\ machines \in [Machines -> Machine \cup {None}]
    /\ tokens \subseteq Token
    /\ req \in [Reqs -> Request]
    /\ answers \in [Jtis -> [rotated : Nat, graced : Nat]]
    /\ replaced \subseteq [token : Token, of : Nat, changed : Moment]
    /\ admin \in Nat

(* However many tabs and retries present one refresh token at once, it is   *)
(* rotated at most once and answered at most once more: the callers end up  *)
(* on one chain (rotateRefreshChain, INSERT .. ON CONFLICT, FOR UPDATE).    *)
NoFork == \A j \in Jtis : answers[j].rotated <= 1 /\ answers[j].graced <= 1

(* A refresh token that still verifies finds its chain: dropping dead       *)
(* chains never turns a live session away (the day's margin of the prune). *)
ChainKept ==
    \A t \in tokens :
        t.typ = "session" /\ t.fid # None /\ now < t.exp + Skew => chains[t.fid] # None

(* A session opened with a password that is no longer the owner's is dead:  *)
(* no token of it was signed in a second after the change, and refresh      *)
(* refuses the ones from before, unless a request of it was in flight at    *)
(* the change, or it was signed in that very second (ADR-0009: strict <).   *)
(* And a temporary password buys nothing but its own replacement: no        *)
(* session, by login or by refresh, and no push, ever runs on one.          *)
OldSessionsEnd ==
    /\ \A t \in tokens :
        t.typ = "session" /\ t.pw # user.hash /\ ~ t.crossed => t.iat <= user.changed
    /\ \A t \in tokens : t.typ = "session" => t.pw \notin temps
    /\ \A r \in Reqs : req[r].stage = "in" => req[r].pw \notin temps

(* A temporary password is replaced only through a token that a login with  *)
(* that very password gave, unless that login was in flight when it was     *)
(* issued or signed in that second: an old pwchange token, used again or    *)
(* overtaken by a reset, replaces nothing (changePassword's UPDATE).        *)
ResetStands ==
    \A c \in replaced :
        c.token.pw = c.of \/ c.token.crossed \/ c.token.iat = c.changed

(* A request is let in at most a TTL and one slow call after its shop was   *)
(* suspended or closed, though a guard that read the status before may      *)
(* cache it after the purge, and the purge itself may fail.                 *)
StopsWithinTtl ==
    \A r \in Reqs : req[r].stage = "in" => req[r].lag <= StatusTtl + Slow
=============================================================================
