------------------------------- MODULE Tenancy -------------------------------
(***************************************************************************)
(* What the platform does to a shop (platform-tenants.service.ts), its     *)
(* machines and their one-time codes (devices.service.ts,                  *)
(* auth_enrol_device), and the two guards every request of the shop passes *)
(* (tenant.guard.ts, device-token.guard.ts).                               *)
(***************************************************************************)
EXTENDS AccessState

sessions == <<jtis, chains, tokens, answers, replaced>>

\* One of the platform's operations.
Operate == Room /\ admin' = admin + 1

\* createTenant: shop, owner with a temporary password, first till with a code.
CreateTenant(d) ==
    /\ Operate
    /\ tenant.status = None
    /\ tenant' = [status |-> "active", stopped |-> None]
    /\ secrets' = secrets + 1
    /\ temps' = temps \cup {secrets + 1}
    /\ user' = [hash |-> secrets + 1, must |-> TRUE, expires |-> now + TempLife,
                changed |-> None, active |-> TRUE]
    /\ machines' = [machines EXCEPT ![d] = NewMachine(1, "pos")]
    /\ UNCHANGED <<now, cached, purging, sessions, req>>

\* issueOwnerTempPassword
IssueOwnerTempPassword ==
    /\ Operate
    /\ tenant.status # None
    /\ user.active                                   \* OWNER_NOT_FOUND
    /\ secrets' = secrets + 1
    /\ temps' = temps \cup {secrets + 1}
    /\ user' = [user EXCEPT !.hash = secrets + 1, !.must = TRUE, !.expires = now + ResetLife,
                            !.changed = now]
    /\ UNCHANGED <<now, tenant, cached, purging, machines, sessions, req>>

\* updateStatus: WHERE status <> 'closed'.
MayLeave(status) == status \notin {None, "closed"}

\* updateStatus: the transaction; the purge of the cache follows its commit.
UpdateStatus(status) ==
    /\ Operate
    /\ MayLeave(tenant.status)
    /\ tenant' = [status |-> status,
                  stopped |-> IF status = "active" THEN None
                              ELSE IF tenant.status = "active" THEN now ELSE tenant.stopped]
    /\ purging' = TRUE
    /\ UNCHANGED <<now, cached, user, secrets, temps, machines, sessions, req>>

\* updateStatus: DEL of the key, which may fail.
PurgeStatus ==
    /\ purging
    /\ purging' = FALSE
    /\ cached' \in {cached, None}
    /\ UNCHANGED <<now, tenant, user, secrets, temps, machines, sessions, req, admin>>

-----------------------------------------------------------------------------
\* createIn: one live till at most, and a number no machine of the shop had.
CreateDevice(d, role) ==
    /\ Operate
    /\ tenant.status # None
    /\ machines[d] = None
    /\ role = "pos" => ~ \E x \in Machines : Live(x) /\ machines[x].role = "pos"
    /\ NextNo <= MaxDeviceNo                         \* DEVICE_NO_EXHAUSTED
    /\ machines' = [machines EXCEPT ![d] = NewMachine(NextNo, role)]
    /\ UNCHANGED <<now, tenant, cached, purging, user, secrets, temps, sessions, req>>

\* reissueEnrolCode: WHERE token_hash IS NULL AND retired_at IS NULL.
NeverEnrolled(d) == Live(d) /\ ~ machines[d].token

ReissueEnrolCode(d) ==
    /\ Operate
    /\ NeverEnrolled(d)
    /\ machines' = [machines EXCEPT ![d] =
                      [machines[d] EXCEPT !.code = TRUE, !.until = now + CodeLife]]
    /\ UNCHANGED <<now, tenant, cached, purging, user, secrets, temps, sessions, req>>

\* auth_enrol_device: the code is found, live and unused, under the row's lock.
EnrolDevice(d) ==
    /\ Live(d)
    /\ machines[d].code
    /\ machines[d].until > now
    /\ machines' = [machines EXCEPT ![d] =
                      [machines[d] EXCEPT !.code = FALSE, !.until = None, !.token = TRUE,
                                          !.enrolled = @ + 1]]
    /\ UNCHANGED <<now, tenant, cached, purging, user, secrets, temps, sessions, req, admin>>

\* retired_at, and the outstanding code cleared.
Retired(d) == [machines[d] EXCEPT !.retired = TRUE, !.code = FALSE, !.until = None]

\* retireIn (its drawer is in module Drawers).
RetireDevice(d) ==
    /\ Operate
    /\ Live(d)
    /\ machines' = [machines EXCEPT ![d] = Retired(d)]
    /\ UNCHANGED <<now, tenant, cached, purging, user, secrets, temps, sessions, req>>

\* replaceDevice: a lost machine that was enrolled makes way for a new one.
ReplaceDevice(d, e) ==
    /\ Operate
    /\ Live(d)
    /\ machines[d].token                             \* DEVICE_NOT_ENROLLED
    /\ machines[e] = None
    /\ NextNo <= MaxDeviceNo
    /\ machines' = [machines EXCEPT ![d] = Retired(d), ![e] = NewMachine(NextNo, machines[d].role)]
    /\ UNCHANGED <<now, tenant, cached, purging, user, secrets, temps, sessions, req>>

-----------------------------------------------------------------------------
\* How long the shop has been stopped.
Lag == IF tenant.stopped = None THEN 0 ELSE now - tenant.stopped

\* canActivate: with this status the request goes on, or ends here.
Judge(r, status) ==
    req' = [req EXCEPT ![r] = IF status = "active"
                              THEN [Idle EXCEPT !.stage = "in", !.lag = Lag] ELSE Done]

\* TenantGuard: the access token, then the status Redis has.
GuardCached(r, t) ==
    /\ Arrives(r)
    /\ Verified(t, "session", t.iat + AccessLife)
    /\ cached # None /\ cached.until > now
    /\ Judge(r, cached.status)
    /\ UNCHANGED <<now, tenant, cached, purging, user, secrets, temps, machines, sessions, admin>>

\* TenantGuard: the key is absent, evicted or out of reach; Postgres knows.
GuardRead(r, t) ==
    /\ Arrives(r)
    /\ Verified(t, "session", t.iat + AccessLife)
    /\ req' = [req EXCEPT ![r] = [Idle EXCEPT !.stage = "set", !.status = tenant.status,
                                              !.at = now]]
    /\ UNCHANGED <<now, tenant, cached, purging, user, secrets, temps, machines, sessions, admin>>

\* Mutant: the status is cached without a TTL.
StatusUntilForever == MaxTime + 1

\* SET .. EX ttl
StatusUntil == now + StatusTtl

\* TenantGuard: what it read is cached, if Redis takes it, and decides.
GuardSet(r) ==
    /\ req[r].stage = "set"
    /\ cached' \in {cached, [status |-> req[r].status, until |-> StatusUntil]}
    /\ Judge(r, req[r].status)
    /\ UNCHANGED <<now, tenant, purging, user, secrets, temps, machines, sessions, admin>>

\* DeviceTokenGuard: one lookup of the till, its shop and its owner.
GuardPush(r, d) ==
    /\ Arrives(r)
    /\ Live(d) /\ machines[d].token /\ machines[d].role = "pos"
    /\ tenant.status = "active"
    /\ user.active
    /\ ~ user.must                                   \* PASSWORD_CHANGE_REQUIRED
    /\ req' = [req EXCEPT ![r] = [Idle EXCEPT !.stage = "in", !.did = d, !.pw = user.hash]]
    /\ UNCHANGED <<now, tenant, cached, purging, user, secrets, temps, machines, sessions, admin>>
=============================================================================
