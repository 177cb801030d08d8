------------------------------ MODULE Sessions ------------------------------
(***************************************************************************)
(* auth.service.ts: login, the rotation of refresh tokens, and the change  *)
(* of a temporary password.  Each is a read, work on nothing but what was  *)
(* read (argon2, with no connection held), a write, and a signature after  *)
(* the commit; every other request may move in between.                    *)
(***************************************************************************)
EXTENDS AccessState

\* login: the device token, then the user's row with the shop's status.
LoginLookup(r, d) ==
    /\ Arrives(r)
    /\ tenant.status # None
    /\ d # None => Live(d) /\ machines[d].token    \* DEVICE_TOKEN_INVALID, DEVICE_RETIRED
    /\ req' = [req EXCEPT ![r] = [Idle EXCEPT !.stage = "verify", !.did = d, !.row = user,
                                              !.status = tenant.status]]
    /\ UNCHANGED <<now, tenant, cached, purging, user, secrets, temps, jtis, chains, machines,
                   tokens, answers, replaced, admin>>

\* login: the password was right; what else refuses it.
MayLogIn(row, status) ==
    /\ status = "active"                             \* TENANT_SUSPENDED
    /\ row.active
    /\ row.must => row.expires > now                 \* TEMP_PASSWORD_EXPIRED

\* The session of a request that read row: signed now.
Signed(typ, jti, fid, exp, did, pw, crossed, row) ==
    [typ |-> typ, jti |-> jti, fid |-> fid, iat |-> now, exp |-> exp, did |-> did, pw |-> pw,
     crossed |-> crossed \/ user.hash # row.hash \/ user.changed = now]

\* login: after argon2; a temporary password buys only a pwchange token.
LoginSign(r) ==
    /\ req[r].stage = "verify"
    /\ \/ /\ ~ MayLogIn(req[r].row, req[r].status)
          /\ Refuse(r)
          /\ UNCHANGED <<jtis, tokens>>
       \/ /\ MayLogIn(req[r].row, req[r].status)
          /\ req[r].row.must
          /\ jtis' = jtis + 1
          /\ Reply(r, Signed("pwchange", jtis + 1, None, now + ChangeLife, req[r].did,
                             req[r].row.hash, FALSE, req[r].row))
       \/ /\ MayLogIn(req[r].row, req[r].status)
          /\ ~ req[r].row.must
          /\ jtis' = jtis + 1
          /\ Reply(r, Signed("session", jtis + 1, None, RefreshExpiry(now), req[r].did,
                             req[r].row.hash, FALSE, req[r].row))
    /\ UNCHANGED <<now, tenant, cached, purging, user, secrets, temps, chains, machines, answers,
                   replaced, admin>>

-----------------------------------------------------------------------------
\* Mutant: a refresh is not measured against the last change of the password.
FreshEnoughAlways(t) == TRUE

\* refreshTokenPayload, changePassword: a token signed in a second before the
\* password last changed is dead.
FreshEnough(t) == user.changed # None => t.iat >= user.changed

\* Mutant: /auth/refresh takes a token of any type.
RefreshTypeAny(t) == now < t.exp + Skew

\* The controller's verify, with typ 'refresh'.
RefreshType(t) == Verified(t, "session", t.exp)

\* refreshTokenPayload: the shop, the owner, the password and the machine.
RefreshRead(r, t) ==
    /\ Arrives(r)
    /\ RefreshType(t)
    /\ tenant.status = "active"
    /\ user.active
    /\ FreshEnough(t)
    /\ t.did # None => Live(t.did)
    /\ req' = [req EXCEPT ![r] = [Idle EXCEPT !.stage = "rotate", !.tok = t, !.row = user,
                                              !.at = now]]
    /\ UNCHANGED <<now, tenant, cached, purging, user, secrets, temps, jtis, chains, machines,
                   tokens, answers, replaced, admin>>

\* Mutant: the replaced token is answered as often as it comes.
JudgeRefreshOften(row, jti) ==
    IF row = None THEN "unknown"
    ELSE IF row.revoked THEN "revoked"
    ELSE IF jti = row.current THEN "rotate"
    ELSE IF jti = row.previous /\ now - row.rotated < Grace THEN "grace"
    ELSE "reused"

\* judgeRefresh: what becomes of a token of the chain whose row this is.
JudgeRefresh(row, jti) ==
    IF row = None THEN "unknown"
    ELSE IF row.revoked THEN "revoked"
    ELSE IF jti = row.current THEN "rotate"
    ELSE IF jti = row.previous /\ ~ row.graceUsed /\ now - row.rotated < Grace THEN "grace"
    ELSE "reused"

\* Mutant: a chain is dropped the moment it expires.
DeadChainAtOnce(row) == row # None /\ row.expires <= now

\* rotateRefreshChain: a chain a day past its expiry goes when another is created.
DeadChain(row) == row # None /\ row.expires < now - Keep

FamilyId(t) == IF t.fid = None THEN t.jti ELSE t.fid

\* rotateRefreshChain: the first refresh of a login's token creates the chain.
CreateChain(r, t) ==
    /\ t.fid = None
    /\ chains[FamilyId(t)] = None
    /\ jtis' = jtis + 1
    /\ chains' = [f \in Jtis |->
                    IF f = FamilyId(t)
                    THEN [current |-> jtis + 1, previous |-> t.jti, rotated |-> now,
                          graceUsed |-> FALSE, revoked |-> FALSE, expires |-> t.exp]
                    ELSE IF DeadChain(chains[f]) THEN None ELSE chains[f]]
    /\ answers' = [answers EXCEPT ![t.jti] = [answers[t.jti] EXCEPT !.rotated = @ + 1]]
    /\ req' = [req EXCEPT ![r] = [req[r] EXCEPT !.stage = "sign", !.jti = jtis + 1]]

\* rotateRefreshChain: the row is locked and judged; a refusal commits too.
JudgeChain(r, t) ==
    LET f == FamilyId(t)
        row == chains[f]
        verdict == JudgeRefresh(row, t.jti)
        Answer(jti) == req' = [req EXCEPT ![r] = [req[r] EXCEPT !.stage = "sign", !.jti = jti]]
    IN
    /\ t.fid # None \/ row # None
    /\ \/ /\ verdict = "rotate"
          /\ jtis' = jtis + 1
          /\ chains' = [chains EXCEPT ![f] =
                [row EXCEPT !.previous = row.current, !.current = jtis + 1, !.rotated = now,
                            !.graceUsed = FALSE]]
          /\ answers' = [answers EXCEPT ![t.jti] = [answers[t.jti] EXCEPT !.rotated = @ + 1]]
          /\ Answer(jtis + 1)
       \/ /\ verdict = "grace"
          /\ chains' = [chains EXCEPT ![f] = [row EXCEPT !.graceUsed = TRUE]]
          /\ answers' = [answers EXCEPT ![t.jti] = [answers[t.jti] EXCEPT !.graced = @ + 1]]
          /\ Answer(row.current)
          /\ UNCHANGED jtis
       \/ /\ verdict = "reused"
          /\ chains' = [chains EXCEPT ![f] = [row EXCEPT !.revoked = TRUE]]
          /\ Refuse(r)
          /\ UNCHANGED <<jtis, answers>>
       \/ /\ verdict \in {"revoked", "unknown"}
          /\ Refuse(r)
          /\ UNCHANGED <<jtis, chains, answers>>

RotateRefreshChain(r) ==
    /\ req[r].stage = "rotate"
    /\ CreateChain(r, req[r].tok) \/ JudgeChain(r, req[r].tok)
    /\ UNCHANGED <<now, tenant, cached, purging, user, secrets, temps, machines, tokens,
                   replaced, admin>>

\* refreshTokenPayload: signed after the commit, with the expiry it came with.
RefreshSign(r) ==
    /\ req[r].stage = "sign"
    /\ LET t == req[r].tok
       IN  Reply(r, Signed("session", req[r].jti, FamilyId(t), t.exp, t.did, t.pw,
                           t.crossed \/ t.iat = user.changed, req[r].row))
    /\ UNCHANGED <<now, tenant, cached, purging, user, secrets, temps, jtis, chains, machines,
                   answers, replaced, admin>>

-----------------------------------------------------------------------------
\* changePassword: the new password passed the policy; the current row is read.
ChangeRead(r, t) ==
    /\ Arrives(r)
    /\ Verified(t, "pwchange", t.exp)
    /\ user.must
    /\ FreshEnough(t)
    /\ tenant.status = "active"
    /\ user.active
    /\ req' = [req EXCEPT ![r] = [Idle EXCEPT !.stage = "write", !.tok = t, !.row = user]]
    /\ UNCHANGED <<now, tenant, cached, purging, user, secrets, temps, jtis, chains, machines,
                   tokens, answers, replaced, admin>>

\* Mutant: the UPDATE does not name the hash that was compared.
StillCurrentAny(row) == user.must /\ user.expires > now

\* changePassword: the predicate of the UPDATE.
StillCurrent(row) ==
    /\ user.must
    /\ user.hash = row.hash
    /\ user.expires > now

\* changePassword: the new password differs from the temporary one
\* (same_as_temp), was hashed, and the UPDATE takes it if nothing changed.
ChangeWrite(r) ==
    /\ req[r].stage = "write"
    /\ \/ /\ StillCurrent(req[r].row)
          /\ secrets' = secrets + 1
          /\ user' = [user EXCEPT !.hash = secrets + 1, !.must = FALSE, !.expires = None,
                                  !.changed = now]
          /\ replaced' = replaced \cup {[token |-> req[r].tok, of |-> user.hash,
                                         changed |-> user.changed]}
          /\ req' = [req EXCEPT ![r] = [req[r] EXCEPT !.stage = "signNew", !.row = user']]
       \/ /\ ~ StillCurrent(req[r].row)
          /\ Refuse(r)
          /\ UNCHANGED <<secrets, user, replaced>>
    /\ UNCHANGED <<now, tenant, cached, purging, temps, jtis, chains, machines, tokens, answers,
                   admin>>

\* changePassword: full tokens, only after the commit.
ChangeSign(r) ==
    /\ req[r].stage = "signNew"
    /\ jtis' = jtis + 1
    /\ Reply(r, Signed("session", jtis + 1, None, RefreshExpiry(now), req[r].tok.did,
                       req[r].row.hash, FALSE, req[r].row))
    /\ UNCHANGED <<now, tenant, cached, purging, user, secrets, temps, chains, machines, answers,
                   replaced, admin>>
=============================================================================
