----------------------------- MODULE AccessProofs -----------------------------
(***************************************************************************)
(* Proofs about Access: the types of its rows, and the five properties of  *)
(* sessions, temporary passwords and stopped shops, for any number of      *)
(* requests and machines and any lives of the tokens.                      *)
(***************************************************************************)
EXTENDS Access, FiniteSetTheorems, WellFoundedInduction, TLAPS

-----------------------------------------------------------------------------
(* The inductive invariant *)

\* Machines are numbered from one.
Numbered == \A d \in Machines : machines[d] # None => machines[d].no <= MaxDeviceNo + 1

\* A request draws at most one token id, and ends or signs after it.
Drew(r) == req[r].stage \in {"sign", "done"}
IdsLeft == jtis <= Cardinality({r \in Reqs : Drew(r)}) + 1

\* A day past its expiry: nobody verifies the token any more.
Dead(t) == t.exp < now - Keep

\* The tokens of one chain expire together.
OneExpiry == \A t, u \in tokens : FamilyId(t) = FamilyId(u) => t.exp = u.exp

IdsDrawn == \A t \in tokens : t.jti <= jtis /\ FamilyId(t) <= jtis

\* What each token was answered with.
Spent ==
    \A j \in Jtis :
        /\ answers[j].rotated <= 1 /\ answers[j].graced <= 1
        /\ answers[j].graced > 0 => answers[j].rotated = 1
        /\ j > jtis => answers[j].rotated = 0

\* The token a chain expects was never rotated, and the one before it once.
ChainTrue(f) ==
    /\ f <= jtis
    /\ chains[f].current <= jtis /\ chains[f].previous <= jtis
    /\ chains[f].current # chains[f].previous
    /\ answers[chains[f].current].rotated = 0
    /\ answers[chains[f].previous].rotated = 1
    /\ ~ chains[f].graceUsed => answers[chains[f].previous].graced = 0
    /\ \A t \in tokens : FamilyId(t) = f => t.exp = chains[f].expires
ChainsTrue == \A f \in Jtis : chains[f] # None => ChainTrue(f)

Apart(a, b) ==
    a.current # b.current /\ a.current # b.previous /\ a.previous # b.current
    /\ a.previous # b.previous
ChainsApart ==
    \A f, g \in Jtis : f # g /\ chains[f] # None /\ chains[g] # None => Apart(chains[f], chains[g])

\* The token of a login is in no chain but its own, as the one before the current one;
\* once it was rotated its chain stays until the token is dead.
RootTrue(t) ==
    /\ \A g \in Jtis : chains[g] # None =>
          chains[g].current # t.jti /\ (chains[g].previous = t.jti => g = t.jti)
    /\ answers[t.jti].rotated > 0 => chains[t.jti] # None \/ Dead(t)
RootsTrue == \A t \in tokens : t.fid = None => RootTrue(t)
BranchesTrue == \A t \in tokens : t.fid # None => chains[t.fid] # None \/ Dead(t)

\* A refresh under way: its token was alive when it was read, a slow transaction ago.
ChainRequest(r) ==
    /\ req[r].stage \in {"rotate", "sign", "write", "signNew"} => req[r].tok \in tokens
    /\ req[r].stage \in {"rotate", "sign"} => req[r].tok.typ = "session"
    /\ req[r].stage = "rotate" =>
          /\ req[r].at # None /\ req[r].at <= now /\ now <= req[r].at + Slow
          /\ req[r].at < req[r].tok.exp + Skew
    /\ req[r].stage = "sign" =>
          /\ req[r].jti # None /\ req[r].jti <= jtis
          /\ chains[FamilyId(req[r].tok)] # None \/ Dead(req[r].tok)

ChainInv ==
    /\ OneExpiry /\ IdsDrawn /\ Spent /\ ChainsTrue /\ ChainsApart /\ RootsTrue /\ BranchesTrue
    /\ \A r \in Reqs : ChainRequest(r)

-----------------------------------------------------------------------------
\* Before there is a shop there is no session of it.
NobodyYet == tenant.status = None => tokens = {} /\ \A r \in Reqs : req[r].stage = "idle"

OwnerTrue ==
    /\ user.hash <= secrets
    /\ ~ user.must => user.hash \notin temps
    /\ user.changed # None => user.changed <= now

\* A token of another password was signed no later than the change, unless it was crossed.
TokenTrue(t) ==
    /\ t.pw <= secrets /\ t.iat <= now
    /\ t.pw # user.hash /\ ~ t.crossed => user.changed # None /\ t.iat <= user.changed
    /\ t.typ = "session" => t.pw \notin temps

\* What a request read is the owner's row, or the row has another password by now.
PasswordRequest(r) ==
    /\ req[r].stage \in {"verify", "rotate", "sign", "write", "signNew"} =>
          /\ req[r].row # None /\ req[r].row.hash <= secrets
          /\ req[r].row.hash = user.hash => req[r].row.changed = user.changed
          /\ ~ req[r].row.must => req[r].row.hash \notin temps
    /\ req[r].stage \in {"rotate", "sign", "write"} /\ req[r].row.changed # None =>
          req[r].tok.iat >= req[r].row.changed
    /\ req[r].stage = "signNew" => ~ req[r].row.must
    /\ req[r].stage = "in" => req[r].pw <= secrets /\ req[r].pw \notin temps

PasswordInv ==
    /\ NobodyYet /\ OwnerTrue /\ \A t \in tokens : TokenTrue(t)
    /\ \A r \in Reqs : PasswordRequest(r)
    /\ ResetStands

-----------------------------------------------------------------------------
StoppedTrue ==
    /\ tenant.status = "active" => tenant.stopped = None
    /\ tenant.status \notin {None, "active"} => tenant.stopped # None
    /\ tenant.stopped # None => tenant.stopped <= now

\* A status that says "active" was read no later than the stop.
CachedTrue ==
    cached # None =>
        /\ cached.until <= now + StatusTtl
        /\ cached.status = "active" /\ tenant.stopped # None =>
              cached.until <= tenant.stopped + Slow + StatusTtl

StatusRequest(r) ==
    /\ req[r].stage = "set" =>
          /\ req[r].at # None /\ req[r].at <= now /\ now <= req[r].at + Slow
          /\ req[r].status = "active" /\ tenant.stopped # None => req[r].at <= tenant.stopped
    /\ req[r].stage = "in" => req[r].lag <= StatusTtl + Slow

StatusInv == StoppedTrue /\ CachedTrue /\ \A r \in Reqs : StatusRequest(r)

AccessInv == TypeOK /\ Numbered /\ IdsLeft /\ ChainInv /\ PasswordInv /\ StatusInv

-----------------------------------------------------------------------------
(* Requests that move *)

Moved(r) ==
    /\ req' \in [Reqs -> Request]
    /\ \A q \in Reqs \ {r} : req'[q] = req[q]

LEMMA Moves ==
  ASSUME TypeOK, NEW r \in Reqs, NEW new \in Request, req' = [req EXCEPT ![r] = new]
  PROVE  Moved(r) /\ req'[r] = new
BY DEF TypeOK, Moved

LEMMA IdleTyped == Idle \in Request /\ Done \in Request /\ Done.stage = "done" /\ Idle.stage = "idle"
<1>1. Idle \in Request /\ Idle.stage = "idle"
  BY DEF Idle, Request, Moment
<1>2. Done \in Request /\ Done.stage = "done"
  BY <1>1 DEF Done, Request
<1> QED BY <1>1, <1>2

\* A request that has drawn no token id yet may draw one.
LEMMA RoomForOne ==
  ASSUME TypeOK, IdsLeft, NEW r \in Reqs, ~ Drew(r)
  PROVE  jtis + 1 \in Jtis /\ jtis \in Nat
<1> DEFINE D == {q \in Reqs : Drew(q)}
           c == Cardinality(Reqs)
<1>1. IsFiniteSet(Reqs) /\ c \in Nat
  BY NamesAssumption, FS_CardinalityType
<1>2. IsFiniteSet(D) /\ Cardinality(D) \in Nat /\ Cardinality(D) <= c /\ (Cardinality(D) = c => D = Reqs)
  <2>1. D \subseteq Reqs
    OBVIOUS
  <2> HIDE DEF D
  <2> QED BY <1>1, <2>1, FS_Subset, FS_CardinalityType
<1>3. D # Reqs
  OBVIOUS
<1>4. jtis <= Cardinality(D) + 1
  BY DEF IdsLeft
<1>5. jtis \in Nat
  BY <1>1 DEF TypeOK, Jtis
<1> HIDE DEF D, c
<1>6. jtis + 1 \in 1 .. (2 * c + 1)
  BY <1>1, <1>2, <1>3, <1>4, <1>5
<1> QED BY <1>5, <1>6 DEF Jtis, c

\* A draw by a request that had drawn none, or none at all, leaves the others theirs.
LEMMA IdsStayLeft ==
  ASSUME TypeOK, IdsLeft, NEW r \in Reqs, Moved(r), Drew(r) => Drew(r)',
         jtis' = jtis \/ (jtis' = jtis + 1 /\ ~ Drew(r) /\ Drew(r)')
  PROVE  IdsLeft'
<1>1. PICK D : D = {q \in Reqs : Drew(q)}
  OBVIOUS
<1>2. PICK E : E = {q \in Reqs : Drew(q)'}
  OBVIOUS
<1>3. E = {q \in Reqs : Drew(q)}'
  BY <1>2
<1>4. IsFiniteSet(D) /\ IsFiniteSet(E) /\ Cardinality(D) \in Nat /\ Cardinality(E) \in Nat
  <2>1. D \subseteq Reqs /\ E \subseteq Reqs
    BY <1>1, <1>2
  <2> QED BY <2>1, NamesAssumption, FS_Subset, FS_CardinalityType
<1>5. \A q \in Reqs \ {r} : Drew(q)' <=> Drew(q)
  BY DEF Drew, Moved
<1>6. jtis <= Cardinality(D) + 1 /\ jtis \in Int
  BY <1>1, NamesAssumption, FS_CardinalityType DEF IdsLeft, TypeOK, Jtis
<1>7. CASE jtis' = jtis
  <2>1. D \subseteq E
    BY <1>1, <1>2, <1>5
  <2>2. Cardinality(D) <= Cardinality(E)
    BY <1>4, <2>1, FS_Subset
  <2> QED BY <1>3, <1>4, <1>6, <1>7, <2>2 DEF IdsLeft
<1>8. CASE jtis' = jtis + 1 /\ ~ Drew(r) /\ Drew(r)'
  <2>1. E = D \cup {r} /\ r \notin D
    BY <1>1, <1>2, <1>5, <1>8
  <2>2. Cardinality(E) = Cardinality(D) + 1
    BY <1>4, <2>1, FS_AddElement
  <2> QED BY <1>3, <1>4, <1>6, <1>8, <2>2 DEF IdsLeft
<1> QED BY <1>7, <1>8

\* A token's expiry is a moment.
LEMMA ExpiryTyped == ASSUME NEW t \in Nat PROVE RefreshExpiry(t) \in Nat
<1>1. Day \in Nat /\ Day > 0 /\ End \in Nat
  BY LivesAssumption
<1>2. PICK k : k = t \div Day
  OBVIOUS
<1>3. k \in Nat
  BY <1>1, <1>2
<1>4. PICK m \in Nat : m = k + (IF t % Day >= Cut THEN 1 ELSE 0)
  BY <1>3
<1>5. m * Day \in Nat
  BY <1>1
<1> QED BY <1>1, <1>2, <1>4, <1>5 DEF RefreshExpiry

-----------------------------------------------------------------------------
(* What each step of a request does *)

rowVars == <<now, tenant, cached, user, secrets, temps, machines, replaced>>
chainVars == <<jtis, chains, answers, tokens>>

\* A token signed for a login, or for the owner's new password.
NewLogin(r, t) ==
    /\ tokens' = tokens \cup {t} /\ jtis' = jtis + 1 /\ t \in Token
    /\ t.jti = jtis + 1 /\ t.fid = None /\ t.iat = now /\ t.pw = req[r].row.hash
    /\ ~ t.crossed => user.hash = req[r].row.hash
    /\ t.typ = "session" => ~ req[r].row.must

LEMMA LoginLookupFacts ==
  ASSUME AccessInv, NEW r \in Reqs, NEW d \in Machines \cup {None}, LoginLookup(r, d)
  PROVE  /\ Moved(r) /\ req[r].stage = "idle" /\ req'[r].stage = "verify" /\ req'[r].row = user
         /\ tenant.status # None /\ UNCHANGED <<rowVars, chainVars, purging, admin>>
<1> DEFINE new == [Idle EXCEPT !.stage = "verify", !.did = d, !.row = user, !.status = tenant.status]
<1>1. /\ req[r] = Idle /\ tenant.status # None /\ req' = [req EXCEPT ![r] = new]
      /\ UNCHANGED <<rowVars, chainVars, purging, admin>>
  BY DEF LoginLookup, Arrives, rowVars, chainVars
<1>2. user \in User /\ tenant.status \in Status \cup {None}
  BY DEF AccessInv, TypeOK
<1>3. new \in Request /\ new.stage = "verify" /\ new.row = user
  BY <1>2, IdleTyped DEF Request, Idle
<1> HIDE DEF new
<1> QED BY <1>1, <1>3, Moves, IdleTyped DEF AccessInv

\* What a request that passed its reading holds.
LEMMA Held ==
  ASSUME AccessInv, NEW r \in Reqs, req[r].stage \in {"verify", "rotate", "sign", "write", "signNew"}
  PROVE  /\ req[r] \in Request /\ req[r].row \in User /\ req[r].row # None
         /\ req[r].stage # "verify" => req[r].tok \in Token /\ req[r].tok \in tokens
<1>1. req[r] \in Request /\ tokens \subseteq Token
  BY DEF AccessInv, TypeOK
<1>2. PasswordRequest(r) /\ ChainRequest(r)
  BY DEF AccessInv, PasswordInv, ChainInv
<1>3. req[r].row # None /\ (req[r].stage # "verify" => req[r].tok \in tokens)
  BY <1>2 DEF PasswordRequest, ChainRequest
<1> QED BY <1>1, <1>3 DEF Request

LEMMA LoginSignFacts ==
  ASSUME AccessInv, NEW r \in Reqs, LoginSign(r)
  PROVE  /\ Moved(r) /\ req[r].stage = "verify" /\ req'[r].stage = "done"
         /\ UNCHANGED <<rowVars, chains, answers, purging, admin>>
         /\ UNCHANGED <<jtis, tokens>> \/ \E t \in Token : NewLogin(r, t)
<1>1. req[r].stage = "verify" /\ UNCHANGED <<rowVars, chains, answers, purging, admin>>
  BY DEF LoginSign, rowVars
<1>2. /\ req[r] \in Request /\ req[r].row \in User /\ jtis + 1 \in Jtis /\ jtis \in Nat /\ now \in Nat
      /\ now + ChangeLife \in Nat /\ RefreshExpiry(now) \in Nat
  BY <1>1, Held, RoomForOne, ExpiryTyped, LivesAssumption DEF AccessInv, TypeOK, Drew
<1>3. req' = [req EXCEPT ![r] = Done]
  BY DEF LoginSign, Refuse, Reply
<1>4. Moved(r) /\ req'[r].stage = "done"
  BY <1>3, Moves, IdleTyped DEF AccessInv
<1>5. ASSUME NEW typ \in {"session", "pwchange"}, NEW exp \in Nat, typ = "session" => ~ req[r].row.must,
             jtis' = jtis + 1,
             Reply(r, Signed(typ, jtis + 1, None, exp, req[r].did, req[r].row.hash, FALSE, req[r].row))
      PROVE  \E t \in Token : NewLogin(r, t)
  <2>1. PICK t : t = Signed(typ, jtis + 1, None, exp, req[r].did, req[r].row.hash, FALSE, req[r].row)
    OBVIOUS
  <2>2. req[r].did \in Machines \cup {None} /\ req[r].row.hash \in Nat
    BY <1>2 DEF Request, User
  <2>3. /\ t \in Token /\ t.typ = typ /\ t.jti = jtis + 1 /\ t.fid = None /\ t.iat = now
        /\ t.pw = req[r].row.hash /\ (~ t.crossed => user.hash = req[r].row.hash)
    BY <1>2, <2>1, <2>2 DEF Signed, Token, Time
  <2>4. tokens' = tokens \cup {t}
    BY <1>5, <2>1 DEF Reply
  <2> QED BY <1>5, <2>3, <2>4 DEF NewLogin
<1>6. UNCHANGED <<jtis, tokens>> \/ \E t \in Token : NewLogin(r, t)
  BY <1>2, <1>5 DEF LoginSign
<1> QED BY <1>1, <1>4, <1>6

LEMMA RefreshReadFacts ==
  ASSUME AccessInv, NEW r \in Reqs, NEW t \in tokens, RefreshRead(r, t)
  PROVE  /\ Moved(r) /\ req[r].stage = "idle" /\ req'[r].stage = "rotate" /\ req'[r].row = user
         /\ req'[r].tok = t /\ req'[r].at = now /\ t.typ = "session" /\ now < t.exp + Skew
         /\ FreshEnough(t) /\ UNCHANGED <<rowVars, chainVars, purging, admin>>
<1> DEFINE new == [Idle EXCEPT !.stage = "rotate", !.tok = t, !.row = user, !.at = now]
<1>1. /\ req[r] = Idle /\ req' = [req EXCEPT ![r] = new] /\ t.typ = "session" /\ now < t.exp + Skew
      /\ FreshEnough(t) /\ UNCHANGED <<rowVars, chainVars, purging, admin>>
  BY DEF RefreshRead, RefreshType, Verified, Arrives, rowVars, chainVars
<1>2. user \in User /\ now \in Nat /\ t \in Token
  BY LivesAssumption DEF AccessInv, TypeOK
<1>3. new \in Request /\ new.stage = "rotate" /\ new.row = user /\ new.tok = t /\ new.at = now
  BY <1>2, IdleTyped DEF Request, Idle, Moment, Time
<1> HIDE DEF new
<1> QED BY <1>1, <1>3, Moves, IdleTyped DEF AccessInv

LEMMA ChangeReadFacts ==
  ASSUME AccessInv, NEW r \in Reqs, NEW t \in tokens, ChangeRead(r, t)
  PROVE  /\ Moved(r) /\ req[r].stage = "idle" /\ req'[r].stage = "write" /\ req'[r].row = user
         /\ req'[r].tok = t /\ FreshEnough(t) /\ UNCHANGED <<rowVars, chainVars, purging, admin>>
<1> DEFINE new == [Idle EXCEPT !.stage = "write", !.tok = t, !.row = user]
<1>1. /\ req[r] = Idle /\ req' = [req EXCEPT ![r] = new]
      /\ FreshEnough(t) /\ UNCHANGED <<rowVars, chainVars, purging, admin>>
  BY DEF ChangeRead, Arrives, rowVars, chainVars
<1>2. user \in User /\ t \in Token
  BY DEF AccessInv, TypeOK
<1>3. new \in Request /\ new.stage = "write" /\ new.row = user /\ new.tok = t
  BY <1>2, IdleTyped DEF Request, Idle
<1> HIDE DEF new
<1> QED BY <1>1, <1>3, Moves, IdleTyped DEF AccessInv

LEMMA RefreshSignFacts ==
  ASSUME AccessInv, NEW r \in Reqs, RefreshSign(r)
  PROVE  /\ Moved(r) /\ req[r].stage = "sign" /\ req'[r].stage = "done"
         /\ UNCHANGED <<rowVars, chains, answers, jtis, purging, admin>>
         /\ req[r].tok \in tokens /\ req[r].tok \in Token
         /\ \E t \in Token :
               /\ tokens' = tokens \cup {t} /\ t.typ = "session" /\ t.jti = req[r].jti
               /\ t.fid = FamilyId(req[r].tok) /\ t.exp = req[r].tok.exp /\ t.iat = now
               /\ t.pw = req[r].tok.pw
               /\ ~ t.crossed => /\ ~ req[r].tok.crossed /\ req[r].tok.iat # user.changed
                                 /\ user.hash = req[r].row.hash
<1> DEFINE u == req[r].tok
<1>1. /\ req[r].stage = "sign" /\ UNCHANGED <<rowVars, chains, answers, jtis, purging, admin>>
      /\ Reply(r, Signed("session", req[r].jti, FamilyId(u), u.exp, u.did, u.pw,
                         u.crossed \/ u.iat = user.changed, req[r].row))
  BY DEF RefreshSign, rowVars
<1>2. /\ req[r] \in Request /\ u \in tokens /\ u \in Token /\ now \in Nat /\ req[r].row \in User
  BY <1>1, Held, LivesAssumption DEF AccessInv, TypeOK
<1>3. req[r].jti \in Jtis
  BY <1>1, <1>2 DEF AccessInv, ChainInv, ChainRequest, Request
<1>4. Moved(r) /\ req'[r].stage = "done"
  BY <1>1, Moves, IdleTyped DEF AccessInv, Reply
<1>5. PICK t : t = Signed("session", req[r].jti, FamilyId(u), u.exp, u.did, u.pw,
                          u.crossed \/ u.iat = user.changed, req[r].row)
  OBVIOUS
<1>6. FamilyId(u) \in Jtis /\ u.exp \in Nat /\ u.did \in Machines \cup {None} /\ u.pw \in Nat
  BY <1>2 DEF FamilyId, Token, Time
<1>7. tokens' = tokens \cup {t}
  BY <1>1, <1>5 DEF Reply
<1> HIDE DEF u
<1>8. /\ t \in Token /\ t.typ = "session" /\ t.jti = req[r].jti /\ t.fid = FamilyId(u)
      /\ t.exp = u.exp /\ t.iat = now /\ t.pw = u.pw
  BY <1>2, <1>3, <1>5, <1>6 DEF Signed, Token, Time
<1>9. t.crossed = ((u.crossed \/ u.iat = user.changed) \/ user.hash # req[r].row.hash \/ user.changed = now)
  BY <1>5 DEF Signed
<1>10. ~ t.crossed => ~ u.crossed /\ u.iat # user.changed /\ user.hash = req[r].row.hash
  BY <1>9
<1> QED BY <1>1, <1>2, <1>4, <1>7, <1>8, <1>10 DEF u

LEMMA ChangeWriteFacts ==
  ASSUME AccessInv, NEW r \in Reqs, ChangeWrite(r)
  PROVE  /\ Moved(r) /\ req[r].stage = "write"
         /\ UNCHANGED <<now, tenant, cached, temps, machines, chainVars, purging, admin>>
         /\ \/ req'[r].stage = "done" /\ UNCHANGED <<user, secrets, replaced>>
            \/ /\ req'[r].stage = "signNew" /\ req'[r].row = user' /\ req'[r].tok = req[r].tok
               /\ StillCurrent(req[r].row) /\ secrets' = secrets + 1
               /\ user' \in User /\ user'.hash = secrets + 1 /\ ~ user'.must /\ user'.expires = None
               /\ user'.changed = now
               /\ replaced' = replaced \cup {[token |-> req[r].tok, of |-> user.hash, changed |-> user.changed]}
<1>1. req[r].stage = "write" /\ UNCHANGED <<now, tenant, cached, temps, machines, chainVars, purging, admin>>
  BY DEF ChangeWrite, chainVars
<1>2. /\ req[r] \in Request /\ user \in User /\ now \in Nat /\ secrets \in Nat
  BY <1>1, Held, LivesAssumption DEF AccessInv, TypeOK
<1>3. CASE ~ StillCurrent(req[r].row)
  <2>1. req' = [req EXCEPT ![r] = Done] /\ UNCHANGED <<user, secrets, replaced>>
    BY <1>3 DEF ChangeWrite, Refuse
  <2> QED BY <1>1, <2>1, Moves, IdleTyped DEF AccessInv
<1>4. CASE StillCurrent(req[r].row)
  <2> DEFINE new == [req[r] EXCEPT !.stage = "signNew", !.row = user']
  <2>1. /\ secrets' = secrets + 1
        /\ user' = [user EXCEPT !.hash = secrets + 1, !.must = FALSE, !.expires = None, !.changed = now]
        /\ replaced' = replaced \cup {[token |-> req[r].tok, of |-> user.hash, changed |-> user.changed]}
        /\ req' = [req EXCEPT ![r] = new]
    BY <1>4 DEF ChangeWrite
  <2>2. /\ user' \in User /\ user'.hash = secrets + 1 /\ ~ user'.must /\ user'.expires = None
        /\ user'.changed = now
    <3>1. user' = [hash |-> secrets + 1, must |-> FALSE, expires |-> None, changed |-> now,
                   active |-> user.active]
      BY <1>2, <2>1 DEF User
    <3>2. secrets + 1 \in Nat /\ now \in Moment /\ None \in Moment /\ user.active \in BOOLEAN
      BY <1>2 DEF User, Moment, Time
    <3> QED BY <3>1, <3>2 DEF User
  <2>3. new \in Request /\ new.stage = "signNew" /\ new.row = user' /\ new.tok = req[r].tok
    BY <1>2, <2>2 DEF Request
  <2> HIDE DEF new
  <2>4. Moved(r) /\ req'[r] = new
    BY <2>1, <2>3, Moves DEF AccessInv
  <2> QED BY <1>1, <1>4, <2>1, <2>2, <2>3, <2>4
<1> QED BY <1>3, <1>4

LEMMA ChangeSignFacts ==
  ASSUME AccessInv, NEW r \in Reqs, ChangeSign(r)
  PROVE  /\ Moved(r) /\ req[r].stage = "signNew" /\ req'[r].stage = "done"
         /\ UNCHANGED <<rowVars, chains, answers, purging, admin>>
         /\ \E t \in Token : NewLogin(r, t)
<1>1. /\ req[r].stage = "signNew" /\ UNCHANGED <<rowVars, chains, answers, purging, admin>>
      /\ jtis' = jtis + 1
      /\ Reply(r, Signed("session", jtis + 1, None, RefreshExpiry(now), req[r].tok.did,
                         req[r].row.hash, FALSE, req[r].row))
  BY DEF ChangeSign, rowVars
<1>2. /\ req[r] \in Request /\ req[r].row \in User /\ req[r].tok \in Token /\ jtis + 1 \in Jtis /\ jtis \in Nat
      /\ now \in Nat /\ RefreshExpiry(now) \in Nat
  BY <1>1, Held, RoomForOne, ExpiryTyped, LivesAssumption DEF AccessInv, TypeOK, Drew
<1>3. ~ req[r].row.must
  BY <1>1 DEF AccessInv, PasswordInv, PasswordRequest
<1>4. Moved(r) /\ req'[r].stage = "done"
  BY <1>1, Moves, IdleTyped DEF AccessInv, Reply
<1>5. PICK t : t = Signed("session", jtis + 1, None, RefreshExpiry(now), req[r].tok.did,
                          req[r].row.hash, FALSE, req[r].row)
  OBVIOUS
<1>6. req[r].tok.did \in Machines \cup {None} /\ req[r].row.hash \in Nat
  BY <1>2 DEF Token, User
<1>7. /\ t \in Token /\ t.typ = "session" /\ t.jti = jtis + 1 /\ t.fid = None /\ t.iat = now
      /\ t.pw = req[r].row.hash /\ (~ t.crossed => user.hash = req[r].row.hash)
  BY <1>2, <1>5, <1>6 DEF Signed, Token, Time
<1>8. tokens' = tokens \cup {t}
  BY <1>1, <1>5 DEF Reply
<1> QED BY <1>1, <1>3, <1>4, <1>7, <1>8 DEF NewLogin

\* The guards let a request in, end it, or read the shop's status for it.
LEMMA GuardFacts ==
  ASSUME AccessInv, NEW r \in Reqs,
         \/ \E t \in tokens : GuardCached(r, t) \/ GuardRead(r, t)
         \/ GuardSet(r) \/ \E d \in Machines : GuardPush(r, d)
  PROVE  /\ Moved(r) /\ req[r].stage \in {"idle", "set"} /\ req'[r].stage \in {"in", "done", "set"}
         /\ UNCHANGED <<now, tenant, user, secrets, temps, machines, replaced, chainVars, purging, admin>>
         /\ req'[r].stage = "in" => req'[r].pw = 0 \/ (req'[r].pw = user.hash /\ ~ user.must)
         /\ tenant.status # None \/ req[r].stage # "idle"
         /\ \/ /\ req'[r].stage = "set" /\ req'[r].at = now /\ req'[r].status = tenant.status
               /\ UNCHANGED cached
            \/ /\ req'[r].stage = "in" => cached # None /\ cached.until > now /\ cached.status = "active"
                                          /\ req'[r].lag = Lag
               /\ req'[r].stage # "set" /\ UNCHANGED cached
            \/ /\ req[r].stage = "set" /\ req'[r].stage # "set"
               /\ req'[r].stage = "in" => req[r].status = "active" /\ req'[r].lag = Lag
               /\ cached' = cached \/ cached' = [status |-> req[r].status, until |-> StatusUntil]
            \/ /\ req'[r].stage = "in" /\ req'[r].lag = 0 /\ tenant.status = "active" /\ UNCHANGED cached
<1> DEFINE in == [Idle EXCEPT !.stage = "in", !.lag = Lag]
<1>0. /\ now \in Nat /\ tenant.status \in Status \cup {None} /\ user \in User
      /\ tenant.stopped \in Nat \cup {None}
  BY LivesAssumption DEF AccessInv, TypeOK, Moment, Time
<1>1. Lag \in Int
  BY <1>0 DEF Lag
<1>2. in \in Request /\ in.stage = "in" /\ in.pw = 0 /\ in.lag = Lag
  BY <1>1, IdleTyped DEF Request, Idle
<1>3. ASSUME NEW status, Judge(r, status)
      PROVE  /\ Moved(r) /\ req'[r].stage \in {"in", "done"}
             /\ req'[r].stage = "in" => req'[r].pw = 0 /\ req'[r].lag = Lag /\ status = "active"
  <2> HIDE DEF in
  <2>1. req' = [req EXCEPT ![r] = IF status = "active" THEN in ELSE Done]
    BY <1>3 DEF Judge, in
  <2>2. CASE status = "active"
    BY <1>2, <2>1, <2>2, Moves DEF AccessInv
  <2>3. CASE status # "active"
    BY <2>1, <2>3, Moves, IdleTyped DEF AccessInv
  <2> QED BY <2>2, <2>3
<1>4. tokens # {} => tenant.status # None
  BY DEF AccessInv, PasswordInv, NobodyYet
<1> HIDE DEF in
<1>5. CASE \E t \in tokens : GuardCached(r, t)
  <2>1. /\ req[r].stage = "idle" /\ Judge(r, cached.status) /\ cached # None /\ cached.until > now
        /\ UNCHANGED <<now, tenant, user, secrets, temps, machines, replaced, chainVars, purging, admin, cached>>
    BY <1>5, IdleTyped DEF GuardCached, Arrives, sessions, chainVars
  <2> QED BY <1>3, <1>4, <1>5, <2>1
<1>6. CASE \E t \in tokens : GuardRead(r, t)
  <2> DEFINE new == [Idle EXCEPT !.stage = "set", !.status = tenant.status, !.at = now]
  <2>1. /\ req[r].stage = "idle" /\ req' = [req EXCEPT ![r] = new]
        /\ UNCHANGED <<now, tenant, user, secrets, temps, machines, replaced, chainVars, purging, admin, cached>>
    BY <1>6, IdleTyped DEF GuardRead, Arrives, sessions, chainVars
  <2>2. new \in Request /\ new.stage = "set" /\ new.status = tenant.status /\ new.at = now
    BY <1>0, IdleTyped DEF Request, Idle, Moment, Time
  <2> HIDE DEF new
  <2> QED BY <1>4, <1>6, <2>1, <2>2, Moves DEF AccessInv
<1>7. CASE GuardSet(r)
  <2>1. /\ req[r].stage = "set" /\ Judge(r, req[r].status)
        /\ cached' = cached \/ cached' = [status |-> req[r].status, until |-> StatusUntil]
        /\ UNCHANGED <<now, tenant, user, secrets, temps, machines, replaced, chainVars, purging, admin>>
    BY <1>7 DEF GuardSet, sessions, chainVars
  <2> QED BY <1>3, <2>1
<1>8. CASE \E d \in Machines : GuardPush(r, d)
  <2>1. PICK d \in Machines : GuardPush(r, d)
    BY <1>8
  <2> DEFINE new == [Idle EXCEPT !.stage = "in", !.did = d, !.pw = user.hash]
  <2>2. /\ req[r].stage = "idle" /\ req' = [req EXCEPT ![r] = new] /\ tenant.status = "active" /\ ~ user.must
        /\ UNCHANGED <<now, tenant, user, secrets, temps, machines, replaced, chainVars, purging, admin, cached>>
    BY <2>1, IdleTyped DEF GuardPush, Arrives, sessions, chainVars
  <2>3. new \in Request /\ new.stage = "in" /\ new.pw = user.hash /\ new.lag = 0
    BY <1>0, IdleTyped DEF Request, Idle, User
  <2> HIDE DEF new
  <2>4. tenant.status # None
    BY <2>2, NamesAssumption DEF Status
  <2> QED BY <2>2, <2>3, <2>4, Moves DEF AccessInv
<1> QED BY <1>5, <1>6, <1>7, <1>8

\* What judgeRefresh says of a chain.
LEMMA VerdictIs ==
  ASSUME NEW row \in Chain, NEW jti
  PROVE  /\ JudgeRefresh(row, jti) = "rotate" => jti = row.current
         /\ JudgeRefresh(row, jti) = "grace" => jti = row.previous /\ ~ row.graceUsed
         /\ JudgeRefresh(row, jti) # "unknown"
<1>1. row # None
  BY NamesAssumption
<1> QED BY <1>1 DEF JudgeRefresh

Rotates(r) == UNCHANGED <<rowVars, tokens, purging, admin>> /\ Moved(r)

\* The request got an answer: it will sign with this token id.
Answered(r, jti) ==
    /\ req'[r].stage = "sign" /\ req'[r].jti = jti /\ jti \in Jtis
    /\ req'[r].tok = req[r].tok /\ req'[r].row = req[r].row

LEMMA Answers ==
  ASSUME AccessInv, NEW r \in Reqs, req[r].stage = "rotate", NEW jti \in Jtis,
         req' = [req EXCEPT ![r] = [req[r] EXCEPT !.stage = "sign", !.jti = jti]]
  PROVE  Moved(r) /\ Answered(r, jti)
<1> DEFINE new == [req[r] EXCEPT !.stage = "sign", !.jti = jti]
<1>1. req[r] \in Request
  BY Held
<1>2. new \in Request /\ new.stage = "sign" /\ new.jti = jti /\ new.tok = req[r].tok /\ new.row = req[r].row
  BY <1>1 DEF Request
<1>3. req' = [req EXCEPT ![r] = new]
  OBVIOUS
<1> HIDE DEF new
<1> QED BY <1>2, <1>3, Moves DEF AccessInv, Answered

\* The chain of f was replaced by new; the others stand.
Rechained(f, new) ==
    /\ chains' \in [Jtis -> Chain \cup {None}] /\ chains'[f] = new /\ new \in Chain /\ new # None
    /\ \A g \in Jtis \ {f} : chains'[g] = chains[g]
\* The count of token j is now this, the others' stand.
Counted(j, rotated, graced) ==
    /\ answers' \in [Jtis -> [rotated : Nat, graced : Nat]]
    /\ answers'[j].rotated = rotated /\ answers'[j].graced = graced
    /\ \A k \in Jtis \ {j} : answers'[k] = answers[k]

LEMMA CountsRotated ==
  ASSUME AccessInv, NEW k \in Jtis, answers' = [answers EXCEPT ![k] = [answers[k] EXCEPT !.rotated = @ + 1]]
  PROVE  Counted(k, answers[k].rotated + 1, answers[k].graced)
<1>1. answers \in [Jtis -> [rotated : Nat, graced : Nat]]
  BY DEF AccessInv, TypeOK
<1>2. PICK a \in [rotated : Nat, graced : Nat] : a = answers[k]
  BY <1>1
<1>3. PICK b : b = [rotated |-> a.rotated + 1, graced |-> a.graced]
  OBVIOUS
<1>6. b \in [rotated : Nat, graced : Nat]
  BY <1>2, <1>3
<1>4. [answers[k] EXCEPT !.rotated = @ + 1] = b
  BY <1>2, <1>3
<1>5. answers' = [answers EXCEPT ![k] = b]
  BY <1>4
<1> QED BY <1>1, <1>2, <1>3, <1>5, <1>6 DEF Counted

LEMMA CountsGraced ==
  ASSUME AccessInv, NEW k \in Jtis, answers' = [answers EXCEPT ![k] = [answers[k] EXCEPT !.graced = @ + 1]]
  PROVE  Counted(k, answers[k].rotated, answers[k].graced + 1)
<1>1. answers \in [Jtis -> [rotated : Nat, graced : Nat]]
  BY DEF AccessInv, TypeOK
<1>2. PICK a \in [rotated : Nat, graced : Nat] : a = answers[k]
  BY <1>1
<1>3. PICK b : b = [rotated |-> a.rotated, graced |-> a.graced + 1]
  OBVIOUS
<1>6. b \in [rotated : Nat, graced : Nat]
  BY <1>2, <1>3
<1>4. [answers[k] EXCEPT !.graced = @ + 1] = b
  BY <1>2, <1>3
<1>5. answers' = [answers EXCEPT ![k] = b]
  BY <1>4
<1> QED BY <1>1, <1>2, <1>3, <1>5, <1>6 DEF Counted

LEMMA CreateFacts ==
  ASSUME AccessInv, NEW r \in Reqs, RotateRefreshChain(r), CreateChain(r, req[r].tok)
  PROVE  /\ Rotates(r) /\ req[r].stage = "rotate" /\ req[r].tok.fid = None
         /\ jtis' = jtis + 1 /\ Answered(r, jtis + 1) /\ chains[req[r].tok.jti] = None
         /\ Counted(req[r].tok.jti, answers[req[r].tok.jti].rotated + 1, answers[req[r].tok.jti].graced)
         /\ chains' \in [Jtis -> Chain \cup {None}]
         /\ \E new \in Chain :
               /\ chains'[req[r].tok.jti] = new /\ new # None
               /\ new.current = jtis + 1 /\ new.previous = req[r].tok.jti
               /\ new.expires = req[r].tok.exp
         /\ \A g \in Jtis \ {req[r].tok.jti} :
               chains'[g] = chains[g] \/ (chains'[g] = None /\ chains[g] # None /\ DeadChain(chains[g]))
<1> DEFINE t == req[r].tok
           new == [current |-> jtis + 1, previous |-> t.jti, rotated |-> now,
                   graceUsed |-> FALSE, revoked |-> FALSE, expires |-> t.exp]
<1>1. req[r].stage = "rotate" /\ UNCHANGED <<rowVars, tokens, purging, admin>>
  BY DEF RotateRefreshChain, rowVars
<1>2. /\ t \in Token /\ jtis + 1 \in Jtis /\ jtis \in Nat /\ now \in Nat /\ chains \in [Jtis -> Chain \cup {None}]
      /\ answers \in [Jtis -> [rotated : Nat, graced : Nat]]
  BY <1>1, Held, RoomForOne, LivesAssumption DEF AccessInv, TypeOK, Drew
<1>3. t.jti \in Jtis /\ t.exp \in Nat
  BY <1>2 DEF Token, Time
<1>4. t.fid = None /\ FamilyId(t) = t.jti
  BY DEF CreateChain, FamilyId
<1>5. new \in Chain /\ new.current = jtis + 1 /\ new.previous = t.jti /\ new.expires = t.exp
  BY <1>2, <1>3 DEF Chain, Time
<1>6. new # None
  BY <1>5, NamesAssumption
<1>7. /\ chains[t.jti] = None /\ jtis' = jtis + 1
      /\ chains' = [f \in Jtis |-> IF f = t.jti THEN new ELSE IF DeadChain(chains[f]) THEN None ELSE chains[f]]
      /\ answers' = [answers EXCEPT ![t.jti] = [answers[t.jti] EXCEPT !.rotated = @ + 1]]
      /\ req' = [req EXCEPT ![r] = [req[r] EXCEPT !.stage = "sign", !.jti = jtis + 1]]
  BY <1>4 DEF CreateChain
<1> HIDE DEF t, new
<1>8. /\ chains' \in [Jtis -> Chain \cup {None}] /\ chains'[t.jti] = new
      /\ \A g \in Jtis \ {t.jti} : chains'[g] = IF DeadChain(chains[g]) THEN None ELSE chains[g]
  BY <1>2, <1>3, <1>5, <1>7
<1>9. \A g \in Jtis \ {t.jti} :
         chains'[g] = chains[g] \/ (chains'[g] = None /\ chains[g] # None /\ DeadChain(chains[g]))
  BY <1>8 DEF DeadChain
<1>10. Counted(t.jti, answers[t.jti].rotated + 1, answers[t.jti].graced)
  BY <1>3, <1>7, CountsRotated
<1>11. Moved(r) /\ Answered(r, jtis + 1)
  BY <1>1, <1>2, <1>7, Answers
<1> QED BY <1>1, <1>4, <1>5, <1>6, <1>7, <1>8, <1>9, <1>10, <1>11 DEF Rotates, t

LEMMA JudgeFacts ==
  ASSUME AccessInv, NEW r \in Reqs, RotateRefreshChain(r), JudgeChain(r, req[r].tok),
         NEW t \in Token, t = req[r].tok, NEW f \in Jtis, f = FamilyId(t)
  PROVE  /\ Rotates(r) /\ req[r].stage = "rotate"
         /\ \/ /\ chains[f] # None /\ t.jti = chains[f].current /\ jtis' = jtis + 1
               /\ Answered(r, jtis + 1)
               /\ Counted(t.jti, answers[t.jti].rotated + 1, answers[t.jti].graced)
               /\ \E new \in Chain : /\ Rechained(f, new) /\ new.current = jtis + 1
                                     /\ new.previous = t.jti /\ new.expires = chains[f].expires
            \/ /\ chains[f] # None /\ t.jti = chains[f].previous /\ ~ chains[f].graceUsed
               /\ UNCHANGED jtis /\ Answered(r, chains[f].current)
               /\ Counted(t.jti, answers[t.jti].rotated, answers[t.jti].graced + 1)
               /\ \E new \in Chain : /\ Rechained(f, new) /\ new.current = chains[f].current
                                     /\ new.previous = t.jti /\ new.expires = chains[f].expires
                                     /\ new.graceUsed
            \/ /\ chains[f] # None /\ UNCHANGED <<jtis, answers>> /\ req'[r].stage = "done"
               /\ \E new \in Chain : /\ Rechained(f, new) /\ new.current = chains[f].current
                                     /\ new.previous = chains[f].previous /\ new.expires = chains[f].expires
                                     /\ new.graceUsed = chains[f].graceUsed
            \/ UNCHANGED <<jtis, chains, answers>> /\ req'[r].stage = "done"
<1> DEFINE row == chains[f]
           verdict == JudgeRefresh(row, t.jti)
<1>1. req[r].stage = "rotate" /\ UNCHANGED <<rowVars, tokens, purging, admin>>
  BY DEF RotateRefreshChain, rowVars
<1>2. /\ jtis + 1 \in Jtis /\ jtis \in Nat /\ now \in Nat /\ chains \in [Jtis -> Chain \cup {None}]
      /\ answers \in [Jtis -> [rotated : Nat, graced : Nat]] /\ t.jti \in Jtis
  BY <1>1, RoomForOne, LivesAssumption DEF AccessInv, TypeOK, Drew, Token
<1>3. ASSUME row = None PROVE verdict = "unknown"
  BY <1>3 DEF JudgeRefresh
<1>4. ASSUME verdict # "unknown"
      PROVE  /\ row # None /\ row \in Chain
             /\ verdict = "rotate" => t.jti = row.current
             /\ verdict = "grace" => t.jti = row.previous /\ ~ row.graceUsed
  <2>1. row # None /\ row \in Chain
    BY <1>2, <1>3, <1>4
  <2> QED BY <2>1, VerdictIs
<1>5. CASE verdict = "rotate"
  <2> DEFINE new == [row EXCEPT !.previous = row.current, !.current = jtis + 1, !.rotated = now,
                                !.graceUsed = FALSE]
  <2>1. /\ jtis' = jtis + 1 /\ chains' = [chains EXCEPT ![f] = new]
        /\ answers' = [answers EXCEPT ![t.jti] = [answers[t.jti] EXCEPT !.rotated = @ + 1]]
        /\ req' = [req EXCEPT ![r] = [req[r] EXCEPT !.stage = "sign", !.jti = jtis + 1]]
    BY <1>5 DEF JudgeChain
  <2>2. new \in Chain /\ new.current = jtis + 1 /\ new.previous = t.jti /\ new.expires = row.expires
    BY <1>2, <1>4, <1>5 DEF Chain, Time
  <2>3. new # None
    BY <2>2, NamesAssumption
  <2> HIDE DEF new
  <2>4. Rechained(f, new)
    BY <1>2, <2>1, <2>2, <2>3 DEF Rechained
  <2>5. Counted(t.jti, answers[t.jti].rotated + 1, answers[t.jti].graced)
    BY <1>2, <2>1, CountsRotated
  <2>6. Moved(r) /\ Answered(r, jtis + 1)
    BY <1>1, <1>2, <2>1, Answers
  <2> QED BY <1>1, <1>4, <1>5, <2>1, <2>2, <2>4, <2>5, <2>6 DEF Rotates
<1>6. CASE verdict = "grace"
  <2> DEFINE new == [row EXCEPT !.graceUsed = TRUE]
  <2>1. /\ UNCHANGED jtis /\ chains' = [chains EXCEPT ![f] = new]
        /\ answers' = [answers EXCEPT ![t.jti] = [answers[t.jti] EXCEPT !.graced = @ + 1]]
        /\ req' = [req EXCEPT ![r] = [req[r] EXCEPT !.stage = "sign", !.jti = row.current]]
    BY <1>6 DEF JudgeChain
  <2>2. /\ new \in Chain /\ new.current = row.current /\ new.previous = t.jti /\ new.expires = row.expires
        /\ new.graceUsed /\ row.current \in Jtis
    BY <1>4, <1>6 DEF Chain
  <2>3. new # None
    BY <2>2, NamesAssumption
  <2> HIDE DEF new
  <2>4. Rechained(f, new)
    BY <1>2, <2>1, <2>2, <2>3 DEF Rechained
  <2>5. Counted(t.jti, answers[t.jti].rotated, answers[t.jti].graced + 1)
    BY <1>2, <2>1, CountsGraced
  <2>6. Moved(r) /\ Answered(r, row.current)
    BY <1>1, <2>1, <2>2, Answers
  <2> QED BY <1>1, <1>4, <1>6, <2>1, <2>2, <2>4, <2>5, <2>6 DEF Rotates
<1>7. CASE verdict = "reused"
  <2> DEFINE new == [row EXCEPT !.revoked = TRUE]
  <2>1. /\ UNCHANGED <<jtis, answers>> /\ chains' = [chains EXCEPT ![f] = new]
        /\ req' = [req EXCEPT ![r] = Done]
    BY <1>7 DEF JudgeChain, Refuse
  <2>2. /\ new \in Chain /\ new.current = row.current /\ new.previous = row.previous
        /\ new.expires = row.expires /\ new.graceUsed = row.graceUsed
    BY <1>4, <1>7 DEF Chain
  <2>3. new # None
    BY <2>2, NamesAssumption
  <2> HIDE DEF new
  <2>4. Rechained(f, new)
    BY <1>2, <2>1, <2>2, <2>3 DEF Rechained
  <2>5. Moved(r) /\ req'[r].stage = "done"
    BY <2>1, Moves, IdleTyped DEF AccessInv
  <2> QED BY <1>1, <1>4, <1>7, <2>1, <2>2, <2>4, <2>5 DEF Rotates
<1>8. CASE verdict \in {"revoked", "unknown"}
  <2>1. UNCHANGED <<jtis, chains, answers>> /\ req' = [req EXCEPT ![r] = Done]
    BY <1>8 DEF JudgeChain, Refuse
  <2>2. Moved(r) /\ req'[r].stage = "done"
    BY <2>1, Moves, IdleTyped DEF AccessInv
  <2> QED BY <1>1, <2>1, <2>2 DEF Rotates
<1>9. verdict \in {"rotate", "grace", "reused", "revoked", "unknown"}
  BY DEF JudgeRefresh
<1> QED BY <1>5, <1>6, <1>7, <1>8, <1>9

-----------------------------------------------------------------------------
(* A stopped shop *)

LEMMA StatusTypes ==
  ASSUME AccessInv
  PROVE  /\ now \in Nat /\ {StatusTtl, Slow} \subseteq Nat
         /\ tenant.status \in Status \cup {None} /\ tenant.stopped \in Nat \cup {None}
         /\ cached # None => cached \in StatusKey /\ cached.until \in Nat
         /\ \A r \in Reqs : req[r] \in Request /\ req[r].at \in Nat \cup {None} /\ req[r].lag \in Int
BY LivesAssumption DEF AccessInv, TypeOK, StatusKey, Request, Moment, Time

\* Steps that concern no guard.
LEMMA StatusFrame ==
  ASSUME AccessInv, NEW r \in Reqs, Moved(r), UNCHANGED <<now, tenant, cached>>,
         req'[r].stage \notin {"set", "in"}
  PROVE  StatusInv'
<1>1. \A q \in Reqs : StatusRequest(q)'
  BY DEF AccessInv, StatusInv, StatusRequest, Moved
<1>2. StoppedTrue' /\ CachedTrue'
  BY DEF AccessInv, StatusInv, StoppedTrue, CachedTrue
<1> QED BY <1>1, <1>2 DEF StatusInv

LEMMA GuardStatus ==
  ASSUME AccessInv, NEW r \in Reqs,
         \/ \E t \in tokens : GuardCached(r, t) \/ GuardRead(r, t)
         \/ GuardSet(r) \/ \E d \in Machines : GuardPush(r, d)
  PROVE  StatusInv'
<1>1. Moved(r) /\ UNCHANGED <<now, tenant>> /\ req'[r].stage \in {"in", "done", "set"}
  BY GuardFacts
<1>2. /\ StoppedTrue /\ CachedTrue /\ StatusRequest(r) /\ StoppedTrue'
      /\ \A q \in Reqs \ {r} : StatusRequest(q)'
  BY <1>1 DEF AccessInv, StatusInv, StatusRequest, StoppedTrue, Moved
<1>3. req'[r] \in Request
  BY <1>1 DEF Moved
<1>4. CASE req'[r].stage = "set" /\ req'[r].at = now /\ req'[r].status = tenant.status /\ UNCHANGED cached
  <2>1. StatusRequest(r)'
    BY <1>1, <1>2, <1>4, StatusTypes, NamesAssumption DEF StatusRequest, StoppedTrue
  <2>2. CachedTrue'
    BY <1>1, <1>2, <1>4 DEF CachedTrue
  <2> QED BY <1>2, <2>1, <2>2 DEF StatusInv
<1>5. CASE /\ req'[r].stage = "in" => cached # None /\ cached.until > now /\ cached.status = "active"
                                      /\ req'[r].lag = Lag
           /\ req'[r].stage # "set" /\ UNCHANGED cached
  <2>1. ASSUME req'[r].stage = "in" PROVE req'[r].lag <= StatusTtl + Slow
    <3>1. CASE tenant.stopped = None
      BY <1>5, <2>1, <3>1, StatusTypes DEF Lag
    <3>2. CASE tenant.stopped # None
      <4>1. cached.until <= tenant.stopped + Slow + StatusTtl /\ cached.until > now /\ cached # None
        BY <1>2, <1>5, <2>1, <3>2 DEF CachedTrue
      <4>2. req'[r].lag = now - tenant.stopped
        BY <1>5, <2>1, <3>2 DEF Lag
      <4> QED BY <3>2, <4>1, <4>2, StatusTypes
    <3> QED BY <3>1, <3>2
  <2>2. StatusRequest(r)'
    BY <1>5, <2>1 DEF StatusRequest
  <2>3. CachedTrue'
    BY <1>1, <1>2, <1>5 DEF CachedTrue
  <2> QED BY <1>2, <2>2, <2>3 DEF StatusInv
<1>6. CASE /\ req[r].stage = "set" /\ req'[r].stage # "set"
           /\ req'[r].stage = "in" => req[r].status = "active" /\ req'[r].lag = Lag
           /\ cached' = cached \/ cached' = [status |-> req[r].status, until |-> StatusUntil]
  <2>0. /\ req[r].at \in Nat /\ now <= req[r].at + Slow
        /\ req[r].status = "active" /\ tenant.stopped # None => req[r].at <= tenant.stopped
    BY <1>2, <1>6, StatusTypes DEF StatusRequest
  <2>1. ASSUME req'[r].stage = "in" PROVE req'[r].lag <= StatusTtl + Slow
    <3>1. CASE tenant.stopped = None
      BY <1>6, <2>1, <3>1, StatusTypes DEF Lag
    <3>2. CASE tenant.stopped # None
      <4>1. req'[r].lag = now - tenant.stopped /\ req[r].at <= tenant.stopped
        BY <1>6, <2>0, <2>1, <3>2 DEF Lag
      <4> QED BY <2>0, <3>2, <4>1, StatusTypes
    <3> QED BY <3>1, <3>2
  <2>2. StatusRequest(r)'
    BY <1>6, <2>1 DEF StatusRequest
  <2>3. CASE cached' = cached
    BY <1>1, <1>2, <2>2, <2>3 DEF CachedTrue, StatusInv
  <2>4. CASE cached' = [status |-> req[r].status, until |-> StatusUntil]
    <3>1. cached'.until = now + StatusTtl /\ cached'.status = req[r].status
      BY <2>4 DEF StatusUntil
    <3>2. CachedTrue'
      BY <1>1, <2>0, <3>1, StatusTypes DEF CachedTrue
    <3> QED BY <1>2, <2>2, <3>2 DEF StatusInv
  <2> QED BY <1>6, <2>3, <2>4
<1>7. CASE req'[r].stage = "in" /\ req'[r].lag = 0 /\ tenant.status = "active" /\ UNCHANGED cached
  <2>1. StatusRequest(r)'
    BY <1>7, StatusTypes DEF StatusRequest
  <2>2. CachedTrue'
    BY <1>1, <1>2, <1>7 DEF CachedTrue
  <2> QED BY <1>2, <2>1, <2>2 DEF StatusInv
<1> QED BY <1>4, <1>5, <1>6, <1>7, GuardFacts

\* updateStatus: what is cached, or was read and not cached yet, is no younger than the stop.
LEMMA UpdateStatusKeeps ==
  ASSUME AccessInv, NEW status \in Status, UpdateStatus(status)
  PROVE  StatusInv'
<1>1. /\ tenant.status \notin {None, "closed"} /\ UNCHANGED <<now, cached, req>>
      /\ tenant'.status = status
      /\ tenant'.stopped = IF status = "active" THEN None
                           ELSE IF tenant.status = "active" THEN now ELSE tenant.stopped
  BY DEF UpdateStatus, MayLeave
<1>2. StoppedTrue /\ CachedTrue /\ \A q \in Reqs : StatusRequest(q)
  BY DEF AccessInv, StatusInv
<1>3. status # None
  BY NamesAssumption
<1>4. CASE status = "active"
  BY <1>1, <1>2, <1>3, <1>4 DEF StatusInv, StoppedTrue, CachedTrue, StatusRequest
<1>5. CASE status # "active" /\ tenant.status = "active"
  <2>1. tenant'.stopped = now
    BY <1>1, <1>5
  <2>0. now # None /\ now' = now /\ now <= now
    BY <1>1, StatusTypes, NamesAssumption
  <2>2. StoppedTrue'
    BY <1>1, <1>5, <2>0, <2>1 DEF StoppedTrue
  <2>3. CachedTrue'
    BY <1>1, <1>2, <2>1, StatusTypes DEF CachedTrue
  <2>4. \A q \in Reqs : StatusRequest(q)'
    BY <1>1, <1>2, <2>1 DEF StatusRequest
  <2> QED BY <2>2, <2>3, <2>4 DEF StatusInv
<1>6. CASE status # "active" /\ tenant.status # "active"
  <2>1. tenant'.stopped = tenant.stopped /\ tenant.stopped # None
    BY <1>1, <1>2, <1>6 DEF StoppedTrue
  <2> QED BY <1>1, <1>2, <1>6, <2>1 DEF StatusInv, StoppedTrue, CachedTrue, StatusRequest
<1> QED BY <1>4, <1>5, <1>6

LEMMA CreateTenantStatus ==
  ASSUME AccessInv, NEW d \in Machines, CreateTenant(d)
  PROVE  StatusInv'
<1>1. tenant'.status = "active" /\ tenant'.stopped = None /\ UNCHANGED <<now, cached, req>>
  BY DEF CreateTenant
<1>2. CachedTrue /\ \A q \in Reqs : StatusRequest(q)
  BY DEF AccessInv, StatusInv
<1> QED BY <1>1, <1>2 DEF StatusInv, StoppedTrue, CachedTrue, StatusRequest

\* A second: a guard that read the status is no slower than Slow.
LEMMA TickStatus ==
  ASSUME AccessInv, Tick
  PROVE  StatusInv'
<1>1. /\ now' = now + 1 /\ UNCHANGED <<tenant, cached, req>>
      /\ \A q \in Reqs : req[q].stage = "set" => now - req[q].at < Slow
  BY DEF Tick
<1>2. StoppedTrue /\ CachedTrue /\ \A q \in Reqs : StatusRequest(q)
  BY DEF AccessInv, StatusInv
<1>3. StoppedTrue' /\ CachedTrue'
  BY <1>1, <1>2, StatusTypes DEF StoppedTrue, CachedTrue
<1>4. \A q \in Reqs : StatusRequest(q)'
  BY <1>1, <1>2, StatusTypes DEF StatusRequest
<1> QED BY <1>3, <1>4 DEF StatusInv

\* Steps of the platform that change no status; the purge may drop the cached one.
LEMMA QuietStatus ==
  ASSUME AccessInv, UNCHANGED <<now, tenant, req>>, cached' \in {cached, None}
  PROVE  StatusInv'
BY DEF AccessInv, StatusInv, StoppedTrue, CachedTrue, StatusRequest

-----------------------------------------------------------------------------
(* The chains *)

LEMMA JtisAreNumbers == Jtis \subseteq Nat /\ None \notin Jtis
<1>1. Cardinality(Reqs) \in Nat
  BY NamesAssumption, FS_CardinalityType
<1>2. Jtis \subseteq Nat
  BY <1>1 DEF Jtis
<1>3. None \notin Int
  BY NamesAssumption
<1>4. None \notin Nat
  BY <1>3
<1> QED BY <1>2, <1>4

LEMMA ChainTypes ==
  ASSUME AccessInv
  PROVE  /\ now \in Nat /\ jtis \in Nat /\ {Skew, Slow, Keep} \subseteq Nat /\ Skew + Slow <= Keep
         /\ chains \in [Jtis -> Chain \cup {None}] /\ answers \in [Jtis -> [rotated : Nat, graced : Nat]]
         /\ \A f \in Jtis : chains[f] # None =>
               /\ chains[f] \in Chain /\ chains[f].current \in Jtis /\ chains[f].previous \in Jtis
               /\ chains[f].expires \in Nat
         /\ \A t \in tokens : /\ t \in Token /\ t.jti \in Jtis /\ FamilyId(t) \in Jtis /\ t.exp \in Nat
                              /\ t.fid = None => FamilyId(t) = t.jti
                              /\ t.fid # None => FamilyId(t) = t.fid
         /\ \A r \in Reqs : req[r] \in Request /\ req[r].at \in Nat \cup {None} /\ req[r].jti \in Jtis \cup {None}
<1>1. now \in Nat /\ jtis \in Nat /\ {Skew, Slow, Keep} \subseteq Nat /\ Skew + Slow <= Keep
  BY LivesAssumption, JtisAreNumbers DEF AccessInv, TypeOK
<1>2. chains \in [Jtis -> Chain \cup {None}] /\ answers \in [Jtis -> [rotated : Nat, graced : Nat]]
  BY DEF AccessInv, TypeOK
<1>3. \A f \in Jtis : chains[f] # None =>
         /\ chains[f] \in Chain /\ chains[f].current \in Jtis /\ chains[f].previous \in Jtis
         /\ chains[f].expires \in Nat
  BY <1>2 DEF Chain, Time
<1>4. \A t \in tokens : t \in Token
  BY DEF AccessInv, TypeOK
<1>5. ASSUME NEW t \in Token
      PROVE  /\ t.jti \in Jtis /\ FamilyId(t) \in Jtis /\ t.exp \in Nat
             /\ t.fid = None => FamilyId(t) = t.jti
             /\ t.fid # None => FamilyId(t) = t.fid
  BY DEF Token, FamilyId, Time
<1>6. \A r \in Reqs : req[r] \in Request /\ req[r].at \in Nat \cup {None} /\ req[r].jti \in Jtis \cup {None}
  BY DEF AccessInv, TypeOK, Request, Moment, Time
<1> QED BY <1>1, <1>2, <1>3, <1>4, <1>5, <1>6

\* One more answer for a token that was drawn.
LEMMA SpentOnce ==
  ASSUME AccessInv, jtis' = jtis \/ jtis' = jtis + 1, NEW k \in Jtis, k <= jtis,
         answers'[k].rotated = 1, answers'[k].graced \in {0, 1}, \A j \in Jtis \ {k} : answers'[j] = answers[j]
  PROVE  Spent'
<1>1. Spent /\ jtis \in Nat /\ k \in Nat
  BY ChainTypes, JtisAreNumbers DEF AccessInv, ChainInv
<1>2. ASSUME NEW j \in Jtis, j > jtis' PROVE j > jtis /\ j # k
  BY <1>1, <1>2, JtisAreNumbers
<1>3. ASSUME NEW j \in Jtis, j # k
      PROVE  /\ answers'[j].rotated <= 1 /\ answers'[j].graced <= 1
             /\ answers'[j].graced > 0 => answers'[j].rotated = 1
             /\ j > jtis' => answers'[j].rotated = 0
  BY <1>1, <1>2, <1>3 DEF Spent
<1>4. /\ answers'[k].rotated <= 1 /\ answers'[k].graced <= 1
      /\ answers'[k].graced > 0 => answers'[k].rotated = 1
      /\ ~ (k > jtis')
  BY <1>2
<1> QED BY <1>3, <1>4 DEF Spent

\* Steps that leave the chains, the tokens and the clock alone.
LEMMA ChainFrame ==
  ASSUME AccessInv, UNCHANGED <<chainVars, now>>, \A q \in Reqs : req'[q] = req[q] \/ ChainRequest(q)'
  PROVE  ChainInv'
<1>1. UNCHANGED <<jtis, chains, answers, tokens, now>>
  BY DEF chainVars
<1>2. /\ OneExpiry /\ IdsDrawn /\ Spent /\ ChainsTrue /\ ChainsApart /\ RootsTrue /\ BranchesTrue
      /\ \A r \in Reqs : ChainRequest(r)
  BY DEF AccessInv, ChainInv
<1>3. OneExpiry' /\ IdsDrawn' /\ Spent'
  BY <1>1, <1>2 DEF OneExpiry, IdsDrawn, Spent
<1>4. ChainsTrue' /\ ChainsApart'
  BY <1>1, <1>2 DEF ChainsTrue, ChainsApart, ChainTrue
<1>5. RootsTrue' /\ BranchesTrue'
  BY <1>1, <1>2 DEF RootsTrue, RootTrue, BranchesTrue, Dead
<1>6. \A q \in Reqs : ChainRequest(q)'
  BY <1>1, <1>2 DEF ChainRequest, Dead
<1> QED BY <1>3, <1>4, <1>5, <1>6 DEF ChainInv

\* A second: the dead stay dead, and a refresh's transaction is no slower than Slow.
LEMMA TickChains ==
  ASSUME AccessInv, Tick
  PROVE  ChainInv'
<1>1. /\ now' = now + 1 /\ UNCHANGED <<jtis, chains, answers, tokens, req>>
      /\ \A q \in Reqs : req[q].stage = "rotate" => now - req[q].at < Slow
  BY DEF Tick
<1>2. /\ OneExpiry /\ IdsDrawn /\ Spent /\ ChainsTrue /\ ChainsApart /\ RootsTrue /\ BranchesTrue
      /\ \A r \in Reqs : ChainRequest(r)
  BY DEF AccessInv, ChainInv
<1>3. OneExpiry' /\ IdsDrawn' /\ Spent'
  BY <1>1, <1>2 DEF OneExpiry, IdsDrawn, Spent
<1>4. ChainsTrue' /\ ChainsApart'
  BY <1>1, <1>2 DEF ChainsTrue, ChainsApart, ChainTrue
<1>5. \A t \in tokens : Dead(t) => Dead(t)'
  BY <1>1, ChainTypes DEF Dead
<1>6. RootsTrue' /\ BranchesTrue'
  BY <1>1, <1>2, <1>5 DEF RootsTrue, RootTrue, BranchesTrue
<1>7. ASSUME NEW q \in Reqs PROVE ChainRequest(q)'
  <2>1. ChainRequest(q)
    BY <1>2
  <2>2. req[q].stage = "rotate" => now' <= req[q].at + Slow /\ req[q].at <= now'
    BY <1>1, <2>1, ChainTypes DEF ChainRequest
  <2>3. PICK u : u = req[q].tok
    OBVIOUS
  <2>4. req[q].stage = "sign" => chains[FamilyId(u)] # None \/ Dead(u)'
    BY <1>5, <2>1, <2>3 DEF ChainRequest
  <2>5. req[q].stage = "sign" => chains'[FamilyId(req'[q].tok)] # None \/ Dead(req[q].tok)'
    BY <1>1, <2>3, <2>4
  <2> QED BY <1>1, <2>1, <2>2, <2>5 DEF ChainRequest
<1> QED BY <1>3, <1>4, <1>6, <1>7 DEF ChainInv

\* A login, and the owner's new password: a token in no chain yet.
LEMMA NewLoginChains ==
  ASSUME AccessInv, NEW r \in Reqs, NEW t \in Token, NewLogin(r, t), Moved(r), req'[r].stage = "done",
         UNCHANGED <<now, chains, answers>>
  PROVE  ChainInv'
<1>1. /\ tokens' = tokens \cup {t} /\ jtis' = jtis + 1 /\ t.jti = jtis + 1 /\ t.fid = None
      /\ FamilyId(t) = jtis + 1 /\ jtis + 1 \in Jtis
  BY DEF NewLogin, FamilyId, Token
<1>2. /\ OneExpiry /\ IdsDrawn /\ Spent /\ ChainsTrue /\ ChainsApart /\ RootsTrue /\ BranchesTrue
      /\ \A q \in Reqs : ChainRequest(q)
  BY DEF AccessInv, ChainInv
<1>3. ASSUME NEW u \in tokens PROVE u.jti < jtis + 1 /\ FamilyId(u) < jtis + 1
  <2>1. u.jti \in Nat /\ FamilyId(u) \in Nat /\ jtis \in Nat
    BY ChainTypes, JtisAreNumbers
  <2>2. u.jti <= jtis /\ FamilyId(u) <= jtis
    BY <1>2 DEF IdsDrawn
  <2> QED BY <2>1, <2>2
<1>4. OneExpiry'
  BY <1>1, <1>2, <1>3 DEF OneExpiry
<1>5. IdsDrawn'
  <2>1. jtis \in Nat /\ \A u \in tokens : u.jti <= jtis + 1 /\ FamilyId(u) <= jtis + 1
    <3>1. ASSUME NEW u \in tokens PROVE u.jti <= jtis + 1 /\ FamilyId(u) <= jtis + 1
      <4>1. u.jti \in Nat /\ FamilyId(u) \in Nat /\ jtis \in Nat
        BY ChainTypes, JtisAreNumbers
      <4> QED BY <1>3, <4>1
    <3> QED BY <3>1, ChainTypes
  <2>2. t.jti <= jtis + 1 /\ FamilyId(t) <= jtis + 1
    BY <1>1, <2>1
  <2> QED BY <1>1, <2>1, <2>2 DEF IdsDrawn
<1>6. Spent'
  BY <1>1, <1>2, ChainTypes, JtisAreNumbers DEF Spent
<1>7. ASSUME NEW f \in Jtis, chains[f] # None PROVE ChainTrue(f)' /\ chains[f].current # jtis + 1 /\ chains[f].previous # jtis + 1
  <2>1. ChainTrue(f) /\ chains[f].current \in Nat /\ chains[f].previous \in Nat /\ f \in Nat
    BY <1>2, <1>7, ChainTypes, JtisAreNumbers DEF ChainsTrue
  <2>2. f < jtis + 1 /\ chains[f].current < jtis + 1 /\ chains[f].previous < jtis + 1
    BY <2>1, ChainTypes DEF ChainTrue
  <2>3. \A u \in tokens' : FamilyId(u) = f => u.exp = chains[f].expires
    BY <1>1, <2>1, <2>2 DEF ChainTrue
  <2> QED BY <1>1, <2>1, <2>2, <2>3, ChainTypes DEF ChainTrue
<1>8. ChainsTrue' /\ ChainsApart'
  BY <1>2, <1>7 DEF ChainsTrue, ChainsApart
<1>9. RootTrue(t)'
  BY <1>1, <1>2, <1>7, ChainTypes DEF RootTrue, Spent
<1>10. RootsTrue' /\ BranchesTrue'
  BY <1>1, <1>2, <1>9 DEF RootsTrue, RootTrue, BranchesTrue, Dead
<1>11. \A q \in Reqs : ChainRequest(q)'
  <2>1. ASSUME NEW q \in Reqs \ {r} PROVE ChainRequest(q)'
    <3>1. req'[q] = req[q] /\ ChainRequest(q)
      BY <1>2 DEF Moved
    <3>2. req[q].stage = "sign" => req[q].jti <= jtis + 1
      <4>1. req[q].jti # None => req[q].jti \in Nat
        BY ChainTypes, JtisAreNumbers
      <4> QED BY <3>1, <4>1, ChainTypes DEF ChainRequest
    <3> QED BY <1>1, <3>1, <3>2 DEF ChainRequest, Dead
  <2> QED BY <2>1 DEF ChainRequest
<1> QED BY <1>4, <1>5, <1>6, <1>8, <1>10, <1>11 DEF ChainInv

\* A refresh signed: a token of a chain that stands, or one that was born dead.
LEMMA RefreshSignChains ==
  ASSUME AccessInv, NEW r \in Reqs, RefreshSign(r)
  PROVE  ChainInv'
<1>1. PICK u \in tokens : u = req[r].tok
  BY RefreshSignFacts
<1>2. PICK t \in Token :
         /\ tokens' = tokens \cup {t} /\ t.typ = "session" /\ t.jti = req[r].jti
         /\ t.fid = FamilyId(u) /\ t.exp = u.exp
  BY <1>1, RefreshSignFacts
<1>3. /\ Moved(r) /\ req[r].stage = "sign" /\ req'[r].stage = "done" /\ UNCHANGED <<now, chains, answers, jtis>>
  BY RefreshSignFacts DEF rowVars
<1>4. /\ OneExpiry /\ IdsDrawn /\ Spent /\ ChainsTrue /\ ChainsApart /\ RootsTrue /\ BranchesTrue
      /\ \A q \in Reqs : ChainRequest(q)
  BY DEF AccessInv, ChainInv
<1>5. t.fid # None /\ FamilyId(t) = FamilyId(u) /\ FamilyId(u) \in Jtis
  <2>1. FamilyId(u) \in Jtis /\ FamilyId(u) # None
    BY ChainTypes, JtisAreNumbers
  <2> QED BY <1>2, <2>1 DEF FamilyId
<1>6. t.jti <= jtis /\ (chains[FamilyId(u)] # None \/ Dead(u))
  BY <1>1, <1>2, <1>3, <1>4 DEF ChainRequest
<1>7. OneExpiry'
  BY <1>1, <1>2, <1>4, <1>5 DEF OneExpiry
<1>8. IdsDrawn' /\ Spent'
  BY <1>1, <1>2, <1>3, <1>4, <1>5, <1>6 DEF IdsDrawn, Spent
<1>9. ChainsTrue' /\ ChainsApart'
  <2>1. ASSUME NEW f \in Jtis, chains[f] # None PROVE ChainTrue(f)'
    <3>1. ChainTrue(f) /\ \A w \in tokens' : FamilyId(w) = f => w.exp = chains[f].expires
      BY <1>1, <1>2, <1>4, <1>5, <2>1 DEF ChainsTrue, ChainTrue
    <3> QED BY <1>3, <3>1 DEF ChainTrue
  <2> QED BY <1>3, <1>4, <2>1 DEF ChainsTrue, ChainsApart
<1>10. RootsTrue'
  BY <1>2, <1>3, <1>4, <1>5 DEF RootsTrue, RootTrue, Dead
<1>11. BranchesTrue'
  <2>1. chains[t.fid] # None \/ Dead(t)
    BY <1>2, <1>6 DEF Dead
  <2> QED BY <1>2, <1>3, <1>4, <2>1 DEF BranchesTrue, Dead
<1>12. \A q \in Reqs : ChainRequest(q)'
  <2>1. ASSUME NEW q \in Reqs \ {r} PROVE ChainRequest(q)'
    <3>1. req'[q] = req[q] /\ ChainRequest(q)
      BY <1>3, <1>4 DEF Moved
    <3> QED BY <1>2, <1>3, <3>1 DEF ChainRequest, Dead
  <2> QED BY <1>3, <2>1 DEF ChainRequest
<1> QED BY <1>7, <1>8, <1>9, <1>10, <1>11, <1>12 DEF ChainInv

\* The first refresh of a login's token: it has no chain because it never had one,
\* for a chain is dropped no sooner than its tokens are dead.
LEMMA CreateChains ==
  ASSUME AccessInv, NEW r \in Reqs, RotateRefreshChain(r), CreateChain(r, req[r].tok)
  PROVE  ChainInv'
<1>1. PICK t \in tokens : t = req[r].tok
  BY CreateFacts, Held
<1>2. /\ Rotates(r) /\ req[r].stage = "rotate" /\ t.fid = None /\ jtis' = jtis + 1 /\ Answered(r, jtis + 1)
      /\ chains[t.jti] = None /\ Counted(t.jti, answers[t.jti].rotated + 1, answers[t.jti].graced)
      /\ chains' \in [Jtis -> Chain \cup {None}]
      /\ \A g \in Jtis \ {t.jti} :
            chains'[g] = chains[g] \/ (chains'[g] = None /\ chains[g] # None /\ DeadChain(chains[g]))
  BY <1>1, CreateFacts
<1>3. PICK new \in Chain : /\ chains'[t.jti] = new /\ new # None /\ new.current = jtis + 1
                           /\ new.previous = t.jti /\ new.expires = t.exp
  BY <1>1, CreateFacts
<1>4. /\ OneExpiry /\ IdsDrawn /\ Spent /\ ChainsTrue /\ ChainsApart /\ RootsTrue /\ BranchesTrue
      /\ \A q \in Reqs : ChainRequest(q)
  BY DEF AccessInv, ChainInv
<1>5. Moved(r) /\ UNCHANGED <<now, tokens>>
  BY <1>2 DEF Rotates, rowVars
<1>6. /\ t.jti \in Jtis /\ t.jti \in Nat /\ jtis + 1 \in Jtis /\ jtis \in Nat /\ t.jti <= jtis
      /\ FamilyId(t) = t.jti /\ t.exp \in Nat /\ now \in Nat
  BY <1>2, <1>4, ChainTypes, JtisAreNumbers DEF IdsDrawn, Answered
<1>7. answers[t.jti].rotated = 0 /\ answers[t.jti].graced = 0
  <2>1. ~ Dead(t)
    <3>1. req[r].at \in Nat /\ now <= req[r].at + Slow /\ req[r].at < t.exp + Skew
      BY <1>1, <1>2, <1>4, ChainTypes DEF ChainRequest
    <3> QED BY <1>6, <3>1, ChainTypes DEF Dead
  <2>2. RootTrue(t)
    BY <1>2, <1>4 DEF RootsTrue
  <2>3. answers[t.jti].rotated \in Nat /\ answers[t.jti].graced \in Nat /\ ~ (answers[t.jti].rotated > 0)
    BY <1>2, <1>6, <2>1, <2>2, ChainTypes DEF RootTrue
  <2> QED BY <1>4, <1>6, <2>3 DEF Spent
<1>8. answers[jtis + 1].rotated = 0 /\ t.jti # jtis + 1
  BY <1>4, <1>6 DEF Spent
<1>9. answers'[t.jti].rotated = 1 /\ answers'[t.jti].graced = 0 /\ \A j \in Jtis \ {t.jti} : answers'[j] = answers[j]
  BY <1>2, <1>7 DEF Counted
<1>10. Spent'
  BY <1>2, <1>6, <1>9, SpentOnce
<1>11. OneExpiry' /\ IdsDrawn'
  <2>1. \A u \in tokens : u.jti <= jtis + 1 /\ FamilyId(u) <= jtis + 1
    <3>1. ASSUME NEW u \in tokens PROVE u.jti <= jtis + 1 /\ FamilyId(u) <= jtis + 1
      <4>1. u.jti \in Nat /\ FamilyId(u) \in Nat
        BY ChainTypes, JtisAreNumbers
      <4> QED BY <1>4, <1>6, <4>1 DEF IdsDrawn
    <3> QED BY <3>1
  <2> QED BY <1>2, <1>4, <1>5, <2>1 DEF OneExpiry, IdsDrawn
\* The other chains know nothing of the token.
<1>12. ASSUME NEW g \in Jtis, g # t.jti, chains[g] # None
       PROVE  /\ chains[g].current \in Nat /\ chains[g].previous \in Nat
              /\ chains[g].current <= jtis /\ chains[g].previous <= jtis
              /\ chains[g].current # t.jti /\ chains[g].previous # t.jti /\ Apart(chains[g], new) /\ Apart(new, chains[g])
  <2>1. ChainTrue(g) /\ RootTrue(t) /\ chains[g].current \in Nat /\ chains[g].previous \in Nat
    BY <1>2, <1>4, <1>12, ChainTypes, JtisAreNumbers DEF ChainsTrue, RootsTrue
  <2>2. chains[g].current <= jtis /\ chains[g].previous <= jtis
    BY <2>1 DEF ChainTrue
  <2>3. chains[g].current # t.jti /\ chains[g].previous # t.jti
    BY <1>12, <2>1 DEF RootTrue
  <2>4. chains[g].current # jtis + 1 /\ chains[g].previous # jtis + 1
    BY <1>6, <2>1, <2>2
  <2> QED BY <1>3, <2>1, <2>2, <2>3, <2>4 DEF Apart
<1>13. ChainTrue(t.jti)'
  <2>1. \A u \in tokens : FamilyId(u) = t.jti => u.exp = t.exp
    BY <1>4, <1>6 DEF OneExpiry
  <2> QED BY <1>2, <1>3, <1>5, <1>6, <1>8, <1>9, <2>1 DEF ChainTrue
<1>14. ASSUME NEW g \in Jtis, g # t.jti, chains'[g] # None
       PROVE  chains'[g] = chains[g] /\ ChainTrue(g)'
  <2>1. chains'[g] = chains[g] /\ chains[g] # None
    BY <1>2, <1>14
  <2>2. ChainTrue(g) /\ chains[g].current \in Jtis /\ chains[g].previous \in Jtis /\ g \in Nat
    BY <1>4, <2>1, ChainTypes, JtisAreNumbers DEF ChainsTrue
  <2>3. /\ answers'[chains[g].current] = answers[chains[g].current]
        /\ answers'[chains[g].previous] = answers[chains[g].previous]
    BY <1>9, <1>12, <1>14, <2>1, <2>2
  <2>4. g <= jtis + 1 /\ chains[g].current <= jtis + 1 /\ chains[g].previous <= jtis + 1
    BY <1>6, <1>12, <1>14, <2>1, <2>2 DEF ChainTrue
  <2> QED BY <1>2, <1>5, <2>1, <2>2, <2>3, <2>4 DEF ChainTrue
<1>15. ChainsTrue'
  BY <1>13, <1>14 DEF ChainsTrue
<1>16. ChainsApart'
  BY <1>2, <1>3, <1>4, <1>12, <1>14 DEF ChainsApart
\* A chain that was dropped had only dead tokens.
<1>17. ASSUME NEW u \in tokens, chains[FamilyId(u)] # None \/ Dead(u)
       PROVE  chains'[FamilyId(u)] # None \/ Dead(u)
  <2>0. PICK f \in Jtis : f = FamilyId(u)
    BY ChainTypes
  <2>1. CASE f = t.jti
    BY <1>3, <2>0, <2>1
  <2>2. CASE f # t.jti /\ chains'[f] = chains[f]
    BY <1>17, <2>0, <2>2
  <2>3. CASE f # t.jti /\ chains[f] # None /\ DeadChain(chains[f])
    <3>1. u.exp = chains[f].expires
      BY <1>4, <2>0, <2>3 DEF ChainsTrue, ChainTrue
    <3> QED BY <2>3, <3>1 DEF DeadChain, Dead
  <2> QED BY <1>2, <2>0, <2>1, <2>2, <2>3
<1>18. RootsTrue'
  <2> SUFFICES ASSUME NEW u \in tokens, u.fid = None PROVE RootTrue(u)'
    BY <1>5 DEF RootsTrue
  <2>1. RootTrue(u) /\ u.jti \in Jtis /\ u.jti \in Nat /\ u.jti <= jtis /\ FamilyId(u) = u.jti
    BY <1>4, ChainTypes, JtisAreNumbers DEF RootsTrue, IdsDrawn
  <2>2. \A g \in Jtis : chains'[g] # None =>
           chains'[g].current # u.jti /\ (chains'[g].previous = u.jti => g = u.jti)
    <3>1. ASSUME NEW g \in Jtis, g # t.jti, chains'[g] # None
          PROVE  chains'[g].current # u.jti /\ (chains'[g].previous = u.jti => g = u.jti)
      BY <1>14, <2>1, <3>1 DEF RootTrue
    <3>2. new.current # u.jti /\ (new.previous = u.jti => t.jti = u.jti)
      BY <1>3, <1>6, <2>1
    <3> QED BY <1>3, <3>1, <3>2
  <2>3. answers'[u.jti].rotated > 0 => chains'[u.jti] # None \/ Dead(u)
    <3>1. CASE u.jti = t.jti
      BY <1>3, <3>1
    <3>2. CASE u.jti # t.jti
      <4>1. answers'[u.jti].rotated > 0 => chains[u.jti] # None \/ Dead(u)
        BY <1>9, <2>1, <3>2 DEF RootTrue
      <4> QED BY <1>17, <2>1, <4>1
    <3> QED BY <3>1, <3>2
  <2> QED BY <1>5, <2>2, <2>3 DEF RootTrue, Dead
<1>19. BranchesTrue'
  <2>1. \A u \in tokens : u.fid # None => chains'[u.fid] # None \/ Dead(u)
    BY <1>4, <1>17, ChainTypes DEF BranchesTrue
  <2> QED BY <1>5, <2>1 DEF BranchesTrue, Dead
<1>20. ChainRequest(r)'
  <2>1. req'[r].stage = "sign" /\ req'[r].jti = jtis + 1 /\ req'[r].tok = t /\ t.typ = "session"
    BY <1>1, <1>2, <1>4 DEF Answered, ChainRequest
  <2>2. jtis + 1 # None
    BY <1>6, JtisAreNumbers
  <2> QED BY <1>2, <1>3, <1>5, <1>6, <2>1, <2>2 DEF ChainRequest
<1>21. ASSUME NEW q \in Reqs \ {r} PROVE ChainRequest(q)'
  <2>1. req'[q] = req[q] /\ ChainRequest(q)
    BY <1>4, <1>5 DEF Moved
  <2>2. CASE req[q].stage = "sign"
    <3>1. PICK u \in tokens : u = req[q].tok
      BY <2>1, <2>2 DEF ChainRequest
    <3>2. chains'[FamilyId(u)] # None \/ Dead(u)
      BY <1>17, <2>1, <2>2, <3>1 DEF ChainRequest
    <3>3. req[q].jti # None /\ req[q].jti <= jtis + 1 /\ req[q].tok.typ = "session"
      <4>1. req[q].jti # None => req[q].jti \in Nat
        BY ChainTypes, JtisAreNumbers
      <4> QED BY <1>6, <2>1, <2>2, <4>1 DEF ChainRequest
    <3> QED BY <1>2, <1>5, <2>1, <2>2, <3>1, <3>2, <3>3 DEF ChainRequest, Dead
  <2>3. CASE req[q].stage # "sign"
    BY <1>5, <2>1, <2>3 DEF ChainRequest
  <2> QED BY <2>2, <2>3
<1> QED BY <1>10, <1>11, <1>15, <1>16, <1>18, <1>19, <1>20, <1>21 DEF ChainInv

\* What makes a row fit to take the place of the chain of f.
Succeeds(f, new) ==
    /\ chains[f] # None /\ Rechained(f, new) /\ new.expires = chains[f].expires
    /\ new.current <= jtis' /\ new.previous <= jtis' /\ new.current # new.previous
    /\ answers'[new.current].rotated = 0 /\ answers'[new.previous].rotated = 1
    /\ ~ new.graceUsed => answers'[new.previous].graced = 0
    /\ \A g \in Jtis \ {f} : chains[g] # None =>
          /\ answers'[chains[g].current] = answers[chains[g].current]
          /\ answers'[chains[g].previous] = answers[chains[g].previous]
          /\ Apart(new, chains[g]) /\ Apart(chains[g], new)
    /\ \A u \in tokens : u.fid = None =>
          /\ new.current # u.jti /\ (new.previous = u.jti => f = u.jti)
          /\ answers'[u.jti].rotated > 0 => answers[u.jti].rotated > 0

LEMMA RechainKeeps ==
  ASSUME AccessInv, UNCHANGED <<now, tokens>>, jtis' = jtis \/ jtis' = jtis + 1,
         NEW f \in Jtis, NEW new \in Chain, Succeeds(f, new), Spent',
         \A q \in Reqs : req'[q] = req[q] \/ ChainRequest(q)'
  PROVE  ChainInv'
<1>1. /\ chains[f] # None /\ chains'[f] = new /\ new # None /\ new.expires = chains[f].expires
      /\ \A g \in Jtis \ {f} : chains'[g] = chains[g]
  BY DEF Succeeds, Rechained
<1>2. /\ OneExpiry /\ IdsDrawn /\ ChainsTrue /\ ChainsApart /\ RootsTrue /\ BranchesTrue
      /\ \A q \in Reqs : ChainRequest(q)
  BY DEF AccessInv, ChainInv
<1>3. jtis \in Nat /\ jtis' \in Nat /\ jtis <= jtis'
  BY ChainTypes
<1>4. OneExpiry' /\ IdsDrawn'
  <2>1. ASSUME NEW u \in tokens PROVE u.jti <= jtis' /\ FamilyId(u) <= jtis'
    <3>1. u.jti \in Nat /\ FamilyId(u) \in Nat
      BY ChainTypes, JtisAreNumbers
    <3> QED BY <1>2, <1>3, <3>1 DEF IdsDrawn
  <2> QED BY <1>2, <2>1 DEF OneExpiry, IdsDrawn
<1>5. ChainTrue(f)'
  <2>1. ChainTrue(f) /\ f \in Nat
    BY <1>1, <1>2, JtisAreNumbers DEF ChainsTrue
  <2>2. f <= jtis' /\ \A u \in tokens : FamilyId(u) = f => u.exp = new.expires
    BY <1>1, <1>3, <2>1 DEF ChainTrue
  <2> QED BY <1>1, <2>2 DEF ChainTrue, Succeeds
<1>6. ASSUME NEW g \in Jtis, g # f, chains[g] # None PROVE ChainTrue(g)'
  <2>1. /\ ChainTrue(g) /\ g \in Nat /\ chains[g].current \in Nat /\ chains[g].previous \in Nat
        /\ chains'[g] = chains[g]
    BY <1>1, <1>2, <1>6, ChainTypes, JtisAreNumbers DEF ChainsTrue
  <2>2. g <= jtis' /\ chains[g].current <= jtis' /\ chains[g].previous <= jtis'
    BY <1>3, <2>1 DEF ChainTrue
  <2>3. /\ answers'[chains[g].current] = answers[chains[g].current]
        /\ answers'[chains[g].previous] = answers[chains[g].previous]
    BY <1>6 DEF Succeeds
  <2> QED BY <2>1, <2>2, <2>3 DEF ChainTrue
<1>7. ChainsTrue'
  BY <1>1, <1>5, <1>6 DEF ChainsTrue
<1>8. ChainsApart'
  BY <1>1, <1>2 DEF ChainsApart, Succeeds
<1>9. RootsTrue'
  <2> SUFFICES ASSUME NEW u \in tokens, u.fid = None PROVE RootTrue(u)'
    BY DEF RootsTrue
  <2>1. RootTrue(u) /\ u.jti \in Jtis
    BY <1>2, ChainTypes DEF RootsTrue
  <2>2. /\ new.current # u.jti /\ (new.previous = u.jti => f = u.jti)
        /\ answers'[u.jti].rotated > 0 => answers[u.jti].rotated > 0
    BY DEF Succeeds
  <2>3. \A g \in Jtis : chains'[g] # None =>
           chains'[g].current # u.jti /\ (chains'[g].previous = u.jti => g = u.jti)
    BY <1>1, <2>1, <2>2 DEF RootTrue
  <2>4. answers'[u.jti].rotated > 0 => chains'[u.jti] # None \/ Dead(u)
    BY <1>1, <2>1, <2>2 DEF RootTrue
  <2> QED BY <2>3, <2>4 DEF RootTrue, Dead
<1>10. ASSUME NEW u \in tokens, chains[FamilyId(u)] # None \/ Dead(u)
       PROVE  chains'[FamilyId(u)] # None \/ Dead(u)
  BY <1>1, <1>10, ChainTypes
<1>11. BranchesTrue'
  <2>1. \A u \in tokens : u.fid # None => chains'[u.fid] # None \/ Dead(u)
    BY <1>2, <1>10, ChainTypes DEF BranchesTrue
  <2> QED BY <2>1 DEF BranchesTrue, Dead
<1>12. ASSUME NEW q \in Reqs, req'[q] = req[q] PROVE ChainRequest(q)'
  <2>1. ChainRequest(q)
    BY <1>2
  <2>2. CASE req[q].stage = "sign"
    <3>1. PICK u \in tokens : u = req[q].tok
      BY <2>1, <2>2 DEF ChainRequest
    <3>2. chains'[FamilyId(u)] # None \/ Dead(u)
      BY <1>10, <2>1, <2>2, <3>1 DEF ChainRequest
    <3>3. req[q].jti # None /\ req[q].jti <= jtis' /\ req[q].tok.typ = "session"
      <4>1. req[q].jti # None => req[q].jti \in Nat
        BY ChainTypes, JtisAreNumbers
      <4> QED BY <1>3, <2>1, <2>2, <4>1 DEF ChainRequest
    <3> QED BY <1>12, <2>2, <3>1, <3>2, <3>3 DEF ChainRequest, Dead
  <2>3. CASE req[q].stage # "sign"
    BY <1>12, <2>1, <2>3 DEF ChainRequest
  <2> QED BY <2>2, <2>3
<1> QED BY <1>4, <1>7, <1>8, <1>9, <1>11, <1>12 DEF ChainInv

\* Counting one further.
LEMMA OneMore ==
  ASSUME NEW j \in Nat
  PROVE  /\ j + 1 > j /\ j + 1 <= j + 1
         /\ \A n \in Nat : (n <= j => n <= j + 1 /\ n # j + 1 /\ j + 1 # n) /\ (~ (n > 0) => n = 0)
OBVIOUS

\* The token is the one its chain expects: the chain moves on.
LEMMA RotateChains ==
  ASSUME AccessInv, NEW r \in Reqs, Rotates(r), req[r].stage = "rotate",
         NEW t \in tokens, t = req[r].tok, NEW f \in Jtis, f = FamilyId(t),
         NEW k \in Jtis, k = t.jti, chains[f] # None, k = chains[f].current,
         jtis' = jtis + 1, Answered(r, jtis + 1), Counted(k, answers[k].rotated + 1, answers[k].graced),
         NEW new \in Chain, Rechained(f, new), new.current = jtis + 1,
         new.previous = k, new.expires = chains[f].expires
  PROVE  ChainInv'
<1>1. /\ Spent /\ ChainsTrue /\ ChainsApart /\ RootsTrue /\ \A q \in Reqs : ChainRequest(q)
      /\ \A u \in tokens : u.jti <= jtis
  BY DEF AccessInv, ChainInv, IdsDrawn
<1>2. Moved(r) /\ UNCHANGED <<now, tokens>>
  BY DEF Rotates, rowVars
<1>3. k \in Nat /\ jtis \in Nat /\ k <= jtis /\ k # jtis + 1 /\ jtis + 1 \in Jtis /\ ChainTrue(f)
  <2>1. jtis + 1 \in Jtis /\ ChainTrue(f)
    BY <1>1 DEF Answered, ChainsTrue
  <2>2. k \in Nat /\ jtis \in Nat /\ k <= jtis
    BY <1>1, ChainTypes, JtisAreNumbers
  <2>3. k # jtis + 1
    BY <2>2, OneMore, Zenon
  <2> QED BY <2>1, <2>2, <2>3
<1>4. answers[k].rotated = 0 /\ answers[k].graced = 0 /\ answers[jtis + 1].rotated = 0
  <2>1. answers[k].rotated = 0
    BY <1>3 DEF ChainTrue
  <2>2. answers[k].graced \in Nat
    BY ChainTypes
  <2>3. ~ (answers[k].graced > 0)
    BY <1>1, <2>1 DEF Spent
  <2>4. \A j \in Jtis : j > jtis => answers[j].rotated = 0
    BY <1>1 DEF Spent
  <2>5. answers[jtis + 1].rotated = 0
    <3>1. jtis + 1 > jtis
      BY <1>3, OneMore, Zenon
    <3> QED BY <1>3, <2>4, <3>1
  <2>6. answers[k].graced = 0
    BY <2>2, <2>3, OneMore, Zenon
  <2> QED BY <2>1, <2>5, <2>6
<1>5. answers'[k].rotated = 1 /\ answers'[k].graced = 0 /\ \A j \in Jtis \ {k} : answers'[j] = answers[j]
  BY <1>4 DEF Counted
<1>6. Spent'
  BY <1>3, <1>5, SpentOnce
<1>7. ASSUME NEW g \in Jtis, g # f, chains[g] # None
      PROVE  /\ answers'[chains[g].current] = answers[chains[g].current]
             /\ answers'[chains[g].previous] = answers[chains[g].previous]
             /\ Apart(new, chains[g]) /\ Apart(chains[g], new)
  <2>1. /\ chains[g].current \in Jtis /\ chains[g].previous \in Jtis /\ chains[g].current \in Nat
        /\ chains[g].previous \in Nat /\ chains[g].current <= jtis /\ chains[g].previous <= jtis
    BY <1>1, <1>7, ChainTypes, JtisAreNumbers DEF ChainsTrue, ChainTrue
  <2>2. chains[g].current # k /\ chains[g].previous # k
    BY <1>1, <1>7 DEF ChainsApart, Apart
  <2>3. chains[g].current # jtis + 1 /\ chains[g].previous # jtis + 1
    BY <1>3, <2>1, OneMore, Zenon
  <2> QED BY <1>5, <2>1, <2>2, <2>3 DEF Apart
<1>8. ASSUME NEW u \in tokens, u.fid = None
      PROVE  /\ new.current # u.jti /\ (new.previous = u.jti => f = u.jti)
             /\ answers'[u.jti].rotated > 0 => answers[u.jti].rotated > 0
  <2>1. u.jti # k /\ u.jti \in Jtis
    <3>1. RootTrue(u)
      BY <1>1, <1>8 DEF RootsTrue
    <3>2. chains[f].current # u.jti
      BY <3>1 DEF RootTrue
    <3> QED BY <3>2, ChainTypes
  <2>2. u.jti # jtis + 1
    <3>1. u.jti \in Nat /\ u.jti <= jtis
      BY <1>1, <2>1, JtisAreNumbers, Zenon
    <3> QED BY <1>3, <3>1, OneMore, Zenon
  <2> QED BY <1>5, <2>1, <2>2
<1>9. Succeeds(f, new)
  <2>1. new.current <= jtis' /\ new.previous <= jtis' /\ new.current # new.previous
    <3>1. jtis + 1 <= jtis + 1 /\ k <= jtis + 1 /\ jtis + 1 # k
      BY <1>3, OneMore, Zenon
    <3> QED BY <3>1
  <2>2. answers'[new.current].rotated = 0 /\ answers'[new.previous].rotated = 1 /\ answers'[new.previous].graced = 0
    BY <1>3, <1>4, <1>5
  <2> QED BY <1>7, <1>8, <2>1, <2>2 DEF Succeeds
<1>10. ChainRequest(r)'
  <2>1. /\ req'[r].stage = "sign" /\ req'[r].jti = jtis + 1 /\ req'[r].tok = t /\ t.typ = "session"
        /\ chains'[f] # None
    BY <1>1 DEF Answered, ChainRequest, Rechained
  <2>2. jtis + 1 # None
    BY <1>3, JtisAreNumbers
  <2>3. jtis + 1 <= jtis + 1
    BY <1>3, OneMore, Zenon
  <2> QED BY <1>2, <2>1, <2>2, <2>3 DEF ChainRequest
<1>11. \A q \in Reqs : req'[q] = req[q] \/ ChainRequest(q)'
  BY <1>2, <1>10 DEF Moved
<1> QED BY <1>2, <1>6, <1>9, <1>11, RechainKeeps

\* The token is the one before it, for the first time: the chain's answer again.
LEMMA GraceChains ==
  ASSUME AccessInv, NEW r \in Reqs, Rotates(r), req[r].stage = "rotate",
         NEW t \in tokens, t = req[r].tok, NEW f \in Jtis, f = FamilyId(t),
         NEW k \in Jtis, k = t.jti, chains[f] # None, k = chains[f].previous, ~ chains[f].graceUsed,
         UNCHANGED jtis, Answered(r, chains[f].current), Counted(k, answers[k].rotated, answers[k].graced + 1),
         NEW new \in Chain, Rechained(f, new), new.current = chains[f].current,
         new.previous = k, new.expires = chains[f].expires, new.graceUsed
  PROVE  ChainInv'
<1>1. /\ Spent /\ ChainsTrue /\ ChainsApart /\ RootsTrue /\ \A q \in Reqs : ChainRequest(q)
  BY DEF AccessInv, ChainInv
<1>2. Moved(r) /\ UNCHANGED <<now, tokens>>
  BY DEF Rotates, rowVars
<1>3. chains[f].current \in Jtis /\ jtis \in Nat /\ ChainTrue(f) /\ k <= jtis
  <2>1. ChainTrue(f)
    BY <1>1 DEF ChainsTrue
  <2>2. k <= jtis
    BY <2>1 DEF ChainTrue
  <2> QED BY <2>1, <2>2, ChainTypes
<1>4. answers[k].rotated = 1 /\ answers[k].graced = 0
  BY <1>3 DEF ChainTrue
<1>5. answers'[k].rotated = 1 /\ answers'[k].graced = 1 /\ \A j \in Jtis \ {k} : answers'[j] = answers[j]
  <2>1. /\ answers'[k].rotated = answers[k].rotated /\ answers'[k].graced = answers[k].graced + 1
        /\ \A j \in Jtis \ {k} : answers'[j] = answers[j]
    BY Zenon DEF Counted
  <2> QED BY <1>4, <2>1
<1>6. Spent'
  BY <1>3, <1>5, SpentOnce
<1>7. ASSUME NEW g \in Jtis, g # f, chains[g] # None
      PROVE  /\ answers'[chains[g].current] = answers[chains[g].current]
             /\ answers'[chains[g].previous] = answers[chains[g].previous]
             /\ Apart(new, chains[g]) /\ Apart(chains[g], new)
  <2>1. chains[g].current \in Jtis /\ chains[g].previous \in Jtis
    BY <1>7, ChainTypes
  <2>2. Apart(chains[f], chains[g]) /\ Apart(chains[g], chains[f])
    BY <1>1, <1>7 DEF ChainsApart
  <2> QED BY <1>5, <2>1, <2>2 DEF Apart
<1>8. ASSUME NEW u \in tokens, u.fid = None
      PROVE  /\ new.current # u.jti /\ (new.previous = u.jti => f = u.jti)
             /\ answers'[u.jti].rotated > 0 => answers[u.jti].rotated > 0
  <2>1. RootTrue(u) /\ u.jti \in Jtis
    BY <1>1, <1>8, ChainTypes DEF RootsTrue
  <2>2. answers'[u.jti].rotated = answers[u.jti].rotated
    BY <1>4, <1>5, <2>1
  <2> QED BY <2>1, <2>2 DEF RootTrue
<1>9. Succeeds(f, new)
  <2>1. new.current <= jtis' /\ new.previous <= jtis' /\ new.current # new.previous
    BY <1>3 DEF ChainTrue
  <2>2. answers'[new.current].rotated = 0 /\ answers'[new.previous].rotated = 1
    <3>1. PICK c \in Jtis : c = chains[f].current
      BY <1>3
    <3>2. c # k /\ answers[c].rotated = 0
      BY <1>3, <3>1 DEF ChainTrue
    <3>3. answers'[c].rotated = 0 /\ answers'[k].rotated = 1
      BY <1>5, <3>2
    <3> QED BY <3>1, <3>3
  <2> QED BY <1>7, <1>8, <2>1, <2>2 DEF Succeeds
<1>10. ChainRequest(r)'
  <2>1. /\ req'[r].stage = "sign" /\ req'[r].jti = chains[f].current /\ req'[r].tok = t /\ t.typ = "session"
        /\ chains'[f] # None
    BY <1>1 DEF Answered, ChainRequest, Rechained
  <2>2. chains[f].current # None /\ chains[f].current <= jtis
    BY <1>3, JtisAreNumbers DEF ChainTrue
  <2> QED BY <1>2, <2>1, <2>2 DEF ChainRequest
<1>11. \A q \in Reqs : req'[q] = req[q] \/ ChainRequest(q)'
  BY <1>2, <1>10 DEF Moved
<1> QED BY <1>2, <1>6, <1>9, <1>11, RechainKeeps

\* The token is neither: the chain is revoked, and nobody is answered.
LEMMA RevokeChains ==
  ASSUME AccessInv, NEW r \in Reqs, Rotates(r), UNCHANGED <<jtis, answers>>, req'[r].stage = "done",
         NEW f \in Jtis, chains[f] # None, NEW new \in Chain, Rechained(f, new),
         new.current = chains[f].current, new.previous = chains[f].previous,
         new.expires = chains[f].expires, new.graceUsed = chains[f].graceUsed
  PROVE  ChainInv'
<1>1. /\ Spent /\ ChainsTrue /\ ChainsApart /\ RootsTrue
  BY DEF AccessInv, ChainInv
<1>2. Moved(r) /\ UNCHANGED <<now, tokens>>
  BY DEF Rotates, rowVars
<1>3. ChainTrue(f)
  BY <1>1 DEF ChainsTrue
<1>4. Spent'
  BY <1>1 DEF Spent
<1>5. \A g \in Jtis \ {f} : chains[g] # None => Apart(new, chains[g]) /\ Apart(chains[g], new)
  BY <1>1 DEF ChainsApart, Apart
<1>6. \A u \in tokens : u.fid = None => new.current # u.jti /\ (new.previous = u.jti => f = u.jti)
  BY <1>1 DEF RootsTrue, RootTrue
<1>7. Succeeds(f, new)
  BY <1>3, <1>5, <1>6 DEF Succeeds, ChainTrue
<1>8. \A q \in Reqs : req'[q] = req[q] \/ ChainRequest(q)'
  BY <1>2 DEF Moved, ChainRequest
<1> QED BY <1>2, <1>4, <1>7, <1>8, RechainKeeps

LEMMA JudgeChains ==
  ASSUME AccessInv, NEW r \in Reqs, RotateRefreshChain(r), JudgeChain(r, req[r].tok)
  PROVE  ChainInv'
<1>1. req[r].stage = "rotate"
  BY DEF RotateRefreshChain
<1>2. PICK t \in tokens : t = req[r].tok /\ t \in Token
  BY <1>1, Held
<1>3. PICK f \in Jtis : f = FamilyId(t)
  BY ChainTypes
<1>0. PICK k \in Jtis : k = t.jti
  BY ChainTypes
<1>4. Rotates(r)
  BY <1>2, <1>3, JudgeFacts
<1>5. CASE /\ chains[f] # None /\ t.jti = chains[f].current /\ jtis' = jtis + 1
           /\ Answered(r, jtis + 1)
           /\ Counted(t.jti, answers[t.jti].rotated + 1, answers[t.jti].graced)
           /\ \E new \in Chain : /\ Rechained(f, new) /\ new.current = jtis + 1
                                 /\ new.previous = t.jti /\ new.expires = chains[f].expires
  BY <1>0, <1>1, <1>2, <1>3, <1>4, <1>5, RotateChains
<1>6. CASE /\ chains[f] # None /\ t.jti = chains[f].previous /\ ~ chains[f].graceUsed
           /\ UNCHANGED jtis /\ Answered(r, chains[f].current)
           /\ Counted(t.jti, answers[t.jti].rotated, answers[t.jti].graced + 1)
           /\ \E new \in Chain : /\ Rechained(f, new) /\ new.current = chains[f].current
                                 /\ new.previous = t.jti /\ new.expires = chains[f].expires
                                 /\ new.graceUsed
  BY <1>0, <1>1, <1>2, <1>3, <1>4, <1>6, GraceChains
<1>7. CASE /\ chains[f] # None /\ UNCHANGED <<jtis, answers>> /\ req'[r].stage = "done"
           /\ \E new \in Chain : /\ Rechained(f, new) /\ new.current = chains[f].current
                                 /\ new.previous = chains[f].previous /\ new.expires = chains[f].expires
                                 /\ new.graceUsed = chains[f].graceUsed
  BY <1>4, <1>7, RevokeChains
<1>8. CASE UNCHANGED <<jtis, chains, answers>> /\ req'[r].stage = "done"
  <2>1. UNCHANGED <<chainVars, now>> /\ Moved(r)
    BY <1>4, <1>8 DEF Rotates, rowVars, chainVars
  <2>2. \A q \in Reqs : req'[q] = req[q] \/ ChainRequest(q)'
    BY <1>8, <2>1 DEF Moved, ChainRequest
  <2> QED BY <2>1, <2>2, ChainFrame
<1> QED BY <1>2, <1>3, <1>5, <1>6, <1>7, <1>8, JudgeFacts

-----------------------------------------------------------------------------
(* The steps *)

\* What a step of the platform leaves alone.
LEMMA PlatformFrame ==
  ASSUME AccessInv, Platform
  PROVE  UNCHANGED <<now, chainVars, replaced, req>>
BY DEF Platform, IssueOwnerTempPassword, UpdateStatus, PurgeStatus, CreateTenant, ReissueEnrolCode,
       EnrolDevice, RetireDevice, CreateDevice, ReplaceDevice, sessions, chainVars

LEMMA ChainsKeep ==
  ASSUME AccessInv, Next
  PROVE  ChainInv'
<1>1. ASSUME NEW r \in Reqs, Moved(r), UNCHANGED <<now, chainVars>>, ChainRequest(r)' PROVE ChainInv'
  BY <1>1, ChainFrame DEF Moved
<1>2. ASSUME NEW r \in Reqs, NEW d \in Machines \cup {None}, LoginLookup(r, d) PROVE ChainInv'
  BY <1>1, <1>2, LoginLookupFacts DEF ChainRequest, rowVars
<1>3. ASSUME NEW r \in Reqs, LoginSign(r) PROVE ChainInv'
  <2>1. /\ Moved(r) /\ req'[r].stage = "done" /\ UNCHANGED <<now, chains, answers>>
        /\ UNCHANGED <<jtis, tokens>> \/ \E t \in Token : NewLogin(r, t)
    BY <1>3, LoginSignFacts DEF rowVars
  <2>2. CASE UNCHANGED <<jtis, tokens>>
    BY <1>1, <2>1, <2>2 DEF ChainRequest, chainVars
  <2>3. CASE \E t \in Token : NewLogin(r, t)
    BY <2>1, <2>3, NewLoginChains
  <2> QED BY <2>1, <2>2, <2>3
<1>4. ASSUME NEW r \in Reqs, NEW t \in tokens, RefreshRead(r, t) PROVE ChainInv'
  <2>1. /\ Moved(r) /\ UNCHANGED <<now, chainVars>> /\ req'[r].stage = "rotate" /\ req'[r].tok = t
        /\ req'[r].at = now /\ t.typ = "session" /\ now < t.exp + Skew
    BY <1>4, RefreshReadFacts DEF rowVars
  <2>2. now # None /\ now <= now + Slow /\ now <= now
    BY ChainTypes, NamesAssumption
  <2>3. ChainRequest(r)'
    BY <2>1, <2>2 DEF ChainRequest, chainVars
  <2> QED BY <1>1, <2>1, <2>3
<1>5. ASSUME NEW r \in Reqs, NEW t \in tokens, ChangeRead(r, t) PROVE ChainInv'
  <2>1. Moved(r) /\ UNCHANGED <<now, chainVars>> /\ req'[r].stage = "write" /\ req'[r].tok = t
    BY <1>5, ChangeReadFacts DEF rowVars
  <2>2. ChainRequest(r)'
    BY <2>1 DEF ChainRequest, chainVars
  <2> QED BY <1>1, <2>1, <2>2
<1>6. ASSUME NEW r \in Reqs, RotateRefreshChain(r) PROVE ChainInv'
  BY <1>6, CreateChains, JudgeChains DEF RotateRefreshChain
<1>7. ASSUME NEW r \in Reqs, RefreshSign(r) PROVE ChainInv'
  BY <1>7, RefreshSignChains
<1>8. ASSUME NEW r \in Reqs, ChangeWrite(r) PROVE ChainInv'
  <2>1. /\ Moved(r) /\ UNCHANGED <<now, chainVars>> /\ req[r].stage = "write"
        /\ req'[r].stage = "done" \/ (req'[r].stage = "signNew" /\ req'[r].tok = req[r].tok)
    BY <1>8, ChangeWriteFacts
  <2>2. req[r].tok \in tokens
    BY <2>1, Held
  <2>3. ChainRequest(r)'
    BY <2>1, <2>2 DEF ChainRequest, chainVars
  <2> QED BY <1>1, <2>1, <2>3
<1>9. ASSUME NEW r \in Reqs, ChangeSign(r) PROVE ChainInv'
  BY <1>9, ChangeSignFacts, NewLoginChains DEF rowVars
<1>10. ASSUME NEW r \in Reqs,
              \/ \E t \in tokens : GuardCached(r, t) \/ GuardRead(r, t)
              \/ GuardSet(r) \/ \E d \in Machines : GuardPush(r, d)
       PROVE  ChainInv'
  <2>1. Moved(r) /\ UNCHANGED <<now, chainVars>> /\ req'[r].stage \in {"in", "done", "set"}
    BY <1>10, GuardFacts
  <2>2. ChainRequest(r)'
    BY <2>1 DEF ChainRequest
  <2> QED BY <1>1, <2>1, <2>2
<1>11. CASE Platform
  BY <1>11, PlatformFrame, ChainFrame
<1>12. CASE Tick
  BY <1>12, TickChains
<1> QED BY <1>2, <1>3, <1>4, <1>5, <1>6, <1>7, <1>8, <1>9, <1>10, <1>11, <1>12 DEF Next, Request1

-----------------------------------------------------------------------------
(* Passwords *)

LEMMA PasswordTypes ==
  ASSUME AccessInv
  PROVE  /\ now \in Nat /\ secrets \in Nat /\ None \notin Nat
         /\ user \in User /\ user.hash \in Nat /\ user.changed \in Nat \cup {None}
         /\ \A k \in temps : k \in Nat /\ 1 <= k /\ k <= secrets
         /\ \A t \in tokens : t \in Token /\ t.pw \in Nat /\ t.iat \in Nat
         /\ \A r \in Reqs : /\ req[r] \in Request /\ req[r].pw \in Nat
                            /\ req[r].row # None =>
                                  req[r].row.hash \in Nat /\ req[r].row.changed \in Nat \cup {None}
<1>1. now \in Nat /\ secrets \in Nat /\ \A k \in temps : k \in Nat /\ 1 <= k /\ k <= secrets
  BY LivesAssumption DEF AccessInv, TypeOK
<1>2. None \notin Int
  BY NamesAssumption
<1>3. user \in User /\ tokens \subseteq Token /\ req \in [Reqs -> Request]
  BY DEF AccessInv, TypeOK
<1>4. \A t \in tokens : t \in Token /\ t.pw \in Nat /\ t.iat \in Nat
  BY <1>3 DEF Token, Time
<1>5. \A w \in User : w.hash \in Nat /\ w.changed \in Nat \cup {None}
  BY DEF User, Moment, Time
<1>6. \A r \in Reqs : req[r] \in Request /\ req[r].pw \in Nat /\ req[r].row \in User \cup {None}
  BY <1>3 DEF Request
<1> QED BY <1>1, <1>2, <1>3, <1>4, <1>5, <1>6

LEMMA PasswordParts ==
  ASSUME AccessInv
  PROVE  /\ NobodyYet /\ OwnerTrue /\ ResetStands
         /\ \A t \in tokens : TokenTrue(t)
         /\ \A r \in Reqs : PasswordRequest(r)
         /\ tokens # {} \/ (\E r \in Reqs : req[r].stage # "idle") => tenant.status # None
BY DEF AccessInv, PasswordInv, NobodyYet

\* Steps that leave the owner's row alone, and may sign a token.
LEMMA PasswordFrame ==
  ASSUME AccessInv, UNCHANGED <<now, user, secrets, temps, replaced>>, NobodyYet',
         tokens' = tokens \/ \E t \in Token : tokens' = tokens \cup {t} /\ TokenTrue(t),
         \A q \in Reqs : req'[q] = req[q] \/ PasswordRequest(q)'
  PROVE  PasswordInv'
<1>1. OwnerTrue' /\ ResetStands'
  BY PasswordParts DEF OwnerTrue, ResetStands
<1>2. \A t \in tokens' : TokenTrue(t)
  BY PasswordParts
<1>3. \A t \in tokens' : TokenTrue(t)'
  BY <1>2 DEF TokenTrue
<1>4. \A q \in Reqs : PasswordRequest(q)'
  BY PasswordParts DEF PasswordRequest
<1> QED BY <1>1, <1>3, <1>4 DEF PasswordInv

\* The password moves: what is signed was signed no later, what was read is out of date.
LEMMA PasswordMoves ==
  ASSUME AccessInv, UNCHANGED <<now, tokens>>, secrets' = secrets + 1, user'.hash = secrets + 1,
         user'.changed = now, temps' \subseteq temps \cup {secrets + 1}
  PROVE  /\ \A t \in tokens : TokenTrue(t)'
         /\ \A q \in Reqs : req'[q] = req[q] => PasswordRequest(q)'
<1>1. ASSUME NEW t \in tokens PROVE TokenTrue(t)'
  <2>1. TokenTrue(t) /\ t.pw \in Nat /\ t.iat \in Nat
    BY PasswordParts, PasswordTypes
  <2>2. t.pw <= secrets /\ t.iat <= now /\ (t.typ = "session" => t.pw \notin temps)
    BY <2>1 DEF TokenTrue
  <2>3. t.pw <= secrets + 1 /\ t.pw # secrets + 1 /\ now # None
    BY <2>1, <2>2, PasswordTypes
  <2>4. t.typ = "session" => t.pw \notin temps'
    BY <2>2, <2>3
  <2> QED BY <2>2, <2>3, <2>4 DEF TokenTrue
<1>2. ASSUME NEW q \in Reqs, req'[q] = req[q] PROVE PasswordRequest(q)'
  <2>1. PasswordRequest(q) /\ req[q].pw \in Nat
    BY PasswordParts, PasswordTypes
  <2>2. req[q].stage \in {"verify", "rotate", "sign", "write", "signNew"} =>
           /\ req[q].row # None /\ req[q].row.hash <= secrets + 1 /\ req[q].row.hash # secrets + 1
           /\ ~ req[q].row.must => req[q].row.hash \notin temps'
    <3> HAVE req[q].stage \in {"verify", "rotate", "sign", "write", "signNew"}
    <3>1. /\ req[q].row # None /\ req[q].row.hash \in Nat /\ req[q].row.hash <= secrets
          /\ ~ req[q].row.must => req[q].row.hash \notin temps
      BY <2>1, PasswordTypes DEF PasswordRequest
    <3>2. req[q].row.hash <= secrets + 1 /\ req[q].row.hash # secrets + 1
      BY <3>1, PasswordTypes
    <3> QED BY <3>1, <3>2
  <2>3. req[q].stage = "in" => req[q].pw <= secrets + 1 /\ req[q].pw \notin temps'
    <3> HAVE req[q].stage = "in"
    <3>1. req[q].pw <= secrets /\ req[q].pw \notin temps
      BY <2>1 DEF PasswordRequest
    <3>2. req[q].pw <= secrets + 1 /\ req[q].pw # secrets + 1
      BY <2>1, <3>1, PasswordTypes
    <3> QED BY <3>1, <3>2
  <2> QED BY <1>2, <2>1, <2>2, <2>3 DEF PasswordRequest
<1> QED BY <1>1, <1>2

\* A request that just read the owner's row.
LEMMA ReadsOwner ==
  ASSUME AccessInv, NEW r \in Reqs, UNCHANGED <<user, secrets, temps>>, req'[r].row = user,
         req'[r].stage \in {"verify", "rotate", "write"},
         req'[r].stage = "verify" \/ FreshEnough(req'[r].tok)
  PROVE  PasswordRequest(r)'
<1>1. user # None /\ user.hash <= secrets /\ (~ user.must => user.hash \notin temps)
  BY PasswordParts, PasswordTypes, NamesAssumption DEF OwnerTrue
<1> QED BY <1>1 DEF PasswordRequest, FreshEnough

\* The token of a login carries the password that was read, and still stands unless crossed.
LEMMA NewLoginTrue ==
  ASSUME AccessInv, NEW r \in Reqs, NEW t \in Token, NewLogin(r, t), req[r].stage \in {"verify", "signNew"}
  PROVE  TokenTrue(t)
<1>1. PasswordRequest(r)
  BY PasswordParts
<1>2. req[r].row.hash <= secrets /\ (~ req[r].row.must => req[r].row.hash \notin temps) /\ now <= now
  BY <1>1, PasswordTypes DEF PasswordRequest
<1> QED BY <1>2 DEF TokenTrue, NewLogin

\* A refreshed token carries the password of the one it came from.
LEMMA RefreshSignTrue ==
  ASSUME AccessInv, NEW r \in Reqs, RefreshSign(r)
  PROVE  \E t \in Token : tokens' = tokens \cup {t} /\ TokenTrue(t)
<1>1. PICK u \in tokens : u = req[r].tok
  BY RefreshSignFacts
<1>2. PICK t \in Token :
         /\ tokens' = tokens \cup {t} /\ t.typ = "session" /\ t.iat = now /\ t.pw = u.pw
         /\ ~ t.crossed => ~ u.crossed /\ u.iat # user.changed /\ user.hash = req[r].row.hash
  BY <1>1, RefreshSignFacts
<1>3. req[r].stage = "sign"
  BY DEF RefreshSign
<1>4. TokenTrue(u) /\ PasswordRequest(r) /\ ChainRequest(r)
  BY PasswordParts DEF AccessInv, ChainInv
<1>5. u.pw <= secrets /\ u.pw \notin temps /\ now <= now
  BY <1>1, <1>3, <1>4, PasswordTypes DEF TokenTrue, ChainRequest
<1>6. ASSUME ~ t.crossed, u.pw # user.hash PROVE FALSE
  <2>1. user.changed # None /\ u.iat <= user.changed /\ u.iat # user.changed
    BY <1>2, <1>4, <1>6 DEF TokenTrue
  <2>2. u.iat >= user.changed
    BY <1>1, <1>2, <1>3, <1>4, <1>6, <2>1 DEF PasswordRequest
  <2> QED BY <2>1, <2>2, PasswordTypes
<1> QED BY <1>2, <1>5, <1>6 DEF TokenTrue

\* changePassword's UPDATE: the token's password is the one replaced, or its login was
\* overtaken, or it was signed in the second of the change.
LEMMA ChangeWriteKeeps ==
  ASSUME AccessInv, NEW r \in Reqs, ChangeWrite(r)
  PROVE  PasswordInv'
<1>1. /\ Moved(r) /\ req[r].stage = "write" /\ UNCHANGED <<now, tenant, temps, tokens>>
  BY ChangeWriteFacts DEF chainVars
<1>2. NobodyYet'
  BY <1>1, PasswordParts DEF NobodyYet
<1>3. CASE req'[r].stage = "done" /\ UNCHANGED <<user, secrets, replaced>>
  <2>1. \A q \in Reqs : req'[q] = req[q] \/ PasswordRequest(q)'
    BY <1>1, <1>3 DEF Moved, PasswordRequest
  <2> QED BY <1>1, <1>2, <1>3, <2>1, PasswordFrame
<1>4. CASE /\ req'[r].stage = "signNew" /\ req'[r].row = user' /\ req'[r].tok = req[r].tok
           /\ StillCurrent(req[r].row) /\ secrets' = secrets + 1
           /\ user' \in User /\ user'.hash = secrets + 1 /\ ~ user'.must /\ user'.expires = None
           /\ user'.changed = now
           /\ replaced' = replaced \cup {[token |-> req[r].tok, of |-> user.hash, changed |-> user.changed]}
  <2>1. secrets + 1 \notin temps /\ secrets + 1 <= secrets + 1 /\ now <= now /\ user' # None
    <3>1. user' # None
      BY <1>4, NamesAssumption
    <3> QED BY <3>1, PasswordTypes
  <2>2. OwnerTrue'
    BY <1>1, <1>4, <2>1 DEF OwnerTrue
  <2>3. \A t \in tokens' : TokenTrue(t)'
    BY <1>1, <1>4, PasswordMoves
  <2>4. \A q \in Reqs \ {r} : PasswordRequest(q)'
    BY <1>1, <1>4, PasswordMoves DEF Moved
  <2>5. PasswordRequest(r)'
    BY <1>1, <1>4, <2>1 DEF PasswordRequest
  <2>6. ResetStands'
    <3>1. PICK u \in tokens : u = req[r].tok
      BY <1>1, Held
    <3>2. TokenTrue(u) /\ PasswordRequest(r)
      BY PasswordParts
    <3>3. u.pw = user.hash \/ u.crossed \/ u.iat = user.changed
      <4> SUFFICES ASSUME u.pw # user.hash, ~ u.crossed PROVE u.iat = user.changed
        OBVIOUS
      <4>1. user.changed # None /\ u.iat <= user.changed
        BY <3>2 DEF TokenTrue
      <4>2. req[r].row.changed = user.changed
        BY <1>1, <1>4, <3>2 DEF PasswordRequest, StillCurrent
      <4>3. u.iat >= user.changed
        BY <1>1, <3>1, <3>2, <4>1, <4>2 DEF PasswordRequest
      <4> QED BY <4>1, <4>3, PasswordTypes
    <3> QED BY <1>4, <3>1, <3>3, PasswordParts DEF ResetStands
  <2> QED BY <1>2, <2>2, <2>3, <2>4, <2>5, <2>6 DEF PasswordInv
<1> QED BY <1>3, <1>4, ChangeWriteFacts

\* createTenant, issueOwnerTempPassword: a temporary password nobody has used yet.
LEMMA NewTempPassword ==
  ASSUME AccessInv,
         (\E d \in Machines : CreateTenant(d)) \/ IssueOwnerTempPassword
  PROVE  PasswordInv'
<1>1. /\ UNCHANGED <<now, tokens, req, replaced>> /\ secrets' = secrets + 1 /\ temps' = temps \cup {secrets + 1}
      /\ user'.hash = secrets + 1 /\ user'.must
      /\ \/ user'.changed = None /\ tenant.status = None /\ tenant'.status = "active"
         \/ user'.changed = now /\ tenant' = tenant /\ tenant.status # None
  <2>1. CASE \E d \in Machines : CreateTenant(d)
    BY <2>1 DEF CreateTenant, sessions
  <2>2. CASE IssueOwnerTempPassword
    <3>1. user \in User
      BY PasswordTypes
    <3> QED BY <2>2, <3>1 DEF IssueOwnerTempPassword, sessions, User
  <2> QED BY <2>1, <2>2
<1>2. OwnerTrue'
  <2>1. secrets + 1 <= secrets + 1 /\ now <= now
    BY PasswordTypes
  <2> QED BY <1>1, <2>1 DEF OwnerTrue
<1>3. NobodyYet' /\ ResetStands'
  <2>1. "active" # None
    BY NamesAssumption DEF Status
  <2> QED BY <1>1, <2>1, PasswordParts DEF NobodyYet, ResetStands
<1>4. CASE user'.changed = None /\ tenant.status = None
  <2>1. tokens' = {} /\ \A q \in Reqs : req'[q].stage = "idle"
    BY <1>1, <1>4, PasswordParts DEF NobodyYet
  <2>2. \A q \in Reqs : PasswordRequest(q)'
    BY <2>1 DEF PasswordRequest
  <2> QED BY <1>2, <1>3, <2>1, <2>2 DEF PasswordInv
<1>5. CASE user'.changed = now
  <2>1. (\A t \in tokens : TokenTrue(t)') /\ \A q \in Reqs : PasswordRequest(q)'
    BY <1>1, <1>5, PasswordMoves
  <2> QED BY <1>1, <1>2, <1>3, <2>1 DEF PasswordInv
<1> QED BY <1>1, <1>4, <1>5

LEMMA PasswordsKeep ==
  ASSUME AccessInv, Next
  PROVE  PasswordInv'
<1>1. ASSUME NEW r \in Reqs, Moved(r), UNCHANGED <<now, tenant, user, secrets, temps, replaced>>,
             tenant.status # None,
             tokens' = tokens \/ \E t \in Token : tokens' = tokens \cup {t} /\ TokenTrue(t), PasswordRequest(r)'
      PROVE  PasswordInv'
  <2>1. NobodyYet'
    BY <1>1 DEF NobodyYet
  <2>2. \A q \in Reqs : req'[q] = req[q] \/ PasswordRequest(q)'
    BY <1>1 DEF Moved
  <2> QED BY <1>1, <2>1, <2>2, PasswordFrame
<1>2. \A r \in Reqs : req'[r].stage = "done" => PasswordRequest(r)'
  BY DEF PasswordRequest
<1>3. ASSUME NEW r \in Reqs, NEW d \in Machines \cup {None}, LoginLookup(r, d) PROVE PasswordInv'
  <2>1. /\ Moved(r) /\ req'[r].stage = "verify" /\ req'[r].row = user /\ tenant.status # None
        /\ UNCHANGED <<now, tenant, user, secrets, temps, replaced, tokens>>
    BY <1>3, LoginLookupFacts DEF rowVars, chainVars
  <2>2. PasswordRequest(r)'
    BY <2>1, ReadsOwner
  <2> QED BY <1>1, <2>1, <2>2
<1>4. ASSUME NEW r \in Reqs, LoginSign(r) \/ ChangeSign(r) PROVE PasswordInv'
  <2>1. /\ Moved(r) /\ req[r].stage \in {"verify", "signNew"} /\ req'[r].stage = "done"
        /\ UNCHANGED <<now, tenant, user, secrets, temps, replaced>>
        /\ tokens' = tokens \/ \E t \in Token : NewLogin(r, t)
    BY <1>4, LoginSignFacts, ChangeSignFacts DEF rowVars
  <2>2. \A t \in Token : NewLogin(r, t) => tokens' = tokens \cup {t} /\ TokenTrue(t)
    BY <2>1, NewLoginTrue DEF NewLogin
  <2>3. tenant.status # None
    BY <2>1, PasswordParts
  <2> QED BY <1>1, <1>2, <2>1, <2>2, <2>3
<1>5. ASSUME NEW r \in Reqs, NEW t \in tokens, RefreshRead(r, t) \/ ChangeRead(r, t) PROVE PasswordInv'
  <2>1. /\ Moved(r) /\ req'[r].stage \in {"rotate", "write"} /\ req'[r].row = user /\ req'[r].tok = t
        /\ FreshEnough(t) /\ UNCHANGED <<now, tenant, user, secrets, temps, replaced, tokens>>
    BY <1>5, RefreshReadFacts, ChangeReadFacts DEF rowVars, chainVars
  <2>2. PasswordRequest(r)'
    BY <2>1, ReadsOwner
  <2>3. tenant.status # None
    BY PasswordParts
  <2> QED BY <1>1, <2>1, <2>2, <2>3
<1>6. ASSUME NEW r \in Reqs, RotateRefreshChain(r) PROVE PasswordInv'
  <2>1. /\ Rotates(r) /\ req[r].stage = "rotate"
        /\ req'[r].stage = "done"
           \/ (req'[r].stage = "sign" /\ req'[r].tok = req[r].tok /\ req'[r].row = req[r].row)
    <3>1. CASE CreateChain(r, req[r].tok)
      BY <1>6, <3>1, CreateFacts DEF Answered
    <3>2. CASE JudgeChain(r, req[r].tok)
      <4>1. PICK t \in tokens : t = req[r].tok /\ t \in Token
        BY <1>6, Held DEF RotateRefreshChain
      <4>2. PICK f \in Jtis : f = FamilyId(t)
        BY ChainTypes
      <4> QED BY <1>6, <3>2, <4>1, <4>2, JudgeFacts DEF Answered
    <3> QED BY <1>6, <3>1, <3>2 DEF RotateRefreshChain
  <2>2. Moved(r) /\ UNCHANGED <<now, tenant, user, secrets, temps, replaced, tokens>>
    BY <2>1 DEF Rotates, rowVars
  <2>3. PasswordRequest(r)' /\ tenant.status # None
    <3>1. PasswordRequest(r) /\ tenant.status # None
      BY <2>1, PasswordParts
    <3> QED BY <2>1, <2>2, <3>1 DEF PasswordRequest
  <2> QED BY <1>1, <2>2, <2>3
<1>7. ASSUME NEW r \in Reqs, RefreshSign(r) PROVE PasswordInv'
  <2>1. /\ Moved(r) /\ req[r].stage = "sign" /\ req'[r].stage = "done"
        /\ UNCHANGED <<now, tenant, user, secrets, temps, replaced>>
    BY <1>7, RefreshSignFacts DEF rowVars
  <2>2. tenant.status # None
    BY <2>1, PasswordParts
  <2> QED BY <1>1, <1>2, <1>7, <2>1, <2>2, RefreshSignTrue
<1>8. ASSUME NEW r \in Reqs, ChangeWrite(r) PROVE PasswordInv'
  BY <1>8, ChangeWriteKeeps
<1>9. ASSUME NEW r \in Reqs,
              \/ \E t \in tokens : GuardCached(r, t) \/ GuardRead(r, t)
              \/ GuardSet(r) \/ \E d \in Machines : GuardPush(r, d)
       PROVE  PasswordInv'
  <2>1. /\ Moved(r) /\ UNCHANGED <<now, tenant, user, secrets, temps, replaced, tokens>>
        /\ req'[r].stage \in {"in", "done", "set"} /\ req[r].stage \in {"idle", "set"}
        /\ req'[r].stage = "in" => req'[r].pw = 0 \/ (req'[r].pw = user.hash /\ ~ user.must)
        /\ tenant.status # None \/ req[r].stage # "idle"
    BY <1>9, GuardFacts DEF chainVars
  <2>2. tenant.status # None
    BY <2>1, PasswordParts
  <2>3. 0 \notin temps /\ 0 <= secrets /\ user.hash <= secrets /\ (~ user.must => user.hash \notin temps)
    BY PasswordTypes, PasswordParts DEF OwnerTrue
  <2>4. PasswordRequest(r)'
    BY <2>1, <2>3 DEF PasswordRequest
  <2> QED BY <1>1, <2>1, <2>2, <2>4
<1>10. CASE (\E d \in Machines : CreateTenant(d)) \/ IssueOwnerTempPassword
  BY <1>10, NewTempPassword
<1>11. ASSUME UNCHANGED <<now, user, secrets, temps, replaced, tokens, req>>,
              tenant'.status = None => tenant.status = None
       PROVE  PasswordInv'
  <2>1. NobodyYet'
    BY <1>11, PasswordParts DEF NobodyYet
  <2> QED BY <1>11, <2>1, PasswordFrame
<1>12. ASSUME NEW status \in Status, UpdateStatus(status) PROVE PasswordInv'
  <2>1. tenant'.status = status /\ status # None /\ UNCHANGED <<now, user, secrets, temps, replaced, tokens, req>>
    BY <1>12, NamesAssumption DEF UpdateStatus, sessions
  <2> QED BY <1>11, <2>1
<1>13. CASE \/ PurgeStatus
            \/ \E d \in Machines :
                  \/ ReissueEnrolCode(d) \/ EnrolDevice(d) \/ RetireDevice(d)
                  \/ \E role \in {"pos", "backoffice"} : CreateDevice(d, role)
                  \/ \E e \in Machines : ReplaceDevice(d, e)
  <2>1. UNCHANGED <<now, tenant, user, secrets, temps, replaced, tokens, req>>
    BY <1>13 DEF PurgeStatus, ReissueEnrolCode, EnrolDevice, RetireDevice, CreateDevice, ReplaceDevice, sessions
  <2> QED BY <1>11, <2>1
<1>14. CASE Tick
  <2>1. now' = now + 1 /\ UNCHANGED <<tenant, user, secrets, temps, replaced, tokens, req>>
    BY <1>14 DEF Tick
  <2>2. OwnerTrue'
    BY <2>1, PasswordParts, PasswordTypes DEF OwnerTrue
  <2>3. \A t \in tokens' : TokenTrue(t)'
    BY <2>1, PasswordParts, PasswordTypes DEF TokenTrue
  <2>4. NobodyYet' /\ ResetStands' /\ \A q \in Reqs : PasswordRequest(q)'
    BY <2>1, PasswordParts DEF NobodyYet, ResetStands, PasswordRequest
  <2> QED BY <2>2, <2>3, <2>4 DEF PasswordInv
<1> QED BY <1>3, <1>4, <1>5, <1>6, <1>7, <1>8, <1>9, <1>10, <1>12, <1>13, <1>14 DEF Next, Request1, Platform

-----------------------------------------------------------------------------
(* The rows *)

LEMMA StatusesKeep ==
  ASSUME AccessInv, Next
  PROVE  StatusInv'
<1>1. ASSUME NEW r \in Reqs, NEW d \in Machines \cup {None}, LoginLookup(r, d) PROVE StatusInv'
  BY <1>1, LoginLookupFacts, StatusFrame DEF rowVars
<1>2. ASSUME NEW r \in Reqs, LoginSign(r) \/ RefreshSign(r) \/ ChangeSign(r) PROVE StatusInv'
  BY <1>2, LoginSignFacts, RefreshSignFacts, ChangeSignFacts, StatusFrame DEF rowVars
<1>3. ASSUME NEW r \in Reqs, NEW t \in tokens, RefreshRead(r, t) \/ ChangeRead(r, t) PROVE StatusInv'
  BY <1>3, RefreshReadFacts, ChangeReadFacts, StatusFrame DEF rowVars
<1>4. ASSUME NEW r \in Reqs, RotateRefreshChain(r) PROVE StatusInv'
  <2>1. Rotates(r) /\ req'[r].stage \in {"sign", "done"}
    <3>1. CASE CreateChain(r, req[r].tok)
      BY <1>4, <3>1, CreateFacts DEF Answered
    <3>2. CASE JudgeChain(r, req[r].tok)
      <4>1. PICK t \in tokens : t = req[r].tok /\ t \in Token
        BY <1>4, Held DEF RotateRefreshChain
      <4>2. PICK f \in Jtis : f = FamilyId(t)
        BY ChainTypes
      <4> QED BY <1>4, <3>2, <4>1, <4>2, JudgeFacts DEF Answered
    <3> QED BY <1>4, <3>1, <3>2 DEF RotateRefreshChain
  <2> QED BY <2>1, StatusFrame DEF Rotates, rowVars
<1>5. ASSUME NEW r \in Reqs, ChangeWrite(r) PROVE StatusInv'
  <2>1. Moved(r) /\ UNCHANGED <<now, tenant, cached>> /\ req'[r].stage \in {"done", "signNew"}
    BY <1>5, ChangeWriteFacts
  <2> QED BY <2>1, StatusFrame
<1>6. ASSUME NEW r \in Reqs,
             \/ \E t \in tokens : GuardCached(r, t) \/ GuardRead(r, t)
             \/ GuardSet(r) \/ \E d \in Machines : GuardPush(r, d)
      PROVE  StatusInv'
  BY <1>6, GuardStatus
<1>7. CASE \E status \in Status : UpdateStatus(status)
  BY <1>7, UpdateStatusKeeps
<1>8. CASE \E d \in Machines : CreateTenant(d)
  BY <1>8, CreateTenantStatus
<1>9. CASE \/ PurgeStatus \/ IssueOwnerTempPassword
           \/ \E d \in Machines :
                 \/ ReissueEnrolCode(d) \/ EnrolDevice(d) \/ RetireDevice(d)
                 \/ \E role \in {"pos", "backoffice"} : CreateDevice(d, role)
                 \/ \E e \in Machines : ReplaceDevice(d, e)
  <2>1. UNCHANGED <<now, tenant, req>> /\ cached' \in {cached, None}
    BY <1>9 DEF PurgeStatus, IssueOwnerTempPassword, ReissueEnrolCode, EnrolDevice, RetireDevice, CreateDevice,
                ReplaceDevice
  <2> QED BY <2>1, QuietStatus
<1>10. CASE Tick
  BY <1>10, TickStatus
<1> QED BY <1>1, <1>2, <1>3, <1>4, <1>5, <1>6, <1>7, <1>8, <1>9, <1>10 DEF Next, Request1, Platform

\* Of a few numbers one is the highest.
LEMMA HighestOf ==
  ASSUME NEW b \in Nat, NEW S, S \subseteq 0..b, S # {}
  PROVE  \E n \in S : \A m \in S : m <= n
<1> DEFINE T == {b - n : n \in S}
<1>0. \A n \in S : n \in Nat /\ b - n \in Nat
  OBVIOUS
<1>1. T \subseteq Nat /\ T # {}
  <2>1. PICK n : n \in S
    OBVIOUS
  <2>2. T \subseteq Nat
    BY <1>0
  <2>3. b - n \in T
    BY <2>1
  <2> QED BY <2>2, <2>3
<1>2. PICK k \in T : \A m \in T : ~ (<<m, k>> \in OpToRel(<, Nat))
  BY <1>1, NatLessThanWellFounded, WFMin, Zenon
<1>3. \A m \in T : ~ (m < k)
  BY <1>1, <1>2 DEF OpToRel
<1>4. PICK n \in S : k = b - n
  OBVIOUS
<1>5. ASSUME NEW m \in S PROVE m <= n
  <2>1. ~ (b - m < b - n)
    BY <1>3, <1>4
  <2> QED BY <1>0, <2>1
<1> QED BY <1>5

LEMMA MachineTypes ==
  ASSUME AccessInv
  PROVE  /\ machines \in [Machines -> Machine \cup {None}] /\ MaxDeviceNo \in Nat /\ CodeLife \in Nat /\ now \in Nat
         /\ \A d \in Machines : machines[d] # None =>
               machines[d] \in Machine /\ machines[d].no \in Nat /\ machines[d].no <= MaxDeviceNo + 1
BY LivesAssumption DEF AccessInv, TypeOK, Numbered, Machine

\* The next number is one.
LEMMA NextNoTyped == ASSUME AccessInv PROVE NextNo \in Nat
<1> DEFINE nos == {machines[d].no : d \in {x \in Machines : machines[x] # None}}
<1>1. MaxDeviceNo + 1 \in Nat /\ nos \subseteq 0 .. (MaxDeviceNo + 1)
  BY MachineTypes
<1> HIDE DEF nos
<1>2. ASSUME nos # {} PROVE (CHOOSE n \in nos : \A k \in nos : k <= n) \in nos
  <2>1. \E n \in nos : \A k \in nos : k <= n
    BY <1>1, <1>2, HighestOf
  <2> QED BY <2>1
<1>3. NextNo = IF nos = {} THEN 1 ELSE 1 + (CHOOSE n \in nos : \A k \in nos : k <= n)
  BY DEF NextNo, nos
<1>4. PICK m : m = CHOOSE n \in nos : \A k \in nos : k <= n
  OBVIOUS
<1>5. CASE nos = {}
  BY <1>3, <1>5
<1>6. CASE nos # {}
  <2>1. m \in nos
    BY <1>2, <1>4, <1>6
  <2>2. m \in Nat
    BY <1>1, <2>1
  <2>3. NextNo = 1 + m
    BY <1>3, <1>4, <1>6
  <2> QED BY <2>2, <2>3
<1> QED BY <1>5, <1>6

\* A machine that is made, gets another code, or is enrolled.
Again(d) == [machines[d] EXCEPT !.code = TRUE, !.until = now + CodeLife]
Taken(d) == [machines[d] EXCEPT !.code = FALSE, !.until = None, !.token = TRUE, !.enrolled = @ + 1]

LEMMA MachineChanges ==
  ASSUME AccessInv
  PROVE  /\ \A no \in Nat, role \in {"pos", "backoffice"} :
               NewMachine(no, role) \in Machine /\ NewMachine(no, role).no = no
         /\ \A d \in Machines : Live(d) =>
               /\ Again(d) \in Machine /\ Again(d).no = machines[d].no
               /\ Taken(d) \in Machine /\ Taken(d).no = machines[d].no
               /\ Retired(d) \in Machine /\ Retired(d).no = machines[d].no
               /\ machines[d].role \in {"pos", "backoffice"}
<1>1. ASSUME NEW no \in Nat, NEW role \in {"pos", "backoffice"}
      PROVE  NewMachine(no, role) \in Machine /\ NewMachine(no, role).no = no
  <2>1. now + CodeLife \in Moment
    BY MachineTypes DEF Moment, Time
  <2> QED BY <2>1 DEF NewMachine, Machine
<1>2. ASSUME NEW d \in Machines, Live(d)
      PROVE  /\ Again(d) \in Machine /\ Again(d).no = machines[d].no
             /\ Taken(d) \in Machine /\ Taken(d).no = machines[d].no
             /\ Retired(d) \in Machine /\ Retired(d).no = machines[d].no
             /\ machines[d].role \in {"pos", "backoffice"}
  <2>1. machines[d] \in Machine /\ now + CodeLife \in Moment /\ None \in Moment
    BY <1>2, MachineTypes DEF Live, Moment, Time
  <2>2. Again(d) \in Machine /\ Again(d).no = machines[d].no
    BY <2>1 DEF Machine, Again
  <2>3. Taken(d) \in Machine /\ Taken(d).no = machines[d].no
    <3>1. PICK k \in Nat : k = machines[d].enrolled + 1
      BY <2>1 DEF Machine
    <3>2. PICK m \in Machine : m = machines[d]
      BY <2>1
    <3> DEFINE new == [m EXCEPT !.code = FALSE, !.until = None, !.token = TRUE, !.enrolled = k]
    <3>3. Taken(d) = new
      BY <3>1, <3>2, Zenon DEF Taken
    <3>4. new \in Machine /\ new.no = m.no
      BY <2>1 DEF Machine
    <3> HIDE DEF new
    <3> QED BY <3>2, <3>3, <3>4
  <2>4. Retired(d) \in Machine /\ Retired(d).no = machines[d].no
    BY <2>1 DEF Machine, Retired
  <2>5. machines[d].role \in {"pos", "backoffice"}
    BY <2>1 DEF Machine
  <2> QED BY <2>2, <2>3, <2>4, <2>5
<1> QED BY <1>1, <1>2

\* Machines after a step: those it wrote are machines with a number the shop may give.
LEMMA MachinesStay ==
  ASSUME AccessInv, machines' \in [Machines -> Machine \cup {None}],
         \A d \in Machines : \/ machines'[d] = machines[d]
                             \/ machines'[d] # None => machines'[d].no <= MaxDeviceNo + 1
  PROVE  Numbered'
BY DEF AccessInv, Numbered

\* One machine is written.
LEMMA OneMachine ==
  ASSUME AccessInv, NEW d \in Machines, NEW new \in Machine, new.no <= MaxDeviceNo + 1,
         machines' = [machines EXCEPT ![d] = new]
  PROVE  machines' \in [Machines -> Machine \cup {None}] /\ Numbered'
<1>1. machines' \in [Machines -> Machine \cup {None}] /\ machines'[d] = new /\ \A e \in Machines \ {d} : machines'[e] = machines[e]
  BY MachineTypes
<1> QED BY <1>1, MachinesStay

LEMMA MachinesKeep ==
  ASSUME AccessInv, Next
  PROVE  machines' \in [Machines -> Machine \cup {None}] /\ Numbered'
<1>1. ASSUME UNCHANGED machines PROVE machines' \in [Machines -> Machine \cup {None}] /\ Numbered'
  BY <1>1, MachineTypes DEF AccessInv, Numbered
<1>2. ASSUME NEW d \in Machines, Live(d) PROVE machines[d].no <= MaxDeviceNo + 1
  BY <1>2, MachineTypes DEF Live
<1>3. MaxDeviceNo \in Nat /\ 1 <= MaxDeviceNo + 1 /\ NextNo \in Nat /\ (NextNo <= MaxDeviceNo => NextNo <= MaxDeviceNo + 1)
  BY MachineTypes, NextNoTyped
<1>4. ASSUME NEW d \in Machines, CreateTenant(d) PROVE machines' \in [Machines -> Machine \cup {None}] /\ Numbered'
  <2>1. machines' = [machines EXCEPT ![d] = NewMachine(1, "pos")]
    BY <1>4 DEF CreateTenant
  <2>2. NewMachine(1, "pos") \in Machine /\ NewMachine(1, "pos").no = 1
    BY MachineChanges
  <2> QED BY <1>3, <2>1, <2>2, OneMachine
<1>5. ASSUME NEW d \in Machines, NEW role \in {"pos", "backoffice"}, CreateDevice(d, role)
      PROVE  machines' \in [Machines -> Machine \cup {None}] /\ Numbered'
  <2>1. machines' = [machines EXCEPT ![d] = NewMachine(NextNo, role)] /\ NextNo <= MaxDeviceNo
    BY <1>5 DEF CreateDevice
  <2>2. NewMachine(NextNo, role) \in Machine /\ NewMachine(NextNo, role).no = NextNo
    BY <1>3, MachineChanges
  <2> QED BY <1>3, <2>1, <2>2, OneMachine
<1>6. ASSUME NEW d \in Machines, ReissueEnrolCode(d) PROVE machines' \in [Machines -> Machine \cup {None}] /\ Numbered'
  <2>1. machines' = [machines EXCEPT ![d] = Again(d)] /\ Live(d)
    BY <1>6 DEF ReissueEnrolCode, NeverEnrolled, Again
  <2> QED BY <1>2, <2>1, MachineChanges, OneMachine
<1>7. ASSUME NEW d \in Machines, EnrolDevice(d) PROVE machines' \in [Machines -> Machine \cup {None}] /\ Numbered'
  <2>1. machines' = [machines EXCEPT ![d] = Taken(d)] /\ Live(d)
    BY <1>7 DEF EnrolDevice, Taken
  <2> QED BY <1>2, <2>1, MachineChanges, OneMachine
<1>8. ASSUME NEW d \in Machines, RetireDevice(d) PROVE machines' \in [Machines -> Machine \cup {None}] /\ Numbered'
  <2>1. machines' = [machines EXCEPT ![d] = Retired(d)] /\ Live(d)
    BY <1>8 DEF RetireDevice
  <2> QED BY <1>2, <2>1, MachineChanges, OneMachine
<1>9. ASSUME NEW d \in Machines, NEW e \in Machines, ReplaceDevice(d, e)
      PROVE  machines' \in [Machines -> Machine \cup {None}] /\ Numbered'
  <2>1. PICK new : new = NewMachine(NextNo, machines[d].role)
    OBVIOUS
  <2>2. PICK old : old = Retired(d)
    OBVIOUS
  <2>3. machines' = [machines EXCEPT ![d] = old, ![e] = new] /\ Live(d) /\ NextNo <= MaxDeviceNo
    BY <1>9, <2>1, <2>2 DEF ReplaceDevice
  <2>4. new \in Machine /\ new.no <= MaxDeviceNo + 1
    BY <1>3, <2>1, <2>3, MachineChanges
  <2>5. old \in Machine /\ old.no <= MaxDeviceNo + 1
    BY <1>2, <2>2, <2>3, MachineChanges
  <2>6. /\ machines' \in [Machines -> Machine \cup {None}]
        /\ \A x \in Machines : machines'[x] = machines[x] \/ machines'[x] = old \/ machines'[x] = new
    <3>1. machines \in [Machines -> Machine \cup {None}]
      BY MachineTypes
    <3> HIDE DEF Machine
    <3> QED BY <2>3, <2>4, <2>5, <3>1
  <2> QED BY <2>4, <2>5, <2>6, MachinesStay
<1>10. CASE \E r \in Reqs : Request1(r)
  <2>1. PICK r \in Reqs : Request1(r)
    BY <1>10
  <2>2. CASE \E d \in Machines \cup {None} : LoginLookup(r, d)
    BY <1>1, <2>2 DEF LoginLookup
  <2>3. CASE LoginSign(r) \/ RotateRefreshChain(r) \/ RefreshSign(r) \/ ChangeWrite(r) \/ ChangeSign(r) \/ GuardSet(r)
    <3>1. UNCHANGED machines
      BY <2>3 DEF LoginSign, RotateRefreshChain, RefreshSign, ChangeWrite, ChangeSign, GuardSet
    <3> QED BY <1>1, <3>1
  <2>4. CASE \E t \in tokens : RefreshRead(r, t) \/ ChangeRead(r, t) \/ GuardCached(r, t) \/ GuardRead(r, t)
    <3>1. UNCHANGED machines
      BY <2>4 DEF RefreshRead, ChangeRead, GuardCached, GuardRead
    <3> QED BY <1>1, <3>1
  <2>5. CASE \E d \in Machines : GuardPush(r, d)
    BY <1>1, <2>5 DEF GuardPush
  <2> QED BY <2>1, <2>2, <2>3, <2>4, <2>5 DEF Request1
<1>11. CASE \/ Tick \/ IssueOwnerTempPassword \/ PurgeStatus \/ \E status \in Status : UpdateStatus(status)
  BY <1>1, <1>11 DEF Tick, IssueOwnerTempPassword, PurgeStatus, UpdateStatus
<1> QED BY <1>4, <1>5, <1>6, <1>7, <1>8, <1>9, <1>10, <1>11 DEF Next, Platform

\* A step of a request, and what it wrote beside it.
LEMMA RequestTypes ==
  ASSUME AccessInv, NEW r \in Reqs, Moved(r), UNCHANGED <<now, tenant, temps, machines, purging, admin>>,
         Drew(r) => Drew(r)', jtis' = jtis \/ (jtis' = jtis + 1 /\ ~ Drew(r) /\ Drew(r)'),
         cached' \in StatusKey \cup {None}, tokens' \subseteq Token,
         chains' \in [Jtis -> Chain \cup {None}], answers' \in [Jtis -> [rotated : Nat, graced : Nat]],
         UNCHANGED <<user, secrets, replaced>>
         \/ /\ user' \in User /\ user'.must = (user'.expires # None) /\ secrets' = secrets + 1
            /\ replaced' \subseteq [token : Token, of : Nat, changed : Moment]
  PROVE  TypeOK' /\ IdsLeft'
<1>1. IdsLeft'
  BY IdsStayLeft DEF AccessInv
<1>2. jtis' \in Jtis \cup {0}
  BY RoomForOne DEF AccessInv, TypeOK
<1>3. secrets' \in Nat /\ temps' \subseteq 1..secrets'
  BY DEF AccessInv, TypeOK
<1>4. req' \in [Reqs -> Request]
  BY DEF Moved
<1>5. /\ user' \in User /\ user'.must = (user'.expires # None)
      /\ replaced' \subseteq [token : Token, of : Nat, changed : Moment]
  BY DEF AccessInv, TypeOK
<1>6. /\ now' \in 0..MaxTime /\ tenant' \in [status : Status \cup {None}, stopped : Moment]
      /\ purging' \in BOOLEAN /\ machines' \in [Machines -> Machine \cup {None}] /\ admin' \in Nat
  BY DEF AccessInv, TypeOK
<1> QED BY <1>1, <1>2, <1>3, <1>4, <1>5, <1>6 DEF TypeOK

LEMMA RequestKeepsTypes ==
  ASSUME AccessInv, NEW r \in Reqs, Request1(r)
  PROVE  TypeOK' /\ IdsLeft'
<1>0. /\ cached \in StatusKey \cup {None} /\ tokens \subseteq Token /\ chains \in [Jtis -> Chain \cup {None}]
      /\ answers \in [Jtis -> [rotated : Nat, graced : Nat]]
      /\ replaced \subseteq [token : Token, of : Nat, changed : Moment] /\ now \in Nat
  BY LivesAssumption DEF AccessInv, TypeOK
<1>1. ASSUME NEW d \in Machines \cup {None}, LoginLookup(r, d) PROVE TypeOK' /\ IdsLeft'
  <2>1. /\ Moved(r) /\ ~ Drew(r) /\ UNCHANGED <<now, tenant, temps, machines, purging, admin>>
        /\ UNCHANGED <<jtis, cached, tokens, chains, answers, user, secrets, replaced>>
    BY <1>1, LoginLookupFacts DEF rowVars, chainVars, Drew
  <2> QED BY <1>0, <2>1, RequestTypes
<1>2. ASSUME LoginSign(r) \/ ChangeSign(r) PROVE TypeOK' /\ IdsLeft'
  <2>1. /\ Moved(r) /\ UNCHANGED <<now, tenant, temps, machines, purging, admin>> /\ ~ Drew(r) /\ Drew(r)'
        /\ UNCHANGED <<cached, chains, answers, user, secrets, replaced>>
        /\ UNCHANGED <<jtis, tokens>> \/ \E t \in Token : NewLogin(r, t)
    BY <1>2, LoginSignFacts, ChangeSignFacts DEF rowVars, Drew
  <2>2. tokens' \subseteq Token /\ (jtis' = jtis \/ jtis' = jtis + 1)
    BY <1>0, <2>1 DEF NewLogin
  <2> QED BY <1>0, <2>1, <2>2, RequestTypes
<1>3. ASSUME NEW t \in tokens, RefreshRead(r, t) \/ ChangeRead(r, t) PROVE TypeOK' /\ IdsLeft'
  <2>1. /\ Moved(r) /\ ~ Drew(r) /\ UNCHANGED <<now, tenant, temps, machines, purging, admin>>
        /\ UNCHANGED <<jtis, cached, tokens, chains, answers, user, secrets, replaced>>
    BY <1>3, RefreshReadFacts, ChangeReadFacts DEF rowVars, chainVars, Drew
  <2> QED BY <1>0, <2>1, RequestTypes
<1>4. ASSUME RotateRefreshChain(r) PROVE TypeOK' /\ IdsLeft'
  <2>1. /\ Rotates(r) /\ req[r].stage = "rotate" /\ req'[r].stage \in {"sign", "done"}
        /\ chains' \in [Jtis -> Chain \cup {None}] /\ answers' \in [Jtis -> [rotated : Nat, graced : Nat]]
        /\ jtis' = jtis \/ jtis' = jtis + 1
    <3>1. CASE CreateChain(r, req[r].tok)
      BY <1>4, <3>1, CreateFacts DEF Answered, Counted
    <3>2. CASE JudgeChain(r, req[r].tok)
      <4>1. PICK t \in tokens : t = req[r].tok /\ t \in Token
        BY <1>4, Held DEF RotateRefreshChain
      <4>2. PICK f \in Jtis : f = FamilyId(t)
        BY ChainTypes
      <4> QED BY <1>0, <1>4, <3>2, <4>1, <4>2, JudgeFacts DEF Answered, Counted, Rechained
    <3> QED BY <1>4, <3>1, <3>2 DEF RotateRefreshChain
  <2>2. /\ Moved(r) /\ ~ Drew(r) /\ Drew(r)' /\ UNCHANGED <<now, tenant, temps, machines, purging, admin>>
        /\ UNCHANGED <<cached, tokens, user, secrets, replaced>>
    BY <2>1 DEF Rotates, rowVars, Drew
  <2> QED BY <1>0, <2>1, <2>2, RequestTypes
<1>5. ASSUME RefreshSign(r) PROVE TypeOK' /\ IdsLeft'
  <2>1. /\ Moved(r) /\ Drew(r)' /\ UNCHANGED <<now, tenant, temps, machines, purging, admin>>
        /\ UNCHANGED <<jtis, cached, chains, answers, user, secrets, replaced>>
    BY <1>5, RefreshSignFacts DEF rowVars, Drew
  <2>2. tokens' \subseteq Token
    BY <1>0, <1>5, RefreshSignFacts
  <2> QED BY <1>0, <2>1, <2>2, RequestTypes
<1>6. ASSUME ChangeWrite(r) PROVE TypeOK' /\ IdsLeft'
  <2>1. /\ Moved(r) /\ req[r].stage = "write" /\ UNCHANGED <<now, tenant, temps, machines, purging, admin>>
        /\ UNCHANGED <<jtis, cached, chains, answers, tokens>>
    BY <1>6, ChangeWriteFacts DEF chainVars
  <2>2. ~ Drew(r)
    BY <2>1 DEF Drew
  <2>3. \/ UNCHANGED <<user, secrets, replaced>>
        \/ /\ user' \in User /\ user'.must = (user'.expires # None) /\ secrets' = secrets + 1
           /\ replaced' \subseteq [token : Token, of : Nat, changed : Moment]
    <3>1. CASE UNCHANGED <<user, secrets, replaced>>
      BY <3>1
    <3>2. CASE /\ secrets' = secrets + 1 /\ user' \in User /\ ~ user'.must /\ user'.expires = None
               /\ replaced' = replaced \cup {[token |-> req[r].tok, of |-> user.hash, changed |-> user.changed]}
      <4>1. user'.must = (user'.expires # None)
        BY <3>2 DEF User
      <4>2. user.hash \in Nat /\ user.changed \in Moment /\ req[r].tok \in Token
        BY <2>1, Held, PasswordTypes DEF User
      <4>3. [token |-> req[r].tok, of |-> user.hash, changed |-> user.changed] \in [token : Token, of : Nat, changed : Moment]
        BY <4>2
      <4>4. replaced' \subseteq [token : Token, of : Nat, changed : Moment]
        BY <1>0, <3>2, <4>3
      <4> QED BY <3>2, <4>1, <4>4
    <3> QED BY <1>6, <3>1, <3>2, ChangeWriteFacts
  <2> QED BY <1>0, <2>1, <2>2, <2>3, RequestTypes
<1>7. ASSUME \/ \E t \in tokens : GuardCached(r, t) \/ GuardRead(r, t)
             \/ GuardSet(r) \/ \E d \in Machines : GuardPush(r, d)
      PROVE  TypeOK' /\ IdsLeft'
  <2>1. /\ Moved(r) /\ req[r].stage \in {"idle", "set"} /\ UNCHANGED <<now, tenant, temps, machines, purging, admin>>
        /\ UNCHANGED <<jtis, chains, answers, tokens, user, secrets, replaced>>
        /\ cached' = cached \/ cached' = [status |-> req[r].status, until |-> StatusUntil]
    BY <1>7, GuardFacts DEF chainVars
  <2>2. ~ Drew(r)
    BY <2>1 DEF Drew
  <2>3. cached' \in StatusKey \cup {None}
    <3>1. req[r].status \in Status \cup {None} /\ StatusUntil \in Time
      BY <1>0, LivesAssumption DEF AccessInv, TypeOK, Request, StatusUntil, Time
    <3> QED BY <1>0, <2>1, <3>1 DEF StatusKey
  <2> QED BY <1>0, <2>1, <2>2, <2>3, RequestTypes
<1> QED BY <1>1, <1>2, <1>3, <1>4, <1>5, <1>6, <1>7 DEF Request1

\* A step of the platform, or a second.
LEMMA OtherKeepsTypes ==
  ASSUME AccessInv, Platform \/ Tick, machines' \in [Machines -> Machine \cup {None}]
  PROVE  TypeOK' /\ IdsLeft'
<1>1. UNCHANGED <<jtis, chains, answers, tokens, req, replaced>>
  BY PlatformFrame DEF Tick, chainVars
<1>2. /\ jtis' \in Jtis \cup {0} /\ chains' \in [Jtis -> Chain \cup {None}] /\ tokens' \subseteq Token
      /\ req' \in [Reqs -> Request] /\ answers' \in [Jtis -> [rotated : Nat, graced : Nat]]
      /\ replaced' \subseteq [token : Token, of : Nat, changed : Moment] /\ IdsLeft'
  BY <1>1 DEF AccessInv, TypeOK, IdsLeft, Drew
<1>3. /\ now \in 0..MaxTime /\ tenant \in [status : Status \cup {None}, stopped : Moment]
      /\ cached \in StatusKey \cup {None} /\ purging \in BOOLEAN
      /\ user \in User /\ user.must = (user.expires # None) /\ secrets \in Nat /\ temps \subseteq 1..secrets /\ admin \in Nat
      /\ {TempLife, ResetLife, MaxTime} \subseteq Nat /\ None \notin Nat /\ "active" \in Status
  BY LivesAssumption, PasswordTypes DEF AccessInv, TypeOK, Status
<1>4. now' \in 0..MaxTime
  <2>1. CASE Platform
    BY <1>3, <2>1, PlatformFrame
  <2>2. CASE Tick
    BY <1>3, <2>2 DEF Tick
  <2> QED BY <2>1, <2>2
<1>5. tenant' \in [status : Status \cup {None}, stopped : Moment]
  <2>1. tenant.stopped \in Moment /\ now \in Moment /\ None \in Moment
    BY <1>3 DEF Moment, Time
  <2>2. ASSUME NEW status \in Status, UpdateStatus(status) PROVE tenant' \in [status : Status \cup {None}, stopped : Moment]
    BY <2>1, <2>2 DEF UpdateStatus
  <2>3. ASSUME NEW d \in Machines, CreateTenant(d) PROVE tenant' \in [status : Status \cup {None}, stopped : Moment]
    BY <1>3, <2>1, <2>3 DEF CreateTenant
  <2>4. CASE \/ Tick \/ PurgeStatus \/ IssueOwnerTempPassword
             \/ \E d \in Machines :
                  \/ ReissueEnrolCode(d) \/ EnrolDevice(d) \/ RetireDevice(d)
                  \/ \E role \in {"pos", "backoffice"} : CreateDevice(d, role)
                  \/ \E e \in Machines : ReplaceDevice(d, e)
    BY <1>3, <2>4 DEF Tick, PurgeStatus, IssueOwnerTempPassword, ReissueEnrolCode, EnrolDevice, RetireDevice,
                      CreateDevice, ReplaceDevice
  <2> QED BY <2>2, <2>3, <2>4 DEF Platform
<1>6. cached' \in StatusKey \cup {None} /\ purging' \in BOOLEAN
  BY <1>3 DEF Platform, Tick, PurgeStatus, IssueOwnerTempPassword, UpdateStatus, CreateTenant, ReissueEnrolCode,
              EnrolDevice, RetireDevice, CreateDevice, ReplaceDevice
<1>7. admin' \in Nat
  <2>1. admin' = admin \/ admin' = admin + 1
    BY DEF Platform, Tick, PurgeStatus, IssueOwnerTempPassword, UpdateStatus, CreateTenant, ReissueEnrolCode,
           EnrolDevice, RetireDevice, CreateDevice, ReplaceDevice, Operate
  <2> QED BY <1>3, <2>1
<1>8. /\ user' \in User /\ user'.must = (user'.expires # None)
      /\ secrets' \in Nat /\ temps' \subseteq 1..secrets'
  <2>1. CASE \/ IssueOwnerTempPassword \/ \E d \in Machines : CreateTenant(d)
    <3>1. secrets' = secrets + 1 /\ temps' = temps \cup {secrets + 1}
      BY <2>1 DEF IssueOwnerTempPassword, CreateTenant
    <3>2. PICK until \in Nat, changed \in Moment, active \in BOOLEAN :
             user' = [hash |-> secrets + 1, must |-> TRUE, expires |-> until, changed |-> changed, active |-> active]
      <4>1. now + TempLife \in Nat /\ now + ResetLife \in Nat /\ now \in Moment /\ None \in Moment
        BY <1>3 DEF Moment, Time
      <4>2. ASSUME NEW d \in Machines, CreateTenant(d)
            PROVE  user' = [hash |-> secrets + 1, must |-> TRUE, expires |-> now + TempLife, changed |-> None, active |-> TRUE]
        BY <4>2 DEF CreateTenant
      <4>3. ASSUME IssueOwnerTempPassword
            PROVE  user' = [hash |-> secrets + 1, must |-> TRUE, expires |-> now + ResetLife, changed |-> now,
                            active |-> user.active] /\ user.active \in BOOLEAN
        BY <1>3, <4>3 DEF IssueOwnerTempPassword, User
      <4> QED BY <2>1, <4>1, <4>2, <4>3
    <3>3. secrets + 1 \in Nat /\ until \in Moment /\ until # None
      BY <1>3 DEF Moment, Time
    <3>4. user' \in User /\ user'.must = (user'.expires # None)
      BY <3>2, <3>3 DEF User
    <3> QED BY <1>3, <3>1, <3>4
  <2>2. CASE \/ Tick \/ PurgeStatus \/ \E status \in Status : UpdateStatus(status)
             \/ \E d \in Machines :
                  \/ ReissueEnrolCode(d) \/ EnrolDevice(d) \/ RetireDevice(d)
                  \/ \E role \in {"pos", "backoffice"} : CreateDevice(d, role)
                  \/ \E e \in Machines : ReplaceDevice(d, e)
    <3>1. UNCHANGED <<user, secrets, temps>>
      BY <2>2 DEF Tick, PurgeStatus, UpdateStatus, ReissueEnrolCode, EnrolDevice, RetireDevice, CreateDevice, ReplaceDevice
    <3> QED BY <1>3, <3>1
  <2> QED BY <2>1, <2>2 DEF Platform
<1> QED BY <1>2, <1>4, <1>5, <1>6, <1>7, <1>8 DEF TypeOK

-----------------------------------------------------------------------------
(* The invariant *)

\* A shop about to be created, or one that has run for long.
LEMMA InitAccess == Init => AccessInv
<1> SUFFICES ASSUME Init PROVE AccessInv
  OBVIOUS
<1>1. /\ now = 0 /\ cached = None /\ purging = FALSE /\ temps = {} /\ replaced = {} /\ admin = 0
      /\ chains = [f \in Jtis |-> None] /\ req = [r \in Reqs |-> Idle]
      /\ answers = [j \in Jtis |-> [rotated |-> 0, graced |-> 0]]
  BY DEF Init
<1>2. /\ MaxTime \in Nat /\ MaxDeviceNo \in Nat /\ None \notin Nat /\ 1 \in Jtis /\ "active" # None
      /\ Idle \in Request /\ Idle.stage = "idle" /\ {CodeLife, StatusTtl, Slow} \subseteq Nat
      /\ RefreshExpiry(0) \in Nat /\ None \in Moment
  <2>1. Cardinality(Reqs) \in Nat
    BY NamesAssumption, FS_CardinalityType
  <2>2. 1 \in Jtis
    BY <2>1 DEF Jtis
  <2>3. None \notin Int /\ "active" # None
    BY NamesAssumption DEF Status
  <2>4. None \notin Nat
    BY <2>3
  <2>5. RefreshExpiry(0) \in Nat
    BY ExpiryTyped
  <2> QED BY <2>2, <2>3, <2>4, <2>5, LivesAssumption, IdleTyped DEF Moment
<1>3. NoUser \in User /\ [NoUser EXCEPT !.hash = 1, !.active = TRUE] \in User
  BY <1>2 DEF NoUser, User
\* The shop, its owner, its machines and its tokens.
<1>4. /\ \/ tenant = [status |-> None, stopped |-> None] /\ tokens = {} /\ secrets = 0 /\ jtis = 0 /\ user = NoUser
         \/ /\ tenant = [status |-> "active", stopped |-> None] /\ secrets = 1 /\ jtis = 1
            /\ user = [NoUser EXCEPT !.hash = 1, !.active = TRUE]
            /\ \E t \in Token : /\ tokens = {t} /\ t.typ = "session" /\ t.jti = 1 /\ t.fid = None /\ t.iat = 0
                                /\ t.pw = 1
      /\ machines \in [Machines -> Machine \cup {None}]
      /\ \A d \in Machines : machines[d] # None => machines[d].no = 1
  <2>1. CASE /\ tenant = [status |-> None, stopped |-> None] /\ user = NoUser /\ secrets = 0 /\ jtis = 0
             /\ machines = [d \in Machines |-> None] /\ tokens = {}
    BY <2>1
  <2>2. ASSUME NEW d \in Machines,
               machines = [x \in Machines |->
                             IF x = d THEN [NewMachine(1, "pos") EXCEPT
                                              !.code = FALSE, !.until = None, !.token = TRUE, !.enrolled = 1]
                             ELSE None],
               tokens = {[typ |-> "session", jti |-> 1, fid |-> None, iat |-> 0,
                          exp |-> RefreshExpiry(0), did |-> d, pw |-> 1, crossed |-> FALSE]}
        PROVE  /\ \E t \in Token : /\ tokens = {t} /\ t.typ = "session" /\ t.jti = 1 /\ t.fid = None /\ t.iat = 0
                                   /\ t.pw = 1
               /\ machines \in [Machines -> Machine \cup {None}]
               /\ \A x \in Machines : machines[x] # None => machines[x].no = 1
    <3>1. PICK t : t = [typ |-> "session", jti |-> 1, fid |-> None, iat |-> 0,
                        exp |-> RefreshExpiry(0), did |-> d, pw |-> 1, crossed |-> FALSE]
      OBVIOUS
    <3>2. t \in Token /\ t.typ = "session" /\ t.jti = 1 /\ t.fid = None /\ t.iat = 0 /\ t.pw = 1
      BY <1>2, <3>1 DEF Token, Time
    <3>3. PICK m : m = [NewMachine(1, "pos") EXCEPT !.code = FALSE, !.until = None, !.token = TRUE, !.enrolled = 1]
      OBVIOUS
    <3>4. m = [no |-> 1, role |-> "pos", code |-> FALSE, until |-> None, token |-> TRUE, retired |-> FALSE,
               enrolled |-> 1]
      BY <3>3 DEF NewMachine
    <3>5. m \in Machine /\ m.no = 1
      BY <1>2, <3>4 DEF Machine
    <3>6. machines = [x \in Machines |-> IF x = d THEN m ELSE None]
      BY <2>2, <3>3
    <3>7. machines \in [Machines -> Machine \cup {None}] /\ \A x \in Machines : machines[x] # None => machines[x].no = 1
      BY <3>5, <3>6
    <3> QED BY <2>2, <3>1, <3>2, <3>7
  <2> QED BY <2>1, <2>2 DEF Init
<1>5. IdsLeft
  <2>1. {r \in Reqs : Drew(r)} = {}
    BY <1>1, <1>2 DEF Drew
  <2>2. Cardinality({r \in Reqs : Drew(r)}) = 0
    BY <2>1, FS_EmptySet
  <2> QED BY <1>4, <2>2 DEF IdsLeft
<1>6. TypeOK
  <2>1. user \in User /\ user.must = (user.expires # None)
    <3>1. NoUser.must = (NoUser.expires # None)
      BY DEF NoUser
    <3>2. [NoUser EXCEPT !.hash = 1, !.active = TRUE].must = ([NoUser EXCEPT !.hash = 1, !.active = TRUE].expires # None)
      BY DEF NoUser
    <3> QED BY <1>3, <1>4, <3>1, <3>2
  <2>2. tenant \in [status : Status \cup {None}, stopped : Moment]
    BY <1>2, <1>4 DEF Status
  <2>3. secrets \in Nat /\ temps \subseteq 1..secrets /\ jtis \in Jtis \cup {0} /\ tokens \subseteq Token
    BY <1>1, <1>2, <1>4
  <2>4. now \in 0..MaxTime /\ admin \in Nat
    BY <1>1, <1>2
  <2>8. cached \in StatusKey \cup {None} /\ purging \in BOOLEAN
    BY <1>1
  <2>5. chains \in [Jtis -> Chain \cup {None}] /\ req \in [Reqs -> Request]
    BY <1>1, <1>2
  <2>6. answers \in [Jtis -> [rotated : Nat, graced : Nat]]
    BY <1>1
  <2>7. replaced \subseteq [token : Token, of : Nat, changed : Moment]
    BY <1>1
  <2> QED BY <1>4, <2>1, <2>2, <2>3, <2>4, <2>5, <2>6, <2>7, <2>8 DEF TypeOK
<1>7. Numbered
  BY <1>2, <1>4 DEF Numbered
<1>8. \A r \in Reqs : req[r].stage = "idle"
  BY <1>1, <1>2
<1>9. \A t \in tokens : t.typ = "session" /\ t.jti = 1 /\ FamilyId(t) = 1 /\ t.iat = 0 /\ t.pw = 1 /\ jtis = 1
  BY <1>4 DEF FamilyId
<1>10. \A f \in Jtis : chains[f] = None /\ answers[f].rotated = 0 /\ answers[f].graced = 0
  BY <1>1
<1>11. ChainInv
  <2>1. OneExpiry
    BY <1>4 DEF OneExpiry
  <2>2. IdsDrawn
    BY <1>9 DEF IdsDrawn
  <2>3. Spent /\ ChainsTrue /\ ChainsApart
    BY <1>10 DEF Spent, ChainsTrue, ChainsApart
  <2>4. RootsTrue /\ BranchesTrue
    BY <1>2, <1>4, <1>9, <1>10 DEF RootsTrue, RootTrue, BranchesTrue
  <2>5. \A r \in Reqs : ChainRequest(r)
    BY <1>8 DEF ChainRequest
  <2> QED BY <2>1, <2>2, <2>3, <2>4, <2>5 DEF ChainInv
<1>12. PasswordInv
  <2>1. NobodyYet
    BY <1>2, <1>4, <1>8 DEF NobodyYet
  <2>2. user.hash = secrets /\ user.changed = None
    <3>1. NoUser.hash = 0 /\ NoUser.changed = None
      BY DEF NoUser
    <3>2. /\ [NoUser EXCEPT !.hash = 1, !.active = TRUE].hash = 1
          /\ [NoUser EXCEPT !.hash = 1, !.active = TRUE].changed = None
      BY DEF NoUser
    <3> QED BY <1>4, <3>1, <3>2
  <2>3. OwnerTrue
    BY <1>1, <1>4, <2>2 DEF OwnerTrue
  <2>4. \A t \in tokens : TokenTrue(t)
    <3>1. \A t \in tokens : secrets = 1
      BY <1>4
    <3> QED BY <1>1, <1>9, <2>2, <3>1 DEF TokenTrue
  <2>5. \A r \in Reqs : PasswordRequest(r)
    BY <1>8 DEF PasswordRequest
  <2>6. ResetStands
    BY <1>1 DEF ResetStands
  <2> QED BY <2>1, <2>3, <2>4, <2>5, <2>6 DEF PasswordInv
<1>13. StatusInv
  BY <1>1, <1>4, <1>8 DEF StatusInv, StoppedTrue, CachedTrue, StatusRequest
<1> QED BY <1>5, <1>6, <1>7, <1>11, <1>12, <1>13 DEF AccessInv

LEMMA NextAccess == AccessInv /\ [Next]_vars => AccessInv'
<1> SUFFICES ASSUME AccessInv, [Next]_vars PROVE AccessInv'
  OBVIOUS
<1>1. CASE Next
  <2>1. ChainInv' /\ PasswordInv' /\ StatusInv'
    BY <1>1, ChainsKeep, PasswordsKeep, StatusesKeep
  <2>2. machines' \in [Machines -> Machine \cup {None}] /\ Numbered'
    BY <1>1, MachinesKeep
  <2>3. TypeOK' /\ IdsLeft'
    BY <1>1, <2>2, RequestKeepsTypes, OtherKeepsTypes DEF Next
  <2> QED BY <2>1, <2>2, <2>3 DEF AccessInv
<1>2. CASE UNCHANGED vars
  <2>1. TypeOK' /\ Numbered' /\ IdsLeft'
    BY <1>2 DEF AccessInv, TypeOK, Numbered, IdsLeft, Drew, vars
  <2>2. ChainInv'
    BY <1>2, ChainFrame DEF vars, chainVars
  <2>3. PasswordInv'
    <3>1. NobodyYet'
      BY <1>2, PasswordParts DEF NobodyYet, vars
    <3> QED BY <1>2, <3>1, PasswordFrame DEF vars
  <2>4. StatusInv'
    BY <1>2, QuietStatus DEF vars
  <2> QED BY <2>1, <2>2, <2>3, <2>4 DEF AccessInv
<1> QED BY <1>1, <1>2

LEMMA AccessHolds == Spec => []AccessInv
BY InitAccess, NextAccess, PTL DEF Spec

(* Every row of the shop's access has its type, and a temporary password has *)
(* an expiry and no other has (ck_users_temp_password_expiry).              *)
THEOREM AccessTypes == Spec => []TypeOK
<1>1. AccessInv => TypeOK
  BY DEF AccessInv
<1> QED BY <1>1, AccessHolds, PTL

(* rotateRefreshChain: however many requests present one refresh token at   *)
(* once, it is rotated at most once and answered at most once more.         *)
THEOREM OneChain == Spec => []NoFork
<1>1. AccessInv => NoFork
  BY DEF AccessInv, ChainInv, Spent, NoFork
<1> QED BY <1>1, AccessHolds, PTL

(* The prune of refresh_families: a refresh token that still verifies finds *)
(* its chain, for a chain goes a day after its tokens are dead.             *)
THEOREM LiveTokensKeepTheirChain == Spec => []ChainKept
<1>1. AccessInv => ChainKept
  <2> SUFFICES ASSUME AccessInv, NEW t \in tokens, t.fid # None, now < t.exp + Skew PROVE chains[t.fid] # None
    BY DEF ChainKept
  <2>1. t.exp \in Nat /\ now \in Nat /\ {Skew, Slow, Keep} \subseteq Nat /\ Skew + Slow <= Keep
    BY ChainTypes
  <2>2. ~ Dead(t)
    BY <2>1 DEF Dead
  <2> QED BY <2>2 DEF AccessInv, ChainInv, BranchesTrue
<1> QED BY <1>1, AccessHolds, PTL

(* refreshTokenPayload, changePassword: a session opened with a password    *)
(* that is no longer the owner's is dead, and a temporary password opens    *)
(* none and lets no push in.                                                *)
THEOREM SessionsEndWithTheirPassword == Spec => []OldSessionsEnd
<1>1. AccessInv => OldSessionsEnd
  BY PasswordParts DEF OldSessionsEnd, TokenTrue, PasswordRequest
<1> QED BY <1>1, AccessHolds, PTL

(* changePassword's UPDATE: a temporary password is replaced only through a *)
(* login with that very password, but for one that was overtaken or signed  *)
(* in the second of the change.                                             *)
THEOREM OnlyItsLoginReplaces == Spec => []ResetStands
<1>1. AccessInv => ResetStands
  BY PasswordParts
<1> QED BY <1>1, AccessHolds, PTL

(* TenantGuard: a request is let in at most a TTL of the key and one slow   *)
(* call after its shop was suspended or closed, whatever became of the      *)
(* purge and of the guards that had read the status before.                 *)
THEOREM StoppedShopsStop == Spec => []StopsWithinTtl
<1>1. AccessInv => StopsWithinTtl
  BY DEF AccessInv, StatusInv, StatusRequest, StopsWithinTtl
<1> QED BY <1>1, AccessHolds, PTL
=============================================================================
