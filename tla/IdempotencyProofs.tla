-------------------------- MODULE IdempotencyProofs --------------------------
(***************************************************************************)
(* Proofs about Idempotency, for any number of requests, keys and any      *)
(* life, ceiling and clock bound.                                          *)
(***************************************************************************)
EXTENDS Idempotency, TLAPS

Owning == {"claimed", "worked", "completed"}

\* The uncommitted row of a key belongs to the one attempt that is between its
\* insert and its commit, and there is no committed row beside it.
ClaimInv ==
    /\ \A k \in Keys : claim[k].owner # Nobody =>
          /\ key[claim[k].owner] = k
          /\ phase[claim[k].owner] \in Owning
          /\ row[k].owner = Nobody
    /\ \A r \in Reqs : phase[r] \in Owning => claim[key[r]].owner = r
    /\ \A r \in Reqs : phase[r] = "completed" => claim[key[r]].status = "done"

\* Committed work belongs to attempts that are over; committed rows are done.
CommitInv ==
    /\ \A r \in executed : phase[r] = "over"
    /\ \A k \in Keys : row[k].owner # Nobody => row[k].status = "done"

\* A retry known to be a repeat has seen committed work under its key.
RepeatInv ==
    \A r \in Reqs : phase[r] \in {"repeat", "reading"} =>
        \E s \in executed : key[s] = key[r]

\* Whatever is in Redis, on its way there, or about to be sent, is committed work.
CopyInv ==
    /\ \A k \in Keys : cache[k].body # Nobody =>
          cache[k].body \in executed /\ key[cache[k].body] = k
    /\ \A s \in sets : s.body \in executed /\ key[s.body] = s.key
    /\ \A r \in Reqs : phase[r] = "caching" =>
          /\ found[r].body \in executed
          /\ key[found[r].body] = key[r]
          /\ print[found[r].body] = print[r]

\* An attempt is answered when it ends, not before.
AnswerInv == \A r \in Reqs : phase[r] # "over" => answer[r] = Unanswered

IInv ==
    /\ TypeOK
    /\ AnswerInv
    /\ ClaimInv
    /\ CommitInv
    /\ RepeatInv
    /\ CopyInv
    /\ RecordIffWork
    /\ SuccessIsReal
    /\ ConflictIsReal

-----------------------------------------------------------------------------
\* The actions, named one by one: the case split of every step proof below.
LEMMA Steps ==
  ASSUME [Next]_vars
  PROVE  \/ \E r \in Reqs :
              \/ Begin(r) \/ Fail(r) \/ Crash(r) \/ TimeOutClaim(r) \/ RefuseCommit(r)
              \/ InsertClaim(r) \/ FindRepeat(r) \/ MissCache(r) \/ Work(r) \/ HitCache(r)
              \/ FindNoRow(r) \/ ReadRow(r) \/ WriteCache(r) \/ Complete(r)
              \/ Commit(r) \/ CommitUnacknowledged(r)
         \/ \E s \in sets : ApplySet(s)
         \/ \E k \in Keys : Cleanup(k)
         \/ Tick
         \/ UNCHANGED vars
BY DEF Next, Serve

\* What the answers are made of.
LEMMA AnswerTypes ==
  /\ Unanswered \in Answers
  /\ \A why \in {"error", "in_flight", "reused"} : Refused(why) \in Answers
  /\ \A b \in Reqs : Ok(b) \in Answers
  /\ \A r, b \in Reqs : Decide(r, b) \in Answers
BY DEF Answers, Unanswered, Refused, Ok, Decide, SameRequest

LEMMA InitTypeOK == Init => TypeOK
BY TimeAssumption DEF Init, TypeOK, Unclaimed, NoRow, NoEntry, NothingFound,
   Unanswered, Answers, Phases, Status

LEMMA TypeStep ==
  ASSUME TypeOK, CopyInv, [Next]_vars
  PROVE  TypeOK'
<1> USE TimeAssumption
<1>1. ASSUME NEW r \in Reqs, Begin(r) PROVE TypeOK'
  BY <1>1 DEF Begin, TypeOK, Phases
<1>2. ASSUME NEW r \in Reqs, NEW a \in Answers, RollBack(r, a) PROVE TypeOK'
  BY <1>2 DEF RollBack, Released, Unclaimed, TypeOK, Phases, Status
<1>3. ASSUME NEW r \in Reqs, Fail(r) \/ Crash(r) \/ TimeOutClaim(r) \/ RefuseCommit(r)
      PROVE TypeOK'
  BY <1>2, <1>3, AnswerTypes DEF Fail, Crash, TimeOutClaim, RefuseCommit
<1>4. ASSUME NEW r \in Reqs, InsertClaim(r) PROVE TypeOK'
  BY <1>4 DEF InsertClaim, TypeOK, Phases, Status
<1>5. ASSUME NEW r \in Reqs, FindRepeat(r) \/ MissCache(r) \/ Work(r) PROVE TypeOK'
  BY <1>5 DEF FindRepeat, MissCache, Work, TypeOK, Phases
<1>6. ASSUME NEW r \in Reqs, HitCache(r) PROVE TypeOK'
  <2>1. cache[key[r]].body \in Reqs
    BY <1>6 DEF HitCache, TypeOK
  <2> QED BY AnswerTypes, <1>6, <2>1 DEF HitCache, Conclude, TypeOK, Phases
<1>7. ASSUME NEW r \in Reqs, FindNoRow(r) PROVE TypeOK'
  BY AnswerTypes, <1>7 DEF FindNoRow, Conclude, TypeOK, Phases
<1>8. ASSUME NEW r \in Reqs, ReadRow(r) PROVE TypeOK'
  <2>1. row[key[r]].owner \in Reqs
    BY <1>8 DEF ReadRow, TypeOK
  <2>2. RemainingLife(r) \in Nat
    BY DEF RemainingLife, TypeOK
  <2>3. Decide(r, row[key[r]].owner) \in Answers
    BY <2>1, AnswerTypes
  <2>4. CASE Conclude(r, Decide(r, row[key[r]].owner)) /\ UNCHANGED found
    BY <1>8, <2>3, <2>4 DEF ReadRow, Conclude, TypeOK, Phases
  <2>5. CASE /\ phase' = [phase EXCEPT ![r] = "caching"]
             /\ found' = [found EXCEPT ![r] = [body |-> row[key[r]].owner,
                                              ttl |-> RemainingLife(r)]]
             /\ UNCHANGED answer
    BY <1>8, <2>1, <2>2, <2>5 DEF ReadRow, TypeOK, Phases
  <2> QED BY <1>8, <2>4, <2>5 DEF ReadRow
<1>9. ASSUME NEW r \in Reqs, WriteCache(r) PROVE TypeOK'
  <2>1. found[r].body \in Reqs /\ found[r].ttl \in Nat
    BY <1>9 DEF WriteCache, CopyInv, TypeOK
  <2>2. Ok(found[r].body) \in Answers
    BY <2>1, AnswerTypes
  <2>3. sets' \subseteq [key : Keys, body : Reqs, ttl : Nat \ {0}]
    BY <1>9, <2>1 DEF WriteCache, TypeOK
  <2> QED BY <1>9, <2>2, <2>3 DEF WriteCache, Conclude, TypeOK, Phases
<1>10. ASSUME NEW r \in Reqs, Complete(r) PROVE TypeOK'
  BY <1>10 DEF Complete, TypeOK, Phases, Status
<1>11. ASSUME NEW r \in Reqs, NEW a \in Answers, Publish(r),
              answer' = [answer EXCEPT ![r] = a],
              UNCHANGED <<now, key, print, began, cache, found, sets>>
       PROVE TypeOK'
  BY <1>11 DEF Publish, Released, Unclaimed, TypeOK, Phases, Status
<1>12. ASSUME NEW r \in Reqs, Commit(r) \/ CommitUnacknowledged(r) PROVE TypeOK'
  BY <1>11, <1>12, AnswerTypes DEF Commit, CommitUnacknowledged
<1>13. ASSUME NEW s \in sets, ApplySet(s) PROVE TypeOK'
  BY <1>13 DEF ApplySet, TypeOK
<1>14. ASSUME NEW k \in Keys, Cleanup(k) PROVE TypeOK'
  BY <1>14 DEF Cleanup, NoRow, TypeOK, Status
<1>15. CASE Tick
  BY <1>15 DEF Tick, TypeOK
<1>16. CASE UNCHANGED vars
  BY <1>16 DEF vars, TypeOK
<1> QED
  BY <1>1, <1>3, <1>4, <1>5, <1>6, <1>7, <1>8, <1>9, <1>10, <1>12, <1>13, <1>14,
     <1>15, <1>16, Steps

\* Publishing: the commit of an attempt, acknowledged or not.
LEMMA Committing ==
  ASSUME NEW r \in Reqs, Commit(r) \/ CommitUnacknowledged(r)
  PROVE  /\ phase[r] = "completed"
         /\ Publish(r)
         /\ \E a \in {Ok(r), Unanswered, Refused("error")} :
               answer' = [answer EXCEPT ![r] = a]
         /\ UNCHANGED <<now, key, print, began, cache, found, sets>>
BY DEF Commit, CommitUnacknowledged

\* Rolling back: the four ways an attempt ends without a commit.
LEMMA RollingBack ==
  ASSUME NEW r \in Reqs, Fail(r) \/ Crash(r) \/ TimeOutClaim(r) \/ RefuseCommit(r)
  PROVE  \E a \in {Unanswered, Refused("error"), Refused("in_flight")} : RollBack(r, a)
BY DEF Fail, Crash, TimeOutClaim, RefuseCommit

LEMMA ClaimStep ==
  ASSUME IInv, [Next]_vars
  PROVE  ClaimInv'
<1> USE NobodyAssumption DEF IInv
<1>1. ASSUME NEW r \in Reqs, Begin(r) PROVE ClaimInv'
  BY <1>1 DEF Begin, TypeOK, ClaimInv, Owning
<1>2. ASSUME NEW r \in Reqs, NEW a, RollBack(r, a) PROVE ClaimInv'
  BY <1>2 DEF RollBack, Released, Unclaimed, TypeOK, ClaimInv, Owning
<1>3. ASSUME NEW r \in Reqs, Fail(r) \/ Crash(r) \/ TimeOutClaim(r) \/ RefuseCommit(r)
      PROVE ClaimInv'
  BY <1>2, <1>3, RollingBack
<1>4. ASSUME NEW r \in Reqs, InsertClaim(r) PROVE ClaimInv'
  BY <1>4 DEF InsertClaim, TypeOK, ClaimInv, Owning
<1>5. ASSUME NEW r \in Reqs, NEW p \in Phases \ Owning, phase[r] \notin Owning,
             phase' = [phase EXCEPT ![r] = p], UNCHANGED <<key, claim, row>>
      PROVE ClaimInv'
  <2>1. ASSUME NEW q \in Reqs
        PROVE  /\ phase'[q] \in Owning <=> phase[q] \in Owning
               /\ phase'[q] = "completed" <=> phase[q] = "completed"
    BY <1>5 DEF TypeOK, Owning
  <2>2. \A k \in Keys : claim[k].owner \in Reqs \cup {Nobody}
    BY DEF TypeOK
  <2> QED BY <1>5, <2>1, <2>2 DEF ClaimInv
<1>6. ASSUME NEW r \in Reqs,
             FindRepeat(r) \/ MissCache(r) \/ HitCache(r) \/ FindNoRow(r) \/ ReadRow(r)
             \/ WriteCache(r)
      PROVE ClaimInv'
  <2>1. /\ phase[r] \notin Owning
        /\ \E p \in Phases \ Owning : phase' = [phase EXCEPT ![r] = p]
        /\ UNCHANGED <<key, claim, row>>
    BY <1>6 DEF FindRepeat, MissCache, HitCache, FindNoRow, ReadRow, WriteCache, Conclude,
       Owning, Phases
  <2> QED BY <1>5, <2>1
<1>61. ASSUME NEW r \in Reqs, Work(r) PROVE ClaimInv'
  BY <1>61 DEF Work, TypeOK, ClaimInv, Owning
<1>7. ASSUME NEW r \in Reqs, Complete(r) PROVE ClaimInv'
  BY <1>7 DEF Complete, TypeOK, ClaimInv, Owning
<1>8. ASSUME NEW r \in Reqs, Commit(r) \/ CommitUnacknowledged(r) PROVE ClaimInv'
  <2>1. /\ phase[r] = "completed"
        /\ phase' = [phase EXCEPT ![r] = "over"]
        /\ claim' = Released(r)
        /\ UNCHANGED key
        /\ \A k \in Keys : k # key[r] => row'[k] = row[k]
    BY <1>8, Committing DEF Publish, TypeOK
  <2>2. claim[key[r]].owner = r /\ key[r] \in Keys
    BY <2>1 DEF ClaimInv, Owning, TypeOK
  <2>3. \A k \in Keys : claim'[k] = IF k = key[r] THEN Unclaimed ELSE claim[k]
    BY <2>1, <2>2 DEF Released, ClaimInv, TypeOK
  <2>4. ASSUME NEW k \in Keys, claim'[k].owner # Nobody
        PROVE  /\ key'[claim'[k].owner] = k
               /\ phase'[claim'[k].owner] \in Owning
               /\ row'[k].owner = Nobody
    <3>1. k # key[r] /\ claim'[k] = claim[k]
      BY <2>3, <2>4 DEF Unclaimed
    <3>2. claim[k].owner \in Reqs /\ claim[k].owner # r
      BY <2>2, <2>4, <3>1 DEF TypeOK, ClaimInv
    <3> QED BY <2>1, <2>4, <3>1, <3>2 DEF TypeOK, ClaimInv
  <2>5. ASSUME NEW q \in Reqs, phase'[q] \in Owning
        PROVE  /\ claim'[key'[q]].owner = q
               /\ phase'[q] = "completed" => claim'[key'[q]].status = "done"
    <3>1. q # r /\ phase'[q] = phase[q]
      BY <2>1, <2>5 DEF TypeOK, Owning
    <3>2. claim[key[q]].owner = q /\ key[q] \in Keys /\ key[q] # key[r]
      BY <2>2, <2>5, <3>1 DEF TypeOK, ClaimInv
    <3> QED BY <2>1, <2>3, <2>5, <3>1, <3>2 DEF ClaimInv
  <2> QED BY <2>4, <2>5 DEF ClaimInv, Owning
<1>9. ASSUME NEW s \in sets, ApplySet(s) PROVE ClaimInv'
  BY <1>9 DEF ApplySet, ClaimInv
<1>10. ASSUME NEW k \in Keys, Cleanup(k) PROVE ClaimInv'
  BY <1>10 DEF Cleanup, NoRow, TypeOK, ClaimInv
<1>11. CASE Tick
  BY <1>11 DEF Tick, ClaimInv
<1>12. CASE UNCHANGED vars
  BY <1>12 DEF vars, ClaimInv
<1> QED
  BY <1>1, <1>3, <1>4, <1>6, <1>61, <1>7, <1>8, <1>9, <1>10, <1>11, <1>12, Steps

\* Every step but a commit and a cleanup leaves the committed state alone.
LEMMA Uncommitted ==
  ASSUME TypeOK, [Next]_vars,
         \A r \in Reqs : ~Commit(r) /\ ~CommitUnacknowledged(r),
         \A k \in Keys : ~Cleanup(k)
  PROVE  UNCHANGED <<row, executed>>
BY Steps DEF Begin, Fail, Crash, TimeOutClaim, RefuseCommit, RollBack, InsertClaim,
   FindRepeat, MissCache, Work, HitCache, FindNoRow, ReadRow, WriteCache, Complete,
   ApplySet, Tick, vars

\* What an attempt carries never changes, its start is fixed once it is past it,
\* the clock never goes back and an attempt that is over stays over.
LEMMA Fixed ==
  ASSUME TypeOK, [Next]_vars
  PROVE  /\ UNCHANGED <<key, print>>
         /\ \A r \in Reqs : phase[r] # "new" => began'[r] = began[r]
         /\ now' >= now
         /\ \A r \in Reqs : phase[r] = "over" => phase'[r] = "over"
<1> USE TimeAssumption
<1>1. ASSUME NEW r \in Reqs, Begin(r) PROVE /\ UNCHANGED <<now, key, print>>
                                           /\ phase[r] = "new"
                                           /\ began' = [began EXCEPT ![r] = now]
                                           /\ phase' = [phase EXCEPT ![r] = "claiming"]
  BY <1>1 DEF Begin
<1>2. ASSUME NEW r \in Reqs,
             \/ Fail(r) \/ Crash(r) \/ TimeOutClaim(r) \/ RefuseCommit(r)
             \/ InsertClaim(r) \/ FindRepeat(r) \/ MissCache(r) \/ Work(r) \/ HitCache(r)
             \/ FindNoRow(r) \/ ReadRow(r) \/ WriteCache(r) \/ Complete(r)
             \/ Commit(r) \/ CommitUnacknowledged(r)
      PROVE  /\ UNCHANGED <<now, key, print, began>>
             /\ phase[r] # "over"
             /\ \E p \in Phases : phase' = [phase EXCEPT ![r] = p]
  BY <1>2 DEF Fail, Crash, TimeOutClaim, RefuseCommit, RollBack, InsertClaim, FindRepeat,
     MissCache, Work, HitCache, FindNoRow, ReadRow, WriteCache, Conclude, Complete, Commit,
     CommitUnacknowledged, Publish, InTx, Phases
<1>3. ASSUME \/ \E s \in sets : ApplySet(s)
             \/ \E k \in Keys : Cleanup(k)
             \/ UNCHANGED vars
      PROVE  UNCHANGED <<now, key, print, began, phase>>
  BY <1>3 DEF ApplySet, Cleanup, vars
<1>4. ASSUME Tick PROVE UNCHANGED <<key, print, began, phase>> /\ now' = now + 1
  BY <1>4 DEF Tick
<1>5. now \in Int
  BY DEF TypeOK
<1>6. CASE \E r \in Reqs : Begin(r)
  BY <1>1, <1>5, <1>6 DEF TypeOK
<1>7. CASE \E r \in Reqs :
             \/ Fail(r) \/ Crash(r) \/ TimeOutClaim(r) \/ RefuseCommit(r)
             \/ InsertClaim(r) \/ FindRepeat(r) \/ MissCache(r) \/ Work(r) \/ HitCache(r)
             \/ FindNoRow(r) \/ ReadRow(r) \/ WriteCache(r) \/ Complete(r)
             \/ Commit(r) \/ CommitUnacknowledged(r)
  BY <1>2, <1>5, <1>7 DEF TypeOK
<1> QED
  BY <1>3, <1>4, <1>5, <1>6, <1>7, Steps

\* An attempt past its start is as expired as it was, or more so.
LEMMA StaysExpired ==
  ASSUME TypeOK, TypeOK', [Next]_vars, NEW r \in Reqs, phase[r] # "new", Expired(r)
  PROVE  Expired(r)'
<1>1. began[r] \in Int /\ now \in Int /\ now' \in Int /\ TTL \in Int
  BY TimeAssumption DEF TypeOK
<1>2. began'[r] = began[r] /\ now' >= now
  BY Fixed
<1> QED BY <1>1, <1>2 DEF Expired

\* Committed work is never undone.
LEMMA ExecutedGrows ==
  ASSUME TypeOK, [Next]_vars
  PROVE  executed \subseteq executed'
<1>1. ASSUME NEW r \in Reqs, Commit(r) \/ CommitUnacknowledged(r)
      PROVE  executed \subseteq executed'
  BY <1>1, Committing DEF Publish
<1>2. ASSUME NEW k \in Keys, Cleanup(k) PROVE executed' = executed
  BY <1>2 DEF Cleanup
<1> QED BY <1>1, <1>2, Uncommitted

LEMMA CommitStep ==
  ASSUME IInv, TypeOK', [Next]_vars
  PROVE  CommitInv'
<1> USE DEF IInv
<1>1. ASSUME NEW r \in Reqs, Commit(r) \/ CommitUnacknowledged(r) PROVE CommitInv'
  <2>1. /\ phase[r] = "completed" /\ claim[key[r]].status = "done"
        /\ phase' = [phase EXCEPT ![r] = "over"]
        /\ executed' = executed \cup {r}
        /\ row' = [row EXCEPT ![key[r]] = [owner |-> r, status |-> claim[key[r]].status,
                                           created |-> began[r]]]
    BY <1>1, Committing DEF Publish, ClaimInv
  <2> QED BY <2>1 DEF CommitInv, TypeOK
<1>2. ASSUME NEW k \in Keys, Cleanup(k) PROVE CommitInv'
  BY <1>2 DEF Cleanup, NoRow, CommitInv, TypeOK
<1>3. ASSUME UNCHANGED <<row, executed>> PROVE CommitInv'
  BY <1>3, Fixed DEF CommitInv, TypeOK
<1> QED BY <1>1, <1>2, <1>3, Uncommitted

LEMMA RecordStep ==
  ASSUME IInv, TypeOK', [Next]_vars
  PROVE  RecordIffWork'
<1> USE NobodyAssumption DEF IInv
<1>1. UNCHANGED key /\ \A s \in executed : began'[s] = began[s]
  BY Fixed DEF CommitInv, TypeOK
<1>2. \A s \in executed : Expired(s) => Expired(s)'
  BY StaysExpired DEF CommitInv, TypeOK
<1>3. ASSUME NEW r \in Reqs, Commit(r) \/ CommitUnacknowledged(r) PROVE RecordIffWork'
  <2>1. /\ phase[r] = "completed"
        /\ executed' = executed \cup {r}
        /\ row' = [row EXCEPT ![key[r]] = [owner |-> r, status |-> claim[key[r]].status,
                                           created |-> began[r]]]
        /\ began' = began
    BY <1>3, Committing DEF Publish
  <2>2. row[key[r]].owner = Nobody /\ key[r] \in Keys
    BY <2>1 DEF ClaimInv, Owning, TypeOK
  <2>3. \A k \in Keys : row'[k].owner # Nobody =>
           /\ row'[k].owner \in executed'
           /\ key'[row'[k].owner] = k
           /\ row'[k].created = began'[row'[k].owner]
    BY <1>1, <2>1, <2>2 DEF RecordIffWork, TypeOK
  <2>4. ASSUME NEW s \in executed PROVE row'[key'[s]].owner = s \/ Expired(s)'
    <3>1. s \in Reqs /\ key[s] \in Keys
      BY DEF TypeOK
    <3>2. CASE key[s] = key[r]
      <4>1. row[key[s]].owner # s
        BY <2>2, <3>1, <3>2
      <4> QED BY <1>2, <4>1 DEF RecordIffWork
    <3>3. CASE key[s] # key[r]
      <4>1. row'[key[s]] = row[key[s]]
        BY <2>1, <2>2, <3>1, <3>3 DEF TypeOK
      <4> QED BY <1>1, <1>2, <4>1 DEF RecordIffWork
    <3> QED BY <3>2, <3>3
  <2>5. row'[key'[r]].owner = r
    BY <1>1, <2>1, <2>2 DEF TypeOK
  <2> QED BY <2>1, <2>3, <2>4, <2>5 DEF RecordIffWork
<1>4. ASSUME NEW k \in Keys, Cleanup(k) PROVE RecordIffWork'
  <2>1. /\ row[k].created < now - TTL
        /\ row' = [row EXCEPT ![k] = NoRow]
        /\ UNCHANGED <<executed, now, began, key>>
    BY <1>4 DEF Cleanup
  <2>2. \A j \in Keys : row'[j].owner # Nobody => row'[j] = row[j]
    BY <2>1 DEF NoRow, TypeOK
  <2>3. ASSUME NEW s \in executed, row[key[s]].owner = s, key[s] = k PROVE Expired(s)
    <3>1. s \in Reqs /\ row[k].owner # Nobody
      BY <2>3 DEF TypeOK
    <3> QED BY <2>1, <2>3, <3>1 DEF RecordIffWork, Expired
  <2>4. \A s \in executed : key[s] # k => row'[key[s]] = row[key[s]]
    BY <2>1 DEF TypeOK
  <2>5. \A s \in executed : row'[key'[s]].owner = s \/ Expired(s)'
    BY <1>2, <2>1, <2>3, <2>4 DEF RecordIffWork
  <2>6. \A j \in Keys : row'[j].owner # Nobody =>
           /\ row'[j].owner \in executed'
           /\ key'[row'[j].owner] = j
           /\ row'[j].created = began'[row'[j].owner]
    BY <2>1, <2>2 DEF RecordIffWork
  <2> QED BY <2>1, <2>5, <2>6 DEF RecordIffWork
<1>5. ASSUME UNCHANGED <<row, executed>> PROVE RecordIffWork'
  BY <1>1, <1>2, <1>5 DEF RecordIffWork
<1> QED BY <1>3, <1>4, <1>5, Uncommitted

\* Only an attempt's own steps move it.
LEMMA Moves ==
  ASSUME TypeOK, [Next]_vars, NEW r \in Reqs, phase'[r] # phase[r]
  PROVE  \/ Begin(r) \/ Fail(r) \/ Crash(r) \/ TimeOutClaim(r) \/ RefuseCommit(r)
         \/ InsertClaim(r) \/ FindRepeat(r) \/ MissCache(r) \/ Work(r) \/ HitCache(r)
         \/ FindNoRow(r) \/ ReadRow(r) \/ WriteCache(r) \/ Complete(r)
         \/ Commit(r) \/ CommitUnacknowledged(r)
<1>1. ASSUME NEW q \in Reqs,
             \/ Begin(q) \/ Fail(q) \/ Crash(q) \/ TimeOutClaim(q) \/ RefuseCommit(q)
             \/ InsertClaim(q) \/ FindRepeat(q) \/ MissCache(q) \/ Work(q) \/ HitCache(q)
             \/ FindNoRow(q) \/ ReadRow(q) \/ WriteCache(q) \/ Complete(q)
             \/ Commit(q) \/ CommitUnacknowledged(q)
      PROVE  \E p \in Phases : phase' = [phase EXCEPT ![q] = p]
  BY <1>1 DEF Begin, Fail, Crash, TimeOutClaim, RefuseCommit, RollBack, InsertClaim, FindRepeat,
     MissCache, Work, HitCache, FindNoRow, ReadRow, WriteCache, Conclude, Complete, Commit,
     CommitUnacknowledged, Publish, InTx, Phases
<1>2. ASSUME \/ \E s \in sets : ApplySet(s)
             \/ \E k \in Keys : Cleanup(k)
             \/ Tick
             \/ UNCHANGED vars
      PROVE  phase' = phase
  BY <1>2 DEF ApplySet, Cleanup, Tick, vars
<1>3. PICK q \in Reqs :
             \/ Begin(q) \/ Fail(q) \/ Crash(q) \/ TimeOutClaim(q) \/ RefuseCommit(q)
             \/ InsertClaim(q) \/ FindRepeat(q) \/ MissCache(q) \/ Work(q) \/ HitCache(q)
             \/ FindNoRow(q) \/ ReadRow(q) \/ WriteCache(q) \/ Complete(q)
             \/ Commit(q) \/ CommitUnacknowledged(q)
  BY <1>2, Steps
<1>4. q = r
  BY <1>1, <1>3 DEF TypeOK
<1> QED BY <1>3, <1>4

LEMMA RepeatStep ==
  ASSUME IInv, TypeOK', [Next]_vars
  PROVE  RepeatInv'
<1> USE DEF IInv
<1>1. SUFFICES ASSUME NEW r \in Reqs, phase'[r] \in {"repeat", "reading"}
               PROVE  \E s \in executed' : key'[s] = key'[r]
  BY DEF RepeatInv
<1>2. phase[r] \in {"repeat", "reading"} \/ FindRepeat(r)
  BY <1>1, Moves DEF Begin, Fail, Crash, TimeOutClaim, RefuseCommit, RollBack, InsertClaim,
     MissCache, Work, HitCache, FindNoRow, ReadRow, WriteCache, Conclude, Complete,
     Commit, CommitUnacknowledged, Publish, TypeOK
<1>3. \E s \in executed : key[s] = key[r]
  <2>1. CASE FindRepeat(r)
    <3>1. row[key[r]].owner # Nobody /\ key[r] \in Keys
      BY <2>1 DEF FindRepeat, TypeOK
    <3> QED BY <3>1 DEF RecordIffWork
  <2> QED BY <1>2, <2>1 DEF RepeatInv
<1> QED BY <1>3, Fixed, ExecutedGrows

LEMMA CopyStep ==
  ASSUME IInv, TypeOK', [Next]_vars
  PROVE  CopyInv'
<1> USE NobodyAssumption DEF IInv
<1>1. executed \subseteq executed' /\ UNCHANGED <<key, print>>
  BY ExecutedGrows, Fixed
<1>2. ASSUME UNCHANGED <<cache, sets>>
      PROVE  /\ \A k \in Keys : cache'[k].body # Nobody =>
                   cache'[k].body \in executed' /\ key'[cache'[k].body] = k
             /\ \A s \in sets' : s.body \in executed' /\ key'[s.body] = s.key
  BY <1>1, <1>2 DEF CopyInv
<1>3. ASSUME NEW r \in Reqs, phase'[r] = "caching", phase[r] = "caching" \/ ReadRow(r),
             phase[r] = "caching" => found'[r] = found[r]
      PROVE  /\ found'[r].body \in executed'
             /\ key'[found'[r].body] = key'[r]
             /\ print'[found'[r].body] = print'[r]
  <2>1. CASE phase[r] = "caching"
    BY <1>1, <1>3, <2>1 DEF CopyInv
  <2>2. CASE ReadRow(r)
    <3>1. /\ row[key[r]].owner # Nobody /\ key[r] \in Keys
          /\ Decide(r, row[key[r]].owner).kind = "ok"
          /\ found' = [found EXCEPT ![r] = [body |-> row[key[r]].owner,
                                             ttl |-> RemainingLife(r)]]
      BY <1>3, <2>2 DEF ReadRow, Conclude, TypeOK
    <3>2. print[row[key[r]].owner] = print[r]
      BY <3>1 DEF Decide, SameRequest, Refused
    <3>3. found'[r].body = row[key[r]].owner
      BY <3>1 DEF TypeOK
    <3> QED BY <1>1, <3>1, <3>2, <3>3 DEF RecordIffWork
  <2> QED BY <1>3, <2>1, <2>2
<1>4. ASSUME NEW r \in Reqs, phase'[r] = "caching"
      PROVE  phase[r] = "caching" \/ ReadRow(r)
  BY <1>4, Moves DEF Begin, Fail, Crash, TimeOutClaim, RefuseCommit, RollBack, InsertClaim,
     FindRepeat, MissCache, Work, HitCache, FindNoRow, WriteCache, Conclude, Complete,
     Commit, CommitUnacknowledged, Publish, TypeOK
<1>5. \A r \in Reqs : phase[r] = "caching" => found'[r] = found[r]
  <2>1. ASSUME NEW q \in Reqs, ReadRow(q)
        PROVE  \A r \in Reqs : phase[r] = "caching" => found'[r] = found[r]
    BY <2>1 DEF ReadRow, TypeOK
  <2> QED
    BY <2>1, Steps DEF Begin, Fail, Crash, TimeOutClaim, RefuseCommit, RollBack, InsertClaim,
     FindRepeat, MissCache, Work, HitCache, FindNoRow, WriteCache, Complete,
     Commit, CommitUnacknowledged, ApplySet, Cleanup, Tick, vars
<1>6. \A r \in Reqs : phase'[r] = "caching" =>
         /\ found'[r].body \in executed'
         /\ key'[found'[r].body] = key'[r]
         /\ print'[found'[r].body] = print'[r]
  BY <1>3, <1>4, <1>5
<1>7. ASSUME NEW r \in Reqs, WriteCache(r) PROVE CopyInv'
  <2>1. /\ found[r].body \in executed /\ key[found[r].body] = key[r]
        /\ UNCHANGED cache
        /\ \A s \in sets' : s \in sets \/ (s.key = key[r] /\ s.body = found[r].body)
    BY <1>7 DEF WriteCache, CopyInv
  <2> QED BY <1>1, <1>6, <2>1 DEF CopyInv
<1>8. ASSUME NEW s \in sets, ApplySet(s) PROVE CopyInv'
  <2>1. /\ s.key \in Keys /\ s.body \in executed /\ key[s.body] = s.key
        /\ cache' = [cache EXCEPT ![s.key] = [body |-> s.body, expires |-> now + s.ttl]]
        /\ sets' = sets \ {s}
    BY <1>8 DEF ApplySet, CopyInv, TypeOK
  <2>2. \A k \in Keys : cache'[k].body = IF k = s.key THEN s.body ELSE cache[k].body
    BY <2>1 DEF TypeOK
  <2> QED BY <1>1, <1>6, <2>1, <2>2 DEF CopyInv
<1>9. ASSUME UNCHANGED <<cache, sets>> PROVE CopyInv'
  BY <1>2, <1>6, <1>9 DEF CopyInv
<1>10. \/ \E r \in Reqs : WriteCache(r)
       \/ \E s \in sets : ApplySet(s)
       \/ UNCHANGED <<cache, sets>>
  BY Steps DEF Begin, Fail, Crash, TimeOutClaim, RefuseCommit, RollBack, InsertClaim,
     FindRepeat, MissCache, Work, HitCache, FindNoRow, ReadRow, Complete,
     Commit, CommitUnacknowledged, Cleanup, Tick, vars
<1> QED BY <1>7, <1>8, <1>9, <1>10

\* What r may be told by a step, and by which.
LEMMA Answering ==
  ASSUME IInv, [Next]_vars, NEW r \in Reqs, answer'[r] # answer[r]
  PROVE  \/ answer'[r].kind \in {"none", "in_flight", "error"}
         \/ HitCache(r) /\ answer'[r] = Decide(r, cache[key[r]].body)
         \/ FindNoRow(r) /\ answer'[r] = Refused("reused")
         \/ ReadRow(r) /\ answer'[r] = Decide(r, row[key[r]].owner)
         \/ WriteCache(r) /\ answer'[r] = Ok(found[r].body)
         \/ (Commit(r) \/ CommitUnacknowledged(r)) /\ answer'[r] = Ok(r)
<1> USE DEF IInv
<1>1. ASSUME NEW q \in Reqs, NEW a \in {Unanswered, Refused("error"), Refused("in_flight")},
             RollBack(q, a)
      PROVE  answer'[r].kind \in {"none", "in_flight", "error"}
  BY <1>1 DEF RollBack, Unanswered, Refused, TypeOK
<1>2. ASSUME NEW q \in Reqs, HitCache(q)
      PROVE  q = r /\ answer'[r] = Decide(r, cache[key[r]].body)
  BY <1>2 DEF HitCache, Conclude, TypeOK
<1>3. ASSUME NEW q \in Reqs, FindNoRow(q) PROVE q = r /\ answer'[r] = Refused("reused")
  BY <1>3 DEF FindNoRow, Conclude, TypeOK
<1>4. ASSUME NEW q \in Reqs, ReadRow(q)
      PROVE  q = r /\ answer'[r] = Decide(r, row[key[r]].owner)
  BY <1>4 DEF ReadRow, Conclude, TypeOK
<1>5. ASSUME NEW q \in Reqs, WriteCache(q) PROVE q = r /\ answer'[r] = Ok(found[r].body)
  BY <1>5 DEF WriteCache, Conclude, TypeOK
<1>6. ASSUME NEW q \in Reqs, Commit(q) \/ CommitUnacknowledged(q)
      PROVE  q = r /\ (answer'[r] = Ok(r) \/ answer'[r].kind \in {"none", "error"})
  <2>1. PICK a \in {Ok(q), Unanswered, Refused("error")} : answer' = [answer EXCEPT ![q] = a]
    BY <1>6, Committing
  <2>2. q = r /\ answer'[r] = a
    BY <2>1 DEF TypeOK
  <2> QED BY <2>2 DEF Unanswered, Refused
<1>7. ASSUME UNCHANGED answer PROVE FALSE
  BY <1>7
<1>8. CASE \E q \in Reqs : Fail(q) \/ Crash(q) \/ TimeOutClaim(q) \/ RefuseCommit(q)
  BY <1>1, <1>8, RollingBack
<1>9. CASE \E q \in Reqs : \/ Begin(q) \/ InsertClaim(q) \/ FindRepeat(q) \/ MissCache(q)
                           \/ Work(q) \/ Complete(q)
  BY <1>7, <1>9 DEF Begin, InsertClaim, FindRepeat, MissCache, Work, Complete
<1>10. CASE \/ \E s \in sets : ApplySet(s)
            \/ \E k \in Keys : Cleanup(k)
            \/ Tick
            \/ UNCHANGED vars
  BY <1>7, <1>10 DEF ApplySet, Cleanup, Tick, vars
<1> QED BY <1>2, <1>3, <1>4, <1>5, <1>6, <1>8, <1>9, <1>10, Steps

LEMMA AnswerStep ==
  ASSUME IInv, TypeOK', [Next]_vars
  PROVE  AnswerInv'
<1> USE DEF IInv
<1>1. ASSUME NEW q \in Reqs, NEW a, phase' = [phase EXCEPT ![q] = "over"],
             answer' = [answer EXCEPT ![q] = a]
      PROVE  AnswerInv'
  BY <1>1 DEF AnswerInv, TypeOK
<1>2. ASSUME NEW q \in Reqs, NEW p, phase[q] # "over", phase' = [phase EXCEPT ![q] = p],
             UNCHANGED answer
      PROVE  AnswerInv'
  BY <1>2 DEF AnswerInv, TypeOK
<1>3. ASSUME UNCHANGED <<phase, answer>> PROVE AnswerInv'
  BY <1>3 DEF AnswerInv
<1>4. CASE \E q \in Reqs :
             \/ Fail(q) \/ Crash(q) \/ TimeOutClaim(q) \/ RefuseCommit(q) \/ HitCache(q)
             \/ FindNoRow(q) \/ WriteCache(q) \/ Commit(q) \/ CommitUnacknowledged(q)
  BY <1>1, <1>4, RollingBack, Committing DEF RollBack, HitCache, FindNoRow, WriteCache,
     Conclude, Publish
<1>5. CASE \E q \in Reqs : ReadRow(q)
  BY <1>1, <1>2, <1>5 DEF ReadRow, Conclude
<1>6. CASE \E q \in Reqs : \/ Begin(q) \/ InsertClaim(q) \/ FindRepeat(q) \/ MissCache(q)
                           \/ Work(q) \/ Complete(q)
  BY <1>2, <1>6 DEF Begin, InsertClaim, FindRepeat, MissCache, Work, Complete
<1>7. CASE \/ \E s \in sets : ApplySet(s)
           \/ \E k \in Keys : Cleanup(k)
           \/ Tick
           \/ UNCHANGED vars
  BY <1>3, <1>7 DEF ApplySet, Cleanup, Tick, vars
<1> QED BY <1>4, <1>5, <1>6, <1>7, Steps

LEMMA SuccessStep ==
  ASSUME IInv, TypeOK', [Next]_vars
  PROVE  SuccessIsReal'
<1> USE NobodyAssumption DEF IInv
<1>1. executed \subseteq executed' /\ UNCHANGED <<key, print>>
  BY ExecutedGrows, Fixed
<1>2. SUFFICES ASSUME NEW r \in Reqs, answer'[r].kind = "ok"
               PROVE  /\ answer'[r].body \in executed'
                      /\ key[answer'[r].body] = key[r]
                      /\ print[answer'[r].body] = print[r]
  BY <1>1 DEF SuccessIsReal
<1>3. CASE answer'[r] = answer[r]
  BY <1>1, <1>2, <1>3 DEF SuccessIsReal
<1>4. CASE HitCache(r) /\ answer'[r] = Decide(r, cache[key[r]].body)
  <2>1. /\ cache[key[r]].body \in executed
        /\ key[cache[key[r]].body] = key[r]
    BY <1>4 DEF HitCache, CopyInv, TypeOK
  <2> QED BY <1>1, <1>2, <1>4, <2>1 DEF Decide, SameRequest, Ok, Refused
<1>5. CASE ReadRow(r) /\ answer'[r] = Decide(r, row[key[r]].owner)
  <2>1. /\ row[key[r]].owner \in executed
        /\ key[row[key[r]].owner] = key[r]
    BY <1>5 DEF ReadRow, RecordIffWork, TypeOK
  <2> QED BY <1>1, <1>2, <1>5, <2>1 DEF Decide, SameRequest, Ok, Refused
<1>6. CASE WriteCache(r) /\ answer'[r] = Ok(found[r].body)
  BY <1>1, <1>6 DEF WriteCache, CopyInv, Ok
<1>7. CASE (Commit(r) \/ CommitUnacknowledged(r)) /\ answer'[r] = Ok(r)
  <2>1. answer'[r].body = r
    BY <1>7 DEF Ok
  <2>2. r \in executed'
    BY <1>7, Committing DEF Publish
  <2> QED BY <2>1, <2>2
<1> QED BY <1>2, <1>3, <1>4, <1>5, <1>6, <1>7, Answering DEF Refused

LEMMA ConflictStep ==
  ASSUME IInv, TypeOK', [Next]_vars
  PROVE  ConflictIsReal'
<1> USE NobodyAssumption DEF IInv
<1>1. executed \subseteq executed' /\ UNCHANGED <<key, print>>
  BY ExecutedGrows, Fixed
<1>2. \A s \in executed : Expired(s) => Expired(s)'
  BY StaysExpired DEF CommitInv, TypeOK
<1>3. SUFFICES ASSUME NEW r \in Reqs, answer'[r].kind = "reused"
               PROVE  \E s \in executed : key[s] = key[r] /\ (print[s] # print[r] \/ Expired(s))
  BY <1>1, <1>2 DEF ConflictIsReal
<1>4. CASE answer'[r] = answer[r]
  BY <1>3, <1>4 DEF ConflictIsReal
<1>5. CASE HitCache(r) /\ answer'[r] = Decide(r, cache[key[r]].body)
  <2>1. /\ cache[key[r]].body \in executed
        /\ key[cache[key[r]].body] = key[r]
    BY <1>5 DEF HitCache, CopyInv, TypeOK
  <2> QED BY <1>3, <1>5, <2>1 DEF Decide, SameRequest, Ok
<1>6. CASE ReadRow(r) /\ answer'[r] = Decide(r, row[key[r]].owner)
  <2>1. /\ row[key[r]].owner \in executed
        /\ key[row[key[r]].owner] = key[r]
    BY <1>6 DEF ReadRow, RecordIffWork, TypeOK
  <2> QED BY <1>3, <1>6, <2>1 DEF Decide, SameRequest, Ok
<1>7. CASE FindNoRow(r)
  <2>1. PICK s \in executed : key[s] = key[r]
    BY <1>7 DEF FindNoRow, RepeatInv
  <2>2. row[key[s]].owner # s
    BY <1>7, <2>1 DEF FindNoRow, TypeOK
  <2> QED BY <2>1, <2>2 DEF RecordIffWork
<1>8. answer'[r].kind \notin {"none", "in_flight", "error", "ok"}
  BY <1>3
<1>9. ASSUME WriteCache(r) /\ answer'[r] = Ok(found[r].body) PROVE answer'[r].kind = "ok"
  BY <1>9 DEF Ok
<1>10. ASSUME answer'[r] = Ok(r) PROVE answer'[r].kind = "ok"
  BY <1>10 DEF Ok
<1> QED BY <1>4, <1>5, <1>6, <1>7, <1>8, <1>9, <1>10, Answering

-----------------------------------------------------------------------------
LEMMA InitInv == Init => IInv
<1> SUFFICES ASSUME Init PROVE IInv
  OBVIOUS
<1>1. TypeOK
  BY InitTypeOK
<1>2. AnswerInv /\ ClaimInv /\ CommitInv /\ RepeatInv /\ CopyInv
  BY DEF Init, AnswerInv, ClaimInv, CommitInv, RepeatInv, CopyInv, Owning, Unclaimed, NoRow, NoEntry
<1>3. RecordIffWork /\ SuccessIsReal /\ ConflictIsReal
  BY DEF Init, RecordIffWork, SuccessIsReal, ConflictIsReal, NoRow, Unanswered
<1> QED BY <1>1, <1>2, <1>3 DEF IInv

LEMMA StepInv == IInv /\ [Next]_vars => IInv'
<1> SUFFICES ASSUME IInv, [Next]_vars PROVE IInv'
  OBVIOUS
<1>1. TypeOK'
  BY TypeStep DEF IInv
<1> QED
  BY <1>1, AnswerStep, ClaimStep, CommitStep, RepeatStep, CopyStep, RecordStep, SuccessStep, ConflictStep
  DEF IInv

\* The inductive invariant holds in every reachable state.
THEOREM Invariance == Spec => []IInv
BY InitInv, StepInv, PTL DEF Spec

\* Every variable keeps its type; in particular no cache entry is ever written with
\* a life of zero or less.
THEOREM TypeCorrect == Spec => []TypeOK
<1>1. IInv => TypeOK
  BY DEF IInv
<1> QED BY <1>1, Invariance, PTL

\* The internal errors claim() and complete() throw are unreachable.
THEOREM AssertionsHold == Spec => []Assertions
<1>1. IInv => Assertions
  BY DEF IInv, Assertions, ClaimInv, CommitInv, Owning, TypeOK
<1> QED BY <1>1, Invariance, PTL

\* A record and the work it describes are committed together or not at all.
THEOREM RecordsMatchWork == Spec => []RecordIffWork
<1>1. IInv => RecordIffWork
  BY DEF IInv
<1> QED BY <1>1, Invariance, PTL

\* No key's work is committed twice within the life of its record, for any number of
\* retries and any interleaving of claims, commits, crashes and cleanups.
THEOREM NeverTwice == Spec => []AtMostOnce
<1>1. IInv => AtMostOnce
  BY DEF IInv, AtMostOnce, RecordIffWork
<1> QED BY <1>1, Invariance, PTL

\* Every success names work committed under the same key for the same request.
THEOREM NoPhantomSuccess == Spec => []SuccessIsReal
<1>1. IInv => SuccessIsReal
  BY DEF IInv
<1> QED BY <1>1, Invariance, PTL

\* No retry of a request is refused as a conflict while its record lives.
THEOREM NoSpuriousConflict == Spec => []ConflictIsReal
<1>1. IInv => ConflictIsReal
  BY DEF IInv
<1> QED BY <1>1, Invariance, PTL

-----------------------------------------------------------------------------
\* The refinement mapping: the owner of each committed row.
Record == [k \in Keys |-> row[k].owner]

LEMMA RefinedInit == Init => WriteOnce!Init
BY DEF Init, WriteOnce!Init, NoRow, Unanswered, WriteOnce!Unanswered

LEMMA RefinedStep ==
  ASSUME IInv, TypeOK', [Next]_vars
  PROVE  [WriteOnce!Next]_(WriteOnce!avars)
<1> USE DEF IInv
<1>1. ASSUME UNCHANGED <<key, print, row, executed, answer>>
      PROVE  UNCHANGED WriteOnce!avars
  BY <1>1 DEF WriteOnce!avars
<1>2. ASSUME NEW r \in Reqs, Commit(r) \/ CommitUnacknowledged(r)
      PROVE  WriteOnce!Execute(r)
  <2>1. /\ phase[r] = "completed"
        /\ executed' = executed \cup {r}
        /\ row' = [row EXCEPT ![key[r]] = [owner |-> r, status |-> claim[key[r]].status,
                                           created |-> began[r]]]
        /\ UNCHANGED <<key, print>>
    BY <1>2, Committing DEF Publish
  <2>2. key[r] \in Keys /\ row[key[r]].owner = Nobody /\ r \notin executed
    BY <2>1, NobodyAssumption DEF ClaimInv, CommitInv, Owning, TypeOK
  <2>3. Record' = [Record EXCEPT ![key[r]] = r]
    BY <2>1, <2>2 DEF Record, TypeOK
  <2>4. Record[key[r]] = Nobody
    BY <2>2 DEF Record
  <2>5. \E a \in {Ok(r), Unanswered, Refused("error")} : answer' = [answer EXCEPT ![r] = a]
    BY <1>2, Committing
  <2>6. \E a \in {[kind |-> "ok", body |-> r], [kind |-> "error", body |-> Nobody],
                  WriteOnce!Unanswered} : answer' = [answer EXCEPT ![r] = a]
    BY <2>5 DEF Ok, Unanswered, Refused, WriteOnce!Unanswered
  <2> QED BY <2>1, <2>2, <2>3, <2>4, <2>6 DEF WriteOnce!Execute, Record
<1>3. ASSUME NEW k \in Keys, Cleanup(k) PROVE WriteOnce!Expire(k)
  <2>1. Record' = [Record EXCEPT ![k] = Nobody] /\ Record[k] # Nobody
    BY <1>3 DEF Cleanup, Record, NoRow, TypeOK
  <2> QED BY <1>3, <2>1 DEF Cleanup, WriteOnce!Expire, Record
<1>4. ASSUME NEW r \in Reqs, NEW a \in {Refused("error"), Refused("in_flight"), Refused("reused")},
             phase[r] # "over", answer' = [answer EXCEPT ![r] = a],
             UNCHANGED <<key, print, row, executed>>
      PROVE  WriteOnce!Refuse(r)
  <2>1. a \in WriteOnce!Refusals
    BY <1>4 DEF Refused, WriteOnce!Refusals
  <2>2. answer[r] = WriteOnce!Unanswered
    BY <1>4 DEF AnswerInv, Unanswered, WriteOnce!Unanswered
  <2> QED BY <1>4, <2>1, <2>2 DEF WriteOnce!Refuse
<1>5. ASSUME NEW r \in Reqs, NEW s \in executed, key[s] = key[r], print[s] = print[r],
             phase[r] # "over", answer' = [answer EXCEPT ![r] = Ok(s)],
             UNCHANGED <<key, print, row, executed>>
      PROVE  WriteOnce!Replay(r)
  BY <1>5 DEF WriteOnce!Replay, AnswerInv, Ok, Unanswered, WriteOnce!Unanswered
<1>6. ASSUME NEW r \in Reqs, NEW s \in executed, key[s] = key[r],
             phase[r] # "over", answer' = [answer EXCEPT ![r] = Decide(r, s)],
             UNCHANGED <<key, print, row, executed>>
      PROVE  WriteOnce!Replay(r) \/ WriteOnce!Refuse(r)
  <2>1. CASE print[s] = print[r]
    BY <1>5, <1>6, <2>1 DEF Decide, SameRequest
  <2>2. CASE print[s] # print[r]
    BY <1>4, <1>6, <2>2 DEF Decide, SameRequest
  <2> QED BY <2>1, <2>2
<1>7. ASSUME NEW r \in Reqs, Fail(r) \/ TimeOutClaim(r) \/ RefuseCommit(r)
      PROVE  WriteOnce!Refuse(r)
  BY <1>4, <1>7 DEF Fail, TimeOutClaim, RefuseCommit, RollBack, InTx
<1>8. ASSUME NEW r \in Reqs, Crash(r) PROVE UNCHANGED WriteOnce!avars
  <2>1. answer' = answer
    BY <1>8 DEF Crash, RollBack, InTx, AnswerInv, TypeOK
  <2> QED BY <1>1, <1>8, <2>1 DEF Crash, RollBack
<1>9. ASSUME NEW r \in Reqs, HitCache(r) PROVE WriteOnce!Replay(r) \/ WriteOnce!Refuse(r)
  <2>1. cache[key[r]].body \in executed /\ key[cache[key[r]].body] = key[r]
    BY <1>9 DEF HitCache, CopyInv, TypeOK
  <2> QED BY <1>6, <1>9, <2>1 DEF HitCache, Conclude
<1>10. ASSUME NEW r \in Reqs, FindNoRow(r) PROVE WriteOnce!Refuse(r)
  BY <1>4, <1>10 DEF FindNoRow, Conclude
<1>11. ASSUME NEW r \in Reqs, ReadRow(r)
       PROVE  \/ WriteOnce!Replay(r) \/ WriteOnce!Refuse(r)
              \/ UNCHANGED WriteOnce!avars
  <2>1. row[key[r]].owner \in executed /\ key[row[key[r]].owner] = key[r]
    BY <1>11 DEF ReadRow, RecordIffWork, TypeOK
  <2>2. CASE Conclude(r, Decide(r, row[key[r]].owner))
    BY <1>6, <1>11, <2>1, <2>2 DEF ReadRow, Conclude
  <2>3. CASE UNCHANGED answer
    BY <1>1, <1>11, <2>3 DEF ReadRow
  <2> QED BY <1>11, <2>2, <2>3 DEF ReadRow
<1>12. ASSUME NEW r \in Reqs, WriteCache(r) PROVE WriteOnce!Replay(r)
  <2>1. /\ found[r].body \in executed
        /\ key[found[r].body] = key[r]
        /\ print[found[r].body] = print[r]
    BY <1>12 DEF WriteCache, CopyInv
  <2> QED BY <1>5, <1>12, <2>1 DEF WriteCache, Conclude
<1>13. ASSUME \/ \E r \in Reqs : \/ Begin(r) \/ InsertClaim(r) \/ FindRepeat(r) \/ MissCache(r)
                                 \/ Work(r) \/ Complete(r)
              \/ \E s \in sets : ApplySet(s)
              \/ Tick
              \/ UNCHANGED vars
       PROVE  UNCHANGED WriteOnce!avars
  BY <1>1, <1>13 DEF Begin, InsertClaim, FindRepeat, MissCache, Work, Complete, ApplySet, Tick, vars
<1> QED
  BY <1>2, <1>3, <1>7, <1>8, <1>9, <1>10, <1>11, <1>12, <1>13, Steps DEF WriteOnce!Next

\* The idempotency record, with its claims, cache, cleanup, crashes and lost
\* acknowledgements, implements the abstract write-once store.
THEOREM Refinement == Spec => ImplementsWriteOnce
<1>1. IInv /\ IInv' /\ [Next]_vars => [WriteOnce!Next]_(WriteOnce!avars)
  BY RefinedStep DEF IInv
<1> QED BY <1>1, RefinedInit, Invariance, PTL DEF Spec, ImplementsWriteOnce, WriteOnce!Spec
=============================================================================
