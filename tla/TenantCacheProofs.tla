-------------------------- MODULE TenantCacheProofs --------------------------
(***************************************************************************)
(* TenantCache for any number of readers, writers, tokens and polls: the   *)
(* types, NoStaleAnswer and OneLoader hold in every reachable state.       *)
(*                                                                         *)
(* NoStaleAnswer speaks of answers only.  What makes it inductive is a     *)
(* statement about each generation: no value under the current one, stored *)
(* or about to be, is older than the last invalidation (Current), and no   *)
(* value under any generation is older than what a reader holding that     *)
(* generation may see (Reachable).  A new token has nothing under it,      *)
(* which is why Invalidate and CreateGeneration keep both.                 *)
(***************************************************************************)
EXTENDS TenantCache, TLAPS

\* Every version of v, if it is a value, is at least n.
AtLeast(v, n) == v # None => v.total >= n /\ v.page >= n

\* What q has read so far and may still store is at least n.
LoadsAtLeast(q, n) ==
    /\ rd[q].at = "page" => rd[q].total >= n
    /\ rd[q].at = "set" => AtLeast(rd[q].out, n)

\* A token not drawn yet is nobody's.
Undrawn ==
    /\ gen \in drawn \cup {None}
    /\ \A r \in Readers : rd[r].key \in drawn \cup {None}
    /\ \A t \in Tokens \ drawn : store[t] = None

\* What the stage of a request says of its locals.
Locals ==
    \A r \in Readers :
        /\ rd[r].at \in Before => rd[r].key = None /\ rd[r].out = None
        /\ rd[r].at \in Waiting \cup {"set"} => rd[r].key # None
        /\ rd[r].at = "page" => rd[r].total >= rd[r].floor
        /\ rd[r].holds => rd[r].at \in Loading /\ rd[r].key # None

Versions ==
    /\ invalidated <= db
    /\ \A w \in Writers : wr[w].version <= db
    /\ \A r \in Readers : rd[r].floor <= invalidated

Current ==
    gen # None =>
        /\ AtLeast(store[gen], invalidated)
        /\ \A q \in Readers : rd[q].key = gen => LoadsAtLeast(q, invalidated)

Reachable ==
    \A r \in Readers : rd[r].key # None =>
        /\ AtLeast(store[rd[r].key], rd[r].floor)
        /\ \A q \in Readers : rd[q].key = rd[r].key => LoadsAtLeast(q, rd[r].floor)

IInv ==
    /\ TypeOK /\ Undrawn /\ Locals /\ Versions /\ Current /\ Reachable
    /\ NoStaleAnswer /\ OneLoader

-----------------------------------------------------------------------------
\* The actions, named one by one: the case split of the step proofs below.
LEMMA Steps ==
  ASSUME [Next]_vars
  PROVE  \/ \E r \in Readers :
              \/ Begin(r) \/ ReadGeneration(r) \/ CreateGeneration(r) \/ FailPrefix(r)
              \/ Hit(r) \/ Miss(r) \/ Lock(r) \/ Poll(r) \/ GiveUp(r) \/ FailFlight(r)
              \/ ReadCount(r) \/ ReadPage(r) \/ FailLoad(r) \/ Store(r) \/ Release(r)
         \/ \E w \in Writers : CommitWrite(w) \/ Invalidate(w) \/ FailInvalidate(w)
         \/ LoseGeneration
         \/ \E t \in Tokens : LoseValue(t) \/ LoseLock(t)
         \/ UNCHANGED vars
  BY DEF Next, Read, Fail, Write

\* A reader's new locals are well typed as soon as the row is.
LEMMA RowStep ==
  ASSUME TypeOK, NEW r \in Readers, NEW row \in Reader, rd' = [rd EXCEPT ![r] = row]
  PROVE  rd' \in [Readers -> Reader]
  BY DEF TypeOK

\* The locals a finished request leaves behind are well typed.
LEMMA FinishTyped ==
  ASSUME NEW old \in Reader, NEW out \in Value \cup {None}
  PROVE  [old EXCEPT !.at = "done", !.key = None, !.holds = FALSE,
                     !.polls = 0, !.total = 0, !.out = out] \in Reader
<1>1. 0 \in 0..Polls /\ 0 \in Nat /\ "done" \in Stages
  BY PollsAssumption DEF Stages
<1> QED
  BY <1>1 DEF Reader

\* Every action keeps the types; a reader is never without a key where it uses one.
LEMMA TypeStep ==
  ASSUME TypeOK, Undrawn, Locals, [Next]_vars
  PROVE  TypeOK'
<1>0. \A r \in Readers : rd[r] \in Reader
  BY DEF TypeOK
<1>1. ASSUME NEW r \in Readers, Begin(r) PROVE TypeOK'
  <2> DEFINE row == [rd[r] EXCEPT !.at = "prefix", !.floor = invalidated]
  <2>1. row \in Reader
    BY <1>0 DEF TypeOK, Reader, Stages, Before, Waiting, Loading
  <2>2. rd' = [rd EXCEPT ![r] = row]
    BY <1>1 DEF Begin
  <2>3. rd' \in [Readers -> Reader]
    BY <2>1, <2>2, RowStep
  <2> QED
    BY <1>1, <2>3 DEF Begin, TypeOK, redis, postgres
<1>2. ASSUME NEW r \in Readers, ReadGeneration(r) PROVE TypeOK'
  <2> DEFINE next == IF gen # None THEN "get"
                      ELSE IF rd[r].at = "prefix" THEN "create" ELSE "count"
  <2> DEFINE row == [rd[r] EXCEPT !.at = next, !.key = gen]
  <2>1. row \in Reader
    BY <1>0 DEF TypeOK, Reader, Stages, Before, Waiting, Loading
  <2>2. rd' = [rd EXCEPT ![r] = row]
    BY <1>2 DEF ReadGeneration
  <2>3. rd' \in [Readers -> Reader]
    BY <2>1, <2>2, RowStep
  <2> QED
    BY <1>2, <2>3 DEF ReadGeneration, TypeOK, redis, postgres
<1>3. ASSUME NEW r \in Readers, CreateGeneration(r) PROVE TypeOK'
  <2> DEFINE row == [rd[r] EXCEPT !.at = "reread"]
  <2>1. row \in Reader
    BY <1>0 DEF TypeOK, Reader, Stages, Before, Waiting, Loading
  <2>2. rd' = [rd EXCEPT ![r] = row]
    BY <1>3 DEF CreateGeneration
  <2>3. rd' \in [Readers -> Reader]
    BY <2>1, <2>2, RowStep
  <2> QED
    BY <1>3, <2>3 DEF CreateGeneration, TypeOK, postgres, NewToken
<1>4. ASSUME NEW r \in Readers, FailPrefix(r) PROVE TypeOK'
  <2> DEFINE row == [rd[r] EXCEPT !.at = "count", !.key = None]
  <2>1. row \in Reader
    BY <1>0 DEF TypeOK, Reader, Stages, Before, Waiting, Loading
  <2>2. rd' = [rd EXCEPT ![r] = row]
    BY <1>4 DEF FailPrefix
  <2>3. rd' \in [Readers -> Reader]
    BY <2>1, <2>2, RowStep
  <2> QED
    BY <1>4, <2>3 DEF FailPrefix, TypeOK, redis, postgres
<1>5. ASSUME NEW r \in Readers, Hit(r) PROVE TypeOK'
  <2> DEFINE row == [rd[r] EXCEPT !.at = "done", !.key = None, !.holds = FALSE,
                                     !.polls = 0, !.total = 0, !.out = store[rd[r].key]]
  <2>1. store[rd[r].key] \in Value \cup {None}
    BY <1>0, <1>5 DEF Hit, TypeOK, Locals, Reader, Waiting
  <2>2. row \in Reader
    BY <1>0, <2>1, FinishTyped
  <2>3. rd' = [rd EXCEPT ![r] = row]
    BY <1>5 DEF Hit, Finish
  <2>4. rd' \in [Readers -> Reader]
    BY <2>2, <2>3, RowStep
  <2> QED
    BY <1>5, <2>4 DEF Hit, TypeOK, redis, postgres
<1>6. ASSUME NEW r \in Readers, Miss(r) PROVE TypeOK'
  <2> DEFINE row == [rd[r] EXCEPT !.at = IF rd[r].at = "get" THEN "flight" ELSE "again"]
  <2>1. row \in Reader
    BY <1>0 DEF TypeOK, Reader, Stages, Before, Waiting, Loading
  <2>2. rd' = [rd EXCEPT ![r] = row]
    BY <1>6 DEF Miss
  <2>3. rd' \in [Readers -> Reader]
    BY <2>1, <2>2, RowStep
  <2> QED
    BY <1>6, <2>3 DEF Miss, TypeOK, redis, postgres
<1>7. ASSUME NEW r \in Readers, Lock(r) PROVE TypeOK'
  <2> DEFINE row == [rd[r] EXCEPT !.at = "count", !.holds = TRUE]
  <2>1. row \in Reader
    BY <1>0 DEF TypeOK, Reader, Stages, Before, Waiting, Loading
  <2>2. rd' = [rd EXCEPT ![r] = row]
    BY <1>7 DEF Lock
  <2>3. rd' \in [Readers -> Reader]
    BY <2>1, <2>2, RowStep
  <2> QED
    BY <1>0, <1>7, <2>3 DEF Lock, TypeOK, postgres, Reader, Locals, Waiting
<1>8. ASSUME NEW r \in Readers, Poll(r) PROVE TypeOK'
  <2> DEFINE n == IF rd[r].at = "again" THEN rd[r].polls + 1 ELSE rd[r].polls
  <2> DEFINE row == [rd[r] EXCEPT !.at = "peek", !.polls = n]
  <2>1. n \in 0..Polls
    BY <1>0, <1>8, PollsAssumption DEF Poll, Reader
  <2> HIDE DEF n
  <2>2. row \in Reader
    BY <1>0, <2>1 DEF Reader, Stages, Before, Waiting, Loading
  <2> USE DEF n
  <2>3. rd' = [rd EXCEPT ![r] = row]
    BY <1>8 DEF Poll
  <2>4. rd' \in [Readers -> Reader]
    BY <2>2, <2>3, RowStep
  <2> QED
    BY <1>8, <2>4 DEF Poll, TypeOK, redis, postgres
<1>9. ASSUME NEW r \in Readers, GiveUp(r) PROVE TypeOK'
  <2> DEFINE row == [rd[r] EXCEPT !.at = "count"]
  <2>1. row \in Reader
    BY <1>0 DEF TypeOK, Reader, Stages, Before, Waiting, Loading
  <2>2. rd' = [rd EXCEPT ![r] = row]
    BY <1>9 DEF GiveUp
  <2>3. rd' \in [Readers -> Reader]
    BY <2>1, <2>2, RowStep
  <2> QED
    BY <1>9, <2>3 DEF GiveUp, TypeOK, redis, postgres
<1>10. ASSUME NEW r \in Readers, FailFlight(r) PROVE TypeOK'
  <2> DEFINE row == [rd[r] EXCEPT !.at = "count"]
  <2>1. row \in Reader
    BY <1>0 DEF TypeOK, Reader, Stages, Before, Waiting, Loading
  <2>2. rd' = [rd EXCEPT ![r] = row]
    BY <1>10 DEF FailFlight
  <2>3. rd' \in [Readers -> Reader]
    BY <2>1, <2>2, RowStep
  <2> QED
    BY <1>0, <1>10, <2>3 DEF FailFlight, TypeOK, postgres, Reader, Locals, Waiting
<1>11. ASSUME NEW r \in Readers, ReadCount(r) PROVE TypeOK'
  <2> DEFINE row == [rd[r] EXCEPT !.at = "page", !.total = db]
  <2>1. row \in Reader
    BY <1>0 DEF TypeOK, Reader, Stages, Before, Waiting, Loading
  <2>2. rd' = [rd EXCEPT ![r] = row]
    BY <1>11 DEF ReadCount
  <2>3. rd' \in [Readers -> Reader]
    BY <2>1, <2>2, RowStep
  <2> QED
    BY <1>11, <2>3 DEF ReadCount, TypeOK, redis, postgres
<1>12. ASSUME NEW r \in Readers, ReadPage(r) PROVE TypeOK'
  <2> DEFINE next == IF rd[r].key = None THEN "release" ELSE "set"
  <2> DEFINE v == [total |-> rd[r].total, page |-> db]
  <2> DEFINE row == [rd[r] EXCEPT !.at = next, !.out = v]
  <2>1. v \in Value
    BY <1>0 DEF TypeOK, Reader, Value
  <2> HIDE DEF v
  <2>2. row \in Reader
    BY <1>0, <2>1 DEF Reader, Stages, Before, Waiting, Loading
  <2> USE DEF v
  <2>3. rd' = [rd EXCEPT ![r] = row]
    BY <1>12 DEF ReadPage
  <2>4. rd' \in [Readers -> Reader]
    BY <2>2, <2>3, RowStep
  <2> QED
    BY <1>12, <2>4 DEF ReadPage, TypeOK, redis, postgres
<1>13. ASSUME NEW r \in Readers, FailLoad(r) PROVE TypeOK'
  <2> DEFINE row == [rd[r] EXCEPT !.at = "release"]
  <2>1. row \in Reader
    BY <1>0 DEF TypeOK, Reader, Stages, Before, Waiting, Loading
  <2>2. rd' = [rd EXCEPT ![r] = row]
    BY <1>13 DEF FailLoad
  <2>3. rd' \in [Readers -> Reader]
    BY <2>1, <2>2, RowStep
  <2> QED
    BY <1>13, <2>3 DEF FailLoad, TypeOK, redis, postgres
<1>14. ASSUME NEW r \in Readers, Store(r) PROVE TypeOK'
  <2> DEFINE row == [rd[r] EXCEPT !.at = "release"]
  <2>1. row \in Reader
    BY <1>0 DEF TypeOK, Reader, Stages, Before, Waiting, Loading
  <2>2. rd' = [rd EXCEPT ![r] = row]
    BY <1>14 DEF Store
  <2>3. rd' \in [Readers -> Reader]
    BY <2>1, <2>2, RowStep
  <2> QED
    BY <1>0, <1>14, <2>3 DEF Store, TypeOK, postgres, Reader, Locals
<1>15. ASSUME NEW r \in Readers, Release(r) PROVE TypeOK'
  <2> DEFINE row == [rd[r] EXCEPT !.at = "done", !.key = None, !.holds = FALSE,
                                     !.polls = 0, !.total = 0, !.out = rd[r].out]
  <2>1. rd[r].out \in Value \cup {None}
    BY <1>0 DEF Reader
  <2>2. row \in Reader
    BY <1>0, <2>1, FinishTyped
  <2>3. rd' = [rd EXCEPT ![r] = row]
    BY <1>15 DEF Release, Finish
  <2>4. rd' \in [Readers -> Reader]
    BY <2>2, <2>3, RowStep
  <2> QED
    BY <1>0, <1>15, <2>4 DEF Release, TypeOK, postgres, Reader, Locals
<1>16. ASSUME NEW w \in Writers, CommitWrite(w) PROVE TypeOK'
  BY <1>16 DEF CommitWrite, TypeOK, Writer, redis
<1>17. ASSUME NEW w \in Writers, Invalidate(w) PROVE TypeOK'
  BY <1>17 DEF Invalidate, PostCommitHooks, TypeOK, Writer, NewToken
<1>18. ASSUME NEW w \in Writers, FailInvalidate(w) PROVE TypeOK'
  BY <1>18 DEF FailInvalidate, PostCommitHooks, TypeOK, Writer, redis
<1>19. ASSUME LoseGeneration PROVE TypeOK'
  BY <1>19 DEF LoseGeneration, TypeOK, postgres
<1>20. ASSUME NEW t \in Tokens, LoseValue(t) PROVE TypeOK'
  BY <1>20 DEF LoseValue, TypeOK, postgres
<1>21. ASSUME NEW t \in Tokens, LoseLock(t) PROVE TypeOK'
  BY <1>21 DEF LoseLock, TypeOK, postgres
<1>22. ASSUME UNCHANGED vars PROVE TypeOK'
  BY <1>22 DEF TypeOK, vars
<1> QED
  BY <1>1, <1>2, <1>3, <1>4, <1>5, <1>6, <1>7, <1>8, <1>9, <1>10, <1>11, <1>12, <1>13,
      <1>14, <1>15, <1>16, <1>17, <1>18, <1>19, <1>20, <1>21, <1>22, Steps

\* Every action keeps the rest.
LEMMA InductiveStep ==
  ASSUME IInv, TypeOK', [Next]_vars
  PROVE  IInv'
<1> USE DEF IInv, TypeOK, Reader, Before, Waiting, Loading
<1>1. ASSUME NEW r \in Readers, Begin(r) PROVE IInv'
  <2>1. Undrawn' /\ Locals' /\ Versions'
    BY <1>1 DEF Begin, redis, postgres, Undrawn, Locals, Versions
  <2>2. Current' /\ Reachable'
    BY <1>1
    DEF Begin, redis, postgres, Undrawn, Locals, Versions, Current, Reachable,
        LoadsAtLeast, AtLeast
  <2>3. NoStaleAnswer' /\ OneLoader'
    BY <1>1
    DEF Begin, redis, postgres, Locals, Versions, Reachable, AtLeast, NoStaleAnswer,
        OneLoader
  <2> QED
    BY <2>1, <2>2, <2>3
<1>2. ASSUME NEW r \in Readers, ReadGeneration(r) PROVE IInv'
  <2>1. Undrawn' /\ Locals' /\ Versions'
    BY <1>2 DEF ReadGeneration, redis, postgres, Undrawn, Locals, Versions
  <2>2. Current'
    BY <1>2
    DEF ReadGeneration, redis, postgres, Undrawn, Locals, Current, LoadsAtLeast,
        AtLeast
  <2>3. Reachable'
    <3>1. /\ \A x \in Readers \ {r} : rd'[x] = rd[x]
          /\ rd'[r].at \notin {"page", "set"}
          /\ rd'[r].key = gen /\ rd'[r].floor = rd[r].floor /\ store' = store
      BY <1>2 DEF ReadGeneration, redis
    <3>2. ASSUME NEW x \in Readers \ {r}, rd'[x].key # None
          PROVE  /\ AtLeast(store'[rd'[x].key], rd'[x].floor)
                 /\ \A q \in Readers : rd'[q].key = rd'[x].key
                                        => LoadsAtLeast(q, rd[x].floor)'
      BY <3>1, <3>2 DEF Reachable, LoadsAtLeast
    <3>3. ASSUME gen # None
          PROVE  /\ AtLeast(store[gen], rd[r].floor)
                 /\ \A q \in Readers \ {r} : rd[q].key = gen => LoadsAtLeast(q, rd[r].floor)
      BY <3>3 DEF Current, Versions, LoadsAtLeast, AtLeast, Value
    <3> QED
      BY <3>1, <3>2, <3>3 DEF Reachable, LoadsAtLeast, AtLeast
  <2>4. NoStaleAnswer' /\ OneLoader'
    BY <1>2
    DEF ReadGeneration, redis, postgres, Locals, Versions, Reachable, AtLeast,
        NoStaleAnswer, OneLoader
  <2> QED
    BY <2>1, <2>2, <2>3, <2>4
<1>3. ASSUME NEW r \in Readers, CreateGeneration(r) PROVE IInv'
  <2>1. Undrawn' /\ Locals' /\ Versions'
    BY <1>3, TokensAssumption
    DEF CreateGeneration, postgres, NewToken, Undrawn, Locals, Versions
  <2>2. Current' /\ Reachable'
    BY <1>3, TokensAssumption
    DEF CreateGeneration, postgres, NewToken, Undrawn, Locals, Versions, Current,
        Reachable, LoadsAtLeast, AtLeast
  <2>3. NoStaleAnswer' /\ OneLoader'
    BY <1>3, TokensAssumption
    DEF CreateGeneration, postgres, NewToken, Locals, Versions, Reachable, AtLeast,
        NoStaleAnswer, OneLoader
  <2> QED
    BY <2>1, <2>2, <2>3
<1>4. ASSUME NEW r \in Readers, FailPrefix(r) PROVE IInv'
  <2>1. Undrawn' /\ Locals' /\ Versions'
    BY <1>4 DEF FailPrefix, redis, postgres, Undrawn, Locals, Versions
  <2>2. Current' /\ Reachable'
    BY <1>4
    DEF FailPrefix, redis, postgres, Undrawn, Locals, Versions, Current, Reachable,
        LoadsAtLeast, AtLeast
  <2>3. NoStaleAnswer' /\ OneLoader'
    BY <1>4
    DEF FailPrefix, redis, postgres, Locals, Versions, Reachable, AtLeast,
        NoStaleAnswer, OneLoader
  <2> QED
    BY <2>1, <2>2, <2>3
<1>5. ASSUME NEW r \in Readers, Hit(r) PROVE IInv'
  <2>1. Undrawn' /\ Locals' /\ Versions'
    BY <1>5 DEF Hit, Finish, redis, postgres, Undrawn, Locals, Versions
  <2>2. Current' /\ Reachable'
    BY <1>5
    DEF Hit, Finish, redis, postgres, Undrawn, Locals, Versions, Current, Reachable,
        LoadsAtLeast, AtLeast
  <2>3. NoStaleAnswer' /\ OneLoader'
    BY <1>5
    DEF Hit, Finish, redis, postgres, Locals, Versions, Reachable, AtLeast,
        NoStaleAnswer, OneLoader
  <2> QED
    BY <2>1, <2>2, <2>3
<1>6. ASSUME NEW r \in Readers, Miss(r) PROVE IInv'
  <2>1. Undrawn' /\ Locals' /\ Versions'
    BY <1>6 DEF Miss, redis, postgres, Undrawn, Locals, Versions
  <2>2. Current' /\ Reachable'
    BY <1>6
    DEF Miss, redis, postgres, Undrawn, Locals, Versions, Current, Reachable,
        LoadsAtLeast, AtLeast
  <2>3. NoStaleAnswer' /\ OneLoader'
    BY <1>6
    DEF Miss, redis, postgres, Locals, Versions, Reachable, AtLeast, NoStaleAnswer,
        OneLoader
  <2> QED
    BY <2>1, <2>2, <2>3
<1>7. ASSUME NEW r \in Readers, Lock(r) PROVE IInv'
  <2>1. Undrawn' /\ Locals' /\ Versions'
    BY <1>7, TokensAssumption DEF Lock, postgres, Undrawn, Locals, Versions
  <2>2. Current' /\ Reachable'
    BY <1>7, TokensAssumption
    DEF Lock, postgres, Undrawn, Locals, Versions, Current, Reachable, LoadsAtLeast,
        AtLeast
  <2>3. NoStaleAnswer' /\ OneLoader'
    BY <1>7, TokensAssumption
    DEF Lock, postgres, Locals, Versions, Reachable, AtLeast, NoStaleAnswer, OneLoader
  <2> QED
    BY <2>1, <2>2, <2>3
<1>8. ASSUME NEW r \in Readers, Poll(r) PROVE IInv'
  <2>1. Undrawn' /\ Locals' /\ Versions'
    BY <1>8 DEF Poll, redis, postgres, Undrawn, Locals, Versions
  <2>2. Current' /\ Reachable'
    BY <1>8
    DEF Poll, redis, postgres, Undrawn, Locals, Versions, Current, Reachable,
        LoadsAtLeast, AtLeast
  <2>3. NoStaleAnswer' /\ OneLoader'
    BY <1>8
    DEF Poll, redis, postgres, Locals, Versions, Reachable, AtLeast, NoStaleAnswer,
        OneLoader
  <2> QED
    BY <2>1, <2>2, <2>3
<1>9. ASSUME NEW r \in Readers, GiveUp(r) PROVE IInv'
  <2>1. Undrawn' /\ Locals' /\ Versions'
    BY <1>9 DEF GiveUp, redis, postgres, Undrawn, Locals, Versions
  <2>2. Current' /\ Reachable'
    BY <1>9
    DEF GiveUp, redis, postgres, Undrawn, Locals, Versions, Current, Reachable,
        LoadsAtLeast, AtLeast
  <2>3. NoStaleAnswer' /\ OneLoader'
    BY <1>9
    DEF GiveUp, redis, postgres, Locals, Versions, Reachable, AtLeast, NoStaleAnswer,
        OneLoader
  <2> QED
    BY <2>1, <2>2, <2>3
<1>10. ASSUME NEW r \in Readers, FailFlight(r) PROVE IInv'
  <2>1. Undrawn' /\ Locals' /\ Versions'
    BY <1>10, TokensAssumption DEF FailFlight, postgres, Undrawn, Locals, Versions
  <2>2. Current' /\ Reachable'
    BY <1>10, TokensAssumption
    DEF FailFlight, postgres, Undrawn, Locals, Versions, Current, Reachable,
        LoadsAtLeast, AtLeast
  <2>3. NoStaleAnswer' /\ OneLoader'
    BY <1>10, TokensAssumption
    DEF FailFlight, postgres, Locals, Versions, Reachable, AtLeast, NoStaleAnswer,
        OneLoader
  <2> QED
    BY <2>1, <2>2, <2>3
<1>11. ASSUME NEW r \in Readers, ReadCount(r) PROVE IInv'
  <2>1. Undrawn' /\ Locals' /\ Versions'
    BY <1>11 DEF ReadCount, redis, postgres, Undrawn, Locals, Versions
  <2>2. Current' /\ Reachable'
    BY <1>11
    DEF ReadCount, redis, postgres, Undrawn, Locals, Versions, Current, Reachable,
        LoadsAtLeast, AtLeast
  <2>3. NoStaleAnswer' /\ OneLoader'
    BY <1>11
    DEF ReadCount, redis, postgres, Locals, Versions, Reachable, AtLeast,
        NoStaleAnswer, OneLoader
  <2> QED
    BY <2>1, <2>2, <2>3
<1>12. ASSUME NEW r \in Readers, ReadPage(r) PROVE IInv'
  <2>1. Undrawn' /\ Locals' /\ Versions'
    BY <1>12 DEF ReadPage, redis, postgres, Undrawn, Locals, Versions
  <2>2. Current' /\ Reachable'
    BY <1>12
    DEF ReadPage, redis, postgres, Undrawn, Locals, Versions, Current, Reachable,
        LoadsAtLeast, AtLeast
  <2>3. NoStaleAnswer' /\ OneLoader'
    BY <1>12
    DEF ReadPage, redis, postgres, Locals, Versions, Reachable, AtLeast,
        NoStaleAnswer, OneLoader
  <2> QED
    BY <2>1, <2>2, <2>3
<1>13. ASSUME NEW r \in Readers, FailLoad(r) PROVE IInv'
  <2>1. Undrawn' /\ Locals' /\ Versions'
    BY <1>13 DEF FailLoad, redis, postgres, Undrawn, Locals, Versions
  <2>2. Current' /\ Reachable'
    BY <1>13
    DEF FailLoad, redis, postgres, Undrawn, Locals, Versions, Current, Reachable,
        LoadsAtLeast, AtLeast
  <2>3. NoStaleAnswer' /\ OneLoader'
    BY <1>13
    DEF FailLoad, redis, postgres, Locals, Versions, Reachable, AtLeast,
        NoStaleAnswer, OneLoader
  <2> QED
    BY <2>1, <2>2, <2>3
<1>14. ASSUME NEW r \in Readers, Store(r) PROVE IInv'
  <2>1. Undrawn' /\ Locals' /\ Versions'
    BY <1>14 DEF Store, postgres, Undrawn, Locals, Versions
  <2>2. Current' /\ Reachable'
    BY <1>14
    DEF Store, postgres, Undrawn, Locals, Versions, Current, Reachable, LoadsAtLeast,
        AtLeast
  <2>3. NoStaleAnswer' /\ OneLoader'
    BY <1>14
    DEF Store, postgres, Locals, Versions, Reachable, AtLeast, NoStaleAnswer,
        OneLoader
  <2> QED
    BY <2>1, <2>2, <2>3
<1>15. ASSUME NEW r \in Readers, Release(r) PROVE IInv'
  <2>1. Undrawn' /\ Locals' /\ Versions'
    BY <1>15, TokensAssumption
    DEF Release, Finish, OwnLock, postgres, Undrawn, Locals, Versions
  <2>2. Current' /\ Reachable'
    BY <1>15, TokensAssumption
    DEF Release, Finish, OwnLock, postgres, Undrawn, Locals, Versions, Current,
        Reachable, LoadsAtLeast, AtLeast
  <2>3. NoStaleAnswer' /\ OneLoader'
    BY <1>15, TokensAssumption
    DEF Release, Finish, OwnLock, postgres, Locals, Versions, Reachable, AtLeast,
        NoStaleAnswer, OneLoader
  <2> QED
    BY <2>1, <2>2, <2>3
<1>16. ASSUME NEW w \in Writers, CommitWrite(w) PROVE IInv'
  <2>1. Undrawn' /\ Locals' /\ Versions'
    BY <1>16 DEF CommitWrite, Writer, redis, Undrawn, Locals, Versions
  <2>2. Current' /\ Reachable'
    BY <1>16
    DEF CommitWrite, Writer, redis, Undrawn, Locals, Versions, Current, Reachable,
        LoadsAtLeast, AtLeast
  <2>3. NoStaleAnswer' /\ OneLoader'
    BY <1>16
    DEF CommitWrite, Writer, redis, Locals, Versions, Reachable, AtLeast,
        NoStaleAnswer, OneLoader
  <2> QED
    BY <2>1, <2>2, <2>3
<1>17. ASSUME NEW w \in Writers, Invalidate(w) PROVE IInv'
  <2>1. Undrawn' /\ Locals' /\ Versions'
    BY <1>17, TokensAssumption
    DEF Invalidate, PostCommitHooks, Writer, NewToken, Undrawn, Locals, Versions
  <2>2. Current' /\ Reachable'
    BY <1>17, TokensAssumption
    DEF Invalidate, PostCommitHooks, Writer, NewToken, Undrawn, Locals, Versions, Current, Reachable,
        LoadsAtLeast, AtLeast
  <2>3. NoStaleAnswer' /\ OneLoader'
    BY <1>17, TokensAssumption
    DEF Invalidate, PostCommitHooks, Writer, NewToken, Locals, Versions, Reachable, AtLeast,
        NoStaleAnswer, OneLoader
  <2> QED
    BY <2>1, <2>2, <2>3
<1>18. ASSUME NEW w \in Writers, FailInvalidate(w) PROVE IInv'
  <2>1. Undrawn' /\ Locals' /\ Versions'
    BY <1>18 DEF FailInvalidate, PostCommitHooks, Writer, redis, Undrawn, Locals, Versions
  <2>2. Current' /\ Reachable'
    BY <1>18
    DEF FailInvalidate, PostCommitHooks, Writer, redis, Undrawn, Locals, Versions, Current, Reachable,
        LoadsAtLeast, AtLeast
  <2>3. NoStaleAnswer' /\ OneLoader'
    BY <1>18
    DEF FailInvalidate, PostCommitHooks, Writer, redis, Locals, Versions, Reachable, AtLeast,
        NoStaleAnswer, OneLoader
  <2> QED
    BY <2>1, <2>2, <2>3
<1>19. ASSUME LoseGeneration PROVE IInv'
  <2>1. Undrawn' /\ Locals' /\ Versions'
    BY <1>19 DEF LoseGeneration, postgres, Undrawn, Locals, Versions
  <2>2. Current' /\ Reachable'
    BY <1>19
    DEF LoseGeneration, postgres, Undrawn, Locals, Versions, Current, Reachable,
        LoadsAtLeast, AtLeast
  <2>3. NoStaleAnswer' /\ OneLoader'
    BY <1>19
    DEF LoseGeneration, postgres, Locals, Versions, Reachable, AtLeast, NoStaleAnswer,
        OneLoader
  <2> QED
    BY <2>1, <2>2, <2>3
<1>20. ASSUME NEW t \in Tokens, LoseValue(t) PROVE IInv'
  <2>1. Undrawn' /\ Locals' /\ Versions'
    BY <1>20 DEF LoseValue, postgres, Undrawn, Locals, Versions
  <2>2. Current' /\ Reachable'
    BY <1>20
    DEF LoseValue, postgres, Undrawn, Locals, Versions, Current, Reachable,
        LoadsAtLeast, AtLeast
  <2>3. NoStaleAnswer' /\ OneLoader'
    BY <1>20
    DEF LoseValue, postgres, Locals, Versions, Reachable, AtLeast, NoStaleAnswer,
        OneLoader
  <2> QED
    BY <2>1, <2>2, <2>3
<1>21. ASSUME NEW t \in Tokens, LoseLock(t) PROVE IInv'
  <2>1. Undrawn' /\ Locals' /\ Versions'
    BY <1>21 DEF LoseLock, postgres, Undrawn, Locals, Versions
  <2>2. Current' /\ Reachable'
    BY <1>21
    DEF LoseLock, postgres, Undrawn, Locals, Versions, Current, Reachable,
        LoadsAtLeast, AtLeast
  <2>3. NoStaleAnswer' /\ OneLoader'
    BY <1>21
    DEF LoseLock, postgres, Locals, Versions, Reachable, AtLeast, NoStaleAnswer,
        OneLoader
  <2> QED
    BY <2>1, <2>2, <2>3
<1>22. ASSUME UNCHANGED vars PROVE IInv'
  BY <1>22
  DEF vars, Undrawn, Locals, Versions, Current, Reachable, LoadsAtLeast, AtLeast,
      NoStaleAnswer, OneLoader
<1> QED
  BY <1>1, <1>2, <1>3, <1>4, <1>5, <1>6, <1>7, <1>8, <1>9, <1>10, <1>11, <1>12, <1>13,
      <1>14, <1>15, <1>16, <1>17, <1>18, <1>19, <1>20, <1>21, <1>22, Steps

LEMMA Induction == Spec => []IInv
<1>1. Init => IInv
  BY TokensAssumption, PollsAssumption
  DEF Init, IInv, TypeOK, Undrawn, Locals, Versions, Current, Reachable, NoStaleAnswer,
      OneLoader, AtLeast, LoadsAtLeast, Reader, Writer, Value, Stages, Before, Waiting, Loading
<1>2. IInv /\ [Next]_vars => IInv'
  BY TypeStep, InductiveStep DEF IInv
<1> QED
  BY <1>1, <1>2, PTL DEF Spec

-----------------------------------------------------------------------------
(* The cache, the requests and the writers are well typed, whatever Redis  *)
(* loses and however many requests there are: no waiter of singleFlight    *)
(* polls past its deadline.                                                *)
THEOREM CacheTyped == Spec => []TypeOK
<1>1. IInv => TypeOK
  BY DEF IInv
<1> QED
  BY <1>1, Induction, PTL

(* A list read that begins after an invalidation (tenant-cache.service.ts  *)
(* invalidate) is never answered with older rows, for any number of        *)
(* readers, writers and lost keys.                                         *)
THEOREM AnswersAreFresh == Spec => []NoStaleAnswer
<1>1. IInv => NoStaleAnswer
  BY DEF IInv
<1> QED
  BY <1>1, Induction, PTL

(* Only expiry takes the lock of singleFlight from a loader: no release    *)
(* (RELEASE_LOCK) and no other request does.                               *)
THEOREM LocksAreKept == Spec => []OneLoader
<1>1. IInv => OneLoader
  BY DEF IInv
<1> QED
  BY <1>1, Induction, PTL

=============================================================================
