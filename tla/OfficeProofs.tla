---------------------------- MODULE OfficeProofs ----------------------------
(***************************************************************************)
(* Proofs about the parts of the office, for any ids, bounds and number of *)
(* requests.  Each part has an invariant of its own; a step of the office  *)
(* is a step of one part and leaves the variables of the others alone.     *)
(***************************************************************************)
EXTENDS Office, FiniteSetTheorems, WellFoundedInduction, TLAPS

LEMMA OneStep ==
  ASSUME [OfficeNext]_officeVars
  PROVE  /\ [ConfigNext]_configVars
         /\ [RegistersNext]_registerVars
         /\ [AccountsNext]_accountVars
         /\ [QuotesNext]_quoteVars
         /\ [PullNext]_pullVars
         /\ [PicturesNext \/ PhotosNext]_imageVars
         /\ [RateLimitNext]_limitVars
<1>1. CASE UNCHANGED officeVars
  BY <1>1 DEF officeVars
<1>2. CASE Only("quotes") /\ QuotesNext
  BY <1>2 DEF Only, Still
<1>3. CASE Only("pictures") /\ PicturesNext
  BY <1>3 DEF Only, Still
<1>4. CASE Only("photos") /\ PhotosNext
  BY <1>4 DEF Only, Still
<1>5. CASE Only("pull") /\ PullNext
  BY <1>5 DEF Only, Still
<1>6. CASE Only("config") /\ ConfigNext
  BY <1>6 DEF Only, Still
<1>7. CASE Only("accounts") /\ AccountsNext
  BY <1>7 DEF Only, Still
<1>8. CASE Only("registers") /\ RegistersNext
  BY <1>8 DEF Only, Still
<1>9. CASE Only("attempts") /\ RateLimitNext
  BY <1>9 DEF Only, Still
<1> QED
  BY <1>1, <1>2, <1>3, <1>4, <1>5, <1>6, <1>7, <1>8, <1>9 DEF OfficeNext

-----------------------------------------------------------------------------
(* The log level: what was read, or delivered last, is what the process    *)
(* logs at, and the open watch goes on with the next revision.             *)

Following == phase \in {"loop", "watching", "backoff"}

ConfigTyped ==
    /\ puts \in Seq(Levels \cup {Garbage}) /\ compacted \in Nat
    /\ latestRevision \in Nat \cup {None} /\ needsSync \in BOOLEAN /\ watch \in Nat
    /\ phase \in {"boot", "loop", "watching", "backoff", "stopped"}

ConfigInv ==
    /\ ConfigTyped
    /\ latestRevision # None =>
          /\ latestRevision <= Revision
          /\ latestRevision > 0 /\ puts[latestRevision] \in Levels => level = puts[latestRevision]
    /\ Following /\ latestRevision = None => needsSync
    /\ Watching => latestRevision # None /\ watch = latestRevision + 1

LEMMA InitConfig == ConfigInit => ConfigInv
<1> SUFFICES ASSUME ConfigInit PROVE ConfigInv
  OBVIOUS
<1>1. ConfigTyped
  <2>1. puts \in Seq(Levels \cup {Garbage})
    BY DEF ConfigInit
  <2> QED BY <2>1 DEF ConfigInit, ConfigTyped
<1> QED
  BY <1>1 DEF ConfigInit, ConfigInv, Following, Watching

LEMMA PutKeeps ==
  ASSUME ConfigInv, NEW value \in Levels \cup {Garbage}, Put(value)
  PROVE  ConfigInv'
<1>1. /\ puts' \in Seq(Levels \cup {Garbage}) /\ Len(puts') = Len(puts) + 1
      /\ \A i \in 1 .. Len(puts) : puts'[i] = puts[i]
      /\ Len(puts) \in Nat
  BY DEF ConfigInv, ConfigTyped, Put
<1>2. UNCHANGED <<compacted, level, latestRevision, needsSync, phase, watch>>
  BY DEF Put, processVars
<1> QED
  BY <1>1, <1>2 DEF ConfigInv, ConfigTyped, Following, Watching, Revision

\* fetchInitialLogLevel: the process has seen all there is.
LEMMA FetchKeeps ==
  ASSUME ConfigInv, latestRevision' = Revision, UNCHANGED <<puts, compacted, watch>>,
         IF puts = <<>> THEN UNCHANGED level ELSE ApplyLogLevel(puts[Revision]),
         needsSync' \in BOOLEAN, phase' = "loop"
  PROVE  ConfigInv'
<1>1. Revision \in Nat /\ Revision # None /\ (puts = <<>> => Revision = 0)
  BY RateLimitAssumption DEF ConfigInv, ConfigTyped, Revision
<1>2. Revision > 0 /\ puts[Revision] \in Levels => level' = puts[Revision]
  BY <1>1 DEF ApplyLogLevel
<1> QED
  BY <1>1, <1>2 DEF ConfigInv, ConfigTyped, Following, Watching, Revision

LEMMA ConfigStep == ConfigInv /\ [ConfigNext]_configVars => ConfigInv'
<1> SUFFICES ASSUME ConfigInv, [ConfigNext]_configVars PROVE ConfigInv'
  OBVIOUS
<1> USE DEF ConfigInv, ConfigTyped, Following, Watching
<1>1. ASSUME NEW value \in Levels \cup {Garbage}, Put(value) PROVE ConfigInv'
  BY <1>1, PutKeeps
<1>2. CASE Compact \/ ExpireToken
  BY <1>2 DEF Compact, ExpireToken, processVars, Revision
<1>3. CASE Start
  <2>1. UNCHANGED <<puts, compacted, watch>> /\ phase' = "loop"
    BY <1>3 DEF Start
  <2>2. CASE needsSync' = TRUE /\ UNCHANGED <<level, latestRevision>>
    BY <2>1, <2>2 DEF Revision
  <2>3. CASE /\ latestRevision' = Revision /\ UNCHANGED needsSync
             /\ IF puts = <<>> THEN UNCHANGED level ELSE ApplyLogLevel(puts[Revision])
    BY <2>1, <2>3, FetchKeeps
  <2> QED BY <1>3, <2>2, <2>3 DEF Start
<1>4. CASE Resync
  <2>1. UNCHANGED <<puts, compacted, watch, phase>> /\ phase = "loop" /\ needsSync' = FALSE
    BY <1>4 DEF Resync
  <2>2. /\ latestRevision' = Revision
        /\ IF puts = <<>> THEN UNCHANGED level ELSE ApplyLogLevel(puts[Revision])
    BY <1>4 DEF Resync, FetchInitialLogLevel
  <2> QED BY <2>1, <2>2, FetchKeeps
<1>5. CASE OpenWatch
  BY <1>5 DEF OpenWatch, Revision
<1>6. CASE HandleEvent
  <2>1. /\ latestRevision' = watch /\ watch' = watch + 1 /\ watch <= Revision
        /\ UNCHANGED <<puts, compacted, needsSync, phase>> /\ watch \in Nat /\ watch # None
        /\ phase = "watching"
    BY <1>6, RateLimitAssumption DEF HandleEvent
  <2>2. puts[watch] \in Levels => level' = puts[watch]
    BY <1>6 DEF HandleEvent, ApplyLogLevel
  <2> QED BY <2>1, <2>2 DEF Revision
<1>7. CASE Authenticate \/ TokenRefused \/ Compacted \/ Interrupted \/ Reconnect \/ Stop
  BY <1>7 DEF Authenticate, TokenRefused, Compacted, Interrupted, Reconnect, Stop, Revision
<1>8. CASE UNCHANGED configVars
  BY <1>8 DEF configVars, Revision
<1> QED
  BY <1>1, <1>2, <1>3, <1>4, <1>5, <1>6, <1>7, <1>8 DEF ConfigNext

\* A watch that has caught up means the level the key holds, however often it broke, was
\* compacted or lost its token (watchStream, fetchInitialLogLevel, handleWatchPayload).
THEOREM LevelIsFollowed == OfficeSpec => []LevelFollows
<1>1. ConfigInv => LevelFollows
  <2> SUFFICES ASSUME ConfigInv, Watching, watch > Revision, puts # <<>>,
                      puts[Revision] \in Levels
               PROVE  level = puts[Revision]
    BY DEF LevelFollows
  <2>1. Revision \in Nat /\ Revision > 0
    BY DEF Revision, ConfigInv, ConfigTyped
  <2>2. latestRevision \in Nat /\ watch = latestRevision + 1 /\ latestRevision <= Revision
    BY DEF ConfigInv, ConfigTyped
  <2>3. latestRevision = Revision
    BY <2>1, <2>2
  <2> QED BY <2>1, <2>2, <2>3 DEF ConfigInv
<1>2. OfficeInit => ConfigInv
  BY InitConfig DEF OfficeInit
<1>3. ConfigInv /\ [OfficeNext]_officeVars => ConfigInv'
  BY OneStep, ConfigStep
<1> QED BY <1>1, <1>2, <1>3, PTL DEF OfficeSpec

-----------------------------------------------------------------------------
(* The registers: what a transaction read is still so while it holds its   *)
(* lock, as far as it decides on it.                                       *)

Steps == {"asked", "locked"}
Task == [op : {"create", "update", "delete", "credit", "pay", "park", "recall", "review"},
         id : People \cup Carts \cup Items, step : Steps, max : Nat, owes : Nat,
         gone : BOOLEAN, nth : Nat]

RegistersTyped ==
    /\ person \in [People -> PersonRow \cup {None}]
    /\ cart \in [Carts -> BOOLEAN]
    /\ reviewedBy \in [Items -> Clerks \cup {None}]
    /\ task \in [Clerks -> Task \cup {None}] /\ tasks \in Nat
    /\ handed \subseteq (Carts \cup Items) \X Clerks \X Nat /\ parked \subseteq Carts

Holding(w) == task[w] # None /\ task[w].step = "locked"
OwedBy(p) == IF person[p] # None THEN person[p].owes ELSE 0
Sequences == {"customers", "mechanics"}

OwnOps == \A w \in Clerks : task[w] # None => task[w].op \in Ops(task[w].id)
OneHolder ==
    \A v, w \in Clerks : v # w /\ Holding(v) /\ Holding(w) => LockOn(task[v]) # LockOn(task[w])
CodesInOrder ==
    \A kind \in Sequences : MaxCode(kind) \in Nat /\ Taken(kind) = 1 .. MaxCode(kind)
OwnCode ==
    \A p, q \in People : p # q /\ Kind(p) = Kind(q) /\ person[p] # None /\ person[q] # None =>
        person[p].code # person[q].code
CustomersOweNothing == \A p \in Customers : OwedBy(p) = 0
HandedOnce ==
    /\ \A x, y \in handed : x[1] = y[1] => x = y
    /\ \A x \in handed :
          /\ x[1] \in Carts => x[1] \in parked /\ ~ cart[x[1]]
          /\ x[1] \in Items => reviewedBy[x[1]] # None
    /\ \A c \in Carts : cart[c] => c \in parked

\* What a holder of the row, or of the sequence, has read.
ReadStands(w) ==
    LET t == task[w]
    IN  /\ t.op = "create" => t.max = MaxCode(Kind(t.id))
        /\ t.op # "create" /\ t.id \in People =>
              /\ t.owes = OwedBy(t.id)
              /\ t.gone /\ t.owes > 0 => person[t.id].deleted
        /\ t.id \in Carts => (t.gone <=> ~ cart[t.id])
        /\ t.id \in Items => (t.gone <=> reviewedBy[t.id] # None)
ReadsStand == \A w \in Clerks : Holding(w) => ReadStands(w)

RegistersInv ==
    /\ RegistersTyped /\ OwnOps /\ OneHolder /\ CodesInOrder /\ OwnCode
    /\ CustomersOweNothing /\ HandedOnce /\ ReadsStand
    /\ buried = {} /\ ~ refusedCode

-----------------------------------------------------------------------------
(* Codes and locks *)

LEMMA HighestIs ==
  ASSUME NEW n \in Nat, NEW S, S = 1 .. n
  PROVE  (IF S = {} THEN 0 ELSE Max(S)) = n
<1>1. CASE n = 0
  BY <1>1
<1>2. CASE n # 0
  <2>1. n \in S /\ \A y \in S : y <= n
    BY <1>2
  <2>2. Max(S) \in S /\ \A y \in S : Max(S) >= y
    BY <2>1 DEF Max
  <2>3. Max(S) = n
    BY <2>1, <2>2
  <2> QED BY <2>1, <2>3
<1> QED BY <1>1, <1>2

LEMMA KindIs == \A p \in People : Kind(p) \in Sequences
BY DEF Kind, Sequences

\* A cart, and an item, are never a person.
LEMMA GoneIs ==
  /\ \A c \in Carts : c \notin People /\ c \notin Items /\ Ops(c) = {"park", "recall"}
  /\ \A i \in Items : i \notin People /\ i \notin Carts /\ Ops(i) = {"review"}
  /\ \A c \in Carts : Gone(c) <=> ~ cart[c]
  /\ \A i \in Items : Gone(i) <=> reviewedBy[i] # None
BY RegistersAssumption DEF Gone, Ops

LEMMA PeopleStand ==
  ASSUME UNCHANGED person
  PROVE  /\ \A k \in Sequences : Taken(k)' = Taken(k) /\ MaxCode(k)' = MaxCode(k)
         /\ \A p \in People : OwedBy(p)' = OwedBy(p)
         /\ CodesInOrder => CodesInOrder'
         /\ CustomersOweNothing => CustomersOweNothing'
<1>1. \A k \in Sequences : Taken(k)' = Taken(k)
  BY DEF Taken, Kind
<1>2. \A k \in Sequences : MaxCode(k)' = MaxCode(k)
  BY <1>1 DEF MaxCode
<1>3. \A p \in People : OwedBy(p)' = OwedBy(p)
  BY DEF OwedBy
<1>4. (CodesInOrder => CodesInOrder') /\ (CustomersOweNothing => CustomersOweNothing')
  BY <1>1, <1>2, <1>3, Zenon DEF CodesInOrder, CustomersOweNothing, People
<1> QED BY <1>1, <1>2, <1>3, <1>4

\* Who read a person, or a sequence, that still stands, goes on reading it.
LEMMA StandsYet ==
  ASSUME NEW v \in Clerks, ReadStands(v), task'[v] = task[v], task[v] \in Task,
         task[v].op = "create" => task[v].id \in People,
         task[v].op = "create" => MaxCode(Kind(task[v].id))' = MaxCode(Kind(task[v].id)),
         task[v].op # "create" /\ task[v].id \in People =>
            /\ OwedBy(task[v].id)' = OwedBy(task[v].id)
            /\ task[v].owes > 0 => (person[task[v].id].deleted => person'[task[v].id].deleted),
         task[v].id \in Carts => cart'[task[v].id] = cart[task[v].id],
         task[v].id \in Items => reviewedBy'[task[v].id] = reviewedBy[task[v].id]
  PROVE  ReadStands(v)'
<1> DEFINE t == task[v]
<1>1. t.op = "create" => t.max = MaxCode(Kind(t.id))'
  BY DEF ReadStands
<1>2. t.op # "create" /\ t.id \in People =>
          t.owes = OwedBy(t.id)' /\ (t.gone /\ t.owes > 0 => person'[t.id].deleted)
  BY DEF ReadStands
<1>3. /\ t.id \in Carts => (t.gone <=> ~ cart'[t.id])
      /\ t.id \in Items => (t.gone <=> reviewedBy'[t.id] # None)
  BY DEF ReadStands
<1>4. task'[v] = t
  OBVIOUS
<1> HIDE DEF t
<1> QED BY <1>1, <1>2, <1>3, <1>4, Zenon DEF ReadStands

\* What another holder has is another row, or another sequence.
LEMMA OtherHolder ==
  ASSUME RegistersInv, NEW v \in Clerks, NEW w \in Clerks, v # w, Holding(v), Holding(w)
  PROVE  /\ task[v].op = "create" /\ task[w].op = "create" => Kind(task[v].id) # Kind(task[w].id)
         /\ task[v].op # "create" /\ task[w].op # "create" => task[v].id # task[w].id
BY DEF RegistersInv, OneHolder, LockOn

\* Who has answered, or was cut off, holds nothing.
LEMMA LeavingKeeps ==
  ASSUME RegistersInv, NEW w \in Clerks, task' = [task EXCEPT ![w] = None], UNCHANGED tasks
  PROVE  /\ task' \in [Clerks -> Task \cup {None}]
         /\ OwnOps' /\ OneHolder'
         /\ \A v \in Clerks : Holding(v)' => v # w /\ Holding(v) /\ task'[v] = task[v]
<1>1. /\ task' \in [Clerks -> Task \cup {None}]
      /\ task'[w] = None /\ \A v \in Clerks \ {w} : task'[v] = task[v]
  BY DEF RegistersInv, RegistersTyped
<1>2. \A v \in Clerks : Holding(v)' => v # w /\ Holding(v) /\ task'[v] = task[v]
  BY <1>1 DEF Holding
<1>3. OwnOps'
  <2> SUFFICES ASSUME NEW v \in Clerks, task'[v] # None PROVE task'[v].op \in Ops(task'[v].id)
    BY DEF OwnOps
  <2>1. task'[v] = task[v]
    BY <1>1
  <2> QED BY <2>1 DEF RegistersInv, OwnOps
<1>4. OneHolder'
  <2> SUFFICES ASSUME NEW v \in Clerks, NEW u \in Clerks, v # u, Holding(v)', Holding(u)'
               PROVE  LockOn(task'[v]) # LockOn(task'[u])
    BY DEF OneHolder
  <2> QED BY <1>2 DEF RegistersInv, OneHolder
<1> QED BY <1>1, <1>2, <1>3, <1>4

\* Nothing is written: what is left is what was there.
LEMMA RowsStand ==
  ASSUME RegistersInv, UNCHANGED registerRows,
         task' \in [Clerks -> Task \cup {None}], tasks' \in Nat, OwnOps', OneHolder',
         \A v \in Clerks : Holding(v)' => Holding(v) /\ task'[v] = task[v]
  PROVE  RegistersInv'
<1> USE DEF registerRows, RegistersInv
<1>1. RegistersTyped'
  BY DEF RegistersTyped
<1>2. CodesInOrder' /\ CustomersOweNothing'
  BY PeopleStand
<1>4. OwnCode' /\ HandedOnce' /\ buried' = {} /\ ~ refusedCode'
  BY DEF OwnCode, HandedOnce, Kind
<1>3. ReadsStand'
  <2> SUFFICES ASSUME NEW v \in Clerks, Holding(v)' PROVE ReadStands(v)'
    BY DEF ReadsStand
  <2>1. Holding(v) /\ task'[v] = task[v] /\ ReadStands(v)
    BY DEF ReadsStand
  <2>2. task[v] \in Task /\ (task[v].op = "create" => task[v].id \in People)
    BY <2>1 DEF RegistersTyped, OwnOps, Holding, Ops, Task
  <2> QED BY <2>1, <2>2, KindIs, PeopleStand, StandsYet DEF Task
<1> QED BY <1>1, <1>2, <1>3, <1>4

LEMMA TakeKeeps ==
  ASSUME RegistersInv, NEW w \in Clerks, NEW id \in People \cup Carts \cup Items,
         NEW op \in Ops(id), Take(w, id, op)
  PROVE  RegistersInv'
<1> DEFINE t == [op |-> op, id |-> id, step |-> "asked", max |-> 0, owes |-> 0,
                 gone |-> FALSE, nth |-> tasks]
<1>1. t \in Task /\ t.step = "asked" /\ t.op \in Ops(t.id)
  BY DEF Task, Steps, Ops, RegistersInv, RegistersTyped
<1>2. task' = [task EXCEPT ![w] = t] /\ tasks' = tasks + 1 /\ UNCHANGED registerRows
  BY DEF Take
<1> HIDE DEF t
<1>3. /\ task' \in [Clerks -> Task \cup {None}] /\ tasks' \in Nat
      /\ task'[w] = t /\ \A v \in Clerks \ {w} : task'[v] = task[v]
  BY <1>1, <1>2 DEF RegistersInv, RegistersTyped
<1>4. \A v \in Clerks : Holding(v)' => Holding(v) /\ task'[v] = task[v]
  BY <1>1, <1>3 DEF Holding
<1>5. OwnOps'
  BY <1>1, <1>3 DEF OwnOps, RegistersInv
<1>6. OneHolder'
  BY <1>4 DEF OneHolder, RegistersInv
<1> QED BY <1>2, <1>3, <1>4, <1>5, <1>6, RowsStand

LEMMA LockKeeps ==
  ASSUME RegistersInv, NEW w \in Clerks, LockAndRead(w)
  PROVE  RegistersInv'
<1> DEFINE id == task[w].id
           read == [task[w] EXCEPT !.step = "locked", !.gone = Gone(id),
                                   !.max = IF id \in People THEN MaxCode(Kind(id)) ELSE 0,
                                   !.owes = IF id \in People /\ person[id] # None THEN person[id].owes ELSE 0]
<1>1. task[w] \in Task /\ task[w] # None /\ task[w].op \in Ops(id)
  BY DEF LockAndRead, RegistersInv, RegistersTyped, OwnOps
<1>2. Gone(id) \in BOOLEAN
  BY <1>1 DEF Gone, Task, RegistersInv, RegistersTyped, PersonRow
<1>3. id \in People => MaxCode(Kind(id)) \in Nat
  BY KindIs DEF RegistersInv, CodesInOrder
<1>4. id \in People /\ person[id] # None => person[id].owes \in Nat
  BY DEF RegistersInv, RegistersTyped, PersonRow
<1>15. /\ read \in Task /\ read.op = task[w].op /\ read.id = id /\ read.gone = Gone(id)
       /\ read.max = (IF id \in People THEN MaxCode(Kind(id)) ELSE 0)
       /\ read.owes = (IF id \in People /\ person[id] # None THEN person[id].owes ELSE 0)
  BY <1>1, <1>2, <1>3, <1>4 DEF Task, Steps
<1>16. task' = [task EXCEPT ![w] = read] /\ UNCHANGED <<registerRows, tasks>>
  BY DEF LockAndRead
<1> HIDE DEF read
<1>5. PICK t \in Task :
         /\ t.op = task[w].op /\ t.id = id /\ t.gone = Gone(id)
         /\ t.max = (IF id \in People THEN MaxCode(Kind(id)) ELSE 0)
         /\ t.owes = (IF id \in People /\ person[id] # None THEN person[id].owes ELSE 0)
         /\ task' = [task EXCEPT ![w] = t]
  BY <1>15, <1>16
<1>6. task' = [task EXCEPT ![w] = t] /\ UNCHANGED <<registerRows, tasks>>
  BY <1>5, <1>16
<1>7. UNCHANGED <<person, cart, reviewedBy, parked, handed, buried, refusedCode>>
  BY <1>6 DEF registerRows
<1>8. /\ task' \in [Clerks -> Task \cup {None}]
      /\ task'[w] = t /\ \A v \in Clerks \ {w} : task'[v] = task[v]
  BY <1>5, <1>6 DEF RegistersInv, RegistersTyped
<1>9. \A v \in Clerks \ {w} : Holding(v)' = Holding(v)
  BY <1>8 DEF Holding
<1>10. OwnOps'
  BY <1>1, <1>5, <1>8 DEF OwnOps, RegistersInv
<1>11. OneHolder'
  <2>1. LockOn(t) = LockOn(task[w])
    BY <1>5 DEF LockOn
  <2>2. \A v \in Clerks \ {w} : Holding(v) => LockOn(task[v]) # LockOn(t)
    BY <2>1 DEF LockAndRead, RowWaits, Holding
  <2> QED BY <2>2, <1>8, <1>9 DEF OneHolder, RegistersInv
<1>12. ReadsStand'
  <2> SUFFICES ASSUME NEW v \in Clerks, Holding(v)' PROVE ReadStands(v)'
    BY DEF ReadsStand
  <2>1. CASE v # w
    <3>1. ReadStands(v) /\ task'[v] = task[v]
      BY <2>1, <1>8, <1>9 DEF RegistersInv, ReadsStand
    <3>2. task[v] \in Task /\ (task[v].op = "create" => task[v].id \in People)
      BY <2>1, <1>9 DEF RegistersInv, RegistersTyped, OwnOps, Holding, Ops, Task
    <3> QED BY <3>1, <3>2, <1>7, KindIs, PeopleStand, StandsYet DEF Task
  <2>2. CASE v = w
    <3>1. t.op = "create" => t.id \in People
      BY <1>1, <1>5 DEF Ops, Task
    <3>2. t.id \in People => t.owes = OwedBy(t.id)'
      BY <1>5, <1>7 DEF OwedBy
    <3>3. t.id \in People /\ t.gone /\ t.owes > 0 => person'[t.id].deleted
      <4>1. Gone(id) => person[id] = None \/ person[id].deleted \/ id \notin People
        BY RegistersAssumption DEF Gone
      <4>2. person' = person /\ t.id = id /\ t.gone = Gone(id)
        BY <1>5, <1>7
      <4>3. t.owes > 0 /\ id \in People => person[id] # None
        BY <1>5
      <4> QED BY <4>1, <4>2, <4>3, Zenon
    <3>4. t.op = "create" => t.max = MaxCode(Kind(t.id))'
      BY <1>5, <1>7, <3>1, KindIs, PeopleStand
    <3>5. /\ t.id \in Carts => (t.gone <=> ~ cart'[t.id])
          /\ t.id \in Items => (t.gone <=> reviewedBy'[t.id] # None)
      BY <1>5, <1>7, GoneIs
    <3> QED BY <2>2, <3>2, <3>3, <3>4, <3>5, <1>8 DEF ReadStands
  <2> QED BY <2>1, <2>2
<1>13. RegistersTyped'
  BY <1>6, <1>7, <1>8 DEF RegistersInv, RegistersTyped
<1>17. CodesInOrder' /\ CustomersOweNothing'
  BY <1>7, PeopleStand DEF RegistersInv
<1>18. OwnCode' /\ HandedOnce' /\ buried' = {} /\ ~ refusedCode'
  BY <1>7 DEF RegistersInv, OwnCode, HandedOnce, Kind
<1> QED BY <1>10, <1>11, <1>12, <1>13, <1>17, <1>18 DEF RegistersInv

-----------------------------------------------------------------------------
(* The writes *)

LEMMA OpsOf ==
  ASSUME NEW id \in People \cup Carts \cup Items, NEW op \in Ops(id)
  PROVE  /\ op \in {"create", "update", "delete"} => id \in People
         /\ op \in {"credit", "pay"} => id \in Mechanics
         /\ op \in {"park", "recall"} => id \in Carts
         /\ op = "review" => id \in Items
BY RegistersAssumption DEF Ops, People

LEMMA ReadyFacts ==
  ASSUME RegistersInv, NEW w \in Clerks, NEW op, Ready(w, op)
  PROVE  /\ task[w] \in Task /\ task[w].op = op /\ op \in Ops(task[w].id)
         /\ Holding(w) /\ ReadStands(w)
         /\ task' \in [Clerks -> Task \cup {None}] /\ tasks' \in Nat
         /\ OwnOps' /\ OneHolder'
         /\ \A v \in Clerks : Holding(v)' =>
              /\ v # w /\ task'[v] = task[v] /\ task[v] \in Task /\ ReadStands(v)
              /\ task[v].op \in Ops(task[v].id)
              /\ task[v].op = "create" => task[v].id \in People
              /\ task[v].op = "create" /\ op = "create" => Kind(task[v].id) # Kind(task[w].id)
              /\ task[v].op # "create" /\ op # "create" => task[v].id # task[w].id
<1>1. /\ task[w] \in Task /\ task[w].op = op /\ op \in Ops(task[w].id)
      /\ Holding(w) /\ ReadStands(w)
  BY DEF Ready, Holding, RegistersInv, RegistersTyped, OwnOps, ReadsStand
<1>2. task' = [task EXCEPT ![w] = None] /\ UNCHANGED tasks
  BY DEF Ready
<1>3. /\ task' \in [Clerks -> Task \cup {None}] /\ OwnOps' /\ OneHolder' /\ tasks' \in Nat
      /\ \A v \in Clerks : Holding(v)' => v # w /\ Holding(v) /\ task'[v] = task[v]
  BY <1>2, LeavingKeeps DEF RegistersInv, RegistersTyped
<1>4. ASSUME NEW v \in Clerks, Holding(v)'
      PROVE  /\ v # w /\ task'[v] = task[v] /\ task[v] \in Task /\ ReadStands(v)
             /\ task[v].op \in Ops(task[v].id)
             /\ task[v].op = "create" => task[v].id \in People
             /\ task[v].op = "create" /\ op = "create" => Kind(task[v].id) # Kind(task[w].id)
             /\ task[v].op # "create" /\ op # "create" => task[v].id # task[w].id
  <2>1. v # w /\ Holding(v) /\ task'[v] = task[v]
    BY <1>3, <1>4
  <2>2. task[v] \in Task /\ task[v].op \in Ops(task[v].id) /\ ReadStands(v)
    BY <2>1 DEF Holding, RegistersInv, RegistersTyped, OwnOps, ReadsStand
  <2>3. task[v].id \in People \cup Carts \cup Items
    BY <2>2 DEF Task
  <2> QED BY <1>1, <2>1, <2>2, <2>3, OpsOf, OtherHolder
<1> QED BY <1>1, <1>3, <1>4

\* A transaction that ends and writes nothing.
LEMMA IdleKeeps ==
  ASSUME RegistersInv, NEW w \in Clerks,
         task' = [task EXCEPT ![w] = None], UNCHANGED <<registerRows, tasks>>
  PROVE  RegistersInv'
<1>1. /\ task' \in [Clerks -> Task \cup {None}] /\ OwnOps' /\ OneHolder' /\ tasks' \in Nat
      /\ \A v \in Clerks : Holding(v)' => v # w /\ Holding(v) /\ task'[v] = task[v]
  BY LeavingKeeps DEF RegistersInv, RegistersTyped
<1> QED BY <1>1, RowsStand

\* createIn: the next code, given out under the lock of its sequence.
LEMMA CreateKeeps ==
  ASSUME RegistersInv, NEW w \in Clerks, CreatePerson(w)
  PROVE  RegistersInv'
<1>0. Ready(w, "create") /\ UNCHANGED <<cart, reviewedBy, parked, handed, buried>>
  BY DEF CreatePerson
<1>1. PICK p \in People, n \in Nat :
         /\ p = task[w].id /\ n = task[w].max + 1 /\ n = MaxCode(Kind(p)) + 1
         /\ MaxCode(Kind(p)) \in Nat /\ Taken(Kind(p)) = 1 .. MaxCode(Kind(p))
  <2>1. task[w] \in Task /\ task[w].op = "create" /\ "create" \in Ops(task[w].id) /\ ReadStands(w)
    BY <1>0, ReadyFacts
  <2>2. task[w].id \in People
    BY <2>1, OpsOf DEF Task
  <2>3. task[w].max = MaxCode(Kind(task[w].id)) /\ task[w].max \in Nat
    BY <2>1 DEF ReadStands, Task
  <2>4. Taken(Kind(task[w].id)) = 1 .. MaxCode(Kind(task[w].id))
    BY <2>2, KindIs DEF RegistersInv, CodesInOrder
  <2>5. task[w].max + 1 \in Nat
    BY <2>3
  <2> QED BY <2>2, <2>3, <2>4, <2>5
<1>2. CASE person[p] # None
  <2>1. UNCHANGED <<registerRows, tasks>>
    BY <1>0, <1>1, <1>2 DEF CreatePerson, registerRows, Ready
  <2>2. task' = [task EXCEPT ![w] = None]
    BY <1>0 DEF Ready
  <2> QED BY <2>1, <2>2, IdleKeeps
<1>3. CASE person[p] = None
  <2> DEFINE new == [code |-> n, owes |-> 0, deleted |-> FALSE]
  <2>1. n \notin Taken(Kind(p))
    BY <1>1
  <2>2. person' = [person EXCEPT ![p] = new] /\ UNCHANGED refusedCode
    BY <1>1, <1>3, <2>1 DEF CreatePerson
  <2>3. new \in PersonRow /\ new # None /\ new.code = n /\ new.owes = 0
    <3>1. new \in PersonRow /\ new.code = n /\ new.owes = 0
      BY DEF PersonRow
    <3> QED BY <3>1, RegistersAssumption
  <2> HIDE DEF new
  <2>4. /\ person' \in [People -> PersonRow \cup {None}]
        /\ person'[p] = new /\ \A x \in People \ {p} : person'[x] = person[x]
    BY <2>2, <2>3 DEF RegistersInv, RegistersTyped
  <2>5. /\ Taken(Kind(p))' = Taken(Kind(p)) \cup {n}
        /\ \A k \in Sequences : k # Kind(p) => Taken(k)' = Taken(k)
    <3>2. \A k \in Sequences : k # Kind(p) => Taken(k)' = Taken(k)
      <4> SUFFICES ASSUME NEW k \in Sequences, k # Kind(p) PROVE Taken(k)' = Taken(k)
        OBVIOUS
      <4>1. {x \in People : person'[x] # None /\ Kind(x) = k}
               = {x \in People : person[x] # None /\ Kind(x) = k}
        BY <2>4
      <4>2. p \notin {x \in People : person[x] # None /\ Kind(x) = k}
        OBVIOUS
      <4> QED BY <2>4, <4>1, <4>2 DEF Taken, Kind
    <3>3. {x \in People : person'[x] # None /\ Kind(x) = Kind(p)}
             = {x \in People : person[x] # None /\ Kind(x) = Kind(p)} \cup {p}
      BY <2>3, <2>4
    <3>4. p \notin {x \in People : person[x] # None /\ Kind(x) = Kind(p)}
      BY <1>3
    <3> QED BY <2>3, <2>4, <3>2, <3>3, <3>4 DEF Taken, Kind
  <2>6. Taken(Kind(p))' = 1 .. n /\ MaxCode(Kind(p))' = n
    <3>1. Taken(Kind(p))' = 1 .. n
      BY <1>1, <2>5
    <3> QED BY <3>1, HighestIs DEF MaxCode
  <2>7. \A k \in Sequences : k # Kind(p) => MaxCode(k)' = MaxCode(k)
    BY <2>5 DEF MaxCode
  <2>8. CodesInOrder'
    BY <2>5, <2>6, <2>7 DEF CodesInOrder, RegistersInv
  <2>9. OwnCode'
    <3>1. \A q \in People : person[q] # None /\ Kind(q) = Kind(p) => person[q].code # n
      BY <2>1 DEF Taken
    <3> QED BY <3>1, <2>3, <2>4 DEF OwnCode, RegistersInv, Kind
  <2>10. \A x \in People : OwedBy(x)' = OwedBy(x)
    BY <1>3, <2>3, <2>4 DEF OwedBy
  <2>11. CustomersOweNothing'
    BY <2>10 DEF CustomersOweNothing, RegistersInv, People
  <2>12. ReadsStand'
    <3> SUFFICES ASSUME NEW v \in Clerks, Holding(v)' PROVE ReadStands(v)'
      BY DEF ReadsStand
    <3>1. /\ task'[v] = task[v] /\ task[v] \in Task /\ ReadStands(v)
          /\ task[v].op = "create" => task[v].id \in People /\ Kind(task[v].id) # Kind(p)
      BY <1>0, <1>1, ReadyFacts
    <3>2. task[v].op # "create" /\ task[v].id \in People /\ task[v].owes > 0 =>
              person'[task[v].id] = person[task[v].id]
      BY <1>3, <2>4, <3>1 DEF ReadStands, OwedBy
    <3> QED BY <1>0, <2>7, <2>10, <3>1, <3>2, KindIs, StandsYet
  <2>13. RegistersTyped' /\ OwnOps' /\ OneHolder'
    BY <1>0, <2>4, ReadyFacts DEF RegistersInv, RegistersTyped
  <2>14. HandedOnce' /\ buried' = {} /\ ~ refusedCode'
    BY <1>0, <2>2 DEF RegistersInv, HandedOnce
  <2> QED BY <2>8, <2>9, <2>11, <2>12, <2>13, <2>14 DEF RegistersInv
<1> QED BY <1>2, <1>3

\* A row that is there is changed under its lock, and keeps its code.
LEMMA ChangeKeeps ==
  ASSUME RegistersInv, NEW w \in Clerks, NEW op \in {"delete", "credit", "pay"}, Ready(w, op),
         NEW p \in People, p = task[w].id, person[p] # None,
         NEW new \in PersonRow, new.code = person[p].code, person[p].deleted => new.deleted,
         p \in Customers => new.owes = 0, person' = [person EXCEPT ![p] = new],
         UNCHANGED <<cart, reviewedBy, parked, handed, buried, refusedCode>>
  PROVE  RegistersInv'
<1>0. new # None
  BY RegistersAssumption
<1>1. /\ person' \in [People -> PersonRow \cup {None}]
      /\ person'[p] = new /\ \A x \in People \ {p} : person'[x] = person[x]
  BY DEF RegistersInv, RegistersTyped
<1>2. \A x \in People : (person'[x] # None <=> person[x] # None)
                        /\ (person[x] # None => person'[x].code = person[x].code)
  BY <1>0, <1>1
<1>3. \A k \in Sequences : Taken(k)' = Taken(k)
  BY <1>2 DEF Taken, Kind
<1>4. \A k \in Sequences : MaxCode(k)' = MaxCode(k)
  BY <1>3 DEF MaxCode
<1>5. CodesInOrder'
  BY <1>3, <1>4 DEF CodesInOrder, RegistersInv
<1>6. OwnCode'
  BY <1>2 DEF OwnCode, RegistersInv, Kind
<1>7. CustomersOweNothing'
  BY <1>0, <1>1 DEF CustomersOweNothing, OwedBy, RegistersInv, People
<1>8. ReadsStand'
  <2> SUFFICES ASSUME NEW v \in Clerks, Holding(v)' PROVE ReadStands(v)'
    BY DEF ReadsStand
  <2>1. /\ task'[v] = task[v] /\ task[v] \in Task /\ ReadStands(v)
        /\ task[v].op = "create" => task[v].id \in People
        /\ task[v].op # "create" => task[v].id # p
    BY ReadyFacts
  <2>2. task[v].op # "create" /\ task[v].id \in People =>
          /\ person'[task[v].id] = person[task[v].id]
          /\ OwedBy(task[v].id)' = OwedBy(task[v].id)
    BY <1>1, <2>1 DEF OwedBy
  <2> QED BY <1>4, <2>1, <2>2, KindIs, StandsYet
<1>9. RegistersTyped' /\ OwnOps' /\ OneHolder'
  BY <1>1, ReadyFacts DEF RegistersInv, RegistersTyped
<1>10. HandedOnce' /\ buried' = {} /\ ~ refusedCode'
  BY DEF RegistersInv, HandedOnce
<1> QED BY <1>5, <1>6, <1>7, <1>8, <1>9, <1>10 DEF RegistersInv

\* deleteIn: what is owed was read under the row's lock.
LEMMA DeleteKeeps ==
  ASSUME RegistersInv, NEW w \in Clerks, DeletePerson(w)
  PROVE  RegistersInv'
<1> DEFINE p == task[w].id
<1>1. /\ Ready(w, "delete") /\ UNCHANGED <<cart, reviewedBy, parked, handed, refusedCode>>
      /\ task' = [task EXCEPT ![w] = None] /\ UNCHANGED tasks
  BY DEF DeletePerson, Ready
<1>2. /\ task[w] \in Task /\ p \in People /\ ReadStands(w) /\ task[w].op = "delete"
  BY <1>1, ReadyFacts, OpsOf DEF Task
<1>3. CASE UNCHANGED <<person, buried>>
  BY <1>1, <1>3, IdleKeeps DEF registerRows
<1>4. CASE ~ UNCHANGED <<person, buried>>
  <2>1. /\ ~ (p \in Mechanics /\ ~ task[w].gone /\ task[w].owes > 0)
        /\ person[p] # None /\ ~ person[p].deleted
        /\ person' = [person EXCEPT ![p] = [person[p] EXCEPT !.deleted = TRUE]]
        /\ buried' = IF person[p].owes > 0 THEN buried \cup {p} ELSE buried
    BY <1>4, Zenon DEF DeletePerson
  <2>2. person[p] \in PersonRow
    BY <1>2, <2>1 DEF RegistersInv, RegistersTyped
  <2>3. task[w].owes = person[p].owes /\ (task[w].gone /\ task[w].owes > 0 => person[p].deleted)
    BY <1>2, <2>1 DEF ReadStands, OwedBy
  <2>4. p \in Customers => person[p].owes = 0
    BY <2>1 DEF RegistersInv, CustomersOweNothing, OwedBy
  <2>5. ~ (person[p].owes > 0)
    BY <1>2, <2>1, <2>2, <2>3, <2>4 DEF People, PersonRow
  <2>6. UNCHANGED buried
    BY <2>1, <2>5
  <2> DEFINE new == [person[p] EXCEPT !.deleted = TRUE]
  <2>7. new \in PersonRow /\ new.code = person[p].code /\ new.deleted /\ new.owes = person[p].owes
    BY <2>2 DEF PersonRow
  <2>8. person' = [person EXCEPT ![p] = new]
    BY <2>1
  <2>9. new.code = person[p].code /\ (person[p].deleted => new.deleted) /\ (p \in Customers => new.owes = 0)
    BY <2>4, <2>7
  <2>10. p \in People /\ p = task[w].id /\ person[p] # None /\ Ready(w, "delete")
    BY <1>1, <1>2, <2>1
  <2>11. UNCHANGED <<cart, reviewedBy, parked, handed, buried, refusedCode>>
    BY <1>1, <2>6
  <2>12. new \in PersonRow
    BY <2>7
  <2> HIDE DEF new, p
  <2> QED BY <2>8, <2>9, <2>10, <2>11, <2>12, ChangeKeeps
<1> QED BY <1>3, <1>4

\* A credit bill, or a payment: the balance moves under the row's lock.
LEMMA CreditKeeps ==
  ASSUME RegistersInv, NEW w \in Clerks, SellOnCredit(w) \/ PayCredit(w)
  PROVE  RegistersInv'
<1> DEFINE p == task[w].id
<1>1. PICK op \in {"credit", "pay"} :
         /\ Ready(w, op) /\ UNCHANGED <<cart, reviewedBy, parked, handed, buried, refusedCode>>
         /\ op = "credit" => SellOnCredit(w)
         /\ op = "pay" => PayCredit(w)
  BY DEF SellOnCredit, PayCredit
<1>2. task' = [task EXCEPT ![w] = None] /\ UNCHANGED tasks
  BY <1>1 DEF Ready
<1>3. task[w] \in Task /\ p \in Mechanics /\ ReadStands(w) /\ task[w].op = op
  BY <1>1, ReadyFacts, OpsOf DEF Task
<1>4. p \in People /\ p \notin Customers
  BY <1>3, RegistersAssumption DEF People
<1>5. CASE UNCHANGED person
  BY <1>1, <1>2, <1>5, IdleKeeps DEF registerRows
<1>6. CASE ~ UNCHANGED person
  <2>1. person[p] # None /\ \E n \in Nat :
            person' = [person EXCEPT ![p] = [person[p] EXCEPT !.owes = n]]
    <3>1. CASE op = "credit"
      <4>1. person[p] # None /\ person' = [person EXCEPT ![p] = [person[p] EXCEPT !.owes = person[p].owes + 1]]
        BY <1>1, <1>6, <3>1, Zenon DEF SellOnCredit
      <4>2. person[p].owes + 1 \in Nat
        BY <1>4, <4>1 DEF RegistersInv, RegistersTyped, PersonRow
      <4> QED BY <4>1, <4>2
    <3>2. CASE op = "pay"
      <4>1. task[w].owes # 0 /\ person' = [person EXCEPT ![p] = [person[p] EXCEPT !.owes = person[p].owes - 1]]
        BY <1>1, <1>6, <3>2, Zenon DEF PayCredit
      <4>2. task[w].owes = OwedBy(p)
        BY <1>3, <1>4, <3>2 DEF ReadStands
      <4>3. person[p] # None /\ person[p].owes # 0
        BY <4>1, <4>2 DEF OwedBy
      <4>4. person[p].owes - 1 \in Nat
        BY <1>4, <4>3 DEF RegistersInv, RegistersTyped, PersonRow
      <4> QED BY <4>1, <4>3, <4>4
    <3> QED BY <1>1, <3>1, <3>2
  <2>2. PICK n \in Nat : person' = [person EXCEPT ![p] = [person[p] EXCEPT !.owes = n]]
    BY <2>1
  <2> DEFINE new == [person[p] EXCEPT !.owes = n]
  <2>3. person[p] \in PersonRow
    BY <1>4, <2>1 DEF RegistersInv, RegistersTyped
  <2>4. new \in PersonRow /\ new.code = person[p].code /\ new.deleted = person[p].deleted
    BY <2>3 DEF PersonRow
  <2>5. person' = [person EXCEPT ![p] = new]
    BY <2>2
  <2> HIDE DEF new
  <2> QED BY <1>1, <1>4, <2>1, <2>4, <2>5, ChangeKeeps
<1> QED BY <1>5, <1>6

\* Parked bills and review items: a cart is parked once, and who finds its row, or the
\* item unreviewed, takes it.
LEMMA HandingKeeps ==
  ASSUME RegistersInv, NEW w \in Clerks, Park(w) \/ Recall(w) \/ MarkReviewed(w)
  PROVE  RegistersInv'
<1> DEFINE x == task[w].id
           hand == <<x, w, task[w].nth>>
<1>1. PICK op \in {"park", "recall", "review"} :
         /\ Ready(w, op) /\ UNCHANGED <<person, buried, refusedCode>>
         /\ op = "park" => Park(w)
         /\ op = "recall" => Recall(w)
         /\ op = "review" => MarkReviewed(w)
  BY DEF Park, Recall, MarkReviewed
<1>2. task' = [task EXCEPT ![w] = None] /\ UNCHANGED tasks
  BY <1>1 DEF Ready
<1>3. /\ task[w] \in Task /\ ReadStands(w) /\ task[w].op = op
      /\ op \in {"park", "recall"} => x \in Carts /\ x \notin Items
      /\ op = "review" => x \in Items /\ x \notin Carts
  BY <1>1, ReadyFacts, OpsOf, RegistersAssumption DEF Task
<1>4. hand \in (Carts \cup Items) \X Clerks \X Nat /\ hand[1] = x
  BY <1>1, <1>3 DEF Task
<1>5. /\ \A c \in Carts \ {x} : cart'[c] = cart[c]
      /\ \A i \in Items \ {x} : reviewedBy'[i] = reviewedBy[i]
      /\ cart' \in [Carts -> BOOLEAN] /\ reviewedBy' \in [Items -> Clerks \cup {None}]
  BY <1>1, <1>3 DEF Park, Recall, MarkReviewed, RegistersInv, RegistersTyped
<1>6. parked' \subseteq Carts /\ handed' \subseteq (Carts \cup Items) \X Clerks \X Nat
  BY <1>1, <1>3, <1>4 DEF Park, Recall, MarkReviewed, RegistersInv, RegistersTyped
<1>7. RegistersTyped' /\ OwnOps' /\ OneHolder' /\ buried' = {} /\ ~ refusedCode'
  BY <1>1, <1>5, <1>6, ReadyFacts DEF RegistersInv, RegistersTyped
<1>8. CodesInOrder' /\ CustomersOweNothing'
  BY <1>1, PeopleStand DEF RegistersInv
<1>9. OwnCode'
  BY <1>1 DEF RegistersInv, OwnCode, Kind
<1>10. ReadsStand'
  <2> SUFFICES ASSUME NEW v \in Clerks, Holding(v)' PROVE ReadStands(v)'
    BY DEF ReadsStand
  <2>1. /\ task'[v] = task[v] /\ task[v] \in Task /\ ReadStands(v)
        /\ task[v].op = "create" => task[v].id \in People
        /\ task[v].op # "create" => task[v].id # x
    BY <1>1, ReadyFacts
  <2>2. task[v].op = "create" => task[v].id \notin Carts \cup Items
    BY <2>1, RegistersAssumption
  <2> QED BY <1>1, <1>5, <2>1, <2>2, KindIs, PeopleStand, StandsYet DEF Task
<1>11. HandedOnce'
  <2>1. CASE UNCHANGED <<cart, reviewedBy, parked, handed>>
    BY <2>1 DEF RegistersInv, HandedOnce
  <2>2. CASE op = "park" /\ ~ UNCHANGED <<cart, parked>>
    <3>1. x \in Carts /\ x \notin parked /\ parked' = parked \cup {x} /\ UNCHANGED <<handed, reviewedBy>>
          /\ \A c \in Carts \ {x} : cart'[c] = cart[c]
      BY <1>1, <1>3, <1>5, <2>2 DEF Park
    <3>2. \A y \in handed : y[1] # x
      BY <3>1 DEF RegistersInv, HandedOnce
    <3> QED BY <3>1, <3>2 DEF RegistersInv, HandedOnce
  <2>3. CASE op = "recall" /\ ~ UNCHANGED <<cart, handed>>
    <3>1. /\ x \in Carts /\ ~ task[w].gone /\ handed' = handed \cup {hand}
          /\ cart' = [cart EXCEPT ![x] = FALSE] /\ UNCHANGED <<parked, reviewedBy>>
      BY <1>1, <1>3, <2>3 DEF Recall
    <3>2. cart[x] /\ cart'[x] = FALSE /\ x \in parked
      BY <1>3, <3>1 DEF ReadStands, RegistersInv, RegistersTyped, HandedOnce
    <3>3. \A y \in handed : y[1] # x
      BY <3>1, <3>2 DEF RegistersInv, HandedOnce
    <3> HIDE DEF hand
    <3> QED BY <1>3, <1>4, <1>5, <3>1, <3>2, <3>3 DEF RegistersInv, HandedOnce
  <2>4. CASE op = "review" /\ ~ UNCHANGED <<reviewedBy, handed>>
    <3>1. /\ x \in Items /\ ~ task[w].gone /\ handed' = handed \cup {hand}
          /\ reviewedBy' = [reviewedBy EXCEPT ![x] = w] /\ UNCHANGED <<parked, cart>>
      BY <1>1, <1>3, <2>4 DEF MarkReviewed
    <3>2. reviewedBy[x] = None /\ reviewedBy'[x] = w /\ w # None
      BY <1>3, <3>1, RegistersAssumption DEF ReadStands, RegistersInv, RegistersTyped
    <3>3. \A y \in handed : y[1] # x
      BY <3>1, <3>2 DEF RegistersInv, HandedOnce
    <3> HIDE DEF hand
    <3> QED BY <1>3, <1>4, <1>5, <3>1, <3>2, <3>3 DEF RegistersInv, HandedOnce
  <2> QED BY <1>1, <2>1, <2>2, <2>3, <2>4 DEF Park, Recall, MarkReviewed
<1> QED BY <1>7, <1>8, <1>9, <1>10, <1>11 DEF RegistersInv

LEMMA InitRegisters == RegistersInit => RegistersInv
<1> SUFFICES ASSUME RegistersInit PROVE RegistersInv
  OBVIOUS
<1>1. RegistersTyped
  BY DEF RegistersInit, RegistersTyped
<1>2. \A k \in Sequences : Taken(k) = {}
  BY DEF RegistersInit, Taken
<1>3. CodesInOrder
  BY <1>2 DEF CodesInOrder, MaxCode
<1>4. OwnOps /\ OneHolder /\ ReadsStand
  BY DEF RegistersInit, OwnOps, OneHolder, ReadsStand, Holding
<1>5. OwnCode /\ CustomersOweNothing /\ HandedOnce
  BY DEF RegistersInit, OwnCode, CustomersOweNothing, OwedBy, HandedOnce, People
<1> QED BY <1>1, <1>3, <1>4, <1>5 DEF RegistersInit, RegistersInv

LEMMA RegistersStep == RegistersInv /\ [RegistersNext]_registerVars => RegistersInv'
<1> SUFFICES ASSUME RegistersInv, [RegistersNext]_registerVars PROVE RegistersInv'
  OBVIOUS
<1>1. CASE UNCHANGED registerVars
  <2>1. UNCHANGED <<registerRows, task, tasks>>
    BY <1>1 DEF registerVars, registerRows
  <2>2. task' \in [Clerks -> Task \cup {None}] /\ tasks' \in Nat /\ OwnOps' /\ OneHolder'
    BY <2>1 DEF RegistersInv, RegistersTyped, OwnOps, OneHolder, Holding
  <2> QED BY <2>1, <2>2, RowsStand DEF Holding
<1>2. ASSUME NEW w \in Clerks,
             \/ \E id \in People \cup Carts \cup Items : \E op \in Ops(id) : Take(w, id, op)
             \/ LockAndRead(w) \/ Abandon(w)
             \/ CreatePerson(w) \/ UpdatePerson(w) \/ DeletePerson(w) \/ SellOnCredit(w) \/ PayCredit(w)
             \/ Park(w) \/ Recall(w) \/ MarkReviewed(w)
      PROVE  RegistersInv'
  <2>1. CASE \E id \in People \cup Carts \cup Items : \E op \in Ops(id) : Take(w, id, op)
    BY <2>1, TakeKeeps
  <2>2. CASE LockAndRead(w)
    BY <2>2, LockKeeps
  <2>3. CASE Abandon(w) \/ UpdatePerson(w)
    BY <2>3, IdleKeeps DEF Abandon, UpdatePerson, Ready
  <2>4. CASE CreatePerson(w)
    BY <2>4, CreateKeeps
  <2>5. CASE DeletePerson(w)
    BY <2>5, DeleteKeeps
  <2>6. CASE SellOnCredit(w) \/ PayCredit(w)
    BY <2>6, CreditKeeps
  <2>7. CASE Park(w) \/ Recall(w) \/ MarkReviewed(w)
    BY <2>7, HandingKeeps
  <2> QED BY <1>2, <2>1, <2>2, <2>3, <2>4, <2>5, <2>6, <2>7
<1> QED BY <1>1, <1>2 DEF RegistersNext

LEMMA RegistersKept == OfficeSpec => []RegistersInv
<1>1. OfficeInit => RegistersInv
  BY InitRegisters DEF OfficeInit
<1>2. RegistersInv /\ [OfficeNext]_officeVars => RegistersInv'
  BY OneStep, RegistersStep
<1> QED BY <1>1, <1>2, PTL DEF OfficeSpec

\* No mechanic is deleted while he owes, whatever credit bill is being rung up for him
\* meanwhile: deleteIn reads the balance under the lock that lockMechanicAndCheckLimit and
\* lockBalance take too.
THEOREM DebtsAreKept == OfficeSpec => []NoDebtBuried
<1>1. RegistersInv => NoDebtBuried
  BY DEF RegistersInv, NoDebtBuried
<1> QED BY <1>1, RegistersKept, PTL

\* A code goes to one person and the unique index never refuses one (createIn under
\* lockCodeSequence); a parked bill goes to one till (removeIn) and a review item is
\* reviewed once (markReviewedIn).
THEOREM EachHasOneTaker == OfficeSpec => []OneTakerEach
<1>1. RegistersInv => OneTakerEach
  BY DEF RegistersInv, OneTakerEach, OwnCode, HandedOnce
<1> QED BY <1>1, RegistersKept, PTL

-----------------------------------------------------------------------------
(* Quotes: what a request found under the row's lock is still so when it   *)
(* commits, and a bill that was sold from its quote is the one the quote   *)
(* names, as long as the quote is there.                                   *)

QuoteRow == [status : {"open", "converted"}, loose : BOOLEAN, header : {"saved", "edited"},
             until : Nat, at : Nat \cup {None}, sold : QuoteBills \cup {None}]
Request == [bill : QuoteBills, route : {"convert", "sell", "push"}, day : Nat \cup {None},
            step : Steps, found : Findings \cup {None}]

QuotesTyped ==
    /\ quote \in [Quotes -> QuoteRow \cup {None}] /\ issued \subseteq Quotes
    /\ bill \in [QuoteBills -> BillRow \cup {None}]
    /\ quoteReq \in [QuoteRequests -> Request \cup {None}]
    /\ today \in Nat /\ sold \in [Quotes -> SUBSET QuoteBills]

\* A quote is sold once, by the bill it names, which stands in the same commit.
SoldOnce ==
    \A q \in Quotes :
        /\ \A b, c \in sold[q] : b = c
        /\ \A b \in sold[q] : QuoteOf[b] = q /\ bill[b] # None /\ q \in issued
        /\ quote[q] # None =>
              /\ q \in issued
              /\ Converted(q) <=> sold[q] # {}
              /\ Converted(q) => quote[q].sold \in sold[q]
FreshIsSold == \A b \in QuoteBills : bill[b] # None /\ bill[b].found = "fresh" => b \in sold[QuoteOf[b]]
OfflineSeen ==
    \A b \in QuoteBills : bill[b] # None /\ bill[b].offline =>
        b \in sold[QuoteOf[b]] \/ \E x \in quoteReview : x[1] = b

HasRow(r) == quoteReq[r] # None /\ quoteReq[r].step = "locked"
AskedRight ==
    \A r \in QuoteRequests : quoteReq[r] # None =>
        QuoteOf[quoteReq[r].bill] \in issued /\ quoteReq[r].route \in Routes(quoteReq[r].bill)
FoundStands(r) ==
    LET b == quoteReq[r].bill
        q == QuoteOf[b]
        found == quoteReq[r].found
    IN  /\ found \in Findings
        /\ found = "missing" => quote[q] = None
        /\ found # "missing" => quote[q] # None
        /\ found = "fresh" => ~ Converted(q) /\ bill[b] = None
        /\ found = "replay" => Converted(q) /\ quote[q].sold = b
        /\ found = "sale_id_taken" => bill[b] # None
        /\ found \notin {"fresh", "replay"} => quoteReq[r].route = "push"
AllFoundStands == \A r \in QuoteRequests : HasRow(r) => FoundStands(r)
OneLocker ==
    \A r, s \in QuoteRequests :
        r # s /\ HasRow(r) /\ HasRow(s) /\ quoteReq[r].found # "missing" /\ quoteReq[s].found # "missing" =>
            QuoteOf[quoteReq[r].bill] # QuoteOf[quoteReq[s].bill]

QuotesInv ==
    /\ QuotesTyped /\ SoldOnce /\ FreshIsSold /\ OfflineSeen
    /\ AskedRight /\ AllFoundStands /\ OneLocker /\ NeverRungTwice

\* Nobody takes a quote's lock.
LEMMA RequestsKeep ==
  ASSUME QuotesInv, quoteReq' \in [QuoteRequests -> Request \cup {None}], issued \subseteq issued',
         \A r \in QuoteRequests :
            \/ quoteReq'[r] = quoteReq[r]
            \/ quoteReq'[r] # None =>
                  /\ quoteReq'[r].step = "asked" /\ QuoteOf[quoteReq'[r].bill] \in issued'
                  /\ quoteReq'[r].route \in Routes(quoteReq'[r].bill)
  PROVE  /\ AskedRight' /\ OneLocker'
         /\ \A r \in QuoteRequests : HasRow(r)' =>
              /\ HasRow(r) /\ quoteReq'[r] = quoteReq[r] /\ quoteReq[r] \in Request
              /\ FoundStands(r) /\ QuoteOf[quoteReq[r].bill] \in issued
<1>1. \A r \in QuoteRequests : HasRow(r)' => HasRow(r) /\ quoteReq'[r] = quoteReq[r]
  BY DEF HasRow
<1>2. \A r \in QuoteRequests : HasRow(r) =>
         quoteReq[r] \in Request /\ FoundStands(r) /\ QuoteOf[quoteReq[r].bill] \in issued
  BY DEF QuotesInv, QuotesTyped, AllFoundStands, AskedRight, HasRow
<1>3. AskedRight'
  <2> SUFFICES ASSUME NEW r \in QuoteRequests, quoteReq'[r] # None
               PROVE  /\ QuoteOf[quoteReq'[r].bill] \in issued'
                      /\ quoteReq'[r].route \in Routes(quoteReq'[r].bill)
    BY DEF AskedRight, Routes
  <2> QED BY DEF QuotesInv, AskedRight
<1>4. OneLocker'
  <2> SUFFICES ASSUME NEW r \in QuoteRequests, NEW x \in QuoteRequests, r # x, HasRow(r)', HasRow(x)',
                      quoteReq'[r].found # "missing", quoteReq'[x].found # "missing"
               PROVE  QuoteOf[quoteReq'[r].bill] # QuoteOf[quoteReq'[x].bill]
    BY DEF OneLocker
  <2> QED BY <1>1 DEF QuotesInv, OneLocker
<1> QED BY <1>1, <1>2, <1>3, <1>4

LEMMA FoundYet ==
  ASSUME NEW r \in QuoteRequests, FoundStands(r), quoteReq'[r] = quoteReq[r],
         NEW b, NEW q, b = quoteReq[r].bill, q = QuoteOf[b],
         quote'[q] = None <=> quote[q] = None,
         quote[q] # None => quote'[q].status = quote[q].status /\ quote'[q].sold = quote[q].sold,
         quoteReq[r].found \in {"fresh", "sale_id_taken"} => (bill'[b] = None <=> bill[b] = None)
  PROVE  FoundStands(r)'
BY DEF FoundStands, Converted, Findings

\* The office writes quotes: new ones, header text, and the ones nobody is selling.
LEMMA OfficeKeeps ==
  ASSUME QuotesInv, quote' \in [Quotes -> QuoteRow \cup {None}],
         issued \subseteq issued', issued' \subseteq Quotes, today' \in Nat,
         UNCHANGED <<bill, quoteReq, quoteReview, sold, refused>>,
         \A q \in Quotes :
            \/ /\ q \in issued
               /\ quote'[q] = None => quote[q] = None \/ Unlocked(q)
               /\ quote'[q] # None => /\ quote[q] # None /\ quote'[q].status = quote[q].status
                                      /\ quote'[q].sold = quote[q].sold
            \/ /\ q \notin issued
               /\ quote'[q] # None => q \in issued' /\ quote'[q].status = "open"
  PROVE  QuotesInv'
<1>1. QuotesTyped'
  BY DEF QuotesInv, QuotesTyped
<1>2. SoldOnce'
  <2> SUFFICES ASSUME NEW q \in Quotes
               PROVE  /\ \A b, c \in sold'[q] : b = c
                      /\ \A b \in sold'[q] : QuoteOf[b] = q /\ bill'[b] # None /\ q \in issued'
                      /\ quote'[q] # None =>
                            /\ q \in issued'
                            /\ quote'[q].status = "converted" <=> sold'[q] # {}
                            /\ quote'[q].status = "converted" => quote'[q].sold \in sold'[q]
    BY DEF SoldOnce, Converted
  <2> QED BY DEF QuotesInv, SoldOnce, Converted
<1>3. FreshIsSold' /\ OfflineSeen' /\ NeverRungTwice'
  BY DEF QuotesInv, FreshIsSold, OfflineSeen, NeverRungTwice
<1>4. /\ AskedRight' /\ OneLocker'
      /\ \A r \in QuoteRequests : HasRow(r)' =>
            /\ HasRow(r) /\ quoteReq'[r] = quoteReq[r] /\ quoteReq[r] \in Request
            /\ FoundStands(r) /\ QuoteOf[quoteReq[r].bill] \in issued
  BY <1>1, RequestsKeep DEF QuotesTyped
<1>5. AllFoundStands'
  <2> SUFFICES ASSUME NEW r \in QuoteRequests, HasRow(r)' PROVE FoundStands(r)'
    BY DEF AllFoundStands
  <2>1. /\ HasRow(r) /\ quoteReq'[r] = quoteReq[r] /\ FoundStands(r)
        /\ QuoteOf[quoteReq[r].bill] \in issued /\ quoteReq[r].bill \in QuoteBills
    BY <1>4 DEF Request
  <2>2. PICK b \in QuoteBills, q \in Quotes : b = quoteReq[r].bill /\ q = QuoteOf[b]
    BY <2>1, QuotesAssumption
  <2>3. quoteReq[r].found = "missing" \/ ~ Unlocked(q)
    BY <2>1, <2>2 DEF Unlocked, HasRow
  <2>4. quoteReq[r].found = "missing" => quote[q] = None
    BY <2>1, <2>2 DEF FoundStands
  <2>5. quote'[q] = None <=> quote[q] = None
    BY <2>1, <2>2, <2>3, <2>4
  <2>6. quote[q] # None => quote'[q].status = quote[q].status /\ quote'[q].sold = quote[q].sold
    BY <2>1, <2>2, <2>5
  <2> QED BY <2>1, <2>2, <2>5, <2>6, FoundYet
<1> QED BY <1>1, <1>2, <1>3, <1>4, <1>5 DEF QuotesInv

LEMMA NewQuoteKeeps ==
  ASSUME QuotesInv, NEW q \in Quotes, q \notin issued, issued' = issued \cup {q},
         NEW new \in QuoteRow, new.status = "open", quote' = [quote EXCEPT ![q] = new],
         UNCHANGED <<bill, quoteReq, quoteReview, today, sold, refused>>
  PROVE  QuotesInv'
<1>1. /\ quote' \in [Quotes -> QuoteRow \cup {None}] /\ quote'[q] = new
      /\ \A x \in Quotes \ {q} : quote'[x] = quote[x]
  BY DEF QuotesInv, QuotesTyped
<1>2. \A x \in Quotes \ issued : quote[x] = None
  BY DEF QuotesInv, SoldOnce
<1>3. issued \subseteq Quotes /\ today \in Nat
  BY DEF QuotesInv, QuotesTyped
<1> QED BY <1>1, <1>2, <1>3, OfficeKeeps

LEMMA OpenRowIs ==
  ASSUME QuotesInv, NEW loose \in BOOLEAN
  PROVE  OpenRow(loose) \in QuoteRow /\ OpenRow(loose).status = "open"
BY QuotesAssumption DEF QuotesInv, QuotesTyped, OpenRow, QuoteRow

LEMMA GoneKeeps ==
  ASSUME QuotesInv, NEW gone \in SUBSET Quotes, \A q \in gone : Unlocked(q),
         quote' = [q \in Quotes |-> IF q \in gone THEN None ELSE quote[q]],
         UNCHANGED <<issued, bill, quoteReq, quoteReview, today, sold, refused>>
  PROVE  QuotesInv'
<1>1. quote' \in [Quotes -> QuoteRow \cup {None}]
  BY DEF QuotesInv, QuotesTyped
<1>2. \A x \in Quotes \ issued : quote[x] = None
  BY DEF QuotesInv, SoldOnce
<1>3. issued \subseteq Quotes /\ today \in Nat
  BY DEF QuotesInv, QuotesTyped
<1> QED BY <1>1, <1>2, <1>3, OfficeKeeps

LEMMA QuoteWritesKeep ==
  ASSUME QuotesInv,
         \/ \E q \in Quotes, loose \in BOOLEAN : CreateQuote(q, loose)
         \/ \E q, c \in Quotes : DuplicateQuote(q, c)
         \/ \E q \in Quotes : UpdateQuote(q) \/ DeleteQuote(q)
         \/ PurgeQuotes \/ NextDay
  PROVE  QuotesInv'
<1>1. ASSUME NEW q \in Quotes, NEW loose \in BOOLEAN, CreateQuote(q, loose) PROVE QuotesInv'
  BY <1>1, OpenRowIs, NewQuoteKeeps DEF CreateQuote
<1>2. ASSUME NEW q \in Quotes, NEW c \in Quotes, DuplicateQuote(q, c) PROVE QuotesInv'
  <2> DEFINE new == [OpenRow(quote[q].loose) EXCEPT !.header = quote[q].header]
  <2>1. quote[q] \in QuoteRow
    BY <1>2 DEF DuplicateQuote, QuotesInv, QuotesTyped
  <2>2. OpenRow(quote[q].loose) \in QuoteRow /\ OpenRow(quote[q].loose).status = "open"
    BY <2>1, OpenRowIs DEF QuoteRow
  <2>3. new \in QuoteRow /\ new.status = "open"
    BY <2>1, <2>2 DEF QuoteRow
  <2>4. /\ c \notin issued /\ issued' = issued \cup {c} /\ quote' = [quote EXCEPT ![c] = new]
        /\ UNCHANGED <<bill, quoteReq, quoteReview, today, sold, refused>>
    BY <1>2 DEF DuplicateQuote
  <2> HIDE DEF new
  <2> QED BY <2>3, <2>4, NewQuoteKeeps
<1>3. ASSUME NEW q \in Quotes, UpdateQuote(q) PROVE QuotesInv'
  <2> DEFINE new == [quote[q] EXCEPT !.header = "edited"]
  <2>1. quote[q] \in QuoteRow /\ quote[q] # None /\ Unlocked(q)
    BY <1>3 DEF UpdateQuote, QuotesInv, QuotesTyped
  <2>2. new \in QuoteRow /\ new.status = quote[q].status /\ new.sold = quote[q].sold
    BY <2>1 DEF QuoteRow
  <2>3. /\ quote' = [quote EXCEPT ![q] = new]
        /\ UNCHANGED <<issued, bill, quoteReq, quoteReview, today, sold, refused>>
    BY <1>3 DEF UpdateQuote
  <2> HIDE DEF new
  <2>4. /\ quote' \in [Quotes -> QuoteRow \cup {None}] /\ quote'[q] = new
        /\ \A x \in Quotes \ {q} : quote'[x] = quote[x]
    BY <2>2, <2>3 DEF QuotesInv, QuotesTyped
  <2>5. \A x \in Quotes \ issued : quote[x] = None
    BY DEF QuotesInv, SoldOnce
  <2>6. issued \subseteq Quotes /\ today \in Nat
    BY DEF QuotesInv, QuotesTyped
  <2> QED BY <2>1, <2>2, <2>3, <2>4, <2>5, <2>6, OfficeKeeps
<1>4. ASSUME NEW q \in Quotes, DeleteQuote(q) PROVE QuotesInv'
  <2>1. quote' = [x \in Quotes |-> IF x \in {q} THEN None ELSE quote[x]]
    BY <1>4 DEF DeleteQuote, QuotesInv, QuotesTyped
  <2> QED BY <1>4, <2>1, GoneKeeps DEF DeleteQuote
<1>5. CASE PurgeQuotes
  BY <1>5, GoneKeeps DEF PurgeQuotes
<1>6. CASE NextDay
  <2>1. \A x \in Quotes \ issued : quote[x] = None
    BY DEF QuotesInv, SoldOnce
  <2>2. /\ issued \subseteq Quotes /\ today' \in Nat /\ quote' \in [Quotes -> QuoteRow \cup {None}]
        /\ UNCHANGED <<quote, issued, bill, quoteReq, quoteReview, sold, refused>>
    BY <1>6 DEF NextDay, QuotesInv, QuotesTyped
  <2> QED BY <2>1, <2>2, OfficeKeeps
<1> QED BY <1>1, <1>2, <1>3, <1>4, <1>5, <1>6

LEMMA VoidKeeps ==
  ASSUME QuotesInv, NEW b \in QuoteBills, VoidBill(b)
  PROVE  QuotesInv'
<1> DEFINE new == [bill[b] EXCEPT !.voided = TRUE]
<1>1. bill[b] \in BillRow /\ bill[b] # None
  BY DEF VoidBill, QuotesInv, QuotesTyped
<1>2. /\ new \in BillRow /\ new.offline = bill[b].offline /\ new.found = bill[b].found
  BY <1>1 DEF BillRow
<1>3. /\ bill' = [bill EXCEPT ![b] = new]
      /\ UNCHANGED <<quote, issued, quoteReq, quoteReview, today, sold, refused>>
  BY DEF VoidBill
<1>4. new # None
  BY <1>2, QuotesAssumption
<1> HIDE DEF new
<1>5. /\ bill' \in [QuoteBills -> BillRow \cup {None}] /\ bill'[b] = new
      /\ \A c \in QuoteBills \ {b} : bill'[c] = bill[c]
  BY <1>2, <1>3 DEF QuotesInv, QuotesTyped
<1>6. \A c \in QuoteBills :
         /\ bill'[c] = None <=> bill[c] = None
         /\ bill[c] # None => bill'[c].offline = bill[c].offline /\ bill'[c].found = bill[c].found
  BY <1>1, <1>2, <1>4, <1>5
<1>7. QuotesTyped'
  BY <1>3, <1>5 DEF QuotesInv, QuotesTyped
<1>8. SoldOnce'
  BY <1>3, <1>6 DEF QuotesInv, QuotesTyped, SoldOnce, Converted
<1>9. FreshIsSold' /\ OfflineSeen' /\ NeverRungTwice'
  BY <1>3, <1>6 DEF QuotesInv, FreshIsSold, OfflineSeen, NeverRungTwice
<1>10. /\ AskedRight' /\ OneLocker'
       /\ \A r \in QuoteRequests : HasRow(r)' =>
            /\ HasRow(r) /\ quoteReq'[r] = quoteReq[r] /\ quoteReq[r] \in Request
            /\ FoundStands(r) /\ QuoteOf[quoteReq[r].bill] \in issued
  BY <1>3, <1>7, RequestsKeep DEF QuotesTyped
<1>11. AllFoundStands'
  BY <1>3, <1>6, <1>10, FoundYet DEF AllFoundStands, Request
<1> QED BY <1>7, <1>8, <1>9, <1>10, <1>11 DEF QuotesInv

\* Requests come and go, and no quote or bill is written.
LEMMA RowsKeep ==
  ASSUME QuotesInv, UNCHANGED <<quote, issued, bill, today, sold>>, quoteReview \subseteq quoteReview',
         NeverRungTwice',
         quoteReq' \in [QuoteRequests -> Request \cup {None}],
         \A r \in QuoteRequests :
            \/ quoteReq'[r] = quoteReq[r]
            \/ quoteReq'[r] # None =>
                  /\ quoteReq'[r].step = "asked" /\ QuoteOf[quoteReq'[r].bill] \in issued
                  /\ quoteReq'[r].route \in Routes(quoteReq'[r].bill)
  PROVE  QuotesInv'
<1>1. QuotesTyped' /\ SoldOnce' /\ FreshIsSold' /\ OfflineSeen'
  BY DEF QuotesInv, QuotesTyped, SoldOnce, FreshIsSold, OfflineSeen, Converted
<1>2. /\ AskedRight' /\ OneLocker'
      /\ \A r \in QuoteRequests : HasRow(r)' =>
            /\ HasRow(r) /\ quoteReq'[r] = quoteReq[r] /\ quoteReq[r] \in Request
            /\ FoundStands(r) /\ QuoteOf[quoteReq[r].bill] \in issued
  BY RequestsKeep
<1>3. AllFoundStands'
  BY <1>2, FoundYet DEF AllFoundStands
<1> QED BY <1>1, <1>2, <1>3 DEF QuotesInv

LEMMA AskKeeps ==
  ASSUME QuotesInv, NEW r \in QuoteRequests, NEW b \in QuoteBills, NEW day \in (0 .. LastDay) \cup {None},
         NEW route \in Routes(b), Ask(r, b, route, day)
  PROVE  QuotesInv'
<1> DEFINE new == [bill |-> b, route |-> route, day |-> day, step |-> "asked", found |-> None]
<1>1. day \in Nat \cup {None} /\ route \in {"convert", "sell", "push"}
  BY QuotesAssumption DEF Routes
<1>2. new \in Request /\ new.step = "asked" /\ new.bill = b /\ new.route = route
  BY <1>1 DEF Request, Steps
<1>3. quoteReq' = [quoteReq EXCEPT ![r] = new] /\ QuoteOf[b] \in issued
      /\ UNCHANGED <<quote, issued, bill, quoteReview, today, sold, refused>>
  BY DEF Ask
<1> HIDE DEF new
<1>4. /\ quoteReq' \in [QuoteRequests -> Request \cup {None}] /\ quoteReq'[r] = new
      /\ \A x \in QuoteRequests \ {r} : quoteReq'[x] = quoteReq[x]
  BY <1>2, <1>3 DEF QuotesInv, QuotesTyped
<1>5. NeverRungTwice'
  BY <1>3 DEF QuotesInv, NeverRungTwice
<1> QED BY <1>2, <1>3, <1>4, <1>5, RowsKeep

\* A request is answered, refused or cut off; a refusal is no bill's that stands sold.
LEMMA EndKeeps ==
  ASSUME QuotesInv, NEW r \in QuoteRequests, quoteReq' = [quoteReq EXCEPT ![r] = None],
         UNCHANGED <<quote, issued, bill, today, sold>>, quoteReview \subseteq quoteReview',
         \/ refused' = refused
         \/ \E code : refused' = refused \cup {<<quoteReq[r].bill, code, bill[quoteReq[r].bill]>>},
         refused' # refused /\ quoteReq[r].bill \notin Converts /\ bill[quoteReq[r].bill] # None =>
            bill[quoteReq[r].bill].voided \/ bill[quoteReq[r].bill].found # "fresh"
  PROVE  QuotesInv'
<1>1. /\ quoteReq' \in [QuoteRequests -> Request \cup {None}] /\ quoteReq'[r] = None
      /\ \A x \in QuoteRequests \ {r} : quoteReq'[x] = quoteReq[x]
  BY DEF QuotesInv, QuotesTyped
<1>2. NeverRungTwice'
  <2>1. CASE refused' = refused
    BY <2>1 DEF QuotesInv, NeverRungTwice
  <2>2. CASE refused' # refused
    <3>1. PICK code : refused' = refused \cup {<<quoteReq[r].bill, code, bill[quoteReq[r].bill]>>}
      BY <2>2
    <3> SUFFICES ASSUME NEW x \in refused', x[1] \notin Converts, x[3] # None
                 PROVE  x[3].voided \/ x[3].found # "fresh"
      BY DEF NeverRungTwice
    <3>2. CASE x \in refused
      BY <3>2 DEF QuotesInv, NeverRungTwice
    <3>3. CASE x = <<quoteReq[r].bill, code, bill[quoteReq[r].bill]>>
      BY <2>2, <3>3
    <3> QED BY <3>1, <3>2, <3>3
  <2> QED BY <2>1, <2>2
<1> QED BY <1>1, <1>2, RowsKeep

LEMMA ExistingIs ==
  ASSUME NEW b, NEW route
  PROVE  /\ ExistingSale(b, route) = "none" <=> bill[b] = None
         /\ ExistingSale(b, route) = "SALE_VOIDED" <=> bill[b] # None /\ bill[b].voided /\ route # "push"
         /\ ExistingSale(b, route) \in {"none", "SALE_VOIDED", "replayed"}
BY DEF ExistingSale

\* The order in which lockAndClassify looks at the quote, the day and the bill.
LEMMA ClassifyIs ==
  ASSUME NEW q, NEW b, NEW day
  PROVE  LET found == LockAndClassify(q, b, day)
         IN  /\ found \in Findings
             /\ found = "missing" <=> quote[q] = None
             /\ found = "fresh" => ~ Converted(q) /\ bill[b] = None
             /\ found = "replay" => Converted(q) /\ quote[q].sold = b
             /\ found = "converted" => Converted(q) /\ quote[q].sold # b
             /\ found = "expired" => ~ Converted(q)
             /\ found = "sale_id_taken" => bill[b] # None /\ ~ Converted(q)
<1> DEFINE at == IF day = None THEN today ELSE day
<1>1. CASE quote[q] = None
  BY <1>1 DEF LockAndClassify, Findings
<1>2. CASE quote[q] # None /\ Converted(q)
  BY <1>2 DEF LockAndClassify, Findings
<1>3. CASE quote[q] # None /\ ~ Converted(q) /\ Expired(q, at)
  BY <1>3 DEF LockAndClassify, Findings
<1>4. CASE quote[q] # None /\ ~ Converted(q) /\ ~ Expired(q, at)
  BY <1>4 DEF LockAndClassify, Findings
<1> QED BY <1>1, <1>2, <1>3, <1>4

LEMMA LockForSaleIs ==
  ASSUME NEW b, NEW route, NEW found \in Findings
  PROVE  /\ LockForSale(b, route, found) = "none" <=> found \in {"fresh", "replay"}
         /\ found = "missing" /\ route # "convert" /\ LockForSale(b, route, found) # "replayed" =>
               bill[b] = None \/ bill[b].voided
         /\ LockForSale(b, route, found) = "replayed" => found = "missing"
<1> USE DEF LockForSale, Findings
<1>1. CASE found # "missing"
  BY <1>1
<1>2. CASE found = "missing" /\ (route = "convert" \/ ExistingSale(b, route) = "none")
  BY <1>2, ExistingIs
<1>3. CASE found = "missing" /\ route # "convert" /\ ExistingSale(b, route) # "none"
  BY <1>3, ExistingIs
<1> QED BY <1>1, <1>2, <1>3

\* A bill that counts as sold from its quote is the one the quote names.
LEMMA SoldByItself ==
  ASSUME QuotesInv, NEW b \in QuoteBills, NEW q, q = QuoteOf[b],
         bill[b] # None, bill[b].found = "fresh", quote[q] # None
  PROVE  Converted(q) /\ quote[q].sold = b
<1>1. q \in Quotes /\ b \in sold[q]
  BY QuotesAssumption DEF QuotesInv, FreshIsSold
<1> QED BY <1>1 DEF QuotesInv, SoldOnce

LEMMA LockQuoteKeeps ==
  ASSUME QuotesInv, NEW r \in QuoteRequests, LockQuote(r)
  PROVE  QuotesInv'
<1>1. PICK b \in QuoteBills, q \in Quotes, route \in {"convert", "sell", "push"}, found \in Findings :
         /\ b = quoteReq[r].bill /\ q = QuoteOf[b] /\ route = quoteReq[r].route
         /\ found = LockAndClassify(q, b, quoteReq[r].day)
         /\ quoteReq[r] \in Request /\ quoteReq[r] # None /\ q \in issued /\ route \in Routes(b)
  <2>1. quoteReq[r] \in Request /\ quoteReq[r] # None
    BY DEF LockQuote, QuotesInv, QuotesTyped
  <2>2. /\ quoteReq[r].bill \in QuoteBills /\ QuoteOf[quoteReq[r].bill] \in Quotes
        /\ quoteReq[r].route \in {"convert", "sell", "push"}
    BY <2>1, QuotesAssumption DEF Request
  <2>3. LockAndClassify(QuoteOf[quoteReq[r].bill], quoteReq[r].bill, quoteReq[r].day) \in Findings
    BY ClassifyIs
  <2> QED BY <2>1, <2>2, <2>3 DEF QuotesInv, AskedRight
<1>a. PICK code : code = IF route = "push" THEN "none" ELSE LockForSale(b, route, found)
  OBVIOUS
<1>2. /\ UNCHANGED <<quote, issued, bill, quoteReview, today, sold>> /\ Unlocked(q)
      /\ IF code = "none" THEN
            /\ quoteReq' = [quoteReq EXCEPT ![r] = [quoteReq[r] EXCEPT !.step = "locked", !.found = found]]
            /\ UNCHANGED refused
         ELSE IF code = "replayed" THEN Answer(r) ELSE Refuse(r, code)
  BY <1>1, <1>a, Zenon DEF LockQuote, Waits
<1>3. /\ found \in Findings
      /\ found = "missing" <=> quote[q] = None
      /\ found = "fresh" => ~ Converted(q) /\ bill[b] = None
      /\ found = "replay" => Converted(q) /\ quote[q].sold = b
      /\ found = "converted" => Converted(q) /\ quote[q].sold # b
      /\ found = "expired" => ~ Converted(q)
      /\ found = "sale_id_taken" => bill[b] # None /\ ~ Converted(q)
  BY <1>1, ClassifyIs
<1>4. route # "push" =>
        /\ code = "none" <=> found \in {"fresh", "replay"}
        /\ found = "missing" /\ route # "convert" /\ code # "replayed" =>
              bill[b] = None \/ bill[b].voided
  BY <1>1, <1>a, <1>3, LockForSaleIs
<1>5. CASE code = "none"
  <2> DEFINE new == [quoteReq[r] EXCEPT !.step = "locked", !.found = found]
  <2>1. new \in Request /\ new.step = "locked" /\ new.found = found /\ new.bill = b /\ new.route = route
    BY <1>1, <1>3 DEF Request, Steps
  <2>2. quoteReq' = [quoteReq EXCEPT ![r] = new] /\ UNCHANGED refused
    BY <1>2, <1>5
  <2> HIDE DEF new
  <2>3. /\ quoteReq' \in [QuoteRequests -> Request \cup {None}] /\ quoteReq'[r] = new
        /\ \A x \in QuoteRequests \ {r} : quoteReq'[x] = quoteReq[x]
    BY <2>1, <2>2 DEF QuotesInv, QuotesTyped
  <2>4. QuotesTyped' /\ SoldOnce' /\ FreshIsSold' /\ OfflineSeen' /\ NeverRungTwice'
    BY <1>2, <2>2, <2>3
       DEF QuotesInv, QuotesTyped, SoldOnce, FreshIsSold, OfflineSeen, Converted, NeverRungTwice
  <2>5. AskedRight'
    BY <1>1, <1>2, <2>1, <2>3 DEF QuotesInv, AskedRight, Routes
  <2>6. \A x \in QuoteRequests \ {r} :
            HasRow(x) /\ quoteReq[x].found # "missing" => QuoteOf[quoteReq[x].bill] # q
    BY <1>2 DEF Unlocked, HasRow
  <2>7. OneLocker'
    <3> SUFFICES ASSUME NEW u \in QuoteRequests, NEW x \in QuoteRequests, u # x, HasRow(u)', HasRow(x)',
                        quoteReq'[u].found # "missing", quoteReq'[x].found # "missing"
                 PROVE  QuoteOf[quoteReq'[u].bill] # QuoteOf[quoteReq'[x].bill]
      BY DEF OneLocker
    <3>1. CASE u = r
      <4>1. HasRow(x) /\ quoteReq'[x] = quoteReq[x] /\ quoteReq'[u].bill = b
        BY <2>1, <2>3, <3>1 DEF HasRow
      <4> QED BY <1>1, <2>6, <3>1, <4>1
    <3>2. CASE x = r
      <4>1. HasRow(u) /\ quoteReq'[u] = quoteReq[u] /\ quoteReq'[x].bill = b
        BY <2>1, <2>3, <3>2 DEF HasRow
      <4> QED BY <1>1, <2>6, <3>2, <4>1
    <3>3. CASE u # r /\ x # r
      BY <2>3, <3>3 DEF QuotesInv, OneLocker, HasRow
    <3> QED BY <3>1, <3>2, <3>3
  <2>8. AllFoundStands'
    <3> SUFFICES ASSUME NEW x \in QuoteRequests, HasRow(x)' PROVE FoundStands(x)'
      BY DEF AllFoundStands
    <3>1. CASE x # r
      <4>1. quoteReq'[x] = quoteReq[x] /\ FoundStands(x)
        BY <2>3, <3>1 DEF HasRow, QuotesInv, AllFoundStands
      <4> QED BY <1>2, <4>1, FoundYet
    <3>2. CASE x = r
      <4>1. found \notin {"fresh", "replay"} => route = "push"
        BY <1>4, <1>5
      <4>2. quote' = quote /\ bill' = bill /\ quoteReq'[x] = new
        BY <1>2, <2>3, <3>2
      <4> QED BY <1>1, <1>3, <2>1, <4>1, <4>2 DEF FoundStands, Converted
    <3> QED BY <3>1, <3>2
  <2> QED BY <2>4, <2>5, <2>7, <2>8 DEF QuotesInv
<1>6. CASE code # "none"
  <2>1. Answer(r) \/ (code # "replayed" /\ Refuse(r, code))
    BY <1>2, <1>6
  <2>2. CASE Answer(r)
    BY <1>2, <2>2, EndKeeps DEF Answer
  <2>3. CASE code # "replayed" /\ Refuse(r, code)
    <3>1. b \notin Converts => route # "convert"
      BY <1>1 DEF Routes
    <3>2. b \notin Converts /\ bill[b] # None => bill[b].voided \/ bill[b].found # "fresh"
      <4> SUFFICES ASSUME b \notin Converts, bill[b] # None, bill[b].found = "fresh" PROVE bill[b].voided
        OBVIOUS
      <4>1. route # "push" /\ found \notin {"fresh", "replay"}
        BY <1>1, <1>a, <1>4, <1>6
      <4>2. CASE found = "missing"
        BY <1>4, <2>3, <3>1, <4>1, <4>2
      <4>3. CASE found # "missing"
        BY <1>1, <1>3, <4>1, <4>3, SoldByItself DEF Findings
      <4> QED BY <4>2, <4>3
    <3> QED BY <1>1, <1>2, <2>3, <3>2, EndKeeps DEF Refuse
  <2> QED BY <2>1, <2>2, <2>3
<1> QED BY <1>5, <1>6

LEMMA SaleRefusedKeeps ==
  ASSUME QuotesInv, NEW r \in QuoteRequests, SaleRefused(r)
  PROVE  QuotesInv'
<1> DEFINE b == quoteReq[r].bill
<1>1. quoteReq[r].route \in Routes(b)
  BY DEF SaleRefused, QuotesInv, AskedRight
<1>2. PICK code :
         /\ Refuse(r, code) /\ UNCHANGED <<quote, issued, bill, quoteReview, today, sold>>
         /\ \/ LooseLine(r)
            \/ ExistingSale(b, quoteReq[r].route) \in {"SALE_VOIDED", "none"}
  BY DEF SaleRefused
<1>3. LooseLine(r) => b \in Converts
  BY <1>1 DEF LooseLine, Routes
<1>4. b \notin Converts /\ bill[b] # None => bill[b].voided
  BY <1>2, <1>3, ExistingIs
<1> QED BY <1>2, <1>4, EndKeeps DEF Refuse

\* The bill and the mark are one commit: a quote that was found fresh is sold for the
\* first time, and a bill that is not its sale came from a push, for the owner to see.
LEMMA SellKeeps ==
  ASSUME QuotesInv, NEW r \in QuoteRequests, SellFromQuote(r),
         quoteReview \subseteq quoteReview',
         quoteReq[r].route = "push" => SettleOfflineQuote(quoteReq[r].bill, quoteReq[r].found)
  PROVE  QuotesInv'
<1>1. PICK b \in QuoteBills, q \in Quotes, route \in {"convert", "sell", "push"}, found \in Findings :
         /\ b = quoteReq[r].bill /\ q = QuoteOf[b] /\ route = quoteReq[r].route
         /\ found = quoteReq[r].found /\ HasRow(r) /\ FoundStands(r) /\ q \in issued
  <2>1. quoteReq[r] \in Request /\ HasRow(r) /\ FoundStands(r) /\ QuoteOf[quoteReq[r].bill] \in issued
    BY DEF SellFromQuote, HasRow, QuotesInv, QuotesTyped, AllFoundStands, AskedRight
  <2>2. /\ quoteReq[r].bill \in QuoteBills /\ QuoteOf[quoteReq[r].bill] \in Quotes
        /\ quoteReq[r].route \in {"convert", "sell", "push"} /\ quoteReq[r].found \in Findings
    BY <2>1, QuotesAssumption DEF Request, FoundStands
  <2> QED BY <2>1, <2>2
<1>2. /\ found = "missing" => quote[q] = None
      /\ found # "missing" => quote[q] # None
      /\ found = "fresh" => ~ Converted(q) /\ bill[b] = None
      /\ found = "replay" => Converted(q) /\ quote[q].sold = b
      /\ found = "sale_id_taken" => bill[b] # None
      /\ found \notin {"fresh", "replay"} => route = "push"
  BY <1>1 DEF FoundStands
<1>3. PICK new \in BillRow : new = [voided |-> FALSE, offline |-> route = "push", found |-> found]
  <2>1. (route = "push") \in BOOLEAN
    OBVIOUS
  <2>2. [voided |-> FALSE, offline |-> route = "push", found |-> found] \in BillRow
    BY <2>1, Zenon DEF BillRow
  <2> QED BY <2>2, Zenon
<1>4. /\ UNCHANGED <<issued, today, refused>> /\ quoteReq' = [quoteReq EXCEPT ![r] = None]
      /\ bill' = IF bill[b] # None THEN bill ELSE [bill EXCEPT ![b] = new]
      /\ IF found = "fresh" THEN MarkConverted(q, b) ELSE UNCHANGED <<quote, sold>>
  BY <1>1, <1>3, ExistingIs DEF SellFromQuote, Answer
<1>5. new # None /\ b # None
  BY <1>1, <1>3, QuotesAssumption
<1>6. /\ quoteReq' \in [QuoteRequests -> Request \cup {None}] /\ quoteReq'[r] = None
      /\ \A x \in QuoteRequests \ {r} : quoteReq'[x] = quoteReq[x]
  BY <1>4 DEF QuotesInv, QuotesTyped
<1>7. /\ AskedRight' /\ OneLocker'
      /\ \A x \in QuoteRequests : HasRow(x)' =>
            /\ HasRow(x) /\ quoteReq'[x] = quoteReq[x] /\ quoteReq[x] \in Request
            /\ FoundStands(x) /\ QuoteOf[quoteReq[x].bill] \in issued
  BY <1>4, <1>6, RequestsKeep
<1>8. NeverRungTwice'
  BY <1>4 DEF QuotesInv, NeverRungTwice
<1>9. CASE bill[b] # None
  BY <1>1, <1>2, <1>4, <1>9, EndKeeps
<1>10. bill[b] = None =>
         /\ bill' \in [QuoteBills -> BillRow \cup {None}] /\ bill'[b] = new
         /\ \A c \in QuoteBills \ {b} : bill'[c] = bill[c]
  BY <1>3, <1>4 DEF QuotesInv, QuotesTyped
<1>11. CASE bill[b] = None /\ found = "fresh"
  <2>1. quote[q] \in QuoteRow /\ quote[q] # None /\ today \in Nat
    BY <1>2, <1>11 DEF QuotesInv, QuotesTyped
  <2>2. PICK mark \in QuoteRow : mark = [quote[q] EXCEPT !.status = "converted", !.at = today, !.sold = b]
    BY <2>1 DEF QuoteRow
  <2>3. mark.status = "converted" /\ mark.sold = b
    BY <2>1, <2>2 DEF QuoteRow
  <2>4. /\ quote' \in [Quotes -> QuoteRow \cup {None}] /\ quote'[q] = mark
        /\ \A x \in Quotes \ {q} : quote'[x] = quote[x]
    BY <1>4, <1>11, <2>2 DEF MarkConverted, QuotesInv, QuotesTyped
  <2>5. sold[q] = {}
    BY <1>2, <1>11, <2>1 DEF QuotesInv, SoldOnce
  <2>6. /\ sold' \in [Quotes -> SUBSET QuoteBills] /\ sold'[q] = {b}
        /\ \A x \in Quotes \ {q} : sold'[x] = sold[x]
    BY <1>4, <1>11, <2>5 DEF MarkConverted, QuotesInv, QuotesTyped
  <2>7. \A c \in QuoteBills : c \in sold[QuoteOf[c]] => c \in sold'[QuoteOf[c]]
    BY <2>5, <2>6, QuotesAssumption
  <2>8. QuotesTyped'
    BY <1>4, <1>6, <1>10, <1>11, <2>4, <2>6 DEF QuotesInv, QuotesTyped
  <2>9. SoldOnce'
    <3> SUFFICES ASSUME NEW x \in Quotes
                 PROVE  /\ \A c, d \in sold'[x] : c = d
                        /\ \A c \in sold'[x] : QuoteOf[c] = x /\ bill'[c] # None /\ x \in issued'
                        /\ quote'[x] # None =>
                              /\ x \in issued'
                              /\ quote'[x].status = "converted" <=> sold'[x] # {}
                              /\ quote'[x].status = "converted" => quote'[x].sold \in sold'[x]
      BY DEF SoldOnce, Converted
    <3>1. CASE x = q
      BY <1>1, <1>4, <1>5, <1>10, <1>11, <2>3, <2>4, <2>6, <3>1
    <3>2. CASE x # q
      <4>1. \A c \in sold[x] : c \in QuoteBills /\ c # b /\ bill[c] # None
        BY <1>11 DEF QuotesInv, QuotesTyped, SoldOnce
      <4> QED BY <1>4, <1>10, <1>11, <2>4, <2>6, <3>2, <4>1 DEF QuotesInv, SoldOnce, Converted
    <3> QED BY <3>1, <3>2
  <2>10. FreshIsSold' /\ OfflineSeen'
    BY <1>1, <1>10, <1>11, <2>6, <2>7 DEF QuotesInv, FreshIsSold, OfflineSeen
  <2>11. AllFoundStands'
    <3> SUFFICES ASSUME NEW x \in QuoteRequests, HasRow(x)' PROVE FoundStands(x)'
      BY DEF AllFoundStands
    <3>1. /\ HasRow(x) /\ quoteReq'[x] = quoteReq[x] /\ quoteReq[x] \in Request /\ FoundStands(x)
          /\ x # r
      BY <1>6, <1>7 DEF HasRow
    <3>2. PICK c \in QuoteBills, p \in Quotes : c = quoteReq[x].bill /\ p = QuoteOf[c]
      BY <3>1, QuotesAssumption DEF Request
    <3>3. quoteReq[x].found = "missing" => quote[p] = None
      BY <3>1, <3>2 DEF FoundStands
    <3>4. p # q /\ c # b
      BY <1>1, <1>11, <2>1, <3>1, <3>2, <3>3 DEF QuotesInv, OneLocker
    <3>5. quote'[p] = quote[p] /\ bill'[c] = bill[c]
      BY <1>10, <1>11, <2>4, <3>2, <3>4
    <3> QED BY <3>1, <3>2, <3>5, FoundYet
  <2> QED BY <1>7, <1>8, <2>8, <2>9, <2>10, <2>11 DEF QuotesInv
<1>12. CASE bill[b] = None /\ found # "fresh"
  <2>1. UNCHANGED <<quote, sold>>
    BY <1>4, <1>12
  <2>2. found # "replay"
    BY <1>2, <1>12 DEF QuotesInv, SoldOnce, Converted
  <2>3. found \in {"missing", "converted", "expired"} /\ route = "push"
    BY <1>2, <1>12, <2>2 DEF Findings
  <2>4. quoteReview' = quoteReview \cup {<<b, Reason(found)>>}
    BY <1>1, <2>3 DEF SettleOfflineQuote, Reason
  <2>5. QuotesTyped' /\ SoldOnce'
    <3>1. QuotesTyped'
      BY <1>4, <1>6, <1>10, <1>12, <2>1 DEF QuotesInv, QuotesTyped
    <3>2. \A c \in QuoteBills : bill[c] # None => bill'[c] # None
      BY <1>10, <1>12
    <3>3. \A p \in Quotes : sold[p] \subseteq QuoteBills
      BY DEF QuotesInv, QuotesTyped
    <3>4. SoldOnce'
      BY <1>4, <2>1, <3>2, <3>3 DEF QuotesInv, SoldOnce, Converted
    <3> QED BY <3>1, <3>4
  <2>6. FreshIsSold'
    BY <1>3, <1>10, <1>12, <2>1 DEF QuotesInv, FreshIsSold
  <2>7. OfflineSeen'
    <3>1. <<b, Reason(found)>> \in quoteReview' /\ <<b, Reason(found)>>[1] = b
      BY <2>4
    <3>2. \E x \in quoteReview' : x[1] = b
      BY <3>1, Zenon
    <3> QED BY <1>10, <1>12, <2>1, <2>4, <3>2 DEF QuotesInv, OfflineSeen
  <2>8. AllFoundStands'
    <3> SUFFICES ASSUME NEW x \in QuoteRequests, HasRow(x)' PROVE FoundStands(x)'
      BY DEF AllFoundStands
    <3>1. /\ HasRow(x) /\ quoteReq'[x] = quoteReq[x] /\ quoteReq[x] \in Request /\ FoundStands(x)
          /\ x # r
      BY <1>6, <1>7 DEF HasRow
    <3>2. PICK c \in QuoteBills, p \in Quotes : c = quoteReq[x].bill /\ p = QuoteOf[c]
      BY <3>1, QuotesAssumption DEF Request
    <3>3. /\ quoteReq[x].found = "fresh" => quote[p] # None
          /\ quoteReq[x].found = "sale_id_taken" => bill[c] # None
      BY <3>1, <3>2 DEF FoundStands
    <3>4. quoteReq[x].found \in {"fresh", "sale_id_taken"} => c # b
      BY <1>1, <1>2, <1>12, <3>1, <3>2, <3>3 DEF QuotesInv, OneLocker
    <3>5. quoteReq[x].found \in {"fresh", "sale_id_taken"} => bill'[c] = bill[c]
      BY <1>10, <1>12, <3>2, <3>4
    <3> QED BY <2>1, <3>1, <3>2, <3>5, FoundYet
  <2> QED BY <1>7, <1>8, <2>5, <2>6, <2>7, <2>8 DEF QuotesInv
<1> QED BY <1>9, <1>11, <1>12


LEMMA InitQuotes == QuotesInit => QuotesInv
BY QuotesAssumption
   DEF QuotesInit, QuotesInv, QuotesTyped, SoldOnce, FreshIsSold, OfflineSeen, AskedRight,
       AllFoundStands, HasRow, OneLocker, NeverRungTwice

LEMMA QuotesStep == QuotesInv /\ [QuotesNext]_quoteVars => QuotesInv'
<1> SUFFICES ASSUME QuotesInv, [QuotesNext]_quoteVars PROVE QuotesInv'
  OBVIOUS
<1>1. CASE UNCHANGED quoteVars
  <2>1. NeverRungTwice' /\ quoteReq' \in [QuoteRequests -> Request \cup {None}]
    BY <1>1 DEF quoteVars, QuotesInv, QuotesTyped, NeverRungTwice
  <2> QED BY <1>1, <2>1, RowsKeep DEF quoteVars
<1>2. CASE \/ \E q \in Quotes, loose \in BOOLEAN : CreateQuote(q, loose)
           \/ \E q, c \in Quotes : DuplicateQuote(q, c)
           \/ \E q \in Quotes : UpdateQuote(q) \/ DeleteQuote(q)
           \/ PurgeQuotes \/ NextDay
  BY <1>2, QuoteWritesKeep
<1>3. ASSUME NEW b \in QuoteBills, VoidBill(b) PROVE QuotesInv'
  BY <1>3, VoidKeeps
<1>4. ASSUME NEW r \in QuoteRequests, NEW b \in QuoteBills, NEW day \in (0 .. LastDay) \cup {None},
             NEW route \in Routes(b), Ask(r, b, route, day)
      PROVE  QuotesInv'
  BY <1>4, AskKeeps
<1>5. ASSUME NEW r \in QuoteRequests, ReplayPush(r) PROVE QuotesInv'
  BY <1>5, EndKeeps DEF ReplayPush, Answer
<1>6. ASSUME NEW r \in QuoteRequests, LockQuote(r) PROVE QuotesInv'
  BY <1>6, LockQuoteKeeps
<1>7. ASSUME NEW r \in QuoteRequests, SellIn(r) \/ ConvertIn(r) PROVE QuotesInv'
  BY <1>7, SellKeeps DEF SellIn, ConvertIn
<1>8. ASSUME NEW r \in QuoteRequests, PushSale(r) PROVE QuotesInv'
  <2>1. quoteReview \subseteq quoteReview'
    BY <1>8 DEF PushSale, SettleOfflineQuote
  <2> QED BY <1>8, <2>1, SellKeeps DEF PushSale
<1>9. ASSUME NEW r \in QuoteRequests, SaleRefused(r) PROVE QuotesInv'
  BY <1>9, SaleRefusedKeeps
<1>10. ASSUME NEW r \in QuoteRequests, RequestDies(r) PROVE QuotesInv'
  BY <1>10, EndKeeps DEF RequestDies
<1> QED BY <1>1, <1>2, <1>3, <1>4, <1>5, <1>6, <1>7, <1>8, <1>9, <1>10 DEF QuotesNext

LEMMA QuotesKept == OfficeSpec => []QuotesInv
<1>1. OfficeInit => QuotesInv
  BY InitQuotes DEF OfficeInit
<1>2. QuotesInv /\ [OfficeNext]_officeVars => QuotesInv'
  BY OneStep, QuotesStep
<1> QED BY <1>1, <1>2, PTL DEF OfficeSpec

\* However often requests for a quote are retried, raced or cut off, one bill is sold
\* from it, the one its row names, and a bill a till rang up offline that is not its sale
\* is before the owner (quote-sale.service.ts: lockForSale, markConverted,
\* settleOfflineQuote).
THEOREM OneBillAQuote == OfficeSpec => []OneBillPerQuote
<1>1. QuotesInv => OneBillPerQuote
  <2> SUFFICES ASSUME QuotesInv PROVE OneBillPerQuote
    OBVIOUS
  <2>1. ASSUME NEW q \in Quotes PROVE Cardinality(sold[q]) <= 1
    <3>1. CASE sold[q] = {}
      BY <3>1, FS_EmptySet
    <3>2. CASE sold[q] # {}
      <4>1. PICK b \in sold[q] : TRUE
        BY <3>2
      <4>2. sold[q] = {b}
        BY <4>1 DEF QuotesInv, SoldOnce
      <4>3. Cardinality({b}) = 1
        BY FS_Singleton, Zenon
      <4> QED BY <4>2, <4>3
    <3> QED BY <3>1, <3>2
  <2>2. ASSUME NEW q \in Quotes, quote[q] # None
        PROVE  /\ Converted(q) <=> sold[q] # {}
               /\ Converted(q) => sold[q] = {quote[q].sold} /\ bill[quote[q].sold] # None
    BY <2>2 DEF QuotesInv, SoldOnce
  <2> QED BY <2>1, <2>2 DEF OneBillPerQuote, QuotesInv, OfflineSeen
<1> QED BY <1>1, QuotesKept, PTL

\* A sale that stands is never refused on a retry, so the counter does not ring it up
\* again (quote-sale.service.ts: lockAndClassify looks at the mark before the expiry).
THEOREM NobodyRungTwice == OfficeSpec => []NeverRungTwice
<1>1. QuotesInv => NeverRungTwice
  BY DEF QuotesInv
<1> QED BY <1>1, QuotesKept, PTL

-----------------------------------------------------------------------------
(* The payment accounts: one writer at a time has judged, and what it read *)
(* is what it writes over.                                                 *)

AccountRow == [nickname : Values, bankCode : Values, default : BOOLEAN, deleted : BOOLEAN]
Edit == [op : {"create", "patch", "delete"}, id : AccountIds, fields : SUBSET Fields,
         value : Values \cup {None},
         default : {"yes", "no", None}, step : {"asked", "judged"}, read : AccountRow \cup {None},
         active : Nat]

AccountsTyped ==
    /\ account \in [AccountIds -> AccountRow \cup {None}]
    /\ edit \in [AccountWriters -> Edit \cup {None}]
    /\ wanted \in [AccountIds -> [Fields -> Values] \cup {None}]

Judged(w) == edit[w] # None /\ edit[w].step = "judged"
AskedAll ==
    \A w \in AccountWriters : edit[w] # None => Asked(edit[w].op, edit[w].fields, edit[w].value)
OneJudge == \A v, w \in AccountWriters : Judged(v) /\ Judged(w) => v = w
JudgedStands ==
    \A w \in AccountWriters : Judged(w) =>
        edit[w].read = account[edit[w].id] /\ edit[w].active = Cardinality(Active)

FewActive == IsFiniteSet(Active) /\ Cardinality(Active) <= MaxActive
OneDefault ==
    \A a, b \in AccountIds :
        account[a] # None /\ account[b] # None /\ account[a].default /\ account[b].default => a = b
NoDeletedDefault == \A a \in AccountIds : account[a] # None /\ account[a].default => ~ account[a].deleted
LastWritten ==
    \A a \in AccountIds : account[a] # None =>
        /\ wanted[a] \in [Fields -> Values]
        /\ account[a].nickname = wanted[a]["nickname"] /\ account[a].bankCode = wanted[a]["bankCode"]

AccountsInv ==
    /\ AccountsTyped /\ AskedAll /\ OneJudge /\ JudgedStands
    /\ FewActive /\ OneDefault /\ NoDeletedDefault /\ LastWritten /\ ~ clash

\* A write that asks, judges or leaves moves no account.
LEMMA EditsKeep ==
  ASSUME AccountsInv, UNCHANGED <<account, wanted, clash>>, edit' \in [AccountWriters -> Edit \cup {None}],
         AskedAll', OneJudge',
         \A w \in AccountWriters : Judged(w)' =>
            \/ edit'[w] = edit[w]
            \/ edit'[w].read = account[edit'[w].id] /\ edit'[w].active = Cardinality(Active)
  PROVE  AccountsInv'
<1>1. Active' = Active
  BY DEF Active
<1>2. AccountsTyped' /\ OneDefault' /\ NoDeletedDefault' /\ LastWritten' /\ ~ clash'
  BY DEF AccountsInv, AccountsTyped, OneDefault, NoDeletedDefault, LastWritten
<1>3. FewActive'
  BY <1>1 DEF AccountsInv, FewActive
<1>4. Cardinality(Active)' = Cardinality(Active)
  BY <1>1
<1>5. JudgedStands'
  <2> SUFFICES ASSUME NEW w \in AccountWriters, Judged(w)'
               PROVE  edit'[w].read = account'[edit'[w].id] /\ edit'[w].active = Cardinality(Active)'
    BY DEF JudgedStands
  <2>1. CASE edit'[w] = edit[w]
    BY <1>4, <2>1 DEF AccountsInv, JudgedStands, Judged
  <2>2. CASE edit'[w].read = account[edit'[w].id] /\ edit'[w].active = Cardinality(Active)
    BY <1>4, <2>2
  <2> QED BY <2>1, <2>2
<1> QED BY <1>2, <1>3, <1>5 DEF AccountsInv

LEMMA AskEditKeeps ==
  ASSUME AccountsInv, NEW w \in AccountWriters, NEW op \in {"create", "patch", "delete"},
         NEW a \in AccountIds, AskEdit(w, op, a)
  PROVE  AccountsInv'
<1>0. PICK fields \in SUBSET Fields, value \in Values \cup {None}, default \in {"yes", "no", None} :
         /\ Asked(op, fields, value) /\ (op = "delete" => default = None)
         /\ edit' = [edit EXCEPT ![w] =
               [op |-> op, id |-> a, fields |-> fields, value |-> value, default |-> default,
                step |-> "asked", read |-> None, active |-> 0]]
  BY Zenon DEF AskEdit
<1> DEFINE new == [op |-> op, id |-> a, fields |-> fields, value |-> value,
                   default |-> default, step |-> "asked", read |-> None, active |-> 0]
<1>1. new \in Edit /\ new.step = "asked" /\ new.op = op /\ new.fields = fields /\ new.value = value
  BY DEF Edit
<1>2. edit' = [edit EXCEPT ![w] = new] /\ Asked(op, fields, value) /\ UNCHANGED <<account, wanted, clash>>
  BY <1>0 DEF AskEdit
<1> HIDE DEF new
<1>3. /\ edit' \in [AccountWriters -> Edit \cup {None}] /\ edit'[w] = new
      /\ \A v \in AccountWriters \ {w} : edit'[v] = edit[v]
  BY <1>1, <1>2 DEF AccountsInv, AccountsTyped
<1>4. AskedAll'
  BY <1>1, <1>2, <1>3 DEF AccountsInv, AskedAll, Asked
<1>5. \A v \in AccountWriters : Judged(v)' => Judged(v) /\ edit'[v] = edit[v]
  BY <1>1, <1>3 DEF Judged
<1>6. OneJudge'
  BY <1>5 DEF AccountsInv, OneJudge
<1> QED BY <1>2, <1>3, <1>4, <1>5, <1>6, EditsKeep

\* One writer at a time reads what it judges by.
LEMMA JudgeKeeps ==
  ASSUME AccountsInv, NEW w \in AccountWriters, Judge(w)
  PROVE  AccountsInv'
<1> DEFINE new == [edit[w] EXCEPT !.step = "judged", !.read = account[edit[w].id],
                                  !.active = Cardinality(Active)]
<1>1. edit[w] \in Edit /\ edit[w] # None
  BY DEF Judge, AccountsInv, AccountsTyped
<1>2. Cardinality(Active) \in Nat /\ account[edit[w].id] \in AccountRow \cup {None}
  BY <1>1, FS_CardinalityType DEF AccountsInv, FewActive, AccountsTyped, Edit
<1>3. /\ new \in Edit /\ new.op = edit[w].op /\ new.fields = edit[w].fields /\ new.id = edit[w].id
      /\ new.value = edit[w].value
      /\ new.read = account[edit[w].id] /\ new.active = Cardinality(Active)
  BY <1>1, <1>2 DEF Edit
<1>4. edit' = [edit EXCEPT ![w] = new] /\ UNCHANGED <<account, wanted, clash>>
  BY DEF Judge
<1> HIDE DEF new
<1>5. /\ edit' \in [AccountWriters -> Edit \cup {None}] /\ edit'[w] = new
      /\ \A v \in AccountWriters \ {w} : edit'[v] = edit[v]
  BY <1>3, <1>4 DEF AccountsInv, AccountsTyped
<1>6. AskedAll'
  BY <1>1, <1>3, <1>5 DEF AccountsInv, AskedAll, Asked
<1>7. \A v \in AccountWriters \ {w} : ~ Judged(v)
  BY DEF Judge, LockAccounts, Judged
<1>8. \A v \in AccountWriters \ {w} : ~ Judged(v)'
  BY <1>5, <1>7 DEF Judged
<1>9. OneJudge'
  BY <1>8 DEF OneJudge
<1> QED BY <1>3, <1>4, <1>5, <1>6, <1>8, <1>9, EditsKeep

\* What holds of the edits when a writer leaves, whatever it wrote.
LEMMA LeaveKeeps ==
  ASSUME AccountsInv, NEW w \in AccountWriters, Leave(w)
  PROVE  /\ edit' \in [AccountWriters -> Edit \cup {None}] /\ edit'[w] = None
         /\ \A v \in AccountWriters \ {w} : edit'[v] = edit[v]
         /\ AskedAll' /\ OneJudge' /\ (Judged(w) => \A v \in AccountWriters : ~ Judged(v)')
<1>1. /\ edit' \in [AccountWriters -> Edit \cup {None}] /\ edit'[w] = None
      /\ \A v \in AccountWriters \ {w} : edit'[v] = edit[v]
  BY DEF Leave, AccountsInv, AccountsTyped
<1>2. AskedAll'
  BY <1>1 DEF AccountsInv, AskedAll, Asked
<1>3. \A v \in AccountWriters : Judged(v)' => v # w /\ Judged(v)
  BY <1>1 DEF Judged
<1>4. OneJudge'
  BY <1>3 DEF AccountsInv, OneJudge
<1>5. Judged(w) => \A v \in AccountWriters : ~ Judged(v)'
  BY <1>3 DEF AccountsInv, OneJudge
<1> QED BY <1>1, <1>2, <1>4, <1>5

\* The row of an account is written from the row that was read, which stands until then.
LEMMA SaveKeeps ==
  ASSUME AccountsInv, NEW w \in AccountWriters, Save(w)
  PROVE  AccountsInv'
<1>1. PICK e \in Edit, a \in AccountIds : e = edit[w] /\ a = e.id /\ e # None
  BY DEF Save, AccountsInv, AccountsTyped, Edit
<1> DEFINE cleared == ClearDefault(a, e)
           rows == [cleared EXCEPT ![a] = NewRow(e)]
<1>2. /\ Judged(w) /\ e.op # "delete" /\ ~ Refused(w) /\ Leave(w)
      /\ e.read = account[a] /\ e.active = Cardinality(Active) /\ Asked(e.op, e.fields, e.value)
  BY <1>1 DEF Save, Judged, AccountsInv, JudgedStands, AskedAll
<1>3. /\ e.op = "create" => account[a] = None /\ Cardinality(Active) < MaxActive
      /\ e.op # "create" => account[a] # None /\ ~ account[a].deleted
      /\ account[a] # None => account[a] \in AccountRow
  <2>1. Cardinality(Active) \in Nat /\ MaxActive \in Nat
    BY AccountsAssumption, FS_CardinalityType DEF AccountsInv, FewActive
  <2>2. e.op = "create" => account[a] = None /\ ~ Cardinality(Active) >= MaxActive
    BY <1>1, <1>2 DEF Refused
  <2>3. e.op # "create" => account[a] # None /\ ~ account[a].deleted
    BY <1>1, <1>2 DEF Refused
  <2> QED BY <2>1, <2>2, <2>3 DEF AccountsInv, AccountsTyped
<1>4. (e.op = "create" => e.fields = Fields) /\ (e.fields # {} => e.value \in Values)
  BY <1>1, <1>2 DEF Asked, Edit
<1>5. PICK new \in AccountRow :
         /\ new = NewRow(e) /\ ~ new.deleted
         /\ new.nickname = IF "nickname" \in e.fields THEN e.value ELSE account[a].nickname
         /\ new.bankCode = IF "bankCode" \in e.fields THEN e.value ELSE account[a].bankCode
         /\ new.default = IF e.default # None THEN e.default = "yes"
                          ELSE account[a] # None /\ account[a].default
  <2> DEFINE named == IF "nickname" \in e.fields THEN e.value ELSE account[a].nickname
             banked == IF "bankCode" \in e.fields THEN e.value ELSE account[a].bankCode
             first == IF e.default # None THEN e.default = "yes"
                      ELSE account[a] # None /\ account[a].default
  <2>1. "nickname" \notin e.fields \/ "bankCode" \notin e.fields => account[a] # None
    BY <1>3, <1>4 DEF Fields
  <2>2. named \in Values /\ banked \in Values
    BY <1>1, <1>3, <1>4, <2>1 DEF Edit, AccountRow
  <2>3. first \in BOOLEAN
    BY <1>3, Zenon DEF AccountRow
  <2>4. NewRow(e) = [nickname |-> named, bankCode |-> banked, default |-> first, deleted |-> FALSE]
    BY <1>2, Zenon DEF NewRow
  <2> HIDE DEF named, banked, first
  <2>5. /\ NewRow(e) \in AccountRow /\ NewRow(e).nickname = named /\ NewRow(e).bankCode = banked
        /\ NewRow(e).default = first /\ NewRow(e).deleted = FALSE
    BY <2>2, <2>3, <2>4 DEF AccountRow
  <2> USE DEF named, banked, first
  <2> QED BY <2>5, Zenon
<1>6. /\ cleared \in [AccountIds -> AccountRow \cup {None}]
      /\ \A b \in AccountIds : cleared[b] = account[b]
           \/ (b # a /\ b \in Active /\ cleared[b] = [account[b] EXCEPT !.default = FALSE])
      /\ e.default = "yes" /\ ~ (account[a] # None /\ account[a].default) =>
           \A b \in AccountIds \ {a} : b \in Active => cleared[b] = [account[b] EXCEPT !.default = FALSE]
  <2>1. account \in [AccountIds -> AccountRow \cup {None}]
    BY DEF AccountsInv, AccountsTyped
  <2>2. \A b \in AccountIds : b \in Active => [account[b] EXCEPT !.default = FALSE] \in AccountRow
    BY <2>1 DEF Active, AccountRow
  <2>3. CASE e.default = "yes" /\ ~ (account[a] # None /\ account[a].default)
    <3>1. cleared = [b \in AccountIds |-> IF b # a /\ b \in Active THEN [account[b] EXCEPT !.default = FALSE]
                                          ELSE account[b]]
      BY <1>2, <2>3 DEF ClearDefault
    <3> QED BY <2>1, <2>2, <3>1
  <2>4. CASE ~ (e.default = "yes" /\ ~ (account[a] # None /\ account[a].default))
    <3>1. cleared = account
      BY <1>2, <2>4 DEF ClearDefault
    <3> QED BY <2>1, <2>4, <3>1
  <2> QED BY <2>3, <2>4
<1>7. /\ rows \in [AccountIds -> AccountRow \cup {None}] /\ rows[a] = new
      /\ \A b \in AccountIds \ {a} : rows[b] = cleared[b]
  BY <1>5, <1>6
<1> HIDE DEF cleared, rows
<1>8. \A b \in AccountIds \ {a} :
         /\ rows[b] = None \/ account[b] # None
         /\ account[b] # None /\ rows[b] # None =>
              /\ rows[b].nickname = account[b].nickname /\ rows[b].bankCode = account[b].bankCode
              /\ rows[b].deleted = account[b].deleted
              /\ rows[b].default => account[b].default
  <2>1. \A b \in AccountIds : account[b] # None => account[b] \in AccountRow
    BY DEF AccountsInv, AccountsTyped
  <2> QED BY <1>6, <1>7, <2>1 DEF Active, AccountRow
<1>9. \A b, c \in AccountIds :
         rows[b] # None /\ rows[c] # None /\ rows[b].default /\ rows[c].default => b = c
  <2>1. CASE e.default = "yes" /\ ~ (account[a] # None /\ account[a].default)
    <3>1. \A b \in AccountIds \ {a} : rows[b] # None => ~ rows[b].default
      <4> SUFFICES ASSUME NEW b \in AccountIds \ {a}, rows[b] # None PROVE ~ rows[b].default
        OBVIOUS
      <4>1. CASE b \in Active
        <5>1. rows[b] = [account[b] EXCEPT !.default = FALSE] /\ account[b] \in AccountRow
          BY <1>6, <1>7, <2>1, <4>1 DEF Active, AccountsInv, AccountsTyped
        <5> QED BY <5>1 DEF AccountRow
      <4>2. CASE b \notin Active
        <5>1. account[b] # None /\ account[b].deleted
          BY <1>8, <4>2 DEF Active
        <5> QED BY <1>8, <5>1 DEF AccountsInv, NoDeletedDefault
      <4> QED BY <4>1, <4>2
    <3> QED BY <3>1
  <2>2. CASE ~ (e.default = "yes" /\ ~ (account[a] # None /\ account[a].default))
    <3>1. new.default => account[a] # None /\ account[a].default
      BY <1>5, <2>2
    <3>2. \A b \in AccountIds : rows[b] # None /\ rows[b].default => account[b] # None /\ account[b].default
      BY <1>7, <1>8, <3>1
    <3> QED BY <3>2 DEF AccountsInv, OneDefault
  <2> QED BY <2>1, <2>2
<1>10. ~ TwoDefaults(rows)
  BY <1>9 DEF TwoDefaults
<1>11. /\ account' = rows /\ UNCHANGED clash
       /\ wanted' = [wanted EXCEPT ![a] =
                       [f \in Fields |-> IF f \in e.fields THEN e.value ELSE wanted[a][f]]]
  BY <1>1, <1>10 DEF Save, rows, cleared
<1>12. /\ edit' \in [AccountWriters -> Edit \cup {None}] /\ AskedAll' /\ OneJudge'
       /\ \A v \in AccountWriters : ~ Judged(v)'
  BY <1>2, LeaveKeeps
<1>13. PICK now \in [Fields -> Values] :
          now = [f \in Fields |-> IF f \in e.fields THEN e.value ELSE wanted[a][f]]
  <2>1. e.op # "create" => wanted[a] \in [Fields -> Values]
    BY <1>3 DEF AccountsInv, AccountsTyped, LastWritten
  <2>2. \A f \in Fields : (IF f \in e.fields THEN e.value ELSE wanted[a][f]) \in Values
    BY <1>4, <2>1 DEF Edit
  <2> QED BY <2>2
<1>14. /\ wanted' \in [AccountIds -> [Fields -> Values] \cup {None}] /\ wanted'[a] = now
       /\ \A b \in AccountIds \ {a} : wanted'[b] = wanted[b]
  BY <1>11, <1>13 DEF AccountsInv, AccountsTyped
<1>15. AccountsTyped'
  BY <1>7, <1>11, <1>12, <1>14 DEF AccountsTyped
<1>16. JudgedStands'
  BY <1>12 DEF JudgedStands
<1>17. FewActive'
  <2>1. Active' \subseteq Active \cup {a}
    BY <1>8, <1>11 DEF Active
  <2>2. IsFiniteSet(Active \cup {a}) /\ Cardinality(Active \cup {a}) <= MaxActive
    <3>1. IsFiniteSet(Active) /\ Cardinality(Active) \in Nat /\ MaxActive \in Nat /\ Cardinality(Active) <= MaxActive
      BY AccountsAssumption, FS_CardinalityType DEF AccountsInv, FewActive
    <3>2. IsFiniteSet(Active \cup {a})
          /\ Cardinality(Active \cup {a}) = IF a \in Active THEN Cardinality(Active) ELSE Cardinality(Active) + 1
      BY <3>1, FS_AddElement
    <3>3. a \in Active \/ Cardinality(Active) < MaxActive
      BY <1>3 DEF Active
    <3> QED BY <3>1, <3>2, <3>3
  <2>3. IsFiniteSet(Active') /\ Cardinality(Active') <= Cardinality(Active \cup {a})
    BY <2>1, <2>2, FS_Subset
  <2>4. Cardinality(Active') \in Nat /\ Cardinality(Active \cup {a}) \in Nat /\ MaxActive \in Nat
    BY <2>2, <2>3, FS_CardinalityType, AccountsAssumption
  <2> QED BY <2>2, <2>3, <2>4 DEF FewActive
<1>18. OneDefault' /\ NoDeletedDefault'
  <2>1. OneDefault'
    BY <1>9, <1>11 DEF OneDefault
  <2>2. NoDeletedDefault'
    BY <1>5, <1>7, <1>8, <1>11 DEF AccountsInv, NoDeletedDefault
  <2> QED BY <2>1, <2>2
<1>19. LastWritten'
  <2> SUFFICES ASSUME NEW b \in AccountIds, rows[b] # None
               PROVE  /\ wanted'[b] \in [Fields -> Values]
                      /\ rows[b].nickname = wanted'[b]["nickname"] /\ rows[b].bankCode = wanted'[b]["bankCode"]
    BY <1>11 DEF LastWritten
  <2>1. CASE b # a
    BY <1>8, <1>14, <2>1 DEF AccountsInv, LastWritten
  <2>2. CASE b = a
    <3>1. now["nickname"] = new.nickname /\ now["bankCode"] = new.bankCode
      <4>1. /\ now["nickname"] = IF "nickname" \in e.fields THEN e.value ELSE wanted[a]["nickname"]
            /\ now["bankCode"] = IF "bankCode" \in e.fields THEN e.value ELSE wanted[a]["bankCode"]
        BY <1>13 DEF Fields
      <4>2. e.op # "create" =>
              account[a].nickname = wanted[a]["nickname"] /\ account[a].bankCode = wanted[a]["bankCode"]
        BY <1>3 DEF AccountsInv, LastWritten
      <4> QED BY <1>4, <1>5, <4>1, <4>2 DEF Fields
    <3> QED BY <1>7, <1>14, <2>2, <3>1
  <2> QED BY <2>1, <2>2
<1> QED BY <1>11, <1>12, <1>15, <1>16, <1>17, <1>18, <1>19 DEF AccountsInv

\* A soft delete takes the default with it.
LEMMA RemoveKeeps ==
  ASSUME AccountsInv, NEW w \in AccountWriters, Remove(w)
  PROVE  AccountsInv'
<1>1. PICK a \in AccountIds : a = edit[w].id
  BY DEF Remove, AccountsInv, AccountsTyped, Edit
<1> DEFINE new == [account[a] EXCEPT !.deleted = TRUE, !.default = FALSE]
<1>2. Judged(w) /\ Leave(w) /\ account[a] # None /\ account[a] \in AccountRow
  <2>1. Judged(w) /\ Leave(w) /\ edit[w].read = account[a] /\ ~ Refused(w) /\ edit[w].op = "delete"
    BY <1>1 DEF Remove, Judged, AccountsInv, JudgedStands
  <2> QED BY <2>1 DEF Refused, AccountsInv, AccountsTyped
<1>3. /\ new \in AccountRow /\ new.deleted /\ ~ new.default
      /\ new.nickname = account[a].nickname /\ new.bankCode = account[a].bankCode
  BY <1>2 DEF AccountRow
<1>4. account' = [account EXCEPT ![a] = new] /\ UNCHANGED <<wanted, clash>>
  BY <1>1 DEF Remove
<1> HIDE DEF new
<1>5. /\ account' \in [AccountIds -> AccountRow \cup {None}] /\ account'[a] = new
      /\ \A b \in AccountIds \ {a} : account'[b] = account[b]
  BY <1>3, <1>4 DEF AccountsInv, AccountsTyped
<1>6. /\ edit' \in [AccountWriters -> Edit \cup {None}] /\ AskedAll' /\ OneJudge'
      /\ \A v \in AccountWriters : ~ Judged(v)'
  BY <1>2, LeaveKeeps
<1>7. AccountsTyped'
  BY <1>4, <1>5, <1>6 DEF AccountsInv, AccountsTyped
<1>8. JudgedStands'
  BY <1>6 DEF JudgedStands
<1>9. FewActive'
  <2>1. Active' \subseteq Active
    BY <1>3, <1>5 DEF Active
  <2>2. IsFiniteSet(Active') /\ Cardinality(Active') <= Cardinality(Active)
    BY <2>1, FS_Subset DEF AccountsInv, FewActive
  <2>3. Cardinality(Active') \in Nat /\ Cardinality(Active) \in Nat /\ MaxActive \in Nat
    BY <2>2, FS_CardinalityType, AccountsAssumption DEF AccountsInv, FewActive
  <2> QED BY <2>2, <2>3 DEF AccountsInv, FewActive
<1>10. OneDefault' /\ NoDeletedDefault' /\ LastWritten'
  BY <1>2, <1>3, <1>4, <1>5 DEF AccountsInv, OneDefault, NoDeletedDefault, LastWritten
<1> QED BY <1>4, <1>6, <1>7, <1>8, <1>9, <1>10 DEF AccountsInv

LEMMA InitAccounts == AccountsInit => AccountsInv
<1> SUFFICES ASSUME AccountsInit PROVE AccountsInv
  OBVIOUS
<1>1. Active = {}
  BY DEF AccountsInit, Active
<1>2. FewActive
  BY <1>1, FS_EmptySet, AccountsAssumption DEF FewActive
<1> QED BY <1>2 DEF AccountsInit, AccountsInv, AccountsTyped, AskedAll, OneJudge, JudgedStands, Judged,
                    OneDefault, NoDeletedDefault, LastWritten

LEMMA AccountsStep == AccountsInv /\ [AccountsNext]_accountVars => AccountsInv'
<1> SUFFICES ASSUME AccountsInv, [AccountsNext]_accountVars PROVE AccountsInv'
  OBVIOUS
<1>1. CASE UNCHANGED accountVars
  <2>1. /\ edit' \in [AccountWriters -> Edit \cup {None}] /\ AskedAll' /\ OneJudge'
        /\ UNCHANGED <<account, wanted, clash, edit>>
    BY <1>1 DEF accountVars, AccountsInv, AccountsTyped, AskedAll, Asked, OneJudge, Judged
  <2> QED BY <2>1, EditsKeep
<1>2. ASSUME NEW w \in AccountWriters, NEW op \in {"create", "patch", "delete"},
             NEW a \in AccountIds, AskEdit(w, op, a)
      PROVE  AccountsInv'
  BY <1>2, AskEditKeeps
<1>3. ASSUME NEW w \in AccountWriters, Judge(w) PROVE AccountsInv'
  BY <1>3, JudgeKeeps
<1>4. ASSUME NEW w \in AccountWriters, GiveUp(w) PROVE AccountsInv'
  <2>1. /\ edit' \in [AccountWriters -> Edit \cup {None}] /\ AskedAll' /\ OneJudge'
        /\ edit'[w] = None /\ \A v \in AccountWriters \ {w} : edit'[v] = edit[v]
    BY <1>4, LeaveKeeps DEF GiveUp
  <2>2. \A v \in AccountWriters : Judged(v)' => edit'[v] = edit[v]
    BY <2>1 DEF Judged
  <2> QED BY <1>4, <2>1, <2>2, EditsKeep DEF GiveUp
<1>5. ASSUME NEW w \in AccountWriters, Save(w) PROVE AccountsInv'
  BY <1>5, SaveKeeps
<1>6. ASSUME NEW w \in AccountWriters, Remove(w) PROVE AccountsInv'
  BY <1>6, RemoveKeeps
<1> QED BY <1>1, <1>2, <1>3, <1>4, <1>5, <1>6 DEF AccountsNext

LEMMA AccountsKept == OfficeSpec => []AccountsInv
<1>1. OfficeInit => AccountsInv
  BY InitAccounts DEF OfficeInit
<1>2. AccountsInv /\ [OfficeNext]_officeVars => AccountsInv'
  BY OneStep, AccountsStep
<1> QED BY <1>1, <1>2, PTL DEF OfficeSpec

\* However many owners' windows write at once, there are never too many accounts or two
\* defaults, the index that guards the default never refuses a move of it, and a field is
\* what was last saved for it (payment-accounts.service.ts: lockAccounts, createIn,
\* updateIn, removeIn).
THEOREM AccountsStayOrderly == OfficeSpec => []AccountsOrderly
<1>1. AccountsInv => AccountsOrderly
  BY DEF AccountsInv, FewActive, OneDefault, LastWritten, AccountsOrderly
<1> QED BY <1>1, AccountsKept, PTL

-----------------------------------------------------------------------------
(* The incremental pull: a committed stamp is no older than the ceiling,   *)
(* and what a till's round has passed it has, or it was committed since.   *)

Stampings == UNION {[D -> Nat] : D \in SUBSET Rows}
Writing == [began : Nat, stamp : Stampings, pushed : SUBSET Rows, import : BOOLEAN,
            sealed : Nat \cup {None}]
Round == [since : Int, after : Rows \cup {None}, last : Nat \cup {None}, began : Nat,
          guard : SUBSET Rows, floor : Nat \cup {None}]

PullTyped ==
    /\ second \in Nat /\ row \in [Rows -> [at : Nat, ver : Nat]]
    /\ writer \in [Writers -> Writing \cup {None}] /\ copy \in [Rows -> Nat]
    /\ cursor \in Nat \cup {None} /\ round \in Round \cup {None}
    /\ table \in {"products", "people"} /\ outbox \in [Rows -> {"none", "queued", "rejected"}]
    /\ took \in [Rows -> Nat] /\ stale \subseteq Rows /\ behind \subseteq Rows

\* A stamp is never older than its transaction, and an import's are all its last.
StampsTrue ==
    \A w \in Writers : writer[w] # None =>
        /\ writer[w].began <= second
        /\ \A r \in DOMAIN writer[w].stamp :
              writer[w].began <= writer[w].stamp[r] /\ writer[w].stamp[r] <= second
        /\ writer[w].sealed # None =>
              /\ writer[w].import
              /\ \A r \in DOMAIN writer[w].stamp : writer[w].stamp[r] = writer[w].sealed

\* A row is the till's as it stands; of people, with what they owe or have bought.
Has(r) == copy[r] = row[r].ver /\ (table = "people" => r \notin stale)

\* What a till has is what stood, as far back as its next round will not look.
CursorStands ==
    /\ \A r \in Rows : row[r].at <= second /\ copy[r] <= row[r].ver
    /\ cursor # None =>
          /\ cursor <= second
          /\ \A r \in Rows : row[r].at <= cursor - Rewind => Has(r)

\* A product that is stale though it was served is behind, and a person on whom the server
\* took work is stale until the answer comes.
WorkStands ==
    \A r \in Rows :
        /\ table = "products" /\ r \in stale /\ copy[r] = row[r].ver => r \in behind
        /\ took[r] # 0 => outbox[r] = "queued" /\ (table = "people" => r \in stale)

\* What a round has passed it has read, or holds back for, or it was committed since the
\* round began.
Passed(r) == r \notin Past(round.since, round.after)
HeldBack(r) == round.floor # None /\ round.floor <= row[r].at
RoundStands ==
    round # None =>
        /\ round.began <= second
        /\ round.last # None => round.last <= second /\ round.last <= round.began + MaxRound
        /\ \A r \in Rows : Passed(r) =>
              \/ row[r].at >= round.began - Ceiling
              \/ copy[r] = row[r].ver /\ (table = "people" => r \notin stale \/ HeldBack(r))

PullInv == PullTyped /\ StampsTrue /\ CursorStands /\ WorkStands /\ RoundStands

\* Of rows that are left, one comes first.
LEMMA FirstOf ==
  ASSUME NEW S, S \subseteq Nat, S # {}
  PROVE  \E n \in S : \A m \in S : n <= m
<1>1. PICK n \in S : \A m \in S : ~ (<<m, n>> \in OpToRel(<, Nat))
  BY NatLessThanWellFounded, WFMin, Zenon
<1>2. \A m \in S : ~ (m < n)
  BY <1>1 DEF OpToRel
<1>3. \A m \in S : n <= m
  BY <1>2
<1> QED BY <1>3

LEMMA PageNotEmpty ==
  ASSUME PullTyped, NEW since, NEW after, Past(since, after) # {}
  PROVE  Page(since, after) # {}
<1>0. \A r \in Past(since, after) : r \in Nat /\ row[r].at \in Nat
  BY PullAssumption DEF PullTyped, Past, Rows
<1>1. PICK a \in Nat, first \in Past(since, after) :
         row[first].at = a /\ \A r \in Past(since, after) : a <= row[r].at
  <2> DEFINE S == {row[r].at : r \in Past(since, after)}
  <2>1. S \subseteq Nat /\ S # {}
    BY <1>0
  <2>2. PICK n \in S : \A m \in S : n <= m
    <3> HIDE DEF S
    <3> QED BY <2>1, FirstOf
  <2> QED BY <1>0, <2>2
<1>2. PICK b \in Past(since, after) :
         row[b].at = a /\ \A r \in Past(since, after) : row[r].at = a => b <= r
  <2> DEFINE T == {r \in Past(since, after) : row[r].at = a}
  <2>1. T \subseteq Nat /\ T # {}
    BY <1>0, <1>1
  <2>2. PICK n \in T : \A m \in T : n <= m
    <3> HIDE DEF T
    <3> QED BY <2>1, FirstOf
  <2> QED BY <2>2
<1>3. \A x \in Past(since, after) : ~ Before(x, b)
  BY <1>0, <1>1, <1>2 DEF Before
<1>4. {x \in Past(since, after) : Before(x, b)} = {}
  BY <1>3
<1>5. Cardinality({x \in Past(since, after) : Before(x, b)}) < PageLimit
  BY <1>4, FS_EmptySet, PullAssumption
<1> QED BY <1>2, <1>5 DEF Page

\* A page has every row that comes before its last one.
LEMMA PageUpTo ==
  ASSUME PullTyped, NEW since, NEW after, NEW last \in Page(since, after),
         NEW r \in Past(since, after), r = last \/ Before(r, last)
  PROVE  r \in Page(since, after)
<1>1. CASE r = last
  BY <1>1
<1>2. CASE Before(r, last)
  <2> DEFINE S == {x \in Past(since, after) : Before(x, last)}
             T == {x \in Past(since, after) : Before(x, r)}
  <2>1. \A x \in Past(since, after) : x \in Rows /\ x \in Nat /\ row[x].at \in Nat
    BY PullAssumption DEF PullTyped, Past, Rows
  <2>2. last \in Past(since, after) /\ Cardinality(S) < PageLimit
    BY DEF Page
  <2>3. T \subseteq S
    BY <1>2, <2>1, <2>2 DEF Before
  <2>4. IsFiniteSet(S)
    <3>1. IsFiniteSet(Rows)
      <4>1. 1 \in Int /\ RowCount \in Int
        BY PullAssumption
      <4> QED BY <4>1, FS_Interval DEF Rows
    <3>2. S \subseteq Rows
      BY <2>1
    <3> HIDE DEF S
    <3> QED BY <3>1, <3>2, FS_Subset
  <2>5. Cardinality(T) < PageLimit
    <3> HIDE DEF S, T
    <3>1. Cardinality(T) <= Cardinality(S) /\ IsFiniteSet(T)
      BY <2>3, <2>4, FS_Subset
    <3>2. Cardinality(T) \in Nat /\ Cardinality(S) \in Nat /\ PageLimit \in Nat
      BY <2>4, <3>1, FS_CardinalityType, PullAssumption
    <3> QED BY <2>2, <3>1, <3>2
  <2> QED BY <2>5 DEF Page
<1> QED BY <1>1, <1>2

\* A transaction begins, writes or goes, and nothing of it is seen.
LEMMA WritersKeep ==
  ASSUME PullInv, UNCHANGED <<second, row, copy, cursor, round, tillVars>>,
         writer' \in [Writers -> Writing \cup {None}], StampsTrue'
  PROVE  PullInv'
<1>1. PullTyped' /\ CursorStands' /\ WorkStands'
  BY DEF tillVars, PullInv, PullTyped, CursorStands, WorkStands, Has
<1>2. RoundStands'
  BY DEF tillVars, PullInv, RoundStands, HeldBack, Passed, Past
<1> QED BY <1>1, <1>2 DEF PullInv

LEMMA WriterKeeps ==
  ASSUME PullInv, NEW w \in Writers, NEW new \in Writing, writer' = [writer EXCEPT ![w] = new],
         UNCHANGED <<second, row, copy, cursor, round, tillVars>>,
         new.began <= second,
         \A r \in DOMAIN new.stamp : new.began <= new.stamp[r] /\ new.stamp[r] <= second,
         new.sealed # None => new.import /\ \A r \in DOMAIN new.stamp : new.stamp[r] = new.sealed
  PROVE  PullInv'
<1>1. /\ writer' \in [Writers -> Writing \cup {None}] /\ writer'[w] = new
      /\ \A v \in Writers \ {w} : writer'[v] = writer[v]
  BY DEF PullInv, PullTyped
<1>2. StampsTrue'
  BY <1>1 DEF PullInv, StampsTrue
<1> QED BY <1>1, <1>2, WritersKeep

LEMMA StampingIs ==
  ASSUME NEW stamp
  PROVE  stamp \in Stampings <=> \E D \in SUBSET Rows : stamp \in [D -> Nat]
BY Zenon DEF Stampings

LEMMA WriteKeeps ==
  ASSUME PullInv, NEW w \in Writers, NEW r \in Rows, NEW at, Write(w, r, at)
  PROVE  PullInv'
<1> DEFINE was == writer[w].stamp
           stamp == [x \in DOMAIN was \cup {r} |-> IF x = r THEN at ELSE was[x]]
           new == [writer[w] EXCEPT !.stamp = stamp]
<1>1. /\ writer[w] \in Writing /\ writer[w] # None /\ ~ writer[w].import
      /\ at \in {writer[w].began, second} /\ writer' = [writer EXCEPT ![w] = new]
      /\ UNCHANGED <<second, row, copy, cursor, round, tillVars>>
  BY DEF Write, Stamps, PullInv, PullTyped
<1>2. /\ writer[w].began \in Nat /\ second \in Nat /\ writer[w].began <= second
      /\ writer[w].sealed = None
      /\ \A x \in DOMAIN was : writer[w].began <= was[x] /\ was[x] <= second
  BY <1>1 DEF PullInv, PullTyped, StampsTrue, Writing
<1>3. PICK D \in SUBSET Rows : was \in [D -> Nat]
  BY <1>1, StampingIs DEF Writing
<1>4. stamp \in [D \cup {r} -> Nat]
  BY <1>1, <1>2, <1>3
<1>5. /\ D \cup {r} \subseteq Rows /\ DOMAIN stamp = DOMAIN was \cup {r} /\ stamp[r] = at
      /\ \A x \in DOMAIN was : x # r => stamp[x] = was[x]
  BY <1>3
<1> HIDE DEF stamp
<1>6. stamp \in Stampings
  BY <1>4, <1>5, StampingIs
<1>7. /\ new \in Writing /\ new.began = writer[w].began /\ new.stamp = stamp /\ new.sealed = None
  BY <1>1, <1>2, <1>6 DEF Writing
<1>8. \A x \in DOMAIN stamp : writer[w].began <= stamp[x] /\ stamp[x] <= second
  BY <1>1, <1>2, <1>5
<1> HIDE DEF new, was
<1> QED BY <1>1, <1>2, <1>7, <1>8, WriterKeeps

LEMMA RestampKeeps ==
  ASSUME PullInv, NEW w \in Writers, Restamp(w)
  PROVE  PullInv'
<1> DEFINE stamp == [r \in Rows |-> second]
           new == [writer[w] EXCEPT !.stamp = stamp, !.sealed = second]
<1>1. /\ writer[w] \in Writing /\ writer[w] # None /\ writer[w].import /\ writer' = [writer EXCEPT ![w] = new]
      /\ UNCHANGED <<second, row, copy, cursor, round, tillVars>>
  BY DEF Restamp, PullInv, PullTyped
<1>2. writer[w].began \in Nat /\ second \in Nat /\ writer[w].began <= second
  BY <1>1 DEF PullInv, PullTyped, StampsTrue, Writing
<1>3. stamp \in [Rows -> Nat] /\ Rows \in SUBSET Rows
  BY <1>2
<1>4. stamp \in Stampings
  BY <1>3, StampingIs
<1>5. DOMAIN stamp = Rows /\ \A r \in Rows : stamp[r] = second
  OBVIOUS
<1> HIDE DEF stamp
<1>6. /\ new \in Writing /\ new.began = writer[w].began /\ new.stamp = stamp /\ new.sealed = second
      /\ new.import
  BY <1>1, <1>2, <1>4 DEF Writing
<1> HIDE DEF new
<1>7. /\ new.began <= second
      /\ \A r \in DOMAIN new.stamp :
            new.began <= new.stamp[r] /\ new.stamp[r] <= second /\ new.stamp[r] = new.sealed
  BY <1>2, <1>5, <1>6
<1> QED BY <1>1, <1>6, <1>7, WriterKeeps

LEMMA BeginKeeps ==
  ASSUME PullInv, NEW w \in Writers, NEW import \in BOOLEAN, NEW work \in SUBSET Rows,
         Begin(w, import, work)
  PROVE  PullInv'
<1> DEFINE stamp == [r \in {} |-> 0]
           new == [began |-> second, stamp |-> stamp, pushed |-> work, import |-> import, sealed |-> None]
<1>1. /\ writer' = [writer EXCEPT ![w] = new]
      /\ UNCHANGED <<second, row, copy, cursor, round, tillVars>>
      /\ second \in Nat
  BY DEF Begin, PullInv, PullTyped
<1>2. stamp \in [{} -> Nat] /\ {} \in SUBSET Rows /\ DOMAIN stamp = {}
  OBVIOUS
<1>3. stamp \in Stampings
  BY <1>2, StampingIs
<1> HIDE DEF stamp
<1>4. new \in Writing /\ new.began = second /\ new.stamp = stamp /\ new.sealed = None
  BY <1>1, <1>3 DEF Writing
<1> HIDE DEF new
<1>5. new.began <= second /\ DOMAIN new.stamp = {} /\ ~ (new.sealed # None)
  BY <1>1, <1>2, <1>4
<1> QED BY <1>1, <1>4, <1>5, WriterKeeps

LEMMA RollbackKeeps ==
  ASSUME PullInv, NEW w \in Writers, Rollback(w)
  PROVE  PullInv'
<1>1. /\ writer' \in [Writers -> Writing \cup {None}] /\ writer'[w] = None
      /\ \A v \in Writers \ {w} : writer'[v] = writer[v]
      /\ UNCHANGED <<second, row, copy, cursor, round, tillVars>>
  BY DEF Rollback, PullInv, PullTyped
<1>2. StampsTrue'
  BY <1>1 DEF PullInv, StampsTrue
<1> QED BY <1>1, <1>2, WritersKeep

\* What a commit shows is stamped within the ceiling of its COMMIT.
LEMMA CommitKeeps ==
  ASSUME PullInv, NEW w \in Writers, Commit(w)
  PROVE  PullInv'
<1>1. /\ writer[w] \in Writing /\ writer[w] # None /\ WithinCeiling(w)
      /\ UNCHANGED <<second, copy, cursor, round, table, outbox, behind>>
      /\ writer' = [writer EXCEPT ![w] = None] /\ second \in Nat
      /\ {Ceiling, Rewind} \subseteq Nat /\ Ceiling < Rewind
      /\ row \in [Rows -> [at : Nat, ver : Nat]]
  BY PullAssumption DEF Commit, PullInv, PullTyped
<1>2. \A r \in Rows : Holds(w, r) =>
         writer[w].stamp[r] \in Nat /\ writer[w].stamp[r] <= second /\ writer[w].stamp[r] >= second - Ceiling
  <2> SUFFICES ASSUME NEW r \in Rows, Holds(w, r)
               PROVE  /\ writer[w].stamp[r] \in Nat /\ writer[w].stamp[r] <= second
                      /\ writer[w].stamp[r] >= second - Ceiling
    OBVIOUS
  <2>1. PICK D \in SUBSET Rows : writer[w].stamp \in [D -> Nat]
    BY <1>1, StampingIs DEF Writing
  <2>2. r \in DOMAIN writer[w].stamp /\ writer[w].stamp[r] \in Nat
    BY <2>1 DEF Holds
  <2>3. /\ writer[w].began <= writer[w].stamp[r] /\ writer[w].stamp[r] <= second
        /\ writer[w].sealed # None => writer[w].stamp[r] = writer[w].sealed
    BY <1>1, <2>2 DEF PullInv, StampsTrue
  <2>4. writer[w].began \in Nat /\ writer[w].sealed \in Nat \cup {None}
    BY <1>1 DEF Writing
  <2> QED BY <1>1, <2>2, <2>3, <2>4 DEF WithinCeiling
<1>3. /\ row' \in [Rows -> [at : Nat, ver : Nat]]
      /\ \A r \in Rows :
            IF Holds(w, r)
            THEN /\ row'[r].at <= second /\ row'[r].at >= second - Ceiling
                 /\ row'[r].ver = row[r].ver + 1
            ELSE row'[r] = row[r]
  <2>1. row' = [r \in Rows |-> IF Holds(w, r) THEN [at |-> writer[w].stamp[r], ver |-> row[r].ver + 1]
                               ELSE row[r]]
    BY DEF Commit
  <2> QED BY <1>1, <1>2, <2>1
<1>4. /\ writer' \in [Writers -> Writing \cup {None}] /\ writer'[w] = None
      /\ \A v \in Writers \ {w} : writer'[v] = writer[v]
  BY <1>1 DEF PullInv, PullTyped
<1>5. /\ stale' = stale \cup {r \in Rows : Holds(w, r)} /\ took' \in [Rows -> Nat]
      /\ \A r \in Rows : took'[r] # took[r] => outbox[r] = "queued" /\ Holds(w, r)
  <2>1. took' = [r \in Rows |-> IF outbox[r] = "queued" /\ r \in writer[w].pushed THEN row'[r].ver
                                ELSE took[r]]
    BY DEF Commit
  <2>2. took \in [Rows -> Nat] /\ \A r \in Rows : row'[r].ver \in Nat
    BY <1>3 DEF PullInv, PullTyped
  <2>3. \A r \in Rows : r \in writer[w].pushed => Holds(w, r)
    BY <1>1 DEF Commit, Holds
  <2> QED BY <2>1, <2>2, <2>3 DEF Commit
<1>6. PullTyped' /\ StampsTrue'
  BY <1>1, <1>3, <1>4, <1>5 DEF PullInv, PullTyped, StampsTrue
<1>7. \A r \in Rows : /\ row[r].at \in Nat /\ row'[r].at \in Nat
                      /\ row[r].ver \in Nat /\ row'[r].ver \in Nat /\ copy[r] \in Nat
  BY <1>1, <1>3 DEF PullInv, PullTyped
<1>8. CursorStands'
  <2>1. \A r \in Rows : row'[r].at <= second' /\ copy'[r] <= row'[r].ver
    BY <1>1, <1>3, <1>7 DEF PullInv, CursorStands
  <2>2. cursor # None => cursor \in Nat /\ cursor <= second
    BY DEF PullInv, PullTyped, CursorStands
  <2>3. ASSUME cursor # None, NEW r \in Rows, row'[r].at <= cursor - Rewind
        PROVE  Has(r)'
    <3>1. ~ Holds(w, r) /\ row'[r] = row[r]
      BY <1>1, <1>3, <1>7, <2>2, <2>3
    <3>2. Has(r)
      BY <2>3, <3>1 DEF PullInv, CursorStands
    <3> QED BY <1>1, <1>5, <3>1, <3>2 DEF Has
  <2> QED BY <1>1, <2>1, <2>2, <2>3 DEF CursorStands
<1>9. WorkStands'
  <2> SUFFICES ASSUME NEW r \in Rows
               PROVE  /\ table = "products" /\ r \in stale' /\ copy[r] = row'[r].ver => r \in behind
                      /\ took'[r] # 0 => outbox[r] = "queued" /\ (table = "people" => r \in stale')
    BY <1>1 DEF WorkStands
  <2>1. /\ table = "products" /\ r \in stale /\ copy[r] = row[r].ver => r \in behind
        /\ took[r] # 0 => outbox[r] = "queued" /\ (table = "people" => r \in stale)
        /\ copy[r] <= row[r].ver
    BY DEF PullInv, WorkStands, CursorStands
  <2>2. CASE Holds(w, r)
    BY <1>3, <1>5, <1>7, <2>1, <2>2
  <2>3. CASE ~ Holds(w, r)
    BY <1>3, <1>5, <2>1, <2>3
  <2> QED BY <2>2, <2>3
<1>10. RoundStands'
  <2> SUFFICES ASSUME round # None
               PROVE  /\ round.began <= second
                      /\ round.last # None => round.last <= second /\ round.last <= round.began + MaxRound
                      /\ \A r \in Rows : Passed(r)' =>
                            \/ row'[r].at >= round.began - Ceiling
                            \/ /\ copy[r] = row'[r].ver
                               /\ table = "people" => r \notin stale' \/ HeldBack(r)'
    BY <1>1 DEF RoundStands
  <2>1. /\ round.began \in Nat /\ round.began <= second
        /\ round.last # None => round.last <= second /\ round.last <= round.began + MaxRound
    BY DEF PullInv, PullTyped, RoundStands, Round
  <2>2. ASSUME NEW r \in Rows, Passed(r)'
        PROVE  \/ row'[r].at >= round.began - Ceiling
               \/ copy[r] = row'[r].ver /\ (table = "people" => r \notin stale' \/ HeldBack(r)')
    <3>1. CASE ~ Holds(w, r)
      <4>1. row'[r] = row[r] /\ (r \in stale' => r \in stale)
        BY <1>3, <1>5, <3>1
      <4>2. Passed(r) /\ (HeldBack(r) => HeldBack(r)')
        BY <1>1, <2>2, <4>1 DEF Passed, Past, HeldBack
      <4> QED BY <4>1, <4>2 DEF PullInv, RoundStands
    <3>2. CASE Holds(w, r)
      BY <1>1, <1>3, <1>7, <2>1, <3>2
    <3> QED BY <3>1, <3>2
  <2> QED BY <2>1, <2>2
<1> QED BY <1>6, <1>8, <1>9, <1>10 DEF PullInv

LEMMA TickKeeps ==
  ASSUME PullInv, Tick
  PROVE  PullInv'
<1>1. /\ UNCHANGED <<row, writer, copy, cursor, round, tillVars>>
      /\ second \in Nat /\ second' \in Nat /\ second' = second + 1
  BY DEF Tick, PullInv, PullTyped
<1>2. PullTyped' /\ WorkStands'
  BY <1>1 DEF tillVars, PullInv, PullTyped, WorkStands
<1>3. StampsTrue'
  <2> SUFFICES ASSUME NEW w \in Writers, writer[w] # None
               PROVE  /\ writer[w].began <= second'
                      /\ \A r \in DOMAIN writer[w].stamp :
                            writer[w].began <= writer[w].stamp[r] /\ writer[w].stamp[r] <= second'
                      /\ writer[w].sealed # None =>
                            /\ writer[w].import
                            /\ \A r \in DOMAIN writer[w].stamp : writer[w].stamp[r] = writer[w].sealed
    BY <1>1 DEF StampsTrue
  <2>1. writer[w].began \in Nat /\ writer[w].stamp \in Stampings
    BY DEF PullInv, PullTyped, Writing
  <2>2. \A r \in DOMAIN writer[w].stamp : writer[w].stamp[r] \in Nat
    BY <2>1, StampingIs
  <2> QED BY <1>1, <2>1, <2>2 DEF PullInv, StampsTrue
<1>4. CursorStands'
  BY <1>1 DEF tillVars, PullInv, PullTyped, CursorStands, Has
<1>5. RoundStands'
  <2>1. round # None => /\ round.began \in Nat /\ round.last \in Nat \cup {None}
    BY DEF PullInv, PullTyped, Round
  <2>2. \A r \in Rows : (Passed(r)' => Passed(r)) /\ (HeldBack(r) => HeldBack(r)')
    BY <1>1 DEF Passed, Past, HeldBack
  <2> QED BY <1>1, <2>1, <2>2 DEF tillVars, PullInv, RoundStands
<1> QED BY <1>2, <1>3, <1>4, <1>5 DEF PullInv

\* The till's work is queued, answered or dropped: of people, nothing becomes stale by it.
LEMMA TillKeeps ==
  ASSUME PullInv, UNCHANGED <<second, row, writer, copy, cursor, round, table>>,
         outbox' \in [Rows -> {"none", "queued", "rejected"}], took' \in [Rows -> Nat],
         stale' \subseteq Rows, behind' \subseteq Rows,
         table = "people" => stale' \subseteq stale, WorkStands'
  PROVE  PullInv'
<1>1. PullTyped' /\ StampsTrue'
  BY DEF PullInv, PullTyped, StampsTrue
<1>2. CursorStands'
  BY DEF PullInv, CursorStands, Has
<1>3. \A r \in Rows : (Passed(r)' => Passed(r)) /\ (HeldBack(r) => HeldBack(r)')
  BY DEF Passed, Past, HeldBack
<1>4. RoundStands'
  BY <1>3 DEF PullInv, RoundStands
<1> QED BY <1>1, <1>2, <1>4 DEF PullInv

LEMMA StatusKeeps ==
  ASSUME PullInv, NEW r \in Rows, NEW status \in {"none", "queued", "rejected"}, Becomes(r, status),
         UNCHANGED <<stale, behind>>,
         \/ took' = took /\ (took[r] = 0 \/ status = "queued")
         \/ took' = [took EXCEPT ![r] = 0]
  PROVE  PullInv'
<1>1. /\ UNCHANGED <<second, row, writer, copy, cursor, round, table>>
      /\ outbox' = [outbox EXCEPT ![r] = status]
      /\ outbox \in [Rows -> {"none", "queued", "rejected"}] /\ took \in [Rows -> Nat]
      /\ stale \subseteq Rows /\ behind \subseteq Rows
  BY DEF Becomes, PullInv, PullTyped
<1>2. /\ outbox' \in [Rows -> {"none", "queued", "rejected"}] /\ took' \in [Rows -> Nat]
      /\ outbox'[r] = status /\ \A x \in Rows \ {r} : outbox'[x] = outbox[x]
      /\ \A x \in Rows : took'[x] # 0 => took[x] # 0 /\ (x = r => status = "queued")
  BY <1>1
<1>3. WorkStands'
  BY <1>1, <1>2 DEF PullInv, WorkStands
<1> QED BY <1>1, <1>2, <1>3, TillKeeps

LEMMA AppliedKeeps ==
  ASSUME PullInv, NEW r \in Rows, NEW patched \in BOOLEAN, Applied(r, patched)
  PROVE  PullInv'
<1>1. CASE ~ patched
  BY <1>1, StatusKeeps DEF Applied
<1>2. CASE patched
  <2>1. /\ UNCHANGED <<second, row, writer, copy, cursor, round, table>>
        /\ outbox' = [outbox EXCEPT ![r] = "none"] /\ took' = [took EXCEPT ![r] = 0]
        /\ outbox \in [Rows -> {"none", "queued", "rejected"}] /\ took \in [Rows -> Nat]
        /\ took[r] # 0 /\ stale \subseteq Rows /\ behind \subseteq Rows
    BY DEF Applied, Becomes, PullInv, PullTyped
  <2>2. /\ outbox' \in [Rows -> {"none", "queued", "rejected"}] /\ took' \in [Rows -> Nat]
        /\ took'[r] = 0 /\ \A x \in Rows \ {r} : outbox'[x] = outbox[x] /\ took'[x] = took[x]
    BY <2>1
  <2>3. table = "people" => r \in stale
    BY <2>1 DEF PullInv, WorkStands
  <2>4. /\ stale' \subseteq stale \cup {r} /\ (r \in stale' /\ table = "products" => r \in behind')
        /\ \A x \in Rows \ {r} : /\ x \in stale => x \in stale'
                                 /\ x \in behind => x \in behind'
        /\ behind' \subseteq behind \cup {r}
    BY <1>2 DEF Applied
  <2>5. WorkStands'
    BY <2>1, <2>2, <2>4 DEF PullInv, WorkStands
  <2> QED BY <2>1, <2>2, <2>3, <2>4, <2>5, TillKeeps
<1> QED BY <1>1, <1>2

\* A round begins as far back as what the till has stands.
LEMMA StartKeeps ==
  ASSUME PullInv, NEW full \in BOOLEAN, StartRound(full)
  PROVE  PullInv'
<1> DEFINE guard == {r \in Rows : table = "products" /\ outbox[r] = "queued"}
           new == [since |-> Since(full), after |-> None, last |-> None, began |-> second,
                   guard |-> guard, floor |-> None]
<1>1. round' = new /\ UNCHANGED <<second, row, writer, copy, cursor, tillVars>>
  BY DEF StartRound
<1>2. Since(full) \in Int /\ second \in Nat /\ guard \in SUBSET Rows
  BY PullAssumption DEF Since, PullInv, PullTyped
<1> HIDE DEF guard
<1>3. /\ new \in Round /\ new.since = Since(full) /\ new.after = None /\ new.last = None
      /\ new.began = second
  BY <1>2 DEF Round
<1> HIDE DEF new
<1>4. PullTyped' /\ StampsTrue' /\ CursorStands' /\ WorkStands'
  BY <1>1, <1>3 DEF tillVars, PullInv, PullTyped, StampsTrue, CursorStands, WorkStands, Has
<1>5. ASSUME NEW r \in Rows, Passed(r)' PROVE Has(r)
  <2>1. ~ row[r].at > Since(full) /\ row[r].at \in Nat
    BY <1>1, <1>3, <1>5 DEF Passed, Past, PullInv, PullTyped
  <2>2. cursor # None /\ Since(full) = cursor - Rewind
    BY <2>1 DEF Since
  <2>3. cursor \in Nat /\ Rewind \in Nat
    BY <2>2, PullAssumption DEF PullInv, PullTyped
  <2> QED BY <2>1, <2>2, <2>3 DEF PullInv, CursorStands
<1>6. RoundStands'
  BY <1>1, <1>2, <1>3, <1>5 DEF tillVars, RoundStands, Has
<1> QED BY <1>4, <1>6 DEF PullInv

LEMMA FailKeeps ==
  ASSUME PullInv, RoundFails
  PROVE  PullInv'
BY DEF RoundFails, tillVars, PullInv, PullTyped, StampsTrue, CursorStands, WorkStands, RoundStands, Has

\* The floor of a round is no later than any person's stamp that a page left alone.
LEMMA FloorIs ==
  ASSUME PullInv, round # None, NEW page, page \subseteq Rows
  PROVE  /\ Floor(page) \in Nat \cup {None}
         /\ table = "people" =>
               /\ \A r \in page \cap Guarded : Floor(page) # None /\ Floor(page) <= row[r].at
               /\ round.floor # None => Floor(page) # None /\ Floor(page) <= round.floor
<1> DEFINE stamps == {row[r].at : r \in page \cap Guarded}
                     \cup (IF round.floor = None THEN {} ELSE {round.floor})
<1>1. round.floor \in Nat \cup {None} /\ \A r \in page : row[r].at \in Nat
  BY DEF PullInv, PullTyped, Round
<1>2. stamps \subseteq Nat
  BY <1>1
<1>3. /\ \A r \in page \cap Guarded : row[r].at \in stamps
      /\ round.floor # None => round.floor \in stamps
  OBVIOUS
<1>4. Floor(page) = IF table = "products" \/ stamps = {} THEN round.floor
                    ELSE CHOOSE at \in stamps : \A other \in stamps : at <= other
  BY DEF Floor
<1> HIDE DEF stamps
<1>5. CASE table = "products" \/ stamps = {}
  BY <1>1, <1>3, <1>4, <1>5
<1>6. CASE ~ (table = "products" \/ stamps = {})
  <2>1. \E at \in stamps : \A other \in stamps : at <= other
    BY <1>2, <1>6, FirstOf
  <2>2. Floor(page) \in stamps /\ \A other \in stamps : Floor(page) <= other
    BY <1>4, <1>6, <2>1
  <2>3. Floor(page) \in Nat
    BY <1>2, <2>2
  <2>4. Floor(page) # None
    BY <2>3, RateLimitAssumption
  <2> QED BY <1>2, <1>3, <2>2, <2>3, <2>4
<1> QED BY <1>5, <1>6

\* A page takes all that comes before its last row, and the next page goes on from there.
LEMMA ReadKeeps ==
  ASSUME PullInv, ReadPage
  PROVE  PullInv'
<1> DEFINE page == Page(round.since, round.after)
<1>1. PICK last \in page :
         /\ \A r \in page : ~ Before(last, r)
         /\ copy' = [r \in Rows |-> IF r \in page THEN row[r].ver ELSE copy[r]]
         /\ round' = [round EXCEPT !.since = row[last].at, !.after = last, !.last = row[last].at,
                                   !.floor = Floor(page)]
  BY ZenonT(60) DEF ReadPage
<1>2. /\ round \in Round /\ round # None /\ second - round.began <= MaxRound
      /\ UNCHANGED <<second, row, writer, cursor, table, outbox, took>>
      /\ second \in Nat /\ round.began \in Nat /\ MaxRound \in Nat
  BY PullAssumption DEF ReadPage, PullInv, PullTyped, Round
<1>3. /\ stale' = (stale \ (page \ Guarded)) \cup {r \in page \ Guarded : Spoilt(r)}
      /\ behind' = (behind \ page) \cup {r \in page \cap stale' : table = "products"}
      /\ page \subseteq Rows
  BY DEF ReadPage, Page, Past
<1>4. last \in Rows /\ last \in Nat /\ last # None /\ row[last].at \in Nat /\ row[last].at <= second
      /\ last \in Past(round.since, round.after)
  BY PullAssumption, RateLimitAssumption DEF Page, Past, Rows, PullInv, PullTyped, CursorStands
<1>5. /\ Floor(page) \in Nat \cup {None}
      /\ table = "people" =>
            /\ \A r \in page \cap Guarded : Floor(page) # None /\ Floor(page) <= row[r].at
            /\ round.floor # None => Floor(page) # None /\ Floor(page) <= round.floor
  BY <1>2, <1>3, FloorIs
<1>6. /\ round' \in Round /\ round'.since = row[last].at /\ round'.after = last
      /\ round'.last = row[last].at /\ round'.began = round.began /\ round'.floor = Floor(page)
  <2>1. PICK a \in Nat : a = row[last].at
    BY <1>4
  <2>2. PICK f \in Nat \cup {None} : f = Floor(page)
    BY <1>5
  <2>3. round' = [round EXCEPT !.since = a, !.after = last, !.last = a, !.floor = f] /\ a \in Int
    BY <1>1, <2>1, <2>2
  <2>4. last \in Rows \cup {None} /\ a \in Nat \cup {None}
    BY <1>4
  <2>5. round' \in Round
    BY <1>2, <2>3, <2>4 DEF Round
  <2>6. /\ round'.since = a /\ round'.after = last /\ round'.last = a /\ round'.floor = f
        /\ round'.began = round.began
    BY <1>2, <2>3 DEF Round
  <2> QED BY <2>1, <2>2, <2>5, <2>6
<1>7. /\ copy' \in [Rows -> Nat]
      /\ \A r \in Rows : copy'[r] = IF r \in page THEN row[r].ver ELSE copy[r]
  BY <1>1 DEF PullInv, PullTyped
<1>8. table = "people" =>
         /\ stale' \subseteq stale
         /\ \A r \in Rows : outbox[r] # "none" /\ r \in stale => r \in stale'
         /\ \A r \in page : r \in stale' => r \in Guarded
  <2>1. table = "people" => Guarded = {r \in Rows : outbox[r] # "none"}
    BY DEF Guarded
  <2> QED BY <1>3, <2>1 DEF Spoilt
<1>9. PullTyped' /\ StampsTrue'
  <2>1. stale' \subseteq Rows /\ behind' \subseteq Rows
    BY <1>3 DEF PullInv, PullTyped
  <2>2. PullTyped'
    BY <1>2, <1>6, <1>7, <2>1 DEF PullInv, PullTyped
  <2>3. StampsTrue'
    BY <1>2 DEF PullInv, StampsTrue
  <2> QED BY <2>2, <2>3
<1> HIDE DEF page
<1>10. CursorStands'
  <2>1. \A r \in Rows : copy'[r] <= row[r].ver /\ (Has(r) => Has(r)')
    <3>1. \A r \in Rows : row[r].ver \in Nat /\ copy[r] <= row[r].ver
      BY DEF PullInv, PullTyped, CursorStands
    <3> QED BY <1>2, <1>7, <1>8, <3>1 DEF Has
  <2> QED BY <1>2, <2>1 DEF PullInv, CursorStands
<1>11. WorkStands'
  <2> SUFFICES ASSUME NEW r \in Rows
               PROVE  /\ table = "products" /\ r \in stale' /\ copy'[r] = row[r].ver => r \in behind'
                      /\ took[r] # 0 => outbox[r] = "queued" /\ (table = "people" => r \in stale')
    BY <1>2 DEF WorkStands
  <2>1. /\ table = "products" /\ r \in stale /\ copy[r] = row[r].ver => r \in behind
        /\ took[r] # 0 => outbox[r] = "queued" /\ (table = "people" => r \in stale)
    BY DEF PullInv, WorkStands
  <2>2. took[r] # 0 => outbox[r] = "queued" /\ (table = "people" => r \in stale')
    BY <1>8, <2>1
  <2>3. CASE r \in page
    BY <1>3, <2>2, <2>3
  <2>4. CASE r \notin page
    BY <1>3, <1>7, <2>1, <2>2, <2>4
  <2> QED BY <2>3, <2>4
<1>12. ASSUME NEW r \in Rows, Passed(r)'
       PROVE  \/ row[r].at >= round.began - Ceiling
              \/ copy'[r] = row[r].ver /\ (table = "people" => r \notin stale' \/ HeldBack(r)')
  <2>1. CASE r \in Past(round.since, round.after)
    <3>1. r \in Nat /\ row[r].at \in Nat
      BY PullAssumption DEF Rows, PullInv, PullTyped
    <3>2. ~ (row[r].at > row[last].at \/ (row[r].at = row[last].at /\ r > last))
      BY <1>2, <1>4, <1>6, <1>12 DEF Passed, Past
    <3>3. r = last \/ Before(r, last)
      BY <1>4, <3>1, <3>2 DEF Before
    <3>4. r \in page
      BY <1>1, <2>1, <3>3, PageUpTo DEF PullInv, page
    <3>5. table = "people" => r \notin stale' \/ HeldBack(r)'
      BY <1>2, <1>5, <1>6, <1>8, <3>4 DEF HeldBack
    <3> QED BY <1>7, <3>4, <3>5
  <2>2. CASE r \notin Past(round.since, round.after)
    <3>1. \/ row[r].at >= round.began - Ceiling
          \/ copy[r] = row[r].ver /\ (table = "people" => r \notin stale \/ HeldBack(r))
      BY <1>2, <2>2 DEF PullInv, RoundStands, Passed
    <3>2. copy[r] = row[r].ver => copy'[r] = row[r].ver
      BY <1>7
    <3>3. table = "people" /\ HeldBack(r) => HeldBack(r)'
      <4>1. row[r].at \in Nat /\ round.floor \in Nat \cup {None}
        BY <1>2 DEF PullInv, PullTyped, Round
      <4> QED BY <1>2, <1>5, <1>6, <4>1 DEF HeldBack
    <3> QED BY <1>8, <3>1, <3>2, <3>3
  <2> QED BY <2>1, <2>2
<1>13. row[last].at <= second /\ row[last].at <= round.began + MaxRound
  BY <1>2, <1>4
<1>14. RoundStands'
  BY <1>2, <1>6, <1>12, <1>13 DEF PullInv, RoundStands
<1> QED BY <1>9, <1>10, <1>11, <1>14 DEF PullInv

\* At the end of a round everything is passed, and the cursor stops at its floor.
LEMMA EndRoundKeeps ==
  ASSUME PullInv, MaxRound + Ceiling < Rewind, EndRound
  PROVE  PullInv'
<1>1. /\ round \in Round /\ round # None /\ UNCHANGED <<second, row, writer, copy, tillVars>>
      /\ cursor' = (IF round.last = None THEN cursor ELSE Stops) /\ round' = None
  BY DEF EndRound, PullInv, PullTyped
<1>2. Past(round.since, round.after) = {}
  BY PageNotEmpty DEF EndRound, PullInv
<1>3. \A r \in Rows :
         \/ row[r].at >= round.began - Ceiling
         \/ copy[r] = row[r].ver /\ (table = "people" => r \notin stale \/ HeldBack(r))
  BY <1>1, <1>2 DEF PullInv, RoundStands, Passed
<1>4. round.last # None =>
         /\ Stops \in Nat /\ Stops <= second /\ Stops <= round.began + MaxRound
         /\ round.floor # None => Stops <= round.floor
  <2>1. round.last \in Nat \cup {None} /\ round.floor \in Nat \cup {None}
        /\ round.began \in Nat /\ second \in Nat /\ MaxRound \in Nat
    BY <1>1, PullAssumption DEF PullInv, PullTyped, Round
  <2>2. round.last # None => round.last <= second /\ round.last <= round.began + MaxRound
    BY <1>1 DEF PullInv, RoundStands
  <2> QED BY <2>1, <2>2 DEF Stops
<1>5. PullTyped' /\ StampsTrue' /\ RoundStands' /\ WorkStands'
  BY <1>1, <1>4 DEF tillVars, PullInv, PullTyped, StampsTrue, RoundStands, WorkStands
<1>6. CursorStands'
  <2>1. CASE round.last = None
    BY <1>1, <2>1 DEF tillVars, PullInv, CursorStands, Has
  <2>2. CASE round.last # None
    <3>1. /\ Stops \in Nat /\ round.began \in Nat /\ {MaxRound, Ceiling, Rewind} \subseteq Nat
      BY <1>1, <1>4, <2>2, PullAssumption DEF Round
    <3>2. ASSUME NEW r \in Rows, row[r].at <= Stops - Rewind PROVE Has(r)
      <4>1. row[r].at \in Nat /\ round.floor \in Nat \cup {None}
        BY <1>1 DEF PullInv, PullTyped, Round
      <4>2. ~ row[r].at >= round.began - Ceiling
        BY <1>4, <2>2, <3>1, <3>2, <4>1
      <4>3. ~ HeldBack(r)
        BY <1>4, <2>2, <3>1, <3>2, <4>1 DEF HeldBack
      <4> QED BY <1>3, <4>2, <4>3 DEF Has
    <3>3. /\ cursor' = Stops /\ cursor' # None
      BY <1>1, <2>2, <3>1, RateLimitAssumption
    <3> QED BY <1>1, <1>4, <2>2, <3>2, <3>3 DEF tillVars, PullInv, CursorStands, Has
  <2> QED BY <2>1, <2>2
<1> QED BY <1>5, <1>6 DEF PullInv

LEMMA InitPull == PullInit => PullInv
BY PullAssumption, RateLimitAssumption
   DEF PullInit, PullInv, PullTyped, StampsTrue, CursorStands, WorkStands, RoundStands, Rows

LEMMA PullStep == MaxRound + Ceiling < Rewind => (PullInv /\ [PullNext]_pullVars => PullInv')
<1> SUFFICES ASSUME MaxRound + Ceiling < Rewind, PullInv, [PullNext]_pullVars PROVE PullInv'
  OBVIOUS
<1>1. CASE UNCHANGED pullVars
  <2>1. writer' \in [Writers -> Writing \cup {None}] /\ StampsTrue'
        /\ UNCHANGED <<second, row, copy, cursor, round, tillVars>>
    BY <1>1 DEF pullVars, PullInv, PullTyped, StampsTrue
  <2> QED BY <2>1, WritersKeep
<1>2. ASSUME NEW w \in Writers, NEW import \in BOOLEAN, BeginTx(w, import) PROVE PullInv'
  <2>1. {} \in SUBSET Rows /\ Begin(w, import, {})
    BY <1>2 DEF BeginTx
  <2> QED BY <2>1, BeginKeeps
<1>3. ASSUME NEW w \in Writers, NEW r \in Rows, BeginPush(w, r) PROVE PullInv'
  <2>1. {r} \in SUBSET Rows /\ FALSE \in BOOLEAN /\ Begin(w, FALSE, {r})
    BY <1>3 DEF BeginPush
  <2> QED BY <2>1, BeginKeeps
<1>4. ASSUME NEW w \in Writers, NEW r \in Rows, NEW at \in 0 .. LastSecond, Write(w, r, at) PROVE PullInv'
  BY <1>4, WriteKeeps
<1>5. ASSUME NEW w \in Writers, Restamp(w) PROVE PullInv'
  BY <1>5, RestampKeeps
<1>6. ASSUME NEW w \in Writers, Commit(w) PROVE PullInv'
  BY <1>6, CommitKeeps
<1>7. ASSUME NEW w \in Writers, Rollback(w) PROVE PullInv'
  BY <1>7, RollbackKeeps
<1>8. ASSUME NEW r \in Rows, QueueOp(r) PROVE PullInv'
  BY <1>8, StatusKeeps DEF QueueOp
<1>9. ASSUME NEW r \in Rows, Reject(r) PROVE PullInv'
  BY <1>9, StatusKeeps DEF Reject
<1>10. ASSUME NEW r \in Rows, Resend(r) PROVE PullInv'
  BY <1>10, StatusKeeps DEF Resend
<1>11. ASSUME NEW r \in Rows, Discard(r) PROVE PullInv'
  BY <1>11, StatusKeeps DEF Discard
<1>12. ASSUME NEW r \in Rows, NEW patched \in BOOLEAN, Applied(r, patched) PROVE PullInv'
  BY <1>12, AppliedKeeps
<1>13. ASSUME NEW full \in BOOLEAN, StartRound(full) PROVE PullInv'
  BY <1>13, StartKeeps
<1>14. CASE Tick
  BY <1>14, TickKeeps
<1>15. CASE ReadPage
  BY <1>15, ReadKeeps
<1>16. CASE EndRound
  BY <1>16, EndRoundKeeps
<1>17. CASE RoundFails
  BY <1>17, FailKeeps
<1> QED BY <1>1, <1>2, <1>3, <1>4, <1>5, <1>6, <1>7, <1>8, <1>9, <1>10, <1>11, <1>12, <1>13, <1>14,
           <1>15, <1>16, <1>17 DEF PullNext

\* What the next round will not ask for, the till has as it stands, however late rows commit,
\* however they share or lose stamps, and whatever work of the till's waits, is refused, is
\* dropped or is answered late: of people with their balances, of products but for the
\* stocks that were left alone or overwritten when last served.  It holds provided a round
\* takes less than the rewind less the commit ceiling (tenant-tx.service.ts:
\* assertWithinCommitCeiling; api_products_repository.dart, api_mechanics_repository.dart:
\* syncFromServer).  Nothing in the code bounds a round, and one that takes longer does
\* leave a row behind.
THEOREM NothingIsMissed == MaxRound + Ceiling < Rewind => (OfficeSpec => []NothingMissed)
<1> SUFFICES ASSUME MaxRound + Ceiling < Rewind PROVE OfficeSpec => []NothingMissed
  OBVIOUS
<1>1. OfficeInit => PullInv
  BY InitPull DEF OfficeInit
<1>2. PullInv /\ [OfficeNext]_officeVars => PullInv'
  BY OneStep, PullStep
<1>3. PullInv => NothingMissed
  <2>1. ASSUME PullInv, NEW r \in Rows, Has(r) PROVE UpToDate(r)
    BY <2>1 DEF PullInv, PullTyped, WorkStands, Has, UpToDate
  <2> QED BY <2>1 DEF PullInv, CursorStands, NothingMissed
<1> QED BY <1>1, <1>2, <1>3, PTL DEF OfficeSpec

-----------------------------------------------------------------------------
(* Image files: what is wanted is there, and what is to be removed nobody  *)
(* wants, unless the two overlap.                                          *)

UploadRow == PictureUpload \cup PhotoUpload
PhotoRow == [sale : Bills, key : Pictures]
CleanupRow == [file : Files, fresh : BOOLEAN, step : {"asked", "doomed"}, raced : BOOLEAN]
JobRow == [startedAt : Nat, left : SUBSET Pictures, keys : SUBSET Pictures, committed : BOOLEAN]

ImagesTyped ==
    /\ tick \in Nat /\ file \in [Files -> Nat \cup {None}] /\ raced \subseteq Files
    /\ imageOf \in [Catalogue -> Pictures \cup {None}] /\ listed \subseteq Catalogue
    /\ photo \in [PhotoIds -> PhotoRow \cup {None}]
    /\ upload \in [Uploads -> UploadRow \cup {None}]
    /\ cleanups \subseteq CleanupRow /\ job \in JobRow \cup {None}

\* Each upload waits in the slot once, until it is decoded.
QueueTrue ==
    /\ slotQueue \in Seq(Uploads)
    /\ \A i \in 1 .. Len(slotQueue) :
          upload[slotQueue[i]] # None /\ upload[slotQueue[i]].step = "slot"
    /\ \A i, j \in 1 .. Len(slotQueue) : slotQueue[i] = slotQueue[j] => i = j

\* A file that a row names, or that an upload or an import is about to name, is there; a
\* removal that was decided, and that nothing has overlapped, is of a file nobody wants.
Wanted(f) == IsReferenced(f) \/ InFlight(f)
WantedThere == \A f \in Files : Wanted(f) => file[f] # None \/ f \in raced
DoomedUnwanted == \A c \in cleanups : c.step = "doomed" /\ ~ c.raced => ~ Wanted(c.file)

\* Of the uploads to one bill, one has counted its photos, and there is room for it.
Counted(u) == upload[u] # None /\ upload[u].step = "counted"
BillsHold ==
    /\ \A s \in Bills : IsFiniteSet(PhotosOf(s)) /\ Cardinality(PhotosOf(s)) <= MaxPhotos
    /\ \A u \in Uploads : Counted(u) => Cardinality(PhotosOf(upload[u].target[1])) < MaxPhotos
    /\ \A u, v \in Uploads : Counted(u) /\ Counted(v) /\ u # v => upload[u].target[1] # upload[v].target[1]

ImagesInv == ImagesTyped /\ QueueTrue /\ WantedThere /\ DoomedUnwanted /\ BillsHold

LEMMA ReferencesStay ==
  ASSUME UNCHANGED <<imageOf, photo>>
  PROVE  \A f \in Files : IsReferenced(f)' <=> IsReferenced(f)
BY DEF IsReferenced

\* Uploads move on to another name, or leave.
LEMMA FlightShrinks ==
  ASSUME UNCHANGED job,
         \A u \in Uploads : upload'[u] # None /\ upload'[u].step \in {"written", "counted"} =>
            /\ upload[u] # None /\ upload[u].step \in {"written", "counted"}
            /\ upload'[u].store = upload[u].store /\ upload'[u].key = upload[u].key
  PROVE  \A f \in Files : InFlight(f)' => InFlight(f)
BY DEF InFlight

\* Files stay, and nothing is wanted that was not.
LEMMA WantedKeeps ==
  ASSUME ImagesInv, UNCHANGED <<file, raced>>, \A f \in Files : Wanted(f)' => Wanted(f),
         cleanups' \subseteq CleanupRow,
         \A c \in cleanups' : c \in cleanups \/ c.step = "asked" \/ c.raced \/ ~ Wanted(c.file)
  PROVE  WantedThere' /\ DoomedUnwanted'
<1>1. WantedThere'
  BY DEF ImagesInv, WantedThere
<1>2. DoomedUnwanted'
  <2> SUFFICES ASSUME NEW c \in cleanups', c.step = "doomed", ~ c.raced PROVE ~ Wanted(c.file)'
    BY DEF DoomedUnwanted
  <2>1. c.file \in Files
    BY DEF CleanupRow
  <2>2. ~ Wanted(c.file)
    BY DEF ImagesInv, DoomedUnwanted
  <2> QED BY <2>1, <2>2
<1> QED BY <1>1, <1>2

\* A file is written: it is there, and every removal of it knows.
LEMMA WrittenKeeps ==
  ASSUME ImagesInv, NEW f \in Files, WriteImageFiles(f),
         \A g \in Files \ {f} : Wanted(g)' => Wanted(g)
  PROVE  /\ WantedThere' /\ DoomedUnwanted' /\ cleanups' \subseteq CleanupRow
         /\ file' \in [Files -> Nat \cup {None}] /\ raced' \subseteq Files
<1>1. /\ file' \in [Files -> Nat \cup {None}] /\ file'[f] = tick /\ tick # None
      /\ \A g \in Files \ {f} : file'[g] = file[g]
      /\ raced' = raced \ {f} /\ raced' \subseteq Files
  BY RateLimitAssumption DEF WriteImageFiles, ImagesInv, ImagesTyped
<1>2. WantedThere'
  BY <1>1 DEF ImagesInv, WantedThere
<1>3. \A c \in cleanups : c \in CleanupRow /\ [c EXCEPT !.raced = TRUE] \in CleanupRow /\ [c EXCEPT !.raced = TRUE].raced
  BY DEF ImagesInv, ImagesTyped, CleanupRow
<1>4. \A c \in cleanups' : c \in CleanupRow /\ (c.raced \/ (c \in cleanups /\ c.file # f))
  BY <1>3 DEF WriteImageFiles
<1>5. DoomedUnwanted'
  <2> SUFFICES ASSUME NEW c \in cleanups', c.step = "doomed", ~ c.raced PROVE ~ Wanted(c.file)'
    BY DEF DoomedUnwanted
  <2>1. c \in cleanups /\ c.file # f /\ c.file \in Files
    BY <1>4 DEF CleanupRow
  <2>2. ~ Wanted(c.file)
    BY <2>1 DEF ImagesInv, DoomedUnwanted
  <2> QED BY <2>1, <2>2
<1> QED BY <1>1, <1>2, <1>4, <1>5

\* No photo is added.
LEMMA BillsKeep ==
  ASSUME ImagesInv, UNCHANGED photo,
         \A u \in Uploads : Counted(u)' => Counted(u) /\ upload'[u].target = upload[u].target
  PROVE  BillsHold'
<1>1. \A s : PhotosOf(s)' = PhotosOf(s)
  BY DEF PhotosOf
<1>2. (\A s \in Bills : IsFiniteSet(PhotosOf(s)) /\ Cardinality(PhotosOf(s)) <= MaxPhotos)'
  BY <1>1 DEF ImagesInv, BillsHold
<1>3. (\A u \in Uploads : Counted(u) => Cardinality(PhotosOf(upload[u].target[1])) < MaxPhotos)'
  <2> SUFFICES ASSUME NEW u \in Uploads, Counted(u)'
               PROVE  (Cardinality(PhotosOf(upload[u].target[1])) < MaxPhotos)'
    OBVIOUS
  <2>1. Counted(u) /\ upload'[u].target = upload[u].target
    OBVIOUS
  <2>2. Cardinality(PhotosOf(upload[u].target[1])) < MaxPhotos
    BY <2>1 DEF ImagesInv, BillsHold
  <2> QED BY <2>1, <2>2 DEF PhotosOf
<1>4. \A u, v \in Uploads : Counted(u)' /\ Counted(v)' /\ u # v => upload'[u].target[1] # upload'[v].target[1]
  BY DEF ImagesInv, BillsHold
<1> QED BY <1>2, <1>3, <1>4 DEF BillsHold

LEMMA QueueKeeps ==
  ASSUME ImagesInv, UNCHANGED slotQueue,
         \A u \in Uploads : upload[u] # None /\ upload[u].step = "slot" => upload'[u] = upload[u]
  PROVE  QueueTrue'
BY DEF ImagesInv, QueueTrue

\* A step that changes an upload's row, and no row of the shop, and writes no file.
LEMMA UploadKeeps ==
  ASSUME ImagesInv, UNCHANGED <<file, imageOf, photo, raced>>, tick' \in Nat, listed' \subseteq Catalogue,
         upload' \in [Uploads -> UploadRow \cup {None}], job' \in JobRow \cup {None}, QueueTrue', BillsHold',
         \A f \in Files : InFlight(f)' => InFlight(f),
         cleanups' \subseteq CleanupRow,
         \A c \in cleanups' : c \in cleanups \/ c.step = "asked" \/ c.raced \/ ~ Wanted(c.file)
  PROVE  ImagesInv'
<1>1. ImagesTyped'
  BY DEF ImagesInv, ImagesTyped
<1>2. \A f \in Files : Wanted(f)' => Wanted(f)
  BY ReferencesStay DEF Wanted
<1>3. WantedThere' /\ DoomedUnwanted'
  BY <1>2, WantedKeeps
<1> QED BY <1>1, <1>3 DEF ImagesInv

LEMMA CleanupIs ==
  ASSUME NEW f \in Files, NEW fresh \in BOOLEAN
  PROVE  Cleanup(f, fresh) \in CleanupRow /\ Cleanup(f, fresh).step = "asked" /\ Cleanup(f, fresh).file = f
BY DEF Cleanup, CleanupRow

\* What is known of an upload by its store.
LEMMA UploadIs ==
  ASSUME ImagesInv, NEW u \in Uploads, upload[u] # None
  PROVE  /\ upload[u] \in UploadRow /\ upload[u].key \in Pictures /\ upload[u].store \in Stores
         /\ <<upload[u].store, upload[u].key>> \in Files
         /\ upload[u].step \in {"slot", "written", "counted"} /\ upload[u].created \in BOOLEAN
         /\ upload[u].store = "product-images" => upload[u].target \in Catalogue
         /\ upload[u].store = "sale-photos" => upload[u].target \in Bills \X PhotoIds
         /\ upload[u].step = "counted" => upload[u].store = "sale-photos"
<1>1. upload[u] \in PictureUpload \/ upload[u] \in PhotoUpload
  BY DEF ImagesInv, ImagesTyped, UploadRow
<1>2. CASE upload[u] \in PictureUpload
  BY <1>1, <1>2 DEF PictureUpload, UploadRow, Files, Stores
<1>3. CASE upload[u] \in PhotoUpload
  BY <1>1, <1>3 DEF PhotoUpload, UploadRow, Files, Stores
<1> QED BY <1>1, <1>2, <1>3

\* An upload that has written its file leaves, whether its row was stored or not.
LEMMA LeaveUpload ==
  ASSUME ImagesInv, NEW u \in Uploads, upload[u] # None, upload[u].step # "slot",
         upload' = [upload EXCEPT ![u] = None], UNCHANGED <<slotQueue, job>>
  PROVE  /\ upload' \in [Uploads -> UploadRow \cup {None}] /\ upload'[u] = None
         /\ \A v \in Uploads \ {u} : upload'[v] = upload[v]
         /\ QueueTrue' /\ \A f \in Files : InFlight(f)' => InFlight(f)
<1>1. /\ upload' \in [Uploads -> UploadRow \cup {None}] /\ upload'[u] = None
      /\ \A v \in Uploads \ {u} : upload'[v] = upload[v]
  BY DEF ImagesInv, ImagesTyped
<1>2. QueueTrue'
  BY <1>1, QueueKeeps
<1>3. \A f \in Files : InFlight(f)' => InFlight(f)
  BY <1>1, FlightShrinks
<1> QED BY <1>1, <1>2, <1>3

LEMMA BeginUploadKeeps ==
  ASSUME ImagesInv, NEW u \in Uploads, NEW store \in Stores, NEW key \in Pictures,
         NEW target \in Targets(store), BeginUpload(u, store, target, key)
  PROVE  ImagesInv'
<1> DEFINE new == [store |-> store, target |-> target, key |-> key, step |-> "slot", created |-> FALSE]
<1>1. /\ upload[u] = None /\ upload' = [upload EXCEPT ![u] = new] /\ slotQueue' = Append(slotQueue, u)
      /\ UNCHANGED <<tick, file, imageOf, listed, photo, cleanups, job, raced>>
  BY DEF BeginUpload, rowVars
<1>2. new \in UploadRow /\ new.step = "slot"
  <2>1. CASE store = "product-images"
    BY <2>1 DEF Targets, UploadRow, PictureUpload
  <2>2. CASE store = "sale-photos"
    BY <2>2 DEF Targets, UploadRow, PhotoUpload
  <2> QED BY <2>1, <2>2 DEF Stores
<1>3. new # None
  BY <1>2, ImagesAssumption DEF UploadRow
<1> HIDE DEF new
<1>4. /\ upload' \in [Uploads -> UploadRow \cup {None}] /\ upload'[u] = new
      /\ \A v \in Uploads \ {u} : upload'[v] = upload[v]
  BY <1>1, <1>2 DEF ImagesInv, ImagesTyped
<1>5. QueueTrue'
  <2>1. /\ slotQueue \in Seq(Uploads) /\ Len(slotQueue) \in Nat
        /\ \A i \in 1 .. Len(slotQueue) : slotQueue[i] \in Uploads \ {u}
    BY <1>1 DEF ImagesInv, QueueTrue
  <2>2. /\ slotQueue' \in Seq(Uploads) /\ Len(slotQueue') = Len(slotQueue) + 1
        /\ slotQueue'[Len(slotQueue) + 1] = u
        /\ \A i \in 1 .. Len(slotQueue) : slotQueue'[i] = slotQueue[i]
    BY <1>1, <2>1
  <2>3. \A i \in 1 .. Len(slotQueue') : i \in 1 .. Len(slotQueue) \/ i = Len(slotQueue) + 1
    BY <2>1, <2>2
  <2>4. ASSUME NEW i \in 1 .. Len(slotQueue')
        PROVE  upload'[slotQueue'[i]] # None /\ upload'[slotQueue'[i]].step = "slot"
    <3>1. CASE i = Len(slotQueue) + 1
      BY <1>2, <1>3, <1>4, <2>2, <3>1
    <3>2. CASE i \in 1 .. Len(slotQueue)
      <4>1. upload'[slotQueue'[i]] = upload[slotQueue[i]]
        BY <1>4, <2>1, <2>2, <3>2
      <4>2. upload[slotQueue[i]] # None /\ upload[slotQueue[i]].step = "slot"
        BY <3>2 DEF ImagesInv, QueueTrue
      <4> QED BY <4>1, <4>2
    <3> QED BY <2>3, <3>1, <3>2
  <2>5. ASSUME NEW i \in 1 .. Len(slotQueue'), NEW j \in 1 .. Len(slotQueue'),
               slotQueue'[i] = slotQueue'[j]
        PROVE  i = j
    <3>1. CASE i \in 1 .. Len(slotQueue) /\ j \in 1 .. Len(slotQueue)
      <4>1. slotQueue[i] = slotQueue[j]
        BY <2>2, <2>5, <3>1
      <4> QED BY <3>1, <4>1 DEF ImagesInv, QueueTrue
    <3>2. CASE i = Len(slotQueue) + 1 /\ j \in 1 .. Len(slotQueue)
      BY <2>1, <2>2, <2>5, <3>2
    <3>3. CASE i \in 1 .. Len(slotQueue) /\ j = Len(slotQueue) + 1
      BY <2>1, <2>2, <2>5, <3>3
    <3> QED BY <2>3, <3>1, <3>2, <3>3
  <2> QED BY <2>2, <2>4, <2>5 DEF QueueTrue
<1>6. \A f \in Files : InFlight(f)' => InFlight(f)
  BY <1>1, <1>2, <1>4, FlightShrinks
<1>7. BillsHold'
  BY <1>1, <1>2, <1>4, BillsKeep DEF Counted
<1> QED BY <1>1, <1>4, <1>5, <1>6, <1>7, UploadKeeps DEF ImagesInv, ImagesTyped

\* The head of the queue leaves the slot.
LEMMA SlotFrees ==
  ASSUME ImagesInv, NEW u \in Uploads, NEW to \in UploadRow \cup {None}, slotQueue # <<>>,
         Head(slotQueue) = u, slotQueue' = Tail(slotQueue), upload' = [upload EXCEPT ![u] = to]
  PROVE  /\ upload' \in [Uploads -> UploadRow \cup {None}] /\ upload'[u] = to
         /\ \A v \in Uploads \ {u} : upload'[v] = upload[v]
         /\ QueueTrue' /\ upload[u] # None /\ upload[u].step = "slot"
<1>1. /\ upload' \in [Uploads -> UploadRow \cup {None}] /\ upload'[u] = to
      /\ \A v \in Uploads \ {u} : upload'[v] = upload[v]
  BY DEF ImagesInv, ImagesTyped
<1>2. slotQueue \in Seq(Uploads) /\ Len(slotQueue) \in Nat /\ Len(slotQueue) > 0 /\ slotQueue[1] = u
  BY DEF ImagesInv, QueueTrue
<1>3. upload[u] # None /\ upload[u].step = "slot"
  BY <1>2 DEF ImagesInv, QueueTrue
<1>4. /\ slotQueue' \in Seq(Uploads) /\ Len(slotQueue') = Len(slotQueue) - 1
      /\ \A i \in 1 .. Len(slotQueue') : slotQueue'[i] = slotQueue[i + 1]
  BY <1>2
<1>5. \A i \in 1 .. Len(slotQueue') :
         i \in Nat /\ i + 1 \in 1 .. Len(slotQueue) /\ slotQueue[i + 1] \in Uploads \ {u}
  <2>1. \A i \in 1 .. Len(slotQueue') : i \in Nat /\ i + 1 \in 1 .. Len(slotQueue) /\ i + 1 # 1
    BY <1>2, <1>4
  <2>2. \A j \in 1 .. Len(slotQueue) : slotQueue[j] \in Uploads /\ (slotQueue[j] = u => j = 1)
    BY <1>2 DEF ImagesInv, QueueTrue
  <2> QED BY <2>1, <2>2
<1>6. \A i \in 1 .. Len(slotQueue') :
         upload'[slotQueue'[i]] # None /\ upload'[slotQueue'[i]].step = "slot"
  <2> TAKE i \in 1 .. Len(slotQueue')
  <2>1. slotQueue'[i] = slotQueue[i + 1] /\ slotQueue[i + 1] \in Uploads \ {u}
    BY <1>4, <1>5
  <2>2. upload'[slotQueue'[i]] = upload[slotQueue[i + 1]]
    BY <1>1, <2>1
  <2>3. upload[slotQueue[i + 1]] # None /\ upload[slotQueue[i + 1]].step = "slot"
    BY <1>5 DEF ImagesInv, QueueTrue
  <2> QED BY <2>2, <2>3
<1>7. ASSUME NEW i \in 1 .. Len(slotQueue'), NEW j \in 1 .. Len(slotQueue'),
             slotQueue'[i] = slotQueue'[j]
      PROVE  i = j
  <2>1. slotQueue[i + 1] = slotQueue[j + 1]
    BY <1>4, <1>7
  <2>2. i + 1 \in 1 .. Len(slotQueue) /\ j + 1 \in 1 .. Len(slotQueue) /\ i \in Nat /\ j \in Nat
    BY <1>5
  <2>3. i + 1 = j + 1
    BY <2>1, <2>2 DEF ImagesInv, QueueTrue
  <2> QED BY <2>2, <2>3
<1>8. QueueTrue'
  BY <1>4, <1>6, <1>7 DEF QueueTrue
<1> QED BY <1>1, <1>3, <1>8

LEMMA NotAnImageKeeps ==
  ASSUME ImagesInv, NEW u \in Uploads, NotAnImage(u)
  PROVE  ImagesInv'
<1>1. /\ upload' \in [Uploads -> UploadRow \cup {None}] /\ upload'[u] = None
      /\ \A v \in Uploads \ {u} : upload'[v] = upload[v]
      /\ QueueTrue'
  BY SlotFrees DEF NotAnImage
<1>2. UNCHANGED <<tick, file, imageOf, listed, photo, cleanups, job, raced>>
  BY DEF NotAnImage, rowVars
<1>3. BillsHold'
  BY <1>1, <1>2, BillsKeep DEF Counted
<1>4. \A f \in Files : InFlight(f)' => InFlight(f)
  BY <1>1, <1>2, FlightShrinks
<1> QED BY <1>1, <1>2, <1>3, <1>4, UploadKeeps DEF ImagesInv, ImagesTyped

LEMMA PrepareKeeps ==
  ASSUME ImagesInv, NEW u \in Uploads, Prepare(u)
  PROVE  ImagesInv'
<1> DEFINE f == <<upload[u].store, upload[u].key>>
<1>1. upload[u] # None /\ upload[u].step = "slot"
  <2>1. slotQueue \in Seq(Uploads) /\ slotQueue # <<>> /\ slotQueue[1] = u /\ Len(slotQueue) > 0
    BY DEF Prepare, ImagesInv, QueueTrue
  <2> QED BY <2>1 DEF ImagesInv, QueueTrue
<1>2. PICK at : at = file[f]
  OBVIOUS
<1> DEFINE new == [upload[u] EXCEPT !.step = "written", !.created = (at = None)]
<1>3. /\ new \in UploadRow /\ new.step = "written" /\ new.store = upload[u].store /\ new.key = upload[u].key
  <2>1. (at = None) \in BOOLEAN
    OBVIOUS
  <2>2. CASE upload[u] \in PictureUpload
    BY <2>1, <2>2 DEF PictureUpload, UploadRow
  <2>3. CASE upload[u] \in PhotoUpload
    BY <2>1, <2>3 DEF PhotoUpload, UploadRow
  <2> QED BY <1>1, <2>2, <2>3, UploadIs DEF UploadRow
<1>4. /\ slotQueue # <<>> /\ Head(slotQueue) = u /\ slotQueue' = Tail(slotQueue)
      /\ WriteImageFiles(f) /\ upload' = [upload EXCEPT ![u] = new]
      /\ UNCHANGED <<tick, imageOf, listed, photo, job>>
  BY <1>2, Zenon DEF Prepare, rowVars
<1> HIDE DEF new
<1>5. /\ upload' \in [Uploads -> UploadRow \cup {None}] /\ upload'[u] = new
      /\ \A v \in Uploads \ {u} : upload'[v] = upload[v]
      /\ QueueTrue'
  BY <1>3, <1>4, SlotFrees
<1>6. BillsHold'
  BY <1>3, <1>4, <1>5, BillsKeep DEF Counted
<1>7. \A g \in Files \ {f} : Wanted(g)' => Wanted(g)
  <2>1. \A g \in Files \ {f} : InFlight(g)' => InFlight(g)
    BY <1>3, <1>4, <1>5 DEF InFlight
  <2> QED BY <1>4, <2>1, ReferencesStay DEF Wanted
<1>8. f \in Files
  BY <1>1, UploadIs
<1>9. /\ WantedThere' /\ DoomedUnwanted' /\ cleanups' \subseteq CleanupRow
      /\ file' \in [Files -> Nat \cup {None}] /\ raced' \subseteq Files
  <2> HIDE DEF f
  <2> QED BY <1>4, <1>7, <1>8, WrittenKeeps
<1>10. ImagesTyped'
  BY <1>4, <1>5, <1>9 DEF ImagesInv, ImagesTyped
<1> QED BY <1>5, <1>6, <1>9, <1>10 DEF ImagesInv


LEMMA SettleIs ==
  ASSUME ImagesInv, NEW u \in Uploads, upload[u] # None, NEW previous, previous \subseteq Pictures,
         Settle(u, previous)
  PROVE  /\ upload' = [upload EXCEPT ![u] = None] /\ cleanups' \subseteq CleanupRow
         /\ \A c \in cleanups' : c \in cleanups \/ c.step = "asked"
<1>1. upload[u].store \in Stores /\ upload[u].key \in Pictures /\ upload[u].created \in BOOLEAN
  BY UploadIs
<1>2. \A k \in Pictures : <<upload[u].store, k>> \in Files
  BY <1>1 DEF Files
<1>3. \A k \in Pictures, fresh \in BOOLEAN :
         /\ Cleanup(<<upload[u].store, k>>, fresh) \in CleanupRow
         /\ Cleanup(<<upload[u].store, k>>, fresh).step = "asked"
  BY <1>2, CleanupIs
<1>4. cleanups \subseteq CleanupRow
  BY DEF ImagesInv, ImagesTyped
<1> QED BY <1>1, <1>3, <1>4 DEF Settle

\* A product's picture, or a bill's photo, is one whose file an upload holds.
LEMMA SetImageKeeps ==
  ASSUME ImagesInv, NEW u \in Uploads, SetImage(u)
  PROVE  ImagesInv'
<1>1. PICK p \in Catalogue, key \in Pictures :
         /\ p = upload[u].target /\ key = upload[u].key /\ upload[u] # None
         /\ upload[u].step = "written" /\ upload[u].store = "product-images"
  BY UploadIs DEF SetImage
<1>2. /\ imageOf' = [imageOf EXCEPT ![p] = key] /\ Settle(u, Previous(p, key))
      /\ UNCHANGED <<tick, file, listed, photo, slotQueue, job, raced>>
  BY <1>1 DEF SetImage
<1>3. Previous(p, key) \subseteq Pictures
  BY DEF Previous, ImagesInv, ImagesTyped
<1>4. /\ upload' = [upload EXCEPT ![u] = None] /\ cleanups' \subseteq CleanupRow
      /\ \A c \in cleanups' : c \in cleanups \/ c.step = "asked"
  BY <1>1, <1>2, <1>3, SettleIs
<1>5. /\ upload' \in [Uploads -> UploadRow \cup {None}] /\ upload'[u] = None
      /\ \A v \in Uploads \ {u} : upload'[v] = upload[v]
      /\ QueueTrue' /\ \A f \in Files : InFlight(f)' => InFlight(f)
  BY <1>1, <1>2, <1>4, LeaveUpload
<1>6. /\ imageOf' \in [Catalogue -> Pictures \cup {None}] /\ imageOf'[p] = key
      /\ \A q \in Catalogue \ {p} : imageOf'[q] = imageOf[q]
  BY <1>2 DEF ImagesInv, ImagesTyped
<1>7. \A f \in Files : IsReferenced(f)' => IsReferenced(f) \/ InFlight(f)
  <2> SUFFICES ASSUME NEW f \in Files, IsReferenced(f)', ~ IsReferenced(f) PROVE InFlight(f)
    OBVIOUS
  <2>1. f[1] = "product-images" /\ f[2] = key
    BY <1>2, <1>6 DEF IsReferenced
  <2>2. f = <<upload[u].store, upload[u].key>>
    BY <1>1, <2>1 DEF Files
  <2> QED BY <1>1, <2>2 DEF InFlight
<1>8. WantedThere' /\ DoomedUnwanted'
  BY <1>2, <1>4, <1>5, <1>7, WantedKeeps DEF Wanted
<1>9. BillsHold'
  BY <1>2, <1>5, BillsKeep DEF Counted
<1>10. ImagesTyped'
  BY <1>2, <1>4, <1>5, <1>6 DEF ImagesInv, ImagesTyped
<1> QED BY <1>5, <1>8, <1>9, <1>10 DEF ImagesInv

\* Photos are counted by one upload to a bill at a time.
LEMMA CountKeeps ==
  ASSUME ImagesInv, NEW u \in Uploads, CountPhotos(u)
  PROVE  ImagesInv'
<1> DEFINE new == [upload[u] EXCEPT !.step = "counted"]
<1>1. /\ upload[u] # None /\ upload[u].step = "written" /\ upload[u].store = "sale-photos"
      /\ BillFree(upload[u].target[1]) /\ Cardinality(PhotosOf(upload[u].target[1])) < MaxPhotos
      /\ upload' = [upload EXCEPT ![u] = new]
      /\ UNCHANGED <<tick, file, imageOf, listed, photo, slotQueue, cleanups, job, raced>>
  BY DEF CountPhotos, rowVars
<1>2. upload[u] \in PhotoUpload
  BY <1>1, UploadIs DEF UploadRow, PictureUpload
<1>3. /\ new \in UploadRow /\ new.step = "counted" /\ new.store = upload[u].store
      /\ new.key = upload[u].key /\ new.target = upload[u].target
  BY <1>2 DEF UploadRow, PhotoUpload
<1> HIDE DEF new
<1>4. /\ upload' \in [Uploads -> UploadRow \cup {None}] /\ upload'[u] = new
      /\ \A v \in Uploads \ {u} : upload'[v] = upload[v]
  BY <1>1, <1>3 DEF ImagesInv, ImagesTyped
<1>5. QueueTrue'
  BY <1>1, <1>4, QueueKeeps
<1>6. \A f \in Files : InFlight(f)' => InFlight(f)
  BY <1>1, <1>3, <1>4, FlightShrinks
<1>7. BillsHold'
  <2>1. \A s : PhotosOf(s)' = PhotosOf(s)
    BY <1>1 DEF PhotosOf
  <2>2. (\A s \in Bills : IsFiniteSet(PhotosOf(s)) /\ Cardinality(PhotosOf(s)) <= MaxPhotos)'
    BY <2>1 DEF ImagesInv, BillsHold
  <2>3. (\A v \in Uploads : Counted(v) => Cardinality(PhotosOf(upload[v].target[1])) < MaxPhotos)'
    <3> SUFFICES ASSUME NEW v \in Uploads, Counted(v)'
                 PROVE  (Cardinality(PhotosOf(upload[v].target[1])) < MaxPhotos)'
      OBVIOUS
    <3>1. upload'[v].target = upload[v].target /\ Cardinality(PhotosOf(upload[v].target[1])) < MaxPhotos
      BY <1>1, <1>3, <1>4 DEF ImagesInv, BillsHold, Counted
    <3> QED BY <1>1, <3>1 DEF PhotosOf
  <2>4. \A v \in Uploads \ {u} : Counted(v) => upload[v].target[1] # upload[u].target[1]
    BY <1>1 DEF BillFree, Counted
  <2>5. \A v, x \in Uploads : Counted(v)' /\ Counted(x)' /\ v # x => upload'[v].target[1] # upload'[x].target[1]
    BY <1>3, <1>4, <2>4 DEF ImagesInv, BillsHold, Counted
  <2> QED BY <2>2, <2>3, <2>5 DEF BillsHold
<1> QED BY <1>1, <1>4, <1>5, <1>6, <1>7, UploadKeeps DEF ImagesInv, ImagesTyped

LEMMA AttachKeeps ==
  ASSUME ImagesInv, NEW u \in Uploads, Attach(u)
  PROVE  ImagesInv'
<1>1. PICK s \in Bills, h \in PhotoIds, key \in Pictures :
         /\ s = upload[u].target[1] /\ h = upload[u].target[2] /\ key = upload[u].key /\ upload[u] # None
         /\ upload[u].step = "counted" /\ upload[u].store = "sale-photos"
  BY UploadIs DEF Attach
<1> DEFINE new == [sale |-> s, key |-> key]
<1>2. /\ photo' = [photo EXCEPT ![h] = new] /\ photo[h] = None /\ Settle(u, {})
      /\ UNCHANGED <<tick, file, imageOf, listed, slotQueue, job, raced>>
  BY <1>1 DEF Attach
<1>3. new \in PhotoRow /\ new.sale = s /\ new.key = key
  BY DEF PhotoRow
<1> HIDE DEF new
<1>4. /\ upload' = [upload EXCEPT ![u] = None] /\ cleanups' \subseteq CleanupRow
      /\ \A c \in cleanups' : c \in cleanups \/ c.step = "asked"
  BY <1>1, <1>2, SettleIs
<1>5. /\ upload' \in [Uploads -> UploadRow \cup {None}] /\ upload'[u] = None
      /\ \A v \in Uploads \ {u} : upload'[v] = upload[v]
      /\ QueueTrue' /\ \A f \in Files : InFlight(f)' => InFlight(f)
  BY <1>1, <1>2, <1>4, LeaveUpload
<1>6. /\ photo' \in [PhotoIds -> PhotoRow \cup {None}] /\ photo'[h] = new
      /\ \A x \in PhotoIds \ {h} : photo'[x] = photo[x]
  BY <1>2, <1>3 DEF ImagesInv, ImagesTyped
<1>7. \A f \in Files : IsReferenced(f)' => IsReferenced(f) \/ InFlight(f)
  <2> SUFFICES ASSUME NEW f \in Files, IsReferenced(f)', ~ IsReferenced(f) PROVE InFlight(f)
    OBVIOUS
  <2>1. f[1] = "sale-photos" /\ f[2] = key
    BY <1>2, <1>3, <1>6 DEF IsReferenced, Files, Stores
  <2>2. f = <<upload[u].store, upload[u].key>>
    BY <1>1, <2>1 DEF Files
  <2> QED BY <1>1, <2>2 DEF InFlight
<1>8. WantedThere' /\ DoomedUnwanted'
  BY <1>2, <1>4, <1>5, <1>7, WantedKeeps DEF Wanted
<1>9. BillsHold'
  <2>1. PhotosOf(s)' \subseteq PhotosOf(s) \cup {h} /\ \A t \in Bills \ {s} : PhotosOf(t)' \subseteq PhotosOf(t)
    BY <1>3, <1>6 DEF PhotosOf
  <2>2. \A t \in Bills : /\ IsFiniteSet(PhotosOf(t)) /\ Cardinality(PhotosOf(t)) <= MaxPhotos
                         /\ Cardinality(PhotosOf(t)) \in Nat /\ MaxPhotos \in Nat
    BY FS_CardinalityType, ImagesAssumption DEF ImagesInv, BillsHold
  <2>3. Cardinality(PhotosOf(s)) < MaxPhotos
    BY <1>1 DEF ImagesInv, BillsHold, Counted
  <2>4. \A t \in Bills \ {s} : IsFiniteSet(PhotosOf(t)') /\ Cardinality(PhotosOf(t)') <= Cardinality(PhotosOf(t))
    BY <2>1, <2>2, FS_Subset
  <2>5. IsFiniteSet(PhotosOf(s)') /\ Cardinality(PhotosOf(s)') <= MaxPhotos
    <3>1. /\ IsFiniteSet(PhotosOf(s) \cup {h})
          /\ Cardinality(PhotosOf(s) \cup {h}) <= Cardinality(PhotosOf(s)) + 1
      <4>1. IsFiniteSet(PhotosOf(s)) /\ Cardinality(PhotosOf(s)) \in Nat
        BY <2>2
      <4>2. /\ IsFiniteSet(PhotosOf(s) \cup {h})
            /\ Cardinality(PhotosOf(s) \cup {h}) = IF h \in PhotosOf(s) THEN Cardinality(PhotosOf(s))
                                                   ELSE Cardinality(PhotosOf(s)) + 1
        BY <4>1, FS_AddElement
      <4> QED BY <4>1, <4>2
    <3>2. IsFiniteSet(PhotosOf(s)') /\ Cardinality(PhotosOf(s)') <= Cardinality(PhotosOf(s) \cup {h})
      BY <2>1, <3>1, FS_Subset
    <3>3. Cardinality(PhotosOf(s)') \in Nat /\ Cardinality(PhotosOf(s) \cup {h}) \in Nat
      BY <3>1, <3>2, FS_CardinalityType
    <3> QED BY <2>2, <2>3, <3>1, <3>2, <3>3
  <2>6. \A t \in Bills \ {s} : Cardinality(PhotosOf(t)') \in Nat
    BY <2>4, FS_CardinalityType
  <2>7. (\A t \in Bills : IsFiniteSet(PhotosOf(t)) /\ Cardinality(PhotosOf(t)) <= MaxPhotos)'
    <3> SUFFICES ASSUME NEW t \in Bills
                 PROVE  IsFiniteSet(PhotosOf(t)') /\ Cardinality(PhotosOf(t)') <= MaxPhotos
      OBVIOUS
    <3>1. CASE t = s
      BY <2>5, <3>1
    <3>2. CASE t # s
      BY <2>2, <2>4, <2>6, <3>2
    <3> QED BY <3>1, <3>2
  <2>8. \A v \in Uploads : Counted(v)' => v # u /\ Counted(v) /\ upload'[v] = upload[v]
    BY <1>5 DEF Counted
  <2>9. (\A v \in Uploads : Counted(v) => Cardinality(PhotosOf(upload[v].target[1])) < MaxPhotos)'
    <3> SUFFICES ASSUME NEW v \in Uploads, Counted(v)'
                 PROVE  (Cardinality(PhotosOf(upload[v].target[1])) < MaxPhotos)'
      OBVIOUS
    <3>1. v # u /\ Counted(v) /\ Counted(u) /\ upload'[v] = upload[v]
      BY <1>1, <2>8 DEF Counted
    <3>2. PICK t \in Bills : t = upload[v].target[1]
      BY <3>1, UploadIs DEF Counted
    <3>3. t # s /\ Cardinality(PhotosOf(t)) < MaxPhotos
      BY <1>1, <3>1, <3>2 DEF ImagesInv, BillsHold
    <3>4. Cardinality(PhotosOf(t)') < MaxPhotos
      BY <2>2, <2>4, <2>6, <3>3
    <3> QED BY <3>1, <3>2, <3>4
  <2>10. \A v, x \in Uploads : Counted(v)' /\ Counted(x)' /\ v # x => upload'[v].target[1] # upload'[x].target[1]
    BY <2>8 DEF ImagesInv, BillsHold
  <2> QED BY <2>7, <2>9, <2>10 DEF BillsHold
<1>10. ImagesTyped'
  BY <1>2, <1>4, <1>5, <1>6 DEF ImagesInv, ImagesTyped
<1> QED BY <1>5, <1>8, <1>9, <1>10 DEF ImagesInv

\* A refusal, a replay, or a 503 leaves the rows as they are.
LEMMA LeaveKeepsRows ==
  ASSUME ImagesInv, NEW u \in Uploads, RefusedOrReplayed(u) \/ StillInFlight(u)
  PROVE  ImagesInv'
<1>1. /\ upload[u] # None /\ upload[u].step # "slot"
      /\ UNCHANGED <<tick, file, imageOf, listed, photo, slotQueue, job, raced>>
      /\ Settle(u, {}) \/ (upload' = [upload EXCEPT ![u] = None] /\ UNCHANGED cleanups)
  BY DEF RefusedOrReplayed, StillInFlight, rowVars
<1>2. /\ upload' = [upload EXCEPT ![u] = None] /\ cleanups' \subseteq CleanupRow
      /\ \A c \in cleanups' : c \in cleanups \/ c.step = "asked"
  BY <1>1, SettleIs DEF ImagesInv, ImagesTyped
<1>3. /\ upload' \in [Uploads -> UploadRow \cup {None}] /\ upload'[u] = None
      /\ \A v \in Uploads \ {u} : upload'[v] = upload[v]
      /\ QueueTrue' /\ \A f \in Files : InFlight(f)' => InFlight(f)
  BY <1>1, <1>2, LeaveUpload
<1>4. BillsHold'
  BY <1>1, <1>3, BillsKeep DEF Counted
<1> QED BY <1>1, <1>2, <1>3, <1>4, UploadKeeps DEF ImagesInv, ImagesTyped


LEMMA ClearImageKeeps ==
  ASSUME ImagesInv, NEW p \in Catalogue, ClearImage(p)
  PROVE  ImagesInv'
<1>1. PICK key \in Pictures : key = imageOf[p]
  BY DEF ClearImage, ImagesInv, ImagesTyped
<1>2. /\ cleanups' = cleanups \cup {Cleanup(<<"product-images", key>>, FALSE)}
      /\ imageOf' = [imageOf EXCEPT ![p] = None]
      /\ UNCHANGED <<tick, file, listed, photo, upload, slotQueue, job, raced>>
  BY <1>1 DEF ClearImage
<1>3. /\ imageOf' \in [Catalogue -> Pictures \cup {None}] /\ imageOf'[p] = None
      /\ \A q \in Catalogue \ {p} : imageOf'[q] = imageOf[q]
  BY <1>2 DEF ImagesInv, ImagesTyped
<1>4. cleanups' \subseteq CleanupRow /\ \A c \in cleanups' : c \in cleanups \/ c.step = "asked"
  <2>1. <<"product-images", key>> \in Files
    BY DEF Files, Stores
  <2>2. /\ Cleanup(<<"product-images", key>>, FALSE) \in CleanupRow
        /\ Cleanup(<<"product-images", key>>, FALSE).step = "asked"
    BY <2>1, CleanupIs
  <2> QED BY <1>2, <2>2 DEF ImagesInv, ImagesTyped
<1>5. \A f \in Files : f[2] \in Pictures /\ f[2] # None
  BY ImagesAssumption DEF Files
<1>6. \A f \in Files : Wanted(f)' => Wanted(f)
  BY <1>2, <1>3, <1>5 DEF Wanted, IsReferenced, InFlight
<1>7. WantedThere' /\ DoomedUnwanted'
  BY <1>2, <1>4, <1>6, WantedKeeps
<1>8. BillsHold' /\ QueueTrue'
  BY <1>2, BillsKeep, QueueKeeps DEF Counted
<1>9. ImagesTyped'
  BY <1>2, <1>3, <1>4 DEF ImagesInv, ImagesTyped
<1> QED BY <1>7, <1>8, <1>9 DEF ImagesInv

\* Time passes, a product leaves the catalogue, the server dies, a removal is decided, an
\* import begins or gives up: no file is written and no row names another one.
LEMMA StillKeeps ==
  ASSUME ImagesInv, UNCHANGED <<file, imageOf, photo, upload, slotQueue, raced>>,
         tick' \in Nat, listed' \subseteq Catalogue, job' \in JobRow \cup {None},
         \A f \in Files : InFlight(f)' => InFlight(f),
         cleanups' \subseteq CleanupRow,
         \A c \in cleanups' : c \in cleanups \/ c.step = "asked" \/ c.raced \/ ~ Wanted(c.file)
  PROVE  ImagesInv'
<1>1. BillsHold' /\ QueueTrue'
  BY BillsKeep, QueueKeeps DEF Counted
<1> QED BY <1>1, UploadKeeps DEF ImagesInv, ImagesTyped

LEMMA DiesKeeps ==
  ASSUME ImagesInv, ServerDies
  PROVE  ImagesInv'
<1>1. /\ upload' = [u \in Uploads |-> None] /\ slotQueue' = <<>> /\ cleanups' \subseteq cleanups
      /\ UNCHANGED <<tick, file, imageOf, listed, photo, job, raced>>
  BY DEF ServerDies, rowVars
<1>2. upload' \in [Uploads -> UploadRow \cup {None}] /\ \A u \in Uploads : upload'[u] = None
  BY <1>1
<1>3. QueueTrue'
  BY <1>1 DEF QueueTrue
<1>4. BillsHold' /\ \A f \in Files : InFlight(f)' => InFlight(f)
  BY <1>1, <1>2, BillsKeep, FlightShrinks DEF Counted
<1> QED BY <1>1, <1>2, <1>3, <1>4, UploadKeeps DEF ImagesInv, ImagesTyped

LEMMA ReadReferencesKeeps ==
  ASSUME ImagesInv, NEW c \in cleanups, ReadReferences(c)
  PROVE  ImagesInv'
<1>1. /\ UNCHANGED <<tick, file, imageOf, listed, photo, upload, slotQueue, job, raced>>
      /\ \/ cleanups' \subseteq cleanups
         \/ /\ ~ IsReferenced(c.file)
            /\ cleanups' \subseteq cleanups \cup {[c EXCEPT !.step = "doomed", !.raced = InFlight(c.file)]}
  BY DEF ReadReferences, rowVars
<1>2. c \in CleanupRow
  BY DEF ImagesInv, ImagesTyped
<1>3. PICK flies \in BOOLEAN : flies = InFlight(c.file)
  BY DEF InFlight
<1> DEFINE new == [c EXCEPT !.step = "doomed", !.raced = flies]
<1>4. new \in CleanupRow /\ new.raced = flies /\ new.file = c.file
  BY <1>2 DEF CleanupRow
<1>5. new = [c EXCEPT !.step = "doomed", !.raced = InFlight(c.file)]
  BY <1>3, Zenon
<1> HIDE DEF new
<1>6. ~ IsReferenced(c.file) => new.raced \/ ~ Wanted(new.file)
  BY <1>3, <1>4 DEF Wanted
<1>7. /\ cleanups' \subseteq CleanupRow
      /\ \A d \in cleanups' : d \in cleanups \/ d.step = "asked" \/ d.raced \/ ~ Wanted(d.file)
  BY <1>1, <1>4, <1>5, <1>6 DEF ImagesInv, ImagesTyped
<1>8. \A f \in Files : InFlight(f)' => InFlight(f)
  BY <1>1 DEF InFlight
<1> QED BY <1>1, <1>7, <1>8, StillKeeps DEF ImagesInv, ImagesTyped

\* A file that somebody wants goes only when its removal was overlapped, and then it is said.
LEMMA RemoveFilesKeeps ==
  ASSUME ImagesInv, NEW c \in cleanups, RemoveFiles(c)
  PROVE  ImagesInv'
<1>1. /\ c.step = "doomed" /\ cleanups' = cleanups \ {c} /\ c \in CleanupRow /\ c.file \in Files
      /\ UNCHANGED <<tick, imageOf, listed, photo, upload, slotQueue, job>>
  BY DEF RemoveFiles, rowVars, ImagesInv, ImagesTyped, CleanupRow
<1>2. \/ UNCHANGED <<file, raced>>
      \/ /\ file' = [file EXCEPT ![c.file] = None]
         /\ raced' = IF c.raced \/ InFlight(c.file) THEN raced \cup {c.file} ELSE raced
  BY DEF RemoveFiles
<1>3. \A f \in Files : Wanted(f)' <=> Wanted(f)
  BY <1>1 DEF Wanted, IsReferenced, InFlight
<1>4. ImagesTyped'
  BY <1>1, <1>2 DEF ImagesInv, ImagesTyped
<1>5. WantedThere'
  <2>1. CASE UNCHANGED <<file, raced>>
    BY <1>3, <2>1 DEF ImagesInv, WantedThere
  <2>2. CASE /\ file' = [file EXCEPT ![c.file] = None]
             /\ raced' = IF c.raced \/ InFlight(c.file) THEN raced \cup {c.file} ELSE raced
    <3>1. \A f \in Files \ {c.file} : file'[f] = file[f]
      BY <2>2 DEF ImagesInv, ImagesTyped
    <3>2. raced \subseteq raced' /\ (Wanted(c.file) => c.file \in raced')
      BY <1>1, <2>2 DEF ImagesInv, DoomedUnwanted
    <3> QED BY <1>3, <3>1, <3>2 DEF ImagesInv, WantedThere
  <2> QED BY <1>2, <2>1, <2>2
<1>6. DoomedUnwanted'
  <2> SUFFICES ASSUME NEW d \in cleanups', d.step = "doomed", ~ d.raced PROVE ~ Wanted(d.file)'
    BY DEF DoomedUnwanted
  <2>1. d \in cleanups /\ d.file \in Files
    BY <1>1 DEF ImagesInv, ImagesTyped, CleanupRow
  <2> QED BY <1>3, <2>1 DEF ImagesInv, DoomedUnwanted
<1>7. BillsHold' /\ QueueTrue'
  BY <1>1, BillsKeep, QueueKeeps DEF Counted
<1> QED BY <1>4, <1>5, <1>6, <1>7 DEF ImagesInv

LEMMA ImportImagesKeeps ==
  ASSUME ImagesInv, NEW keys \in SUBSET Pictures, ImportImages(keys)
  PROVE  ImagesInv'
<1>1. /\ job = None /\ job' = [startedAt |-> tick, left |-> keys, keys |-> keys, committed |-> FALSE]
      /\ UNCHANGED <<tick, file, imageOf, listed, photo, upload, slotQueue, cleanups, raced>>
      /\ tick \in Nat
  BY DEF ImportImages, rowVars, ImagesInv, ImagesTyped
<1>2. job' \in JobRow /\ job'.keys \ job'.left = {}
  BY <1>1 DEF JobRow
<1>3. \A f \in Files : InFlight(f)' => InFlight(f)
  BY <1>1, <1>2 DEF InFlight
<1> QED BY <1>1, <1>2, <1>3, StillKeeps DEF ImagesInv, ImagesTyped

LEMMA ImportOneKeeps ==
  ASSUME ImagesInv, NEW key \in Pictures, ImportOne(key)
  PROVE  ImagesInv'
<1> DEFINE f == <<"product-images", key>>
<1>1. /\ job # None /\ job \in JobRow /\ job' = [job EXCEPT !.left = @ \ {key}] /\ WriteImageFiles(f)
      /\ UNCHANGED <<tick, imageOf, listed, photo, upload, slotQueue>>
  BY DEF ImportOne, rowVars, ImagesInv, ImagesTyped
<1>2. /\ job' \in JobRow /\ job'.keys = job.keys /\ job'.left = job.left \ {key}
      /\ job'.committed = job.committed
  BY <1>1 DEF JobRow
<1>3. \A g \in Files \ {f} : Wanted(g)' => Wanted(g)
  <2> SUFFICES ASSUME NEW g \in Files \ {f}, InFlight(g)' PROVE InFlight(g)
    BY <1>1, ReferencesStay DEF Wanted
  <2>1. g[1] = "product-images" => g[2] # key
    BY DEF Files
  <2> QED BY <1>1, <1>2, <2>1 DEF InFlight
<1>4. f \in Files
  BY DEF Files, Stores
<1>5. /\ WantedThere' /\ DoomedUnwanted' /\ cleanups' \subseteq CleanupRow
      /\ file' \in [Files -> Nat \cup {None}] /\ raced' \subseteq Files
  <2> HIDE DEF f
  <2> QED BY <1>1, <1>3, <1>4, WrittenKeeps
<1>6. BillsHold' /\ QueueTrue'
  BY <1>1, BillsKeep, QueueKeeps DEF Counted
<1>7. ImagesTyped'
  BY <1>1, <1>2, <1>5 DEF ImagesInv, ImagesTyped
<1> QED BY <1>5, <1>6, <1>7 DEF ImagesInv

\* The catalogue an import brings names the files it wrote, and none is gone.
LEMMA ImportCommitsKeeps ==
  ASSUME ImagesInv, NEW images \in [Catalogue -> Pictures \cup {None}], ImportCommits(images)
  PROVE  ImagesInv'
<1>1. /\ job # None /\ job \in JobRow /\ ~ job.committed /\ job.left = {}
      /\ \A p \in Catalogue : images[p] \in job.keys \cup {None}
      /\ imageOf' = images /\ listed' = Catalogue /\ job' = [job EXCEPT !.committed = TRUE]
      /\ UNCHANGED <<tick, file, photo, upload, slotQueue, cleanups, raced>>
  BY DEF ImportCommits, ImagesInv, ImagesTyped
<1>2. job' \in JobRow /\ job'.committed
  BY <1>1 DEF JobRow
<1>3. \A f \in Files : f[2] # None
  BY ImagesAssumption DEF Files
<1>4. \A f \in Files : Wanted(f)' => Wanted(f)
  <2> SUFFICES ASSUME NEW f \in Files, Wanted(f)' PROVE Wanted(f)
    OBVIOUS
  <2>1. CASE InFlight(f)'
    BY <1>1, <1>2, <2>1 DEF Wanted, InFlight
  <2>2. CASE IsReferenced(f)' /\ f[1] = "product-images"
    <3>1. f[2] \in job.keys \ job.left
      BY <1>1, <1>3, <2>2 DEF IsReferenced
    <3> QED BY <1>1, <2>2, <3>1 DEF Wanted, InFlight
  <2>3. CASE IsReferenced(f)' /\ f[1] # "product-images"
    BY <1>1, <2>3 DEF Wanted, IsReferenced
  <2> QED BY <2>1, <2>2, <2>3 DEF Wanted
<1>5. WantedThere' /\ DoomedUnwanted'
  BY <1>1, <1>4, WantedKeeps DEF ImagesInv, ImagesTyped
<1>6. BillsHold' /\ QueueTrue'
  BY <1>1, BillsKeep, QueueKeeps DEF Counted
<1>7. ImagesTyped'
  BY <1>1, <1>2 DEF ImagesInv, ImagesTyped
<1> QED BY <1>5, <1>6, <1>7 DEF ImagesInv

LEMMA SweepKeeps ==
  ASSUME ImagesInv, SweepOrphanImages
  PROVE  ImagesInv'
<1> DEFINE orphans == {g \in Files : g[1] = "product-images" /\ Predates(g) /\ ~ IsReferenced(g)}
           doom(f) == [Cleanup(f, TRUE) EXCEPT !.step = "doomed", !.raced = InFlight(f)]
<1>1. /\ job \in JobRow /\ job' = None /\ cleanups' = cleanups \cup {doom(f) : f \in orphans}
      /\ UNCHANGED <<tick, file, imageOf, listed, photo, upload, slotQueue, raced>>
  BY DEF SweepOrphanImages, rowVars, ImagesInv, ImagesTyped
<1>2. ASSUME NEW f \in orphans
      PROVE  doom(f) \in CleanupRow /\ (doom(f).raced \/ ~ Wanted(doom(f).file))
  <2>1. PICK flies \in BOOLEAN : flies = InFlight(f)
    BY DEF InFlight
  <2>2. Cleanup(f, TRUE) \in CleanupRow /\ Cleanup(f, TRUE).file = f
    BY CleanupIs
  <2> DEFINE new == [Cleanup(f, TRUE) EXCEPT !.step = "doomed", !.raced = flies]
  <2>3. new \in CleanupRow /\ new.raced = flies /\ new.file = f
    BY <2>2 DEF CleanupRow
  <2>4. new = doom(f)
    BY <2>1, Zenon
  <2> HIDE DEF new, doom
  <2> QED BY <2>1, <2>3, <2>4 DEF Wanted
<1>3. /\ cleanups' \subseteq CleanupRow
      /\ \A d \in cleanups' : d \in cleanups \/ d.step = "asked" \/ d.raced \/ ~ Wanted(d.file)
  <2> HIDE DEF doom, orphans
  <2> QED BY <1>1, <1>2 DEF ImagesInv, ImagesTyped
<1>4. \A f \in Files : InFlight(f)' => InFlight(f)
  BY <1>1 DEF InFlight
<1> QED BY <1>1, <1>3, <1>4, StillKeeps DEF ImagesInv, ImagesTyped

LEMMA ImportFailsKeeps ==
  ASSUME ImagesInv, ImportFails
  PROVE  ImagesInv'
<1>1. /\ job \in JobRow /\ job' = None
      /\ cleanups' = cleanups \cup {Cleanup(<<"product-images", k>>, TRUE) : k \in job.keys \ job.left}
      /\ UNCHANGED <<tick, file, imageOf, listed, photo, upload, slotQueue, raced>>
  BY DEF ImportFails, rowVars, ImagesInv, ImagesTyped
<1>2. \A k \in job.keys : <<"product-images", k>> \in Files
  BY <1>1 DEF JobRow, Files, Stores
<1>3. \A k \in job.keys : /\ Cleanup(<<"product-images", k>>, TRUE) \in CleanupRow
                          /\ Cleanup(<<"product-images", k>>, TRUE).step = "asked"
  BY <1>2, CleanupIs
<1>4. cleanups' \subseteq CleanupRow /\ \A d \in cleanups' : d \in cleanups \/ d.step = "asked"
  BY <1>1, <1>3 DEF ImagesInv, ImagesTyped
<1>5. \A f \in Files : InFlight(f)' => InFlight(f)
  BY <1>1 DEF InFlight
<1> QED BY <1>1, <1>4, <1>5, StillKeeps DEF ImagesInv, ImagesTyped

LEMMA InitImages == ImagesInit => ImagesInv
<1> SUFFICES ASSUME ImagesInit PROVE ImagesInv
  OBVIOUS
<1>1. \A f \in Files : f[2] \in Pictures /\ f[2] # None
  BY ImagesAssumption DEF Files
<1>2. \A f \in Files : ~ Wanted(f)
  BY <1>1 DEF ImagesInit, Wanted, IsReferenced, InFlight
<1>3. WantedThere /\ DoomedUnwanted
  BY <1>2 DEF ImagesInit, WantedThere, DoomedUnwanted
<1>4. \A s : PhotosOf(s) = {}
  BY DEF ImagesInit, PhotosOf
<1>5. \A s : IsFiniteSet(PhotosOf(s)) /\ Cardinality(PhotosOf(s)) = 0
  BY <1>4, FS_EmptySet
<1>6. BillsHold
  BY <1>5, ImagesAssumption DEF ImagesInit, BillsHold, Counted
<1>7. ImagesTyped /\ QueueTrue
  BY DEF ImagesInit, ImagesTyped, QueueTrue
<1> QED BY <1>3, <1>6, <1>7 DEF ImagesInv

LEMMA ImagesStep == ImagesInv /\ [PicturesNext \/ PhotosNext]_imageVars => ImagesInv'
<1> SUFFICES ASSUME ImagesInv, [ImagesNext]_imageVars PROVE ImagesInv'
  BY DEF PicturesNext, PhotosNext
<1>1. CASE UNCHANGED imageVars
  <2>1. \A f \in Files : InFlight(f)' => InFlight(f)
    BY <1>1 DEF imageVars, InFlight
  <2> QED BY <1>1, <2>1, StillKeeps DEF imageVars, ImagesInv, ImagesTyped
<1>2. CASE ImageTick
  <2>1. /\ UNCHANGED <<file, imageOf, listed, photo, upload, slotQueue, cleanups, job, raced>> /\ tick' \in Nat
    BY <1>2 DEF ImageTick, rowVars, ImagesInv, ImagesTyped
  <2>2. \A f \in Files : InFlight(f)' => InFlight(f)
    BY <2>1 DEF InFlight
  <2> QED BY <2>1, <2>2, StillKeeps DEF ImagesInv, ImagesTyped
<1>3. ASSUME NEW p \in Catalogue, DeleteListed(p) PROVE ImagesInv'
  <2>1. /\ UNCHANGED <<tick, file, imageOf, photo, upload, slotQueue, cleanups, job, raced>>
        /\ listed' = listed \ {p}
    BY <1>3 DEF DeleteListed
  <2>2. \A f \in Files : InFlight(f)' => InFlight(f)
    BY <2>1 DEF InFlight
  <2> QED BY <2>1, <2>2, StillKeeps DEF ImagesInv, ImagesTyped
<1>4. CASE ServerDies \/ SweepOrphanImages \/ ImportFails
  BY <1>4, DiesKeeps, SweepKeeps, ImportFailsKeeps
<1>5. ASSUME NEW u \in Uploads, NEW store \in Stores, NEW key \in Pictures, NEW target \in Targets(store),
             BeginUpload(u, store, target, key)
      PROVE  ImagesInv'
  BY <1>5, BeginUploadKeeps
<1>6. ASSUME NEW u \in Uploads, NotAnImage(u) \/ Prepare(u) \/ SetImage(u) PROVE ImagesInv'
  BY <1>6, NotAnImageKeeps, PrepareKeeps, SetImageKeeps
<1>7. ASSUME NEW u \in Uploads, CountPhotos(u) \/ Attach(u) PROVE ImagesInv'
  BY <1>7, CountKeeps, AttachKeeps
<1>8. ASSUME NEW u \in Uploads, RefusedOrReplayed(u) \/ StillInFlight(u) PROVE ImagesInv'
  BY <1>8, LeaveKeepsRows
<1>9. ASSUME NEW c \in cleanups, ReadReferences(c) \/ RemoveFiles(c) PROVE ImagesInv'
  BY <1>9, ReadReferencesKeeps, RemoveFilesKeeps
<1>10. ASSUME NEW p \in Catalogue, ClearImage(p) PROVE ImagesInv'
  BY <1>10, ClearImageKeeps
<1>11. ASSUME NEW keys \in SUBSET Pictures, ImportImages(keys) PROVE ImagesInv'
  BY <1>11, ImportImagesKeeps
<1>12. ASSUME NEW key \in Pictures, ImportOne(key) PROVE ImagesInv'
  BY <1>12, ImportOneKeeps
<1>13. ASSUME NEW images \in [Catalogue -> Pictures \cup {None}], ImportCommits(images) PROVE ImagesInv'
  BY <1>13, ImportCommitsKeeps
<1> QED BY <1>1, <1>2, <1>3, <1>4, <1>5, <1>6, <1>7, <1>8, <1>9, <1>10, <1>11, <1>12, <1>13 DEF ImagesNext

LEMMA ImagesKept == OfficeSpec => []ImagesInv
<1>1. OfficeInit => ImagesInv
  BY InitImages DEF OfficeInit
<1>2. ImagesInv /\ [OfficeNext]_officeVars => ImagesInv'
  BY OneStep, ImagesStep
<1> QED BY <1>1, <1>2, PTL DEF OfficeSpec

\* What a product or a photo names is on the disk, unless its file was removed beside an
\* upload or an import of the same picture, and no bill has more photos than it may
\* (image-store.ts, product-images.service.ts: settleImage; sale-photos.service.ts:
\* attachIn).
THEOREM PicturesStayOrderly == OfficeSpec => []PicturesOrderly
<1>1. ImagesInv => PicturesOrderly
  <2> SUFFICES ASSUME ImagesInv PROVE PicturesOrderly
    OBVIOUS
  <2>1. ASSUME NEW store \in Stores, NEW key \in Pictures, IsReferenced(<<store, key>>)
        PROVE  file[<<store, key>>] # None \/ <<store, key>> \in raced
    BY <2>1 DEF Files, Wanted, ImagesInv, WantedThere
  <2>2. ASSUME NEW p \in Catalogue, imageOf[p] # None
        PROVE  imageOf[p] \in Pictures /\ IsReferenced(<<"product-images", imageOf[p]>>)
    BY <2>2 DEF IsReferenced, ImagesInv, ImagesTyped
  <2>3. ASSUME NEW h \in PhotoIds, photo[h] # None
        PROVE  photo[h].key \in Pictures /\ IsReferenced(<<"sale-photos", photo[h].key>>)
    BY <2>3 DEF IsReferenced, ImagesInv, ImagesTyped, PhotoRow
  <2>4. NamedIsThere
    BY <2>1, <2>2, <2>3 DEF NamedIsThere, Stores
  <2>5. FivePerBill
    BY DEF ImagesInv, BillsHold, FivePerBill
  <2> QED BY <2>4, <2>5 DEF PicturesOrderly
<1> QED BY <1>1, ImagesKept, PTL

-----------------------------------------------------------------------------
(* The counters of attempts.  The property counts the attempts that were   *)
(* let in; a step sees only the counter.  What ties them is who still has  *)
(* an attempt to give back: the counter holds the attempts that gave no    *)
(* right answer and those whose refund is on its way, so a refund never    *)
(* takes an attempt of another.                                            *)

LimitStages == {"idle", "second", "check", "clear", "refund", "refundAll"}

Caller == [at : LimitStages, kind : Kinds, counted : SUBSET Buckets]

LimitsTyped ==
    /\ bucket \in [Buckets -> Int \cup {None}]
    /\ caller \in [Callers -> Caller]
    /\ passed \in [Buckets -> Int]
    /\ slack \in [Buckets -> Int]

\* What the counter says.
Held(b) == IF bucket[b] = None THEN 0 ELSE bucket[b]

\* The bucket a caller who gave the right answer will still give back to.
Owes(k, b) ==
    \/ k.at \in {"clear", "refund"} /\ b = First(k.kind)
    \/ k.kind = "enrol" /\ k.at \in {"refund", "refundAll"} /\ b = "everyone"

Pending(b) == {c \in Callers : Owes(caller[c], b) /\ b \in caller[c].counted}

\* Only an enrolment comes to its second refund, and only a login to clearKey.
KindsTrue ==
    \A c \in Callers :
        /\ caller[c].at = "refundAll" => caller[c].kind = "enrol"
        /\ caller[c].at = "clear" => caller[c].kind = "login"

CountsTrue ==
    \A b \in Buckets :
        /\ passed[b] + Cardinality(Pending(b)) <= Held(b) + slack[b]
        /\ passed[b] + Cardinality(Pending(b)) <= Limit[b] + slack[b]

LimitsInv == LimitsTyped /\ KindsTrue /\ CountsTrue
-----------------------------------------------------------------------------
(* Who owes a refund *)

\* A caller's step changes the debts of that caller only.
LEMMA PendingMoves ==
  ASSUME LimitsTyped, NEW c \in Callers, NEW k \in Caller,
         caller' = [caller EXCEPT ![c] = k], NEW b \in Buckets
  PROVE  LET Owed == Owes(caller[c], b) /\ b \in caller[c].counted
             Stays == Owes(k, b) /\ b \in k.counted
         IN  /\ Cardinality(Pending(b)) \in Nat /\ Cardinality(Pending(b)') \in Nat
             /\ Cardinality(Pending(b)') <= Cardinality(Pending(b)) + 1
             /\ (Owed \/ ~Stays) => Cardinality(Pending(b)') <= Cardinality(Pending(b))
             /\ (Owed /\ ~Stays) => Cardinality(Pending(b)') = Cardinality(Pending(b)) - 1
<1> DEFINE Owed == Owes(caller[c], b) /\ b \in caller[c].counted
           Stays == Owes(k, b) /\ b \in k.counted
           Others == {d \in Callers \ {c} : Owes(caller[d], b) /\ b \in caller[d].counted}
<1>1. IsFiniteSet(Others) /\ c \notin Others
  BY RateLimitAssumption, FS_Subset, FS_RemoveElement
<1>2. caller \in [Callers -> Caller]
  BY DEF LimitsTyped
<1>3. Pending(b) = IF Owed THEN Others \cup {c} ELSE Others
  BY DEF Pending
<1>4. caller'[c] = k /\ \A d \in Callers \ {c} : caller'[d] = caller[d]
  BY <1>2
<1>5. Pending(b)' = IF Stays THEN Others \cup {c} ELSE Others
  BY <1>4 DEF Pending, Owes
<1>6. Cardinality(Others) \in Nat /\ Cardinality(Others \cup {c}) = Cardinality(Others) + 1
  BY <1>1, FS_CardinalityType, FS_AddElement
<1> HIDE DEF Owed, Stays, Others
<1>7. QED
  BY <1>3, <1>5, <1>6 DEF Owed, Stays
-----------------------------------------------------------------------------
(* consumeAttempt and its two callers *)

\* Counting makes room: the counter grows with every attempt that is let in.
LEMMA CountGrows ==
  ASSUME LimitsTyped, NEW b0 \in Buckets, Consume(b0), NEW b \in Buckets
  PROVE  /\ Count(b0) \in Int /\ Held(b) \in Int /\ Held(b)' \in Int
         /\ Held(b)' = IF b = b0 THEN Held(b) + 1 ELSE Held(b)
         /\ Held(b0) + 1 = Count(b0)
  BY RateLimitAssumption DEF LimitsTyped, Consume, Count, Held

LEMMA ConsumeKeeps ==
  ASSUME LimitsInv, NEW c \in Callers, NEW kind \in Kinds, NEW b0 \in Buckets,
         NEW next \in {"second", "check"}, caller[c].at \in {"idle", "second"},
         ConsumeAttempt(c, kind, b0, next), UNCHANGED slack
  PROVE  LimitsInv'
<1> USE DEF LimitsInv
<1>1. PICK k \in Caller :
         /\ caller' = [caller EXCEPT ![c] = k]
         /\ k.at \in {"idle", "second", "check"}
  <2>1. caller[c] \in Caller
    BY DEF LimitsTyped
  <2>2. Away \in Caller /\ Away.at = "idle"
    BY DEF Away, Caller, LimitStages, Kinds
  <2>3. \A counted \in SUBSET Buckets :
           [at |-> next, kind |-> kind, counted |-> counted] \in Caller
    BY DEF Caller, LimitStages
  <2>4. [caller[c] EXCEPT !.at = next, !.kind = kind] \in Caller
    BY <2>1 DEF Caller, LimitStages
  <2>5. caller[c].counted \cup {b0} \in SUBSET Buckets
    BY <2>1 DEF Caller
  <2>6. CASE caller' = [caller EXCEPT ![c] =
               [at |-> next, kind |-> kind, counted |-> caller[c].counted \cup {b0}]]
    BY <2>3, <2>5, <2>6
  <2>7. CASE caller' = [caller EXCEPT ![c] = Away]
    BY <2>2, <2>7
  <2>8. CASE caller' = [caller EXCEPT ![c] = [caller[c] EXCEPT !.at = next, !.kind = kind]]
    <3>1. [caller[c] EXCEPT !.at = next, !.kind = kind].at = next
      BY <2>1 DEF Caller
    <3>2. QED
      BY <2>4, <2>8, <3>1
  <2>9. QED
    BY <2>6, <2>7, <2>8 DEF ConsumeAttempt
<1>2. /\ Consume(b0) \/ UNCHANGED bucket
      /\ \/ Consume(b0) /\ Count(b0) <= Limit[b0] /\ LetIn(b0)
         \/ UNCHANGED passed
  BY DEF ConsumeAttempt
<1>3. LimitsTyped'
  <2>1. bucket' \in [Buckets -> Int \cup {None}]
    BY <1>2 DEF LimitsTyped, Consume, Count
  <2>2. caller' \in [Callers -> Caller]
    BY <1>1 DEF LimitsTyped
  <2>3. passed' \in [Buckets -> Int]
    BY <1>2 DEF LimitsTyped, LetIn
  <2>4. QED
    BY <2>1, <2>2, <2>3 DEF LimitsTyped
<1>4. KindsTrue'
  BY <1>1 DEF KindsTrue, LimitsTyped
<1>5. CountsTrue'
  <2> SUFFICES ASSUME NEW b \in Buckets
               PROVE  /\ passed'[b] + Cardinality(Pending(b)') <= Held(b)' + slack'[b]
                      /\ passed'[b] + Cardinality(Pending(b)') <= Limit[b] + slack'[b]
    BY DEF CountsTrue
  <2>1. /\ Cardinality(Pending(b)) \in Nat /\ Cardinality(Pending(b)') \in Nat
        /\ Cardinality(Pending(b)') <= Cardinality(Pending(b))
    <3>1. ~Owes(k, b)
      BY <1>1 DEF Owes
    <3>2. QED
      BY <1>1, <3>1, PendingMoves
  <2>2. /\ passed[b] + Cardinality(Pending(b)) <= Held(b) + slack[b]
        /\ passed[b] + Cardinality(Pending(b)) <= Limit[b] + slack[b]
    BY DEF CountsTrue
  <2>3. passed[b] \in Int /\ slack[b] \in Int /\ slack'[b] = slack[b] /\ Limit[b] \in Nat
    BY RateLimitAssumption DEF LimitsTyped
  <2>4. Held(b) \in Int /\ Held(b)' \in Int /\ Held(b) <= Held(b)'
    <3>1. CASE Consume(b0)
      BY <3>1, CountGrows
    <3>2. CASE UNCHANGED bucket
      BY <3>2 DEF Held, LimitsTyped
    <3>3. QED
      BY <1>2, <3>1, <3>2
  <2>5. CASE UNCHANGED passed
    BY <2>1, <2>2, <2>3, <2>4, <2>5
  <2>6. CASE Consume(b0) /\ Count(b0) <= Limit[b0] /\ LetIn(b0)
    <3>1. passed'[b] = IF b = b0 THEN passed[b] + 1 ELSE passed[b]
      BY <2>6 DEF LetIn, LimitsTyped
    <3>2. /\ Count(b0) \in Int /\ Held(b0) + 1 = Count(b0)
          /\ Held(b)' = IF b = b0 THEN Held(b) + 1 ELSE Held(b)
      BY <2>6, CountGrows
    <3>3. CASE b = b0
      BY <2>1, <2>2, <2>3, <2>4, <2>6, <3>1, <3>2, <3>3
    <3>4. CASE b # b0
      BY <2>1, <2>2, <2>3, <2>4, <3>1, <3>2, <3>4
    <3>5. QED
      BY <3>3, <3>4
  <2>7. QED
    BY <1>2, <2>5, <2>6
<1>6. QED
  BY <1>3, <1>4, <1>5
-----------------------------------------------------------------------------
(* The answers *)

LEMMA WrongKeeps ==
  ASSUME LimitsInv, NEW c \in Callers, Fail(c)
  PROVE  LimitsInv'
<1> USE DEF LimitsInv
<1>1. Away \in Caller /\ caller' = [caller EXCEPT ![c] = Away]
  BY DEF Away, Caller, LimitStages, Kinds, Fail
<1>2. LimitsTyped' /\ KindsTrue'
  BY <1>1 DEF LimitsTyped, KindsTrue, Fail, Away
<1>3. CountsTrue'
  <2> SUFFICES ASSUME NEW b \in Buckets
               PROVE  /\ passed'[b] + Cardinality(Pending(b)') <= Held(b)' + slack'[b]
                      /\ passed'[b] + Cardinality(Pending(b)') <= Limit[b] + slack'[b]
    BY DEF CountsTrue
  <2>1. ~Owes(Away, b)
    BY DEF Owes, Away
  <2>2. /\ Cardinality(Pending(b)) \in Nat /\ Cardinality(Pending(b)') \in Nat
        /\ Cardinality(Pending(b)') <= Cardinality(Pending(b))
    BY <1>1, <2>1, PendingMoves
  <2>3. /\ passed[b] + Cardinality(Pending(b)) <= Held(b) + slack[b]
        /\ passed[b] + Cardinality(Pending(b)) <= Limit[b] + slack[b]
    BY DEF CountsTrue
  <2>4. passed[b] \in Int /\ slack[b] \in Int /\ Limit[b] \in Nat /\ Held(b) \in Int
    BY RateLimitAssumption DEF LimitsTyped, Held
  <2>5. passed'[b] = passed[b] /\ slack'[b] = slack[b] /\ Held(b)' = Held(b)
    BY DEF Fail, Held
  <2>6. QED
    BY <2>2, <2>3, <2>4, <2>5
<1>4. QED
  BY <1>2, <1>3

\* A right answer turns what was passed into a debt; an attempt that Redis did not count
\* turns into nothing.
LEMMA RightAnswerKeeps ==
  ASSUME LimitsInv, NEW c \in Callers, Right(c)
  PROVE  LimitsInv'
<1> USE DEF LimitsInv
<1> DEFINE k == [caller[c] EXCEPT !.at = IF caller[c].kind = "login" THEN "clear" ELSE "refund"]
<1>1. caller' = [caller EXCEPT ![c] = k] /\ caller[c].at = "check"
  BY DEF Right
<1>2. caller[c] \in Caller
  BY DEF LimitsTyped
<1>3. /\ k \in Caller /\ k.counted = caller[c].counted /\ k.kind = caller[c].kind
      /\ k.at = IF k.kind = "login" THEN "clear" ELSE "refund"
  BY <1>2 DEF Caller, LimitStages
<1> HIDE DEF k
<1>4. passed' \in [Buckets -> Int]
  BY DEF Right, LimitsTyped
<1>5. LimitsTyped' /\ KindsTrue'
  BY <1>1, <1>3, <1>4 DEF LimitsTyped, KindsTrue, Right
<1>6. CountsTrue'
  <2> SUFFICES ASSUME NEW b \in Buckets
               PROVE  /\ passed'[b] + Cardinality(Pending(b)') <= Held(b)' + slack'[b]
                      /\ passed'[b] + Cardinality(Pending(b)') <= Limit[b] + slack'[b]
    BY DEF CountsTrue
  <2>1. /\ Cardinality(Pending(b)) \in Nat /\ Cardinality(Pending(b)') \in Nat
        /\ Cardinality(Pending(b)') <= Cardinality(Pending(b)) + 1
        /\ b \notin caller[c].counted => Cardinality(Pending(b)') <= Cardinality(Pending(b))
    BY <1>1, <1>3, PendingMoves
  <2>2. /\ passed[b] + Cardinality(Pending(b)) <= Held(b) + slack[b]
        /\ passed[b] + Cardinality(Pending(b)) <= Limit[b] + slack[b]
    BY DEF CountsTrue
  <2>3. passed[b] \in Int /\ slack[b] \in Int /\ Limit[b] \in Nat /\ Held(b) \in Int
    BY RateLimitAssumption DEF LimitsTyped, Held
  <2>4. slack'[b] = slack[b] /\ Held(b)' = Held(b)
    BY DEF Right, Held
  <2>5. passed'[b] = IF b \in caller[c].counted THEN passed[b] - 1 ELSE passed[b]
    BY DEF Right
  <2>6. QED
    BY <2>1, <2>2, <2>3, <2>4, <2>5
<1>7. QED
  BY <1>5, <1>6

\* clearKey frees a name nobody has an attempt of to give back.
LEMMA ClearKeyKeeps ==
  ASSUME LimitsInv, NEW c \in Callers, ClearKey(c)
  PROVE  LimitsInv'
<1> USE DEF LimitsInv
<1> DEFINE k == [caller[c] EXCEPT !.at = "refund"]
<1>1. caller' = [caller EXCEPT ![c] = k] /\ caller[c].at = "clear"
  BY DEF ClearKey
<1>2. caller[c] \in Caller /\ caller[c].kind = "login"
  BY <1>1 DEF LimitsTyped, KindsTrue
<1>3. k \in Caller /\ k.counted = caller[c].counted /\ k.kind = "login" /\ k.at = "refund"
  BY <1>2 DEF Caller, LimitStages
<1> HIDE DEF k
<1>4. bucket' \in [Buckets -> Int \cup {None}] /\ slack' \in [Buckets -> Int]
  BY RateLimitAssumption DEF ClearKey, LimitsTyped, Buckets
<1>5. LimitsTyped' /\ KindsTrue'
  BY <1>1, <1>3, <1>4 DEF LimitsTyped, KindsTrue, ClearKey
<1>6. CountsTrue'
  <2> SUFFICES ASSUME NEW b \in Buckets
               PROVE  /\ passed'[b] + Cardinality(Pending(b)') <= Held(b)' + slack'[b]
                      /\ passed'[b] + Cardinality(Pending(b)') <= Limit[b] + slack'[b]
    BY DEF CountsTrue
  <2>1. Owes(k, b) => Owes(caller[c], b)
    BY <1>1, <1>2, <1>3 DEF Owes
  <2>2. /\ Cardinality(Pending(b)) \in Nat /\ Cardinality(Pending(b)') \in Nat
        /\ Cardinality(Pending(b)') <= Cardinality(Pending(b))
    BY <1>1, <1>3, <2>1, PendingMoves
  <2>3. /\ passed[b] + Cardinality(Pending(b)) <= Held(b) + slack[b]
        /\ passed[b] + Cardinality(Pending(b)) <= Limit[b] + slack[b]
    BY DEF CountsTrue
  <2>4. /\ passed[b] \in Int /\ slack[b] \in Int /\ Limit[b] \in Nat /\ Held(b) \in Int
        /\ passed'[b] = passed[b]
    BY RateLimitAssumption DEF LimitsTyped, Held, ClearKey
  <2>5. CASE UNCHANGED <<bucket, slack>>
    <3>1. slack'[b] = slack[b] /\ Held(b)' = Held(b)
      BY <2>5 DEF Held
    <3>2. QED
      BY <2>2, <2>3, <2>4, <3>1
  <2>6. CASE /\ bucket' = [bucket EXCEPT !["name"] = None]
             /\ slack' = [slack EXCEPT !["name"] = @ + Limit["name"]]
    <3>1. CASE b # "name"
      <4>1. slack'[b] = slack[b] /\ Held(b)' = Held(b)
        BY <2>6, <3>1 DEF Held, LimitsTyped
      <4>2. QED
        BY <2>2, <2>3, <2>4, <4>1
    <3>2. CASE b = "name"
      <4>1. Pending(b)' = {}
        BY <3>2 DEF Pending, Owes, First
      <4>2. Cardinality(Pending(b)') = 0
        BY <4>1, FS_EmptySet
      <4>3. slack'[b] = slack[b] + Limit[b] /\ Held(b)' = 0
        BY <2>6, <3>2 DEF Held, LimitsTyped, Buckets
      <4>4. QED
        BY <2>2, <2>3, <2>4, <4>2, <4>3
    <3>3. QED
      BY <3>1, <3>2
  <2>7. QED
    BY <2>5, <2>6 DEF ClearKey
<1>7. QED
  BY <1>5, <1>6
-----------------------------------------------------------------------------
(* refundAttempt and its two callers *)

\* A refund settles the debt it pays and makes no other.
LEMMA RefundKeeps ==
  ASSUME LimitsInv, NEW c \in Callers, NEW b0 \in Buckets, NEW k \in Caller,
         RefundAttempt(c, b0), UNCHANGED passed, caller' = [caller EXCEPT ![c] = k],
         Owes(caller[c], b0), ~Owes(k, b0),
         \A b \in Buckets : Owes(k, b) => Owes(caller[c], b) /\ k.counted = caller[c].counted,
         k.at = "refundAll" => k.kind = "enrol", k.at # "clear"
  PROVE  LimitsInv'
<1> USE DEF LimitsInv
<1>1. bucket' \in [Buckets -> Int \cup {None}] /\ slack' \in [Buckets -> Int]
  BY DEF RefundAttempt, GiveBack, LimitsTyped
<1>2. LimitsTyped' /\ KindsTrue'
  BY <1>1 DEF LimitsTyped, KindsTrue
<1>3. CountsTrue'
  <2> SUFFICES ASSUME NEW b \in Buckets
               PROVE  /\ passed'[b] + Cardinality(Pending(b)') <= Held(b)' + slack'[b]
                      /\ passed'[b] + Cardinality(Pending(b)') <= Limit[b] + slack'[b]
    BY DEF CountsTrue
  <2>1. /\ Cardinality(Pending(b)) \in Nat /\ Cardinality(Pending(b)') \in Nat
        /\ Cardinality(Pending(b)') <= Cardinality(Pending(b))
    BY PendingMoves
  <2>2. /\ passed[b] + Cardinality(Pending(b)) <= Held(b) + slack[b]
        /\ passed[b] + Cardinality(Pending(b)) <= Limit[b] + slack[b]
    BY DEF CountsTrue
  <2>3. /\ passed[b] \in Int /\ slack[b] \in Int /\ Limit[b] \in Nat /\ Held(b) \in Int
        /\ passed'[b] = passed[b]
    BY RateLimitAssumption DEF LimitsTyped, Held
  <2>4. CASE UNCHANGED <<bucket, slack>>
    <3>1. slack'[b] = slack[b] /\ Held(b)' = Held(b)
      BY <2>4 DEF Held
    <3>2. QED
      BY <2>1, <2>2, <2>3, <3>1
  <2>5. CASE /\ GiveBack(b0)
             /\ slack' = [slack EXCEPT ![b0] =
                    IF bucket[b0] # None /\ b0 \notin caller[c].counted THEN @ + 1 ELSE @]
    <3>1. CASE b # b0
      <4>1. slack'[b] = slack[b] /\ Held(b)' = Held(b)
        BY <2>5, <3>1 DEF Held, LimitsTyped, GiveBack
      <4>2. QED
        BY <2>1, <2>2, <2>3, <4>1
    <3>2. CASE b = b0 /\ b0 \in caller[c].counted
      <4>1. Cardinality(Pending(b)') = Cardinality(Pending(b)) - 1
        BY <3>2, PendingMoves
      <4>2. slack'[b] = slack[b] /\ Held(b)' \in {Held(b), Held(b) - 1}
        BY RateLimitAssumption, <2>5, <3>2 DEF Held, LimitsTyped, GiveBack
      <4>3. QED
        BY <2>1, <2>2, <2>3, <4>1, <4>2
    <3>3. CASE b = b0 /\ b0 \notin caller[c].counted
      <4>1. \/ slack'[b] = slack[b] /\ Held(b)' = Held(b)
            \/ slack'[b] = slack[b] + 1 /\ Held(b)' = Held(b) - 1
        BY RateLimitAssumption, <2>5, <3>3 DEF Held, LimitsTyped, GiveBack
      <4>2. QED
        BY <2>1, <2>2, <2>3, <4>1
    <3>4. QED
      BY <3>1, <3>2, <3>3
  <2>6. QED
    BY <2>4, <2>5 DEF RefundAttempt
<1>4. QED
  BY <1>2, <1>3

LEMMA SucceedKeeps ==
  ASSUME LimitsInv, NEW c \in Callers, Succeed(c)
  PROVE  LimitsInv'
<1> DEFINE b0 == First(caller[c].kind)
<1>1. caller[c] \in Caller /\ caller[c].at = "refund" /\ b0 \in {"address", "enrolAddress"}
  BY DEF LimitsInv, LimitsTyped, Succeed, First
<1>2. b0 \in Buckets /\ Owes(caller[c], b0)
  BY <1>1 DEF Buckets, Owes
<1>3. RefundAttempt(c, b0) /\ UNCHANGED passed
  BY DEF Succeed
<1> HIDE DEF b0
<1>4. CASE caller[c].kind = "login"
  <2>1. Away \in Caller /\ caller' = [caller EXCEPT ![c] = Away]
    BY <1>4 DEF Away, Caller, LimitStages, Kinds, Succeed
  <2>2. /\ ~Owes(Away, b0) /\ \A b \in Buckets : ~Owes(Away, b)
        /\ Away.at = "idle"
    BY DEF Owes, Away
  <2>3. QED
    BY <1>2, <1>3, <2>1, <2>2, RefundKeeps
<1>5. CASE caller[c].kind # "login"
  <2> DEFINE k == [caller[c] EXCEPT !.at = "refundAll"]
  <2>1. /\ k \in Caller /\ k.at = "refundAll" /\ k.kind = "enrol" /\ caller[c].kind = "enrol"
        /\ k.counted = caller[c].counted
    BY <1>1, <1>5 DEF Caller, LimitStages, Kinds
  <2>2. caller' = [caller EXCEPT ![c] = k]
    BY <1>5 DEF Succeed
  <2> HIDE DEF k
  <2>3. ~Owes(k, b0) /\ \A b \in Buckets : Owes(k, b) => Owes(caller[c], b)
    BY <1>1, <2>1 DEF Owes
  <2>4. QED
    BY <1>2, <1>3, <2>1, <2>2, <2>3, RefundKeeps
<1>6. QED
  BY <1>4, <1>5

LEMMA SucceedAllKeeps ==
  ASSUME LimitsInv, NEW c \in Callers, SucceedAll(c)
  PROVE  LimitsInv'
<1>1. Away \in Caller /\ caller' = [caller EXCEPT ![c] = Away]
  BY DEF Away, Caller, LimitStages, Kinds, SucceedAll
<1>2. Away.at = "idle" /\ \A b \in Buckets : ~Owes(Away, b)
  BY DEF Owes, Away
<1>3. "everyone" \in Buckets /\ Owes(caller[c], "everyone")
  BY DEF Buckets, Owes, SucceedAll, LimitsInv, KindsTrue
<1>4. RefundAttempt(c, "everyone") /\ UNCHANGED passed
  BY DEF SucceedAll
<1>5. QED
  BY <1>1, <1>2, <1>3, <1>4, RefundKeeps

-----------------------------------------------------------------------------
(* The guard of the shop's requests, and the clock *)

LEMMA CanActivateKeeps ==
  ASSUME LimitsInv, CanActivate
  PROVE  LimitsInv'
<1> USE DEF LimitsInv
<1>1. /\ Consume("route") \/ UNCHANGED bucket
      /\ \/ Consume("route") /\ Count("route") <= Limit["route"] /\ LetIn("route")
         \/ UNCHANGED passed
      /\ UNCHANGED <<caller, slack>> /\ "route" \in Buckets
  BY DEF CanActivate, CheckRateLimit, Buckets
<1>2. LimitsTyped' /\ KindsTrue'
  <2>1. bucket' \in [Buckets -> Int \cup {None}]
    BY <1>1 DEF LimitsTyped, Consume, Count
  <2>2. passed' \in [Buckets -> Int]
    BY <1>1 DEF LimitsTyped, LetIn
  <2>3. QED
    BY <1>1, <2>1, <2>2 DEF LimitsTyped, KindsTrue
<1>3. CountsTrue'
  <2> SUFFICES ASSUME NEW b \in Buckets
               PROVE  /\ passed'[b] + Cardinality(Pending(b)') <= Held(b)' + slack'[b]
                      /\ passed'[b] + Cardinality(Pending(b)') <= Limit[b] + slack'[b]
    BY DEF CountsTrue
  <2>1. Pending(b)' = Pending(b) /\ Cardinality(Pending(b)) \in Nat
    <3>1. Pending(b)' = Pending(b)
      BY <1>1 DEF Pending, Owes
    <3>2. IsFiniteSet(Pending(b))
      BY RateLimitAssumption, FS_Subset DEF Pending
    <3>3. QED
      BY <3>1, <3>2, FS_CardinalityType
  <2>2. /\ passed[b] + Cardinality(Pending(b)) <= Held(b) + slack[b]
        /\ passed[b] + Cardinality(Pending(b)) <= Limit[b] + slack[b]
    BY DEF CountsTrue
  <2>3. passed[b] \in Int /\ slack[b] \in Int /\ slack'[b] = slack[b] /\ Limit[b] \in Nat
    BY <1>1, RateLimitAssumption DEF LimitsTyped
  <2>4. Held(b) \in Int /\ Held(b)' \in Int /\ Held(b) <= Held(b)'
    <3>1. CASE Consume("route")
      BY <1>1, <3>1, CountGrows
    <3>2. CASE UNCHANGED bucket
      BY <3>2 DEF Held, LimitsTyped
    <3>3. QED
      BY <1>1, <3>1, <3>2
  <2>5. CASE UNCHANGED passed
    BY <2>1, <2>2, <2>3, <2>4, <2>5
  <2>6. CASE Consume("route") /\ Count("route") <= Limit["route"] /\ LetIn("route")
    <3>1. passed'[b] = IF b = "route" THEN passed[b] + 1 ELSE passed[b]
      BY <2>6 DEF LetIn, LimitsTyped
    <3>2. /\ Count("route") \in Int /\ Held("route") + 1 = Count("route")
          /\ Held(b)' = IF b = "route" THEN Held(b) + 1 ELSE Held(b)
      BY <1>1, <2>6, CountGrows
    <3>3. QED
      BY <2>1, <2>2, <2>3, <2>4, <2>6, <3>1, <3>2
  <2>7. QED
    BY <1>1, <2>5, <2>6
<1>4. QED
  BY <1>2, <1>3

\* A slice begins with nothing counted and nothing owed: what is still on its way comes
\* back uncounted.
LEMMA WindowKeyKeeps ==
  ASSUME LimitsInv, WindowKey
  PROVE  LimitsInv'
<1> USE DEF LimitsInv
<1>1. \A c \in Callers : caller'[c] \in Caller
  <2> SUFFICES ASSUME NEW c \in Callers PROVE caller'[c] \in Caller
    OBVIOUS
  <2>1. caller'[c] = [caller[c] EXCEPT !.counted = {}] /\ caller[c] \in Caller
    BY DEF WindowKey, LimitsTyped
  <2>2. QED
    BY <2>1 DEF Caller
<1>2. \A c \in Callers : /\ caller'[c].at = caller[c].at /\ caller'[c].kind = caller[c].kind
                         /\ caller'[c].counted = {}
  BY DEF WindowKey, LimitsTyped, Caller
<1>3. LimitsTyped' /\ KindsTrue'
  BY <1>1, <1>2 DEF WindowKey, LimitsTyped, KindsTrue
<1>4. CountsTrue'
  <2> SUFFICES ASSUME NEW b \in Buckets
               PROVE  /\ passed'[b] + Cardinality(Pending(b)') <= Held(b)' + slack'[b]
                      /\ passed'[b] + Cardinality(Pending(b)') <= Limit[b] + slack'[b]
    BY DEF CountsTrue
  <2>1. Pending(b)' = {}
    BY <1>2 DEF Pending
  <2>2. Cardinality(Pending(b)') = 0
    BY <2>1, FS_EmptySet
  <2>3. passed'[b] = 0 /\ slack'[b] = 0 /\ Held(b)' = 0 /\ Limit[b] \in Nat
    BY RateLimitAssumption DEF WindowKey, Held
  <2>4. QED
    BY <2>2, <2>3
<1>5. QED
  BY <1>3, <1>4

\* What Redis forgets is at most what the limit had let in, or was still to come back.
LEMMA EvictKeeps ==
  ASSUME LimitsInv, NEW b0 \in Buckets, Evict(b0)
  PROVE  LimitsInv'
<1> USE DEF LimitsInv
<1>1. bucket' \in [Buckets -> Int \cup {None}] /\ slack' \in [Buckets -> Int]
  <2>1. bucket' = [bucket EXCEPT ![b0] = None] /\ bucket \in [Buckets -> Int \cup {None}]
    BY DEF Evict, LimitsTyped
  <2>2. bucket' \in [Buckets -> Int \cup {None}]
    BY <2>1
  <2>3. slack[b0] + Limit[b0] \in Int
    BY RateLimitAssumption DEF LimitsTyped
  <2>4. slack' \in [Buckets -> Int]
    BY <2>3 DEF Evict, LimitsTyped
  <2>5. QED
    BY <2>2, <2>4
<1>2. LimitsTyped' /\ KindsTrue'
  BY <1>1 DEF Evict, LimitsTyped, KindsTrue
<1>3. CountsTrue'
  <2> SUFFICES ASSUME NEW b \in Buckets
               PROVE  /\ passed'[b] + Cardinality(Pending(b)') <= Held(b)' + slack'[b]
                      /\ passed'[b] + Cardinality(Pending(b)') <= Limit[b] + slack'[b]
    BY DEF CountsTrue
  <2>1. Pending(b)' = Pending(b) /\ Cardinality(Pending(b)) \in Nat
    <3>1. Pending(b)' = Pending(b)
      BY DEF Evict, Pending, Owes
    <3>2. IsFiniteSet(Pending(b))
      BY RateLimitAssumption, FS_Subset DEF Pending
    <3>3. QED
      BY <3>1, <3>2, FS_CardinalityType
  <2>2. /\ passed[b] + Cardinality(Pending(b)) <= Held(b) + slack[b]
        /\ passed[b] + Cardinality(Pending(b)) <= Limit[b] + slack[b]
    BY DEF CountsTrue
  <2>3. passed[b] \in Int /\ slack[b] \in Int /\ Limit[b] \in Nat /\ passed'[b] = passed[b]
    BY RateLimitAssumption DEF LimitsTyped, Evict
  <2>4. Held(b) \in Int
    BY DEF LimitsTyped, Held
  <2>5. CASE b # b0
    <3>1. slack'[b] = slack[b] /\ Held(b)' = Held(b)
      BY <2>5 DEF Evict, Held, LimitsTyped
    <3>2. QED
      BY <2>1, <2>2, <2>3, <2>4, <3>1
  <2>6. CASE b = b0
    <3>1. slack'[b] = slack[b] + Limit[b] /\ Held(b)' = 0
      BY <2>6 DEF Evict, Held, LimitsTyped
    <3>2. QED
      BY <2>1, <2>2, <2>3, <2>4, <3>1
  <2>7. QED
    BY <2>5, <2>6
<1>4. QED
  BY <1>2, <1>3

-----------------------------------------------------------------------------
(* The theorem *)

LEMMA InitLimits == RateLimitInit => LimitsInv
<1> SUFFICES ASSUME RateLimitInit PROVE LimitsInv
  OBVIOUS
<1>1. \A c \in Callers : caller[c] = Away
  BY DEF RateLimitInit
<1>2. Away \in Caller /\ Away.at = "idle" /\ Away.counted = {}
  BY DEF Away, Caller, LimitStages, Kinds
<1>3. LimitsTyped /\ KindsTrue
  BY <1>1, <1>2 DEF RateLimitInit, LimitsTyped, KindsTrue
<1>4. ASSUME NEW b \in Buckets PROVE Cardinality(Pending(b)) = 0
  <2>1. Pending(b) = {}
    BY <1>1, <1>2 DEF Pending
  <2>2. QED
    BY <2>1, FS_EmptySet
<1>5. CountsTrue
  BY <1>4, RateLimitAssumption DEF RateLimitInit, CountsTrue, Held
<1>6. QED
  BY <1>3, <1>5 DEF LimitsInv

LEMMA LimitsStep == LimitsInv /\ [RateLimitNext]_limitVars => LimitsInv'
<1> SUFFICES ASSUME LimitsInv, [RateLimitNext]_limitVars PROVE LimitsInv'
  OBVIOUS
<1>1. ASSUME NEW c \in Callers, NEW kind \in Kinds, Arrive(c, kind) PROVE LimitsInv'
  BY <1>1, ConsumeKeeps DEF Arrive, First, Buckets
<1>2. ASSUME NEW c \in Callers, Proceed(c) PROVE LimitsInv'
  <2>1. caller[c].kind \in Kinds /\ Second(caller[c].kind) \in Buckets
    BY DEF LimitsInv, LimitsTyped, Caller, Second, Buckets
  <2>2. QED
    BY <1>2, <2>1, ConsumeKeeps DEF Proceed
<1>3. ASSUME NEW c \in Callers, Fail(c) PROVE LimitsInv'
  BY <1>3, WrongKeeps
<1>4. ASSUME NEW c \in Callers, Right(c) PROVE LimitsInv'
  BY <1>4, RightAnswerKeeps
<1>5. ASSUME NEW c \in Callers, ClearKey(c) PROVE LimitsInv'
  BY <1>5, ClearKeyKeeps
<1>6. ASSUME NEW c \in Callers, Succeed(c) PROVE LimitsInv'
  BY <1>6, SucceedKeeps
<1>7. ASSUME NEW c \in Callers, SucceedAll(c) PROVE LimitsInv'
  BY <1>7, SucceedAllKeeps
<1>8. CASE CanActivate
  BY <1>8, CanActivateKeeps
<1>9. CASE WindowKey
  BY <1>9, WindowKeyKeeps
<1>10. ASSUME NEW b \in Buckets, Evict(b) PROVE LimitsInv'
  BY <1>10, EvictKeeps
<1>11. CASE UNCHANGED limitVars
  BY <1>11 DEF limitVars, LimitsInv, LimitsTyped, KindsTrue, CountsTrue, Held, Pending, Owes
<1>12. QED
  BY <1>1, <1>2, <1>3, <1>4, <1>5, <1>6, <1>7, <1>8, <1>9, <1>10, <1>11 DEF RateLimitNext

LEMMA LimitsKept == OfficeSpec => []LimitsInv
<1>1. OfficeInit => LimitsInv
  BY InitLimits DEF OfficeInit
<1>2. LimitsInv /\ [OfficeNext]_officeVars => LimitsInv'
  BY OneStep, LimitsStep
<1>3. QED
  BY <1>1, <1>2, PTL DEF OfficeSpec

\* No slice lets in more wrong guesses than its limit and one more for each time its
\* counter was cleared or lost, for any number of callers and any limits: consumeAttempt,
\* refundAttempt and clearKey of rate-limit.service.ts.
THEOREM GuessesAreBounded == OfficeSpec => []GuessesBounded
<1>1. LimitsInv => GuessesBounded
  <2> SUFFICES ASSUME LimitsInv, NEW b \in Buckets PROVE passed[b] <= Limit[b] + slack[b]
    BY DEF GuessesBounded
  <2>1. Cardinality(Pending(b)) \in Nat
    BY RateLimitAssumption, FS_Subset, FS_CardinalityType DEF Pending
  <2>2. passed[b] \in Int /\ slack[b] \in Int /\ Limit[b] \in Nat
    BY RateLimitAssumption DEF LimitsInv, LimitsTyped
  <2>3. passed[b] + Cardinality(Pending(b)) <= Limit[b] + slack[b]
    BY DEF LimitsInv, CountsTrue
  <2>4. QED
    BY <2>1, <2>2, <2>3
<1>2. QED
  BY <1>1, LimitsKept, PTL
=============================================================================
