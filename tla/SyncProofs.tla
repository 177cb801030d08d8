----------------------------- MODULE SyncProofs -----------------------------
(***************************************************************************)
(* Proofs about the till and the server that takes in its outbox: every    *)
(* document counts once, none is lost, none overtakes its bill, no number  *)
(* is used twice and none is changed unseen, for every set of carts, every *)
(* bound on pushes and mishaps and every size of a batch.                  *)
(***************************************************************************)
EXTENDS Sync, SequenceTheorems, FiniteSetTheorems, WellFoundedInduction, TLAPS

\* What every variable holds.
Types ==
    /\ mode \in {"online", "degraded", "syncing"}
    /\ outbox \in Seq(OutboxOp)
    /\ counter \in Counters /\ counters \in Counters
    /\ paper \in [Ops -> DocNo \cup {None}]
    /\ attempt \in [Ops -> {"none", "asked", "parked", "online", "queued", "given up"}]
    /\ due \in BOOLEAN
    /\ waiting \in Pushes \cup {None}
    /\ posts \subseteq Bills
    /\ replies \subseteq [bill : Bills, no : DocNo \cup {None}]
    /\ push \in [Pushes -> Push \cup {None}]
    /\ rows \in [Ops -> Row \cup {None}]
    /\ keys \in [Ops -> Fingerprints \cup {None}]
    /\ effects \in [Ops -> Nat]
    /\ unsynced \in Nat

-----------------------------------------------------------------------------
(* The inductive invariant *)

\* A key is kept for a document the server has, and only a new document counts.
Claimed ==
    \A op \in Ops :
        /\ effects[op] = IF Stored(op) THEN 1 ELSE 0
        /\ keys[op] # None => Stored(op)

\* A date the server moved is known to the owner.
DatesKnown ==
    \A op \in Ops : Stored(op) /\ rows[op].offline /\ rows[op].dated = "server" /\ op[1] # "void" =>
        <<"date_flag", op>> \in review

\* The owner knows of a number on paper that is not the server's.
Known(op) ==
    paper[op] # None /\ rows[op].no # paper[op] => <<"receipt_renumbered", op>> \in review

Settled(op) == Stored(op) /\ Known(op)

\* The till prints no further number for what it has queued; it may queue a void again.
Drawn(op) == op[1] # "void" => attempt[op] \in {"queued", "given up"}

\* An entry carries the number on the paper.
Printed(s) == \A i \in DOMAIN s : s[i].no = paper[s[i].op] /\ Drawn(s[i].op)

Judged(op) == \E v \in verdicts : v[1] = op

Papers ==
    /\ Printed(outbox)
    /\ \A p \in Pushes : push[p] # None => Printed(push[p].ops)
    /\ \A op \in Ops : op[1] = "void" => paper[op] = None
    /\ \A op \in Ops : keys[op] = "queued" => Settled(op) /\ Drawn(op)

\* What the till has been told, or will be, the server stands by.
Told ==
    /\ \A op \in Ops : attempt[op] = "queued" /\ ~ Queued(op) => Settled(op) \/ op \in dropped
    /\ \A op \in Ops : attempt[op] = "online" => Stored(op)
    /\ \A r \in replies : r.no # None => Stored(Sale(r.bill))
    /\ \A p \in Pushes : push[p] # None => \A i \in DOMAIN push[p].results :
          /\ push[p].results[i] = "applied" => Settled(push[p].ops[i].op)
          /\ push[p].results[i] = "rejected" => Judged(push[p].ops[i].op)

\* A bill that no longer has to come before its credit note or its void.
Past(b) == Stored(Sale(b)) \/ Sale(b) \in dropped \/ Judged(Sale(b))

\* The credit notes and voids of s come after their bills.
Follows(s) ==
    \A k \in DOMAIN s : s[k].op[1] # "sale" =>
        Past(s[k].op[2]) \/ \E j \in 1..(k - 1) : s[j].op = Sale(s[k].op[2])

Order ==
    /\ Follows(outbox)
    /\ \A p \in Pushes : push[p] # None => Follows(push[p].ops)
    /\ InOrder

\* A push has as many results as numbers and is never empty; what the till waits on
\* is still pending in its outbox.
Batches ==
    /\ \A p \in Pushes : push[p] # None =>
          /\ Len(push[p].results) = Len(push[p].nos)
          /\ Len(push[p].results) <= Len(push[p].ops) /\ Len(push[p].ops) <= BatchSize
          /\ push[p].stage # "over" => Len(push[p].ops) \in 1..BatchSize
    /\ \A p \in Pushes : waiting = p =>
          /\ push[p] # None /\ push[p].stage # "over"
          /\ \A i \in DOMAIN push[p].ops, k \in DOMAIN outbox :
                outbox[k].op = push[p].ops[i].op => outbox[k].status = "pending"
    /\ \A k \in DOMAIN outbox : outbox[k].status = "pending" => outbox[k].attempts < StuckAt

SyncInv == Types /\ Claimed /\ NumbersDiffer /\ DatesKnown /\ Papers /\ Told /\ Order /\ Batches
-----------------------------------------------------------------------------
(* Operations and numbers *)

\* An operation is a bill, a credit note or a void, and tells which and of which bill.
LEMMA OpKinds ==
  /\ \A b : Sale(b)[1] = "sale" /\ Sale(b)[2] = b
  /\ \A b : Return(b)[1] = "return" /\ Return(b)[2] = b
  /\ \A b : Void(b)[1] = "void" /\ Void(b)[2] = b
  /\ \A b \in Bills : Sale(b) \in Ops
  /\ \A b \in Returned : Return(b) \in Ops /\ b \in Bills
  /\ \A b \in Voided : Void(b) \in Ops /\ b \in Bills
BY BillsAssumption DEF Sale, Return, Void, Ops

\* There is no operation of another kind.
LEMMA OpCases ==
  ASSUME NEW op \in Ops
  PROVE  /\ op[2] \in Bills
         /\ \/ op[1] = "sale" /\ op = Sale(op[2])
            \/ op[1] = "return" /\ op = Return(op[2]) /\ op[2] \in Returned
            \/ op[1] = "void" /\ op = Void(op[2]) /\ op[2] \in Voided
BY BillsAssumption DEF Sale, Return, Void, Ops

LEMMA SeriesTyped == \A op : SeriesOf(op) \in Series
BY DEF SeriesOf, Series

\* The next number is one of its series, above the counter.
LEMMA NextTyped ==
  ASSUME NEW c \in Counters, NEW s \in Series, MayIssue(c, s)
  PROVE  /\ NextDocNo(c, s) \in DocNo
         /\ NextDocNo(c, s).series = s /\ NextDocNo(c, s).seq = c[s] + 1
BY DocAssumption DEF Counters, MayIssue, NextDocNo, FormatDocNumber, DocNo

\* A counter that takes a number is at it or past it, and never goes back.
LEMMA RecordTyped ==
  ASSUME NEW c \in Counters, NEW no \in DocNo
  PROVE  /\ RecordClientDocNumber(c, no) \in Counters
         /\ \A s \in Series : RecordClientDocNumber(c, no)[s] >= c[s]
         /\ RecordClientDocNumber(c, no)[no.series] >= no.seq
<1>1. c \in [Series -> 0..MaxDocNo] /\ no.series \in Series /\ no.seq \in 1..MaxDocNo
  BY DEF Counters, DocNo
<1>2. (IF no.seq > c[no.series] THEN no.seq ELSE c[no.series]) \in 0..MaxDocNo
  BY <1>1, DocAssumption
<1> QED BY <1>1, <1>2, DocAssumption DEF RecordClientDocNumber, Counters

-----------------------------------------------------------------------------
(* Sequences some places of which are kept *)

\* The place of a kept entry.
Place(I, k) == CHOOSE i \in I : Cardinality({j \in I : j <= i}) = k

\* Kept takes every place that is kept, once, and leaves their order.
LEMMA Places ==
  ASSUME NEW n \in Nat, NEW I \in SUBSET (1..n)
  PROVE  /\ IsFiniteSet(I) /\ Cardinality(I) \in 0..n
         /\ \A k \in 1..Cardinality(I) : Place(I, k) \in I
         /\ \A i \in I : \E k \in 1..Cardinality(I) : Place(I, k) = i
         /\ \A k, l \in 1..Cardinality(I) : k < l => Place(I, k) < Place(I, l)
<1> DEFINE Below(i) == {j \in I : j <= i}
           rank == [i \in I |-> Cardinality(Below(i))]
           N == Cardinality(I)
<1>0. \A i \in I : i \in Int
  OBVIOUS
<1>1. IsFiniteSet(I) /\ N \in Nat /\ N <= n
  <2>1. IsFiniteSet(1..n) /\ Cardinality(1..n) = n
    BY FS_Interval
  <2>2. IsFiniteSet(I) /\ Cardinality(I) <= Cardinality(1..n)
    BY <2>1, FS_Subset
  <2> QED BY <2>1, <2>2, FS_CardinalityType
<1>2. ASSUME NEW i \in I PROVE IsFiniteSet(Below(i)) /\ rank[i] = Cardinality(Below(i)) /\ rank[i] \in 1..N
  <2>1. Below(i) \subseteq I /\ i \in Below(i)
    OBVIOUS
  <2>2. IsFiniteSet(Below(i)) /\ Cardinality(Below(i)) <= N
    BY <1>1, <2>1, FS_Subset
  <2>3. Cardinality(Below(i)) \in Nat /\ Cardinality(Below(i)) # 0
    BY <2>1, <2>2, FS_CardinalityType, FS_EmptySet
  <2> QED BY <2>2, <2>3, <1>1
<1>3. ASSUME NEW i \in I, NEW j \in I, i < j PROVE rank[i] < rank[j]
  <2>1. Below(i) \subseteq Below(j) /\ j \in Below(j) /\ j \notin Below(i)
    <3>1. i \in Int /\ j \in Int /\ j <= j /\ ~ (j <= i)
      BY <1>0, <1>3
    <3>2. \A l \in I : l <= i => l <= j
      BY <1>0, <1>3
    <3> QED BY <3>1, <3>2
  <2>2. Cardinality(Below(i)) < Cardinality(Below(j))
    <3>1. IsFiniteSet(Below(j)) /\ IsFiniteSet(Below(i))
      BY <1>2
    <3> HIDE DEF Below
    <3>2. Cardinality(Below(i)) <= Cardinality(Below(j))
      BY <2>1, <3>1, FS_Subset
    <3>3. Cardinality(Below(i)) # Cardinality(Below(j))
      BY <2>1, <3>1, FS_Subset
    <3> QED BY <3>1, <3>2, <3>3, FS_CardinalityType
  <2> QED BY <2>2
<1>4. rank \in Injection(I, 1..N)
  <2>1. rank \in [I -> 1..N]
    BY <1>2
  <2>2. \A i, j \in I : rank[i] = rank[j] => i = j
    BY <1>2, <1>3
  <2> QED BY <2>1, <2>2 DEF Injection, IsInjective
<1>5. \A k \in 1..N : \E i \in I : rank[i] = k
  <2>1. IsFiniteSet(1..N) /\ Cardinality(1..N) = N
    BY <1>1, FS_Interval
  <2>2. rank \in Surjection(I, 1..N)
    <3>1. Cardinality(I) = Cardinality(1..N)
      BY <2>1
    <3> HIDE DEF rank, N
    <3> QED BY <1>4, <2>1, <3>1, FS_Injection, Zenon
  <2> QED BY <2>2 DEF Surjection
<1>6. ASSUME NEW k \in 1..N PROVE Place(I, k) \in I /\ rank[Place(I, k)] = k
  <2>1. \E i \in I : Cardinality({j \in I : j <= i}) = k
    BY <1>5
  <2> QED BY <2>1 DEF Place
<1>7. ASSUME NEW i \in I PROVE \E k \in 1..N : Place(I, k) = i
  <2>1. rank[i] \in 1..N
    BY <1>2
  <2>2. rank[Place(I, rank[i])] = rank[i] /\ Place(I, rank[i]) \in I
    BY <1>6, <2>1
  <2>3. \A x, y \in I : rank[x] = rank[y] => x = y
    BY <1>4 DEF Injection, IsInjective
  <2> QED BY <2>1, <2>2, <2>3
<1>8. ASSUME NEW k \in 1..N, NEW l \in 1..N, k < l PROVE Place(I, k) < Place(I, l)
  <2>1. Place(I, k) \in I /\ Place(I, l) \in I /\ rank[Place(I, k)] = k /\ rank[Place(I, l)] = l
    BY <1>6
  <2>2. Place(I, k) \in Int /\ Place(I, l) \in Int
    BY <1>0, <2>1
  <2>3. Place(I, l) < Place(I, k) => rank[Place(I, l)] < rank[Place(I, k)]
    BY <1>3, <2>1
  <2>4. Place(I, l) # Place(I, k)
    BY <2>1, <1>8
  <2>5. k \in Int /\ l \in Int
    BY <1>1
  <2> HIDE DEF rank, N
  <2> QED BY <2>1, <2>2, <2>3, <2>4, <2>5, <1>8
<1>9. Cardinality(I) \in 0..n
  BY <1>1
<1> QED BY <1>1, <1>6, <1>7, <1>8, <1>9

\* What Kept returns: entries of s, in their order, each kept place once.
LEMMA KeptIs ==
  ASSUME NEW S, NEW s \in Seq(S), NEW I \in SUBSET (DOMAIN s)
  PROVE  /\ Kept(s, I) \in Seq(S) /\ Len(Kept(s, I)) \in 0..Len(s)
         /\ DOMAIN Kept(s, I) = 1..Cardinality(I) /\ Len(Kept(s, I)) = Cardinality(I)
         /\ \A k \in DOMAIN Kept(s, I) : Place(I, k) \in I /\ Kept(s, I)[k] = s[Place(I, k)]
         /\ \A i \in I : \E k \in DOMAIN Kept(s, I) : Place(I, k) = i
         /\ \A k, l \in DOMAIN Kept(s, I) : k < l => Place(I, k) < Place(I, l)
<1> DEFINE K == Kept(s, I)
<1>1. Len(s) \in Nat /\ DOMAIN s = 1..Len(s) /\ I \in SUBSET (1..Len(s))
  OBVIOUS
<1>2. /\ Cardinality(I) \in 0..Len(s)
      /\ \A k \in 1..Cardinality(I) : Place(I, k) \in I
      /\ \A i \in I : \E k \in 1..Cardinality(I) : Place(I, k) = i
      /\ \A k, l \in 1..Cardinality(I) : k < l => Place(I, k) < Place(I, l)
  BY <1>1, Places
<1>3. K = [k \in 1..Cardinality(I) |-> s[Place(I, k)]]
  BY DEF Kept, Place
<1>4. Cardinality(I) \in Nat
  BY <1>1, <1>2
<1>5. DOMAIN K = 1..Cardinality(I) /\ \A k \in DOMAIN K : K[k] = s[Place(I, k)]
  BY <1>3
<1>6. \A k \in 1..Cardinality(I) : s[Place(I, k)] \in S
  BY <1>1, <1>2
<1>7. K \in Seq(S) /\ Len(K) = Cardinality(I)
  BY <1>3, <1>4, <1>6
<1> QED BY <1>2, <1>5, <1>7
-----------------------------------------------------------------------------
(* Types *)

LEMMA InitTypes == Init => Types
<1> SUFFICES ASSUME Init PROVE Types
  OBVIOUS
<1>1. NoCounters \in Counters
  BY DocAssumption DEF NoCounters, Counters
<1>2. outbox \in Seq(OutboxOp)
  BY DEF Init
<1> QED BY <1>1, <1>2 DEF Init, Types

LEMMA OutboxIs ==
  ASSUME Types
  PROVE  outbox \in Seq(OutboxOp) /\ DOMAIN outbox = 1..Len(outbox) /\ Len(outbox) \in Nat
<1>1. outbox \in Seq(OutboxOp)
  BY DEF Types
<1> QED BY <1>1

LEMMA EntryIs ==
  ASSUME Types, NEW i \in DOMAIN outbox
  PROVE  outbox[i] \in OutboxOp /\ outbox[i].op \in Ops /\ i \in 1..Len(outbox)
<1>1. outbox[i] \in OutboxOp /\ i \in 1..Len(outbox)
  BY OutboxIs
<1> QED BY <1>1 DEF OutboxOp

LEMMA PushIs ==
  ASSUME Types, NEW p \in Pushes, push[p] # None
  PROVE  /\ push[p] \in Push /\ push[p].stage \in {"running", "answered", "over"}
         /\ push[p].ops \in Seq(OutboxOp) /\ push[p].results \in Seq(Result)
         /\ push[p].nos \in Seq(DocNo \cup {None}) /\ push[p].remaining \in Nat
         /\ DOMAIN push[p].ops = 1..Len(push[p].ops) /\ Len(push[p].ops) \in Nat
         /\ DOMAIN push[p].results = 1..Len(push[p].results) /\ Len(push[p].results) \in Nat
         /\ DOMAIN push[p].nos = 1..Len(push[p].nos) /\ Len(push[p].nos) \in Nat
<1>1. push[p] \in Push
  BY DEF Types
<1>2. /\ push[p].stage \in {"running", "answered", "over"}
      /\ push[p].ops \in Seq(OutboxOp) /\ push[p].results \in Seq(Result)
      /\ push[p].nos \in Seq(DocNo \cup {None}) /\ push[p].remaining \in Nat
  BY <1>1 DEF Push
<1> QED BY <1>1, <1>2

\* A new entry of the outbox is one.
LEMMA EnqueueTypes ==
  ASSUME Types, NEW op \in Ops, NEW no \in DocNo \cup {None}, NEW m, Enqueue(op, no, m)
  PROVE  /\ outbox' \in Seq(OutboxOp)
         /\ counter' \in Counters
         /\ paper' \in [Ops -> DocNo \cup {None}]
         /\ attempt' \in [Ops -> {"none", "asked", "parked", "online", "queued", "given up"}]
         /\ due' \in BOOLEAN
<1>1. [op |-> op, no |-> no, status |-> "pending", attempts |-> 0] \in OutboxOp
  BY PushAssumption DEF OutboxOp
<1>2. outbox' \in Seq(OutboxOp)
  <2>1. PICK e \in OutboxOp : outbox' = Append(outbox, e)
    BY <1>1 DEF Enqueue
  <2>2. outbox \in Seq(OutboxOp)
    BY DEF Types
  <2> QED BY <2>1, <2>2
<1>3. counter' \in Counters
  BY RecordTyped DEF Types, Enqueue
<1>4. due' \in BOOLEAN
  <2>1. due' = (due \/ m # "degraded")
    BY DEF Enqueue
  <2> QED BY <2>1, Zenon
<1> QED BY <1>2, <1>3, <1>4 DEF Types, Enqueue

LEMMA NumberedTypes ==
  ASSUME Types, NEW op \in Ops, NEW m, EnqueueNumbered(op, m)
  PROVE  \E no \in DocNo : no = NextDocNo(counter, SeriesOf(op)) /\ Enqueue(op, no, m)
<1>1. counter \in Counters
  BY DEF Types
<1> QED BY <1>1, NextTyped, SeriesTyped DEF EnqueueNumbered

\* An entry that got no verdict is one, as long as it was pending.
LEMMA FailedTypes ==
  ASSUME NEW e \in OutboxOp, e.status = "pending" => e.attempts < StuckAt, e.status = "pending"
  PROVE  /\ Failed(e) \in OutboxOp /\ Failed(e).op = e.op /\ Failed(e).no = e.no
         /\ Failed(e).status = "pending" => Failed(e).attempts < StuckAt
<1>1. e.attempts + 1 \in 0..StuckAt
  BY PushAssumption DEF OutboxOp
<1>2. /\ Failed(e).op = e.op /\ Failed(e).no = e.no /\ Failed(e).attempts = e.attempts + 1
      /\ Failed(e).status = IF e.attempts + 1 >= StuckAt THEN "stuck" ELSE "pending"
  BY DEF OutboxOp, Failed
<1>3. e.op \in Ops /\ e.no \in DocNo \cup {None}
  BY DEF OutboxOp
<1>4. Failed(e).status = "pending" => Failed(e).attempts < StuckAt
  BY <1>1, <1>2, PushAssumption
<1>5. Failed(e) \in OutboxOp
  BY <1>1, PushAssumption DEF OutboxOp, Failed
<1> QED BY <1>2, <1>4, <1>5

\* A refused entry is one.
LEMMA RejectedTypes ==
  ASSUME NEW e \in OutboxOp, NEW f, f = [e EXCEPT !.status = "rejected", !.attempts = 0]
  PROVE  f \in OutboxOp /\ f.op = e.op /\ f.no = e.no /\ f.status = "rejected"
<1>1. 0 \in 0..StuckAt
  BY PushAssumption
<1>2. f.op = e.op /\ f.no = e.no /\ f.status = "rejected" /\ f.attempts = 0
  BY DEF OutboxOp
<1>3. f \in OutboxOp
  BY <1>1 DEF OutboxOp
<1> QED BY <1>2, <1>3

LEMMA SaveSaleTypes ==
  ASSUME Types, NEW b \in Bills, SaveSale(b)
  PROVE  Types'
<1>1. Sale(b) \in Ops
  BY OpKinds
<1>2. CASE EnqueueNumbered(Sale(b), mode) /\ UNCHANGED posts
  <2>1. PICK no \in DocNo : Enqueue(Sale(b), no, mode)
    BY <1>1, <1>2, NumberedTypes
  <2> QED BY <1>1, <1>2, <2>1, EnqueueTypes DEF Types, SaveSale, server, owner
<1>3. CASE /\ posts' = posts \cup {b}
           /\ attempt' = [attempt EXCEPT ![Sale(b)] = "asked"]
           /\ UNCHANGED <<outbox, paper, counter, due>>
  BY <1>1, <1>3 DEF Types, SaveSale, server, owner
<1> QED BY <1>2, <1>3 DEF SaveSale

LEMMA SaleAnsweredTypes ==
  ASSUME Types, NEW r \in replies, SaleAnswered(r)
  PROVE  Types'
<1>1. r.bill \in Bills /\ r.no \in DocNo \cup {None} /\ Sale(r.bill) \in Ops
  BY OpKinds DEF Types
<1>2. CASE r.no = None /\ attempt' = [attempt EXCEPT ![Sale(r.bill)] = "given up"]
           /\ UNCHANGED <<paper, counter>>
  BY <1>1, <1>2 DEF Types, SaleAnswered, server, owner
<1>3. CASE /\ r.no # None
           /\ attempt' = [attempt EXCEPT ![Sale(r.bill)] = "online"]
           /\ paper' = [paper EXCEPT ![Sale(r.bill)] = r.no]
           /\ counter' = RecordClientDocNumber(counter, r.no)
  <2>1. counter' \in Counters
    BY <1>1, <1>3, RecordTyped DEF Types
  <2> QED BY <1>1, <1>3, <2>1 DEF Types, SaleAnswered, server, owner
<1> QED BY <1>2, <1>3 DEF SaleAnswered

LEMMA SaleUnansweredTypes ==
  ASSUME Types, NEW b \in Bills, SaleUnanswered(b)
  PROVE  Types'
<1>1. Sale(b) \in Ops
  BY OpKinds
<1>2. replies' \subseteq replies
  BY DEF SaleUnanswered
<1>3. CASE mode' = "degraded" /\ EnqueueNumbered(Sale(b), "degraded")
  <2>1. PICK no \in DocNo : Enqueue(Sale(b), no, "degraded")
    BY <1>1, <1>3, NumberedTypes
  <2> QED BY <1>1, <1>2, <1>3, <2>1, EnqueueTypes DEF Types, SaleUnanswered, server, Mishap
<1>4. CASE /\ attempt' = [attempt EXCEPT ![Sale(b)] = "parked"]
           /\ UNCHANGED <<mode, outbox, paper, counter, due>>
  BY <1>1, <1>2, <1>4 DEF Types, SaleUnanswered, server, Mishap
<1> QED BY <1>3, <1>4 DEF SaleUnanswered

LEMMA VoidOfflineTypes ==
  ASSUME Types, NEW b \in Voided, VoidOffline(b)
  PROVE  Types'
<1>1. Void(b) \in Ops /\ Enqueue(Void(b), None, mode)
  BY OpKinds DEF VoidOffline
<1> QED BY <1>1, EnqueueTypes DEF Types, VoidOffline, wire, server, owner

LEMMA ReturnOfflineTypes ==
  ASSUME Types, NEW b \in Returned, ReturnOffline(b)
  PROVE  Types'
<1>1. Return(b) \in Ops
  BY OpKinds
<1>2. PICK no \in DocNo : Enqueue(Return(b), no, mode)
  BY <1>1, NumberedTypes DEF ReturnOffline
<1> QED BY <1>1, <1>2, EnqueueTypes DEF Types, ReturnOffline, wire, server, owner

LEMMA SeedTypes ==
  ASSUME Types, Seed
  PROVE  Types'
<1>1. counter' \in Counters
  BY DEF Types, Seed, Counters
<1> QED BY <1>1 DEF Types, Seed, wire, server, owner

\* A set of numbers with a bound has a largest.
LEMMA Highest ==
  ASSUME NEW m \in Nat, NEW S \in SUBSET (0..m), S # {}
  PROVE  Max(S) \in S /\ \A x \in S : x <= Max(S)
<1> DEFINE T == {n \in Nat : \E x \in S : n = m - x}
<1>0. \A x \in S : x \in Nat /\ x <= m /\ m - x \in Nat
  OBVIOUS
<1>1. T # {} /\ T \subseteq Nat
  BY <1>0
<1>2. PICK n \in T : \A y \in T : ~ (<<y, n>> \in OpToRel(<, Nat))
  <2> HIDE DEF T
  <2> QED BY <1>1, NatLessThanWellFounded, WFMin, Zenon
<1>3. PICK x \in S : n = m - x
  BY <1>2
<1>4. ASSUME NEW y \in S PROVE y <= x
  <2>1. m - y \in T
    BY <1>0
  <2>2. ~ (m - y < n)
    BY <1>2, <2>1, <1>1 DEF OpToRel
  <2> QED BY <2>2, <1>0, <1>3
<1>5. \A y \in S : x >= y
  BY <1>0, <1>4
<1>6. Max(S) \in S /\ \A y \in S : Max(S) >= y
  BY <1>5 DEF Max
<1> QED BY <1>0, <1>6

-----------------------------------------------------------------------------
(* What is sent *)

\* The entries nothing holds back.
Free == {i \in DOMAIN outbox :
            outbox[i].status = "pending" /\ Aggregates(outbox[i].op) \cap Blocked = {}}

Batch == SubSeq(FindSendableOps, 1, IF Len(FindSendableOps) < BatchSize
                                    THEN Len(FindSendableOps) ELSE BatchSize)

\* The till sends entries of its outbox, in their order: the first of those that nothing
\* holds back.
LEMMA BatchIs ==
  ASSUME outbox \in Seq(OutboxOp), FindSendableOps # <<>>
  PROVE  /\ Batch \in Seq(OutboxOp)
         /\ Len(Batch) \in 1..BatchSize /\ Len(outbox) - Len(Batch) \in Nat
         /\ \A k \in DOMAIN Batch : Place(Free, k) \in Free /\ Batch[k] = outbox[Place(Free, k)]
         /\ \A k \in DOMAIN Batch, i \in Free : i < Place(Free, k) =>
               \E j \in 1..(k - 1) : j \in DOMAIN Batch /\ Place(Free, j) = i
<1> DEFINE F == FindSendableOps
           n == IF Len(F) < BatchSize THEN Len(F) ELSE BatchSize
<1>1. F = Kept(outbox, Free)
  BY DEF FindSendableOps, Free
<1>2. Free \in SUBSET (DOMAIN outbox)
  BY DEF Free
<1>3. /\ F \in Seq(OutboxOp) /\ Len(F) \in 0..Len(outbox)
      /\ DOMAIN F = 1..Len(F)
      /\ \A k \in DOMAIN F : Place(Free, k) \in Free /\ F[k] = outbox[Place(Free, k)]
      /\ \A i \in Free : \E k \in DOMAIN F : Place(Free, k) = i
      /\ \A k, l \in DOMAIN F : k < l => Place(Free, k) < Place(Free, l)
  <2> HIDE DEF F
  <2> QED BY <1>1, <1>2, KeptIs
<1>4. Len(F) # 0
  BY <1>3
<1>5. n \in 1..BatchSize /\ n <= Len(F) /\ n \in 1..Len(F) /\ Len(outbox) \in Nat
  BY <1>3, <1>4, PushAssumption
<1>6. /\ Batch \in Seq(OutboxOp) /\ Len(Batch) = n /\ DOMAIN Batch = 1..n
      /\ \A k \in 1..n : Batch[k] = F[k]
  <2>1. Batch = SubSeq(F, 1, n)
    BY DEF Batch
  <2>2. F \in Seq(OutboxOp) /\ n \in Nat /\ n <= Len(F)
    BY <1>3, <1>5
  <2> HIDE DEF F, n
  <2> QED BY <2>1, <2>2
<1>7. ASSUME NEW k \in DOMAIN Batch, NEW i \in Free, i < Place(Free, k)
      PROVE  \E j \in 1..(k - 1) : j \in DOMAIN Batch /\ Place(Free, j) = i
  <2>1. k \in 1..n /\ k \in DOMAIN F /\ k \in Nat
    BY <1>3, <1>5, <1>6
  <2>2. PICK j \in DOMAIN F : Place(Free, j) = i
    BY <1>3
  <2>3. j \in Nat /\ j >= 1
    BY <1>3
  <2>4. i \in Int /\ Place(Free, k) \in Int
    BY <1>2, <1>3, <2>1
  <2>5. j # k /\ ~ (k < j)
    BY <1>3, <1>7, <2>1, <2>2, <2>4
  <2>6. j \in 1..(k - 1) /\ j \in DOMAIN Batch
    BY <2>1, <2>3, <2>5, <1>5, <1>6
  <2> QED BY <2>2, <2>6
<1>8. Len(outbox) - n \in Nat
  BY <1>3, <1>5
<1> HIDE DEF n, F
<1>9. \A k \in DOMAIN Batch : Place(Free, k) \in Free /\ Batch[k] = outbox[Place(Free, k)]
  BY <1>3, <1>5, <1>6
<1> QED BY <1>5, <1>6, <1>7, <1>8, <1>9

-----------------------------------------------------------------------------
(* Types: the push loop *)

LEMMA SendPushTypes ==
  ASSUME Types, NEW p \in Pushes, SendPush(p)
  PROVE  Types'
<1>1. Batch \in Seq(OutboxOp) /\ Len(outbox) - Len(Batch) \in Nat
  BY BatchIs DEF Types, SendPush
<1>2. PICK rec \in Push : push' = [push EXCEPT ![p] = rec]
  <2> DEFINE rec == [stage |-> "running", ops |-> Batch, results |-> <<>>,
                     nos |-> <<>>, remaining |-> Len(outbox) - Len(Batch)]
  <2>1. push' = [push EXCEPT ![p] = rec]
    BY DEF SendPush, Batch
  <2>2. <<>> \in Seq(Result) /\ <<>> \in Seq(DocNo \cup {None})
    OBVIOUS
  <2>3. rec \in Push
    BY <1>1, <2>2 DEF Push
  <2> HIDE DEF rec
  <2> QED BY <2>1, <2>3
<1>3. push' \in [Pushes -> Push \cup {None}]
  BY <1>2 DEF Types
<1> QED BY <1>3 DEF Types, SendPush, server, owner

LEMMA OverTyped == Over \in Push
<1>1. <<>> \in Seq(OutboxOp) /\ <<>> \in Seq(Result) /\ <<>> \in Seq(DocNo \cup {None})
  OBVIOUS
<1> QED BY <1>1 DEF Over, Push

LEMMA PushFailsTypes ==
  ASSUME Types, Batches, NEW p \in Pushes, PushFails(p)
  PROVE  Types'
<1>1. push' \in [Pushes -> Push \cup {None}]
  <2>1. (IF push[p].stage = "answered" THEN Over ELSE push[p]) \in Push \cup {None}
    BY OverTyped DEF Types
  <2>2. push' = [push EXCEPT ![p] = IF push[p].stage = "answered" THEN Over ELSE push[p]]
    BY DEF PushFails
  <2> QED BY <2>1, <2>2 DEF Types
<1>2. outbox' \in Seq(OutboxOp)
  <2> DEFINE next(i) == IF outbox[i].op = push[p].ops[1].op THEN Failed(outbox[i]) ELSE outbox[i]
  <2>1. outbox \in Seq(OutboxOp) /\ DOMAIN outbox = 1..Len(outbox) /\ Len(outbox) \in Nat
    BY OutboxIs
  <2>2. waiting = p /\ push[p] # None /\ push[p].stage # "over"
    BY DEF PushFails, Batches
  <2>3. push[p] \in Push
    BY <2>2 DEF Types
  <2>4. push[p].ops \in Seq(OutboxOp) /\ Len(push[p].ops) \in 1..BatchSize
    BY <2>2, <2>3 DEF Push, Batches
  <2>5. 1 \in DOMAIN push[p].ops
    BY <2>4, PushAssumption
  <2>6. ASSUME NEW i \in DOMAIN outbox PROVE next(i) \in OutboxOp
    <3>1. outbox[i] \in OutboxOp
      BY <2>1
    <3>2. outbox[i].op = push[p].ops[1].op => outbox[i].status = "pending"
      BY <2>2, <2>5 DEF Batches
    <3>3. outbox[i].status = "pending" => outbox[i].attempts < StuckAt
      BY DEF Batches
    <3> QED BY <3>1, <3>2, <3>3, FailedTypes
  <2>7. outbox' = [i \in 1..Len(outbox) |-> next(i)]
    BY <2>1 DEF PushFails
  <2> HIDE DEF next
  <2> QED BY <2>1, <2>6, <2>7
<1> QED BY <1>1, <1>2 DEF Types, PushFails, server, Mishap

\* The counter after an answer: no number of the answer is above it.
LEMMA PatchedTypes ==
  ASSUME Types, Batches, NEW p \in Pushes, TakeReply(p)
  PROVE  counter' \in Counters
<1> DEFINE patched == {i \in DOMAIN push[p].results :
                          push[p].results[i] = "applied" /\ push[p].nos[i] # None}
           took(c) == {counter[c]} \cup {push[p].nos[i].seq : i \in {j \in patched : push[p].nos[j].series = c}}
<1>1. counter' = [c \in Series |-> Max(took(c))]
  BY DEF TakeReply
<1>2. push[p] # None /\ push[p] \in Push /\ Len(push[p].results) = Len(push[p].nos)
  BY DEF TakeReply, Batches, Types
<1>3. push[p].nos \in Seq(DocNo \cup {None}) /\ push[p].results \in Seq(Result)
  BY <1>2 DEF Push
<1>4. \A i \in patched : push[p].nos[i] \in DocNo
  BY <1>2, <1>3
<1>5. ASSUME NEW c \in Series PROVE Max(took(c)) \in 0..MaxDocNo
  <2>1. counter[c] \in 0..MaxDocNo
    BY DEF Types, Counters
  <2>2. \A i \in patched : push[p].nos[i].seq \in 0..MaxDocNo
    BY <1>4, DocAssumption DEF DocNo
  <2>3. took(c) \subseteq 0..MaxDocNo /\ took(c) # {}
    BY <2>1, <2>2
  <2> HIDE DEF took
  <2> QED BY <2>3, Highest, DocAssumption
<1> HIDE DEF took
<1> QED BY <1>1, <1>5 DEF Counters

\* What an answer says of an operation.
Says(p, op, what) ==
    \E i \in DOMAIN push[p].results : push[p].ops[i].op = op /\ push[p].results[i] = what

Unapplied(p) == {i \in DOMAIN outbox : ~ Says(p, outbox[i].op, "applied")}

\* What becomes of an entry that stays.
Stays(e, f) == f.op = e.op /\ f.no = e.no

\* An answer takes what was applied out of the outbox, and leaves the rest in its order.
LEMMA TakeReplyIs ==
  ASSUME Types, Batches, NEW p \in Pushes, TakeReply(p)
  PROVE  /\ outbox' \in Seq(OutboxOp) /\ Len(outbox') = Cardinality(Unapplied(p))
         /\ DOMAIN outbox' = DOMAIN Kept(outbox, Unapplied(p))
         /\ \A k \in DOMAIN outbox' :
               /\ Stays(Kept(outbox, Unapplied(p))[k], outbox'[k])
               /\ outbox'[k].status = "pending" => outbox'[k].attempts < StuckAt
<1> DEFINE r == push[p].results
           At(op) == CHOOSE i \in DOMAIN push[p].ops : push[p].ops[i].op = op
           Said(e, what) == \E i \in DOMAIN r : push[p].ops[i].op = e.op /\ r[i] = what
           FirstRetry(e) == Said(e, "retry") /\ \A i \in DOMAIN r : i < At(e.op) => r[i] # "retry"
           After(e) == IF Said(e, "rejected") THEN [e EXCEPT !.status = "rejected", !.attempts = 0]
                       ELSE IF FirstRetry(e) THEN Failed(e)
                       ELSE e
           kept == Kept(outbox, Unapplied(p))
<1>1. outbox' = [i \in DOMAIN kept |-> After(kept[i])]
  BY DEF TakeReply, Unapplied, Says
<1>2. Unapplied(p) \in SUBSET (DOMAIN outbox) /\ outbox \in Seq(OutboxOp)
  BY DEF Unapplied, Types
<1>3. /\ kept \in Seq(OutboxOp) /\ Len(kept) = Cardinality(Unapplied(p))
      /\ DOMAIN kept = 1..Len(kept) /\ Len(kept) \in Nat
      /\ \A k \in DOMAIN kept : \E i \in DOMAIN outbox : kept[k] = outbox[i]
  BY <1>2, KeptIs
<1>4. waiting = p /\ push[p] # None /\ push[p] \in Push
  BY DEF TakeReply, Batches, Types
<1>5. DOMAIN r \subseteq DOMAIN push[p].ops
  BY <1>4 DEF Push, Batches
<1>6. ASSUME NEW i \in DOMAIN outbox
      PROVE  /\ After(outbox[i]) \in OutboxOp /\ Stays(outbox[i], After(outbox[i]))
             /\ After(outbox[i]).status = "pending" => After(outbox[i]).attempts < StuckAt
  <2>1. PICK e \in OutboxOp : e = outbox[i]
    BY <1>2
  <2>2. e.status = "pending" => e.attempts < StuckAt
    BY <2>1 DEF Batches
  <2>3. FirstRetry(e) => e.status = "pending"
    BY <2>1, <1>4, <1>5 DEF Batches
  <2>4. CASE Said(e, "rejected")
    <3>1. After(e) = [e EXCEPT !.status = "rejected", !.attempts = 0]
      BY <2>4
    <3>2. After(e) \in OutboxOp /\ After(e).op = e.op /\ After(e).no = e.no /\ After(e).status = "rejected"
      <4> HIDE DEF After
      <4> QED BY <3>1, RejectedTypes
    <3> HIDE DEF After
    <3> QED BY <2>1, <3>2 DEF Stays
  <2>5. CASE ~ Said(e, "rejected") /\ FirstRetry(e)
    <3>1. After(e) = Failed(e)
      BY <2>5
    <3> HIDE DEF After, FirstRetry, Said
    <3> QED BY <3>1, <2>1, <2>2, <2>3, <2>5, FailedTypes DEF Stays
  <2>6. CASE ~ Said(e, "rejected") /\ ~ FirstRetry(e)
    <3>1. After(e) = e
      BY <2>6
    <3> HIDE DEF After, FirstRetry, Said
    <3> QED BY <3>1, <2>1, <2>2 DEF Stays
  <2> HIDE DEF After, FirstRetry, Said
  <2> QED BY <2>4, <2>5, <2>6
<1> HIDE DEF After, kept
<1>7. \A k \in DOMAIN kept :
         /\ After(kept[k]) \in OutboxOp /\ Stays(kept[k], After(kept[k]))
         /\ After(kept[k]).status = "pending" => After(kept[k]).attempts < StuckAt
  BY <1>3, <1>6
<1>8. outbox' \in Seq(OutboxOp) /\ Len(outbox') = Len(kept) /\ DOMAIN outbox' = DOMAIN kept
  BY <1>1, <1>3, <1>7
<1>9. \A k \in DOMAIN kept : outbox'[k] = After(kept[k])
  BY <1>1
<1> QED BY <1>3, <1>7, <1>8, <1>9 DEF kept

LEMMA TakeReplyTypes ==
  ASSUME Types, Batches, NEW p \in Pushes, TakeReply(p)
  PROVE  Types'
<1>1. outbox' \in Seq(OutboxOp) /\ counter' \in Counters
  BY TakeReplyIs, PatchedTypes
<1>2. due' \in BOOLEAN
  BY DEF TakeReply
<1>3. push' = [push EXCEPT ![p] = Over] /\ waiting' = None
      /\ UNCHANGED <<mode, paper, attempt, posts, replies, server, owner>>
  BY DEF TakeReply
<1> QED BY <1>1, <1>2, <1>3, OverTyped DEF Types, server, owner

LEMMA RestartTypes ==
  ASSUME Types, Restart
  PROVE  Types'
<1>1. push' \in [Pushes -> Push \cup {None}]
  <2>1. \A p \in Pushes : (IF p = waiting /\ push[p].stage = "answered" THEN Over ELSE push[p]) \in Push \cup {None}
    BY OverTyped DEF Types
  <2> QED BY <2>1 DEF Restart
<1>2. attempt' \in [Ops -> {"none", "asked", "parked", "online", "queued", "given up"}]
  BY DEF Restart, Types
<1> QED BY <1>1, <1>2 DEF Types, Restart, server, Mishap

\* An entry that is sent again is one.
LEMMA ResentTypes ==
  ASSUME NEW e \in OutboxOp, NEW f, f = [e EXCEPT !.status = "pending", !.attempts = 0]
  PROVE  f \in OutboxOp /\ f.op = e.op /\ f.no = e.no /\ f.attempts < StuckAt
<1>1. 0 \in 0..StuckAt /\ 0 < StuckAt
  BY PushAssumption
<1>2. f.op = e.op /\ f.no = e.no /\ f.status = "pending" /\ f.attempts = 0
  BY DEF OutboxOp
<1>3. f \in OutboxOp
  BY <1>1 DEF OutboxOp
<1> QED BY <1>1, <1>2, <1>3

LEMMA ResendTypes ==
  ASSUME Types, NEW i \in DOMAIN outbox, Resend(i)
  PROVE  Types'
<1>1. outbox[i] \in OutboxOp
  BY OutboxIs
<1>2. PICK f : f = [outbox[i] EXCEPT !.status = "pending", !.attempts = 0]
  OBVIOUS
<1>3. f \in OutboxOp
  BY <1>1, <1>2, ResentTypes
<1>4. outbox' = [outbox EXCEPT ![i] = f] /\ UNCHANGED <<mode, counter, paper, attempt, waiting, wire, server>>
  BY <1>2 DEF Resend
<1>5. outbox' \in Seq(OutboxOp)
  BY <1>3, <1>4, OutboxIs
<1>6. due' \in BOOLEAN
  <2>1. due' = (due \/ mode # "degraded")
    BY DEF Resend
  <2> QED BY <2>1, Zenon
<1> QED BY <1>4, <1>5, <1>6 DEF Types, wire, server

\* What leaves the outbox when the owner discards an entry.
Goes(i) ==
    {outbox[i].op} \cup {v \in {Void(outbox[i].op[2])} :
                            outbox[i].op[1] = "sale" /\ ~ ServerHasRow(outbox[i].op) /\ Queued(v)}

Ungone(i) == {k \in DOMAIN outbox : outbox[k].op \notin Goes(i)}

LEMMA DiscardIs ==
  ASSUME NEW i, Discard(i)
  PROVE  /\ outbox' = Kept(outbox, Ungone(i))
         /\ dropped' = dropped \cup Goes(i)
         /\ attempt' = [o \in Ops |-> IF o \notin Goes(i) \/ ServerHasRow(o) THEN attempt[o]
                                      ELSE IF o[1] = "void" THEN "none" ELSE "given up"]
         /\ UNCHANGED <<mode, counter, paper, due, waiting, wire, server>>
BY DEF Discard, Goes, Ungone

LEMMA DiscardTypes ==
  ASSUME Types, NEW i \in DOMAIN outbox, Discard(i)
  PROVE  Types'
<1>1. outbox' = Kept(outbox, Ungone(i)) /\ UNCHANGED <<mode, counter, paper, due, waiting, wire, server>>
  BY DiscardIs
<1>2. outbox' \in Seq(OutboxOp)
  <2>1. Ungone(i) \in SUBSET (DOMAIN outbox)
    BY DEF Ungone
  <2> QED BY <1>1, <2>1, OutboxIs, KeptIs
<1>3. attempt' \in [Ops -> {"none", "asked", "parked", "online", "queued", "given up"}]
  BY DiscardIs DEF Types
<1> QED BY <1>1, <1>2, <1>3 DEF Types, wire, server

-----------------------------------------------------------------------------
(* Types: the server *)

\* The rows and the effects of a document that goes into the books.
LEMMA ExecuteTypes ==
  ASSUME Types, NEW op \in Ops, NEW row \in Row, Execute(op, row)
  PROVE  /\ rows' \in [Ops -> Row \cup {None}] /\ effects' \in [Ops -> Nat]
         /\ rows'[op] = row /\ effects'[op] = effects[op] + 1
         /\ \A o \in Ops : o # op => rows'[o] = rows[o] /\ effects'[o] = effects[o]
<1>1. rows \in [Ops -> Row \cup {None}] /\ effects \in [Ops -> Nat]
  BY DEF Types
<1>2. rows' = [rows EXCEPT ![op] = row] /\ effects' = [effects EXCEPT ![op] = effects[op] + 1]
  BY DEF Execute
<1>3. rows' \in [Ops -> Row \cup {None}] /\ rows'[op] = row /\ \A o \in Ops : o # op => rows'[o] = rows[o]
  BY <1>1, <1>2
<1>4. /\ effects' \in [Ops -> Nat] /\ effects'[op] = effects[op] + 1
      /\ \A o \in Ops : o # op => effects'[o] = effects[o]
  BY <1>1, <1>2
<1> QED BY <1>3, <1>4

LEMMA RowIs ==
  ASSUME Types, NEW op \in Ops, Stored(op)
  PROVE  /\ rows[op] \in Row /\ rows[op].no \in DocNo \cup {None} /\ rows[op].offline \in BOOLEAN
         /\ rows[op].dated \in {"till", "server"}
<1>1. rows[op] \in Row
  BY DEF Types, Stored
<1> QED BY <1>1 DEF Row

LEMMA AnswerPostTypes ==
  ASSUME Types, NEW b \in Bills, NEW no \in DocNo \cup {None}, AnswerPost(b, no)
  PROVE  replies' \subseteq [bill : Bills, no : DocNo \cup {None}]
<1>1. replies \subseteq [bill : Bills, no : DocNo \cup {None}] /\ [bill |-> b, no |-> no] \in [bill : Bills, no : DocNo \cup {None}]
  BY DEF Types
<1>2. replies' = replies \/ replies' = replies \cup {[bill |-> b, no |-> no]}
  BY DEF AnswerPost
<1> QED BY <1>1, <1>2

\* What POST /sales does to the books when it makes a document.
Sold(b, no) ==
    /\ keys[Sale(b)] = None /\ ~ Stored(Sale(b))
    /\ MayIssue(counters, "RC") /\ no = NextDocNo(counters, "RC")
    /\ Execute(Sale(b), [no |-> no, offline |-> FALSE, dated |-> "server"])
    /\ counters' = RecordClientDocNumber(counters, no)
    /\ AnswerPost(b, no)
    /\ keys' = [keys EXCEPT ![Sale(b)] = "online"]

\* POST /sales refuses, answers what the server already has, or makes a document.
LEMMA PostSaleIs ==
  ASSUME Types, Claimed, NEW b \in Bills, PostSale(b)
  PROVE  /\ b \in posts /\ posts' = posts \ {b} /\ UNCHANGED <<till, push, review, unsynced, verdicts, owner>>
         /\ \/ AnswerPost(b, None) /\ UNCHANGED <<rows, keys, counters, effects>>
            \/ /\ Stored(Sale(b)) /\ AnswerPost(b, rows[Sale(b)].no)
               /\ UNCHANGED <<rows, counters, effects>>
               /\ keys' = keys \/ keys' = [keys EXCEPT ![Sale(b)] = "online"]
            \/ \E no \in DocNo : Sold(b, no)
<1>1. Sale(b) \in Ops
  BY OpKinds
<1>2. keys[Sale(b)] = "online" => Stored(Sale(b))
  BY <1>1, NoneAssumption DEF Claimed, Fingerprints
<1>3. MayIssue(counters, "RC") => NextDocNo(counters, "RC") \in DocNo
  <2>1. counters \in Counters /\ "RC" \in Series
    BY DEF Types, Series
  <2> QED BY <2>1, NextTyped
<1> QED BY <1>1, <1>2, <1>3 DEF PostSale, Sold

LEMMA PostSaleTypes ==
  ASSUME Types, Claimed, NEW b \in Bills, PostSale(b)
  PROVE  Types'
<1>1. Sale(b) \in Ops
  BY OpKinds
<1>2. posts' \subseteq Bills /\ UNCHANGED <<till, push, review, unsynced, verdicts, owner>>
  BY PostSaleIs DEF Types
<1>3. CASE AnswerPost(b, None) /\ UNCHANGED <<rows, keys, counters, effects>>
  <2>1. replies' \subseteq [bill : Bills, no : DocNo \cup {None}]
    BY <1>3, AnswerPostTypes
  <2> QED BY <1>2, <1>3, <2>1 DEF Types, till
<1>4. CASE /\ Stored(Sale(b)) /\ AnswerPost(b, rows[Sale(b)].no)
           /\ UNCHANGED <<rows, counters, effects>>
           /\ keys' = keys \/ keys' = [keys EXCEPT ![Sale(b)] = "online"]
  <2>1. replies' \subseteq [bill : Bills, no : DocNo \cup {None}]
    BY <1>1, <1>4, AnswerPostTypes, RowIs
  <2>2. keys' \in [Ops -> Fingerprints \cup {None}]
    BY <1>1, <1>4 DEF Types, Fingerprints
  <2> QED BY <1>2, <1>4, <2>1, <2>2 DEF Types, till
<1>5. ASSUME NEW no \in DocNo, Sold(b, no) PROVE Types'
  <2>1. replies' \subseteq [bill : Bills, no : DocNo \cup {None}]
    BY <1>5, AnswerPostTypes DEF Sold
  <2>2. keys' \in [Ops -> Fingerprints \cup {None}]
    BY <1>1, <1>5 DEF Types, Fingerprints, Sold
  <2>3. [no |-> no, offline |-> FALSE, dated |-> "server"] \in Row
    BY DEF Row
  <2>4. rows' \in [Ops -> Row \cup {None}] /\ effects' \in [Ops -> Nat]
    BY <1>1, <1>5, <2>3, ExecuteTypes DEF Sold
  <2>5. counters' \in Counters
    BY <1>5, RecordTyped DEF Types, Sold
  <2> QED BY <1>2, <2>1, <2>2, <2>4, <2>5 DEF Types, till
<1> QED BY <1>3, <1>4, <1>5, PostSaleIs

-----------------------------------------------------------------------------
(* An operation of a push *)

\* The document an entry makes.
RowOf(e) == [no |-> e.no, offline |-> TRUE, dated |-> ClampOpDate(e.op)]

\* An entry the server has not seen goes into the books.
Entered(e) ==
    /\ keys[e.op] = None /\ ~ Stored(e.op)
    /\ ~ NumberTaken(e.no)
    /\ Execute(e.op, RowOf(e))
    /\ counters' = IF e.no = None THEN counters ELSE RecordClientDocNumber(counters, e.no)
    /\ review \cup DateFlag(e.op) \subseteq review'
    /\ keys' = [keys EXCEPT ![e.op] = "queued"]

\* An entry the server has already is compared with what the paper says.
Replayed(e) ==
    /\ Stored(e.op) /\ review' = review \cup FlagRenumbered(e.op, e.no)
    /\ keys' = keys \/ keys' = [keys EXCEPT ![e.op] = "queued"]
    /\ UNCHANGED <<rows, counters, effects>>

\* An entry is applied for one of three reasons.
LEMMA AppliedIs ==
  ASSUME NEW e, Applied(e)
  PROVE  \/ keys[e.op] = "queued" /\ UNCHANGED <<rows, keys, counters, review, effects>>
         \/ Replayed(e)
         \/ Entered(e)
<1>1. ClientIdReplay(e.op) => Stored(e.op)
  BY DEF ClientIdReplay, ReplayVoid, ReplayProbe, Stored
<1>2. ~ ClientIdReplay(e.op) => ~ Stored(e.op)
  BY DEF ClientIdReplay, ReplayVoid, ReplayProbe, Stored
<1>3. ASSUME keys[e.op] # "queued" /\ ClientIdReplay(e.op),
             review' = review \cup FlagRenumbered(e.op, e.no),
             keys' = IF keys[e.op] = None THEN [keys EXCEPT ![e.op] = "queued"] ELSE keys,
             UNCHANGED <<rows, counters, effects>>
      PROVE  Replayed(e)
  BY <1>1, <1>3 DEF Replayed
<1>4. ASSUME keys[e.op] = None /\ ~ ClientIdReplay(e.op), ~ NumberTaken(e.no), ExecuteOp(e),
             keys' = [keys EXCEPT ![e.op] = "queued"]
      PROVE  Entered(e)
  <2>1. review \cup DateFlag(e.op) \subseteq review'
    BY <1>4 DEF ExecuteOp
  <2> QED BY <1>2, <1>4, <2>1 DEF Entered, ExecuteOp, RowOf
<1> QED BY <1>3, <1>4 DEF Applied

\* A refusal is a verdict, and one for want of the bill has its reason.
LEMMA RefusedIs ==
  ASSUME NEW e, Refused(e)
  PROVE  /\ UNCHANGED <<rows, keys, counters, review, effects>>
         /\ \E code : verdicts' = verdicts \cup {<<e.op, code>>}
                      /\ (code = "SALE_NOT_FOUND" => NotFound(e.op))
<1>1. PICK code : Rejected(e, code) /\ (code = "SALE_NOT_FOUND" => NotFound(e.op))
  BY DEF Refused, ParseRefused
<1> QED BY <1>1 DEF Rejected

LEMMA RowOfTyped ==
  ASSUME NEW e \in OutboxOp
  PROVE  /\ RowOf(e) \in Row /\ RowOf(e).no = e.no /\ RowOf(e).offline
         /\ RowOf(e).dated = ClampOpDate(e.op)
<1>1. e.no \in DocNo \cup {None} /\ ClampOpDate(e.op) \in {"till", "server"}
  BY DEF OutboxOp, ClampOpDate
<1> QED BY <1>1 DEF RowOf, Row

LEMMA EnteredTypes ==
  ASSUME Types, NEW e \in OutboxOp, Entered(e)
  PROVE  /\ rows' \in [Ops -> Row \cup {None}] /\ effects' \in [Ops -> Nat]
         /\ rows'[e.op] = RowOf(e) /\ effects'[e.op] = effects[e.op] + 1
         /\ \A o \in Ops : o # e.op => rows'[o] = rows[o] /\ effects'[o] = effects[o]
         /\ counters' \in Counters /\ keys' \in [Ops -> Fingerprints \cup {None}]
<1>1. e.op \in Ops /\ e.no \in DocNo \cup {None} /\ RowOf(e) \in Row
  BY RowOfTyped DEF OutboxOp
<1>2. counters' \in Counters
  BY <1>1, RecordTyped DEF Types, Entered
<1>3. keys' \in [Ops -> Fingerprints \cup {None}]
  BY <1>1 DEF Types, Entered, Fingerprints
<1>4. Execute(e.op, RowOf(e))
  BY DEF Entered
<1> QED BY <1>1, <1>2, <1>3, <1>4, ExecuteTypes

LEMMA AppliedTypes ==
  ASSUME Types, NEW e \in OutboxOp, Applied(e)
  PROVE  /\ rows' \in [Ops -> Row \cup {None}] /\ effects' \in [Ops -> Nat]
         /\ counters' \in Counters /\ keys' \in [Ops -> Fingerprints \cup {None}]
<1>1. e.op \in Ops
  BY DEF OutboxOp
<1>2. CASE keys[e.op] = "queued" /\ UNCHANGED <<rows, keys, counters, review, effects>>
  BY <1>2 DEF Types
<1>3. CASE Replayed(e)
  BY <1>1, <1>3 DEF Types, Replayed, Fingerprints
<1>4. CASE Entered(e)
  BY <1>4, EnteredTypes
<1> QED BY <1>2, <1>3, <1>4, AppliedIs

\* The next entry of a push.
Entry(p) == push[p].ops[Len(push[p].results) + 1]

\* A push takes one more result, and a number with it.
Results(p, result, n) ==
    push' = [push EXCEPT ![p] = [push[p] EXCEPT !.results = Append(push[p].results, result),
                                                !.nos = Append(push[p].nos, n)]]

\* A step of a push gives no answer, a good one or a verdict; after the first that was
\* none it gives no other.
LEMMA ProcessOpIs ==
  ASSUME Types, NEW p \in Pushes, ProcessOp(p)
  PROVE  /\ push[p] # None /\ push[p].stage = "running"
         /\ Len(push[p].results) + 1 \in DOMAIN push[p].ops
         /\ Entry(p) \in OutboxOp
         /\ UNCHANGED <<till, posts, replies, unsynced, dropped>>
         /\ \E result \in Result, n \in DocNo \cup {None} :
               /\ Results(p, result, n)
               /\ \/ result = "retry" /\ UNCHANGED <<rows, keys, counters, review, effects, verdicts>>
                  \/ result = "applied" /\ Applied(Entry(p)) /\ UNCHANGED verdicts
                  \/ result = "rejected" /\ Refused(Entry(p)) /\ ~ StopAtRetry(push[p].results)
<1> DEFINE e == Entry(p)
           no(result) == IF result = "applied" /\ rows'[e.op] # None THEN rows'[e.op].no ELSE None
<1>1. /\ push[p] # None /\ push[p].stage = "running" /\ Len(push[p].results) + 1 <= Len(push[p].ops)
      /\ UNCHANGED <<till, posts, replies, unsynced>>
  BY DEF ProcessOp
<1>2. Len(push[p].results) + 1 \in DOMAIN push[p].ops /\ e \in OutboxOp /\ e.op \in Ops
  <2>1. /\ push[p].ops \in Seq(OutboxOp) /\ Len(push[p].ops) \in Nat /\ Len(push[p].results) \in Nat
        /\ DOMAIN push[p].ops = 1..Len(push[p].ops)
    BY <1>1, PushIs
  <2>2. Len(push[p].results) + 1 \in 1..Len(push[p].ops)
    BY <1>1, <2>1
  <2>3. e \in OutboxOp
    BY <2>1, <2>2 DEF Entry
  <2> QED BY <2>1, <2>2, <2>3 DEF OutboxOp
<1>3. \/ UNCHANGED <<rows, keys, counters, review, effects, verdicts, dropped>> /\ Results(p, "retry", no("retry"))
      \/ Applied(e) /\ UNCHANGED <<verdicts, dropped>> /\ Results(p, "applied", no("applied"))
      \/ /\ Refused(e) /\ UNCHANGED dropped /\ ~ StopAtRetry(push[p].results)
         /\ Results(p, "rejected", no("rejected"))
  BY DEF ProcessOp, Results, Entry, TransientResult, Mishap, owner
<1>4. no("retry") = None /\ no("rejected") = None
  OBVIOUS
<1>5. Applied(e) => no("applied") \in DocNo \cup {None}
  <2> SUFFICES ASSUME Applied(e), rows'[e.op] # None PROVE rows'[e.op].no \in DocNo \cup {None}
    OBVIOUS
  <2>1. rows'[e.op] \in Row
    BY <1>2, AppliedTypes
  <2> QED BY <2>1 DEF Row
<1> HIDE DEF no
<1>6. \E result \in Result, n \in DocNo \cup {None} :
         /\ Results(p, result, n)
         /\ \/ result = "retry" /\ UNCHANGED <<rows, keys, counters, review, effects, verdicts>>
            \/ result = "applied" /\ Applied(e) /\ UNCHANGED verdicts
            \/ result = "rejected" /\ Refused(e) /\ ~ StopAtRetry(push[p].results)
  <2>1. CASE UNCHANGED <<rows, keys, counters, review, effects, verdicts, dropped>> /\ Results(p, "retry", no("retry"))
    BY <2>1, <1>4, Zenon DEF Result
  <2>2. CASE Applied(e) /\ UNCHANGED <<verdicts, dropped>> /\ Results(p, "applied", no("applied"))
    BY <2>2, <1>5, Zenon DEF Result
  <2>3. CASE /\ Refused(e) /\ UNCHANGED dropped /\ ~ StopAtRetry(push[p].results)
             /\ Results(p, "rejected", no("rejected"))
    BY <2>3, <1>4, Zenon DEF Result
  <2> QED BY <1>3, <2>1, <2>2, <2>3
<1>7. UNCHANGED dropped
  BY <1>3
<1> QED BY <1>1, <1>2, <1>6, <1>7

\* What a result changes in its push.
LEMMA ResultsIs ==
  ASSUME Types, NEW p \in Pushes, push[p] # None, NEW result \in Result,
         NEW n \in DocNo \cup {None}, Results(p, result, n)
  PROVE  /\ push' \in [Pushes -> Push \cup {None}] /\ push'[p] \in Push
         /\ push'[p].ops = push[p].ops /\ push'[p].stage = push[p].stage
         /\ push'[p].results = Append(push[p].results, result)
         /\ push'[p].nos = Append(push[p].nos, n)
         /\ \A q \in Pushes : q # p => push'[q] = push[q]
<1> DEFINE rec == [push[p] EXCEPT !.results = Append(push[p].results, result),
                                  !.nos = Append(push[p].nos, n)]
<1>1. push[p] \in Push /\ push[p].results \in Seq(Result) /\ push[p].nos \in Seq(DocNo \cup {None})
  BY PushIs
<1>2. /\ Append(push[p].results, result) \in Seq(Result)
      /\ Append(push[p].nos, n) \in Seq(DocNo \cup {None})
  BY <1>1
<1>3. /\ rec \in Push /\ rec.ops = push[p].ops /\ rec.stage = push[p].stage
      /\ rec.results = Append(push[p].results, result) /\ rec.nos = Append(push[p].nos, n)
  BY <1>1, <1>2 DEF Push
<1>4. push' = [push EXCEPT ![p] = rec]
  BY DEF Results
<1>5. push \in [Pushes -> Push \cup {None}]
  BY DEF Types
<1> HIDE DEF rec
<1>6. push'[p] = rec /\ push' \in [Pushes -> Push \cup {None}] /\ \A q \in Pushes : q # p => push'[q] = push[q]
  BY <1>3, <1>4, <1>5
<1> QED BY <1>3, <1>6

LEMMA ProcessOpTypes ==
  ASSUME Types, NEW p \in Pushes, ProcessOp(p)
  PROVE  Types'
<1>1. UNCHANGED <<till, posts, replies, unsynced>> /\ push[p] # None /\ Entry(p) \in OutboxOp
  BY ProcessOpIs
<1>2. PICK result \in Result, n \in DocNo \cup {None} :
         /\ Results(p, result, n)
         /\ \/ result = "retry" /\ UNCHANGED <<rows, keys, counters, review, effects, verdicts>>
            \/ result = "applied" /\ Applied(Entry(p)) /\ UNCHANGED verdicts
            \/ result = "rejected" /\ Refused(Entry(p)) /\ ~ StopAtRetry(push[p].results)
  BY ProcessOpIs
<1>3. push' \in [Pushes -> Push \cup {None}]
  BY <1>1, <1>2, ResultsIs
<1>4. /\ rows' \in [Ops -> Row \cup {None}] /\ effects' \in [Ops -> Nat]
      /\ counters' \in Counters /\ keys' \in [Ops -> Fingerprints \cup {None}]
  <2>1. CASE UNCHANGED <<rows, keys, counters, review, effects>>
    BY <2>1 DEF Types
  <2>2. CASE Applied(Entry(p))
    BY <2>2, <1>1, AppliedTypes
  <2>3. CASE Refused(Entry(p))
    BY <2>1, <2>3, RefusedIs
  <2> QED BY <1>2, <2>1, <2>2, <2>3
<1> QED BY <1>1, <1>3, <1>4 DEF Types, till

LEMMA EndPushTypes ==
  ASSUME Types, NEW p \in Pushes, EndPush(p)
  PROVE  Types'
<1> DEFINE done == IF waiting = p THEN [push[p] EXCEPT !.stage = "answered"] ELSE Over
<1>1. push[p] # None /\ push[p] \in Push /\ push[p].remaining \in Nat
  BY PushIs DEF EndPush
<1>2. [push[p] EXCEPT !.stage = "answered"] \in Push
  BY <1>1 DEF Push
<1>3. done \in Push
  BY <1>2, OverTyped
<1>4. /\ push' = [push EXCEPT ![p] = done] /\ unsynced' = push[p].remaining
      /\ UNCHANGED <<till, posts, replies, rows, keys, counters, review, effects, verdicts, owner>>
  BY DEF EndPush
<1> HIDE DEF done
<1>5. push' \in [Pushes -> Push \cup {None}]
  BY <1>3, <1>4 DEF Types
<1> QED BY <1>1, <1>4, <1>5 DEF Types, till

LEMMA KeyExpiresTypes ==
  ASSUME Types, NEW op \in Ops, KeyExpires(op)
  PROVE  Types'
<1>1. keys' \in [Ops -> Fingerprints \cup {None}]
  BY DEF KeyExpires, Types
<1> QED BY <1>1 DEF Types, KeyExpires, till, wire, Mishap

-----------------------------------------------------------------------------
(* The books *)

Books == Claimed /\ NumbersDiffer /\ DatesKnown

LEMMA BooksUnchanged ==
  ASSUME Books, UNCHANGED <<rows, keys, counters, review, effects>>
  PROVE  Books'
BY DEF Books, Claimed, NumbersDiffer, DatesKnown, Stored

\* A new document whose number nobody has keeps the numbers apart.
LEMMA NewDocument ==
  ASSUME Types, Books, NEW op \in Ops, ~ Stored(op), NEW row \in Row, Execute(op, row),
         counters' \in Counters, \A s \in Series : counters'[s] >= counters[s],
         row.no # None => row.no.seq <= counters'[row.no.series],
         row.no # None => \A o \in Ops : Stored(o) => rows[o].no # row.no,
         NEW k, keys' = [keys EXCEPT ![op] = k],
         row.offline /\ row.dated = "server" /\ op[1] # "void" => <<"date_flag", op>> \in review',
         review \subseteq review'
  PROVE  Books'
<1>1. /\ rows'[op] = row /\ effects'[op] = effects[op] + 1
      /\ \A o \in Ops : o # op => rows'[o] = rows[o] /\ effects'[o] = effects[o]
  BY ExecuteTypes
<1>2. row # None /\ rows[op] = None /\ effects[op] = 0
  BY NoneAssumption DEF Stored, Books, Claimed
<1>3. Stored(op)' /\ \A o \in Ops : o # op => (Stored(o)' <=> Stored(o))
  BY <1>1, <1>2 DEF Stored
<1>4. Claimed'
  <2> SUFFICES ASSUME NEW o \in Ops
               PROVE  effects'[o] = (IF Stored(o)' THEN 1 ELSE 0) /\ (keys'[o] # None => Stored(o)')
    BY DEF Claimed
  <2>1. o # op => keys'[o] = keys[o]
    BY DEF Types
  <2> QED BY <1>1, <1>2, <1>3, <2>1 DEF Books, Claimed
<1>5. NumbersDiffer'
  <2>1. ASSUME NEW a \in Ops, NEW b \in Ops, a # b, Stored(a)', Stored(b)', rows'[a].no # None
        PROVE  rows'[a].no # rows'[b].no
    <3>1. CASE a = op
      BY <1>1, <1>3, <2>1, <3>1
    <3>2. CASE b = op
      BY <1>1, <1>3, <2>1, <3>2
    <3>3. CASE a # op /\ b # op
      BY <1>1, <1>3, <2>1, <3>3 DEF Books, NumbersDiffer
    <3> QED BY <3>1, <3>2, <3>3
  <2>2. \A c \in Series : counters'[c] <= MaxDocNo
    BY DocAssumption DEF Counters
  <2>3. ASSUME NEW o \in Ops, Stored(o)', rows'[o].no # None
        PROVE  rows'[o].no.seq <= counters'[rows'[o].no.series]
    <3>1. CASE o = op
      BY <1>1, <2>3, <3>1
    <3>2. CASE o # op
      <4>1. Stored(o) /\ rows'[o] = rows[o]
        BY <1>1, <1>3, <2>3, <3>2
      <4>2. PICK no \in DocNo : no = rows[o].no
        BY <4>1, <2>3, RowIs
      <4>3. no.seq <= counters[no.series] /\ no.series \in Series /\ no.seq \in Nat
        BY <4>1, <4>2, <2>3 DEF Books, NumbersDiffer, DocNo
      <4>4. counters[no.series] \in Nat /\ counters'[no.series] \in Nat /\ counters'[no.series] >= counters[no.series]
        <5>1. counters \in [Series -> 0..MaxDocNo]
          BY DEF Types, Counters
        <5>2. counters' \in [Series -> 0..MaxDocNo]
          BY DEF Counters
        <5>3. counters[no.series] \in 0..MaxDocNo /\ counters'[no.series] \in 0..MaxDocNo
          BY <4>3, <5>1, <5>2
        <5> QED BY <4>3, <5>3, DocAssumption
      <4>5. no.seq <= counters'[no.series]
        BY <4>3, <4>4
      <4> QED BY <4>1, <4>2, <4>5
    <3> QED BY <3>1, <3>2
  <2> QED BY <2>1, <2>2, <2>3 DEF NumbersDiffer, Stored
<1>6. DatesKnown'
  <2> SUFFICES ASSUME NEW o \in Ops, Stored(o)', rows'[o].offline, rows'[o].dated = "server", o[1] # "void"
               PROVE  <<"date_flag", o>> \in review'
    BY DEF DatesKnown
  <2>1. CASE o = op
    BY <1>1, <2>1
  <2>2. CASE o # op
    <3>1. Stored(o) /\ rows[o].offline /\ rows[o].dated = "server"
      BY <1>1, <1>3, <2>2
    <3> QED BY <3>1 DEF Books, DatesKnown
  <2> QED BY <2>1, <2>2
<1> QED BY <1>4, <1>5, <1>6 DEF Books

LEMMA PostSaleBooks ==
  ASSUME Types, Books, NEW b \in Bills, PostSale(b)
  PROVE  Books'
<1>1. Sale(b) \in Ops
  BY OpKinds
<1>2. UNCHANGED review /\ Claimed
  BY PostSaleIs DEF Books
<1>3. CASE UNCHANGED <<rows, keys, counters, effects>>
  BY <1>2, <1>3, BooksUnchanged
<1>4. CASE /\ Stored(Sale(b)) /\ UNCHANGED <<rows, counters, effects>>
           /\ keys' = [keys EXCEPT ![Sale(b)] = "online"]
  <2>1. \A op \in Ops : keys'[op] # None => Stored(op)
    BY <1>4 DEF Types, Books, Claimed
  <2> QED BY <1>2, <1>4, <2>1 DEF Books, Claimed, NumbersDiffer, DatesKnown, Stored
<1>5. ASSUME NEW no \in DocNo, Sold(b, no) PROVE Books'
  <2> DEFINE row == [no |-> no, offline |-> FALSE, dated |-> "server"]
  <2>1. row \in Row /\ row.no = no /\ ~ row.offline
    BY DEF Row
  <2>2. no.series = "RC" /\ no.seq = counters["RC"] + 1 /\ counters \in Counters /\ "RC" \in Series
    <3>1. counters \in Counters /\ "RC" \in Series
      BY DEF Types, Series
    <3> QED BY <1>5, <3>1, NextTyped DEF Sold
  <2>3. /\ counters' \in Counters /\ \A s \in Series : counters'[s] >= counters[s]
        /\ no.seq <= counters'[no.series]
    <3>1. counters' = RecordClientDocNumber(counters, no)
      BY <1>5 DEF Sold
    <3>2. /\ counters' \in Counters /\ \A s \in Series : counters'[s] >= counters[s]
          /\ counters'[no.series] >= no.seq
      BY <2>2, <3>1, RecordTyped
    <3>3. counters'[no.series] \in Int /\ no.seq \in Int
      BY <2>2, <3>2 DEF Counters
    <3> QED BY <3>2, <3>3
  <2>4. ASSUME no # None, NEW o \in Ops, Stored(o) PROVE rows[o].no # no
    <3> SUFFICES ASSUME rows[o].no = no PROVE FALSE
      OBVIOUS
    <3>1. no.seq <= counters[no.series]
      BY <2>4 DEF Books, NumbersDiffer
    <3> QED BY <2>2, <3>1 DEF Counters
  <2>5. Execute(Sale(b), row) /\ ~ Stored(Sale(b)) /\ keys' = [keys EXCEPT ![Sale(b)] = "online"]
    BY <1>5 DEF Sold
  <2> HIDE DEF row
  <2> QED BY <1>1, <1>2, <2>1, <2>3, <2>4, <2>5, NewDocument
<1> QED BY <1>2, <1>3, <1>4, <1>5, PostSaleIs

LEMMA ProcessOpBooks ==
  ASSUME Types, Books, NEW p \in Pushes, ProcessOp(p)
  PROVE  Books'
<1> DEFINE e == Entry(p)
<1>1. e \in OutboxOp /\ e.op \in Ops /\ e.no \in DocNo \cup {None}
  BY ProcessOpIs DEF OutboxOp
<1>2. \/ UNCHANGED <<rows, keys, counters, review, effects>>
      \/ Applied(e)
      \/ Refused(e)
  BY ProcessOpIs
<1> HIDE DEF e
<1>3. CASE UNCHANGED <<rows, keys, counters, review, effects>>
  BY <1>3, BooksUnchanged
<1>4. CASE Refused(e)
  BY <1>4, RefusedIs, BooksUnchanged
<1>5. CASE Replayed(e)
  <2>1. \A op \in Ops : keys'[op] # None => Stored(op)
    BY <1>1, <1>5 DEF Types, Books, Claimed, Replayed
  <2>2. review \subseteq review' /\ UNCHANGED <<rows, counters, effects>>
    BY <1>5 DEF Replayed
  <2> QED BY <2>1, <2>2 DEF Books, Claimed, NumbersDiffer, DatesKnown, Stored
<1>6. CASE Entered(e)
  <2>1. /\ RowOf(e) \in Row /\ RowOf(e).no = e.no /\ RowOf(e).dated = ClampOpDate(e.op)
    BY <1>1, RowOfTyped
  <2>2. /\ Execute(e.op, RowOf(e)) /\ ~ Stored(e.op) /\ ~ NumberTaken(e.no)
        /\ keys' = [keys EXCEPT ![e.op] = "queued"] /\ review \cup DateFlag(e.op) \subseteq review'
        /\ counters' = IF e.no = None THEN counters ELSE RecordClientDocNumber(counters, e.no)
    BY <1>6 DEF Entered
  <2>3. counters \in Counters
    BY DEF Types
  <2>4. /\ counters' \in Counters /\ \A s \in Series : counters'[s] >= counters[s]
        /\ e.no # None => e.no.seq <= counters'[e.no.series]
    <3>1. CASE e.no = None
      BY <2>2, <2>3, <3>1 DEF Counters
    <3>2. CASE e.no # None
      <4>1. e.no \in DocNo /\ counters' = RecordClientDocNumber(counters, e.no)
        BY <1>1, <2>2, <3>2
      <4>2. /\ counters' \in Counters /\ \A s \in Series : counters'[s] >= counters[s]
            /\ counters'[e.no.series] >= e.no.seq
        BY <2>3, <4>1, RecordTyped
      <4>3. e.no.series \in Series /\ e.no.seq \in Int
        BY <4>1 DEF DocNo
      <4>4. counters'[e.no.series] \in Int
        BY <4>2, <4>3 DEF Counters
      <4> QED BY <4>2, <4>3, <4>4
    <3> QED BY <3>1, <3>2
  <2>5. e.no # None => \A o \in Ops : Stored(o) => rows[o].no # e.no
    BY <2>2 DEF NumberTaken
  <2>6. ClampOpDate(e.op) = "server" /\ e.op[1] # "void" => <<"date_flag", e.op>> \in review'
    <3>1. ClampOpDate(e.op) = "server" => e.op[2] \in LateDated
      BY DEF ClampOpDate
    <3>2. e.op[2] \in LateDated /\ e.op[1] # "void" => <<"date_flag", e.op>> \in DateFlag(e.op)
      BY DEF DateFlag
    <3> QED BY <2>2, <3>1, <3>2
  <2> QED BY <1>1, <2>1, <2>2, <2>4, <2>5, <2>6, NewDocument
<1> QED BY <1>2, <1>3, <1>4, <1>5, <1>6, AppliedIs

\* Who changes the books: POST /sales, a push and the sweep of the keys.
LEMMA NextBooks ==
  ASSUME Types, Books, Next
  PROVE  Books'
<1>1. ASSUME NEW b \in Bills, PostSale(b) PROVE Books'
  BY <1>1, PostSaleBooks
<1>2. ASSUME NEW p \in Pushes, ProcessOp(p) PROVE Books'
  BY <1>2, ProcessOpBooks
<1>3. ASSUME NEW op \in Ops, KeyExpires(op) PROVE Books'
  <2>1. \A o \in Ops : keys'[o] # None => keys[o] # None
    BY <1>3 DEF Types, KeyExpires
  <2>2. UNCHANGED <<rows, counters, review, effects>>
    BY <1>3 DEF KeyExpires
  <2> QED BY <2>1, <2>2 DEF Books, Claimed, NumbersDiffer, DatesKnown, Stored
<1>4. ASSUME NEW p \in Pushes, EndPush(p) PROVE Books'
  BY <1>4, BooksUnchanged DEF EndPush
<1>5. CASE UNCHANGED server
  BY <1>5, BooksUnchanged DEF server
<1>6. ASSUME \/ \E b \in Bills : SaveSale(b) \/ SaleUnanswered(b)
             \/ \E r \in replies : SaleAnswered(r)
             \/ \E b \in Voided : VoidOffline(b)
             \/ \E b \in Returned : ReturnOffline(b)
             \/ Seed \/ HealthGood \/ PushIdle \/ HealthBad \/ PushByHand \/ Restart
      PROVE  UNCHANGED server
  BY <1>6 DEF SaveSale, SaleUnanswered, SaleAnswered, VoidOffline, ReturnOffline, Seed, HealthGood,
              PushIdle, HealthBad, PushByHand, Restart
<1>7. ASSUME \/ \E p \in Pushes : SendPush(p) \/ TakeReply(p) \/ PushFails(p)
             \/ \E i \in DOMAIN outbox : Resend(i) \/ Discard(i)
      PROVE  UNCHANGED server
  BY <1>7 DEF SendPush, TakeReply, PushFails, Resend, Discard
<1> QED BY <1>1, <1>2, <1>3, <1>4, <1>5, <1>6, <1>7 DEF Next, Counter, Loop, Serve

-----------------------------------------------------------------------------
(* What never goes back *)

LEMMA NextTypes ==
  ASSUME Types, Batches, Claimed, Next
  PROVE  Types'
<1>1. ASSUME NEW b \in Bills, SaveSale(b) \/ SaleUnanswered(b) \/ PostSale(b) PROVE Types'
  BY <1>1, SaveSaleTypes, SaleUnansweredTypes, PostSaleTypes
<1>2. ASSUME NEW r \in replies, SaleAnswered(r) PROVE Types'
  BY <1>2, SaleAnsweredTypes
<1>3. ASSUME NEW b \in Voided, VoidOffline(b) PROVE Types'
  BY <1>3, VoidOfflineTypes
<1>4. ASSUME NEW b \in Returned, ReturnOffline(b) PROVE Types'
  BY <1>4, ReturnOfflineTypes
<1>5. CASE Seed \/ Restart
  BY <1>5, SeedTypes, RestartTypes
<1>6. CASE HealthGood \/ HealthBad \/ PushByHand \/ PushIdle
  BY <1>6 DEF Types, HealthGood, HealthBad, PushByHand, PushIdle, wire, server, owner, Mishap
<1>7. ASSUME NEW p \in Pushes, SendPush(p) \/ TakeReply(p) \/ ProcessOp(p) \/ EndPush(p) \/ PushFails(p) PROVE Types'
  BY <1>7, SendPushTypes, TakeReplyTypes, ProcessOpTypes, EndPushTypes, PushFailsTypes
<1>8. ASSUME NEW i \in DOMAIN outbox, Resend(i) \/ Discard(i) PROVE Types'
  BY <1>8, ResendTypes, DiscardTypes
<1>9. ASSUME NEW op \in Ops, KeyExpires(op) PROVE Types'
  BY <1>9, KeyExpiresTypes
<1> QED BY <1>1, <1>2, <1>3, <1>4, <1>5, <1>6, <1>7, <1>8, <1>9 DEF Next, Counter, Loop, Serve

\* A document stays as it is; what the owner was told, a verdict and a discard stay said.
Grows ==
    /\ \A op \in Ops : Stored(op) => Stored(op)' /\ rows'[op] = rows[op]
    /\ review \subseteq review' /\ verdicts \subseteq verdicts' /\ dropped \subseteq dropped'

\* The till's own steps, which leave the server alone.
TillStep ==
    \/ \E b \in Bills : SaveSale(b) \/ SaleUnanswered(b)
    \/ \E r \in replies : SaleAnswered(r)
    \/ \E b \in Voided : VoidOffline(b)
    \/ \E b \in Returned : ReturnOffline(b)
    \/ Seed \/ HealthGood \/ PushIdle \/ HealthBad \/ PushByHand \/ Restart
    \/ \E p \in Pushes : SendPush(p) \/ TakeReply(p) \/ PushFails(p)
    \/ \E i \in DOMAIN outbox : Resend(i) \/ Discard(i)

LEMMA TillStepServer ==
  ASSUME TillStep
  PROVE  UNCHANGED server /\ dropped \subseteq dropped'
<1>1. ASSUME \/ \E b \in Bills : SaveSale(b) \/ SaleUnanswered(b)
             \/ \E r \in replies : SaleAnswered(r)
             \/ \E b \in Voided : VoidOffline(b)
             \/ \E b \in Returned : ReturnOffline(b)
             \/ Seed \/ HealthGood \/ PushIdle \/ HealthBad \/ PushByHand \/ Restart
      PROVE  UNCHANGED <<server, dropped>>
  BY <1>1 DEF SaveSale, SaleUnanswered, SaleAnswered, VoidOffline, ReturnOffline, Seed, HealthGood,
              PushIdle, HealthBad, PushByHand, Restart, owner, Mishap
<1>2. ASSUME \/ \E p \in Pushes : SendPush(p) \/ TakeReply(p) \/ PushFails(p)
             \/ \E i \in DOMAIN outbox : Resend(i)
      PROVE  UNCHANGED <<server, dropped>>
  BY <1>2 DEF SendPush, TakeReply, PushFails, Resend, owner, Mishap
<1>3. ASSUME NEW i \in DOMAIN outbox, Discard(i) PROVE UNCHANGED server /\ dropped \subseteq dropped'
  BY <1>3, DiscardIs
<1> QED BY <1>1, <1>2, <1>3 DEF TillStep

\* The steps that are not the till's alone.
LEMMA NextKinds ==
  ASSUME Next
  PROVE  \/ TillStep
         \/ \E b \in Bills : PostSale(b)
         \/ \E p \in Pushes : ProcessOp(p) \/ EndPush(p)
         \/ \E op \in Ops : KeyExpires(op)
BY DEF Next, TillStep, Counter, Loop, Serve

LEMMA NextGrows ==
  ASSUME Types, Claimed, Next
  PROVE  Grows
<1>1. CASE TillStep
  BY <1>1, TillStepServer DEF Grows, Stored, server
<1>2. ASSUME NEW op \in Ops, KeyExpires(op) PROVE Grows
  BY <1>2 DEF KeyExpires, Grows, Stored, Mishap
<1>3. ASSUME NEW p \in Pushes, EndPush(p) PROVE Grows
  BY <1>3 DEF EndPush, Grows, Stored, owner
<1>4. ASSUME NEW op \in Ops, ~ Stored(op), NEW row \in Row, Execute(op, row)
      PROVE  \A o \in Ops : Stored(o) => Stored(o)' /\ rows'[o] = rows[o]
  BY <1>4, ExecuteTypes DEF Stored
<1>5. ASSUME NEW b \in Bills, PostSale(b) PROVE Grows
  <2>1. UNCHANGED <<review, verdicts, owner>>
    BY <1>5, PostSaleIs
  <2>2. CASE UNCHANGED rows
    BY <2>1, <2>2 DEF Grows, Stored, owner
  <2>3. ASSUME NEW no \in DocNo, Sold(b, no) PROVE Grows
    <3>1. [no |-> no, offline |-> FALSE, dated |-> "server"] \in Row
      BY DEF Row
    <3>2. \A o \in Ops : Stored(o) => Stored(o)' /\ rows'[o] = rows[o]
      BY <1>4, <2>3, <3>1, OpKinds DEF Sold
    <3> QED BY <2>1, <3>2 DEF Grows, owner
  <2> QED BY <1>5, <2>2, <2>3, PostSaleIs
<1>6. ASSUME NEW p \in Pushes, ProcessOp(p) PROVE Grows
  <2>1. Entry(p) \in OutboxOp /\ Entry(p).op \in Ops /\ UNCHANGED dropped
    BY <1>6, ProcessOpIs DEF OutboxOp
  <2>2. PICK result \in Result :
           \/ UNCHANGED <<rows, keys, counters, review, effects, verdicts>>
           \/ Applied(Entry(p)) /\ UNCHANGED verdicts
           \/ Refused(Entry(p))
    BY <1>6, ProcessOpIs
  <2>3. CASE UNCHANGED <<rows, keys, counters, review, effects, verdicts>>
    BY <2>1, <2>3 DEF Grows, Stored
  <2>4. CASE Refused(Entry(p))
    BY <2>1, <2>4, RefusedIs DEF Grows, Stored
  <2>5. CASE Replayed(Entry(p)) /\ UNCHANGED verdicts
    BY <2>1, <2>5 DEF Replayed, Grows, Stored
  <2>6. CASE Entered(Entry(p)) /\ UNCHANGED verdicts
    <3>1. \A o \in Ops : Stored(o) => Stored(o)' /\ rows'[o] = rows[o]
      BY <1>4, <2>1, <2>6, RowOfTyped DEF Entered
    <3> QED BY <2>1, <2>6, <3>1 DEF Grows, Entered
  <2> QED BY <2>1, <2>2, <2>3, <2>4, <2>5, <2>6, AppliedIs
<1> QED BY <1>1, <1>2, <1>3, <1>5, <1>6, NextKinds

\* What is settled or past stays so, as long as its paper does.
LEMMA StaysSettled ==
  ASSUME Grows, NEW op \in Ops, paper'[op] = paper[op], Settled(op)
  PROVE  Settled(op)'
BY DEF Grows, Settled, Known

LEMMA StaysPast ==
  ASSUME Grows, NEW b \in Bills, Past(b)
  PROVE  Past(b)'
BY OpKinds DEF Grows, Past, Judged

-----------------------------------------------------------------------------
(* The number on the paper *)

\* The number of what is queued stays, and a void never has one.
Keeps(op) ==
    /\ Drawn(op) => Drawn(op)' /\ paper'[op] = paper[op]
    /\ op[1] = "void" => paper'[op] = None

\* An operation that is being queued was not before, and has its number now.
LEMMA EnqueueKeeps ==
  ASSUME Types, Papers, NEW op \in Ops, NEW no, NEW m, Enqueue(op, no, m),
         op[1] # "void" => attempt[op] \notin {"queued", "given up"},
         op[1] = "void" => no = None,
         NEW o \in Ops
  PROVE  Keeps(o) /\ Drawn(op)' /\ paper'[op] = no
<1>1. paper' = [paper EXCEPT ![op] = no] /\ attempt' = [attempt EXCEPT ![op] = "queued"]
  BY DEF Enqueue
<1>2. paper'[op] = no /\ attempt'[op] = "queued"
  BY <1>1 DEF Types
<1>3. ASSUME o = op PROVE Keeps(o)
  BY <1>2, <1>3 DEF Keeps, Drawn, Papers
<1>4. ASSUME o # op PROVE Keeps(o)
  <2>1. paper'[o] = paper[o] /\ attempt'[o] = attempt[o]
    BY <1>1, <1>4 DEF Types
  <2> QED BY <2>1 DEF Keeps, Drawn, Papers
<1> QED BY <1>2, <1>3, <1>4 DEF Drawn

\* A step that changes what became of one bill that was not queued.
LEMMA AttemptKeeps ==
  ASSUME Types, Papers, NEW op \in Ops, op[1] = "sale", attempt[op] \notin {"queued", "given up"},
         NEW a, attempt' = [attempt EXCEPT ![op] = a],
         \A o \in Ops : o # op => paper'[o] = paper[o],
         NEW o \in Ops
  PROVE  Keeps(o)
<1>1. CASE o = op
  BY <1>1 DEF Keeps, Drawn
<1>2. CASE o # op
  <2>1. paper'[o] = paper[o] /\ attempt'[o] = attempt[o]
    BY <1>2 DEF Types
  <2> QED BY <2>1 DEF Keeps, Drawn, Papers
<1> QED BY <1>1, <1>2

LEMMA NumberedKeeps ==
  ASSUME Types, Papers, NEW op \in Ops, NEW m, EnqueueNumbered(op, m), op[1] # "void",
         attempt[op] \notin {"queued", "given up"}, NEW o \in Ops
  PROVE  Keeps(o)
<1>1. PICK no \in DocNo : Enqueue(op, no, m)
  BY NumberedTypes
<1> QED BY <1>1, EnqueueKeeps

LEMMA NextKeeps ==
  ASSUME Types, Papers, Claimed, Next, NEW o \in Ops
  PROVE  Keeps(o)
<1>1. ASSUME UNCHANGED <<paper, attempt>> PROVE Keeps(o)
  BY <1>1 DEF Keeps, Drawn, Papers
<1>2. ASSUME NEW b \in Bills, SaveSale(b) PROVE Keeps(o)
  <2>1. Sale(b) \in Ops /\ Sale(b)[1] = "sale" /\ attempt[Sale(b)] \in {"none", "parked"}
    BY <1>2, OpKinds DEF SaveSale
  <2>2. CASE EnqueueNumbered(Sale(b), mode)
    BY <2>1, <2>2, NumberedKeeps
  <2>3. CASE attempt' = [attempt EXCEPT ![Sale(b)] = "asked"] /\ UNCHANGED paper
    BY <2>1, <2>3, AttemptKeeps
  <2> QED BY <1>2, <2>2, <2>3 DEF SaveSale
<1>3. ASSUME NEW b \in Bills, SaleUnanswered(b) PROVE Keeps(o)
  <2>1. Sale(b) \in Ops /\ Sale(b)[1] = "sale" /\ attempt[Sale(b)] = "asked"
    BY <1>3, OpKinds DEF SaleUnanswered
  <2>2. CASE EnqueueNumbered(Sale(b), "degraded")
    BY <2>1, <2>2, NumberedKeeps
  <2>3. CASE attempt' = [attempt EXCEPT ![Sale(b)] = "parked"] /\ UNCHANGED paper
    BY <2>1, <2>3, AttemptKeeps
  <2> QED BY <1>3, <2>2, <2>3 DEF SaleUnanswered
<1>4. ASSUME NEW r \in replies, SaleAnswered(r) PROVE Keeps(o)
  <2>1. Sale(r.bill) \in Ops /\ Sale(r.bill)[1] = "sale" /\ attempt[Sale(r.bill)] = "asked"
    BY <1>4, OpKinds DEF SaleAnswered, Types
  <2>2. CASE attempt' = [attempt EXCEPT ![Sale(r.bill)] = "given up"] /\ UNCHANGED paper
    BY <2>1, <2>2, AttemptKeeps
  <2>3. CASE /\ attempt' = [attempt EXCEPT ![Sale(r.bill)] = "online"]
             /\ paper' = [paper EXCEPT ![Sale(r.bill)] = r.no]
    <3>1. \A x \in Ops : x # Sale(r.bill) => paper'[x] = paper[x]
      BY <2>3 DEF Types
    <3> QED BY <2>1, <2>3, <3>1, AttemptKeeps
  <2> QED BY <1>4, <2>2, <2>3 DEF SaleAnswered
<1>5. ASSUME NEW b \in Voided, VoidOffline(b) PROVE Keeps(o)
  BY <1>5, OpKinds, EnqueueKeeps DEF VoidOffline
<1>6. ASSUME NEW b \in Returned, ReturnOffline(b) PROVE Keeps(o)
  BY <1>6, OpKinds, NumberedKeeps DEF ReturnOffline
<1>7. CASE Restart
  <2>1. UNCHANGED paper /\ attempt'[o] = IF attempt[o] \in {"asked", "parked"} THEN "given up" ELSE attempt[o]
    BY <1>7 DEF Restart
  <2> QED BY <2>1 DEF Keeps, Drawn, Papers
<1>8. ASSUME NEW i \in DOMAIN outbox, Discard(i) PROVE Keeps(o)
  <2>1. /\ UNCHANGED paper
        /\ attempt'[o] = IF o \notin Goes(i) \/ ServerHasRow(o) THEN attempt[o]
                         ELSE IF o[1] = "void" THEN "none" ELSE "given up"
    BY <1>8, DiscardIs
  <2> QED BY <2>1 DEF Keeps, Drawn, Papers
<1>9. ASSUME Seed \/ HealthGood \/ PushIdle \/ HealthBad \/ PushByHand
      PROVE  UNCHANGED <<paper, attempt>>
  BY <1>9 DEF Seed, HealthGood, PushIdle, HealthBad, PushByHand
<1>10. ASSUME NEW p \in Pushes, SendPush(p) \/ TakeReply(p) \/ PushFails(p) \/ ProcessOp(p) \/ EndPush(p)
       PROVE  UNCHANGED <<paper, attempt>>
  BY <1>10, ProcessOpIs DEF SendPush, TakeReply, PushFails, EndPush, till
<1>11. ASSUME NEW i \in DOMAIN outbox, Resend(i) PROVE UNCHANGED <<paper, attempt>>
  BY <1>11 DEF Resend
<1>12. ASSUME \/ \E b \in Bills : PostSale(b)
              \/ \E op \in Ops : KeyExpires(op)
       PROVE  UNCHANGED <<paper, attempt>>
  BY <1>12, PostSaleIs DEF KeyExpires, till
<1> QED BY <1>1, <1>2, <1>3, <1>4, <1>5, <1>6, <1>7, <1>8, <1>9, <1>10, <1>11, <1>12, NextKinds DEF TillStep

-----------------------------------------------------------------------------
(* What a step does to the outbox and to the pushes *)

\* An entry of the outbox was there, or is an operation that was just queued.
LEMMA NextOutbox ==
  ASSUME Types, Batches, Papers, Next, NEW k \in DOMAIN outbox'
  PROVE  \/ \E i \in DOMAIN outbox : Stays(outbox[i], outbox'[k])
         \/ \E o \in Ops : o = outbox'[k].op /\ outbox'[k].no = paper'[o] /\ Drawn(o)'
<1> DEFINE Goal == \/ \E i \in DOMAIN outbox : Stays(outbox[i], outbox'[k])
                   \/ \E o \in Ops : o = outbox'[k].op /\ outbox'[k].no = paper'[o] /\ Drawn(o)'
<1>1. ASSUME UNCHANGED outbox PROVE Goal
  BY <1>1 DEF Stays
<1>2. ASSUME NEW op \in Ops, NEW no \in DocNo \cup {None}, NEW m, Enqueue(op, no, m)
      PROVE  Goal
  <2> DEFINE e == [op |-> op, no |-> no, status |-> "pending", attempts |-> 0]
  <2>1. outbox' = Append(outbox, e) /\ e.op = op /\ e.no = no
    BY <1>2 DEF Enqueue
  <2>2. paper'[op] = no /\ attempt'[op] = "queued"
    BY <1>2 DEF Enqueue, Types
  <2>3. (k \in DOMAIN outbox /\ outbox'[k] = outbox[k]) \/ outbox'[k] = e
    <3>1. outbox \in Seq(OutboxOp)
      BY OutboxIs
    <3> HIDE DEF e
    <3> QED BY <2>1, <3>1
  <2> HIDE DEF e
  <2> QED BY <2>1, <2>2, <2>3 DEF Stays, Drawn
<1>3. ASSUME NEW op \in Ops, NEW m, EnqueueNumbered(op, m) PROVE Goal
  BY <1>2, <1>3, NumberedTypes
<1>4. ASSUME NEW b \in Bills, SaveSale(b) \/ SaleUnanswered(b) PROVE Goal
  BY <1>1, <1>3, <1>4, OpKinds DEF SaveSale, SaleUnanswered
<1>5. ASSUME NEW b \in Voided, VoidOffline(b) PROVE Goal
  BY <1>2, <1>5, OpKinds DEF VoidOffline
<1>6. ASSUME NEW b \in Returned, ReturnOffline(b) PROVE Goal
  BY <1>3, <1>6, OpKinds DEF ReturnOffline
<1>7. ASSUME NEW p \in Pushes, PushFails(p) PROVE Goal
  <2>1. /\ k \in DOMAIN outbox
        /\ outbox'[k] = IF outbox[k].op = push[p].ops[1].op THEN Failed(outbox[k]) ELSE outbox[k]
    BY <1>7 DEF PushFails
  <2>2. outbox[k] \in OutboxOp
    BY <2>1, OutboxIs
  <2>3. Failed(outbox[k]).op = outbox[k].op /\ Failed(outbox[k]).no = outbox[k].no
    BY <2>2 DEF OutboxOp, Failed
  <2> QED BY <2>1, <2>3 DEF Stays
<1>8. ASSUME NEW p \in Pushes, TakeReply(p) PROVE Goal
  <2>1. Unapplied(p) \in SUBSET (DOMAIN outbox) /\ outbox \in Seq(OutboxOp)
    BY OutboxIs DEF Unapplied
  <2>2. k \in DOMAIN Kept(outbox, Unapplied(p)) /\ Stays(Kept(outbox, Unapplied(p))[k], outbox'[k])
    BY <1>8, TakeReplyIs
  <2>3. Place(Unapplied(p), k) \in DOMAIN outbox /\ Kept(outbox, Unapplied(p))[k] = outbox[Place(Unapplied(p), k)]
    BY <2>1, <2>2, KeptIs
  <2> QED BY <2>2, <2>3
<1>9. ASSUME NEW i \in DOMAIN outbox, Resend(i) PROVE Goal
  <2>1. outbox[i] \in OutboxOp /\ outbox \in Seq(OutboxOp)
    BY OutboxIs
  <2>2. PICK f : f = [outbox[i] EXCEPT !.status = "pending", !.attempts = 0]
    OBVIOUS
  <2>3. f.op = outbox[i].op /\ f.no = outbox[i].no
    BY <2>1, <2>2, ResentTypes
  <2>4. outbox' = [outbox EXCEPT ![i] = f]
    BY <1>9, <2>2 DEF Resend
  <2>5. k \in DOMAIN outbox /\ outbox'[k] = IF k = i THEN f ELSE outbox[k]
    BY <2>4
  <2> QED BY <2>3, <2>5 DEF Stays
<1>10. ASSUME NEW i \in DOMAIN outbox, Discard(i) PROVE Goal
  <2>1. Ungone(i) \in SUBSET (DOMAIN outbox) /\ outbox \in Seq(OutboxOp)
    BY OutboxIs DEF Ungone
  <2>2. outbox' = Kept(outbox, Ungone(i))
    BY <1>10, DiscardIs
  <2>3. Place(Ungone(i), k) \in DOMAIN outbox /\ outbox'[k] = outbox[Place(Ungone(i), k)]
    BY <2>1, <2>2, KeptIs
  <2> QED BY <2>3 DEF Stays
<1>11. ASSUME \/ \E r \in replies : SaleAnswered(r)
              \/ Seed \/ HealthGood \/ PushIdle \/ HealthBad \/ PushByHand \/ Restart
              \/ \E p \in Pushes : SendPush(p)
       PROVE  UNCHANGED outbox
  BY <1>11 DEF SaleAnswered, Seed, HealthGood, PushIdle, HealthBad, PushByHand, Restart, SendPush
<1>12. ASSUME \/ \E b \in Bills : PostSale(b)
              \/ \E p \in Pushes : ProcessOp(p) \/ EndPush(p)
              \/ \E op \in Ops : KeyExpires(op)
       PROVE  UNCHANGED outbox
  BY <1>12 DEF PostSale, ProcessOp, EndPush, KeyExpires, till
<1> HIDE DEF Goal
<1>13. Goal
  BY <1>1, <1>4, <1>5, <1>6, <1>7, <1>8, <1>9, <1>10, <1>11, <1>12, NextKinds DEF TillStep
<1> QED BY <1>13 DEF Goal

\* A push stays what it was, is over, takes a result, or is a new one.
Ended(p) ==
    /\ push[p] # None
    /\ push'[p].results = push[p].results /\ push'[p].nos = push[p].nos /\ push'[p].ops = push[p].ops
    /\ push'[p].stage = push[p].stage \/ (push[p].stage = "running" /\ push'[p].stage = "answered")

LEMMA NextPushes ==
  ASSUME Types, Next, NEW p \in Pushes, push'[p] # None
  PROVE  \/ Ended(p)
         \/ push'[p] = Over
         \/ ProcessOp(p)
         \/ SendPush(p)
<1>1. ASSUME UNCHANGED push PROVE Ended(p)
  BY <1>1 DEF Ended
<1>2. ASSUME NEW q \in Pushes, SendPush(q) PROVE SendPush(p) \/ Ended(p)
  BY <1>2 DEF SendPush, Types, Ended
<1>3. ASSUME NEW q \in Pushes, ProcessOp(q) PROVE ProcessOp(p) \/ Ended(p)
  <2>1. PICK result \in Result, n \in DocNo \cup {None} : Results(q, result, n)
    BY <1>3, ProcessOpIs
  <2>2. q # p => push'[p] = push[p]
    BY <1>3, <2>1, ResultsIs, ProcessOpIs
  <2> QED BY <1>3, <2>2 DEF Ended
<1>4. ASSUME NEW q \in Pushes, TakeReply(q) \/ PushFails(q)
      PROVE  push'[p] = Over \/ Ended(p)
  <2>1. push'[p] = push[p] \/ push'[p] = Over
    BY <1>4 DEF TakeReply, PushFails, Types
  <2> QED BY <2>1 DEF Ended
<1>5. ASSUME Restart PROVE push'[p] = Over \/ Ended(p)
  <2>1. push'[p] = push[p] \/ push'[p] = Over
    BY <1>5 DEF Restart
  <2> QED BY <2>1 DEF Ended
<1>6. ASSUME NEW q \in Pushes, EndPush(q) PROVE push'[p] = Over \/ Ended(p)
  <2>1. CASE p # q
    <3>1. push'[p] = push[p]
      BY <1>6, <2>1 DEF EndPush, Types
    <3> QED BY <3>1 DEF Ended
  <2>2. CASE p = q
    <3>1. push[p] # None /\ push[p] \in Push /\ push[p].stage = "running"
      BY <1>6, <2>2, PushIs DEF EndPush
    <3>2. push'[p] = [push[p] EXCEPT !.stage = "answered"] \/ push'[p] = Over
      BY <1>6, <2>2 DEF EndPush, Types
    <3>3. CASE push'[p] = [push[p] EXCEPT !.stage = "answered"]
      <4>1. PICK rec : rec = push[p] /\ rec \in Push
        BY <3>1
      <4>2. PICK new : new = [rec EXCEPT !.stage = "answered"]
        OBVIOUS
      <4>3. new.results = rec.results /\ new.nos = rec.nos /\ new.ops = rec.ops /\ new.stage = "answered"
        BY <4>1, <4>2 DEF Push
      <4> QED BY <3>1, <3>3, <4>1, <4>2, <4>3 DEF Ended
    <3> QED BY <3>2, <3>3
  <2> QED BY <2>1, <2>2
<1>7. ASSUME \/ \E b \in Bills : SaveSale(b) \/ SaleUnanswered(b)
             \/ \E r \in replies : SaleAnswered(r)
             \/ \E b \in Voided : VoidOffline(b)
             \/ \E b \in Returned : ReturnOffline(b)
             \/ Seed \/ HealthGood \/ PushIdle \/ HealthBad \/ PushByHand
             \/ \E i \in DOMAIN outbox : Resend(i) \/ Discard(i)
      PROVE  UNCHANGED push
  BY <1>7 DEF SaveSale, SaleUnanswered, SaleAnswered, VoidOffline, ReturnOffline, Seed, HealthGood,
              PushIdle, HealthBad, PushByHand, Resend, Discard, wire
<1>8. ASSUME \/ \E b \in Bills : PostSale(b)
             \/ \E op \in Ops : KeyExpires(op)
      PROVE  UNCHANGED push
  BY <1>8 DEF PostSale, KeyExpires, wire
<1> QED BY <1>1, <1>2, <1>3, <1>4, <1>5, <1>6, <1>7, <1>8, NextKinds DEF TillStep

\* What a push applies is settled: the owner is told of a number that is not the paper's.
LEMMA AppliedSettles ==
  ASSUME Types, Papers, Grows, NEW p \in Pushes, ProcessOp(p), NEW e, e = Entry(p), Applied(e)
  PROVE  Settled(e.op)' /\ Drawn(e.op)' /\ e.op \in Ops
<1>1. /\ e \in OutboxOp /\ e.op \in Ops /\ UNCHANGED <<paper, attempt>> /\ push[p] # None
      /\ Len(push[p].results) + 1 \in DOMAIN push[p].ops
  BY ProcessOpIs DEF OutboxOp, till
<1>2. e.no = paper[e.op] /\ Drawn(e.op)
  BY <1>1 DEF Papers, Printed, Entry
<1>3. Drawn(e.op)'
  BY <1>1, <1>2 DEF Drawn
<1>4. ASSUME keys[e.op] = "queued" /\ UNCHANGED <<rows, keys, counters, review, effects>> PROVE Settled(e.op)'
  BY <1>1, <1>4, StaysSettled DEF Papers
<1>5. ASSUME Replayed(e) PROVE Settled(e.op)'
  <2>1. Stored(e.op)' /\ rows'[e.op] = rows[e.op] /\ paper'[e.op] = e.no
    BY <1>1, <1>2, <1>5 DEF Replayed, Stored
  <2>2. e.no # None /\ e.no # rows[e.op].no => <<"receipt_renumbered", e.op>> \in review'
    BY <1>5 DEF Replayed, FlagRenumbered
  <2> QED BY <2>1, <2>2 DEF Settled, Known
<1>6. ASSUME Entered(e) PROVE Settled(e.op)'
  <2>1. rows'[e.op] = RowOf(e) /\ RowOf(e) \in Row /\ RowOf(e).no = e.no
    BY <1>1, <1>6, EnteredTypes, RowOfTyped
  <2>2. Stored(e.op)' /\ rows'[e.op].no = paper'[e.op]
    BY <1>1, <1>2, <2>1, NoneAssumption DEF Stored
  <2> QED BY <2>2 DEF Settled, Known
<1>7. Settled(e.op)'
  BY <1>4, <1>5, <1>6, AppliedIs
<1> QED BY <1>1, <1>3, <1>7

\* A key of the outbox's own body is recorded by a push that applies its entry.
LEMMA NextQueued ==
  ASSUME Types, Books, Next, NEW op \in Ops, keys'[op] = "queued"
  PROVE  \/ keys[op] = "queued"
         \/ \E p \in Pushes : ProcessOp(p) /\ Applied(Entry(p)) /\ Entry(p).op = op
<1>1. CASE TillStep
  BY <1>1, TillStepServer DEF server
<1>2. ASSUME NEW o \in Ops, KeyExpires(o) PROVE keys[op] = "queued"
  <2>1. keys' = [keys EXCEPT ![o] = None] /\ None # "queued"
    BY <1>2, NoneAssumption DEF KeyExpires, Fingerprints
  <2> QED BY <2>1 DEF Types
<1>3. ASSUME NEW p \in Pushes, EndPush(p) PROVE keys[op] = "queued"
  BY <1>3 DEF EndPush
<1>4. ASSUME NEW b \in Bills, PostSale(b) PROVE keys[op] = "queued"
  <2>1. keys' = keys \/ keys' = [keys EXCEPT ![Sale(b)] = "online"]
    BY <1>4, PostSaleIs DEF Books, Sold
  <2> QED BY <2>1 DEF Types
<1>5. ASSUME NEW p \in Pushes, ProcessOp(p), keys[op] # "queued"
      PROVE  Applied(Entry(p)) /\ Entry(p).op = op
  <2>1. Entry(p) \in OutboxOp
    BY <1>5, ProcessOpIs
  <2>2. keys' # keys
    BY <1>5
  <2>3. Applied(Entry(p))
    BY <1>5, <2>2, ProcessOpIs, RefusedIs
  <2>4. keys' = [keys EXCEPT ![Entry(p).op] = "queued"]
    BY <2>2, <2>3, AppliedIs DEF Replayed, Entered
  <2>5. Entry(p).op = op
    BY <1>5, <2>4 DEF Types
  <2> QED BY <2>3, <2>5
<1> QED BY <1>1, <1>2, <1>3, <1>4, <1>5, NextKinds

LEMMA NextPapers ==
  ASSUME Types, Books, Papers, Batches, Next
  PROVE  Papers'
<1>1. Claimed /\ Grows /\ Types'
  BY NextGrows, NextTypes DEF Books
<1>2. \A o \in Ops : Keeps(o)
  BY <1>1, NextKeeps
<1>3. Printed(outbox)'
  <2> SUFFICES ASSUME NEW k \in DOMAIN outbox'
               PROVE  \E o \in Ops : o = outbox'[k].op /\ outbox'[k].no = paper'[o] /\ Drawn(o)'
    BY DEF Printed, Drawn
  <2>1. ASSUME NEW i \in DOMAIN outbox, Stays(outbox[i], outbox'[k])
        PROVE  \E o \in Ops : o = outbox'[k].op /\ outbox'[k].no = paper'[o] /\ Drawn(o)'
    <3>1. PICK o \in Ops : o = outbox[i].op
      BY EntryIs
    <3>2. outbox[i].no = paper[o] /\ Drawn(o)
      BY <3>1 DEF Papers, Printed
    <3>3. paper'[o] = paper[o] /\ Drawn(o)'
      BY <1>2, <3>2 DEF Keeps
    <3> QED BY <2>1, <3>1, <3>2, <3>3 DEF Stays
  <2> QED BY <2>1, NextOutbox
<1>4. ASSUME NEW p \in Pushes, push'[p] # None, NEW ops, ops = push'[p].ops, NEW k \in DOMAIN ops
      PROVE  \E o \in Ops : o = ops[k].op /\ ops[k].no = paper'[o] /\ Drawn(o)'
  <2>1. ASSUME push[p] # None, ops = push[p].ops
        PROVE  \E o \in Ops : o = ops[k].op /\ ops[k].no = paper'[o] /\ Drawn(o)'
    <3>1. PICK o \in Ops : o = ops[k].op
      <4>1. ops \in Seq(OutboxOp)
        BY <2>1, PushIs
      <4>2. ops[k] \in OutboxOp
        BY <4>1, <1>4
      <4> QED BY <4>2 DEF OutboxOp
    <3>2. ops[k].no = paper[o] /\ Drawn(o)
      BY <1>4, <2>1, <3>1 DEF Papers, Printed
    <3>3. paper'[o] = paper[o] /\ Drawn(o)'
      BY <1>2, <3>2 DEF Keeps
    <3> QED BY <3>1, <3>2, <3>3
  <2>2. CASE push'[p] = Over
    BY <1>4, <2>2 DEF Over
  <2>3. CASE ProcessOp(p)
    <3>1. push[p] # None /\ push'[p].ops = push[p].ops
      BY <2>3, ProcessOpIs, ResultsIs
    <3> QED BY <1>4, <2>1, <3>1
  <2>4. CASE SendPush(p)
    <3>1. push'[p].ops = Batch /\ UNCHANGED <<paper, attempt>> /\ FindSendableOps # <<>>
      BY <2>4 DEF SendPush, Batch, Types
    <3>2. PICK i \in DOMAIN outbox : ops[k] = outbox[i]
      BY <1>4, <3>1, OutboxIs, BatchIs DEF Free
    <3>3. PICK o \in Ops : o = outbox[i].op
      BY EntryIs
    <3>4. outbox[i].no = paper[o] /\ Drawn(o)
      BY <3>3 DEF Papers, Printed
    <3> QED BY <3>1, <3>2, <3>3, <3>4 DEF Drawn
  <2>5. CASE Ended(p)
    BY <1>4, <2>1, <2>5 DEF Ended
  <2> QED BY <1>4, <2>2, <2>3, <2>4, <2>5, NextPushes
<1>5. ASSUME NEW op \in Ops, keys'[op] = "queued" PROVE Settled(op)' /\ Drawn(op)'
  <2>1. CASE keys[op] = "queued"
    <3>1. Settled(op) /\ Drawn(op)
      BY <2>1 DEF Papers
    <3>2. paper'[op] = paper[op] /\ Drawn(op)'
      BY <1>2, <3>1 DEF Keeps
    <3> QED BY <1>1, <3>1, <3>2, StaysSettled
  <2>2. ASSUME NEW p \in Pushes, ProcessOp(p), Applied(Entry(p)), Entry(p).op = op
        PROVE  Settled(op)' /\ Drawn(op)'
    <3>1. PICK e : e = Entry(p)
      OBVIOUS
    <3>2. Settled(e.op)' /\ Drawn(e.op)' /\ e.op = op
      BY <1>1, <2>2, <3>1, AppliedSettles
    <3> QED BY <3>2
  <2> QED BY <1>5, <2>1, <2>2, NextQueued
<1>6. \A op \in Ops : op[1] = "void" => paper'[op] = None
  BY <1>2 DEF Keeps
<1>7. ASSUME NEW p \in Pushes, push'[p] # None, NEW k \in DOMAIN push'[p].ops
      PROVE  /\ push'[p].ops[k].no = paper'[push'[p].ops[k].op]
             /\ push'[p].ops[k].op[1] # "void" => attempt'[push'[p].ops[k].op] \in {"queued", "given up"}
  <2>1. PICK ops : ops = push'[p].ops
    OBVIOUS
  <2>2. PICK o \in Ops : o = ops[k].op /\ ops[k].no = paper'[o] /\ Drawn(o)'
    BY <1>4, <1>7, <2>1
  <2> QED BY <2>1, <2>2 DEF Drawn
<1>11. ASSUME NEW p \in Pushes, push'[p] # None PROVE Printed(push[p].ops)'
  BY <1>7, <1>11 DEF Printed, Drawn
<1>8. (\A p \in Pushes : push[p] # None => Printed(push[p].ops))'
  BY <1>11
<1>9. (\A op \in Ops : keys[op] = "queued" => Settled(op) /\ Drawn(op))'
  BY <1>5
<1>10. (\A op \in Ops : op[1] = "void" => paper[op] = None)'
  BY <1>6
<1> QED BY <1>3, <1>8, <1>9, <1>10 DEF Papers

-----------------------------------------------------------------------------
(* What the till is told *)

\* What was just queued is in the outbox.
LEMMA EnqueueQueues ==
  ASSUME Types, NEW op \in Ops, NEW no \in DocNo \cup {None}, NEW m, Enqueue(op, no, m)
  PROVE  /\ Queued(op)' /\ attempt'[op] = "queued"
         /\ \A o \in Ops : Queued(o) => Queued(o)'
         /\ \A o \in Ops : o # op => attempt'[o] = attempt[o]
<1> DEFINE e == [op |-> op, no |-> no, status |-> "pending", attempts |-> 0]
<1>1. outbox' = Append(outbox, e) /\ e.op = op /\ attempt' = [attempt EXCEPT ![op] = "queued"]
  BY DEF Enqueue
<1>2. outbox \in Seq(OutboxOp)
  BY OutboxIs
<1> HIDE DEF e
<1>3. /\ Len(outbox) + 1 \in DOMAIN outbox' /\ outbox'[Len(outbox) + 1] = e
      /\ \A i \in DOMAIN outbox : i \in DOMAIN outbox' /\ outbox'[i] = outbox[i]
  BY <1>1, <1>2
<1>4. attempt'[op] = "queued" /\ \A o \in Ops : o # op => attempt'[o] = attempt[o]
  BY <1>1 DEF Types
<1> QED BY <1>1, <1>3, <1>4 DEF Queued

\* An operation becomes queued when it enters the outbox, and sold online when the
\* answer with its number arrives.
LEMMA NextAttempts ==
  ASSUME Types, Told, Next, NEW o \in Ops
  PROVE  \/ attempt'[o] = attempt[o]
         \/ attempt'[o] \notin {"queued", "online"}
         \/ attempt'[o] = "queued" /\ Queued(o)'
         \/ attempt'[o] = "online" /\ Stored(o)
<1> DEFINE Goal == \/ attempt'[o] = attempt[o]
                   \/ attempt'[o] \notin {"queued", "online"}
                   \/ attempt'[o] = "queued" /\ Queued(o)'
                   \/ attempt'[o] = "online" /\ Stored(o)
<1>1. ASSUME NEW op \in Ops, NEW m, EnqueueNumbered(op, m) PROVE Goal
  BY <1>1, NumberedTypes, EnqueueQueues
<1>2. ASSUME NEW b \in Bills, SaveSale(b) PROVE Goal
  <2>1. CASE attempt' = [attempt EXCEPT ![Sale(b)] = "asked"]
    BY <2>1 DEF Types
  <2> QED BY <1>1, <1>2, <2>1, OpKinds DEF SaveSale
<1>3. ASSUME NEW b \in Bills, SaleUnanswered(b) PROVE Goal
  <2>1. CASE attempt' = [attempt EXCEPT ![Sale(b)] = "parked"]
    BY <2>1 DEF Types
  <2> QED BY <1>1, <1>3, <2>1, OpKinds DEF SaleUnanswered
<1>4. ASSUME NEW r \in replies, SaleAnswered(r) PROVE Goal
  <2>1. Sale(r.bill) \in Ops
    BY OpKinds DEF Types
  <2>2. CASE attempt' = [attempt EXCEPT ![Sale(r.bill)] = "given up"]
    BY <2>2 DEF Types
  <2>3. CASE r.no # None /\ attempt' = [attempt EXCEPT ![Sale(r.bill)] = "online"]
    <3>1. Stored(Sale(r.bill))
      BY <2>3 DEF Told
    <3>2. IF o = Sale(r.bill) THEN attempt'[o] = "online" ELSE attempt'[o] = attempt[o]
      BY <2>3 DEF Types
    <3> QED BY <3>1, <3>2
  <2> QED BY <1>4, <2>2, <2>3 DEF SaleAnswered
<1>5. ASSUME NEW b \in Voided, VoidOffline(b) PROVE Goal
  BY <1>5, OpKinds, EnqueueQueues DEF VoidOffline
<1>6. ASSUME NEW b \in Returned, ReturnOffline(b) PROVE Goal
  BY <1>1, <1>6, OpKinds DEF ReturnOffline
<1>7. ASSUME Restart PROVE Goal
  BY <1>7 DEF Restart
<1>8. ASSUME NEW i \in DOMAIN outbox, Discard(i) PROVE Goal
  BY <1>8, DiscardIs
<1>9. ASSUME UNCHANGED attempt PROVE Goal
  BY <1>9
<1>10. ASSUME \/ Seed \/ HealthGood \/ PushIdle \/ HealthBad \/ PushByHand
              \/ \E p \in Pushes : SendPush(p) \/ TakeReply(p) \/ PushFails(p)
              \/ \E i \in DOMAIN outbox : Resend(i)
       PROVE  UNCHANGED attempt
  BY <1>10 DEF Seed, HealthGood, PushIdle, HealthBad, PushByHand, SendPush, TakeReply, PushFails, Resend
<1>11. ASSUME \/ \E b \in Bills : PostSale(b)
              \/ \E p \in Pushes : ProcessOp(p) \/ EndPush(p)
              \/ \E op \in Ops : KeyExpires(op)
       PROVE  UNCHANGED attempt
  BY <1>11 DEF PostSale, ProcessOp, EndPush, KeyExpires, till
<1> HIDE DEF Goal
<1>12. ASSUME TillStep PROVE Goal
  BY <1>2, <1>3, <1>4, <1>5, <1>6, <1>7, <1>8, <1>9, <1>10, <1>12 DEF TillStep
<1>13. Goal
  BY <1>9, <1>11, <1>12, NextKinds
<1> QED BY <1>13 DEF Goal

\* What is kept is there.
LEMMA KeptStays ==
  ASSUME NEW S, NEW s \in Seq(S), NEW I \in SUBSET (DOMAIN s), NEW n \in I
  PROVE  \E k \in DOMAIN Kept(s, I) : Kept(s, I)[k] = s[n]
<1>1. PICK k \in DOMAIN Kept(s, I) : Place(I, k) = n
  BY KeptIs
<1>2. Kept(s, I)[k] = s[Place(I, k)]
  BY KeptIs
<1> QED BY <1>1, <1>2

\* An entry leaves the outbox when it was applied or discarded.
LEMMA NextLeaves ==
  ASSUME Types, Batches, Told, Next, NEW o \in Ops, Queued(o)
  PROVE  Queued(o)' \/ Settled(o) \/ o \in dropped'
<1> DEFINE Goal == Queued(o)' \/ Settled(o) \/ o \in dropped'
<1>0. PICK n \in DOMAIN outbox : outbox[n].op = o
  BY DEF Queued
<1>1. ASSUME UNCHANGED outbox PROVE Goal
  BY <1>1 DEF Queued
<1>2. ASSUME NEW op \in Ops, NEW m, EnqueueNumbered(op, m) PROVE Goal
  BY <1>2, NumberedTypes, EnqueueQueues
<1>3. ASSUME NEW b \in Bills, SaveSale(b) \/ SaleUnanswered(b) PROVE Goal
  BY <1>1, <1>2, <1>3, OpKinds DEF SaveSale, SaleUnanswered
<1>4. ASSUME NEW b \in Voided, VoidOffline(b) PROVE Goal
  BY <1>4, OpKinds, EnqueueQueues DEF VoidOffline
<1>5. ASSUME NEW b \in Returned, ReturnOffline(b) PROVE Goal
  BY <1>2, <1>5, OpKinds DEF ReturnOffline
<1>6. ASSUME NEW p \in Pushes, PushFails(p) PROVE Goal
  <2>1. /\ n \in DOMAIN outbox'
        /\ outbox'[n] = IF outbox[n].op = push[p].ops[1].op THEN Failed(outbox[n]) ELSE outbox[n]
    BY <1>6 DEF PushFails
  <2>2. outbox[n] \in OutboxOp
    BY EntryIs
  <2>3. Failed(outbox[n]).op = outbox[n].op
    BY <2>2 DEF OutboxOp, Failed
  <2> QED BY <1>0, <2>1, <2>3 DEF Queued
<1>7. ASSUME NEW p \in Pushes, TakeReply(p) PROVE Goal
  <2>1. Unapplied(p) \in SUBSET (DOMAIN outbox) /\ outbox \in Seq(OutboxOp)
    BY OutboxIs DEF Unapplied
  <2>2. CASE n \in Unapplied(p)
    <3>1. PICK k \in DOMAIN Kept(outbox, Unapplied(p)) : Kept(outbox, Unapplied(p))[k] = outbox[n]
      BY <2>1, <2>2, KeptStays
    <3>2. k \in DOMAIN outbox' /\ outbox'[k].op = outbox[n].op
      BY <1>7, <3>1, TakeReplyIs DEF Stays
    <3> QED BY <1>0, <3>2 DEF Queued
  <2>3. CASE n \notin Unapplied(p)
    <3>1. Says(p, o, "applied")
      BY <1>0, <2>3 DEF Unapplied
    <3>2. push[p] # None
      BY <1>7 DEF TakeReply, Batches
    <3> QED BY <3>1, <3>2 DEF Says, Told
  <2> QED BY <2>2, <2>3
<1>8. ASSUME NEW i \in DOMAIN outbox, Resend(i) PROVE Goal
  <2>1. outbox[i] \in OutboxOp
    BY EntryIs
  <2>2. PICK f : f = [outbox[i] EXCEPT !.status = "pending", !.attempts = 0]
    OBVIOUS
  <2>3. f.op = outbox[i].op
    BY <2>1, <2>2, ResentTypes
  <2>4. outbox' = [outbox EXCEPT ![i] = f]
    BY <1>8, <2>2 DEF Resend
  <2>5. n \in DOMAIN outbox' /\ outbox'[n] = IF n = i THEN f ELSE outbox[n]
    BY <2>4
  <2> QED BY <1>0, <2>3, <2>5 DEF Queued
<1>9. ASSUME NEW i \in DOMAIN outbox, Discard(i) PROVE Goal
  <2>1. Ungone(i) \in SUBSET (DOMAIN outbox) /\ outbox \in Seq(OutboxOp)
    BY OutboxIs DEF Ungone
  <2>2. outbox' = Kept(outbox, Ungone(i)) /\ dropped' = dropped \cup Goes(i)
    BY <1>9, DiscardIs
  <2>3. CASE n \in Ungone(i)
    <3>1. PICK I \in SUBSET (DOMAIN outbox) : I = Ungone(i)
      BY <2>1
    <3>2. PICK k \in DOMAIN Kept(outbox, I) : Kept(outbox, I)[k] = outbox[n]
      BY <2>1, <2>3, <3>1, KeptStays
    <3> QED BY <1>0, <2>2, <3>1, <3>2 DEF Queued
  <2>4. CASE n \notin Ungone(i)
    BY <1>0, <2>2, <2>4 DEF Ungone
  <2> QED BY <2>3, <2>4
<1>10. ASSUME \/ \E r \in replies : SaleAnswered(r)
              \/ Seed \/ HealthGood \/ PushIdle \/ HealthBad \/ PushByHand \/ Restart
              \/ \E p \in Pushes : SendPush(p)
       PROVE  UNCHANGED outbox
  BY <1>10 DEF SaleAnswered, Seed, HealthGood, PushIdle, HealthBad, PushByHand, Restart, SendPush
<1>11. ASSUME \/ \E b \in Bills : PostSale(b)
              \/ \E p \in Pushes : ProcessOp(p) \/ EndPush(p)
              \/ \E op \in Ops : KeyExpires(op)
       PROVE  UNCHANGED outbox
  BY <1>11 DEF PostSale, ProcessOp, EndPush, KeyExpires, till
<1> HIDE DEF Goal
<1>12. Goal
  BY <1>1, <1>3, <1>4, <1>5, <1>6, <1>7, <1>8, <1>9, <1>10, <1>11, NextKinds DEF TillStep
<1> QED BY <1>12 DEF Goal

\* An answer of POST /sales that names a number stands for a bill the server has.
LEMMA NextReplies ==
  ASSUME Types, Claimed, Told, Next, NEW r \in replies', r.no # None
  PROVE  r.bill \in Bills /\ Stored(Sale(r.bill))'
<1>1. Grows
  BY NextGrows
<1>2. ASSUME r \in replies PROVE r.bill \in Bills /\ Stored(Sale(r.bill))'
  <2>1. r.bill \in Bills /\ Stored(Sale(r.bill))
    BY <1>2 DEF Types, Told
  <2> QED BY <1>1, <2>1, OpKinds DEF Grows
<1>3. ASSUME NEW b \in Bills, PostSale(b) PROVE r.bill \in Bills /\ Stored(Sale(r.bill))'
  <2>1. Sale(b) \in Ops
    BY OpKinds
  <2>2. ASSUME NEW no, AnswerPost(b, no), no # None => Stored(Sale(b))'
        PROVE  r.bill \in Bills /\ Stored(Sale(r.bill))'
    <3>1. r \in replies \/ (r.bill = b /\ r.no = no)
      BY <2>2 DEF AnswerPost
    <3> QED BY <1>2, <2>2, <3>1
  <2>3. CASE AnswerPost(b, None)
    BY <2>2, <2>3
  <2>4. CASE Stored(Sale(b)) /\ AnswerPost(b, rows[Sale(b)].no)
    <3>1. Stored(Sale(b))'
      BY <1>1, <2>1, <2>4 DEF Grows
    <3> QED BY <2>2, <2>4, <3>1
  <2>5. ASSUME NEW no \in DocNo, Sold(b, no) PROVE r.bill \in Bills /\ Stored(Sale(r.bill))'
    <3>1. PICK row \in Row : Execute(Sale(b), row)
      BY <2>5 DEF Sold, Row
    <3>2. Stored(Sale(b))'
      BY <2>1, <3>1, ExecuteTypes, NoneAssumption DEF Stored
    <3> QED BY <2>2, <2>5, <3>2 DEF Sold
  <2> QED BY <1>3, <2>3, <2>4, <2>5, PostSaleIs
<1>4. ASSUME \/ \E b \in Bills : SaveSale(b) \/ SaleUnanswered(b)
             \/ \E x \in replies : SaleAnswered(x)
             \/ \E b \in Voided : VoidOffline(b)
             \/ \E b \in Returned : ReturnOffline(b)
             \/ Seed \/ HealthGood \/ PushIdle \/ HealthBad \/ PushByHand \/ Restart
      PROVE  replies' \subseteq replies
  BY <1>4 DEF SaveSale, SaleUnanswered, SaleAnswered, VoidOffline, ReturnOffline, Seed, HealthGood,
              PushIdle, HealthBad, PushByHand, Restart, wire
<1>5. ASSUME \/ \E p \in Pushes : SendPush(p) \/ TakeReply(p) \/ PushFails(p) \/ ProcessOp(p) \/ EndPush(p)
             \/ \E i \in DOMAIN outbox : Resend(i) \/ Discard(i)
             \/ \E op \in Ops : KeyExpires(op)
      PROVE  replies' \subseteq replies
  BY <1>5 DEF SendPush, TakeReply, PushFails, ProcessOp, EndPush, Resend, Discard, KeyExpires, wire
<1> QED BY <1>2, <1>3, <1>4, <1>5, NextKinds DEF TillStep

\* What a push already said stays true.
LEMMA OldResult ==
  ASSUME Types, Papers, Batches, Told, Grows, \A o \in Ops : Keeps(o),
         NEW p \in Pushes, push[p] # None, NEW i \in DOMAIN push[p].results,
         NEW o, o = push[p].ops[i].op
  PROVE  /\ push[p].results[i] = "applied" => Settled(o)'
         /\ push[p].results[i] = "rejected" => Judged(o)'
<1>1. i \in DOMAIN push[p].ops /\ o \in Ops
  <2>1. i \in DOMAIN push[p].ops
    BY PushIs DEF Batches
  <2>2. push[p].ops[i] \in OutboxOp
    BY <2>1, PushIs
  <2> QED BY <2>1, <2>2 DEF OutboxOp
<1>2. Drawn(o)
  BY <1>1 DEF Papers, Printed
<1>3. paper'[o] = paper[o]
  BY <1>1, <1>2 DEF Keeps
<1>4. push[p].results[i] = "applied" => Settled(o)
  BY DEF Told
<1>5. push[p].results[i] = "rejected" => Judged(o)
  BY DEF Told
<1> QED BY <1>1, <1>3, <1>4, <1>5, StaysSettled DEF Grows, Judged

\* What a push says is true of the books after it, for as long as the push is known.
LEMMA NextResults ==
  ASSUME Types, Books, Papers, Batches, Told, Next, NEW p \in Pushes, push'[p] # None,
         NEW i \in DOMAIN push'[p].results, NEW o, o = push'[p].ops[i].op
  PROVE  /\ push'[p].results[i] = "applied" => Settled(o)'
         /\ push'[p].results[i] = "rejected" => Judged(o)'
<1>1. Grows /\ \A x \in Ops : Keeps(x)
  BY NextGrows, NextKeeps DEF Books
<1>2. CASE push'[p] = Over
  BY <1>2 DEF Over
<1>3. CASE SendPush(p)
  <2>1. push'[p].results = <<>>
    BY <1>3 DEF SendPush, Types
  <2> QED BY <2>1
<1>4. CASE Ended(p)
  BY <1>1, <1>4, OldResult DEF Ended
<1>5. CASE ProcessOp(p)
  <2>1. push[p] # None /\ push[p].results \in Seq(Result)
    BY <1>5, ProcessOpIs, PushIs
  <2>2. PICK result \in Result, n \in DocNo \cup {None} :
           /\ Results(p, result, n)
           /\ \/ result = "retry"
              \/ result = "applied" /\ Applied(Entry(p))
              \/ result = "rejected" /\ Refused(Entry(p))
    BY <1>5, ProcessOpIs
  <2>3. push'[p].ops = push[p].ops /\ push'[p].results = Append(push[p].results, result)
    BY <2>1, <2>2, ResultsIs
  <2>4. \/ i \in DOMAIN push[p].results /\ push'[p].results[i] = push[p].results[i]
        \/ i = Len(push[p].results) + 1 /\ push'[p].results[i] = result
    BY <2>1, <2>3
  <2>5. CASE i \in DOMAIN push[p].results /\ push'[p].results[i] = push[p].results[i]
    BY <1>1, <2>1, <2>3, <2>5, OldResult
  <2>6. CASE i = Len(push[p].results) + 1 /\ push'[p].results[i] = result
    <3>1. PICK e : e = Entry(p)
      OBVIOUS
    <3>2. e.op = o
      BY <2>3, <2>6, <3>1 DEF Entry
    <3>3. result = "applied" => Settled(o)'
      BY <1>1, <1>5, <2>2, <3>1, <3>2, AppliedSettles
    <3>4. result = "rejected" => Judged(o)'
      <4> SUFFICES ASSUME result = "rejected" PROVE Judged(o)'
        OBVIOUS
      <4>1. PICK code : verdicts' = verdicts \cup {<<e.op, code>>}
        BY <2>2, <3>1, RefusedIs
      <4>2. <<e.op, code>> \in verdicts' /\ <<e.op, code>>[1] = o
        BY <3>2, <4>1
      <4> QED BY <4>2 DEF Judged
    <3> QED BY <2>6, <3>3, <3>4
  <2> QED BY <2>4, <2>5, <2>6
<1> QED BY <1>2, <1>3, <1>4, <1>5, NextPushes

LEMMA NextTold ==
  ASSUME Types, Books, Papers, Batches, Told, Next
  PROVE  Told'
<1>1. Claimed /\ Grows /\ \A o \in Ops : Keeps(o)
  BY NextGrows, NextKeeps DEF Books
<1>2. ASSUME NEW o \in Ops, attempt'[o] = "queued", ~ Queued(o)' PROVE Settled(o)' \/ o \in dropped'
  <2>1. CASE attempt[o] = "queued"
    <3>1. paper'[o] = paper[o]
      BY <1>1, <2>1 DEF Keeps, Drawn
    <3>2. Settled(o) \/ o \in dropped'
      BY <1>1, <1>2, <2>1, NextLeaves DEF Told, Grows
    <3> QED BY <1>1, <3>1, <3>2, StaysSettled
  <2> QED BY <1>2, <2>1, NextAttempts
<1>3. ASSUME NEW o \in Ops, attempt'[o] = "online" PROVE Stored(o)'
  <2>1. Stored(o)
    BY <1>3, NextAttempts DEF Told
  <2> QED BY <1>1, <2>1 DEF Grows
<1>4. ASSUME NEW r \in replies', r.no # None PROVE Stored(Sale(r.bill))'
  BY <1>1, <1>4, NextReplies
<1>5. ASSUME NEW p \in Pushes, push'[p] # None, NEW i \in DOMAIN push'[p].results
      PROVE  /\ push'[p].results[i] = "applied" => \E o : o = push'[p].ops[i].op /\ Settled(o)'
             /\ push'[p].results[i] = "rejected" => \E o : o = push'[p].ops[i].op /\ Judged(o)'
  BY <1>5, NextResults
<1>6. (\A p \in Pushes : push[p] # None => \A i \in DOMAIN push[p].results :
          push[p].results[i] = "applied" => Settled(push[p].ops[i].op))'
  BY <1>5 DEF Settled, Known, Stored
<1>10. (\A p \in Pushes : push[p] # None => \A i \in DOMAIN push[p].results :
          push[p].results[i] = "rejected" => Judged(push[p].ops[i].op))'
  BY <1>5 DEF Judged
<1>7. (\A r \in replies : r.no # None => Stored(Sale(r.bill)))'
  BY <1>4 DEF Stored, Sale
<1>8. (\A op \in Ops : attempt[op] = "queued" /\ ~ Queued(op) => Settled(op) \/ op \in dropped)'
  BY <1>2
<1>9. (\A op \in Ops : attempt[op] = "online" => Stored(op))'
  BY <1>3
<1> QED BY <1>6, <1>7, <1>8, <1>9, <1>10 DEF Told

-----------------------------------------------------------------------------
(* The order of bills and what is about them *)

\* Leaving out entries whose bill is past keeps the order of the others.
LEMMA FollowsKept ==
  ASSUME Grows, NEW s \in Seq(OutboxOp), Follows(s), NEW I \in SUBSET (DOMAIN s),
         NEW t, DOMAIN t = DOMAIN Kept(s, I), \A k \in DOMAIN t : t[k].op = Kept(s, I)[k].op,
         \A i \in DOMAIN s : i \notin I /\ s[i].op[1] = "sale" => Past(s[i].op[2])'
  PROVE  Follows(t)'
<1> SUFFICES ASSUME NEW k \in DOMAIN t, t[k].op[1] # "sale"
             PROVE  Past(t[k].op[2])' \/ \E l \in 1..(k - 1) : t[l].op = Sale(t[k].op[2])
  BY DEF Follows
<1>1. /\ DOMAIN t = 1..Cardinality(I) /\ Cardinality(I) \in Nat
      /\ \A l \in DOMAIN t : Place(I, l) \in I /\ t[l].op = s[Place(I, l)].op
      /\ \A i \in I : \E l \in DOMAIN t : Place(I, l) = i
      /\ \A l, m \in DOMAIN t : l < m => Place(I, l) < Place(I, m)
  <2>1. PICK K : K = Kept(s, I)
    OBVIOUS
  <2>2. /\ Len(K) \in 0..Len(s) /\ Len(K) = Cardinality(I) /\ DOMAIN K = 1..Cardinality(I)
        /\ \A l \in DOMAIN K : Place(I, l) \in I /\ K[l] = s[Place(I, l)]
        /\ \A i \in I : \E l \in DOMAIN K : Place(I, l) = i
        /\ \A l, m \in DOMAIN K : l < m => Place(I, l) < Place(I, m)
    <3>1. /\ Len(Kept(s, I)) \in 0..Len(s)
          /\ DOMAIN Kept(s, I) = 1..Cardinality(I) /\ Len(Kept(s, I)) = Cardinality(I)
          /\ \A l \in DOMAIN Kept(s, I) : Place(I, l) \in I /\ Kept(s, I)[l] = s[Place(I, l)]
          /\ \A i \in I : \E l \in DOMAIN Kept(s, I) : Place(I, l) = i
          /\ \A l, m \in DOMAIN Kept(s, I) : l < m => Place(I, l) < Place(I, m)
      BY KeptIs
    <3> QED BY <2>1, <3>1
  <2>3. DOMAIN t = DOMAIN K /\ \A l \in DOMAIN t : t[l].op = K[l].op
    BY <2>1
  <2>4. Cardinality(I) \in Nat
    <3>1. Len(s) \in Nat
      OBVIOUS
    <3> QED BY <2>2, <3>1
  <2> QED BY <2>2, <2>3, <2>4
<1>2. PICK i \in DOMAIN s : i = Place(I, k) /\ t[k].op = s[i].op
  BY <1>1
<1>3. PICK b : b = t[k].op[2] /\ b \in Bills
  <2>1. s[i].op \in Ops
    <3>1. s[i] \in OutboxOp
      OBVIOUS
    <3> QED BY <3>1 DEF OutboxOp
  <2> QED BY <1>2, <2>1, OpCases
<1>4. CASE Past(b)
  BY <1>3, <1>4, StaysPast
<1>5. ASSUME NEW j \in 1..(i - 1), s[j].op = Sale(b)
      PROVE  Past(b)' \/ \E l \in 1..(k - 1) : t[l].op = Sale(b)
  <2>1. i \in Nat /\ j \in Nat /\ j < i /\ j \in DOMAIN s
    OBVIOUS
  <2>2. CASE j \notin I
    <3>1. s[j].op[1] = "sale" /\ s[j].op[2] = b
      BY <1>5, OpKinds
    <3> QED BY <2>1, <2>2, <3>1
  <2>3. CASE j \in I
    <3>1. PICK l \in DOMAIN t : Place(I, l) = j
      BY <1>1, <2>3
    <3>2. l \in Nat /\ k \in Nat /\ l >= 1
      BY <1>1
    <3>3. ~ (k < l) /\ k # l
      BY <1>1, <1>2, <2>1, <3>1
    <3>4. l \in 1..(k - 1)
      BY <3>2, <3>3
    <3>5. t[l].op = Sale(b)
      BY <1>1, <1>5, <3>1
    <3> QED BY <3>4, <3>5
  <2> QED BY <2>2, <2>3
<1>6. Past(b) \/ \E j \in 1..(i - 1) : s[j].op = Sale(b)
  BY <1>2, <1>3 DEF Follows
<1>7. Past(b)' \/ \E l \in 1..(k - 1) : t[l].op = Sale(b)
  BY <1>3, <1>5, <1>6, StaysPast
<1> QED BY <1>3, <1>7

\* The same operations in the same places are in the same order.
LEMMA FollowsSame ==
  ASSUME Grows, NEW s \in Seq(OutboxOp), Follows(s), NEW t, DOMAIN t = DOMAIN s,
         \A k \in DOMAIN t : t[k].op = s[k].op
  PROVE  Follows(t)'
<1> SUFFICES ASSUME NEW k \in DOMAIN t, t[k].op[1] # "sale"
             PROVE  Past(t[k].op[2])' \/ \E l \in 1..(k - 1) : t[l].op = Sale(t[k].op[2])
  BY DEF Follows
<1>1. PICK b : b = t[k].op[2] /\ b \in Bills
  <2>1. s[k].op \in Ops
    <3>1. s[k] \in OutboxOp
      OBVIOUS
    <3> QED BY <3>1 DEF OutboxOp
  <2> QED BY <2>1, OpCases
<1>2. Past(b) \/ \E j \in 1..(k - 1) : s[j].op = Sale(b)
  BY <1>1 DEF Follows
<1>3. \A j \in 1..(k - 1) : j \in DOMAIN t
  OBVIOUS
<1>4. Past(b)' \/ \E l \in 1..(k - 1) : t[l].op = Sale(b)
  BY <1>1, <1>2, <1>3, StaysPast
<1> QED BY <1>1, <1>4

\* What is queued about a bill comes after it.
LEMMA FollowsQueued ==
  ASSUME Types, Grows, Follows(outbox), NEW op \in Ops, NEW no \in DocNo \cup {None}, NEW m,
         Enqueue(op, no, m), op[1] # "sale" => Past(op[2]) \/ Queued(Sale(op[2]))
  PROVE  Follows(outbox)'
<1> DEFINE e == [op |-> op, no |-> no, status |-> "pending", attempts |-> 0]
<1>1. outbox' = Append(outbox, e) /\ e.op = op
  BY DEF Enqueue
<1>2. outbox \in Seq(OutboxOp) /\ DOMAIN outbox = 1..Len(outbox) /\ Len(outbox) \in Nat
  BY OutboxIs
<1> HIDE DEF e
<1>3. /\ DOMAIN outbox' = 1..(Len(outbox) + 1) /\ outbox'[Len(outbox) + 1] = e
      /\ \A i \in 1..Len(outbox) : outbox'[i] = outbox[i]
  BY <1>1, <1>2
<1>4. ASSUME NEW k \in DOMAIN outbox', NEW o, o = outbox'[k].op, o[1] # "sale"
      PROVE  Past(o[2])' \/ \E j \in 1..(k - 1) : outbox'[j].op = Sale(o[2])
  <2>1. CASE k \in 1..Len(outbox)
    <3>1. o = outbox[k].op /\ o \in Ops
      BY <1>2, <1>3, <1>4, <2>1, EntryIs
    <3>2. o[2] \in Bills
      BY <3>1, OpCases
    <3>3. Past(o[2]) \/ \E j \in 1..(k - 1) : outbox[j].op = Sale(o[2])
      BY <1>2, <1>4, <2>1, <3>1 DEF Follows
    <3>4. \A j \in 1..(k - 1) : j \in 1..Len(outbox)
      BY <1>2, <2>1
    <3> QED BY <1>3, <3>2, <3>3, <3>4, StaysPast
  <2>2. CASE k = Len(outbox) + 1
    <3>1. o = op /\ op[2] \in Bills
      BY <1>1, <1>3, <1>4, <2>2, OpCases
    <3>2. CASE Past(op[2])
      BY <3>1, <3>2, StaysPast
    <3>3. ASSUME NEW j \in DOMAIN outbox, outbox[j].op = Sale(op[2])
          PROVE  j \in 1..(k - 1) /\ outbox'[j].op = Sale(o[2])
      BY <1>2, <1>3, <2>2, <3>1, <3>3
    <3> QED BY <1>4, <3>1, <3>2, <3>3 DEF Queued
  <2> QED BY <1>2, <1>3, <2>1, <2>2
<1> QED BY <1>4 DEF Follows

\* A bill that the till queued or sold is past, or still before what is queued about it.
LEMMA QueuedOrPast ==
  ASSUME Told, NEW b \in Bills, attempt[Sale(b)] \in {"queued", "online"}
  PROVE  Past(b) \/ Queued(Sale(b))
BY OpKinds DEF Told, Past, Settled

\* The outbox keeps its order in every step.
LEMMA NextFollows ==
  ASSUME Types, Books, Papers, Batches, Told, Order, Next
  PROVE  Follows(outbox)'
<1>1. Grows /\ Follows(outbox) /\ outbox \in Seq(OutboxOp)
  BY NextGrows, OutboxIs DEF Books, Order
<1>2. ASSUME NEW t, t = outbox', DOMAIN t = DOMAIN outbox, \A k \in DOMAIN t : t[k].op = outbox[k].op
      PROVE  Follows(outbox)'
  <2>1. PICK s \in Seq(OutboxOp) : s = outbox
    BY <1>1
  <2>2. Follows(t)'
    BY <1>1, <1>2, <2>1, FollowsSame
  <2> QED BY <1>2, <2>2 DEF Follows
<1>3. ASSUME NEW s \in Seq(OutboxOp), s = outbox, NEW I \in SUBSET (DOMAIN s),
             NEW t, t = outbox', DOMAIN t = DOMAIN Kept(s, I),
             \A k \in DOMAIN t : t[k].op = Kept(s, I)[k].op,
             \A i \in DOMAIN s : i \notin I /\ s[i].op[1] = "sale" => Past(s[i].op[2])'
      PROVE  Follows(outbox)'
  <2>1. Follows(s)
    BY <1>1, <1>3
  <2>2. Follows(t)'
    BY <1>1, <1>3, <2>1, FollowsKept
  <2> QED BY <1>3, <2>2 DEF Follows
<1>4. ASSUME UNCHANGED outbox PROVE Follows(outbox)'
  BY <1>2, <1>4
<1>5. ASSUME NEW op \in Ops, op[1] = "sale" \/ Past(op[2]) \/ Queued(Sale(op[2])), NEW m, EnqueueNumbered(op, m)
      PROVE  Follows(outbox)'
  BY <1>1, <1>5, NumberedTypes, FollowsQueued
<1>6. ASSUME NEW b \in Bills, SaveSale(b) \/ SaleUnanswered(b) PROVE Follows(outbox)'
  BY <1>4, <1>5, <1>6, OpKinds DEF SaveSale, SaleUnanswered
<1>7. ASSUME NEW b \in Voided, VoidOffline(b) PROVE Follows(outbox)'
  <2>1. /\ Void(b) \in Ops /\ Void(b)[2] = b /\ b \in Bills /\ attempt[Sale(b)] = "queued"
        /\ Enqueue(Void(b), None, mode)
    BY <1>7, OpKinds DEF VoidOffline
  <2> QED BY <1>1, <2>1, QueuedOrPast, FollowsQueued
<1>8. ASSUME NEW b \in Returned, ReturnOffline(b) PROVE Follows(outbox)'
  <2>1. /\ Return(b) \in Ops /\ Return(b)[2] = b /\ b \in Bills /\ attempt[Sale(b)] \in {"online", "queued"}
        /\ EnqueueNumbered(Return(b), mode)
    BY <1>8, OpKinds DEF ReturnOffline
  <2> QED BY <1>5, <2>1, QueuedOrPast
<1>9. ASSUME NEW p \in Pushes, PushFails(p) PROVE Follows(outbox)'
  <2>1. outbox' = [i \in DOMAIN outbox |->
                      IF outbox[i].op = push[p].ops[1].op THEN Failed(outbox[i]) ELSE outbox[i]]
    BY <1>9 DEF PushFails
  <2>2. \A i \in DOMAIN outbox : Failed(outbox[i]).op = outbox[i].op
    BY EntryIs DEF OutboxOp, Failed
  <2> QED BY <1>2, <2>1, <2>2
<1>10. ASSUME NEW i \in DOMAIN outbox, Resend(i) PROVE Follows(outbox)'
  <2>1. PICK f : f = [outbox[i] EXCEPT !.status = "pending", !.attempts = 0]
    OBVIOUS
  <2>2. f.op = outbox[i].op
    BY <2>1, EntryIs, ResentTypes
  <2>3. outbox' = [outbox EXCEPT ![i] = f]
    BY <1>10, <2>1 DEF Resend
  <2>4. DOMAIN outbox' = DOMAIN outbox /\ \A k \in DOMAIN outbox' : outbox'[k].op = outbox[k].op
    BY <2>2, <2>3
  <2> QED BY <1>2, <2>4
<1>11. ASSUME NEW p \in Pushes, TakeReply(p) PROVE Follows(outbox)'
  <2>1. PICK s \in Seq(OutboxOp) : s = outbox
    BY <1>1
  <2>2. PICK I \in SUBSET (DOMAIN s) : I = Unapplied(p)
    BY <2>1 DEF Unapplied
  <2>3. DOMAIN outbox' = DOMAIN Kept(s, I) /\ \A k \in DOMAIN outbox' : outbox'[k].op = Kept(s, I)[k].op
    BY <1>11, <2>1, <2>2, TakeReplyIs DEF Stays
  <2>4. ASSUME NEW i \in DOMAIN s, i \notin I, s[i].op[1] = "sale" PROVE Past(s[i].op[2])'
    <3>1. push[p] # None /\ Says(p, s[i].op, "applied")
      BY <1>11, <2>1, <2>2, <2>4 DEF Unapplied, TakeReply, Batches
    <3>2. Stored(s[i].op)
      BY <3>1 DEF Says, Told, Settled
    <3>3. s[i].op = Sale(s[i].op[2]) /\ s[i].op[2] \in Bills
      BY <2>1, <2>4, EntryIs, OpCases
    <3> QED BY <1>1, <3>2, <3>3, StaysPast DEF Past
  <2> QED BY <1>3, <2>1, <2>3, <2>4
<1>12. ASSUME NEW n \in DOMAIN outbox, Discard(n) PROVE Follows(outbox)'
  <2>1. PICK s \in Seq(OutboxOp) : s = outbox
    BY <1>1
  <2>2. PICK I \in SUBSET (DOMAIN s) : I = Ungone(n)
    BY <2>1 DEF Ungone
  <2>3. outbox' = Kept(s, I) /\ dropped' = dropped \cup Goes(n)
    BY <1>12, <2>1, <2>2, DiscardIs
  <2>4. ASSUME NEW i \in DOMAIN s, i \notin I, s[i].op[1] = "sale" PROVE Past(s[i].op[2])'
    <3>1. s[i].op \in dropped'
      BY <2>1, <2>2, <2>3, <2>4 DEF Ungone
    <3>2. s[i].op = Sale(s[i].op[2])
      BY <2>1, <2>4, EntryIs, OpCases
    <3> QED BY <3>1, <3>2 DEF Past
  <2> QED BY <1>3, <2>1, <2>3, <2>4
<1>13. ASSUME \/ \E r \in replies : SaleAnswered(r)
              \/ Seed \/ HealthGood \/ PushIdle \/ HealthBad \/ PushByHand \/ Restart
              \/ \E p \in Pushes : SendPush(p)
       PROVE  UNCHANGED outbox
  BY <1>13 DEF SaleAnswered, Seed, HealthGood, PushIdle, HealthBad, PushByHand, Restart, SendPush
<1>14. ASSUME \/ \E b \in Bills : PostSale(b)
              \/ \E p \in Pushes : ProcessOp(p) \/ EndPush(p)
              \/ \E op \in Ops : KeyExpires(op)
       PROVE  UNCHANGED outbox
  BY <1>14 DEF PostSale, ProcessOp, EndPush, KeyExpires, till
<1> QED BY <1>4, <1>6, <1>7, <1>8, <1>9, <1>10, <1>11, <1>12, <1>13, <1>14, NextKinds DEF TillStep

\* Nothing is sent before a bill it is about, as long as that bill is in the outbox: a
\* bill that is held back holds back the rest.
LEMMA BatchFollows ==
  ASSUME Types, Follows(outbox), FindSendableOps # <<>>
  PROVE  Follows(Batch)
<1>1. /\ outbox \in Seq(OutboxOp) /\ Batch \in Seq(OutboxOp) /\ Len(Batch) \in Nat
      /\ \A k \in DOMAIN Batch : Place(Free, k) \in Free /\ Batch[k] = outbox[Place(Free, k)]
      /\ \A k \in DOMAIN Batch, i \in Free : i < Place(Free, k) =>
            \E j \in 1..(k - 1) : j \in DOMAIN Batch /\ Place(Free, j) = i
  BY OutboxIs, BatchIs
<1> SUFFICES ASSUME NEW k \in DOMAIN Batch, Batch[k].op[1] # "sale"
             PROVE  Past(Batch[k].op[2]) \/ \E l \in 1..(k - 1) : Batch[l].op = Sale(Batch[k].op[2])
  BY DEF Follows
<1>2. PICK i \in Free : i = Place(Free, k) /\ Batch[k] = outbox[i]
  BY <1>1
<1>3. i \in DOMAIN outbox /\ outbox[i].op \in Ops /\ i \in 1..Len(outbox) /\ Len(outbox) \in Nat
  BY OutboxIs, EntryIs DEF Free
<1>4. PICK op \in Ops : op = outbox[i].op
  BY <1>3
<1>5. ASSUME NEW j \in 1..(i - 1), outbox[j].op = Sale(op[2])
      PROVE  \E l \in 1..(k - 1) : Batch[l].op = Sale(op[2])
  <2>1. j \in DOMAIN outbox /\ j < i
    BY <1>3, OutboxIs
  <2>2. op[2] \in Bills
    BY OpCases
  <2>3. OwnAggregate(Sale(op[2])) = Sale(op[2]) /\ Aggregates(Sale(op[2])) = {Sale(op[2])}
    BY OpKinds DEF OwnAggregate, Aggregates
  <2>4. Sale(op[2]) \in Aggregates(op) /\ Aggregates(op) \cap Blocked = {}
    BY <1>4 DEF Aggregates, Free
  <2>5. outbox[j].status = "pending"
    BY <1>5, <2>1, <2>3, <2>4 DEF Blocked
  <2>6. j \in Free
    BY <1>5, <2>1, <2>3, <2>4, <2>5 DEF Free
  <2>7. PICK l \in 1..(k - 1) : l \in DOMAIN Batch /\ Place(Free, l) = j
    BY <1>1, <1>2, <2>1, <2>6
  <2> QED BY <1>1, <1>5, <2>7
<1> QED BY <1>2, <1>3, <1>4, <1>5 DEF Follows

LEMMA NextPushFollows ==
  ASSUME Types, Books, Papers, Batches, Told, Order, Next, NEW p \in Pushes, push'[p] # None,
         NEW ops, ops = push'[p].ops
  PROVE  Follows(ops)'
<1>1. Grows
  BY NextGrows DEF Books
<1>2. ASSUME push[p] # None, ops = push[p].ops PROVE Follows(ops)'
  <2>1. ops \in Seq(OutboxOp)
    BY <1>2, PushIs
  <2>2. Follows(ops)
    BY <1>2 DEF Order
  <2> QED BY <1>1, <2>1, <2>2, FollowsSame
<1>3. CASE push'[p] = Over
  <2>1. ops = <<>>
    BY <1>3 DEF Over
  <2> QED BY <2>1 DEF Follows
<1>4. CASE SendPush(p)
  <2>1. FindSendableOps # <<>> /\ ops = Batch
    BY <1>4 DEF SendPush, Batch, Types
  <2>2. ops \in Seq(OutboxOp) /\ Follows(ops)
    BY <2>1, OutboxIs, BatchIs, BatchFollows DEF Order
  <2> QED BY <1>1, <2>2, FollowsSame
<1>5. CASE ProcessOp(p)
  <2>1. push[p] # None /\ push'[p].ops = push[p].ops
    BY <1>5, ProcessOpIs, ResultsIs
  <2> QED BY <1>2, <2>1
<1>6. CASE Ended(p)
  BY <1>2, <1>6 DEF Ended
<1> QED BY <1>3, <1>4, <1>5, <1>6, NextPushes

\* A verdict is given by a push.
LEMMA NextVerdicts ==
  ASSUME Types, Next, NEW v \in verdicts', v \notin verdicts
  PROVE  \E p \in Pushes : ProcessOp(p) /\ Refused(Entry(p)) /\ ~ StopAtRetry(push[p].results)
<1>1. CASE TillStep
  BY <1>1, TillStepServer DEF server
<1>2. ASSUME \/ \E b \in Bills : PostSale(b)
             \/ \E p \in Pushes : EndPush(p)
             \/ \E op \in Ops : KeyExpires(op)
      PROVE  UNCHANGED verdicts
  BY <1>2 DEF PostSale, EndPush, KeyExpires
<1>3. ASSUME NEW p \in Pushes, ProcessOp(p)
      PROVE  Refused(Entry(p)) /\ ~ StopAtRetry(push[p].results)
  BY <1>3, ProcessOpIs
<1> QED BY <1>1, <1>2, <1>3, NextKinds

LEMMA NextInOrder ==
  ASSUME Types, Books, Papers, Batches, Told, Order, Next
  PROVE  InOrder'
<1>1. Grows
  BY NextGrows DEF Books
<1> SUFFICES ASSUME NEW op \in Ops, <<op, "SALE_NOT_FOUND">> \in verdicts'
             PROVE  Sale(op[2]) \in dropped' \/ \E v \in verdicts' : v[1] = Sale(op[2])
  BY DEF InOrder
<1>2. CASE <<op, "SALE_NOT_FOUND">> \in verdicts
  BY <1>1, <1>2 DEF Order, InOrder, Grows
<1>3. CASE <<op, "SALE_NOT_FOUND">> \notin verdicts
  <2>1. PICK p \in Pushes : ProcessOp(p) /\ Refused(Entry(p)) /\ ~ StopAtRetry(push[p].results)
    BY <1>3, NextVerdicts
  <2>2. PICK e : e = Entry(p)
    OBVIOUS
  <2>3. PICK code : verdicts' = verdicts \cup {<<e.op, code>>} /\ (code = "SALE_NOT_FOUND" => NotFound(e.op))
    BY <2>1, <2>2, RefusedIs
  <2>4. op = e.op /\ NotFound(op)
    <3>1. <<op, "SALE_NOT_FOUND">> = <<e.op, code>>
      BY <1>3, <2>3
    <3> QED BY <2>3, <3>1
  <2>5. PICK k : k = Len(push[p].results) + 1
    OBVIOUS
  <2>6. /\ push[p] # None /\ k \in DOMAIN push[p].ops /\ push[p].ops[k].op = op
        /\ Len(push[p].results) \in Nat /\ DOMAIN push[p].results = 1..Len(push[p].results)
        /\ push[p].results \in Seq(Result)
    BY <2>1, <2>2, <2>4, <2>5, ProcessOpIs, PushIs DEF Entry
  <2>7. op[1] # "sale" /\ ~ Stored(Sale(op[2]))
    BY <2>4 DEF NotFound
  <2>8. Past(op[2]) \/ \E j \in 1..(k - 1) : push[p].ops[j].op = Sale(op[2])
    BY <2>6, <2>7 DEF Order, Follows
  <2>9. ASSUME NEW j \in 1..(k - 1), push[p].ops[j].op = Sale(op[2])
        PROVE  Judged(Sale(op[2]))
    <3>1. j \in DOMAIN push[p].results
      BY <2>5, <2>6
    <3>2. push[p].results[j] \in Result /\ push[p].results[j] # "retry"
      BY <2>1, <2>6, <3>1 DEF StopAtRetry
    <3>3. push[p].results[j] # "applied"
      BY <2>6, <2>7, <2>9, <3>1 DEF Told, Settled
    <3>4. push[p].results[j] = "rejected"
      BY <3>2, <3>3 DEF Result
    <3> QED BY <2>6, <2>9, <3>1, <3>4 DEF Told
  <2>10. Sale(op[2]) \in dropped \/ Judged(Sale(op[2]))
    BY <2>7, <2>8, <2>9 DEF Past
  <2> QED BY <1>1, <2>10 DEF Grows, Judged
<1> QED BY <1>2, <1>3

LEMMA NextOrder ==
  ASSUME Types, Books, Papers, Batches, Told, Order, Next
  PROVE  Order'
<1>1. ASSUME NEW p \in Pushes, push'[p] # None, NEW ops, ops = push'[p].ops PROVE Follows(ops)'
  BY <1>1, NextPushFollows
<1>2. (\A p \in Pushes : push[p] # None => Follows(push[p].ops))'
  BY <1>1 DEF Follows
<1> QED BY <1>2, NextFollows, NextInOrder DEF Order

-----------------------------------------------------------------------------
(* What is on its way *)

\* A push that is sent carries a batch and has no result yet.
LEMMA SendPushIs ==
  ASSUME Types, NEW p \in Pushes, SendPush(p)
  PROVE  /\ push'[p] \in Push /\ push'[p].stage = "running" /\ push'[p].ops = Batch
         /\ push'[p].results = <<>> /\ push'[p].nos = <<>>
         /\ FindSendableOps # <<>> /\ UNCHANGED outbox
<1> DEFINE rec == [stage |-> "running", ops |-> Batch, results |-> <<>>,
                   nos |-> <<>>, remaining |-> Len(outbox) - Len(Batch)]
<1>1. push' = [push EXCEPT ![p] = rec] /\ FindSendableOps # <<>> /\ UNCHANGED outbox
  BY DEF SendPush, Batch
<1>2. rec.stage = "running" /\ rec.ops = Batch /\ rec.results = <<>> /\ rec.nos = <<>>
  OBVIOUS
<1>3. Batch \in Seq(OutboxOp) /\ Len(outbox) - Len(Batch) \in Nat
  BY <1>1, OutboxIs, BatchIs
<1>4. <<>> \in Seq(Result) /\ <<>> \in Seq(DocNo \cup {None})
  OBVIOUS
<1>5. rec \in Push
  BY <1>3, <1>4 DEF Push
<1>6. push'[p] = rec
  BY <1>1 DEF Types
<1> HIDE DEF rec
<1> QED BY <1>1, <1>2, <1>5, <1>6

\* A push never has more results than operations, nor more operations than a batch.
LEMMA NextLengths ==
  ASSUME Types, Batches, Next, NEW p \in Pushes, push'[p] # None
  PROVE  /\ Len(push'[p].results) = Len(push'[p].nos)
         /\ Len(push'[p].results) <= Len(push'[p].ops) /\ Len(push'[p].ops) <= BatchSize
         /\ push'[p].stage # "over" => Len(push'[p].ops) \in 1..BatchSize
<1>1. CASE Ended(p)
  BY <1>1 DEF Ended, Batches
<1>2. CASE push'[p] = Over
  BY <1>2, PushAssumption DEF Over
<1>3. CASE SendPush(p)
  <2>1. Len(Batch) \in 1..BatchSize
    BY <1>3, SendPushIs, OutboxIs, BatchIs
  <2>2. push'[p].ops = Batch /\ push'[p].results = <<>> /\ push'[p].nos = <<>>
    BY <1>3, SendPushIs
  <2> QED BY <2>1, <2>2, PushAssumption
<1>4. CASE ProcessOp(p)
  <2>1. push[p] # None /\ push[p].stage = "running" /\ Len(push[p].results) + 1 \in DOMAIN push[p].ops
    BY <1>4, ProcessOpIs
  <2>2. PICK result \in Result, n \in DocNo \cup {None} : Results(p, result, n)
    BY <1>4, ProcessOpIs
  <2>3. /\ push'[p].ops = push[p].ops
        /\ push'[p].results = Append(push[p].results, result)
        /\ push'[p].nos = Append(push[p].nos, n)
    BY <2>1, <2>2, ResultsIs
  <2>4. /\ push[p].results \in Seq(Result) /\ push[p].nos \in Seq(DocNo \cup {None})
        /\ DOMAIN push[p].ops = 1..Len(push[p].ops) /\ Len(push[p].ops) \in Nat
        /\ Len(push[p].results) \in Nat
    BY <2>1, PushIs
  <2>5. /\ Len(push[p].results) = Len(push[p].nos) /\ Len(push[p].ops) <= BatchSize
        /\ Len(push[p].ops) \in 1..BatchSize
    BY <2>1 DEF Batches
  <2>6. Len(push'[p].results) = Len(push[p].results) + 1 /\ Len(push'[p].nos) = Len(push[p].nos) + 1
    BY <2>3, <2>4
  <2> QED BY <2>1, <2>3, <2>4, <2>5, <2>6
<1> QED BY <1>1, <1>2, <1>3, <1>4, NextPushes

\* The till waits on a push it just sent, or on the one it waited on, whose operations
\* stay what they are.
LEMMA NextWaiting ==
  ASSUME Types, Batches, Next, NEW p \in Pushes, waiting' = p
  PROVE  \/ SendPush(p)
         \/ /\ waiting = p /\ push'[p] # None /\ push'[p].stage # "over"
            /\ push'[p].ops = push[p].ops
<1> DEFINE Goal == \/ SendPush(p)
                   \/ /\ waiting = p /\ push'[p] # None /\ push'[p].stage # "over"
                      /\ push'[p].ops = push[p].ops
<1>0. waiting' # None
  BY NoneAssumption
<1>1. ASSUME UNCHANGED <<waiting, push>> PROVE Goal
  BY <1>1 DEF Batches
<1>2. ASSUME NEW q \in Pushes, SendPush(q) PROVE Goal
  BY <1>2 DEF SendPush
<1>3. ASSUME NEW q \in Pushes, ProcessOp(q) PROVE Goal
  <2>1. waiting = p /\ push[p] # None /\ push[p].stage # "over"
    BY <1>3, ProcessOpIs DEF till, Batches
  <2>2. PICK result \in Result, n \in DocNo \cup {None} : Results(q, result, n)
    BY <1>3, ProcessOpIs
  <2>3. /\ push'[q] \in Push /\ push'[q].ops = push[q].ops /\ push'[q].stage = push[q].stage
        /\ q # p => push'[p] = push[p]
    BY <1>3, <2>2, ProcessOpIs, ResultsIs
  <2> QED BY <2>1, <2>3, NoneAssumption
<1>4. ASSUME NEW q \in Pushes, EndPush(q) PROVE Goal
  <2>1. waiting = p /\ push[p] # None /\ push[p].stage # "over"
    BY <1>4 DEF EndPush, till, Batches
  <2>2. CASE p # q
    BY <1>4, <2>1, <2>2 DEF EndPush, Types
  <2>3. CASE p = q
    <3>1. PICK rec \in Push : rec = push[p]
      BY <2>1, PushIs
    <3>2. PICK new : new = [rec EXCEPT !.stage = "answered"]
      OBVIOUS
    <3>3. new \in Push /\ new.stage = "answered" /\ new.ops = rec.ops
      BY <3>2 DEF Push
    <3>4. push'[p] = new
      BY <1>4, <2>1, <2>3, <3>1, <3>2 DEF EndPush, Types
    <3> QED BY <2>1, <3>1, <3>3, <3>4, NoneAssumption
  <2> QED BY <2>2, <2>3
<1>5. ASSUME \/ \E b \in Bills : SaveSale(b) \/ SaleUnanswered(b)
             \/ \E r \in replies : SaleAnswered(r)
             \/ \E b \in Voided : VoidOffline(b)
             \/ \E b \in Returned : ReturnOffline(b)
             \/ Seed \/ HealthGood \/ PushIdle \/ HealthBad \/ PushByHand
             \/ \E i \in DOMAIN outbox : Resend(i) \/ Discard(i)
      PROVE  UNCHANGED <<waiting, push>>
  BY <1>5 DEF SaveSale, SaleUnanswered, SaleAnswered, VoidOffline, ReturnOffline, Seed, HealthGood,
              PushIdle, HealthBad, PushByHand, Resend, Discard, wire
<1>6. ASSUME \/ \E q \in Pushes : TakeReply(q) \/ PushFails(q)
             \/ Restart
      PROVE  waiting' = None
  BY <1>6 DEF TakeReply, PushFails, Restart
<1>7. ASSUME \/ \E b \in Bills : PostSale(b)
             \/ \E op \in Ops : KeyExpires(op)
      PROVE  UNCHANGED <<waiting, push>>
  BY <1>7 DEF PostSale, KeyExpires, till, wire
<1> HIDE DEF Goal
<1>8. Goal
  BY <1>0, <1>1, <1>2, <1>3, <1>4, <1>5, <1>6, <1>7, NextKinds DEF TillStep
<1> QED BY <1>8 DEF Goal

\* An entry after a step is one that may be sent, one that was there, or, once the till
\* waits for nothing, one that may be sent if it is pending.
Sendable(e) == e.status = "pending" /\ e.attempts < StuckAt

LEMMA NextEntries ==
  ASSUME Types, Batches, Next, NEW k \in DOMAIN outbox'
  PROVE  \/ Sendable(outbox'[k])
         \/ \E i \in DOMAIN outbox : outbox'[k] = outbox[i]
         \/ waiting' = None /\ (outbox'[k].status = "pending" => Sendable(outbox'[k]))
<1> DEFINE Goal == \/ Sendable(outbox'[k])
                   \/ \E i \in DOMAIN outbox : outbox'[k] = outbox[i]
                   \/ waiting' = None /\ (outbox'[k].status = "pending" => Sendable(outbox'[k]))
<1>0. outbox \in Seq(OutboxOp)
  BY OutboxIs
<1>1. ASSUME UNCHANGED outbox PROVE Goal
  BY <1>1
<1>2. ASSUME NEW op \in Ops, NEW no \in DocNo \cup {None}, NEW m, Enqueue(op, no, m)
      PROVE  Goal
  <2> DEFINE e == [op |-> op, no |-> no, status |-> "pending", attempts |-> 0]
  <2>1. outbox' = Append(outbox, e) /\ Sendable(e)
    BY <1>2, PushAssumption DEF Enqueue, Sendable
  <2> HIDE DEF e
  <2>2. (k \in DOMAIN outbox /\ outbox'[k] = outbox[k]) \/ outbox'[k] = e
    BY <1>0, <2>1
  <2> QED BY <2>1, <2>2
<1>3. ASSUME NEW op \in Ops, NEW m, EnqueueNumbered(op, m) PROVE Goal
  BY <1>2, <1>3, NumberedTypes
<1>4. ASSUME NEW b \in Bills, SaveSale(b) \/ SaleUnanswered(b) PROVE Goal
  BY <1>1, <1>3, <1>4, OpKinds DEF SaveSale, SaleUnanswered
<1>5. ASSUME NEW b \in Voided, VoidOffline(b) PROVE Goal
  BY <1>2, <1>5, OpKinds DEF VoidOffline
<1>6. ASSUME NEW b \in Returned, ReturnOffline(b) PROVE Goal
  BY <1>3, <1>6, OpKinds DEF ReturnOffline
<1>7. ASSUME NEW p \in Pushes, PushFails(p) PROVE Goal
  <2>1. /\ k \in DOMAIN outbox /\ waiting' = None
        /\ outbox'[k] = IF outbox[k].op = push[p].ops[1].op THEN Failed(outbox[k]) ELSE outbox[k]
    BY <1>7 DEF PushFails
  <2>2. waiting = p /\ push[p] # None /\ push[p].stage # "over"
    BY <1>7 DEF PushFails, Batches
  <2>3. 1 \in DOMAIN push[p].ops
    <3>1. Len(push[p].ops) \in 1..BatchSize /\ DOMAIN push[p].ops = 1..Len(push[p].ops)
      BY <2>2, PushIs DEF Batches
    <3> QED BY <3>1, PushAssumption
  <2>4. PICK e \in OutboxOp : e = outbox[k]
    BY <2>1, EntryIs
  <2>5. e.status = "pending" => e.attempts < StuckAt
    BY <2>1, <2>4 DEF Batches
  <2>6. CASE e.op = push[p].ops[1].op
    <3>1. e.status = "pending"
      BY <2>1, <2>2, <2>3, <2>4, <2>6 DEF Batches
    <3>2. outbox'[k] = Failed(e)
      BY <2>1, <2>4, <2>6
    <3> QED BY <2>1, <2>5, <3>1, <3>2, FailedTypes DEF Sendable
  <2>7. CASE e.op # push[p].ops[1].op
    BY <2>1, <2>4, <2>7
  <2> QED BY <2>6, <2>7
<1>8. ASSUME NEW p \in Pushes, TakeReply(p) PROVE Goal
  <2>1. waiting' = None
    BY <1>8 DEF TakeReply
  <2> QED BY <1>8, <2>1, TakeReplyIs DEF Sendable
<1>9. ASSUME NEW i \in DOMAIN outbox, Resend(i) PROVE Goal
  <2>1. PICK e \in OutboxOp : e = outbox[i]
    BY EntryIs
  <2>2. PICK f : f = [e EXCEPT !.status = "pending", !.attempts = 0]
    OBVIOUS
  <2>3. f.status = "pending" /\ f.attempts < StuckAt
    BY <2>1, <2>2, ResentTypes DEF OutboxOp
  <2>4. outbox' = [outbox EXCEPT ![i] = f]
    BY <1>9, <2>1, <2>2 DEF Resend
  <2>5. k \in DOMAIN outbox /\ outbox'[k] = IF k = i THEN f ELSE outbox[k]
    BY <2>4
  <2> QED BY <2>3, <2>5 DEF Sendable
<1>10. ASSUME NEW i \in DOMAIN outbox, Discard(i) PROVE Goal
  <2>1. Ungone(i) \in SUBSET (DOMAIN outbox)
    BY DEF Ungone
  <2>2. outbox' = Kept(outbox, Ungone(i))
    BY <1>10, DiscardIs
  <2>3. Place(Ungone(i), k) \in DOMAIN outbox /\ outbox'[k] = outbox[Place(Ungone(i), k)]
    BY <1>0, <2>1, <2>2, KeptIs
  <2> QED BY <2>3
<1>11. ASSUME \/ \E r \in replies : SaleAnswered(r)
              \/ Seed \/ HealthGood \/ PushIdle \/ HealthBad \/ PushByHand \/ Restart
              \/ \E p \in Pushes : SendPush(p)
       PROVE  UNCHANGED outbox
  BY <1>11 DEF SaleAnswered, Seed, HealthGood, PushIdle, HealthBad, PushByHand, Restart, SendPush
<1>12. ASSUME \/ \E b \in Bills : PostSale(b)
              \/ \E p \in Pushes : ProcessOp(p) \/ EndPush(p)
              \/ \E op \in Ops : KeyExpires(op)
       PROVE  UNCHANGED outbox
  BY <1>12 DEF PostSale, ProcessOp, EndPush, KeyExpires, till
<1> HIDE DEF Goal
<1>13. Goal
  BY <1>1, <1>4, <1>5, <1>6, <1>7, <1>8, <1>9, <1>10, <1>11, <1>12, NextKinds DEF TillStep
<1> QED BY <1>13 DEF Goal

\* Whatever names an operation of a batch is pending: an entry of the outbox that is not
\* holds back every entry of its own aggregate.
LEMMA BatchPending ==
  ASSUME Types, FindSendableOps # <<>>, NEW m \in DOMAIN Batch, NEW k \in DOMAIN outbox,
         outbox[k].op = Batch[m].op
  PROVE  outbox[k].status = "pending"
<1>1. PICK i \in Free : Batch[m] = outbox[i]
  BY OutboxIs, BatchIs
<1>2. PICK op : op = outbox[i].op /\ op = outbox[k].op
  BY <1>1
<1>3. OwnAggregate(op) \in Aggregates(op) /\ Aggregates(op) \cap Blocked = {}
  BY <1>2 DEF Aggregates, Free
<1>4. OwnAggregate(op) \notin Blocked
  BY <1>3
<1> QED BY <1>2, <1>4 DEF Blocked

LEMMA NextBatches ==
  ASSUME Types, Batches, Next
  PROVE  Batches'
<1>1. ASSUME NEW k \in DOMAIN outbox', outbox'[k].status = "pending"
      PROVE  outbox'[k].attempts < StuckAt
  BY <1>1, NextEntries DEF Sendable, Batches
<1>2. ASSUME NEW p \in Pushes, waiting' = p
      PROVE  /\ push'[p] # None /\ push'[p].stage # "over"
             /\ \A i \in DOMAIN push'[p].ops, k \in DOMAIN outbox' :
                   outbox'[k].op = push'[p].ops[i].op => outbox'[k].status = "pending"
  <2>1. CASE SendPush(p)
    <3>1. /\ push'[p] \in Push /\ push'[p].stage = "running" /\ push'[p].ops = Batch
          /\ FindSendableOps # <<>> /\ UNCHANGED outbox
      BY <2>1, SendPushIs
    <3> QED BY <3>1, BatchPending, NoneAssumption
  <2>2. CASE waiting = p /\ push'[p] # None /\ push'[p].stage # "over" /\ push'[p].ops = push[p].ops
    <3>1. waiting' # None
      BY <1>2, NoneAssumption
    <3>2. ASSUME NEW i \in DOMAIN push'[p].ops, NEW k \in DOMAIN outbox',
                 outbox'[k].op = push'[p].ops[i].op
          PROVE  outbox'[k].status = "pending"
      <4>1. \A n \in DOMAIN outbox : outbox[n].op = push[p].ops[i].op => outbox[n].status = "pending"
        BY <2>2, <3>2 DEF Batches
      <4> QED BY <2>2, <3>1, <3>2, <4>1, NextEntries DEF Sendable
    <3> QED BY <2>2, <3>2
  <2> QED BY <1>2, <2>1, <2>2, NextWaiting
<1> QED BY <1>1, <1>2, NextLengths DEF Batches

-----------------------------------------------------------------------------
(* The theorems *)

LEMMA InitInv == Init => SyncInv
<1> SUFFICES ASSUME Init PROVE SyncInv
  OBVIOUS
<1>1. \A op \in Ops : ~ Stored(op) /\ keys[op] = None /\ effects[op] = 0 /\ paper[op] = None /\ attempt[op] = "none"
  BY DEF Init, Stored
<1>2. outbox = <<>> /\ waiting = None /\ replies = {} /\ verdicts = {} /\ \A p \in Pushes : push[p] = None
  BY DEF Init
<1>3. Claimed /\ DatesKnown
  BY <1>1 DEF Claimed, DatesKnown
<1>4. NumbersDiffer
  <2>1. \A c \in Series : counters[c] <= MaxDocNo
    BY DocAssumption DEF Init, NoCounters
  <2> QED BY <1>1, <2>1 DEF NumbersDiffer
<1>5. None # "queued"
  BY NoneAssumption DEF Fingerprints
<1>6. Papers
  BY <1>1, <1>2, <1>5 DEF Papers, Printed
<1>7. Told
  BY <1>1, <1>2 DEF Told
<1>8. Order
  BY <1>2 DEF Order, Follows, InOrder
<1>9. Batches
  BY <1>2, NoneAssumption DEF Batches
<1>10. Types
  BY InitTypes
<1> QED BY <1>3, <1>4, <1>6, <1>7, <1>8, <1>9, <1>10 DEF SyncInv

LEMMA NextInv ==
  ASSUME SyncInv, Next
  PROVE  SyncInv'
<1>1. Types /\ Books /\ Papers /\ Told /\ Order /\ Batches /\ Claimed
  BY DEF SyncInv, Books
<1>2. Types' /\ Books'
  BY <1>1, NextTypes, NextBooks
<1>3. Papers' /\ Told' /\ Order' /\ Batches'
  BY <1>1, NextPapers, NextTold, NextOrder, NextBatches
<1> QED BY <1>2, <1>3 DEF SyncInv, Books

LEMMA StutterInv ==
  ASSUME SyncInv, UNCHANGED vars
  PROVE  SyncInv'
<1>1. /\ UNCHANGED <<mode, outbox, counter, paper, attempt, due, waiting>>
      /\ UNCHANGED <<rows, keys, counters, review, unsynced, effects, verdicts>>
      /\ UNCHANGED <<posts, replies, push, dropped, resends, mishaps>>
  BY DEF vars, till, server, wire, owner
<1>2. Types' /\ Claimed' /\ NumbersDiffer' /\ DatesKnown'
  BY <1>1 DEF SyncInv, Types, Claimed, NumbersDiffer, DatesKnown, Stored
<1>3. Papers' /\ Told'
  BY <1>1 DEF SyncInv, Papers, Printed, Drawn, Told, Settled, Known, Stored, Queued, Judged
<1>4. Order' /\ Batches'
  BY <1>1 DEF SyncInv, Order, Follows, Past, Judged, InOrder, Stored, Batches
<1> QED BY <1>2, <1>3, <1>4 DEF SyncInv

\* The inductive invariant holds of every state the till and its server reach.
THEOREM SyncInductive == Spec => []SyncInv
<1>1. SyncInv /\ [Next]_vars => SyncInv'
  BY NextInv, StutterInv
<1> QED BY InitInv, <1>1, PTL DEF Spec

\* Every variable of the till, the wire and the server holds what it should; a push
\* never answers more than it was asked, nor is asked more than a batch.
THEOREM SyncTypes == Spec => []TypeOK
<1>1. SyncInv => TypeOK
  <2> SUFFICES ASSUME SyncInv PROVE TypeOK
    OBVIOUS
  <2>1. Types /\ Batches
    BY DEF SyncInv
  <2>2. \A i \in DOMAIN outbox : outbox[i] \in OutboxOp
    BY <2>1, EntryIs
  <2>3. ASSUME NEW p \in Pushes, push[p] # None PROVE Len(push[p].ops) \in 0..BatchSize
    <3>1. Len(push[p].ops) \in Nat
      BY <2>1, <2>3, PushIs
    <3> QED BY <2>1, <2>3, <3>1, PushAssumption DEF Batches
  <2> QED BY <2>1, <2>2, <2>3 DEF TypeOK, Types, Batches
<1> QED BY <1>1, SyncInductive, PTL

\* Whatever is lost, sent again, resent or entered twice, a document changes the shop's
\* books once (sync.service.ts: processSingleOpIn, replayKeyOfSameDocument and
\* checkClientIdReplay; sales.service.ts: existingSale; api_sales_repository.dart:
\* saveSale, one id per cart).
THEOREM CountedOnce == Spec => []OnceEach
<1>1. SyncInv => OnceEach
  <2> SUFFICES ASSUME SyncInv, NEW op \in Ops PROVE effects[op] <= 1
    BY DEF OnceEach
  <2>1. effects[op] = IF Stored(op) THEN 1 ELSE 0
    BY DEF SyncInv, Claimed
  <2> QED BY <2>1
<1> QED BY <1>1, SyncInductive, PTL

\* What the till has queued and no longer holds is at the server, or the owner discarded
\* it (sync_service.dart: push and what its answer removes, discard).
THEOREM QueuedIsNotLost == Spec => []NothingLost
<1>1. SyncInv => NothingLost
  BY DEF SyncInv, Told, NothingLost, Settled
<1> QED BY <1>1, SyncInductive, PTL

\* A credit note or a void meets no server that has yet to see its bill, unless that
\* bill was refused or discarded (sync_service.dart: findSendableOps and its
\* blockedAggregates; sync.service.ts: processPush's stop at the first retry).
THEOREM NoneOvertakesItsBill == Spec => []InOrder
<1>1. SyncInv => InOrder
  BY DEF SyncInv, Order
<1> QED BY <1>1, SyncInductive, PTL

\* Two documents of a series never carry one number, though the till and the server both
\* issue them, and the server's counter is past every one it holds
\* (doc-number.service.ts: issue, recordClientDocNumber; sales.service.ts:
\* mapConstraintErrors' RECEIPT_NO_CONFLICT).
THEOREM NoNumberTwice == Spec => []NumbersDiffer
<1>1. SyncInv => NumbersDiffer
  BY DEF SyncInv
<1> QED BY <1>1, SyncInductive, PTL

\* The owner is told of every paper whose number or date is not the server's
\* (sync.service.ts: flagRenumbered, insertDateFlag, clampOpDate; sync_service.dart:
\* push, which patches the till's row).
THEOREM RenumberedIsKnown == Spec => []PaperKnown
<1>1. SyncInv => PaperKnown
  <2> SUFFICES ASSUME SyncInv PROVE PaperKnown
    OBVIOUS
  <2>1. DatesKnown /\ Told
    BY DEF SyncInv
  <2>2. ASSUME NEW op \in Ops, paper[op] # None, Stored(op), rows[op].no # paper[op],
               attempt[op] = "queued", ~ Queued(op), op \notin dropped
        PROVE  <<"receipt_renumbered", op>> \in review
    BY <2>1, <2>2 DEF Told, Settled, Known
  <2> QED BY <2>1, <2>2 DEF PaperKnown, DatesKnown
<1> QED BY <1>1, SyncInductive, PTL
=============================================================================
