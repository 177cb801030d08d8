--------------------------- MODULE RowLocksProofs ---------------------------
(***************************************************************************)
(* Proofs about RowLocks, for any requests of a shop: no circle of waits,  *)
(* from the order in which each request takes its locks; and that what     *)
(* overlaps is as if it came one by one, from what a request read being    *)
(* still so while it holds the locks it read it under.                     *)
(***************************************************************************)
EXTENDS RowLocks, SequenceTheorems, FiniteSetTheorems, WellFoundedInduction, TLAPS

-----------------------------------------------------------------------------
(* The inductive invariant *)

Shifts == Devices \X Nat
Orders == {Body[j].of : j \in Jobs}
Rows == Jobs \cup Orders \cup Devices \cup Shifts \cup Mechanics \cup Parts \cup (Devices \X Ops)
Kinds == {"bill", "order", "device", "drawer", "mechanic", "product", "counter"}
Locks == [kind : Kinds, row : Rows, mode : {"share", "update"}]
Finding == [shift : Shifts \cup {None}, owed : Int, stock : [Parts -> Int]]

\* Only those who write a drawer lock it FOR UPDATE.
Writes(op) == op \in {"open", "retire", "close", "entry"}
Mode(op, kind) == IF kind = "drawer" /\ ~ Writes(op) THEN "share" ELSE "update"

RowsTyped ==
    /\ drawer \in [Devices -> [no : Nat, open : BOOLEAN]]
    /\ retired \in SUBSET Devices
    /\ doc \in [Jobs -> Papers \cup {None}]
    /\ tab \in [Mechanics -> Int] /\ stock \in [Parts -> Int]

RequestsTyped ==
    /\ state \in [Jobs -> {"new", "running", "ended"}]
    /\ held \in [Jobs -> SUBSET Locks]
    /\ step \in [Jobs -> Nat]
    /\ found \in [Jobs -> Finding]

\* A request that is not running holds nothing, and has left nothing before its commit.
AtRest(j) ==
    /\ state[j] # "running" => held[j] = {} /\ step[j] = 0 /\ found[j] = Nothing
    /\ state[j] # "ended" => doc[j] = None

\* The lock a request holds is one its plan names, of a shift of its drawer.
Names(l, m) == l.kind = m.kind /\ l.mode = m.mode /\ (l.kind # "drawer" => l.row = m.row)

\* A request holds what it has gone through, and nothing else.
HeldFromPlan(j) ==
    /\ step[j] <= Len(Plan[j])
    /\ \A l \in held[j] : \E i \in 1..step[j] : Names(l, Plan[j][i])
    /\ \A i \in 1..step[j] : Plan[j][i].kind # "drawer" => Plan[j][i] \in held[j]

Excluded ==
    \A j, k \in Jobs : j # k => \A l \in held[j], m \in held[k] : ~ Conflict(l, m)

Past(j, kind) == \E i \in 1..step[j] : Plan[j][i].kind = kind
Standing(j) == OpenShift(Body[j].device)
ItsShift(j) == Shift(Body[j].device)

\* What it read of the drawer: the open shift, whose row it holds.
DrawerRead(j) ==
    LET aimed == found[j].shift IN
    /\ Body[j].op \in {"open", "retire"} /\ aimed # None => Past(j, "device") /\ aimed = ItsShift(j)
    /\ Past(j, "drawer") =>
          /\ DrawerAllows(j, aimed)
          /\ aimed # None => aimed = Standing(j)
          /\ aimed # None \/ Writes(Body[j].op) =>
                Lock("drawer", ItsShift(j), Mode(Body[j].op, "drawer")) \in held[j]

TabRead(j) ==
    /\ \A i \in 1..step[j] : Plan[j][i].kind = "mechanic" => found[j].owed = tab[Plan[j][i].row]
    /\ Body[j].op = "sale" /\ Past(j, "mechanic") => TabAllows(j, found[j].owed)
    /\ Body[j].op = "payment" /\ Past(j, "drawer") => TabAllows(j, found[j].owed)

StockRead(j) ==
    /\ \A i \in 1..step[j] :
          Plan[j][i].kind = "product" => found[j].stock[Plan[j][i].row] = stock[Plan[j][i].row]
    /\ Past(j, "product") /\ ~ (Left(j) > 0 /\ Plan[j][step[j] + 1].kind = "product") =>
          StockAllows(j, found[j].stock)

RowRead(j) ==
    /\ Past(j, "bill") => BillAllows(j)
    /\ Past(j, "device") => Body[j].device \notin retired
    /\ Past(j, "order") => ~ Received(Bill(j))

\* What a request read under its locks is still so.
StillSo(j) == DrawerRead(j) /\ TabRead(j) /\ StockRead(j) /\ RowRead(j)

LocksInv ==
    /\ RowsTyped /\ RequestsTyped /\ Excluded
    /\ \A j \in Jobs : AtRest(j) /\ HeldFromPlan(j) /\ StillSo(j)

-----------------------------------------------------------------------------
(* Numbers in order *)

Sorted(s) == \A i, k \in DOMAIN s : i < k => s[i] < s[k]

\* A set of numbers that holds zero and every successor holds every natural.
LEMMA Upward ==
  ASSUME NEW P, 0 \in P, \A n \in Nat : n \in P => n + 1 \in P
  PROVE  Nat \subseteq P
<1> DEFINE T == {n \in Nat : n \notin P}
<1> SUFFICES ASSUME T # {} PROVE FALSE
  OBVIOUS
<1>1. PICK x \in T : \A y \in T : ~ (<<y, x>> \in OpToRel(<, Nat))
  <2>1. T \subseteq Nat
    OBVIOUS
  <2> HIDE DEF T
  <2> QED BY <2>1, NatLessThanWellFounded, WFMin, Zenon
<1>2. x \in Nat /\ x # 0 /\ x - 1 \in Nat /\ x - 1 < x
  OBVIOUS
<1>3. x - 1 \notin T
  BY <1>1, <1>2 DEF OpToRel
<1>4. (x - 1) + 1 \in P
  BY <1>2, <1>3
<1> QED BY <1>4, <1>2

\* A finite set of numbers has a largest.
LEMMA Largest ==
  ASSUME NEW S, IsFiniteSet(S), S \subseteq Int, S # {}
  PROVE  \E m \in S : \A x \in S : x <= m
<1> DEFINE P == {n \in Nat : \A T : IsFiniteSet(T) /\ T \subseteq Int /\ T # {} /\ Cardinality(T) = n
                               => \E m \in T : \A x \in T : x <= m}
<1>1. 0 \in P
  BY FS_EmptySet
<1>2. ASSUME NEW n \in Nat, n \in P PROVE n + 1 \in P
  <2> SUFFICES ASSUME NEW T, IsFiniteSet(T), T \subseteq Int, T # {}, Cardinality(T) = n + 1
               PROVE  \E m \in T : \A x \in T : x <= m
    OBVIOUS
  <2>1. PICK t \in T : TRUE
    OBVIOUS
  <2>2. IsFiniteSet(T \ {t}) /\ Cardinality(T \ {t}) = n
    <3>1. IsFiniteSet(T \ {t}) /\ Cardinality(T \ {t}) = Cardinality(T) - 1
      BY FS_RemoveElement, <2>1
    <3> QED BY <3>1
  <2>3. CASE T \ {t} = {}
    BY <2>1, <2>3
  <2>4. CASE T \ {t} # {}
    <3>1. PICK m \in T \ {t} : \A x \in T \ {t} : x <= m
      BY <1>2, <2>2, <2>4
    <3>2. m \in Int /\ t \in Int
      BY <2>1
    <3>3. CASE t <= m
      BY <3>1, <3>3
    <3>4. CASE ~ (t <= m)
      <4>1. \A x \in T : x <= t
        BY <3>1, <3>2, <3>4
      <4> QED BY <4>1, <2>1
    <3> QED BY <3>3, <3>4
  <2> QED BY <2>3, <2>4
<1>3. Nat \subseteq P
  <2> HIDE DEF P
  <2> QED BY <1>1, <1>2, Upward
<1> QED BY <1>3, FS_CardinalityType

\* A finite set of numbers can be listed in ascending order.
LEMMA Listed ==
  ASSUME NEW S, IsFiniteSet(S), S \subseteq Int
  PROVE  \E s \in [1..Cardinality(S) -> S] : Sorted(s)
<1> DEFINE P == {n \in Nat : \A T : IsFiniteSet(T) /\ T \subseteq Int /\ Cardinality(T) = n
                               => \E s \in [1..n -> T] : Sorted(s)}
<1>1. 0 \in P
  <2> SUFFICES ASSUME NEW T PROVE \E s \in [1..0 -> T] : Sorted(s)
    OBVIOUS
  <2>1. [i \in 1..0 |-> 0] \in [1..0 -> T] /\ Sorted([i \in 1..0 |-> 0])
    BY DEF Sorted
  <2> QED BY <2>1
<1>2. ASSUME NEW n \in Nat, n \in P PROVE n + 1 \in P
  <2> SUFFICES ASSUME NEW T, IsFiniteSet(T), T \subseteq Int, Cardinality(T) = n + 1
               PROVE  \E s \in [1..n + 1 -> T] : Sorted(s)
    OBVIOUS
  <2>1. T # {}
    BY FS_EmptySet
  <2>2. PICK m \in T : \A x \in T : x <= m
    BY <2>1, Largest
  <2>3. IsFiniteSet(T \ {m}) /\ Cardinality(T \ {m}) = n
    <3>1. IsFiniteSet(T \ {m}) /\ Cardinality(T \ {m}) = Cardinality(T) - 1
      BY FS_RemoveElement, <2>2
    <3> QED BY <3>1
  <2>4. PICK s \in [1..n -> T \ {m}] : Sorted(s)
    BY <1>2, <2>3
  <2> DEFINE t == [i \in 1..n + 1 |-> IF i = n + 1 THEN m ELSE s[i]]
  <2>5. t \in [1..n + 1 -> T]
    BY <2>2
  <2>6. \A i \in 1..n : s[i] \in Int /\ s[i] < m
    <3> TAKE i \in 1..n
    <3>1. s[i] \in T \ {m}
      BY <2>4
    <3>2. s[i] \in Int /\ m \in Int /\ s[i] # m /\ s[i] <= m
      BY <3>1, <2>2
    <3> QED BY <3>2
  <2>7. Sorted(t)
    <3> SUFFICES ASSUME NEW i \in 1..n + 1, NEW k \in 1..n + 1, i < k PROVE t[i] < t[k]
      BY DEF Sorted
    <3>1. i \in 1..n /\ t[i] = s[i]
      OBVIOUS
    <3>2. CASE k = n + 1
      BY <3>1, <3>2, <2>6
    <3>3. CASE k # n + 1
      BY <3>1, <3>3, <2>4 DEF Sorted
    <3> QED BY <3>2, <3>3
  <2> QED BY <2>5, <2>7
<1>3. Nat \subseteq P
  <2> HIDE DEF P
  <2> QED BY <1>1, <1>2, Upward
<1> QED BY <1>3, FS_CardinalityType

-----------------------------------------------------------------------------
(* The order of the locks *)

\* The place of a lock: a payment takes its mechanic before its drawer.
Place(op, kind) ==
    CASE kind \in {"bill", "order", "device"}      -> 1
      [] kind = "mechanic" /\ op = "payment"       -> 2
      [] kind = "drawer"                           -> 3
      [] kind = "mechanic" /\ op # "payment"       -> 4
      [] kind = "product"                          -> 5
      [] OTHER                                     -> 6

Later(op, l, m) ==
    \/ Place(op, l.kind) < Place(op, m.kind)
    \/ l.kind = "product" /\ m.kind = "product" /\ l.row < m.row

Ordered(op, s) == \A i, k \in 1..Len(s) : i < k => Later(op, s[i], s[k])
Within(op, s, a, b) ==
    \A i \in 1..Len(s) : a <= Place(op, s[i].kind) /\ Place(op, s[i].kind) <= b

Moded(op, s) == \A i \in 1..Len(s) : s[i].mode = Mode(op, s[i].kind)

InOrder(op, s, a, b) ==
    s \in Seq(Locks) /\ Ordered(op, s) /\ Within(op, s, a, b) /\ Moded(op, s)

LEMMA PlaceTyped == \A op, kind : Place(op, kind) \in 1..6
BY DEF Place

\* One list of locks after another.
LEMMA Joined ==
  ASSUME NEW op, NEW s, NEW t, NEW a \in Nat, NEW b \in Nat, NEW c \in Nat, NEW d \in Nat,
         InOrder(op, s, a, b), InOrder(op, t, c, d), a <= b, b < c, c <= d
  PROVE  InOrder(op, s \o t, a, d)
<1>0. /\ s \in Seq(Locks) /\ t \in Seq(Locks) /\ Len(s) \in Nat /\ Len(t) \in Nat
      /\ s \o t \in Seq(Locks) /\ Len(s \o t) = Len(s) + Len(t)
  BY ConcatProperties DEF InOrder
<1>1. \A i \in 1..Len(s) + Len(t) : (s \o t)[i] = IF i <= Len(s) THEN s[i] ELSE t[i - Len(s)]
  BY <1>0, ConcatProperties
<1>2. Ordered(op, s \o t)
  <2> SUFFICES ASSUME NEW i \in 1..Len(s) + Len(t), NEW k \in 1..Len(s) + Len(t), i < k
               PROVE  Later(op, (s \o t)[i], (s \o t)[k])
    BY <1>0 DEF Ordered
  <2>1. CASE k <= Len(s)
    <3>1. i \in 1..Len(s) /\ k \in 1..Len(s) /\ (s \o t)[i] = s[i] /\ (s \o t)[k] = s[k]
      BY <1>0, <1>1, <2>1
    <3> QED BY <3>1 DEF InOrder, Ordered
  <2>2. CASE ~ (i <= Len(s))
    <3>1. i - Len(s) \in 1..Len(t) /\ k - Len(s) \in 1..Len(t) /\ i - Len(s) < k - Len(s)
      BY <1>0, <2>2
    <3>2. (s \o t)[i] = t[i - Len(s)] /\ (s \o t)[k] = t[k - Len(s)]
      BY <1>0, <1>1, <2>2
    <3> QED BY <3>1, <3>2 DEF InOrder, Ordered
  <2>3. CASE i <= Len(s) /\ ~ (k <= Len(s))
    <3>1. i \in 1..Len(s) /\ k - Len(s) \in 1..Len(t)
      BY <1>0, <2>3
    <3>2. (s \o t)[i] = s[i] /\ (s \o t)[k] = t[k - Len(s)]
      BY <1>0, <1>1, <2>3
    <3>3. Place(op, s[i].kind) <= b /\ c <= Place(op, t[k - Len(s)].kind)
      BY <3>1 DEF InOrder, Within
    <3>4. Place(op, s[i].kind) \in Int /\ Place(op, t[k - Len(s)].kind) \in Int
      BY PlaceTyped
    <3> QED BY <3>2, <3>3, <3>4 DEF Later
  <2> QED BY <1>0, <2>1, <2>2, <2>3
<1>3. Within(op, s \o t, a, d)
  <2> SUFFICES ASSUME NEW i \in 1..Len(s) + Len(t)
               PROVE  a <= Place(op, (s \o t)[i].kind) /\ Place(op, (s \o t)[i].kind) <= d
    BY <1>0 DEF Within
  <2>0. PICK n \in Int : n = Place(op, (s \o t)[i].kind)
    BY PlaceTyped
  <2>1. CASE i <= Len(s)
    <3>1. i \in 1..Len(s) /\ (s \o t)[i] = s[i]
      BY <1>0, <1>1, <2>1
    <3>2. a <= n /\ n <= b
      BY <3>1, <2>0 DEF InOrder, Within
    <3> QED BY <3>2, <2>0
  <2>2. CASE ~ (i <= Len(s))
    <3>1. i - Len(s) \in 1..Len(t) /\ (s \o t)[i] = t[i - Len(s)]
      BY <1>0, <1>1, <2>2
    <3>2. c <= n /\ n <= d
      BY <3>1, <2>0 DEF InOrder, Within
    <3> QED BY <3>2, <2>0
  <2> QED BY <2>1, <2>2
<1>4. Moded(op, s \o t)
  <2> SUFFICES ASSUME NEW i \in 1..Len(s) + Len(t)
               PROVE  (s \o t)[i].mode = Mode(op, (s \o t)[i].kind)
    BY <1>0 DEF Moded
  <2>1. CASE i <= Len(s)
    <3>1. i \in 1..Len(s) /\ (s \o t)[i] = s[i]
      BY <1>0, <1>1, <2>1
    <3> QED BY <3>1 DEF InOrder, Moded
  <2>2. CASE ~ (i <= Len(s))
    <3>1. i - Len(s) \in 1..Len(t) /\ (s \o t)[i] = t[i - Len(s)]
      BY <1>0, <1>1, <2>2
    <3> QED BY <3>1 DEF InOrder, Moded
  <2> QED BY <2>1, <2>2
<1> QED BY <1>0, <1>2, <1>3, <1>4 DEF InOrder

LEMMA OneLock ==
  ASSUME NEW op, NEW l \in Locks, l.mode = Mode(op, l.kind)
  PROVE  InOrder(op, <<l>>, Place(op, l.kind), Place(op, l.kind))
<1>1. <<l>> \in Seq(Locks) /\ Len(<<l>>) = 1 /\ <<l>>[1] = l
  OBVIOUS
<1>2. Place(op, l.kind) \in Int
  BY PlaceTyped
<1> QED BY <1>1, <1>2 DEF InOrder, Ordered, Within, Moded

LEMMA NoLock ==
  ASSUME NEW op, NEW a, NEW b
  PROVE  InOrder(op, <<>>, a, b)
BY DEF InOrder, Ordered, Within, Moded

\* The kinds of locks a plan is made of.
LEMMA RowOrdered ==
  ASSUME NEW op, NEW kind \in {"bill", "order", "device"}, NEW row \in Rows
  PROVE  InOrder(op, Row(kind, row), 1, 1)
<1>1. PICK l : l = Lock(kind, row, "update")
  OBVIOUS
<1>2. l \in Locks /\ l.kind = kind /\ l.mode = "update"
  BY <1>1 DEF Lock, Locks, Kinds
<1>3. Place(op, kind) = 1 /\ Mode(op, kind) = "update"
  BY DEF Place, Mode
<1> QED BY <1>1, <1>2, <1>3, OneLock DEF Row

LEMMA DrawerOrdered ==
  ASSUME NEW j \in Jobs, NEW op
  PROVE  InOrder(op, Drawer(j, Mode(op, "drawer")), 3, 3)
<1>1. PICK l : l = Lock("drawer", Body[j].device, Mode(op, "drawer"))
  OBVIOUS
<1>2. l \in Locks /\ l.kind = "drawer" /\ l.mode = Mode(op, "drawer")
  BY <1>1, OneByOneAssumption DEF Lock, Locks, Kinds, Rows, Mode
<1>3. Place(op, "drawer") = 3
  BY DEF Place
<1> QED BY <1>1, <1>2, <1>3, OneLock DEF Drawer

LEMMA MechanicOrdered ==
  ASSUME NEW op, NEW m \in Mechanics \cup {None}
  PROVE  LET n == IF op = "payment" THEN 2 ELSE 4 IN InOrder(op, Mechanic(m), n, n)
<1>1. CASE m = None
  BY <1>1, NoLock DEF Mechanic
<1>2. CASE m # None
  <2>1. PICK l : l = Lock("mechanic", m, "update")
    OBVIOUS
  <2>2. l \in Locks /\ l.kind = "mechanic" /\ l.mode = "update"
    BY <1>2, <2>1 DEF Lock, Locks, Kinds, Rows
  <2>3. Mode(op, "mechanic") = "update" /\ Place(op, "mechanic") = IF op = "payment" THEN 2 ELSE 4
    BY DEF Place, Mode
  <2> QED BY <1>2, <2>1, <2>2, <2>3, OneLock DEF Mechanic
<1> QED BY <1>1, <1>2

LEMMA CounterOrdered ==
  ASSUME NEW j \in Jobs, NEW op
  PROVE  InOrder(op, Counter(j), 6, 6)
<1>1. PICK l : l = Lock("counter", <<Body[j].device, Body[j].op>>, "update")
  OBVIOUS
<1>2. l \in Locks /\ l.kind = "counter" /\ l.mode = "update"
  BY <1>1, OneByOneAssumption DEF Lock, Locks, Kinds, Rows
<1>3. Place(op, "counter") = 6 /\ Mode(op, "counter") = "update"
  BY DEF Place, Mode
<1> QED BY <1>1, <1>2, <1>3, OneLock DEF Counter

\* The products of a request are locked in the order of their ids, all of them.
LEMMA ProductsOrdered ==
  ASSUME NEW ps \in SUBSET Parts
  PROVE  /\ \A op : InOrder(op, Products(ps), 5, 5)
         /\ \A p \in ps : \E i \in 1..Len(Products(ps)) :
               Products(ps)[i].kind = "product" /\ Products(ps)[i].row = p
         /\ \A i \in 1..Len(Products(ps)) : Products(ps)[i].row \in ps
         /\ \A i \in 1..Len(Products(ps)) : Products(ps)[i].kind = "product"
<1>1. IsFiniteSet(ps) /\ ps \subseteq Int /\ Cardinality(ps) \in Nat
  BY OneByOneAssumption, FS_Subset, FS_CardinalityType
<1>2. PICK n \in Nat : n = Cardinality(ps)
  BY <1>1
<1>3. PICK ids : ids = CHOOSE s \in [1..n -> ps] : \A i, k \in DOMAIN s : i < k => s[i] < s[k]
  OBVIOUS
<1>4. ids \in [1..n -> ps] /\ \A i, k \in 1..n : i < k => ids[i] < ids[k]
  <2>1. \E s \in [1..n -> ps] : \A i, k \in DOMAIN s : i < k => s[i] < s[k]
    BY <1>1, <1>2, Listed DEF Sorted
  <2>2. ids \in [1..n -> ps] /\ \A i, k \in DOMAIN ids : i < k => ids[i] < ids[k]
    BY <2>1, <1>3
  <2> QED BY <2>2
<1>5. PICK list : list = Products(ps)
  OBVIOUS
<1>6. list = [i \in 1..n |-> Lock("product", ids[i], "update")]
  BY <1>2, <1>3, <1>4, <1>5 DEF Products
<1>7. /\ list \in Seq(Locks) /\ Len(list) = n
      /\ \A i \in 1..n : list[i].kind = "product" /\ list[i].row = ids[i] /\ list[i].mode = "update"
  <2>1. \A i \in 1..n : Lock("product", ids[i], "update") \in Locks
    BY <1>4 DEF Lock, Locks, Rows, Kinds
  <2>2. list \in [1..n -> Locks]
    BY <1>6, <2>1
  <2>3. list \in Seq(Locks) /\ Len(list) = n
    BY <2>2
  <2> QED BY <2>3, <1>6 DEF Lock
<1>8. ASSUME NEW op PROVE InOrder(op, list, 5, 5)
  <2>1. Place(op, "product") = 5 /\ Mode(op, "product") = "update"
    BY DEF Place, Mode
  <2>2. Within(op, list, 5, 5) /\ Moded(op, list)
    BY <1>7, <2>1 DEF Within, Moded
  <2>3. Ordered(op, list)
    BY <1>4, <1>7 DEF Ordered, Later
  <2> QED BY <1>7, <2>2, <2>3 DEF InOrder
<1>9. \A p \in ps : \E i \in 1..n : ids[i] = p
  <2>1. ids \in Injection(1..n, ps)
    <3>1. \A i, k \in 1..n : ids[i] = ids[k] => i = k
      <4> SUFFICES ASSUME NEW i \in 1..n, NEW k \in 1..n, ids[i] = ids[k], i # k PROVE FALSE
        OBVIOUS
      <4>1. ids[i] \in Int /\ ids[k] \in Int
        BY <1>1, <1>4
      <4>2. i < k \/ k < i
        OBVIOUS
      <4> QED BY <4>1, <4>2, <1>4
    <3> QED BY <3>1, <1>4 DEF Injection, IsInjective
  <2>2. Cardinality(1..n) = Cardinality(ps) /\ IsFiniteSet(1..n)
    BY FS_Interval, <1>2
  <2>3. ids \in Surjection(1..n, ps)
    BY <2>1, <2>2, <1>1, FS_Injection
  <2> QED BY <2>3 DEF Surjection
<1> QED BY <1>4, <1>5, <1>7, <1>8, <1>9

LEMMA Widened ==
  ASSUME NEW op, NEW s, NEW a \in Int, NEW b \in Int, NEW c \in Int, NEW d \in Int,
         InOrder(op, s, b, c), a <= b, c <= d
  PROVE  InOrder(op, s, a, d)
<1>1. ASSUME NEW i \in 1..Len(s)
      PROVE  a <= Place(op, s[i].kind) /\ Place(op, s[i].kind) <= d
  <2>1. PICK n \in Int : n = Place(op, s[i].kind)
    BY PlaceTyped
  <2> QED BY <2>1 DEF InOrder, Within
<1> QED BY <1>1 DEF InOrder, Within

\* Every request takes its locks in the one order: its own document or machine, the drawer,
\* the mechanic, the products by their ids, the counter; those who write a drawer stop there.
LEMMA PlanInOrder ==
  ASSUME NEW j \in Jobs
  PROVE  InOrder(Body[j].op, Plan[j], 1, IF Writes(Body[j].op) THEN 3 ELSE 6)
<1>0. PICK op : op = Body[j].op
  OBVIOUS
<1>1. Plan[j] = PlanOf(j)
  BY DEF Plan
<1>2. /\ op \in Ops /\ Body[j].parts \in SUBSET Parts /\ Body[j].mechanic \in Mechanics \cup {None}
      /\ Bill(j) \in Rows /\ Body[j].device \in Rows
      /\ op \in {"void", "return"} => Body[Bill(j)].parts \in SUBSET Parts
                                       /\ Body[Bill(j)].mechanic \in Mechanics \cup {None}
  BY <1>0, OneByOneAssumption DEF Bill, Rows, Orders
<1>3. /\ ~ Writes(op) => InOrder(op, Drawer(j, "share"), 3, 3)
      /\ Writes(op) => InOrder(op, Drawer(j, "update"), 3, 3)
  BY DrawerOrdered DEF Mode
<1>4. InOrder(op, Counter(j), 6, 6)
  BY CounterOrdered
<1>5. InOrder(op, Products(Body[j].parts), 5, 5)
  BY <1>2, ProductsOrdered
<1>6. CASE op = "sale"
  <2>1. InOrder(op, Mechanic(Body[j].mechanic), 4, 4)
    BY <1>2, <1>6, MechanicOrdered
  <2>2. InOrder(op, Drawer(j, "share") \o Mechanic(Body[j].mechanic), 3, 4)
    BY <1>3, <1>6, <2>1, Joined DEF Writes
  <2>3. InOrder(op, Drawer(j, "share") \o Mechanic(Body[j].mechanic) \o Products(Body[j].parts), 3, 5)
    BY <1>5, <2>2, Joined
  <2>4. InOrder(op, SalePlan(j), 3, 6)
    BY <1>4, <2>3, Joined DEF SalePlan
  <2> QED BY <1>0, <1>1, <1>6, <2>4, Widened DEF PlanOf, Writes
<1>7. CASE op = "void"
  <2>1. InOrder(op, Mechanic(Body[Bill(j)].mechanic), 4, 4)
    BY <1>2, <1>7, MechanicOrdered
  <2>2. InOrder(op, Row("bill", Bill(j)), 1, 1) /\ InOrder(op, Products(Body[Bill(j)].parts), 5, 5)
    BY <1>2, <1>7, RowOrdered, ProductsOrdered
  <2>3. InOrder(op, Row("bill", Bill(j)) \o Drawer(j, "share"), 1, 3)
    BY <1>3, <1>7, <2>2, Joined DEF Writes
  <2>4. InOrder(op, Row("bill", Bill(j)) \o Drawer(j, "share") \o Mechanic(Body[Bill(j)].mechanic), 1, 4)
    BY <2>1, <2>3, Joined
  <2>5. InOrder(op, VoidPlan(j), 1, 5)
    BY <2>2, <2>4, Joined DEF VoidPlan
  <2> QED BY <1>0, <1>1, <1>7, <2>5, Widened DEF PlanOf, Writes
<1>8. CASE op = "return"
  <2>1. InOrder(op, Mechanic(Body[Bill(j)].mechanic), 4, 4)
    BY <1>2, <1>8, MechanicOrdered
  <2>2. InOrder(op, Row("bill", Bill(j)), 1, 1)
    BY <1>2, <1>8, RowOrdered
  <2>3. InOrder(op, Row("bill", Bill(j)) \o Drawer(j, "share"), 1, 3)
    BY <1>3, <1>8, <2>2, Joined DEF Writes
  <2>4. InOrder(op, Row("bill", Bill(j)) \o Drawer(j, "share") \o Mechanic(Body[Bill(j)].mechanic), 1, 4)
    BY <2>1, <2>3, Joined
  <2>5. InOrder(op, Row("bill", Bill(j)) \o Drawer(j, "share") \o Mechanic(Body[Bill(j)].mechanic)
                      \o Products(Body[j].parts), 1, 5)
    BY <1>5, <2>4, Joined
  <2>6. InOrder(op, ReturnPlan(j), 1, 6)
    BY <1>4, <2>5, Joined DEF ReturnPlan
  <2> QED BY <1>0, <1>1, <1>8, <2>6 DEF PlanOf, Writes
<1>9. CASE op = "payment"
  <2>1. InOrder(op, Mechanic(Body[j].mechanic), 2, 2)
    BY <1>2, <1>9, MechanicOrdered
  <2>2. InOrder(op, Mechanic(Body[j].mechanic) \o Drawer(j, "share"), 2, 3)
    BY <1>3, <1>9, <2>1, Joined DEF Writes
  <2>3. InOrder(op, PaymentPlan(j), 2, 6)
    BY <1>4, <2>2, Joined DEF PaymentPlan
  <2> QED BY <1>0, <1>1, <1>9, <2>3, Widened DEF PlanOf, Writes
<1>10. CASE op \in {"open", "retire"}
  <2>1. InOrder(op, Row("device", Body[j].device), 1, 1)
    BY <1>2, RowOrdered
  <2>2. InOrder(op, DevicePlan(j), 1, 3)
    BY <1>3, <1>10, <2>1, Joined DEF DevicePlan, Writes
  <2> QED BY <1>0, <1>1, <1>10, <2>2 DEF PlanOf, Writes
<1>11. CASE op = "receive"
  <2>1. InOrder(op, Row("order", Bill(j)), 1, 1)
    BY <1>2, RowOrdered
  <2>2. InOrder(op, ReceivePlan(j), 1, 5)
    BY <1>5, <2>1, Joined DEF ReceivePlan
  <2> QED BY <1>0, <1>1, <1>11, <2>2, Widened DEF PlanOf, Writes
<1>12. CASE op = "adjust"
  BY <1>0, <1>1, <1>5, <1>12, Widened DEF PlanOf, Writes
<1>13. CASE op \in {"close", "entry"}
  BY <1>0, <1>1, <1>3, <1>13, Widened DEF PlanOf, Writes
<1> QED BY <1>2, <1>6, <1>7, <1>8, <1>9, <1>10, <1>11, <1>12, <1>13 DEF Ops

-----------------------------------------------------------------------------
(* The locks of a plan *)

DrawerLocks(j) == {Lock("drawer", Body[j].device, Mode(Body[j].op, "drawer"))}
MechanicLocks(m) == {Lock("mechanic", n, "update") : n \in {m} \ {None}}
ProductLocks(ps) == {Lock("product", p, "update") : p \in ps}
RowLocksOf(kind, row) == {Lock(kind, row, "update")}
CounterLocks(j) == RowLocksOf("counter", <<Body[j].device, Body[j].op>>)

\* Whose tab and whose goods a request moves.
Debtor(j) == IF Body[j].op \in {"void", "return"} THEN Body[Bill(j)].mechanic ELSE Body[j].mechanic
Goods(j) == IF Body[j].op = "void" THEN Body[Bill(j)].parts ELSE Body[j].parts

PlanLocks(j) ==
    LET op == Body[j].op IN
       (IF op \in {"void", "return"} THEN RowLocksOf("bill", Bill(j)) ELSE {})
  \cup (IF op \in {"open", "retire"} THEN RowLocksOf("device", Body[j].device) ELSE {})
  \cup (IF op = "receive" THEN RowLocksOf("order", Bill(j)) ELSE {})
  \cup (IF op \notin {"receive", "adjust"} THEN DrawerLocks(j) ELSE {})
  \cup (IF op \in {"sale", "void", "return", "payment"} THEN MechanicLocks(Debtor(j)) ELSE {})
  \cup (IF op \in {"sale", "void", "return", "receive", "adjust"} THEN ProductLocks(Goods(j)) ELSE {})
  \cup (IF op \in {"sale", "return", "payment"} THEN CounterLocks(j) ELSE {})

Listing(s, S) == s \in Seq(Locks) /\ Range(s) = S

LEMMA ListedTogether ==
  ASSUME NEW s, NEW t, NEW S, NEW T, Listing(s, S), Listing(t, T)
  PROVE  Listing(s \o t, S \cup T)
BY ConcatProperties, RangeConcatenation DEF Listing

LEMMA ListedAlone ==
  ASSUME NEW l \in Locks
  PROVE  Listing(<<l>>, {l})
BY DEF Listing, Range

LEMMA Pieces ==
  ASSUME NEW j \in Jobs
  PROVE  /\ Listing(Drawer(j, Mode(Body[j].op, "drawer")), DrawerLocks(j))
         /\ Listing(Counter(j), CounterLocks(j))
         /\ \A m \in Mechanics \cup {None} : Listing(Mechanic(m), MechanicLocks(m))
         /\ \A ps \in SUBSET Parts : Listing(Products(ps), ProductLocks(ps))
         /\ \A kind \in {"bill", "order", "device"}, row \in Rows :
               Listing(Row(kind, row), RowLocksOf(kind, row))
<1>1. Listing(Drawer(j, Mode(Body[j].op, "drawer")), DrawerLocks(j))
  <2>1. PICK l : l = Lock("drawer", Body[j].device, Mode(Body[j].op, "drawer"))
    OBVIOUS
  <2>2. l \in Locks
    BY <2>1, OneByOneAssumption DEF Lock, Locks, Kinds, Rows, Mode
  <2> QED BY <2>1, <2>2, ListedAlone DEF Drawer, DrawerLocks
<1>2. Listing(Counter(j), CounterLocks(j))
  <2>1. PICK l : l = Lock("counter", <<Body[j].device, Body[j].op>>, "update")
    OBVIOUS
  <2>2. l \in Locks
    BY <2>1, OneByOneAssumption DEF Lock, Locks, Kinds, Rows
  <2> QED BY <2>1, <2>2, ListedAlone DEF Counter, CounterLocks, RowLocksOf
<1>3. ASSUME NEW m \in Mechanics \cup {None} PROVE Listing(Mechanic(m), MechanicLocks(m))
  <2>1. CASE m = None
    <3>1. Mechanic(m) = <<>> /\ MechanicLocks(m) = {}
      BY <2>1 DEF Mechanic, MechanicLocks
    <3> QED BY <3>1 DEF Listing, Range
  <2>2. CASE m # None
    <3>1. PICK l : l = Lock("mechanic", m, "update")
      OBVIOUS
    <3>2. l \in Locks
      BY <3>1, <2>2 DEF Lock, Locks, Kinds, Rows
    <3>3. Mechanic(m) = <<l>> /\ MechanicLocks(m) = {l}
      BY <3>1, <2>2 DEF Mechanic, MechanicLocks
    <3> QED BY <3>2, <3>3, ListedAlone
  <2> QED BY <2>1, <2>2
<1>4. ASSUME NEW ps \in SUBSET Parts PROVE Listing(Products(ps), ProductLocks(ps))
  <2>1. PICK list : list = Products(ps)
    OBVIOUS
  <2>2. /\ InOrder("sale", list, 5, 5)
        /\ \A p \in ps : \E i \in 1..Len(list) : list[i].kind = "product" /\ list[i].row = p
        /\ \A i \in 1..Len(list) : list[i].row \in ps /\ list[i].kind = "product"
    BY <2>1, ProductsOrdered
  <2>3. list \in Seq(Locks) /\ \A i \in 1..Len(list) : list[i] \in Locks /\ list[i].mode = "update"
    BY <2>2 DEF InOrder, Moded, Mode
  <2>4. \A l \in Locks : l.kind = "product" /\ l.mode = "update" => l = Lock("product", l.row, "update")
    BY DEF Lock, Locks
  <2>5. \A i \in 1..Len(list) : list[i] = Lock("product", list[i].row, "update")
    BY <2>2, <2>3, <2>4
  <2>6. Range(list) = ProductLocks(ps)
    <3>1. Range(list) \subseteq ProductLocks(ps)
      BY <2>2, <2>3, <2>5 DEF Range, ProductLocks
    <3>2. ProductLocks(ps) \subseteq Range(list)
      BY <2>2, <2>3, <2>5 DEF Range, ProductLocks
    <3> QED BY <3>1, <3>2
  <2> QED BY <2>1, <2>3, <2>6 DEF Listing
<1>5. ASSUME NEW kind \in {"bill", "order", "device"}, NEW row \in Rows
      PROVE  Listing(Row(kind, row), RowLocksOf(kind, row))
  <2>1. PICK l : l = Lock(kind, row, "update")
    OBVIOUS
  <2>2. l \in Locks
    BY <2>1 DEF Lock, Locks, Kinds
  <2> QED BY <2>1, <2>2, ListedAlone DEF Row, RowLocksOf
<1> QED BY <1>1, <1>2, <1>3, <1>4, <1>5

\* What each request locks.
LEMMA PlanListed ==
  ASSUME NEW j \in Jobs
  PROVE  Listing(Plan[j], PlanLocks(j))
<1>0. PICK op : op = Body[j].op
  OBVIOUS
<1>1. Plan[j] = PlanOf(j)
  BY DEF Plan
<1>2. /\ op \in Ops /\ Goods(j) \in SUBSET Parts /\ Body[j].parts \in SUBSET Parts
      /\ Body[j].mechanic \in Mechanics \cup {None}
      /\ op \in {"void", "return"} => Debtor(j) \in Mechanics \cup {None}
      /\ Bill(j) \in Rows /\ Body[j].device \in Rows
  BY <1>0, OneByOneAssumption DEF Bill, Rows, Orders, Goods, Debtor
<1>3. /\ ~ Writes(op) => Listing(Drawer(j, "share"), DrawerLocks(j))
      /\ Writes(op) => Listing(Drawer(j, "update"), DrawerLocks(j))
      /\ Listing(Counter(j), CounterLocks(j))
  BY <1>0, Pieces DEF Mode
<1>4. Listing(Products(Body[j].parts), ProductLocks(Body[j].parts))
  BY <1>2, Pieces
<1>5. /\ Listing(Row("bill", Bill(j)), RowLocksOf("bill", Bill(j)))
      /\ Listing(Row("device", Body[j].device), RowLocksOf("device", Body[j].device))
      /\ Listing(Row("order", Bill(j)), RowLocksOf("order", Bill(j)))
  BY <1>2, Pieces
<1>6. CASE op = "sale"
  <2>1. Listing(Mechanic(Body[j].mechanic), MechanicLocks(Body[j].mechanic))
    BY <1>2, Pieces
  <2>2. Listing(SalePlan(j), DrawerLocks(j) \cup MechanicLocks(Body[j].mechanic)
                               \cup ProductLocks(Body[j].parts) \cup CounterLocks(j))
    BY <1>3, <1>4, <1>6, <2>1, ListedTogether DEF SalePlan, Writes
  <2>3. PlanLocks(j) = DrawerLocks(j) \cup MechanicLocks(Body[j].mechanic)
                               \cup ProductLocks(Body[j].parts) \cup CounterLocks(j)
    BY <1>0, <1>6 DEF PlanLocks, Debtor, Goods
  <2> QED BY <1>0, <1>1, <1>6, <2>2, <2>3 DEF PlanOf
<1>7. CASE op = "void"
  <2>1. /\ Listing(Mechanic(Debtor(j)), MechanicLocks(Debtor(j)))
        /\ Listing(Products(Goods(j)), ProductLocks(Goods(j)))
    BY <1>2, <1>7, Pieces
  <2>2. Listing(VoidPlan(j), RowLocksOf("bill", Bill(j)) \cup DrawerLocks(j)
                                \cup MechanicLocks(Debtor(j)) \cup ProductLocks(Goods(j)))
    BY <1>0, <1>3, <1>5, <1>7, <2>1, ListedTogether DEF VoidPlan, Writes, Debtor, Goods
  <2>3. PlanLocks(j) = RowLocksOf("bill", Bill(j)) \cup DrawerLocks(j)
                                \cup MechanicLocks(Debtor(j)) \cup ProductLocks(Goods(j))
    BY <1>0, <1>7 DEF PlanLocks
  <2> QED BY <1>0, <1>1, <1>7, <2>2, <2>3 DEF PlanOf
<1>8. CASE op = "return"
  <2>1. Listing(Mechanic(Debtor(j)), MechanicLocks(Debtor(j)))
    BY <1>2, <1>8, Pieces
  <2>2. Listing(ReturnPlan(j), RowLocksOf("bill", Bill(j)) \cup DrawerLocks(j)
            \cup MechanicLocks(Debtor(j)) \cup ProductLocks(Body[j].parts) \cup CounterLocks(j))
    BY <1>0, <1>3, <1>4, <1>5, <1>8, <2>1, ListedTogether DEF ReturnPlan, Writes, Debtor
  <2>3. PlanLocks(j) = RowLocksOf("bill", Bill(j)) \cup DrawerLocks(j)
            \cup MechanicLocks(Debtor(j)) \cup ProductLocks(Body[j].parts) \cup CounterLocks(j)
    BY <1>0, <1>8 DEF PlanLocks, Goods
  <2> QED BY <1>0, <1>1, <1>8, <2>2, <2>3 DEF PlanOf
<1>9. CASE op = "payment"
  <2>1. Listing(Mechanic(Body[j].mechanic), MechanicLocks(Body[j].mechanic))
    BY <1>2, Pieces
  <2>2. Listing(PaymentPlan(j), MechanicLocks(Body[j].mechanic) \cup DrawerLocks(j) \cup CounterLocks(j))
    BY <1>3, <1>9, <2>1, ListedTogether DEF PaymentPlan, Writes
  <2>3. PlanLocks(j) = MechanicLocks(Body[j].mechanic) \cup DrawerLocks(j) \cup CounterLocks(j)
    BY <1>0, <1>9 DEF PlanLocks, Debtor
  <2> QED BY <1>0, <1>1, <1>9, <2>2, <2>3 DEF PlanOf
<1>10. CASE op \in {"open", "retire"}
  <2>1. Listing(DevicePlan(j), RowLocksOf("device", Body[j].device) \cup DrawerLocks(j))
    BY <1>3, <1>5, <1>10, ListedTogether DEF DevicePlan, Writes
  <2>2. PlanLocks(j) = RowLocksOf("device", Body[j].device) \cup DrawerLocks(j)
    BY <1>0, <1>10 DEF PlanLocks
  <2> QED BY <1>0, <1>1, <1>10, <2>1, <2>2 DEF PlanOf
<1>11. CASE op = "receive"
  <2>1. Listing(ReceivePlan(j), RowLocksOf("order", Bill(j)) \cup ProductLocks(Body[j].parts))
    BY <1>4, <1>5, ListedTogether DEF ReceivePlan
  <2>2. PlanLocks(j) = RowLocksOf("order", Bill(j)) \cup ProductLocks(Body[j].parts)
    BY <1>0, <1>11 DEF PlanLocks, Goods
  <2> QED BY <1>0, <1>1, <1>11, <2>1, <2>2 DEF PlanOf
<1>12. CASE op = "adjust"
  <2>1. PlanLocks(j) = ProductLocks(Body[j].parts)
    BY <1>0, <1>12 DEF PlanLocks, Goods
  <2> QED BY <1>0, <1>1, <1>4, <1>12, <2>1 DEF PlanOf
<1>13. CASE op \in {"close", "entry"}
  <2>1. PlanLocks(j) = DrawerLocks(j)
    BY <1>0, <1>13 DEF PlanLocks
  <2> QED BY <1>0, <1>1, <1>3, <1>13, <2>1 DEF PlanOf, Writes
<1> QED BY <1>2, <1>6, <1>7, <1>8, <1>9, <1>10, <1>11, <1>12, <1>13 DEF Ops

\* What the i-th lock of a plan is.
LEMMA PlanKinds ==
  ASSUME NEW j \in Jobs, NEW i \in 1..Len(Plan[j]), NEW l, l = Plan[j][i]
  PROVE  /\ l \in Locks /\ l.mode = Mode(Body[j].op, l.kind)
         /\ l.kind = "bill" => Body[j].op \in {"void", "return"} /\ l.row = Bill(j)
         /\ l.kind = "device" => Body[j].op \in {"open", "retire"} /\ l.row = Body[j].device
         /\ l.kind = "order" => Body[j].op = "receive" /\ l.row = Bill(j)
         /\ l.kind = "drawer" => Body[j].op \notin {"receive", "adjust"}
         /\ l.kind = "mechanic" => /\ Body[j].op \in {"sale", "void", "return", "payment"}
                                   /\ l.row = Debtor(j) /\ l.row # None
         /\ l.kind = "product" => l.row \in Goods(j)
<1>1. Plan[j] \in Seq(Locks) /\ l \in PlanLocks(j)
  BY PlanListed DEF Listing, Range
<1>2. l \in Locks /\ l.mode = Mode(Body[j].op, l.kind)
  BY PlanInOrder, <1>1 DEF InOrder, Moded
<1> QED
  BY <1>1, <1>2 DEF PlanLocks, RowLocksOf, DrawerLocks, MechanicLocks, ProductLocks, CounterLocks, Lock

\* A lock that a request's operation calls for is in its plan.
LEMMA PlanHas ==
  ASSUME NEW j \in Jobs, NEW l \in PlanLocks(j)
  PROVE  \E i \in 1..Len(Plan[j]) : Plan[j][i] = l
<1>1. Plan[j] \in Seq(Locks) /\ l \in Range(Plan[j])
  BY PlanListed DEF Listing
<1> QED BY <1>1 DEF Range

LEMMA PlanLater ==
  ASSUME NEW j \in Jobs, NEW i \in 1..Len(Plan[j]), NEW k \in 1..Len(Plan[j]), i < k
  PROVE  Later(Body[j].op, Plan[j][i], Plan[j][k])
BY PlanInOrder DEF InOrder, Ordered

\* Nothing but products is locked twice.
LEMMA KindOnce ==
  ASSUME NEW j \in Jobs, NEW i \in 1..Len(Plan[j]), NEW k \in 1..Len(Plan[j]),
         Plan[j][i].kind = Plan[j][k].kind, Plan[j][i].kind # "product"
  PROVE  i = k
<1>1. PICK n \in Int : n = Place(Body[j].op, Plan[j][i].kind)
  BY PlaceTyped
<1>2. ~ (i < k)
  BY <1>1, PlanLater DEF Later
<1>3. ~ (k < i)
  BY <1>1, PlanLater DEF Later
<1> QED BY <1>2, <1>3

\* Who writes a drawer locks it last.
LEMMA DrawerLast ==
  ASSUME NEW j \in Jobs, NEW i \in 1..Len(Plan[j]), NEW k \in 1..Len(Plan[j]), i < k,
         Plan[j][i].kind = "drawer"
  PROVE  ~ Writes(Body[j].op)
<1> SUFFICES ASSUME Writes(Body[j].op) PROVE FALSE
  OBVIOUS
<1>1. PICK n \in Int : n = Place(Body[j].op, Plan[j][k].kind)
  BY PlaceTyped
<1>2. n <= 3
  BY <1>1, PlanInOrder DEF InOrder, Within
<1>3. Place(Body[j].op, "drawer") = 3
  BY DEF Place
<1>4. 3 < n \/ (Plan[j][k].kind = "product" /\ Plan[j][i].kind = "product")
  BY <1>1, <1>3, PlanLater DEF Later
<1> QED BY <1>2, <1>4

-----------------------------------------------------------------------------
(* No circle of waits *)

LEMMA NoCircle ==
  ASSUME LocksInv
  PROVE  NoDeadlock
<1> SUFFICES ASSUME NEW S \in SUBSET Running, S # {}, \A j \in S : Blockers(j) \cap S # {}
             PROVE  FALSE
  BY DEF NoDeadlock
<1>1. PICK next : next = [j \in Jobs |-> Plan[j][step[j] + 1]]
  OBVIOUS
<1>2. S \subseteq Jobs /\ IsFiniteSet(S)
  BY OneByOneAssumption, FS_Subset DEF Running
<1>3. ASSUME NEW j \in S
      PROVE  /\ step[j] \in Nat /\ step[j] + 1 \in 1..Len(Plan[j]) /\ next[j] \in Locks
             /\ next[j].mode = Mode(Body[j].op, next[j].kind)
  <2>1. step[j] \in Nat /\ step[j] <= Len(Plan[j]) /\ Len(Plan[j]) \in Nat
    BY <1>2, PlanInOrder DEF LocksInv, RequestsTyped, HeldFromPlan, InOrder
  <2>2. Left(j) # 0
    BY <1>2 DEF Blockers
  <2>3. step[j] + 1 \in 1..Len(Plan[j])
    BY <2>1, <2>2 DEF Left
  <2> QED BY <1>1, <1>2, <2>1, <2>3, PlanKinds
\* Whoever waits, waits for somebody who holds such a lock.
<1>4. ASSUME NEW j \in S
      PROVE  \E k \in S : \E l \in held[k] :
                /\ l.kind = next[j].kind /\ {l.mode, next[j].mode} # {"share"}
                /\ l.kind # "drawer" => l.row = next[j].row
  <2>1. PICK k \in S : \E l \in held[k] : Conflict(l, Wanted(j))
    BY <1>2 DEF Blockers
  <2>2. PICK l \in held[k] : Conflict(l, Wanted(j))
    BY <2>1
  <2>3. /\ Wanted(j).kind = next[j].kind /\ Wanted(j).mode = next[j].mode
        /\ next[j].kind # "drawer" => Wanted(j).row = next[j].row
    BY <1>1, <1>2, <1>3 DEF Wanted, Locks
  <2> QED BY <2>2, <2>3 DEF Conflict
\* And wants a later one.
<1>5. ASSUME NEW k \in S, NEW l \in held[k]
      PROVE  Later(Body[k].op, l, next[k]) /\ (l.kind = "drawer" => l.mode = "share")
  <2>1. PICK i \in 1..step[k] : Names(l, Plan[k][i])
    BY <1>2 DEF LocksInv, HeldFromPlan
  <2>2. i \in 1..Len(Plan[k]) /\ i < step[k] + 1 /\ step[k] \in Nat
    BY <1>3
  <2>3. Later(Body[k].op, Plan[k][i], next[k])
    BY <1>1, <1>2, <1>3, <2>2, PlanLater
  <2>4. Later(Body[k].op, l, next[k])
    BY <2>1, <2>3 DEF Later, Names
  <2>5. Plan[k][i].mode = Mode(Body[k].op, Plan[k][i].kind)
    BY <1>2, <2>2, PlanKinds
  <2>6. Plan[k][i].kind = "drawer" => ~ Writes(Body[k].op)
    BY <1>2, <1>3, <2>2, DrawerLast
  <2> QED BY <2>1, <2>4, <2>5, <2>6 DEF Mode, Names
<1>6. \A j \in S : next[j].kind # "counter"
  <2> SUFFICES ASSUME NEW j \in S, next[j].kind = "counter" PROVE FALSE
    OBVIOUS
  <2>1. PICK k \in S : \E l \in held[k] : l.kind = "counter"
    BY <1>4
  <2> QED BY <2>1, <1>5 DEF Later, Place
<1>7. \A j \in S : next[j].kind # "product"
  <2> DEFINE wanting == {j \in S : next[j].kind = "product"}
             wanted == {next[j].row : j \in wanting}
  <2> SUFFICES ASSUME wanting # {} PROVE FALSE
    OBVIOUS
  <2>1. wanted \subseteq Parts
    <3> SUFFICES ASSUME NEW j \in S, next[j].kind = "product" PROVE next[j].row \in Parts
      OBVIOUS
    <3>1. next[j].row \in Goods(j)
      BY <1>1, <1>2, <1>3, PlanKinds
    <3> QED BY <3>1, <1>2, OneByOneAssumption DEF Goods, Bill
  <2>2. IsFiniteSet(wanted) /\ wanted \subseteq Int /\ wanted # {}
    <3>1. wanted # {}
      OBVIOUS
    <3> HIDE DEF wanted
    <3> QED BY <2>1, <3>1, OneByOneAssumption, FS_Subset
  <2>3. PICK p \in wanted : \A x \in wanted : x <= p
    <3> HIDE DEF wanted
    <3> QED BY <2>2, Largest
  <2>4. PICK j \in wanting : next[j].row = p
    OBVIOUS
  <2>5. PICK k \in S : \E l \in held[k] : l.kind = "product" /\ l.row = p
    <3>1. j \in S /\ next[j].kind = "product"
      BY <2>4
    <3> HIDE DEF wanting, wanted
    <3>2. PICK k \in S : \E l \in held[k] :
            l.kind = next[j].kind /\ (l.kind # "drawer" => l.row = next[j].row)
      BY <1>4, <3>1
    <3> QED BY <2>4, <3>1, <3>2
  <2>6. PICK l \in held[k] : l.kind = "product" /\ l.row = p
    BY <2>5
  <2>7. Later(Body[k].op, l, next[k]) /\ next[k].kind # "counter" /\ next[k].kind \in Kinds
    BY <1>3, <1>5, <1>6 DEF Locks
  <2>8. next[k].kind = "product" /\ p < next[k].row
    BY <2>6, <2>7 DEF Later, Place, Kinds
  <2>9. PICK q \in wanted : q = next[k].row
    BY <2>8
  <2>10. q <= p /\ p < q /\ q \in Int /\ p \in Int
    <3> HIDE DEF wanted
    <3> QED BY <2>2, <2>3, <2>8, <2>9
  <2> QED BY <2>10
<1>8. \A j \in S : next[j].kind = "drawer" => next[j].mode # "share"
  <2> SUFFICES ASSUME NEW j \in S, next[j].kind = "drawer", next[j].mode = "share" PROVE FALSE
    OBVIOUS
  <2>1. PICK k \in S : \E l \in held[k] : l.kind = "drawer" /\ {l.mode, "share"} # {"share"}
    BY <1>4
  <2> QED BY <2>1, <1>5
<1>9. \A j \in S : next[j].kind # "mechanic"
  <2> SUFFICES ASSUME NEW j \in S, next[j].kind = "mechanic" PROVE FALSE
    OBVIOUS
  <2>1. PICK k \in S : \E l \in held[k] : l.kind = "mechanic"
    BY <1>4
  <2>2. Later(Body[k].op, [kind |-> "mechanic"], next[k])
    BY <2>1, <1>5 DEF Later
  <2>3. next[k].kind \in {"drawer", "product", "counter"}
    BY <2>2, <1>3 DEF Later, Place, Locks, Kinds
  <2>4. next[k].kind = "drawer"
    BY <2>3, <1>6, <1>7
  <2>5. Body[k].op = "payment"
    BY <2>2, <2>4 DEF Later, Place
  <2> QED BY <1>3, <1>8, <2>4, <2>5 DEF Mode, Writes
<1>10. \A j \in S : next[j].kind # "drawer"
  <2> SUFFICES ASSUME NEW j \in S, next[j].kind = "drawer" PROVE FALSE
    OBVIOUS
  <2>1. PICK k \in S : \E l \in held[k] : l.kind = "drawer"
    BY <1>4
  <2>2. next[k].kind \in {"mechanic", "product", "counter"}
    BY <2>1, <1>3, <1>5 DEF Later, Place, Locks, Kinds
  <2> QED BY <2>2, <1>6, <1>7, <1>9
<1>11. PICK j \in S : next[j].kind \in {"bill", "order", "device"}
  BY <1>3, <1>6, <1>7, <1>9, <1>10 DEF Locks, Kinds
<1>12. PICK k \in S : \E l \in held[k] : l.kind \in {"bill", "order", "device"}
  BY <1>4, <1>11
<1>13. next[k].kind \in {"drawer", "mechanic", "product", "counter"}
  <2>1. PICK l \in held[k] : l.kind \in {"bill", "order", "device"}
    BY <1>12
  <2>2. Later(Body[k].op, l, next[k]) /\ next[k].kind \in Kinds
    BY <1>3, <1>5 DEF Locks
  <2>3. Place(Body[k].op, l.kind) = 1 /\ ~ (Place(Body[k].op, next[k].kind) <= 1)
    BY <2>1, <2>2, PlaceTyped DEF Later, Place
  <2> QED BY <2>2, <2>3 DEF Place, Kinds
<1> QED BY <1>13, <1>6, <1>7, <1>9, <1>10

-----------------------------------------------------------------------------
(* The steps keep the invariant *)

LEMMA NothingTyped == Nothing \in Finding /\ Nothing.shift = None
BY OneByOneAssumption DEF Nothing, Finding

LEMMA PlanTyped ==
  ASSUME NEW j \in Jobs
  PROVE  Plan[j] \in Seq(Locks) /\ Len(Plan[j]) \in Nat
BY PlanInOrder DEF InOrder

LEMMA InitLocks == RowLocksInit => LocksInv
<1> SUFFICES ASSUME RowLocksInit PROVE LocksInv
  OBVIOUS
<1>1. RowsTyped
  <2>1. drawer \in [Devices -> [no : Nat, open : BOOLEAN]] /\ retired \in SUBSET Devices
    BY DEF RowLocksInit, OneByOneInit
  <2>2. \A j \in Before : Paper(<<Body[j].device, 1>>) \in Papers
    BY OneByOneAssumption DEF Paper, Papers
  <2>3. doc \in [Jobs -> Papers \cup {None}]
    BY <2>2 DEF RowLocksInit, OneByOneInit
  <2>4. tab \in [Mechanics -> Int] /\ stock \in [Parts -> Int]
    BY OneByOneAssumption DEF RowLocksInit, OneByOneInit
  <2> QED BY <2>1, <2>3, <2>4 DEF RowsTyped
<1>2. RequestsTyped
  BY NothingTyped DEF RowLocksInit, RequestsTyped
<1>3. \A j \in Jobs : held[j] = {} /\ step[j] = 0 /\ found[j] = Nothing
  BY DEF RowLocksInit
<1>4. Excluded
  BY <1>3 DEF Excluded
<1>5. ASSUME NEW j \in Jobs PROVE AtRest(j) /\ HeldFromPlan(j) /\ StillSo(j)
  <2>1. AtRest(j)
    BY <1>3 DEF AtRest, RowLocksInit, OneByOneInit
  <2>2. HeldFromPlan(j)
    BY <1>3, PlanTyped DEF HeldFromPlan
  <2>3. \A kind : ~ Past(j, kind)
    BY <1>3 DEF Past
  <2>4. StillSo(j)
    BY <1>3, <2>3, NothingTyped DEF StillSo, DrawerRead, TabRead, StockRead, RowRead
  <2> QED BY <2>1, <2>2, <2>4
<1> QED BY <1>1, <1>2, <1>4, <1>5 DEF LocksInv

\* A request that alone has moved.
Alone(j) ==
    \A q \in Jobs \ {j} : /\ state'[q] = state[q] /\ held'[q] = held[q]
                          /\ step'[q] = step[q] /\ found'[q] = found[q]

\* What holds of the shop's rows holds while nobody commits.
LEMMA RowsStay ==
  ASSUME UNCHANGED shopVars, NEW j \in Jobs
  PROVE  /\ RowsTyped => RowsTyped'
         /\ \A s : DrawerAllows(j, s)' <=> DrawerAllows(j, s)
         /\ \A owed : TabAllows(j, owed)' <=> TabAllows(j, owed)
         /\ \A on : StockAllows(j, on)' <=> StockAllows(j, on)
         /\ BillAllows(j)' <=> BillAllows(j)
         /\ \A order : Received(order)' <=> Received(order)
         /\ Standing(j)' = Standing(j) /\ ItsShift(j)' = ItsShift(j)
<1> USE DEF shopVars
<1>1. \A s : Cash(s)' = Cash(s)
  BY DEF Cash, Done, Counted
<1>2. \A s : DrawerAllows(j, s)' <=> DrawerAllows(j, s)
  BY <1>1 DEF DrawerAllows
<1>3. \A owed : TabAllows(j, owed)' <=> TabAllows(j, owed)
  BY DEF TabAllows
<1>4. \A on : StockAllows(j, on)' <=> StockAllows(j, on)
  BY DEF StockAllows
<1>5. BillAllows(j)' <=> BillAllows(j)
  BY DEF BillAllows, Done
<1>6. \A order : Received(order)' <=> Received(order)
  BY DEF Received, Done
<1>7. Standing(j)' = Standing(j) /\ ItsShift(j)' = ItsShift(j)
  BY DEF Standing, ItsShift, OpenShift, Shift
<1>8. RowsTyped => RowsTyped'
  BY DEF RowsTyped
<1> QED BY <1>2, <1>3, <1>4, <1>5, <1>6, <1>7, <1>8

\* The others keep what they have while one takes a lock.
LEMMA OthersStay ==
  ASSUME LocksInv, NEW j \in Jobs, Alone(j), UNCHANGED shopVars, NEW q \in Jobs \ {j}
  PROVE  AtRest(q)' /\ HeldFromPlan(q)' /\ StillSo(q)'
<1>1. state'[q] = state[q] /\ held'[q] = held[q] /\ step'[q] = step[q] /\ found'[q] = found[q]
  BY DEF Alone
<1>2. AtRest(q) /\ HeldFromPlan(q) /\ StillSo(q)
  BY DEF LocksInv
<1>3. AtRest(q)'
  BY <1>1, <1>2 DEF AtRest, shopVars
<1>4. HeldFromPlan(q)'
  BY <1>1, <1>2 DEF HeldFromPlan
<1>5. \A kind : Past(q, kind)' <=> Past(q, kind)
  BY <1>1 DEF Past
<1>6. DrawerRead(q)'
  BY <1>1, <1>2, <1>5, RowsStay DEF StillSo, DrawerRead
<1>7. TabRead(q)'
  BY <1>1, <1>2, <1>5, RowsStay DEF StillSo, TabRead, shopVars
<1>8. StockRead(q)'
  BY <1>1, <1>2, <1>5, RowsStay DEF StillSo, StockRead, shopVars, Left
<1>9. RowRead(q)'
  BY <1>1, <1>2, <1>5, RowsStay DEF StillSo, RowRead, shopVars
<1> QED BY <1>3, <1>4, <1>6, <1>7, <1>8, <1>9 DEF StillSo

\* A request that begins, or has ended, has nothing to keep.
LEMMA NothingKept ==
  ASSUME NEW j \in Jobs, held'[j] = {}, step'[j] = 0, found'[j] = Nothing
  PROVE  HeldFromPlan(j)' /\ StillSo(j)'
<1>1. HeldFromPlan(j)'
  BY PlanTyped DEF HeldFromPlan
<1>2. \A kind : ~ Past(j, kind)'
  BY DEF Past
<1>3. StillSo(j)'
  BY <1>2, NothingTyped DEF StillSo, DrawerRead, TabRead, StockRead, RowRead
<1> QED BY <1>1, <1>3

LEMMA BeginKeeps ==
  ASSUME LocksInv, NEW j \in Jobs, Begin(j)
  PROVE  LocksInv'
<1>1. /\ state' = [state EXCEPT ![j] = "running"] /\ state[j] = "new"
      /\ UNCHANGED <<shopVars, held, step, found>>
  BY DEF Begin
<1>2. RequestsTyped' /\ Alone(j)
  BY <1>1 DEF LocksInv, RequestsTyped, Alone
<1>3. Excluded'
  BY <1>1 DEF LocksInv, Excluded
<1>4. held[j] = {} /\ step[j] = 0 /\ found[j] = Nothing /\ doc[j] = None
  BY <1>1 DEF LocksInv, AtRest
<1>5. AtRest(j)'
  BY <1>1, <1>4 DEF AtRest, shopVars, LocksInv, RequestsTyped
<1>6. HeldFromPlan(j)' /\ StillSo(j)'
  BY <1>1, <1>4, NothingKept
<1>7. RowsTyped'
  BY <1>1, RowsStay DEF LocksInv
<1> QED BY <1>1, <1>2, <1>3, <1>5, <1>6, <1>7, OthersStay DEF LocksInv

\* A request that ends frees its locks.
LEMMA EndFrees ==
  ASSUME LocksInv, NEW j \in Jobs, End(j)
  PROVE  /\ RequestsTyped' /\ Alone(j) /\ Excluded'
         /\ AtRest(j)' /\ HeldFromPlan(j)' /\ StillSo(j)'
<1>1. RequestsTyped'
  BY NothingTyped DEF End, LocksInv, RequestsTyped
<1>2. Alone(j)
  BY DEF Alone, End, LocksInv, RequestsTyped
<1>3. held'[j] = {} /\ step'[j] = 0 /\ found'[j] = Nothing /\ state'[j] = "ended"
  BY DEF End, LocksInv, RequestsTyped
<1>4. Excluded'
  BY <1>2, <1>3 DEF LocksInv, Excluded, Alone
<1>5. AtRest(j)'
  BY <1>3 DEF AtRest
<1> QED BY <1>1, <1>2, <1>3, <1>4, <1>5, NothingKept

LEMMA EndKeeps ==
  ASSUME LocksInv, NEW j \in Jobs, End(j), UNCHANGED shopVars
  PROVE  LocksInv'
<1>1. RowsTyped'
  BY RowsStay DEF LocksInv
<1> QED BY <1>1, EndFrees, OthersStay DEF LocksInv

\* Who opens or retires holds the machine before it comes to the drawer.
LEMMA DeviceFirst ==
  ASSUME LocksInv, NEW j \in Jobs, Body[j].op \in {"open", "retire"},
         step[j] + 1 \in 1..Len(Plan[j]), Plan[j][step[j] + 1].kind = "drawer"
  PROVE  Past(j, "device")
<1>1. PICK i \in 1..Len(Plan[j]) : Plan[j][i].kind = "device"
  <2>1. Lock("device", Body[j].device, "update") \in PlanLocks(j)
    BY DEF PlanLocks, RowLocksOf
  <2> QED BY <2>1, PlanHas DEF Lock
<1>2. ~ (step[j] + 1 < i) /\ step[j] + 1 # i
  <2>1. Later(Body[j].op, Plan[j][step[j] + 1], Plan[j][i]) <=> FALSE
    BY <1>1 DEF Later, Place
  <2> QED BY <1>1, <2>1, PlanLater
<1>3. i \in 1..step[j]
  BY <1>2, PlanTyped DEF LocksInv, RequestsTyped
<1> QED BY <1>1, <1>3 DEF Past

\* The lock a running request wants next.
LEMMA NextLock ==
  ASSUME LocksInv, NEW j \in Jobs, Left(j) > 0
  PROVE  /\ step[j] \in Nat /\ step[j] + 1 \in 1..Len(Plan[j])
         /\ Plan[j][step[j] + 1] \in Locks
         /\ Wanted(j).kind = Plan[j][step[j] + 1].kind /\ Wanted(j).mode = Plan[j][step[j] + 1].mode
         /\ Wanted(j).kind # "drawer" => Wanted(j) = Plan[j][step[j] + 1]
         /\ Wanted(j).kind = "drawer" =>
               /\ ~ Past(j, "drawer")
               /\ Wanted(j).row = IF found[j].shift # None THEN found[j].shift ELSE Seen(j, Wanted(j).mode)
               /\ Wanted(j).row \in Shifts \cup {None}
               /\ Wanted(j).row # None => Wanted(j) \in Locks
<1>1. step[j] \in Nat /\ step[j] + 1 \in 1..Len(Plan[j])
  BY PlanTyped DEF LocksInv, RequestsTyped, HeldFromPlan, Left
<1>2. PICK l : l = Plan[j][step[j] + 1]
  OBVIOUS
<1>3. l \in Locks
  BY <1>1, <1>2, PlanKinds
<1>4. CASE l.kind # "drawer"
  BY <1>1, <1>2, <1>3, <1>4 DEF Wanted
<1>5. CASE l.kind = "drawer"
  <2>1. PICK row : row = IF found[j].shift # None THEN found[j].shift ELSE Seen(j, l.mode)
    OBVIOUS
  <2>2. Wanted(j) = [l EXCEPT !.row = row]
    BY <1>2, <1>5, <2>1 DEF Wanted
  <2>3. row \in Shifts \cup {None}
    <3>1. drawer[Body[j].device].no \in Nat /\ Body[j].device \in Devices
      BY OneByOneAssumption DEF LocksInv, RowsTyped
    <3>2. Seen(j, l.mode) \in Shifts \cup {None}
      BY <3>1 DEF Seen, OpenShift, Shift, Shifts
    <3> QED BY <2>1, <3>2 DEF LocksInv, RequestsTyped, Finding
  <2>4. ~ Past(j, "drawer")
    <3> SUFFICES ASSUME NEW i \in 1..step[j], Plan[j][i].kind = "drawer" PROVE FALSE
      BY DEF Past
    <3>1. i \in 1..Len(Plan[j]) /\ i # step[j] + 1
      BY <1>1, PlanTyped
    <3> QED BY <1>1, <1>2, <1>5, <3>1, KindOnce
  <2>5. /\ Wanted(j).kind = "drawer" /\ Wanted(j).mode = l.mode /\ Wanted(j).row = row
        /\ row # None => Wanted(j) \in Locks
    BY <1>3, <1>5, <2>2, <2>3 DEF Locks, Rows
  <2> QED BY <1>1, <1>2, <1>3, <1>5, <2>1, <2>3, <2>4, <2>5
<1> QED BY <1>4, <1>5

LEMMA WaitKeeps ==
  ASSUME LocksInv, NEW j \in Jobs, Wait(j)
  PROVE  LocksInv'
<1>1. /\ Blockers(j) # {} /\ Wanted(j).kind = "drawer" /\ found[j].shift = None
      /\ UNCHANGED <<shopVars, state, held, step>> /\ j \in Running /\ state[j] = "running"
  BY DEF Wait, Running
<1>2. PICK row : row = Wanted(j).row
  OBVIOUS
<1>3. /\ found' = [found EXCEPT ![j] = [found[j] EXCEPT !.shift = row]]
      /\ found[j] \in Finding
  BY <1>2 DEF Wait, LocksInv, RequestsTyped
<1>4. PICK l : l = Plan[j][step[j] + 1]
  OBVIOUS
<1>5. Left(j) > 0
  <2>1. Left(j) # 0 /\ step[j] \in Nat /\ step[j] <= Len(Plan[j])
    BY <1>1 DEF Blockers, LocksInv, RequestsTyped, HeldFromPlan
  <2> QED BY <2>1, PlanTyped DEF Left
<1>6. /\ step[j] + 1 \in 1..Len(Plan[j]) /\ l.kind = "drawer" /\ l.mode = Mode(Body[j].op, "drawer")
      /\ ~ Past(j, "drawer") /\ row \in Shifts \cup {None} /\ row = Seen(j, l.mode)
  BY <1>1, <1>2, <1>4, <1>5, NextLock, PlanKinds
<1>7. /\ found'[j] = [found[j] EXCEPT !.shift = row] /\ found'[j].shift = row
      /\ found'[j].owed = found[j].owed /\ found'[j].stock = found[j].stock
      /\ RequestsTyped' /\ Alone(j)
  BY <1>1, <1>3, <1>6 DEF LocksInv, RequestsTyped, Finding, Alone
<1>8. AtRest(j) /\ HeldFromPlan(j) /\ StillSo(j)
  BY DEF LocksInv
<1>9. AtRest(j)' /\ HeldFromPlan(j)'
  BY <1>1, <1>8 DEF AtRest, HeldFromPlan, shopVars
<1>10. \A kind : Past(j, kind)' <=> Past(j, kind)
  BY <1>1 DEF Past
<1>11. DrawerRead(j)'
  <2>1. ASSUME Body[j].op \in {"open", "retire"} PROVE Past(j, "device") /\ row = ItsShift(j)
    <3>1. Past(j, "device")
      BY <1>4, <1>6, <2>1, DeviceFirst
    <3> QED BY <1>6, <2>1, <3>1 DEF Mode, Writes, Seen, ItsShift
  <2> QED BY <1>1, <1>6, <1>7, <1>10, <2>1, RowsStay DEF DrawerRead
<1>12. TabRead(j)' /\ StockRead(j)' /\ RowRead(j)'
  <2>1. TabRead(j)'
    BY <1>1, <1>7, <1>8, <1>10, RowsStay DEF StillSo, TabRead, shopVars
  <2>2. StockRead(j)'
    BY <1>1, <1>7, <1>8, <1>10, RowsStay DEF StillSo, StockRead, shopVars, Left
  <2>3. RowRead(j)'
    BY <1>1, <1>8, <1>10, RowsStay DEF StillSo, RowRead, shopVars
  <2> QED BY <2>1, <2>2, <2>3
<1>13. RowsTyped' /\ Excluded'
  BY <1>1, RowsStay DEF LocksInv, Excluded
<1> QED BY <1>1, <1>7, <1>9, <1>11, <1>12, <1>13, OthersStay DEF LocksInv, StillSo

\* A lock whose row there is.
LEMMA LockThere ==
  ASSUME NEW j \in Jobs, NEW i \in 1..Len(Plan[j]), NEW l, l = Plan[j][i], l.kind # "drawer"
  PROVE  l.row # None
<1>1. l \in PlanLocks(j)
  BY PlanListed DEF Listing, Range
<1>2. l.kind = "counter" => l.row = <<Body[j].device, Body[j].op>>
  BY <1>1 DEF PlanLocks, RowLocksOf, DrawerLocks, MechanicLocks, ProductLocks, CounterLocks, Lock
<1>3. l.kind \in Kinds
  BY PlanKinds DEF Locks
<1>4. Goods(j) \subseteq Parts
  BY OneByOneAssumption DEF Goods, Bill
<1>5. /\ l.kind = "bill" => l.row = Body[j].of /\ Body[j].op \in {"void", "return"}
      /\ l.kind = "device" => l.row = Body[j].device
      /\ l.kind = "order" => l.row = Body[j].of /\ Body[j].op = "receive"
      /\ l.kind = "mechanic" => l.row # None
      /\ l.kind = "product" => l.row \in Parts
  BY <1>4, PlanKinds DEF Bill
<1>6. /\ Body[j].op \in {"void", "return"} => Body[j].of # None
      /\ Body[j].op = "receive" => Body[j].of # None
      /\ Body[j].device # None /\ <<Body[j].device, Body[j].op>> # None /\ None \notin Parts
  BY OneByOneAssumption
<1> QED BY <1>2, <1>3, <1>5, <1>6 DEF Kinds

LEMMA TakeKeeps ==
  ASSUME LocksInv, NEW j \in Jobs, Take(j)
  PROVE  LocksInv'
<1>1. /\ j \in Running /\ state[j] = "running" /\ Left(j) > 0 /\ Blockers(j) = {}
      /\ UNCHANGED <<shopVars, state>>
  BY DEF Take, Running
<1>2. PICK l : l = Wanted(j)
  OBVIOUS
<1>3. PICK read : read = Reading(j, l)
  OBVIOUS
<1>4. PICK n \in Nat : n = step[j] + 1
  BY DEF LocksInv, RequestsTyped
<1>5. PICK planned : planned = Plan[j][n]
  OBVIOUS
<1>6. /\ n \in 1..Len(Plan[j]) /\ planned \in Locks /\ planned.mode = Mode(Body[j].op, planned.kind)
      /\ l.kind = planned.kind /\ l.mode = planned.mode
      /\ l.kind # "drawer" => l = planned /\ l.row # None
      /\ l.kind = "drawer" =>
            /\ ~ Past(j, "drawer")
            /\ l.row = IF found[j].shift # None THEN found[j].shift ELSE Seen(j, l.mode)
            /\ l.row \in Shifts \cup {None}
      /\ l.row # None => l \in Locks
  BY <1>1, <1>2, <1>4, <1>5, NextLock, PlanKinds, LockThere
<1>7. Allows(j, l, read)
  BY <1>2, <1>3 DEF Take
<1>8. found[j] \in Finding /\ held[j] \in SUBSET Locks /\ step[j] \in Nat /\ step[j] = n - 1
  BY <1>4 DEF LocksInv, RequestsTyped
\* What it reads under the lock.
<1>9. /\ read \in Finding
      /\ l.kind = "drawer" =>
            /\ read.shift = IF l.row = Seen(j, l.mode) THEN OpenShift(Body[j].device) ELSE None
            /\ read.owed = found[j].owed /\ read.stock = found[j].stock
      /\ l.kind = "mechanic" =>
            /\ read.shift = found[j].shift /\ read.stock = found[j].stock /\ read.owed = tab[l.row]
      /\ l.kind = "product" =>
            /\ read.shift = found[j].shift /\ read.owed = found[j].owed
            /\ read.stock = [found[j].stock EXCEPT ![l.row] = stock[l.row]] /\ l.row \in Parts
      /\ l.kind \notin {"drawer", "mechanic", "product"} => read = found[j]
  <2>1. PICK f \in Finding : f = found[j]
    BY <1>8
  <2>2. CASE l.kind = "drawer"
    <3>1. PICK s : s = IF l.row = Seen(j, l.mode) THEN OpenShift(Body[j].device) ELSE None
      OBVIOUS
    <3>2. read = [f EXCEPT !.shift = s]
      BY <1>3, <2>1, <2>2, <3>1 DEF Reading
    <3>3. s \in Shifts \cup {None}
      BY <3>1, OneByOneAssumption DEF OpenShift, Shift, Shifts, LocksInv, RowsTyped
    <3> QED BY <2>1, <2>2, <3>1, <3>2, <3>3 DEF Finding
  <2>3. CASE l.kind = "mechanic"
    <3>1. PICK v : v = tab[l.row]
      OBVIOUS
    <3>2. read = [f EXCEPT !.owed = v]
      BY <1>3, <2>1, <2>3, <3>1 DEF Reading
    <3>3. l.row \in Mechanics
      <4>1. l.row = Debtor(j) /\ l.row # None /\ Body[j].op \in {"sale", "void", "return", "payment"}
        BY <1>5, <1>6, <2>3, PlanKinds
      <4> QED BY <4>1, OneByOneAssumption DEF Debtor, Bill
    <3>4. v \in Int
      BY <3>1, <3>3 DEF LocksInv, RowsTyped
    <3> QED BY <2>1, <2>3, <3>1, <3>2, <3>4 DEF Finding
  <2>4. CASE l.kind = "product"
    <3>1. PICK v : v = stock[l.row]
      OBVIOUS
    <3>2. read = [f EXCEPT !.stock = [f.stock EXCEPT ![l.row] = v]]
      BY <1>3, <2>1, <2>4, <3>1 DEF Reading
    <3>3. l.row \in Parts
      <4>1. l.row \in Goods(j)
        BY <1>5, <1>6, <2>4, PlanKinds
      <4> QED BY <4>1, OneByOneAssumption DEF Goods, Bill
    <3>4. v \in Int /\ f.stock \in [Parts -> Int]
      BY <2>1, <3>1, <3>3 DEF LocksInv, RowsTyped, Finding
    <3>5. PICK w \in [Parts -> Int] : w = [f.stock EXCEPT ![l.row] = v]
      BY <3>4
    <3>6. read = [f EXCEPT !.stock = w]
      BY <3>2, <3>5
    <3> QED BY <2>1, <2>4, <3>1, <3>3, <3>5, <3>6 DEF Finding
  <2>5. CASE l.kind \notin {"drawer", "mechanic", "product"}
    BY <1>3, <1>8, <2>5 DEF Reading
  <2> QED BY <2>2, <2>3, <2>4, <2>5
<1>10. PICK mine : mine = held[j] \cup {x \in {l} : x.row # None}
  OBVIOUS
<1>11. held' = [held EXCEPT ![j] = mine] /\ step' = [step EXCEPT ![j] = n]
       /\ found' = [found EXCEPT ![j] = read]
  BY <1>2, <1>3, <1>4, <1>10 DEF Take, LocksInv, RequestsTyped
<1>12. /\ RequestsTyped' /\ Alone(j) /\ held'[j] = mine /\ step'[j] = n /\ found'[j] = read
  <2>1. mine \in SUBSET Locks
    BY <1>6, <1>8, <1>10
  <2> QED BY <1>1, <1>9, <1>11, <2>1 DEF LocksInv, RequestsTyped, Alone
<1>13. l.row # None => l \in mine
  BY <1>10
<1>14. AtRest(j) /\ HeldFromPlan(j) /\ StillSo(j)
  BY DEF LocksInv
<1>15. AtRest(j)'
  BY <1>1, <1>14 DEF AtRest, shopVars
<1>16. Excluded'
  <2>1. ASSUME NEW q \in Jobs \ {j}, NEW m \in held[q] PROVE ~ Conflict(m, l)
    <3>1. q \in Running
      BY <2>1 DEF LocksInv, AtRest, Running
    <3> QED BY <1>1, <1>2, <2>1, <3>1 DEF Blockers
  <2>2. ASSUME NEW q \in Jobs \ {j}, NEW m \in held[q], NEW x \in mine
        PROVE  ~ Conflict(m, x) /\ ~ Conflict(x, m)
    <3>1. CASE x \in held[j]
      BY <3>1, <2>2 DEF LocksInv, Excluded
    <3>2. CASE x = l
      BY <2>1, <2>2, <3>2 DEF Conflict
    <3> QED BY <1>10, <3>1, <3>2
  <2>3. \A q \in Jobs \ {j} : held'[q] = held[q]
    BY <1>12 DEF Alone
  <2> QED BY <1>12, <2>2, <2>3 DEF LocksInv, Excluded
<1>17. HeldFromPlan(j)'
  <2>1. \A x \in mine : \E i \in 1..n : Names(x, Plan[j][i])
    <3>1. ASSUME NEW x \in held[j] PROVE \E i \in 1..n : Names(x, Plan[j][i])
      BY <1>8, <1>14 DEF HeldFromPlan
    <3>2. Names(l, Plan[j][n]) /\ n \in 1..n
      BY <1>5, <1>6 DEF Names
    <3> QED BY <1>10, <3>1, <3>2
  <2>2. \A i \in 1..n : Plan[j][i].kind # "drawer" => Plan[j][i] \in mine
    <3> SUFFICES ASSUME NEW i \in 1..n, Plan[j][i].kind # "drawer" PROVE Plan[j][i] \in mine
      OBVIOUS
    <3>1. CASE i = n
      BY <1>5, <1>6, <1>13, <3>1
    <3>2. CASE i # n
      BY <1>8, <1>10, <1>14, <3>2 DEF HeldFromPlan
    <3> QED BY <3>1, <3>2
  <2>3. n <= Len(Plan[j])
    BY <1>6, PlanTyped
  <2> QED BY <1>12, <2>1, <2>2, <2>3 DEF HeldFromPlan
<1>18. \A kind : Past(j, kind)' <=> Past(j, kind) \/ kind = l.kind
  <2>1. \A i : i \in 1..n <=> i \in 1..step[j] \/ i = n
    BY <1>4, <1>8
  <2> QED BY <1>5, <1>6, <1>12, <2>1 DEF Past
<1>19. \A i \in 1..n : i \in 1..step[j] \/ i = n
  BY <1>4, <1>8
<1>20. DrawerRead(j)'
  <2>1. CASE l.kind # "drawer"
    <3>1. read.shift = found[j].shift
      BY <1>9, <2>1
    <3> QED BY <1>10, <1>12, <1>14, <1>18, <2>1, <3>1, RowsStay, <1>1 DEF StillSo, DrawerRead
  <2>2. CASE l.kind = "drawer"
    <3>1. l.mode = Mode(Body[j].op, "drawer")
      BY <1>6, <2>2
    <3>2. DrawerAllows(j, read.shift)
      BY <1>7, <2>2 DEF Allows
    <3>3. read.shift # None => read.shift = Standing(j) /\ read.shift = ItsShift(j) /\ l.row = ItsShift(j)
      BY <1>9, <2>2 DEF Standing, OpenShift, Seen, ItsShift
    <3>4. Body[j].op \in {"open", "retire"} => Past(j, "device")
      BY <1>4, <1>5, <1>6, <2>2, DeviceFirst
    <3>5. Writes(Body[j].op) => l.row = ItsShift(j)
      <4>1. CASE Body[j].op \in {"open", "retire"}
        BY <1>6, <1>14, <2>2, <3>1, <4>1 DEF StillSo, DrawerRead, Mode, Writes, Seen, ItsShift
      <4>2. CASE Body[j].op \in {"close", "entry"}
        <5>1. read.shift # None
          BY <3>2, <4>2 DEF DrawerAllows
        <5> QED BY <3>3, <5>1
      <4> QED BY <4>1, <4>2 DEF Writes
    <3>6. ItsShift(j) # None
      BY OneByOneAssumption DEF ItsShift, Shift, LocksInv, RowsTyped
    <3>7. read.shift # None \/ Writes(Body[j].op) =>
              Lock("drawer", ItsShift(j), Mode(Body[j].op, "drawer")) \in mine
      <4> SUFFICES ASSUME l.row = ItsShift(j)
                   PROVE  Lock("drawer", ItsShift(j), Mode(Body[j].op, "drawer")) \in mine
        BY <3>3, <3>5
      <4>1. l \in mine /\ l \in Locks
        BY <1>6, <1>13, <3>6
      <4>2. l = Lock("drawer", ItsShift(j), Mode(Body[j].op, "drawer"))
        BY <2>2, <3>1, <4>1 DEF Lock, Locks
      <4> QED BY <4>1, <4>2
    <3> QED BY <1>1, <1>12, <1>18, <2>2, <3>2, <3>3, <3>4, <3>7, RowsStay DEF DrawerRead
  <2> QED BY <2>1, <2>2
<1>21. TabRead(j)'
  <2>1. \A i \in 1..n : Plan[j][i].kind = "mechanic" => read.owed = tab[Plan[j][i].row]
    <3> SUFFICES ASSUME NEW i \in 1..n, Plan[j][i].kind = "mechanic" PROVE read.owed = tab[Plan[j][i].row]
      OBVIOUS
    <3>1. CASE i = n
      BY <1>5, <1>6, <1>9, <3>1
    <3>2. CASE i # n
      <4>1. i \in 1..step[j] /\ i \in 1..Len(Plan[j])
        BY <1>6, <1>19, <3>2, PlanTyped
      <4>2. l.kind # "mechanic"
        BY <1>5, <1>6, <3>2, <4>1, KindOnce
      <4>3. read.owed = found[j].owed
        BY <1>9, <4>2
      <4> QED BY <1>14, <4>1, <4>3 DEF StillSo, TabRead
    <3> QED BY <3>1, <3>2
  <2>2. Body[j].op = "sale" /\ Past(j, "mechanic")' => TabAllows(j, read.owed)
    <3>1. CASE l.kind = "mechanic"
      BY <1>7, <3>1 DEF Allows
    <3>2. CASE l.kind # "mechanic"
      BY <1>9, <1>14, <1>18, <3>2 DEF StillSo, TabRead
    <3> QED BY <3>1, <3>2
  <2>3. Body[j].op = "payment" /\ Past(j, "drawer")' => TabAllows(j, read.owed)
    <3>1. CASE l.kind = "drawer"
      BY <1>7, <3>1 DEF Allows
    <3>2. CASE l.kind = "mechanic" /\ Body[j].op = "payment"
      <4>1. ASSUME NEW i \in 1..step[j], Plan[j][i].kind = "drawer" PROVE FALSE
        <5>1. i \in 1..Len(Plan[j]) /\ i < n
          BY <1>6, <1>8, PlanTyped
        <5>2. Later("payment", Plan[j][i], Plan[j][n])
          BY <1>6, <3>2, <5>1, PlanLater
        <5> QED BY <1>5, <1>6, <3>2, <4>1, <5>2 DEF Later, Place
      <4> QED BY <1>18, <3>2, <4>1 DEF Past
    <3>3. CASE l.kind \notin {"drawer", "mechanic"}
      BY <1>9, <1>14, <1>18, <3>3 DEF StillSo, TabRead
    <3> QED BY <3>1, <3>2, <3>3
  <2> QED BY <1>1, <1>12, <2>1, <2>2, <2>3, RowsStay DEF TabRead, shopVars
<1>22. StockRead(j)'
  <2>1. ASSUME NEW i \in 1..n, Plan[j][i].kind = "product"
        PROVE  read.stock[Plan[j][i].row] = stock[Plan[j][i].row]
    <3>1. Plan[j][i].row \in Parts
      <4>1. i \in 1..Len(Plan[j])
        BY <1>6, PlanTyped
      <4>2. Plan[j][i].row \in Goods(j)
        BY <2>1, <4>1, PlanKinds
      <4> QED BY <4>2, OneByOneAssumption DEF Goods, Bill
    <3>2. i # n => found[j].stock[Plan[j][i].row] = stock[Plan[j][i].row]
      BY <1>14, <1>19, <2>1 DEF StillSo, StockRead
    <3>3. found[j].stock \in [Parts -> Int]
      BY <1>8 DEF Finding
    <3>4. CASE l.kind = "product"
      <4>1. l.row \in Parts /\ read.stock = [found[j].stock EXCEPT ![l.row] = stock[l.row]]
        BY <1>9, <3>4
      <4>2. i = n => Plan[j][i].row = l.row
        BY <1>5, <1>6, <3>4
      <4>3. PICK p : p = Plan[j][i].row
        OBVIOUS
      <4>4. p = l.row => read.stock[p] = stock[p]
        BY <3>3, <4>1
      <4>5. p # l.row => read.stock[p] = found[j].stock[p]
        BY <3>1, <3>3, <4>1, <4>3
      <4> QED BY <3>2, <4>2, <4>3, <4>4, <4>5
    <3>5. CASE l.kind # "product"
      BY <1>5, <1>6, <1>9, <2>1, <3>2, <3>5
    <3> QED BY <3>4, <3>5
  <2>2. PICK size \in Nat : size = Len(Plan[j])
    BY PlanTyped
  <2>3. ASSUME Past(j, "product")', ~ (size - n > 0 /\ Plan[j][n + 1].kind = "product")
        PROVE  StockAllows(j, read.stock)
    <3>1. CASE l.kind = "product"
      BY <1>4, <1>7, <1>8, <2>2, <2>3, <3>1 DEF Allows, Left
    <3>2. CASE l.kind # "product"
      <4>1. read.stock = found[j].stock
        BY <1>9, <3>2
      <4> QED BY <1>4, <1>5, <1>6, <1>14, <1>18, <2>3, <3>2, <4>1 DEF StillSo, StockRead
    <3> QED BY <3>1, <3>2
  <2>4. Left(j)' = size - n
    BY <1>12, <2>2 DEF Left
  <2> QED BY <1>1, <1>12, <2>1, <2>3, <2>4, RowsStay DEF StockRead, shopVars
<1>23. RowRead(j)'
  <2>1. Past(j, "bill")' => BillAllows(j)
    BY <1>7, <1>14, <1>18 DEF StillSo, RowRead, Allows
  <2>2. Past(j, "device")' => Body[j].device \notin retired
    <3>1. l.kind = "device" => l.row = Body[j].device
      BY <1>5, <1>6, PlanKinds
    <3> QED BY <1>7, <1>14, <1>18, <3>1 DEF StillSo, RowRead, Allows
  <2>3. Past(j, "order")' => ~ Received(Bill(j))
    <3>1. l.kind = "order" => l.row = Bill(j)
      BY <1>5, <1>6, PlanKinds
    <3> QED BY <1>7, <1>14, <1>18, <3>1 DEF StillSo, RowRead, Allows
  <2> QED BY <1>1, <2>1, <2>2, <2>3, RowsStay DEF RowRead, shopVars
<1>24. RowsTyped'
  BY <1>1, RowsStay DEF LocksInv
<1> QED
  BY <1>1, <1>12, <1>15, <1>16, <1>17, <1>20, <1>21, <1>22, <1>23, <1>24, OthersStay DEF LocksInv, StillSo

-----------------------------------------------------------------------------
(* The commit *)

\* What a request that commits holds and has found.
LEMMA AtCommit ==
  ASSUME LocksInv, NEW j \in Jobs, Commit(j)
  PROVE  /\ doc[j] = None /\ state[j] = "running"
         /\ \A l \in PlanLocks(j) : l.kind # "drawer" => l \in held[j]
         /\ \A l \in PlanLocks(j) : Past(j, l.kind)
         /\ \A p \in Goods(j) : Body[j].op \in {"sale", "void", "return", "receive", "adjust"} =>
               found[j].stock[p] = stock[p] /\ p \in Parts
         /\ Body[j].op \in {"sale", "payment"} /\ Body[j].mechanic # None =>
               TabAllows(j, tab[Body[j].mechanic])
         /\ StockAllows(j, stock)
<1>1. /\ j \in Running /\ state[j] = "running" /\ Left(j) = 0
      /\ Effect(j, found[j].shift, found[j].stock)
  BY DEF Commit, Running
<1>2. step[j] = Len(Plan[j]) /\ step[j] \in Nat
  BY <1>1, PlanTyped DEF LocksInv, RequestsTyped, Left
<1>3. HeldFromPlan(j) /\ StillSo(j) /\ AtRest(j)
  BY DEF LocksInv
<1>4. ASSUME NEW l \in PlanLocks(j) PROVE \E i \in 1..step[j] : Plan[j][i] = l
  BY <1>2, PlanHas
<1>5. \A l \in PlanLocks(j) : (l.kind # "drawer" => l \in held[j]) /\ Past(j, l.kind)
  BY <1>3, <1>4 DEF HeldFromPlan, Past
<1>6. ASSUME NEW p \in Goods(j), Body[j].op \in {"sale", "void", "return", "receive", "adjust"}
      PROVE  found[j].stock[p] = stock[p] /\ p \in Parts /\ Past(j, "product")
  <2>1. PICK l : l = Lock("product", p, "update")
    OBVIOUS
  <2>2. l \in PlanLocks(j) /\ l.kind = "product" /\ l.row = p
    BY <1>6, <2>1 DEF PlanLocks, ProductLocks, Lock
  <2>3. PICK i \in 1..step[j] : Plan[j][i] = l
    BY <1>4, <2>2
  <2>4. p \in Parts
    BY OneByOneAssumption DEF Goods, Bill
  <2> QED BY <1>3, <1>5, <2>2, <2>3, <2>4 DEF StillSo, StockRead
<1>7. ASSUME Body[j].op \in {"sale", "payment"}, Body[j].mechanic # None
      PROVE  TabAllows(j, tab[Body[j].mechanic])
  <2>1. PICK l : l = Lock("mechanic", Body[j].mechanic, "update")
    OBVIOUS
  <2>2. l \in PlanLocks(j) /\ l.kind = "mechanic" /\ l.row = Body[j].mechanic
    BY <1>7, <2>1 DEF PlanLocks, MechanicLocks, Debtor, Lock
  <2>3. PICK i \in 1..step[j] : Plan[j][i] = l
    BY <1>4, <2>2
  <2>4. found[j].owed = tab[Body[j].mechanic] /\ Past(j, "mechanic")
    BY <1>3, <1>5, <2>2, <2>3 DEF StillSo, TabRead
  <2>5. Body[j].op = "payment" => Past(j, "drawer")
    <3>1. Lock("drawer", Body[j].device, Mode(Body[j].op, "drawer")) \in PlanLocks(j) \/ Body[j].op # "payment"
      BY DEF PlanLocks, DrawerLocks
    <3> QED BY <1>5, <3>1 DEF Lock
  <2> QED BY <1>3, <1>7, <2>4, <2>5 DEF StillSo, TabRead
<1>8. StockAllows(j, stock)
  <2> SUFFICES ASSUME Body[j].op = "sale", NEW p \in Body[j].parts PROVE stock[p] >= 1
    BY DEF StockAllows
  <2>1. p \in Goods(j)
    BY DEF Goods
  <2>2. Past(j, "product") /\ ~ (Left(j) > 0)
    BY <1>1, <1>6, <2>1
  <2>3. StockAllows(j, found[j].stock)
    BY <1>3, <2>2 DEF StillSo, StockRead
  <2> QED BY <1>6, <2>1, <2>3 DEF StockAllows
<1> QED BY <1>1, <1>3, <1>5, <1>6, <1>7, <1>8 DEF AtRest

\* The drawer a committing request found is the one that is open.
LEMMA DrawerAtCommit ==
  ASSUME LocksInv, NEW j \in Jobs, Commit(j), Body[j].op \notin {"receive", "adjust"}
  PROVE  /\ DrawerAllows(j, found[j].shift)
         /\ found[j].shift # None => found[j].shift = Standing(j)
         /\ found[j].shift # None \/ Writes(Body[j].op) =>
               Lock("drawer", ItsShift(j), Mode(Body[j].op, "drawer")) \in held[j]
<1>1. PICK l : l = Lock("drawer", Body[j].device, Mode(Body[j].op, "drawer"))
  OBVIOUS
<1>2. l \in PlanLocks(j) /\ l.kind = "drawer"
  BY <1>1 DEF PlanLocks, DrawerLocks, Lock
<1>3. Past(j, "drawer")
  BY <1>2, AtCommit
<1> QED BY <1>3 DEF LocksInv, StillSo, DrawerRead

\* The bill a void or a refund is of.
LEMMA BillAtCommit ==
  ASSUME LocksInv, NEW j \in Jobs, Commit(j), Body[j].op \in {"void", "return"}
  PROVE  /\ BillAllows(j) /\ Bill(j) \in Jobs /\ Body[Bill(j)].op = "sale" /\ Bill(j) # j
         /\ doc[Bill(j)] \in Papers /\ state[Bill(j)] = "ended"
         /\ Lock("bill", Bill(j), "update") \in held[j]
<1>1. PICK l : l = Lock("bill", Bill(j), "update")
  OBVIOUS
<1>2. l \in PlanLocks(j) /\ l.kind = "bill"
  BY <1>1 DEF PlanLocks, RowLocksOf, Lock
<1>3. Past(j, "bill") /\ l \in held[j]
  BY <1>2, AtCommit
<1>4. BillAllows(j)
  BY <1>3 DEF LocksInv, StillSo, RowRead
<1>5. Bill(j) \in Jobs /\ Body[Bill(j)].op = "sale"
  BY OneByOneAssumption DEF Bill
<1>6. doc[Bill(j)] # None
  BY <1>4 DEF BillAllows, Done
<1> QED BY <1>1, <1>3, <1>4, <1>5, <1>6 DEF LocksInv, RowsTyped, AtRest

LEMMA PaperTyped ==
  ASSUME NEW s \in Shifts \cup {None}
  PROVE  Paper(s) \in Papers /\ Paper(s).shift = s /\ Paper(s) # None
<1>1. Paper(s) \in Papers /\ Paper(s).shift = s
  BY DEF Paper, Papers, Shifts
<1> QED BY <1>1, OneByOneAssumption

LEMMA TotalTyped ==
  ASSUME NEW j \in Jobs
  PROVE  Total(j) \in Nat
<1>1. IsFiniteSet(Body[j].parts)
  BY OneByOneAssumption, FS_Subset
<1> QED BY <1>1, FS_CardinalityType DEF Total

LEMMA OffTabWrites ==
  ASSUME tab \in [Mechanics -> Int], NEW m, NEW n \in Int, OffTab(m, n)
  PROVE  /\ tab' \in [Mechanics -> Int]
         /\ \A x \in Mechanics \ {m} : tab'[x] = tab[x]
<1>1. CASE m = None
  BY <1>1 DEF OffTab
<1>2. CASE m # None
  <2>1. PICK v : v = IF tab[m] > n THEN tab[m] - n ELSE 0
    OBVIOUS
  <2>2. tab' = [tab EXCEPT ![m] = v]
    BY <1>2, <2>1 DEF OffTab
  <2>3. m \in Mechanics => v \in Int
    BY <2>1
  <2> QED BY <2>2, <2>3
<1> QED BY <1>1, <1>2

\* The tab a commit moves, and no other.
LEMMA TabWritten ==
  ASSUME LocksInv, NEW k \in Jobs, Commit(k)
  PROVE  /\ tab' \in [Mechanics -> Int]
         /\ \A m \in Mechanics : tab'[m] # tab[m] =>
               m = Debtor(k) /\ Body[k].op \in {"sale", "void", "return", "payment"}
<1>0. PICK op \in Ops : op = Body[k].op
  BY OneByOneAssumption
<1>1. Effect(k, found[k].shift, found[k].stock) /\ tab \in [Mechanics -> Int] /\ Total(k) \in Int
  BY TotalTyped DEF Commit, LocksInv, RowsTyped
<1>2. CASE op = "sale"
  <2>1. Sell(k, found[k].shift)
    BY <1>0, <1>1, <1>2 DEF Effect
  <2>2. PICK v : v = tab[Body[k].mechanic] + Total(k)
    OBVIOUS
  <2>3. tab' = [tab EXCEPT ![Body[k].mechanic] = v] \/ tab' = tab
    BY <2>1, <2>2 DEF Sell
  <2>4. Body[k].mechanic \in Mechanics => v \in Int
    BY <1>1, <2>2
  <2>5. Debtor(k) = Body[k].mechanic
    BY <1>0, <1>2 DEF Debtor
  <2> QED BY <1>0, <1>1, <1>2, <2>3, <2>4, <2>5
<1>3. CASE op \in {"void", "return"}
  <2>1. Bill(k) \in Jobs /\ Total(Bill(k)) \in Int
    BY <1>0, <1>3, OneByOneAssumption, TotalTyped DEF Bill
  <2>2. \E n \in Int : OffTab(Body[Bill(k)].mechanic, n)
    <3>1. CASE op = "void"
      <4>1. OffTab(Body[Bill(k)].mechanic, IF OnTab(Bill(k)) THEN Total(Bill(k)) ELSE 0)
        BY <1>0, <1>1, <3>1 DEF Effect, Void
      <4> QED BY <2>1, <4>1
    <3>2. CASE op = "return"
      <4>1. OffTab(Body[Bill(k)].mechanic, IF OnTab(k) THEN Total(k) ELSE 0)
        BY <1>0, <1>1, <3>2 DEF Effect, Refund
      <4> QED BY <1>1, <4>1
    <3> QED BY <1>3, <3>1, <3>2
  <2>3. PICK n \in Int : OffTab(Body[Bill(k)].mechanic, n)
    BY <2>2
  <2>4. Debtor(k) = Body[Bill(k)].mechanic
    BY <1>0, <1>3 DEF Debtor
  <2> QED BY <1>0, <1>1, <1>3, <2>3, <2>4, OffTabWrites
<1>4. CASE op = "payment"
  <2>1. OffTab(Body[k].mechanic, 1)
    BY <1>0, <1>1, <1>4 DEF Effect, Pay
  <2>2. Debtor(k) = Body[k].mechanic
    BY <1>0, <1>4 DEF Debtor
  <2> QED BY <1>0, <1>1, <1>4, <2>1, <2>2, OffTabWrites
<1>5. CASE op \notin {"sale", "void", "return", "payment"}
  <2>1. tab' = tab
    BY <1>0, <1>1, <1>5 DEF Effect, Entry, Open, Close, Retire, SetStock
  <2> QED BY <1>1, <2>1
<1> QED BY <1>2, <1>3, <1>4, <1>5

\* The stock a commit moves, and no other.
LEMMA StockWritten ==
  ASSUME LocksInv, NEW k \in Jobs, Commit(k)
  PROVE  /\ stock' \in [Parts -> Int]
         /\ \A p \in Parts : stock'[p] # stock[p] =>
               p \in Goods(k) /\ Body[k].op \in {"sale", "void", "return", "receive", "adjust"}
<1>0. PICK op \in Ops : op = Body[k].op
  BY OneByOneAssumption
<1>1. /\ Effect(k, found[k].shift, found[k].stock) /\ stock \in [Parts -> Int]
      /\ found[k].stock \in [Parts -> Int]
  BY DEF Commit, LocksInv, RowsTyped, RequestsTyped, Finding
<1>2. CASE op = "sale"
  <2>1. stock' = [p \in Parts |-> stock[p] - IF p \in Body[k].parts THEN 1 ELSE 0]
    BY <1>0, <1>1, <1>2 DEF Effect, Sell
  <2> QED BY <1>0, <1>1, <1>2, <2>1 DEF Goods
<1>3. CASE op = "void"
  <2>1. stock' = [p \in Parts |-> stock[p] + IF p \in Body[Bill(k)].parts THEN 1 ELSE 0]
    BY <1>0, <1>1, <1>3 DEF Effect, Void, PutBack
  <2> QED BY <1>0, <1>1, <1>3, <2>1 DEF Goods
<1>4. CASE op = "return"
  <2>1. stock' = [p \in Parts |-> stock[p] + IF p \in Body[k].parts THEN 1 ELSE 0]
    BY <1>0, <1>1, <1>4 DEF Effect, Refund, PutBack
  <2> QED BY <1>0, <1>1, <1>4, <2>1 DEF Goods
<1>5. CASE op \in {"receive", "adjust"}
  <2>1. PICK from \in [Parts -> Int] : from = found[k].stock
    BY <1>1
  <2>2. stock' = [p \in Parts |-> IF p \in Body[k].parts THEN Reckoned(k, from[p]) ELSE stock[p]]
    BY <1>0, <1>1, <1>5, <2>1 DEF Effect, SetStock
  <2>3. \A p \in Parts : Reckoned(k, from[p]) \in Int
    BY DEF Reckoned
  <2> QED BY <1>0, <1>1, <1>5, <2>2, <2>3 DEF Goods
<1>6. CASE op \notin {"sale", "void", "return", "receive", "adjust"}
  <2>1. stock' = stock
    BY <1>0, <1>1, <1>6 DEF Effect, Pay, Entry, Open, Close, Retire, Ops
  <2> QED BY <1>1, <2>1
<1> QED BY <1>2, <1>3, <1>4, <1>5, <1>6

\* The drawer a commit opens, closes or archives, and no other; a number changes when a
\* shift is opened.
LEMMA DrawerWritten ==
  ASSUME LocksInv, NEW k \in Jobs, Commit(k)
  PROVE  /\ drawer' \in [Devices -> [no : Nat, open : BOOLEAN]] /\ retired' \in SUBSET Devices
         /\ \A d \in Devices : drawer'[d] # drawer[d] =>
               d = Body[k].device /\ Body[k].op \in {"open", "close", "retire"}
         /\ \A d \in Devices : drawer'[d].no # drawer[d].no => Body[k].op = "open"
         /\ \A d \in retired' \ retired : d = Body[k].device /\ Body[k].op = "retire"
<1>0. PICK op \in Ops : op = Body[k].op
  BY OneByOneAssumption
<1>1. PICK e \in Devices : e = Body[k].device
  BY OneByOneAssumption
<1>2. /\ Effect(k, found[k].shift, found[k].stock) /\ retired \in SUBSET Devices
      /\ drawer \in [Devices -> [no : Nat, open : BOOLEAN]]
  BY DEF Commit, LocksInv, RowsTyped
<1>3. PICK no \in Nat : no = drawer[e].no
  BY <1>2
<1>4. CASE op = "open"
  <2>1. drawer' = [drawer EXCEPT ![e] = [no |-> no + 1, open |-> TRUE]] /\ retired' = retired
    BY <1>0, <1>1, <1>2, <1>3, <1>4 DEF Effect, Open, SetDrawer
  <2> QED BY <1>0, <1>1, <1>2, <1>4, <2>1
<1>5. CASE op = "close"
  <2>1. drawer' = [drawer EXCEPT ![e] = [no |-> no, open |-> FALSE]] /\ retired' = retired
    BY <1>0, <1>1, <1>2, <1>3, <1>5 DEF Effect, Close, SetDrawer
  <2> QED BY <1>0, <1>1, <1>2, <1>3, <1>5, <2>1
<1>6. CASE op = "retire"
  <2>1. drawer' = [drawer EXCEPT ![e] = [no |-> no, open |-> FALSE]] /\ retired' = retired \cup {e}
    BY <1>0, <1>1, <1>2, <1>3, <1>6 DEF Effect, Retire, SetDrawer
  <2> QED BY <1>0, <1>1, <1>2, <1>3, <1>6, <2>1
<1>7. CASE op \notin {"open", "close", "retire"}
  <2>1. drawer' = drawer /\ retired' = retired
    BY <1>0, <1>2, <1>7 DEF Effect, Sell, Void, Refund, Pay, Entry, SetStock, Ops
  <2> QED BY <1>2, <2>1
<1> QED BY <1>4, <1>5, <1>6, <1>7

\* The document a commit leaves, and the bill it marks.
LEMMA DocWritten ==
  ASSUME LocksInv, NEW k \in Jobs, Commit(k)
  PROVE  /\ doc' \in [Jobs -> Papers \cup {None}] /\ Done(k)'
         /\ doc'[k].shift # None =>
               doc'[k].shift = found[k].shift /\ Body[k].op \notin {"receive", "adjust"}
         /\ \A q \in Jobs \ {k} : doc'[q] # doc[q] =>
               /\ Body[k].op \in {"void", "return"} /\ q = Bill(k)
               /\ Done(q)' /\ doc'[q].shift = doc[q].shift
               /\ Body[k].op = "return" => doc'[q].stands \/ doc'[q].back = Body[q].parts
<1>0. PICK op \in Ops : op = Body[k].op
  BY OneByOneAssumption
<1>1. /\ Effect(k, found[k].shift, found[k].stock) /\ doc \in [Jobs -> Papers \cup {None}]
      /\ found[k].shift \in Shifts \cup {None}
  BY DEF Commit, LocksInv, RowsTyped, RequestsTyped, Finding
<1>2. CASE op \notin {"void", "return"}
  <2>1. PICK s \in Shifts \cup {None} : Write(k, s) /\ (s # None => s = found[k].shift /\ op \notin {"receive", "adjust"})
    <3>1. CASE op \in {"sale", "payment", "entry"}
      <4>1. Write(k, found[k].shift)
        BY <1>0, <1>1, <3>1 DEF Effect, Sell, Pay, Entry
      <4> QED BY <1>1, <3>1, <4>1
    <3>2. CASE op \notin {"sale", "payment", "entry"}
      <4>1. Write(k, None)
        BY <1>0, <1>1, <1>2, <3>2 DEF Effect, Open, Close, Retire, SetStock
      <4> QED BY <4>1
    <3> QED BY <3>1, <3>2
  <2>2. PICK paper : paper = Paper(s)
    OBVIOUS
  <2>3. paper \in Papers /\ paper.shift = s /\ paper # None
    BY <2>2, PaperTyped
  <2>4. doc' = [doc EXCEPT ![k] = paper]
    BY <2>1, <2>2 DEF Write
  <2> QED BY <1>0, <1>1, <2>1, <2>3, <2>4 DEF Done
<1>3. CASE op \in {"void", "return"}
  <2>1. PICK b \in Jobs \ {k} : b = Bill(k) /\ doc[b] \in Papers
    BY <1>0, <1>3, BillAtCommit
  <2>2. PICK s \in Shifts \cup {None} : s = IF op = "void" THEN None ELSE found[k].shift
    BY <1>1
  <2>3. PICK back \in SUBSET Parts : op = "return" => back = doc[b].back \cup Body[k].parts
    BY <2>1, OneByOneAssumption DEF Papers
  <2>4. PICK marked : marked = IF op = "void" THEN [doc[b] EXCEPT !.stands = FALSE]
                               ELSE [doc[b] EXCEPT !.back = back, !.stands = back # Body[b].parts]
    OBVIOUS
  <2>5. /\ marked \in Papers /\ marked.shift = doc[b].shift /\ marked # None
        /\ op = "return" => marked.stands \/ marked.back = Body[b].parts
    <3>1. PICK paper \in Papers : paper = doc[b]
      BY <2>1
    <3>2. marked \in Papers /\ marked.shift = paper.shift
      <4>1. CASE op = "void"
        BY <2>4, <3>1, <4>1 DEF Papers
      <4>2. CASE op # "void"
        <5>1. PICK stands \in BOOLEAN : stands = (back # Body[b].parts)
          OBVIOUS
        <5>2. marked = [paper EXCEPT !.back = back, !.stands = stands]
          BY <2>4, <3>1, <4>2, <5>1
        <5> QED BY <5>2 DEF Papers
      <4> QED BY <4>1, <4>2
    <3>3. op = "return" => marked.stands = (back # Body[b].parts) /\ marked.back = back
      BY <2>4, <3>1 DEF Papers
    <3> QED BY <3>1, <3>2, <3>3, OneByOneAssumption
  <2>6. PICK paper : paper = Paper(s)
    OBVIOUS
  <2>7. paper \in Papers /\ paper.shift = s /\ paper # None
    BY <2>6, PaperTyped
  <2>8. doc' = [doc EXCEPT ![k] = paper, ![b] = marked]
    <3>1. CASE op = "void"
      BY <1>0, <1>1, <2>1, <2>2, <2>4, <2>6, <3>1 DEF Effect, Void
    <3>2. CASE op = "return"
      BY <1>0, <1>1, <2>1, <2>2, <2>3, <2>4, <2>6, <3>2 DEF Effect, Refund
    <3> QED BY <1>3, <3>1, <3>2
  <2>9. /\ doc' \in [Jobs -> Papers \cup {None}]
        /\ doc'[k] = paper /\ doc'[b] = marked /\ \A q \in Jobs \ {k, b} : doc'[q] = doc[q]
    BY <1>1, <2>1, <2>5, <2>7, <2>8
  <2> QED BY <1>0, <1>3, <2>1, <2>2, <2>5, <2>7, <2>9 DEF Done
<1> QED BY <1>2, <1>3

\* No other request has passed a lock the committing one holds.
LEMMA Apart ==
  ASSUME LocksInv, NEW k \in Jobs, Commit(k), NEW j \in Jobs \ {k}, NEW i \in 1..step[j],
         Plan[j][i].kind # "drawer", NEW l \in PlanLocks(k), l.kind = Plan[j][i].kind
  PROVE  l.row # Plan[j][i].row
<1>1. PICK m : m = Plan[j][i]
  OBVIOUS
<1>2. m \in held[j] /\ i \in 1..Len(Plan[j])
  BY <1>1, PlanTyped DEF LocksInv, HeldFromPlan, RequestsTyped
<1>3. m.mode = "update"
  BY <1>1, <1>2, PlanKinds DEF Mode
<1>4. l \in held[k]
  BY AtCommit
<1>5. ~ Conflict(m, l)
  BY <1>2, <1>4 DEF LocksInv, Excluded
<1> QED BY <1>1, <1>3, <1>5 DEF Conflict

\* A shift that another request has locked FOR UPDATE is not the committing one's.
LEMMA OtherShift ==
  ASSUME LocksInv, NEW k \in Jobs, Commit(k), NEW j \in Jobs \ {k}, NEW s,
         Lock("drawer", s, "update") \in held[j]
  PROVE  /\ Body[k].op \notin {"receive", "adjust"} /\ found[k].shift # None => found[k].shift # s
         /\ Writes(Body[k].op) => ItsShift(k) # s
<1>1. ASSUME NEW mode, Lock("drawer", ItsShift(k), mode) \in held[k] PROVE ItsShift(k) # s
  <2>1. ~ Conflict(Lock("drawer", s, "update"), Lock("drawer", ItsShift(k), mode))
    BY <1>1 DEF LocksInv, Excluded
  <2> QED BY <2>1 DEF Conflict, Lock
<1>2. ASSUME Body[k].op \notin {"receive", "adjust"}, found[k].shift # None
      PROVE  found[k].shift # s
  <2>1. Lock("drawer", ItsShift(k), Mode(Body[k].op, "drawer")) \in held[k] /\ found[k].shift = Standing(k)
    BY <1>2, DrawerAtCommit
  <2>2. Standing(k) = ItsShift(k) \/ Standing(k) = None
    BY DEF Standing, ItsShift, OpenShift
  <2> QED BY <1>1, <1>2, <2>1, <2>2
<1>3. ASSUME Writes(Body[k].op) PROVE ItsShift(k) # s
  <2>1. Lock("drawer", ItsShift(k), Mode(Body[k].op, "drawer")) \in held[k]
    BY <1>3, DrawerAtCommit DEF Writes
  <2> QED BY <1>1, <2>1
<1> QED BY <1>2, <1>3

\* The cash of a drawer that is locked FOR UPDATE stays what it was read to be.
LEMMA CashKept ==
  ASSUME LocksInv, NEW k \in Jobs, Commit(k), NEW j \in Jobs \ {k}, NEW s, s # None,
         Lock("drawer", s, "update") \in held[j]
  PROVE  Cash(s)' = Cash(s)
<1> DEFINE Of(op) == {q \in Jobs : Done(q) /\ doc[q].shift = s /\ Body[q].op = op /\ Body[q].how = "cash"}
           Pairs(S) == UNION {{q} \X Body[q].parts : q \in S}
           bills == {b \in Of("sale") : Counted(b)}
<1>1. ~ Done(k) /\ doc'[k].shift # s
  <2>1. doc'[k].shift # None => doc'[k].shift = found[k].shift /\ Body[k].op \notin {"receive", "adjust"}
    BY DocWritten
  <2> QED BY <2>1, AtCommit, OtherShift DEF Done
<1>2. ASSUME NEW q \in Jobs \ {k}
      PROVE  /\ Done(q)' <=> Done(q)
             /\ Done(q) => doc'[q].shift = doc[q].shift
  <2>1. CASE doc'[q] = doc[q]
    BY <2>1 DEF Done
  <2>2. CASE doc'[q] # doc[q]
    <3>1. Body[k].op \in {"void", "return"} /\ q = Bill(k) /\ Done(q)' /\ doc'[q].shift = doc[q].shift
      BY <2>2, DocWritten
    <3>2. Done(q)
      BY <3>1, BillAtCommit DEF BillAllows
    <3> QED BY <3>1, <3>2
  <2> QED BY <2>1, <2>2
<1>3. ASSUME NEW op PROVE Of(op)' = Of(op)
  <2>1. \A q \in Jobs : q \in Of(op)' <=> q \in Of(op)
    <3> SUFFICES ASSUME NEW q \in Jobs PROVE q \in Of(op)' <=> q \in Of(op)
      OBVIOUS
    <3>1. CASE q = k
      BY <1>1, <3>1
    <3>2. CASE q # k
      BY <1>2, <3>2
    <3> QED BY <3>1, <3>2
  <2> QED BY <2>1
<1>4. ASSUME NEW b \in Of("sale"), Body[b].parts # {} PROVE Counted(b)' <=> Counted(b)
  <2>0. b # k
    BY <1>1
  <2>1. CASE doc'[b] = doc[b]
    BY <2>1 DEF Counted
  <2>2. CASE doc'[b] # doc[b]
    <3>1. Body[k].op \in {"void", "return"} /\ b = Bill(k)
          /\ (Body[k].op = "return" => doc'[b].stands \/ doc'[b].back = Body[b].parts)
      BY <2>0, <2>2, DocWritten
    <3>2. Body[k].op # "void"
      <4> SUFFICES ASSUME Body[k].op = "void" PROVE FALSE
        OBVIOUS
      <4>1. found[k].shift # None /\ found[k].shift = doc[b].shift
        BY <3>1, DrawerAtCommit DEF DrawerAllows
      <4>2. found[k].shift # s
        BY <4>1, OtherShift
      <4> QED BY <4>1, <4>2
    <3>3. doc[b].stands
      BY <3>1, BillAtCommit DEF BillAllows
    <3> QED BY <1>4, <3>1, <3>2, <3>3 DEF Counted
  <2> QED BY <2>1, <2>2
<1>5. Pairs(bills') = Pairs(bills)
  <2>1. \A b : Body[b].parts # {} => (b \in bills' <=> b \in bills)
    BY <1>3, <1>4
  <2> HIDE DEF bills
  <2>2. \A x : x \in Pairs(bills') <=> x \in Pairs(bills)
    <3> SUFFICES ASSUME NEW S, NEW T, \A b : Body[b].parts # {} => (b \in S <=> b \in T), NEW x \in Pairs(S)
                 PROVE  x \in Pairs(T)
      BY <2>1
    <3>1. PICK q \in S : x \in {q} \X Body[q].parts
      OBVIOUS
    <3>2. q \in T
      BY <3>1
    <3> QED BY <3>1, <3>2
  <2> QED BY <2>2
<1>6. Cash(s) = Cardinality(Pairs(bills)) + Cardinality(Of("payment"))
                  - Cardinality(Pairs(Of("return"))) - Cardinality(Of("entry"))
  BY DEF Cash
<1>7. Cash(s)' = Cardinality(Pairs(bills')) + Cardinality(Of("payment")')
                  - Cardinality(Pairs(Of("return")')) - Cardinality(Of("entry")')
  BY DEF Cash
<1> HIDE DEF Of, bills, Pairs
<1>8. Of("payment")' = Of("payment") /\ Of("return")' = Of("return") /\ Of("entry")' = Of("entry")
  BY <1>3
<1> QED BY <1>5, <1>6, <1>7, <1>8

\* Who voids has locked the bill before it comes to the drawer.
LEMMA BillFirst ==
  ASSUME LocksInv, NEW j \in Jobs, Body[j].op = "void", Past(j, "drawer")
  PROVE  BillAllows(j)
<1>1. PICK i \in 1..step[j] : Plan[j][i].kind = "drawer"
  BY DEF Past
<1>2. i \in 1..Len(Plan[j])
  BY PlanTyped DEF LocksInv, HeldFromPlan, RequestsTyped
<1>3. PICK b \in 1..Len(Plan[j]) : Plan[j][b].kind = "bill"
  <2>1. Lock("bill", Bill(j), "update") \in PlanLocks(j)
    BY DEF PlanLocks, RowLocksOf
  <2> QED BY <2>1, PlanHas DEF Lock
<1>4. ~ (i < b)
  <2>1. ~ Later(Body[j].op, Plan[j][i], Plan[j][b])
    BY <1>1, <1>3 DEF Later, Place
  <2> QED BY <1>2, <2>1, PlanLater
<1>5. b \in 1..step[j]
  BY <1>2, <1>4, PlanTyped DEF LocksInv, RequestsTyped
<1> QED BY <1>3, <1>5 DEF Past, LocksInv, StillSo, RowRead

\* What the others read under their locks is still so after a commit.
LEMMA DrawerReadStays ==
  ASSUME LocksInv, NEW k \in Jobs, Commit(k), NEW j \in Jobs \ {k}, Alone(k)
  PROVE  DrawerRead(j)'
<1>1. /\ held'[j] = held[j] /\ step'[j] = step[j] /\ found'[j] = found[j]
      /\ \A kind : Past(j, kind)' <=> Past(j, kind)
  BY DEF Alone, Past
<1>2. PICK aimed : aimed = found[j].shift
  OBVIOUS
<1>3. PICK e \in Devices : e = Body[j].device
  BY OneByOneAssumption
<1>4. DrawerRead(j)
  BY DEF LocksInv, StillSo
<1>5. ASSUME Body[j].op \in {"open", "retire"}, aimed # None
      PROVE  Past(j, "device") /\ aimed = ItsShift(j)'
  <2>1. Past(j, "device") /\ aimed = ItsShift(j)
    BY <1>2, <1>4, <1>5 DEF DrawerRead
  <2>2. PICK i \in 1..step[j] : Plan[j][i].kind = "device"
    BY <2>1 DEF Past
  <2>3. i \in 1..Len(Plan[j]) /\ Plan[j][i].row = e
    <3>1. i \in 1..Len(Plan[j])
      BY PlanTyped DEF LocksInv, HeldFromPlan, RequestsTyped
    <3> QED BY <1>3, <2>2, <3>1, PlanKinds
  <2>4. drawer'[e].no = drawer[e].no
    <3> SUFFICES ASSUME drawer'[e].no # drawer[e].no PROVE FALSE
      OBVIOUS
    <3>1. Body[k].op = "open" /\ e = Body[k].device
      BY DrawerWritten
    <3>2. Lock("device", e, "update") \in PlanLocks(k)
      BY <3>1 DEF PlanLocks, RowLocksOf
    <3>3. Lock("device", e, "update").row # e
      BY <2>2, <2>3, <3>2, Apart DEF Lock
    <3> QED BY <3>3 DEF Lock
  <2> QED BY <1>3, <2>1, <2>4 DEF ItsShift, Shift
<1>6. ASSUME Past(j, "drawer"), aimed # None \/ Writes(Body[j].op)
      PROVE  drawer'[e] = drawer[e]
  <2> SUFFICES ASSUME drawer'[e] # drawer[e] PROVE FALSE
    OBVIOUS
  <2>1. Lock("drawer", ItsShift(j), Mode(Body[j].op, "drawer")) \in held[j]
    BY <1>2, <1>4, <1>6 DEF DrawerRead
  <2>2. Body[k].op \in {"open", "close", "retire"} /\ e = Body[k].device
    BY DrawerWritten
  <2>3. ItsShift(k) = ItsShift(j)
    BY <1>3, <2>2 DEF ItsShift
  <2>4. Lock("drawer", ItsShift(j), "update") \in held[k]
    BY <2>2, <2>3, DrawerAtCommit DEF Writes, Mode
  <2>5. ~ Conflict(Lock("drawer", ItsShift(j), Mode(Body[j].op, "drawer")), Lock("drawer", ItsShift(j), "update"))
    BY <2>1, <2>4 DEF LocksInv, Excluded
  <2> QED BY <2>5 DEF Conflict, Lock
<1>7. ASSUME Past(j, "drawer"), aimed # None \/ Writes(Body[j].op)
      PROVE  Standing(j)' = Standing(j) /\ ItsShift(j)' = ItsShift(j)
  BY <1>3, <1>6, <1>7 DEF Standing, ItsShift, OpenShift, Shift
<1>8. ASSUME Past(j, "drawer") PROVE DrawerAllows(j, aimed)'
  <2>1. DrawerAllows(j, aimed)
    BY <1>2, <1>4, <1>8 DEF DrawerRead
  <2>2. CASE Body[j].op = "entry"
    <3>1. aimed # None /\ Cash(aimed) >= 1
      BY <2>1, <2>2 DEF DrawerAllows
    <3>2. Lock("drawer", aimed, "update") \in held[j]
      <4>1. Lock("drawer", ItsShift(j), "update") \in held[j] /\ aimed = Standing(j)
        BY <1>2, <1>4, <1>8, <2>2, <3>1 DEF DrawerRead, Mode, Writes
      <4>2. Standing(j) = ItsShift(j) \/ Standing(j) = None
        BY DEF Standing, ItsShift, OpenShift
      <4> QED BY <3>1, <4>1, <4>2
    <3>3. Cash(aimed)' = Cash(aimed)
      BY <3>1, <3>2, CashKept
    <3> QED BY <2>2, <3>1, <3>3 DEF DrawerAllows
  <2>3. CASE Body[j].op = "void"
    <3>1. aimed # None /\ aimed = doc[Bill(j)].shift
      BY <2>1, <2>3 DEF DrawerAllows
    <3>2. Bill(j) \in Jobs /\ Bill(j) # k
      <4>1. Bill(j) \in Jobs
        BY <2>3, OneByOneAssumption DEF Bill
      <4>2. doc[k] = None /\ doc[Bill(j)] # None
        BY <1>8, <2>3, BillFirst, AtCommit DEF BillAllows, Done
      <4> QED BY <4>1, <4>2
    <3>3. doc'[Bill(j)].shift = doc[Bill(j)].shift
      BY <3>2, DocWritten
    <3>4. Bill(j)' = Bill(j)
      BY DEF Bill
    <3> QED BY <2>3, <3>1, <3>3, <3>4 DEF DrawerAllows
  <2>4. CASE Body[j].op \notin {"entry", "void"}
    BY <2>1, <2>4 DEF DrawerAllows
  <2> QED BY <2>2, <2>3, <2>4
<1> QED BY <1>1, <1>2, <1>4, <1>5, <1>7, <1>8 DEF DrawerRead

LEMMA TabReadStays ==
  ASSUME LocksInv, NEW k \in Jobs, Commit(k), NEW j \in Jobs \ {k}, Alone(k)
  PROVE  TabRead(j)'
<1>1. /\ step'[j] = step[j] /\ found'[j] = found[j]
      /\ \A kind : Past(j, kind)' <=> Past(j, kind)
  BY DEF Alone, Past
<1>2. TabRead(j)
  BY DEF LocksInv, StillSo
<1>3. ASSUME NEW i \in 1..step[j], Plan[j][i].kind = "mechanic" PROVE tab'[Plan[j][i].row] = tab[Plan[j][i].row]
  <2>1. PICK m : m = Plan[j][i].row
    OBVIOUS
  <2>2. i \in 1..Len(Plan[j])
    BY PlanTyped DEF LocksInv, HeldFromPlan, RequestsTyped
  <2>3. m = Debtor(j) /\ m # None /\ Body[j].op \in {"sale", "void", "return", "payment"}
    BY <1>3, <2>1, <2>2, PlanKinds
  <2>4. m \in Mechanics
    BY <2>3, OneByOneAssumption DEF Debtor, Bill
  <2>5. ASSUME tab'[m] # tab[m] PROVE FALSE
    <3>1. m = Debtor(k) /\ Body[k].op \in {"sale", "void", "return", "payment"}
      BY <2>4, <2>5, TabWritten
    <3>2. Lock("mechanic", m, "update") \in PlanLocks(k)
      BY <2>3, <3>1 DEF PlanLocks, MechanicLocks
    <3>3. Lock("mechanic", m, "update").row # m
      BY <1>3, <2>1, <3>2, Apart DEF Lock
    <3> QED BY <3>3 DEF Lock
  <2> QED BY <2>1, <2>5
<1>4. \A owed : TabAllows(j, owed)' <=> TabAllows(j, owed)
  BY DEF TabAllows
<1> QED BY <1>1, <1>2, <1>3, <1>4 DEF TabRead

LEMMA StockReadStays ==
  ASSUME LocksInv, NEW k \in Jobs, Commit(k), NEW j \in Jobs \ {k}, Alone(k)
  PROVE  StockRead(j)'
<1>1. /\ step'[j] = step[j] /\ found'[j] = found[j]
      /\ \A kind : Past(j, kind)' <=> Past(j, kind)
      /\ Left(j)' = Left(j)
  BY DEF Alone, Past, Left
<1>2. StockRead(j)
  BY DEF LocksInv, StillSo
<1>3. ASSUME NEW i \in 1..step[j], Plan[j][i].kind = "product" PROVE stock'[Plan[j][i].row] = stock[Plan[j][i].row]
  <2>1. PICK p : p = Plan[j][i].row
    OBVIOUS
  <2>2. i \in 1..Len(Plan[j])
    BY PlanTyped DEF LocksInv, HeldFromPlan, RequestsTyped
  <2>3. p \in Goods(j)
    BY <1>3, <2>1, <2>2, PlanKinds
  <2>4. p \in Parts
    BY <2>3, OneByOneAssumption DEF Goods, Bill
  <2>5. ASSUME stock'[p] # stock[p] PROVE FALSE
    <3>1. p \in Goods(k) /\ Body[k].op \in {"sale", "void", "return", "receive", "adjust"}
      BY <2>4, <2>5, StockWritten
    <3>2. Lock("product", p, "update") \in PlanLocks(k)
      BY <3>1 DEF PlanLocks, ProductLocks
    <3>3. Lock("product", p, "update").row # p
      BY <1>3, <2>1, <3>2, Apart DEF Lock
    <3> QED BY <3>3 DEF Lock
  <2> QED BY <2>1, <2>5
<1>4. \A on : StockAllows(j, on)' <=> StockAllows(j, on)
  BY DEF StockAllows
<1> QED BY <1>1, <1>2, <1>3, <1>4 DEF StockRead

LEMMA RowReadStays ==
  ASSUME LocksInv, NEW k \in Jobs, Commit(k), NEW j \in Jobs \ {k}, Alone(k)
  PROVE  RowRead(j)'
<1>1. \A kind : Past(j, kind)' <=> Past(j, kind)
  BY DEF Alone, Past
<1>2. RowRead(j)
  BY DEF LocksInv, StillSo
\* The rows of the locks it has passed.
<1>3. ASSUME NEW kind \in {"bill", "device", "order"}, Past(j, kind), NEW row,
             Lock(kind, row, "update") \in PlanLocks(k)
      PROVE  row # IF kind = "device" THEN Body[j].device ELSE Bill(j)
  <2>1. PICK i \in 1..step[j] : Plan[j][i].kind = kind
    BY <1>3 DEF Past
  <2>2. i \in 1..Len(Plan[j])
    BY PlanTyped DEF LocksInv, HeldFromPlan, RequestsTyped
  <2>3. Plan[j][i].row = IF kind = "device" THEN Body[j].device ELSE Bill(j)
    BY <2>1, <2>2, PlanKinds
  <2>4. Lock(kind, row, "update").row # Plan[j][i].row
    BY <1>3, <2>1, Apart DEF Lock
  <2> QED BY <2>3, <2>4 DEF Lock
<1>4. ASSUME Past(j, "bill") PROVE BillAllows(j)'
  <2>1. BillAllows(j)
    BY <1>2, <1>4 DEF RowRead
  <2>2. Bill(j) \in Jobs /\ Bill(j) # k
    <3>1. PICK i \in 1..step[j] : Plan[j][i].kind = "bill"
      BY <1>4 DEF Past
    <3>2. i \in 1..Len(Plan[j])
      BY PlanTyped DEF LocksInv, HeldFromPlan, RequestsTyped
    <3>3. Body[j].op \in {"void", "return"}
      BY <3>1, <3>2, PlanKinds
    <3>4. doc[k] = None /\ doc[Bill(j)] # None
      BY <2>1, AtCommit DEF BillAllows, Done
    <3> QED BY <3>3, <3>4, OneByOneAssumption DEF Bill
  <2>3. doc'[Bill(j)] = doc[Bill(j)]
    <3> SUFFICES ASSUME doc'[Bill(j)] # doc[Bill(j)] PROVE FALSE
      OBVIOUS
    <3>1. Body[k].op \in {"void", "return"} /\ Bill(j) = Bill(k)
      BY <2>2, DocWritten
    <3>2. Lock("bill", Bill(j), "update") \in PlanLocks(k)
      BY <3>1 DEF PlanLocks, RowLocksOf
    <3> QED BY <1>3, <1>4, <3>2
  <2>4. Bill(j)' = Bill(j)
    BY DEF Bill
  <2> QED BY <2>1, <2>3, <2>4 DEF BillAllows, Done
<1>5. ASSUME Past(j, "device") PROVE Body[j].device \notin retired'
  <2> SUFFICES ASSUME Body[j].device \in retired' PROVE FALSE
    OBVIOUS
  <2>1. Body[k].device = Body[j].device /\ Body[k].op = "retire"
    BY <1>2, <1>5, DrawerWritten DEF RowRead
  <2>2. Lock("device", Body[j].device, "update") \in PlanLocks(k)
    BY <2>1 DEF PlanLocks, RowLocksOf
  <2> QED BY <1>3, <1>5, <2>2
<1>6. ASSUME Past(j, "order") PROVE ~ Received(Bill(j))'
  <2> SUFFICES ASSUME NEW q \in Jobs, Body[q].op = "receive", Done(q)', Bill(q) = Bill(j) PROVE FALSE
    BY DEF Received, Bill
  <2>1. ~ Done(q)
    BY <1>2, <1>6 DEF RowRead, Received
  <2>2. q = k
    <3> SUFFICES ASSUME q # k PROVE FALSE
      OBVIOUS
    <3>1. doc'[q] # doc[q]
      BY <2>1 DEF Done
    <3>2. Body[k].op \in {"void", "return"} /\ q = Bill(k)
      BY <3>1, DocWritten
    <3> QED BY <3>2, BillAtCommit
  <2>3. Lock("order", Bill(j), "update") \in PlanLocks(k)
    BY <2>2 DEF PlanLocks, RowLocksOf
  <2> QED BY <1>3, <1>6, <2>3
<1>7. Bill(j)' = Bill(j)
  BY DEF Bill
<1> QED BY <1>1, <1>4, <1>5, <1>6, <1>7 DEF RowRead

LEMMA CommitKeeps ==
  ASSUME LocksInv, NEW k \in Jobs, Commit(k)
  PROVE  LocksInv'
<1>1. End(k)
  BY DEF Commit
<1>2. /\ RequestsTyped' /\ Alone(k) /\ Excluded'
      /\ AtRest(k)' /\ HeldFromPlan(k)' /\ StillSo(k)'
  BY <1>1, EndFrees
<1>3. RowsTyped'
  BY DocWritten, TabWritten, StockWritten, DrawerWritten DEF RowsTyped
<1>4. ASSUME NEW j \in Jobs \ {k} PROVE AtRest(j)' /\ HeldFromPlan(j)' /\ StillSo(j)'
  <2>1. state'[j] = state[j] /\ held'[j] = held[j] /\ step'[j] = step[j] /\ found'[j] = found[j]
    BY <1>2 DEF Alone
  <2>2. AtRest(j) /\ HeldFromPlan(j)
    BY DEF LocksInv
  <2>3. AtRest(j)'
    <3>1. doc'[j] = doc[j] \/ state[j] = "ended"
      <4> SUFFICES ASSUME doc'[j] # doc[j] PROVE state[j] = "ended"
        OBVIOUS
      <4>1. Body[k].op \in {"void", "return"} /\ j = Bill(k)
        BY DocWritten
      <4> QED BY <4>1, BillAtCommit
    <3> QED BY <2>1, <2>2, <3>1 DEF AtRest
  <2>4. HeldFromPlan(j)'
    BY <2>1, <2>2 DEF HeldFromPlan
  <2> QED BY <1>2, <2>3, <2>4, DrawerReadStays, TabReadStays, StockReadStays, RowReadStays DEF StillSo
<1> QED BY <1>2, <1>3, <1>4 DEF LocksInv

LEMMA NextKeeps == LocksInv /\ [RowLocksNext]_lockVars => LocksInv'
<1> SUFFICES ASSUME LocksInv, [RowLocksNext]_lockVars PROVE LocksInv'
  OBVIOUS
<1>1. ASSUME NEW j \in Jobs, Begin(j) PROVE LocksInv'
  BY <1>1, BeginKeeps
<1>2. ASSUME NEW j \in Jobs, Wait(j) PROVE LocksInv'
  BY <1>2, WaitKeeps
<1>3. ASSUME NEW j \in Jobs, Take(j) PROVE LocksInv'
  BY <1>3, TakeKeeps
<1>4. ASSUME NEW j \in Jobs, Refuse(j) PROVE LocksInv'
  BY <1>4, EndKeeps DEF Refuse
<1>5. ASSUME NEW j \in Jobs, Commit(j) PROVE LocksInv'
  BY <1>5, CommitKeeps
<1>6. ASSUME NEW j \in Jobs, RollBack(j) PROVE LocksInv'
  BY <1>6, EndKeeps DEF RollBack
<1>7. CASE UNCHANGED lockVars
  <2>1. UNCHANGED shopVars /\ UNCHANGED <<state, held, step, found>>
    BY <1>7 DEF lockVars, shopVars
  <2>2. RequestsTyped' /\ Excluded'
    BY <2>1 DEF LocksInv, RequestsTyped, Excluded
  <2>3. RowsTyped'
    BY <2>1 DEF LocksInv, RowsTyped, shopVars
  <2>4. ASSUME NEW j \in Jobs PROVE AtRest(j)' /\ HeldFromPlan(j)' /\ StillSo(j)'
    <3>1. AtRest(j)' /\ HeldFromPlan(j)'
      BY <2>1 DEF LocksInv, AtRest, HeldFromPlan, shopVars
    <3>2. StillSo(j) /\ \A kind : Past(j, kind)' <=> Past(j, kind)
      BY <2>1 DEF LocksInv, Past
    <3>3. DrawerRead(j)'
      BY <2>1, <3>2, RowsStay DEF StillSo, DrawerRead
    <3>4. TabRead(j)'
      BY <2>1, <3>2, RowsStay DEF StillSo, TabRead, shopVars
    <3>5. StockRead(j)'
      BY <2>1, <3>2, RowsStay DEF StillSo, StockRead, shopVars, Left
    <3>6. RowRead(j)'
      BY <2>1, <3>2, RowsStay DEF StillSo, RowRead, shopVars
    <3> QED BY <3>1, <3>3, <3>4, <3>5, <3>6 DEF StillSo
  <2> QED BY <2>2, <2>3, <2>4 DEF LocksInv
<1> QED BY <1>1, <1>2, <1>3, <1>4, <1>5, <1>6, <1>7 DEF RowLocksNext

\* The requests of a shop never wait for one another in a circle, however many run and
\* wherever they have got to: the lock order of the services.
THEOREM NobodyWaitsInACircle == RowLocksSpec => []NoDeadlock
<1>1. RowLocksInit => LocksInv
  BY InitLocks
<1>2. LocksInv /\ [RowLocksNext]_lockVars => LocksInv'
  BY NextKeeps
<1>3. LocksInv => NoDeadlock
  BY NoCircle
<1> QED BY <1>1, <1>2, <1>3, PTL DEF RowLocksSpec

-----------------------------------------------------------------------------
(* One after another *)

\* What a request found makes no difference to what it writes, but for the shift it
\* stamps and the figures it reckons from.
LEMMA SameEffect ==
  ASSUME NEW j \in Jobs, NEW s, NEW t, NEW from, NEW on, Effect(j, s, from),
         Body[j].op \in {"open", "close", "retire", "receive", "adjust", "void"} \/ s = t,
         Body[j].op \in {"receive", "adjust"} => \A p \in Body[j].parts : from[p] = on[p]
  PROVE  Effect(j, t, on)
<1>1. CASE Body[j].op \in {"sale", "return", "payment", "entry"}
  BY <1>1 DEF Effect
<1>2. CASE Body[j].op \in {"open", "close", "retire", "void"}
  BY <1>2 DEF Effect
<1>3. CASE Body[j].op \in {"receive", "adjust"}
  <2>1. SetStock(j, from)
    BY <1>3 DEF Effect
  <2>2. SetStock(j, on)
    BY <1>3, <2>1 DEF SetStock
  <2> QED BY <1>3, <2>2 DEF Effect
<1> QED BY <1>1, <1>2, <1>3, OneByOneAssumption DEF Ops

\* A commit does what the request would have done alone, on the rows as they are then.
LEMMA CommitAtOnce ==
  ASSUME LocksInv, NEW j \in Jobs, Commit(j)
  PROVE  DoAtOnce(j)
<1>1. PICK op \in Ops : op = Body[j].op
  BY OneByOneAssumption
<1>2. ~ Done(j) /\ Done(j)'
  BY AtCommit, DocWritten DEF Done
<1>3. ASSUME op \in {"open", "retire"} PROVE Body[j].device \notin retired
  <2>1. Lock("device", Body[j].device, "update") \in PlanLocks(j)
    BY <1>1, <1>3 DEF PlanLocks, RowLocksOf
  <2>2. Past(j, "device")
    BY <2>1, AtCommit DEF Lock
  <2> QED BY <2>2 DEF LocksInv, StillSo, RowRead
<1>4. ASSUME op = "receive" PROVE ~ Received(Bill(j))
  <2>1. Lock("order", Bill(j), "update") \in PlanLocks(j)
    BY <1>1, <1>4 DEF PlanLocks, RowLocksOf
  <2>2. Past(j, "order")
    BY <2>1, AtCommit DEF Lock
  <2> QED BY <2>2 DEF LocksInv, StillSo, RowRead
<1>5. op \in {"void", "return"} => BillAllows(j)
  BY <1>1, BillAtCommit
<1>6. Body[j].mechanic # None => TabAllows(j, tab[Body[j].mechanic])
  <2>1. CASE op \in {"sale", "payment"}
    BY <1>1, <2>1, AtCommit
  <2>2. CASE op \notin {"sale", "payment"}
    BY <1>1, <2>2 DEF TabAllows
  <2> QED BY <2>1, <2>2
<1>7. StockAllows(j, stock)
  BY AtCommit
<1>8. PICK s : s = found[j].shift
  OBVIOUS
<1>9. PICK from : from = found[j].stock
  OBVIOUS
<1>10. Effect(j, s, from)
  BY <1>8, <1>9 DEF Commit
<1>11. \A p \in Body[j].parts : op \in {"receive", "adjust"} => from[p] = stock[p]
  BY <1>1, <1>9, AtCommit DEF Goods
<1>12. op \notin {"receive", "adjust"} => DrawerAllows(j, s) /\ (s # None => s = Standing(j))
  BY <1>1, <1>8, DrawerAtCommit
<1>13. PICK shift \in {OpenShift(Body[j].device)}
                        \cup (IF op = "return" /\ Body[j].how # "cash" THEN {None} ELSE {}) :
          /\ op \notin {"receive", "adjust"} => DrawerAllows(j, shift)
          /\ op \in {"open", "close", "retire", "receive", "adjust", "void"} \/ shift = s
  <2>1. CASE op \in {"receive", "adjust"}
    BY <2>1
  <2>2. CASE op \in {"open", "retire"}
    BY <1>1, <2>2 DEF DrawerAllows
  <2>3. CASE op = "return"
    <3>1. CASE s = None
      BY <1>1, <1>12, <2>3, <3>1 DEF DrawerAllows
    <3>2. CASE s # None
      BY <1>1, <1>12, <2>3, <3>2 DEF DrawerAllows, Standing
    <3> QED BY <3>1, <3>2
  <2>4. CASE op \in {"sale", "void", "payment", "entry", "close"}
    <3>1. s # None
      BY <1>1, <1>12, <2>4 DEF DrawerAllows
    <3> QED BY <1>1, <1>12, <2>4, <3>1 DEF Standing
  <2> QED BY <2>1, <2>2, <2>3, <2>4 DEF Ops
<1>14. Effect(j, shift, stock)
  BY <1>1, <1>10, <1>11, <1>13, SameEffect
<1> QED BY <1>1, <1>2, <1>3, <1>4, <1>5, <1>6, <1>7, <1>13, <1>14 DEF DoAtOnce

\* Every step is one request done at once, or changes no row anybody else sees.
LEMMA StepIsAtOnce == LocksInv /\ [RowLocksNext]_lockVars => [OneByOneNext]_shopVars
<1> SUFFICES ASSUME LocksInv, [RowLocksNext]_lockVars, ~ UNCHANGED shopVars PROVE OneByOneNext
  OBVIOUS
<1>1. PICK j \in Jobs : Begin(j) \/ Wait(j) \/ Take(j) \/ Refuse(j) \/ Commit(j) \/ RollBack(j)
  BY DEF RowLocksNext, lockVars, shopVars
<1>2. Commit(j)
  BY <1>1 DEF Begin, Wait, Take, Refuse, RollBack
<1> QED BY <1>2, CommitAtOnce DEF OneByOneNext

\* The requests of a shop that overlap, each refused by what it read under its row locks,
\* leave what they would have left one after another: READ COMMITTED with the lock order
\* of the services is as good as a queue.
THEOREM OverlapIsAsOneByOne == RowLocksSpec => ImplementsOneByOne
<1>1. RowLocksInit => LocksInv /\ OneByOneInit
  BY InitLocks DEF RowLocksInit
<1>2. LocksInv /\ [RowLocksNext]_lockVars => LocksInv'
  BY NextKeeps
<1>3. LocksInv /\ [RowLocksNext]_lockVars => [OneByOneNext]_shopVars
  BY StepIsAtOnce
<1> QED BY <1>1, <1>2, <1>3, PTL DEF RowLocksSpec, ImplementsOneByOne, OneByOneSpec
=============================================================================
