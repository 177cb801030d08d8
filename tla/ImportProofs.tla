---------------------------- MODULE ImportProofs ----------------------------
(***************************************************************************)
(* Restoring a shop from a file, for any shops and files, any numbers of   *)
(* jobs, workers, attempts, stalls and lost workers, and whatever the shop *)
(* sells meanwhile.                                                        *)
(***************************************************************************)
EXTENDS Import, FiniteSetTheorems, WellFoundedInduction, TLAPS

-----------------------------------------------------------------------------
(* The invariant *)

\* The shop's tables are the schema's, its counters are numbers, and what an import may
\* leave as it is (accounts, settings, review items) is as the schema wants it.
ShopTyped ==
    /\ DOMAIN shop = Tables /\ Tabled(shop)
    /\ IdsDiffer(shop["payment_accounts"]) /\ IdsDiffer(shop["owner_review_items"])
    /\ Cardinality({a \in Live(shop["payment_accounts"]) : a.default}) <= 1
    /\ counters \in [Numbered -> [Devices -> Nat]]

\* Every file anyone may hand in has rows of the tables' columns.
FilesTyped ==
    /\ Tabled(file.data)
    /\ \A f \in backups : Tabled(f.data)
    /\ export # None => Tabled(export.read)
    /\ \A j \in Jobs : Tabled(jobs[j].payload.data)

JobsTyped ==
    /\ DOMAIN jobs = Jobs
    /\ \A j \in Jobs : jobs[j] = [status |-> jobs[j].status, payload |-> jobs[j].payload,
                                  replace |-> jobs[j].replace, old |-> jobs[j].old]
    /\ DOMAIN queue = Jobs
    /\ \A j \in Jobs : DOMAIN queue[j] = {"state", "made", "stalls", "by"}
    /\ DOMAIN copies = Jobs
    /\ applied \in [Jobs -> Nat]

WorkTyped ==
    /\ DOMAIN work = Workers
    /\ \A w \in Workers : /\ DOMAIN work[w] = {"job", "stage", "file", "seen"}
                          /\ work[w].stage = "idle" => work[w] = NoWork

\* A job no one has asked for is in no queue; the queue hands a job to one worker.
OneWorker ==
    /\ \A j \in Jobs : jobs[j].status = "none" => queue[j].state = "none" /\ applied[j] = 0
    /\ \A w \in Workers : work[w].stage # "idle" =>
         /\ work[w].job \in Jobs
         /\ queue[work[w].job].state = "active" /\ queue[work[w].job].by = w

\* What was written has no payload to write again, and nobody is about to.
WrittenOnce ==
    /\ \A j \in Jobs : /\ applied[j] <= 1
                       /\ applied[j] = 1 => jobs[j].payload = EmptyFile
                       /\ jobs[j].status = "succeeded" => applied[j] = 1
    /\ \A w \in Workers : work[w].stage \in {"checked", "writing"} => applied[work[w].job] = 0

\* A worker that is past the checks has an accepted file.
AcceptedOnly ==
    \A w \in Workers : work[w].stage \in {"checked", "writing"} =>
        ~ Refused(work[w].file) /\ Tabled(work[w].file.data)

\* What was deleted is in the copy of the job that deleted it, which is done, but for the
\* tables no copy has and the accounts an import into an empty shop replaces.
KeptOf(d) ==
    /\ d.job \in Jobs /\ applied[d.job] = 1
    /\ IF jobs[d.job].replace
       THEN d.table \in NeverCopied \/ d.id \in Ids(copies[d.job].data[d.table])
       ELSE d.table = "payment_accounts"

\* A worker about to delete has copied what it sees.
Copied ==
    /\ \A w \in Workers : work[w].stage = "writing" /\ jobs[work[w].job].replace =>
         Tabled(work[w].seen) /\ copies[work[w].job] = BuildTenantSnapshot(work[w].seen)
    /\ \A d \in deleted : KeptOf(d)

ImportInv ==
    /\ ShopTyped /\ FilesTyped /\ JobsTyped /\ WorkTyped
    /\ OneWorker /\ WrittenOnce /\ AcceptedOnly /\ Copied
    /\ AcceptedFits /\ CountersCover

-----------------------------------------------------------------------------
(* Sets of rows *)

\* The values of a function on a finite set are finitely many.
LEMMA FiniteImage ==
  ASSUME NEW S, IsFiniteSet(S), NEW g
  PROVE  IsFiniteSet({g[x] : x \in S})
<1> DEFINE T == {g[x] : x \in S}
           h == [x \in S |-> g[x]]
<1>1. h \in Surjection(S, T)
  BY DEF Surjection
<1> HIDE DEF h, T
<1>2. IsFiniteSet(T)
  BY <1>1, FS_Surjection
<1> QED BY <1>2 DEF T

\* A set of numbers that holds zero and every successor holds every natural.
LEMMA Upward ==
  ASSUME NEW P, 0 \in P, \A n \in Nat : n \in P => n + 1 \in P
  PROVE  Nat \subseteq P
<1> DEFINE T == {n \in Nat : n \notin P}
<1> SUFFICES ASSUME T # {} PROVE FALSE
  OBVIOUS
<1>1. PICK x \in T : \A y \in T : ~ (<<y, x>> \in OpToRel(<, Nat))
  <2>1. T \subseteq Nat
    OBVIOUS
  <2> HIDE DEF T
  <2> QED BY <2>1, NatLessThanWellFounded, WFMin, Zenon
<1>2. x \in Nat /\ x # 0 /\ x - 1 \in Nat /\ x - 1 < x
  OBVIOUS
<1>3. x - 1 \notin T
  BY <1>1, <1>2 DEF OpToRel
<1>4. (x - 1) + 1 \in P
  BY <1>2, <1>3
<1> QED BY <1>4, <1>2

\* A finite set of numbers has a largest.
LEMMA Largest ==
  ASSUME NEW S, IsFiniteSet(S), S \subseteq Int, S # {}
  PROVE  \E m \in S : \A x \in S : x <= m
<1> DEFINE P == {n \in Nat : \A T : IsFiniteSet(T) /\ T \subseteq Int /\ T # {} /\ Cardinality(T) = n
                               => \E m \in T : \A x \in T : x <= m}
<1>1. 0 \in P
  BY FS_EmptySet
<1>2. ASSUME NEW n \in Nat, n \in P PROVE n + 1 \in P
  <2> SUFFICES ASSUME NEW T, IsFiniteSet(T), T \subseteq Int, T # {}, Cardinality(T) = n + 1
               PROVE  \E m \in T : \A x \in T : x <= m
    OBVIOUS
  <2>1. PICK t \in T : TRUE
    OBVIOUS
  <2>2. IsFiniteSet(T \ {t}) /\ Cardinality(T \ {t}) = n
    <3>1. IsFiniteSet(T \ {t}) /\ Cardinality(T \ {t}) = Cardinality(T) - 1
      BY FS_RemoveElement, <2>1
    <3> QED BY <3>1
  <2>3. CASE T \ {t} = {}
    BY <2>1, <2>3
  <2>4. CASE T \ {t} # {}
    <3>1. PICK m \in T \ {t} : \A x \in T \ {t} : x <= m
      BY <1>2, <2>2, <2>4
    <3>2. m \in Int /\ t \in Int
      BY <2>1
    <3>3. CASE t <= m
      BY <3>1, <3>3
    <3>4. CASE ~ (t <= m)
      <4>1. \A x \in T : x <= t
        BY <3>1, <3>2, <3>4
      <4> QED BY <4>1, <2>1
    <3> QED BY <3>3, <3>4
  <2> QED BY <2>3, <2>4
<1>3. Nat \subseteq P
  <2> HIDE DEF P
  <2> QED BY <1>1, <1>2, Upward
<1> QED BY <1>3, FS_CardinalityType

\* Max of finitely many naturals is one of them and above them all.
LEMMA MaxOf ==
  ASSUME NEW S, IsFiniteSet(S), S \subseteq Nat, S # {}
  PROVE  Max(S) \in S /\ \A x \in S : x <= Max(S)
<1>1. PICK m \in S : \A x \in S : x <= m
  <2>1. S \subseteq Int
    OBVIOUS
  <2> QED BY <2>1, Largest
<1>2. m \in S /\ \A y \in S : m >= y
  BY <1>1
<1>3. Max(S) \in S /\ \A y \in S : Max(S) >= y
  BY <1>2 DEF Max
<1> QED BY <1>3

\* The row of an id that some row has is a row of that id.
LEMMA NamedIs ==
  ASSUME NEW rows, NEW id \in Ids(rows)
  PROVE  Named(rows, id) \in rows /\ Named(rows, id).id = id
<1>1. \E r \in rows : r.id = id
  BY DEF Ids
<1> QED BY <1>1 DEF Named

\* What an INSERT with ON CONFLICT DO NOTHING leaves was there, or is one of its rows.
LEMMA InsertIn ==
  ASSUME NEW base, NEW rows
  PROVE  Insert(base, rows) \subseteq base \cup rows
<1> SUFFICES ASSUME NEW id \in Ids(rows) PROVE Named(rows, id) \in rows
  BY DEF Insert
<1> QED BY NamedIs

\* Into an empty table it writes every id once.
LEMMA InsertAll ==
  ASSUME NEW rows
  PROVE  /\ Insert({}, rows) \subseteq rows
         /\ Ids(Insert({}, rows)) = Ids(rows)
         /\ IdsDiffer(Insert({}, rows))
<1> DEFINE S == Insert({}, rows)
<1>1. S = {Named(rows, id) : id \in Ids(rows)}
  BY DEF Insert, Ids
<1>2. \A id \in Ids(rows) : Named(rows, id) \in rows /\ Named(rows, id).id = id
  BY NamedIs
<1>3. S \subseteq rows
  BY <1>1, <1>2
<1>4. \A id \in Ids(rows) : id \in Ids(S)
  BY <1>1, <1>2 DEF Ids
<1>5. IdsDiffer(S)
  BY <1>1, <1>2 DEF IdsDiffer
<1>6. Ids(S) \subseteq Ids(rows)
  BY <1>3 DEF Ids
<1> QED BY <1>3, <1>4, <1>5, <1>6

\* Rows changed in anything but their id keep the table's ids.
LEMMA SameIds ==
  ASSUME NEW S, NEW g, \A x \in S : g[x].id = x.id, NEW T,
         \A x \in S : g[x] \in T, \A r \in T : \E x \in S : r = g[x]
  PROVE  Ids(T) = Ids(S)
<1>1. ASSUME NEW i \in Ids(T) PROVE i \in Ids(S)
  <2>1. PICK r \in T : i = r.id
    BY DEF Ids
  <2>2. PICK x \in S : r = g[x]
    OBVIOUS
  <2>3. i = x.id
    BY <2>1, <2>2
  <2> QED BY <2>3 DEF Ids
<1>2. ASSUME NEW i \in Ids(S) PROVE i \in Ids(T)
  <2>1. PICK x \in S : i = x.id
    BY DEF Ids
  <2>2. g[x] \in T /\ i = g[x].id
    BY <2>1
  <2> QED BY <2>2 DEF Ids
<1> QED BY <1>1, <1>2

-----------------------------------------------------------------------------
(* Tables *)

LEMMA TableNames ==
  /\ Tables = {"sales", "returns", "purchase_orders", "quotes", "credit_payments", "shifts",
               "customers", "mechanics", "movements", "parked_sales", "suppliers", "products",
               "categories", "owner_review_items", "payment_accounts", "settings"}
  /\ Numbered = {"sales", "returns", "purchase_orders", "quotes", "credit_payments"}
  /\ People = {"customers", "mechanics"}
BY DEF Tables, Replaced, Carried, NeverCopied, Transactions, Numbered, People

\* An export loses no row, and its rows have the tables' columns.
LEMMA SectionOf ==
  ASSUME NEW d, Tabled(d), NEW t \in Tables
  PROVE  /\ t \notin NeverCopied => Ids(Section(d, t)) = Ids(d[t])
         /\ \A r \in Section(d, t) : r = [c \in Columns(t) |-> r[c]]
         /\ t \in Numbered \cup {"payment_accounts"} => IsFiniteSet(Section(d, t))
         /\ t \in Numbered => \A r \in Section(d, t) : r.no[1] \in Devices => r.no[2] \in Nat
         /\ t = "settings" => IdsDiffer(Section(d, t))
<1>1. CASE t = "products"
  <2>1. Section(d, t) = {[p EXCEPT !.live = TRUE] : p \in d[t]}
    BY <1>1 DEF Section, NeverCopied, ProductSection, People
  <2>2. Columns(t) = {"id", "part", "category", "live", "stock"}
    BY <1>1 DEF Columns, People
  <2>3. \A p \in d[t] : p = [c \in Columns(t) |-> p[c]]
    BY DEF Tabled
  <2> DEFINE g == [p \in d[t] |-> [p EXCEPT !.live = TRUE]]
  <2>4. \A p \in d[t] : g[p].id = p.id /\ g[p] = [c \in Columns(t) |-> g[p][c]]
    BY <2>2, <2>3
  <2>6. Section(d, t) = {g[p] : p \in d[t]}
    BY <2>1
  <2> HIDE DEF g
  <2>5. t \notin Numbered \cup {"payment_accounts", "settings"}
    BY <1>1 DEF Numbered
  <2>9. (\A p \in d[t] : g[p] \in Section(d, t)) /\ (\A r \in Section(d, t) : \E p \in d[t] : r = g[p])
    BY <2>6
  <2>10. Ids(Section(d, t)) = Ids(d[t])
    <3>1. \A x \in d[t] : g[x].id = x.id
      BY <2>4
    <3> QED BY <2>9, <3>1, SameIds
  <2>11. \A r \in Section(d, t) : r = [c \in Columns(t) |-> r[c]]
    BY <2>9, <2>4
  <2> QED BY <2>6, <2>4, <2>5, <2>9, <2>10, <2>11
<1>2. CASE t = "quotes"
  <2>1. Section(d, t) = {[q EXCEPT !.sale = None] : q \in d[t]}
    BY <1>2 DEF Section, NeverCopied, QuoteSection, People
  <2>2. Columns(t) = {"id", "no", "sale"}
    BY <1>2 DEF Columns, People
  <2>3. \A q \in d[t] : q = [c \in Columns(t) |-> q[c]]
    BY DEF Tabled
  <2> DEFINE g == [q \in d[t] |-> [q EXCEPT !.sale = None]]
  <2>4. \A q \in d[t] : g[q].id = q.id /\ g[q].no = q.no /\ g[q] = [c \in Columns(t) |-> g[q][c]]
    BY <2>2, <2>3
  <2>5. t \in Numbered /\ t # "settings"
    BY <1>2 DEF Numbered
  <2>6. IsFiniteSet(d[t]) /\ \A q \in d[t] : q.no[1] \in Devices => q.no[2] \in Nat
    BY <2>5 DEF Tabled
  <2>7. Section(d, t) = {g[q] : q \in d[t]}
    BY <2>1
  <2> HIDE DEF g
  <2>8. IsFiniteSet(Section(d, t))
    BY <2>7, <2>6, FiniteImage
  <2>9. (\A q \in d[t] : g[q] \in Section(d, t)) /\ (\A r \in Section(d, t) : \E q \in d[t] : r = g[q])
    BY <2>7
  <2>10. Ids(Section(d, t)) = Ids(d[t])
    <3>1. \A x \in d[t] : g[x].id = x.id
      BY <2>4
    <3> QED BY <2>9, <3>1, SameIds
  <2>11. \A r \in Section(d, t) : r = [c \in Columns(t) |-> r[c]]
    BY <2>9, <2>4
  <2>12. \A r \in Section(d, t) : r.no[1] \in Devices => r.no[2] \in Nat
    <3> SUFFICES ASSUME NEW r \in Section(d, t) PROVE r.no[1] \in Devices => r.no[2] \in Nat
      OBVIOUS
    <3>1. PICK q \in d[t] : r = g[q]
      BY <2>9
    <3>2. r.no = q.no
      BY <3>1, <2>4
    <3> QED BY <3>2, <2>6
  <2> QED BY <2>5, <2>8, <2>10, <2>11, <2>12
<1>3. CASE t = "movements"
  <2>1. Section(d, t) = {[m EXCEPT !.ref = None] : m \in d[t]}
    BY <1>3 DEF Section, NeverCopied, MovementSection, People
  <2>2. Columns(t) = {"id", "product", "named", "ref"}
    BY <1>3 DEF Columns, People
  <2>3. \A m \in d[t] : m = [c \in Columns(t) |-> m[c]]
    BY DEF Tabled
  <2> DEFINE g == [m \in d[t] |-> [m EXCEPT !.ref = None]]
  <2>4. \A m \in d[t] : g[m].id = m.id /\ g[m] = [c \in Columns(t) |-> g[m][c]]
    BY <2>2, <2>3
  <2>6. Section(d, t) = {g[m] : m \in d[t]}
    BY <2>1
  <2> HIDE DEF g
  <2>5. t \notin Numbered \cup {"payment_accounts", "settings"}
    BY <1>3 DEF Numbered
  <2>9. (\A m \in d[t] : g[m] \in Section(d, t)) /\ (\A r \in Section(d, t) : \E m \in d[t] : r = g[m])
    BY <2>6
  <2>10. Ids(Section(d, t)) = Ids(d[t])
    <3>1. \A x \in d[t] : g[x].id = x.id
      BY <2>4
    <3> QED BY <2>9, <3>1, SameIds
  <2>11. \A r \in Section(d, t) : r = [c \in Columns(t) |-> r[c]]
    BY <2>9, <2>4
  <2> QED BY <2>5, <2>10, <2>11
<1>4. CASE t \in NeverCopied
  <2>1. Section(d, t) = {} /\ t \notin Numbered \cup {"payment_accounts", "settings"}
    BY <1>4 DEF Section, NeverCopied, People, Numbered
  <2> QED BY <1>4, <2>1 DEF IdsDiffer
<1>5. CASE t \notin {"products", "quotes", "movements"} \cup NeverCopied
  <2>1. Section(d, t) = d[t]
    BY <1>5 DEF Section, NeverCopied, PeopleSection, SaleSection, ReturnSection, PaymentSection, ShiftSection
  <2> QED BY <2>1 DEF Tabled
<1> QED BY <1>1, <1>2, <1>3, <1>4, <1>5

\* What an export reads, section by section, stays a file of such rows.
LEMMA ReadTabled ==
  ASSUME NEW d, Tabled(d), NEW read, Tabled(read), NEW S,
         NEW e, e = [t \in Tables |-> IF t \in S THEN Section(d, t) ELSE read[t]]
  PROVE  Tabled(e)
<1>1. \A t \in Tables : e[t] = Section(d, t) \/ e[t] = read[t]
  OBVIOUS
<1>2. "settings" \in Tables /\ "payment_accounts" \in Tables /\ Numbered \subseteq Tables
  BY DEF Tables, Replaced, Carried, NeverCopied, Transactions, Numbered, People
<1>3. \A t \in Tables : \A r \in e[t] : r = [c \in Columns(t) |-> r[c]]
  <2> TAKE t \in Tables
  <2> QED BY <1>1, SectionOf DEF Tabled
<1>4. \A t \in Numbered \cup {"payment_accounts"} : IsFiniteSet(e[t])
  <2> TAKE t \in Numbered \cup {"payment_accounts"}
  <2> QED BY <1>1, <1>2, SectionOf DEF Tabled
<1>5. \A t \in Numbered : \A r \in e[t] : r.no[1] \in Devices => r.no[2] \in Nat
  <2> TAKE t \in Numbered
  <2> QED BY <1>1, <1>2, SectionOf DEF Tabled
<1>6. IdsDiffer(e["settings"])
  BY <1>1, <1>2, SectionOf DEF Tabled
<1> QED BY <1>3, <1>4, <1>5, <1>6 DEF Tabled

LEMMA NoRowsTabled == Tabled(NoRows)
<1>1. Numbered \cup {"payment_accounts", "settings"} \subseteq Tables
  BY DEF Tables, Replaced, Carried, NeverCopied, Transactions, Numbered, People
<1>2. \A t \in Tables : NoRows[t] = {}
  BY DEF NoRows
<1>3. NoRows["settings"] = {} /\ \A t \in Numbered \cup {"payment_accounts"} : NoRows[t] = {}
  BY <1>1, <1>2
<1> QED BY <1>2, <1>3, FS_EmptySet DEF Tabled, IdsDiffer

-----------------------------------------------------------------------------
(* What an import writes *)

\* The tables written row by row as the file has them.
Plain == {"returns", "credit_payments", "purchase_orders", "quotes", "movements", "parked_sales"}

LEMMA WrittenPlain ==
  ASSUME NEW base, NEW f, NEW t \in Plain
  PROVE  Written(base, f, t) = Insert(base[t], f.data[t])
BY DEF Plain, Written, NeverCopied, WriteReturns, WriteCreditPayments, WriteOrders, WriteQuotes,
       WriteMovements, WriteParked, People

\* A bill keeps its id, number and people; an account the file lacks is forgotten.
SalesAs(base, f, g) ==
    /\ Written(base, f, "sales") = Insert(base["sales"], {g[s] : s \in f.data["sales"]})
    /\ \A s \in f.data["sales"] :
         /\ g[s].id = s.id /\ g[s].no = s.no
         /\ g[s].customer = s.customer /\ g[s].mechanic = s.mechanic
         /\ g[s].account \in Ids(f.data["payment_accounts"]) \cup {None}
         /\ g[s] = [c \in Columns("sales") |-> g[s][c]]

LEMMA WrittenSales ==
  ASSUME NEW base, NEW f, Tabled(f.data)
  PROVE  \E g : SalesAs(base, f, g)
<1> DEFINE A == Ids(f.data["payment_accounts"])
           g == [s \in f.data["sales"] |-> [s EXCEPT !.account = IF @ \in A THEN @ ELSE None]]
<1>1. Written(base, f, "sales") = Insert(base["sales"], {g[s] : s \in f.data["sales"]})
  <2>1. {g[s] : s \in f.data["sales"]}
          = {[s EXCEPT !.account = IF @ \in A THEN @ ELSE None] : s \in f.data["sales"]}
    OBVIOUS
  <2> QED BY <2>1 DEF Written, NeverCopied, WriteSales, People
<1>2. \A s \in f.data["sales"] : s = [c \in Columns("sales") |-> s[c]]
  BY TableNames DEF Tabled
<1>3. Columns("sales") = {"id", "no", "customer", "mechanic", "product", "named", "account"}
  BY DEF Columns, People
<1>4. ASSUME NEW s \in f.data["sales"]
      PROVE  /\ g[s].id = s.id /\ g[s].no = s.no
             /\ g[s].customer = s.customer /\ g[s].mechanic = s.mechanic
             /\ g[s].account \in A \cup {None}
             /\ g[s] = [c \in Columns("sales") |-> g[s][c]]
  BY <1>2, <1>3
<1> HIDE DEF g
<1> QED BY <1>1, <1>4 DEF SalesAs

\* A shift is archived, and so is the drawer that was open.
ShiftsAs(base, f, g) ==
    /\ Written(base, f, "shifts") = Insert(base["shifts"], {g[s] : s \in f.data["shifts"]})
    /\ \A s \in f.data["shifts"] :
         g[s].id = s.id /\ g[s] = [c \in Columns("shifts") |-> g[s][c]]

LEMMA WrittenShifts ==
  ASSUME NEW base, NEW f, Tabled(f.data)
  PROVE  \E g : ShiftsAs(base, f, g)
<1> DEFINE g == [s \in f.data["shifts"] |-> [s EXCEPT !.active = FALSE]]
<1>1. Written(base, f, "shifts") = Insert(base["shifts"], {g[s] : s \in f.data["shifts"]})
  <2>1. {g[s] : s \in f.data["shifts"]} = {[s EXCEPT !.active = FALSE] : s \in f.data["shifts"]}
    OBVIOUS
  <2> QED BY <2>1 DEF Written, NeverCopied, WriteShifts, People
<1>2. \A s \in f.data["shifts"] : s = [c \in Columns("shifts") |-> s[c]]
  BY TableNames DEF Tabled
<1>3. Columns("shifts") = {"id", "active"}
  BY DEF Columns, People
<1>4. ASSUME NEW s \in f.data["shifts"]
      PROVE  g[s].id = s.id /\ g[s] = [c \in Columns("shifts") |-> g[s][c]]
  BY <1>2, <1>3
<1> HIDE DEF g
<1> QED BY <1>1, <1>4 DEF ShiftsAs

\* A file's accounts join what is left of the shop's; one that is gone is nobody's default.
AccountsAs(base, f, g) ==
    /\ Written(base, f, "payment_accounts")
         = base["payment_accounts"] \cup {g[a] : a \in f.data["payment_accounts"]}
    /\ \A a \in f.data["payment_accounts"] :
         /\ g[a].id = a.id
         /\ g[a].live = a.live
         /\ g[a].default = (a.default /\ a.live)
         /\ g[a] = [c \in Columns("payment_accounts") |-> g[a][c]]

LEMMA WrittenAccounts ==
  ASSUME NEW base, NEW f, Tabled(f.data)
  PROVE  \E g : AccountsAs(base, f, g)
<1> DEFINE S == f.data["payment_accounts"]
           g == [a \in S |-> [a EXCEPT !.default = @ /\ a.live]]
<1>1. Written(base, f, "payment_accounts") = base["payment_accounts"] \cup {g[a] : a \in S}
  <2>1. {g[a] : a \in S} = {[a EXCEPT !.default = @ /\ a.live] : a \in S}
    OBVIOUS
  <2> QED BY <2>1 DEF Written, NeverCopied, WriteAccounts, People
<1>2. \A a \in S : a = [c \in Columns("payment_accounts") |-> a[c]]
  BY TableNames DEF Tabled
<1>3. Columns("payment_accounts") = {"id", "live", "default"}
  BY DEF Columns, People
<1>4. ASSUME NEW a \in S
      PROVE  /\ g[a].id = a.id
             /\ g[a].live = a.live
             /\ g[a].default = (a.default /\ a.live)
             /\ g[a] = [c \in Columns("payment_accounts") |-> g[a][c]]
  BY <1>2, <1>3
<1> HIDE DEF g
<1> QED BY <1>1, <1>4 DEF AccountsAs

\* What is in a table after an import: its rows have the table's columns.
LEMMA WrittenColumns ==
  ASSUME NEW base, NEW f, Tabled(base), Tabled(f.data), NEW t \in Tables, NEW r \in Written(base, f, t)
  PROVE  r = [c \in Columns(t) |-> r[c]]
<1>0. \A x \in base[t] \cup f.data[t] : x = [c \in Columns(t) |-> x[c]]
  BY DEF Tabled
<1>1. CASE t \in Plain
  BY <1>0, <1>1, WrittenPlain, InsertIn
<1>2. CASE t = "categories"
  <2>1. CASE r \in base[t] \cup f.data[t]
    BY <1>0, <2>1
  <2>2. CASE r \notin base[t] \cup f.data[t]
    <3>1. PICK p \in f.data["products"] : r = [id |-> p.category]
      BY <1>2, <2>2 DEF Written, NeverCopied, WriteCategories, People
    <3>2. Columns(t) = {"id"}
      BY <1>2 DEF Columns, People
    <3> QED BY <3>1, <3>2
  <2> QED BY <2>1, <2>2
<1>3. CASE t = "products"
  <2>1. r \in Insert(base[t], f.data[t]) \cup ProductTombstones(f)
    BY <1>3 DEF Written, NeverCopied, WriteProducts, People
  <2>2. CASE r \in Insert(base[t], f.data[t])
    BY <1>0, <2>2, InsertIn
  <2>3. CASE r \in ProductTombstones(f)
    <3>1. PICK id \in MissingProducts(f) : r = [id |-> id, part |-> id, category |-> None, live |-> FALSE, stock |-> 0]
      BY <2>3 DEF ProductTombstones
    <3>2. Columns(t) = {"id", "part", "category", "live", "stock"}
      BY <1>3 DEF Columns, People
    <3> QED BY <3>1, <3>2
  <2> QED BY <2>1, <2>2, <2>3
<1>4. CASE t \in People
  <2>1. r \in Insert(base[t], f.data[t]) \cup PersonTombstones(f, t)
    BY <1>4 DEF Written, NeverCopied, WritePeople, People
  <2>2. CASE r \in Insert(base[t], f.data[t])
    BY <1>0, <2>2, InsertIn
  <2>3. CASE r \in PersonTombstones(f, t)
    <3>1. PICK id \in MissingPeople(f, t) : r = [id |-> id, code |-> id, live |-> FALSE]
      BY <2>3 DEF PersonTombstones
    <3>2. Columns(t) = {"id", "code", "live"}
      BY <1>4 DEF Columns, People
    <3> QED BY <3>1, <3>2
  <2> QED BY <2>1, <2>2, <2>3
<1>5. CASE t = "suppliers"
  <2>1. r \in Insert(base[t], f.data[t] \ DroppedSuppliers(f))
    BY <1>5 DEF Written, NeverCopied, WriteSuppliers, People
  <2>2. r \in base[t] \cup f.data[t]
    BY <2>1, InsertIn
  <2> QED BY <1>0, <2>2
<1>6. CASE t = "payment_accounts"
  <2>1. PICK g : AccountsAs(base, f, g)
    BY WrittenAccounts
  <2>2. \A a \in f.data[t] : g[a] = [c \in Columns(t) |-> g[a][c]]
    BY <1>6, <2>1 DEF AccountsAs
  <2>3. r \in base[t] \cup {g[a] : a \in f.data[t]}
    BY <1>6, <2>1 DEF AccountsAs
  <2> QED BY <1>0, <2>2, <2>3
<1>7. CASE t = "sales"
  <2>0. PICK g : SalesAs(base, f, g)
    BY WrittenSales
  <2>1. /\ Written(base, f, "sales") = Insert(base["sales"], {g[s] : s \in f.data["sales"]})
        /\ \A s \in f.data["sales"] : g[s] = [c \in Columns("sales") |-> g[s][c]]
    BY <2>0 DEF SalesAs
  <2>2. r \in base["sales"] \cup {g[s] : s \in f.data["sales"]}
    BY <1>7, <2>1, InsertIn
  <2> QED BY <1>0, <1>7, <2>1, <2>2
<1>8. CASE t = "shifts"
  <2>0. PICK g : ShiftsAs(base, f, g)
    BY WrittenShifts
  <2>1. /\ Written(base, f, "shifts") = Insert(base["shifts"], {g[s] : s \in f.data["shifts"]})
        /\ \A s \in f.data["shifts"] : g[s] = [c \in Columns("shifts") |-> g[s][c]]
    BY <2>0 DEF ShiftsAs
  <2>2. r \in base["shifts"] \cup {g[s] : s \in f.data["shifts"]}
    BY <1>8, <2>1, InsertIn
  <2> QED BY <1>0, <1>8, <2>1, <2>2
<1>9. CASE t = "settings"
  BY <1>0, <1>9 DEF Written, NeverCopied, WriteSettings, People
<1>10. CASE t \in NeverCopied
  BY <1>0, <1>10 DEF Written, NeverCopied, People
<1> QED BY <1>1, <1>2, <1>3, <1>4, <1>5, <1>6, <1>7, <1>8, <1>9, <1>10, TableNames
        DEF Plain, NeverCopied

\* A number in a table after an import was there, or is one of the file.
LEMMA WrittenNumbers ==
  ASSUME NEW base, NEW f, Tabled(base), Tabled(f.data), NEW t \in Numbered
  PROVE  /\ IsFiniteSet(Written(base, f, t))
         /\ \A r \in Written(base, f, t) : r \in base[t] \/ \E x \in f.data[t] : r.no = x.no
<1>0. IsFiniteSet(base[t]) /\ IsFiniteSet(f.data[t])
  BY DEF Tabled
<1>1. CASE t # "sales"
  <2>1. t \in Plain
    BY <1>1 DEF Plain, Numbered
  <2>2. Written(base, f, t) \subseteq base[t] \cup f.data[t]
    BY <2>1, WrittenPlain, InsertIn
  <2>3. IsFiniteSet(base[t] \cup f.data[t])
    BY <1>0, FS_Union
  <2>4. IsFiniteSet(Written(base, f, t))
    BY <2>2, <2>3, FS_Subset
  <2> QED BY <2>2, <2>4
<1>2. CASE t = "sales"
  <2>0. PICK g : SalesAs(base, f, g)
    BY WrittenSales
  <2>1. /\ Written(base, f, t) = Insert(base[t], {g[s] : s \in f.data[t]})
        /\ \A s \in f.data[t] : g[s].no = s.no
    BY <1>2, <2>0 DEF SalesAs
  <2> DEFINE G == {g[s] : s \in f.data[t]}
  <2>2. IsFiniteSet(G)
    BY <1>0, FiniteImage
  <2>3. Written(base, f, t) \subseteq base[t] \cup G
    BY <2>1, InsertIn
  <2>4. \A r \in G : \E x \in f.data[t] : r.no = x.no
    BY <2>1
  <2> HIDE DEF G
  <2>5. IsFiniteSet(base[t] \cup G)
    BY <1>0, <2>2, FS_Union
  <2>6. IsFiniteSet(Written(base, f, t))
    BY <2>3, <2>5, FS_Subset
  <2> QED BY <2>3, <2>4, <2>6
<1> QED BY <1>1, <1>2

LEMMA WrittenTabled ==
  ASSUME NEW base, NEW f, Tabled(base), Tabled(f.data), NEW after, after = WriteSnapshot(base, f)
  PROVE  DOMAIN after = Tables /\ Tabled(after)
<1>1. DOMAIN after = Tables /\ \A t \in Tables : after[t] = Written(base, f, t)
  BY DEF WriteSnapshot
<1>2. "settings" \in Tables /\ "payment_accounts" \in Tables /\ \A t \in Numbered : t \in Tables
  BY TableNames
<1>3. \A t \in Tables : \A r \in after[t] : r = [c \in Columns(t) |-> r[c]]
  BY <1>1, WrittenColumns
<1>4. \A t \in Numbered : IsFiniteSet(after[t])
  BY <1>1, <1>2, WrittenNumbers
<1>5. \A t \in Numbered : \A r \in after[t] : r.no[1] \in Devices => r.no[2] \in Nat
  <2> SUFFICES ASSUME NEW t \in Numbered, NEW r \in after[t], r.no[1] \in Devices PROVE r.no[2] \in Nat
    OBVIOUS
  <2>1. \A x \in base[t] \cup f.data[t] : x.no[1] \in Devices => x.no[2] \in Nat
    BY DEF Tabled
  <2>2. r \in base[t] \/ \E x \in f.data[t] : r.no = x.no
    BY <1>1, <1>2, WrittenNumbers
  <2> QED BY <2>1, <2>2
<1>6. IsFiniteSet(after["payment_accounts"])
  <2> DEFINE S == f.data["payment_accounts"]
  <2>0. after["payment_accounts"] = Written(base, f, "payment_accounts")
    BY <1>1, <1>2
  <2>1. IsFiniteSet(base["payment_accounts"]) /\ IsFiniteSet(S)
    BY DEF Tabled
  <2>2. PICK g : AccountsAs(base, f, g)
    BY WrittenAccounts
  <2> DEFINE G == {g[a] : a \in S}
  <2>3. IsFiniteSet(G)
    BY <2>1, FiniteImage
  <2>4. after["payment_accounts"] = base["payment_accounts"] \cup G
    BY <2>0, <2>2 DEF AccountsAs
  <2> HIDE DEF G
  <2> QED BY <2>1, <2>3, <2>4, FS_Union
<1>7. IdsDiffer(after["settings"])
  <2>1. after["settings"] = IF f.data["settings"] = {} THEN base["settings"] ELSE f.data["settings"]
    BY <1>1, <1>2 DEF Written, NeverCopied, WriteSettings, People
  <2> QED BY <2>1 DEF Tabled
<1> QED BY <1>1, <1>3, <1>4, <1>5, <1>6, <1>7 DEF Tabled

-----------------------------------------------------------------------------
(* The counters *)

\* seedDocCounters never turns a counter back, and passes every number of the file.
LEMMA Seeded ==
  ASSUME NEW cs \in [Numbered -> [Devices -> Nat]], NEW f, Tabled(f.data),
         NEW after, after = SeedDocCounters(cs, f)
  PROVE  /\ after \in [Numbered -> [Devices -> Nat]]
         /\ \A t \in Numbered, d \in Devices : cs[t][d] <= after[t][d]
         /\ \A t \in Numbered : \A r \in f.data[t] :
              r.no[1] \in Devices => r.no[2] <= after[t][r.no[1]]
<1> DEFINE N(t, d) == {r.no[2] : r \in {x \in f.data[t] : x.no[1] = d}}
           S(t, d) == {cs[t][d]} \cup N(t, d)
<1>1. \A t \in Numbered : IsFiniteSet(f.data[t])
                          /\ \A r \in f.data[t] : r.no[1] \in Devices => r.no[2] \in Nat
  BY DEF Tabled
<1>2. after = [t \in Numbered |-> [d \in Devices |-> Max(S(t, d))]]
  BY DEF SeedDocCounters
<1>3. \A t \in Numbered, d \in Devices : Max(S(t, d)) \in S(t, d) /\ \A n \in S(t, d) : n <= Max(S(t, d))
  <2> SUFFICES ASSUME NEW t \in Numbered, NEW d \in Devices
               PROVE  Max(S(t, d)) \in S(t, d) /\ \A n \in S(t, d) : n <= Max(S(t, d))
    OBVIOUS
  <2> DEFINE R == {x \in f.data[t] : x.no[1] = d}
             g == [x \in R |-> x.no[2]]
  <2>1. IsFiniteSet(R)
    BY <1>1, FS_Subset
  <2>2. N(t, d) = {g[x] : x \in R}
    OBVIOUS
  <2>3. IsFiniteSet(N(t, d))
    <3> HIDE DEF g, N, R
    <3> QED BY <2>1, <2>2, FiniteImage
  <2>4. N(t, d) \subseteq Nat
    BY <1>1
  <2>5. cs[t][d] \in Nat
    OBVIOUS
  <2> HIDE DEF N
  <2>6. IsFiniteSet(S(t, d)) /\ S(t, d) \subseteq Nat /\ S(t, d) # {}
    BY <2>3, <2>4, <2>5, FS_AddElement
  <2> HIDE DEF S
  <2> QED BY <2>6, MaxOf
<1>4. \A t \in Numbered, d \in Devices : S(t, d) \subseteq Nat
  BY <1>1
<1>5. \A t \in Numbered, d \in Devices : cs[t][d] \in S(t, d)
  OBVIOUS
<1>6. \A t \in Numbered : \A r \in f.data[t] : r.no[1] \in Devices => r.no[2] \in S(t, r.no[1])
  OBVIOUS
<1> HIDE DEF S
<1>7. \A t \in Numbered, d \in Devices : after[t][d] = Max(S(t, d))
  BY <1>2
<1>8. after \in [Numbered -> [Devices -> Nat]]
  BY <1>2, <1>3, <1>4
<1> QED BY <1>3, <1>5, <1>6, <1>7, <1>8

-----------------------------------------------------------------------------
(* An accepted file fits an empty shop *)

\* A row that comes back deleted has the id history names, and each id once.
LEMMA Tombstones ==
  ASSUME NEW f
  PROVE  /\ Ids(ProductTombstones(f)) = MissingProducts(f) /\ IdsDiffer(ProductTombstones(f))
         /\ \A t : Ids(PersonTombstones(f, t)) = MissingPeople(f, t) /\ IdsDiffer(PersonTombstones(f, t))
         /\ \A p \in ProductTombstones(f) : p.live = FALSE
<1> DEFINE g == [id \in MissingProducts(f) |-> [id |-> id, part |-> id, category |-> None, live |-> FALSE, stock |-> 0]]
<1>1. \A id \in MissingProducts(f) : g[id].id = id /\ g[id] \in ProductTombstones(f) /\ g[id].live = FALSE
  BY DEF ProductTombstones
<1>2. \A r \in ProductTombstones(f) : \E id \in MissingProducts(f) : r = g[id]
  BY DEF ProductTombstones
<1>3. ASSUME NEW t
      PROVE  Ids(PersonTombstones(f, t)) = MissingPeople(f, t) /\ IdsDiffer(PersonTombstones(f, t))
  <2> DEFINE h == [id \in MissingPeople(f, t) |-> [id |-> id, code |-> id, live |-> FALSE]]
  <2>1. \A id \in MissingPeople(f, t) : h[id].id = id /\ h[id] \in PersonTombstones(f, t)
    BY DEF PersonTombstones
  <2>2. \A r \in PersonTombstones(f, t) : \E id \in MissingPeople(f, t) : r = h[id]
    BY DEF PersonTombstones
  <2> HIDE DEF h
  <2>3. \A r \in PersonTombstones(f, t) : r.id \in MissingPeople(f, t) /\ r = h[r.id]
    BY <2>1, <2>2
  <2>4. IdsDiffer(PersonTombstones(f, t))
    BY <2>3 DEF IdsDiffer
  <2>5. \A id \in Ids(PersonTombstones(f, t)) : id \in MissingPeople(f, t)
    BY <2>3 DEF Ids
  <2>6. \A id \in MissingPeople(f, t) : id \in Ids(PersonTombstones(f, t))
    BY <2>1 DEF Ids
  <2> QED BY <2>4, <2>5, <2>6
<1> HIDE DEF g
<1>4. \A r \in ProductTombstones(f) : r.id \in MissingProducts(f) /\ r = g[r.id]
  BY <1>1, <1>2
<1>5. IdsDiffer(ProductTombstones(f))
  BY <1>4 DEF IdsDiffer
<1>6. \A id \in Ids(ProductTombstones(f)) : id \in MissingProducts(f)
  BY <1>4 DEF Ids
<1>7. \A id \in MissingProducts(f) : id \in Ids(ProductTombstones(f))
  BY <1>1 DEF Ids
<1>8. Ids(ProductTombstones(f)) = MissingProducts(f)
  BY <1>6, <1>7
<1>9. \A p \in ProductTombstones(f) : p.live = FALSE
  BY <1>1, <1>2
<1> QED BY <1>3, <1>5, <1>8, <1>9

\* The ids of a table written into an empty one.
LEMMA IdsWritten ==
  ASSUME NEW base, NEW f, Tabled(f.data), ~ Refused(f), \A t \in WrittenTo(f) : base[t] = {}
  PROVE  /\ \A t \in Plain \cup {"sales", "shifts"} : Ids(Written(base, f, t)) = Ids(f.data[t])
         /\ Ids(Written(base, f, "products")) = Ids(f.data["products"]) \cup MissingProducts(f)
         /\ \A t \in People : Ids(Written(base, f, t)) = Ids(f.data[t]) \cup MissingPeople(f, t)
         /\ f.data["payment_accounts"] # {} =>
              Ids(Written(base, f, "payment_accounts")) = Ids(f.data["payment_accounts"])
<1>0. \A t \in Plain \cup People \cup {"sales", "shifts", "products"} : base[t] = {}
  BY DEF Plain, People, WrittenTo, Carried, Transactions, Numbered
<1>1. ASSUME NEW t \in Plain PROVE Ids(Written(base, f, t)) = Ids(f.data[t])
  BY <1>0, WrittenPlain, InsertAll
<1>2. Ids(Written(base, f, "sales")) = Ids(f.data["sales"])
  <2>1. PICK g : SalesAs(base, f, g)
    BY WrittenSales
  <2> DEFINE S == f.data["sales"]
             G == {g[s] : s \in S}
  <2>2. Written(base, f, "sales") = Insert({}, G)
    BY <1>0, <2>1 DEF SalesAs
  <2>3. (\A s \in S : g[s].id = s.id) /\ (\A s \in S : g[s] \in G) /\ (\A r \in G : \E s \in S : r = g[s])
    BY <2>1 DEF SalesAs
  <2> HIDE DEF G, S
  <2>4. Ids(G) = Ids(S)
    BY <2>3, SameIds
  <2>5. Ids(Insert({}, G)) = Ids(G)
    BY InsertAll
  <2> QED BY <2>2, <2>4, <2>5 DEF S
<1>3. Ids(Written(base, f, "shifts")) = Ids(f.data["shifts"])
  <2>1. PICK g : ShiftsAs(base, f, g)
    BY WrittenShifts
  <2> DEFINE S == f.data["shifts"]
             G == {g[s] : s \in S}
  <2>2. Written(base, f, "shifts") = Insert({}, G)
    BY <1>0, <2>1 DEF ShiftsAs
  <2>3. (\A s \in S : g[s].id = s.id) /\ (\A s \in S : g[s] \in G) /\ (\A r \in G : \E s \in S : r = g[s])
    BY <2>1 DEF ShiftsAs
  <2> HIDE DEF G, S
  <2>4. Ids(G) = Ids(S)
    BY <2>3, SameIds
  <2>5. Ids(Insert({}, G)) = Ids(G)
    BY InsertAll
  <2> QED BY <2>2, <2>4, <2>5 DEF S
<1>4. Ids(Written(base, f, "products")) = Ids(f.data["products"]) \cup MissingProducts(f)
  <2>1. Written(base, f, "products") = Insert({}, f.data["products"]) \cup ProductTombstones(f)
    BY <1>0 DEF Written, NeverCopied, WriteProducts, People
  <2>2. Ids(ProductTombstones(f)) = MissingProducts(f)
    BY Tombstones
  <2>3. Ids(Insert({}, f.data["products"])) = Ids(f.data["products"])
    BY InsertAll
  <2>4. \A A, B : Ids(A \cup B) = Ids(A) \cup Ids(B)
    BY DEF Ids
  <2> QED BY <2>1, <2>2, <2>3, <2>4
<1>5. ASSUME NEW t \in People PROVE Ids(Written(base, f, t)) = Ids(f.data[t]) \cup MissingPeople(f, t)
  <2>1. Written(base, f, t) = Insert({}, f.data[t]) \cup PersonTombstones(f, t)
    BY <1>0 DEF Written, NeverCopied, WritePeople, People
  <2>2. Ids(PersonTombstones(f, t)) = MissingPeople(f, t)
    BY Tombstones
  <2>3. Ids(Insert({}, f.data[t])) = Ids(f.data[t])
    BY InsertAll
  <2>4. \A A, B : Ids(A \cup B) = Ids(A) \cup Ids(B)
    BY DEF Ids
  <2> QED BY <2>1, <2>2, <2>3, <2>4
<1>6. ASSUME f.data["payment_accounts"] # {}
      PROVE  Ids(Written(base, f, "payment_accounts")) = Ids(f.data["payment_accounts"])
  <2>1. PICK g : AccountsAs(base, f, g)
    BY <1>6, WrittenAccounts
  <2> DEFINE S == f.data["payment_accounts"]
             G == Written(base, f, "payment_accounts")
  <2>2. base["payment_accounts"] = {}
    BY <1>6 DEF WrittenTo
  <2>3. (\A s \in S : g[s].id = s.id) /\ (\A s \in S : g[s] \in G) /\ (\A r \in G : \E s \in S : r = g[s])
    BY <2>1, <2>2 DEF AccountsAs
  <2> HIDE DEF G, S
  <2>4. Ids(G) = Ids(S)
    BY <2>3, SameIds
  <2> QED BY <2>4 DEF G, S
<1> QED BY <1>1, <1>2, <1>3, <1>4, <1>5, <1>6

\* Primary keys: of an empty shop's tables after an import.
LEMMA KeysWritten ==
  ASSUME NEW base, Tabled(base), IdsDiffer(base["payment_accounts"]),
         IdsDiffer(base["owner_review_items"]),
         NEW f, Tabled(f.data), ~ Refused(f), \A t \in WrittenTo(f) : base[t] = {}, NEW t \in Tables
  PROVE  IdsDiffer(Written(base, f, t))
<1>0. \A u \in Plain \cup People \cup {"sales", "shifts", "products", "suppliers", "categories"} : base[u] = {}
  BY DEF Plain, People, WrittenTo, Carried, Transactions, Numbered
<1>1. CASE t \in Plain
  <2>1. Written(base, f, t) = Insert({}, f.data[t])
    BY <1>0, <1>1, WrittenPlain
  <2>2. IdsDiffer(Insert({}, f.data[t]))
    BY InsertAll
  <2> QED BY <2>1, <2>2
<1>2. CASE t = "sales"
  <2>1. PICK g : SalesAs(base, f, g)
    BY WrittenSales
  <2>2. Written(base, f, "sales") = Insert({}, {g[s] : s \in f.data["sales"]})
    BY <1>0, <2>1 DEF SalesAs
  <2>3. IdsDiffer(Insert({}, {g[s] : s \in f.data["sales"]}))
    BY InsertAll
  <2> QED BY <1>2, <2>2, <2>3
<1>3. CASE t = "shifts"
  <2>1. PICK g : ShiftsAs(base, f, g)
    BY WrittenShifts
  <2>2. Written(base, f, "shifts") = Insert({}, {g[s] : s \in f.data["shifts"]})
    BY <1>0, <2>1 DEF ShiftsAs
  <2>3. IdsDiffer(Insert({}, {g[s] : s \in f.data["shifts"]}))
    BY InsertAll
  <2> QED BY <1>3, <2>2, <2>3
<1>4. CASE t = "products"
  <2> DEFINE I == Insert({}, f.data["products"])
             M == ProductTombstones(f)
  <2>1. Written(base, f, t) = I \cup M
    BY <1>0, <1>4 DEF Written, NeverCopied, WriteProducts, People
  <2>2. \A r \in I : r.id \in Ids(f.data["products"])
    BY InsertAll DEF Ids
  <2>3. \A r \in M : r.id \notin Ids(f.data["products"])
    BY DEF ProductTombstones, MissingProducts
  <2>4. IdsDiffer(I)
    BY InsertAll
  <2>5. IdsDiffer(M)
    BY Tombstones
  <2> HIDE DEF I, M
  <2> QED BY <2>1, <2>2, <2>3, <2>4, <2>5 DEF IdsDiffer
<1>5. CASE t \in People
  <2> DEFINE I == Insert({}, f.data[t])
             M == PersonTombstones(f, t)
  <2>1. Written(base, f, t) = I \cup M
    BY <1>0, <1>5 DEF Written, NeverCopied, WritePeople, People
  <2>2. \A r \in I : r.id \in Ids(f.data[t])
    BY InsertAll DEF Ids
  <2>3. \A r \in M : r.id \notin Ids(f.data[t])
    BY DEF PersonTombstones, MissingPeople
  <2>4. IdsDiffer(I)
    BY InsertAll
  <2>5. IdsDiffer(M)
    BY Tombstones
  <2> HIDE DEF I, M
  <2> QED BY <2>1, <2>2, <2>3, <2>4, <2>5 DEF IdsDiffer
<1>6. CASE t = "suppliers"
  <2>1. Written(base, f, t) = Insert({}, f.data["suppliers"] \ DroppedSuppliers(f))
    BY <1>0, <1>6 DEF Written, NeverCopied, WriteSuppliers, People
  <2> QED BY <2>1, InsertAll
<1>7. CASE t = "categories"
  <2>1. \A r \in Written(base, f, t) : r = [c \in {"id"} |-> r[c]]
    <3>1. Columns(t) = {"id"}
      BY <1>7 DEF Columns, People
    <3> QED BY <3>1, WrittenColumns
  <2> QED BY <2>1 DEF IdsDiffer
<1>8. CASE t = "payment_accounts"
  <2>1. CASE f.data["payment_accounts"] = {}
    BY <1>8, <2>1 DEF Written, NeverCopied, WriteAccounts, People
  <2>2. CASE f.data["payment_accounts"] # {}
    <3>1. PICK g : AccountsAs(base, f, g)
      BY <2>2, WrittenAccounts
    <3>2. \A a, b \in f.data["payment_accounts"] : a.id = b.id => a = b
      BY DEF Refused, PlanPaymentAccountViolations
    <3> DEFINE W == Written(base, f, "payment_accounts")
    <3>0. base["payment_accounts"] = {}
      BY <2>2 DEF WrittenTo
    <3>5. \A x \in W : \E a \in f.data["payment_accounts"] : x = g[a]
      BY <3>0, <3>1 DEF AccountsAs
    <3>6. \A a \in f.data["payment_accounts"] : g[a].id = a.id
      BY <3>1 DEF AccountsAs
    <3> HIDE DEF W
    <3>3. \A x \in W : \E a \in f.data["payment_accounts"] : x = g[a] /\ x.id = a.id
      BY <3>5, <3>6
    <3>4. IdsDiffer(W)
      BY <3>2, <3>3 DEF IdsDiffer
    <3> QED BY <1>8, <3>4 DEF W
  <2> QED BY <2>1, <2>2
<1>9. CASE t = "settings"
  BY <1>9 DEF Written, NeverCopied, WriteSettings, People, Tabled
<1>10. CASE t = "owner_review_items"
  BY <1>10 DEF Written, NeverCopied, People
<1> QED BY <1>1, <1>2, <1>3, <1>4, <1>5, <1>6, <1>7, <1>8, <1>9, <1>10, TableNames DEF Plain

\* A document of a plain table is one of the file's.
LEMMA InPlain ==
  ASSUME NEW base, NEW f, \A t \in WrittenTo(f) : base[t] = {}, NEW t \in Numbered, t # "sales"
  PROVE  Written(base, f, t) \subseteq f.data[t]
<1>1. t \in Plain /\ base[t] = {}
  BY DEF Numbered, Plain, WrittenTo, Carried, Transactions
<1>2. Written(base, f, t) = Insert({}, f.data[t])
  BY <1>1, WrittenPlain
<1> QED BY <1>2, InsertAll

\* A finite set that does not count more than one has no two elements; and the other way.
LEMMA AtMostOne ==
  ASSUME NEW S, IsFiniteSet(S), ~ (Cardinality(S) > 1)
  PROVE  \A a, b \in S : a = b
<1> SUFFICES ASSUME NEW a \in S, NEW b \in S, a # b PROVE FALSE
  OBVIOUS
<1>1. {a, b} \subseteq S
  OBVIOUS
<1>2. Cardinality({a, b}) = 2
  <2>1. IsFiniteSet({a}) /\ Cardinality({a}) = 1 /\ b \notin {a}
    BY FS_Singleton
  <2>2. Cardinality({a} \cup {b}) = Cardinality({a}) + 1
    BY <2>1, FS_AddElement
  <2>3. {a} \cup {b} = {a, b}
    OBVIOUS
  <2> QED BY <2>1, <2>2, <2>3
<1>3. Cardinality({a, b}) <= Cardinality(S) /\ Cardinality(S) \in Nat
  BY <1>1, FS_Subset, FS_CardinalityType
<1> QED BY <1>2, <1>3

LEMMA AloneIsOne ==
  ASSUME NEW S, \A a, b \in S : a = b
  PROVE  Cardinality(S) <= 1
<1>1. CASE S = {}
  <2>1. Cardinality(S) = 0
    BY <1>1, FS_EmptySet
  <2> QED BY <2>1
<1>2. CASE S # {}
  <2>1. PICK x : S = {x}
    BY <1>2
  <2>2. Cardinality(S) = 1
    BY <2>1, FS_Singleton
  <2> QED BY <2>2
<1> QED BY <1>1, <1>2

\* What the schema asks of a file's tables, empty until an accepted file is written to them:
\* each of its conditions but those the pre-flight leaves to it.
LEMMA AcceptedFileFits ==
  ASSUME NEW base, Tabled(base), IdsDiffer(base["payment_accounts"]),
         IdsDiffer(base["owner_review_items"]),
         Cardinality({a \in Live(base["payment_accounts"]) : a.default}) <= 1,
         NEW f, Tabled(f.data), ~ Refused(f), \A t \in WrittenTo(f) : base[t] = {}
  PROVE  Objections(f, WriteSnapshot(base, f)) \subseteq Unforeseen
<1> DEFINE after == WriteSnapshot(base, f)
<1>1. \A t \in Tables : after[t] = Written(base, f, t)
  BY DEF WriteSnapshot
<1>2. /\ after["sales"] = Written(base, f, "sales") /\ after["returns"] = Written(base, f, "returns")
      /\ after["products"] = Written(base, f, "products") /\ after["movements"] = Written(base, f, "movements")
      /\ after["suppliers"] = Written(base, f, "suppliers")
      /\ after["customers"] = Written(base, f, "customers") /\ after["mechanics"] = Written(base, f, "mechanics")
      /\ after["credit_payments"] = Written(base, f, "credit_payments")
      /\ after["payment_accounts"] = Written(base, f, "payment_accounts")
      /\ \A t \in Numbered : after[t] = Written(base, f, t)
  BY <1>1, TableNames
<1> HIDE DEF after
<1>3. \A t \in {"sales", "returns", "products", "movements", "suppliers", "credit_payments"} : base[t] = {}
  BY DEF WrittenTo, Carried, Transactions, Numbered
<1>4. \A t \in Tables : IdsDiffer(after[t])
  BY <1>1, KeysWritten
<1>5. PICK g : SalesAs(base, f, g)
  BY WrittenSales
<1>6. \A r \in after["sales"] : \E s \in f.data["sales"] :
         /\ r.id = s.id /\ r.no = s.no /\ r.customer = s.customer /\ r.mechanic = s.mechanic
         /\ r.account \in Ids(f.data["payment_accounts"]) \cup {None}
  <2> DEFINE G == {g[s] : s \in f.data["sales"]}
  <2>1. after["sales"] = Insert({}, G)
    BY <1>2, <1>3, <1>5 DEF SalesAs
  <2>2. after["sales"] \subseteq G
    <3> HIDE DEF G
    <3> QED BY <2>1, InsertAll
  <2>3. \A s \in f.data["sales"] :
           /\ g[s].id = s.id /\ g[s].no = s.no
           /\ g[s].customer = s.customer /\ g[s].mechanic = s.mechanic
           /\ g[s].account \in Ids(f.data["payment_accounts"]) \cup {None}
    BY <1>5 DEF SalesAs
  <2>4. \A r \in after["sales"] : \E s \in f.data["sales"] : r = g[s]
    BY <2>2
  <2> HIDE DEF G
  <2> QED BY <2>3, <2>4
<1>7. /\ after["returns"] \subseteq f.data["returns"] /\ after["movements"] \subseteq f.data["movements"]
      /\ after["credit_payments"] \subseteq f.data["credit_payments"]
      /\ after["suppliers"] \subseteq f.data["suppliers"] \ DroppedSuppliers(f)
  <2>1. ASSUME NEW t \in {"returns", "movements", "credit_payments"} PROVE after[t] \subseteq f.data[t]
    <3>1. t \in Plain /\ after[t] = Written(base, f, t) /\ base[t] = {}
      BY <1>2, <1>3 DEF Plain
    <3>2. Written(base, f, t) = Insert(base[t], f.data[t])
      BY <3>1, WrittenPlain
    <3>3. after[t] = Insert({}, f.data[t])
      BY <3>1, <3>2
    <3> QED BY <3>3, InsertAll
  <2>2. after["suppliers"] = Insert({}, f.data["suppliers"] \ DroppedSuppliers(f))
    BY <1>2, <1>3 DEF Written, NeverCopied, WriteSuppliers, People
  <2>3. after["suppliers"] \subseteq f.data["suppliers"] \ DroppedSuppliers(f)
    BY <2>2, InsertAll
  <2> QED BY <2>1, <2>3
<1>8. /\ Ids(after["sales"]) = Ids(f.data["sales"])
      /\ Ids(after["products"]) = Ids(f.data["products"]) \cup MissingProducts(f)
      /\ Ids(after["customers"]) = Ids(f.data["customers"]) \cup MissingPeople(f, "customers")
      /\ Ids(after["mechanics"]) = Ids(f.data["mechanics"]) \cup MissingPeople(f, "mechanics")
      /\ f.data["payment_accounts"] # {} => Ids(after["payment_accounts"]) = Ids(f.data["payment_accounts"])
  BY <1>2, IdsWritten DEF Plain, People
\* No two live products share a part number: a tombstone is not live.
<1>9. \A p, q \in Live(after["products"]) : p.part = q.part => p = q
  <2> SUFFICES ASSUME NEW p \in Live(after["products"]), NEW q \in Live(after["products"]), p.part = q.part
               PROVE  p = q
    OBVIOUS
  <2>1. after["products"] = Insert({}, f.data["products"]) \cup ProductTombstones(f)
    BY <1>2, <1>3 DEF Written, NeverCopied, WriteProducts, People
  <2>2. Live(after["products"]) \subseteq Insert({}, f.data["products"])
    BY <2>1, Tombstones DEF Live
  <2>3. p \in f.data["products"] /\ q \in f.data["products"]
    BY <2>2, InsertAll
  <2>4. p.id = q.id
    BY <2>3 DEF Refused, PartClash
  <2>5. IdsDiffer(Insert({}, f.data["products"]))
    BY InsertAll
  <2> QED BY <2>2, <2>4, <2>5 DEF IdsDiffer
\* No two documents share a number.
<1>10. \A t \in Numbered : \A r, s \in after[t] : r.no = s.no => r = s
  <2> SUFFICES ASSUME NEW t \in Numbered, NEW r \in after[t], NEW s \in after[t], r.no = s.no
               PROVE  r = s
    OBVIOUS
  <2>1. \E x \in f.data[t] : r.id = x.id /\ r.no = x.no
    <3>1. CASE t = "sales"
      BY <3>1, <1>6
    <3>2. CASE t # "sales"
      BY <3>2, <1>2, InPlain
    <3> QED BY <3>1, <3>2
  <2>2. \E x \in f.data[t] : s.id = x.id /\ s.no = x.no
    <3>1. CASE t = "sales"
      BY <3>1, <1>6
    <3>2. CASE t # "sales"
      BY <3>2, <1>2, InPlain
    <3> QED BY <3>1, <3>2
  <2>3. r.id = s.id
    BY <2>1, <2>2 DEF Refused, PlanDuplicateDocNumbers
  <2>4. t \in Tables
    BY TableNames
  <2> QED BY <2>3, <2>4, <1>4 DEF IdsDiffer
<1>11. Refers({s.customer : s \in after["sales"]}, Ids(after["customers"]))
  <2> SUFFICES ASSUME NEW r \in after["sales"], r.customer # None PROVE r.customer \in Ids(after["customers"])
    BY DEF Refers
  <2>1. PICK s \in f.data["sales"] : r.customer = s.customer
    BY <1>6
  <2>2. s.customer \in Wanted(f, "customers")
    BY <2>1 DEF Wanted
  <2> QED BY <2>1, <2>2, <1>8 DEF MissingPeople
<1>12. Refers({r.mechanic : r \in after["sales"] \cup after["credit_payments"]}, Ids(after["mechanics"]))
  <2> SUFFICES ASSUME NEW r \in after["sales"] \cup after["credit_payments"], r.mechanic # None
               PROVE  r.mechanic \in Ids(after["mechanics"])
    BY DEF Refers
  <2>1. \E s \in f.data["sales"] \cup f.data["credit_payments"] : r.mechanic = s.mechanic
    BY <1>6, <1>7
  <2>2. r.mechanic \in Wanted(f, "mechanics")
    BY <2>1 DEF Wanted
  <2> QED BY <2>2, <1>8 DEF MissingPeople
<1>13. Refers({s.account : s \in after["sales"]}, Ids(after["payment_accounts"]))
  <2> SUFFICES ASSUME NEW r \in after["sales"], r.account # None
               PROVE  r.account \in Ids(after["payment_accounts"])
    BY DEF Refers
  <2>1. r.account \in Ids(f.data["payment_accounts"])
    BY <1>6
  <2>2. f.data["payment_accounts"] # {}
    BY <2>1 DEF Ids
  <2> QED BY <2>1, <2>2, <1>8
<1>14. {r.sale : r \in after["returns"]} \subseteq Ids(after["sales"])
  BY <1>7, <1>8 DEF Refused, ReturnsWithoutSale
<1>15. {m.product : m \in after["movements"] \cup after["suppliers"]} \subseteq Ids(after["products"])
  <2> SUFFICES ASSUME NEW m \in after["movements"] \cup after["suppliers"]
               PROVE  m.product \in Ids(after["products"])
    OBVIOUS
  <2>1. m.product # None
    BY <1>7 DEF Refused, MissingRefs
  <2>2. CASE m \in after["movements"]
    <3>1. m.product \in MovementProducts(f)
      BY <2>1, <2>2, <1>7 DEF MovementProducts
    <3> QED BY <3>1, <1>8 DEF MissingProducts
  <2>3. CASE m \in after["suppliers"]
    BY <2>1, <2>3, <1>7, <1>8 DEF DroppedSuppliers
  <2> QED BY <2>2, <2>3
<1>16. {p.mechanic : p \in after["credit_payments"]} \subseteq Ids(after["mechanics"])
  <2> SUFFICES ASSUME NEW p \in after["credit_payments"] PROVE p.mechanic \in Ids(after["mechanics"])
    OBVIOUS
  <2>1. p \in f.data["credit_payments"] /\ p.mechanic # None
    BY <1>7 DEF Refused, MissingRefs
  <2>2. p.mechanic \in Wanted(f, "mechanics")
    BY <2>1 DEF Wanted
  <2> QED BY <2>2, <1>8 DEF MissingPeople
\* At most one account is the default.
<1>17. Cardinality({a \in Live(after["payment_accounts"]) : a.default}) <= 1
  <2> DEFINE S == f.data["payment_accounts"]
             D == {a \in Live(S) : a.default}
             E == {a \in Live(after["payment_accounts"]) : a.default}
  <2>1. CASE S = {}
    BY <2>1, <1>2 DEF Written, NeverCopied, WriteAccounts, People
  <2>2. CASE S # {}
    <3>0. base["payment_accounts"] = {}
      BY <2>2 DEF WrittenTo
    <3>1. PICK k : AccountsAs(base, f, k)
      BY WrittenAccounts
    <3>8. \A a \in S : k[a].live = a.live /\ k[a].default = (a.default /\ a.live)
      BY <3>1 DEF AccountsAs
    <3>9. after["payment_accounts"] = {k[a] : a \in S}
      BY <3>0, <3>1, <1>2 DEF AccountsAs
    <3>10. \A e \in after["payment_accounts"] : \E a \in S : e = k[a]
      BY <3>9
    <3>2. \A e \in E : \E a \in S : e = k[a] /\ a \in D
      <4> SUFFICES ASSUME NEW e \in E PROVE \E a \in S : e = k[a] /\ a \in D
        OBVIOUS
      <4>1. e \in after["payment_accounts"] /\ e.live /\ e.default
        BY DEF Live
      <4>2. PICK a \in S : e = k[a]
        BY <4>1, <3>10
      <4>3. a.live /\ a.default
        BY <4>1, <4>2, <3>8, Zenon
      <4> QED BY <4>2, <4>3 DEF Live
    <3>3. IsFiniteSet(D)
      <4>1. IsFiniteSet(S) /\ D \subseteq S
        BY DEF Tabled, Live
      <4> HIDE DEF D, S
      <4> QED BY <4>1, FS_Subset
    <3>4. ~ (Cardinality(D) > 1)
      BY DEF Refused, PlanPaymentAccountViolations
    <3> HIDE DEF D, E, S
    <3>5. \A a, b \in D : a = b
      BY <3>3, <3>4, AtMostOne
    <3>6. \A a, b \in E : a = b
      BY <3>2, <3>5
    <3>7. Cardinality(E) <= 1
      BY <3>6, AloneIsOne
    <3> QED BY <3>7 DEF E
  <2> QED BY <2>1, <2>2
<1>18. ReferencesHold(after)
  BY <1>11, <1>12, <1>13, <1>14, <1>15, <1>16 DEF ReferencesHold
<1>19. \A c \in {"keys", "part numbers", "numbers", "references", "default account"} :
         Satisfied(c, after)
  BY <1>4, <1>9, <1>10, <1>17, <1>18 DEF Satisfied
<1>20. Violated(after) \subseteq Unforeseen
  BY <1>19 DEF Violated, Constraints, Unforeseen
<1> QED BY <1>20 DEF after, Objections, Unforeseen

-----------------------------------------------------------------------------
(* The invariant holds at first *)

LEMMA EmptyTabled == Tabled(EmptyFile.data)
BY NoRowsTabled DEF EmptyFile

LEMMA ImportInit == Init => ImportInv
<1> SUFFICES ASSUME Init PROVE ImportInv
  OBVIOUS
<1> DEFINE f == [data |-> shop]
           zero == [t \in Numbered |-> [d \in Devices |-> 0]]
<1>1. DOMAIN shop = Tables /\ Tabled(shop) /\ Fits(shop)
  BY DataAssumption DEF Init
<1>2. f.data = shop /\ zero \in [Numbered -> [Devices -> Nat]] /\ counters = SeedDocCounters(zero, f)
  BY DEF Init
<1> HIDE DEF f, zero
<1>3. /\ counters \in [Numbered -> [Devices -> Nat]]
      /\ \A t \in Numbered : \A r \in f.data[t] :
           r.no[1] \in Devices => r.no[2] <= counters[t][r.no[1]]
  BY <1>1, <1>2, Seeded
<1>4. ShopTyped
  <2>1. "payment_accounts" \in Tables /\ "owner_review_items" \in Tables
    BY TableNames
  <2>2. Satisfied("keys", shop) /\ Satisfied("default account", shop)
    BY <1>1 DEF Fits, Violated, Constraints
  <2> QED BY <1>1, <1>3, <2>1, <2>2 DEF ShopTyped, Satisfied
<1>5. CountersCover
  BY <1>2, <1>3 DEF CountersCover
<1>6. FilesTyped
  <2>1. Tabled(file.data)
    BY DataAssumption DEF Init
  <2>2. \A j \in Jobs : jobs[j].payload = EmptyFile
    BY DEF Init, NoJob
  <2> QED BY <2>1, <2>2, EmptyTabled DEF FilesTyped, Init
<1>7. JobsTyped
  BY DEF Init, JobsTyped, NoJob
<1>8. WorkTyped
  BY DEF Init, WorkTyped, NoWork
<1>9. OneWorker
  BY DEF Init, OneWorker, NoWork
<1>10. WrittenOnce
  BY DEF Init, WrittenOnce, NoWork, NoJob
<1>11. AcceptedOnly
  BY DEF Init, AcceptedOnly, NoWork
<1>12. Copied
  BY DEF Init, Copied, NoWork
<1>13. AcceptedFits
  BY DEF Init, AcceptedFits
<1> QED BY <1>4, <1>5, <1>6, <1>7, <1>8, <1>9, <1>10, <1>11, <1>12, <1>13 DEF ImportInv

-----------------------------------------------------------------------------
(* Who works on what *)

\* Two workers at work have two jobs.
LEMMA OwnJob ==
  ASSUME OneWorker, NEW v \in Workers, NEW w \in Workers, v # w,
         work[v].stage # "idle", work[w].stage # "idle"
  PROVE  work[v].job # work[w].job
BY DEF OneWorker

\* A worker that goes on to its next stage keeps its job and what it read.
LEMMA StepTyped ==
  ASSUME WorkTyped, NEW w \in Workers, work[w].stage # "idle", NEW s, s # "idle", Step(w, s)
  PROVE  /\ WorkTyped'
         /\ \A v \in Workers : v # w => work'[v] = work[v]
         /\ work'[w].job = work[w].job /\ work'[w].stage = s
         /\ work'[w].file = work[w].file /\ work'[w].seen = work[w].seen
<1>1. DOMAIN work = Workers /\ work' = [work EXCEPT ![w].stage = s]
  BY DEF WorkTyped, Step
<1>2. DOMAIN work[w] = {"job", "stage", "file", "seen"}
  BY DEF WorkTyped
<1>3. DOMAIN work' = Workers /\ (\A v \in Workers : v # w => work'[v] = work[v])
      /\ work'[w] = [work[w] EXCEPT !.stage = s]
  BY <1>1
<1>4. /\ DOMAIN work'[w] = {"job", "stage", "file", "seen"}
      /\ work'[w].job = work[w].job /\ work'[w].stage = s
      /\ work'[w].file = work[w].file /\ work'[w].seen = work[w].seen
  BY <1>2, <1>3
<1> QED BY <1>3, <1>4 DEF WorkTyped

\* A worker that lets its job go is idle, and the job is nobody's.
LEMMA LetGo ==
  ASSUME WorkTyped, OneWorker, JobsTyped, NEW w \in Workers, work[w].stage # "idle",
         work' = [work EXCEPT ![w] = NoWork],
         DOMAIN queue' = Jobs, \A i \in Jobs : i # work[w].job => queue'[i] = queue[i]
  PROVE  /\ WorkTyped'
         /\ jobs[work[w].job].status # "none"
         /\ \A i \in Jobs : jobs[i].status = "none" => queue'[i] = queue[i]
         /\ \A v \in Workers : work'[v].stage # "idle" =>
              /\ work'[v] = work[v] /\ work[v].job # work[w].job
              /\ queue'[work[v].job] = queue[work[v].job]
<1>1. work[w].job \in Jobs /\ queue[work[w].job].state = "active"
  BY DEF OneWorker
<1>2. jobs[work[w].job].status # "none"
  BY <1>1 DEF OneWorker
<1>3. DOMAIN work' = Workers /\ work'[w] = NoWork /\ \A v \in Workers : v # w => work'[v] = work[v]
  BY DEF WorkTyped
<1>5. NoWork.stage = "idle"
      /\ DOMAIN NoWork = {"job", "stage", "file", "seen"}
  BY DEF NoWork
<1>6. WorkTyped'
  BY <1>3, <1>5 DEF WorkTyped
<1>8. ASSUME NEW v \in Workers, work'[v].stage # "idle"
      PROVE  /\ work'[v] = work[v] /\ work[v].job # work[w].job
             /\ queue'[work[v].job] = queue[work[v].job]
  <2>1. v # w
    BY <1>3, <1>5, <1>8
  <2>2. work'[v] = work[v] /\ work[v].stage # "idle" /\ work[v].job \in Jobs
    BY <2>1, <1>3, <1>8 DEF OneWorker
  <2>3. work[v].job # work[w].job
    BY <2>1, <2>2, OwnJob
  <2> QED BY <2>2, <2>3
<1> QED BY <1>2, <1>6, <1>8

-----------------------------------------------------------------------------
(* Steps of the api and the queue *)

\* What changes neither the shop nor what was deleted, written or refused.
LEMMA BooksKept ==
  ASSUME ImportInv, UNCHANGED <<db, broken>>
  PROVE  ShopTyped' /\ AcceptedFits' /\ CountersCover'
<1>1. shop' = shop /\ counters' = counters /\ broken' = broken
  BY DEF db
<1>2. ShopTyped'
  BY <1>1 DEF ImportInv, ShopTyped
<1>3. AcceptedFits'
  BY <1>1 DEF ImportInv, AcceptedFits
<1>4. CountersCover'
  BY <1>1 DEF ImportInv, CountersCover
<1> QED BY <1>2, <1>3, <1>4

\* A change of the jobs' rows that starts and finishes none: a row may only end as failed,
\* without its payload.
JobsOnly ==
    /\ DOMAIN jobs' = Jobs
    /\ \A i \in Jobs :
         /\ jobs'[i] = [status |-> jobs'[i].status, payload |-> jobs'[i].payload,
                        replace |-> jobs'[i].replace, old |-> jobs'[i].old]
         /\ jobs'[i].replace = jobs[i].replace
         /\ jobs'[i].payload \in {jobs[i].payload, EmptyFile}
         /\ jobs'[i].status = "none" => jobs[i].status = "none"
         /\ jobs'[i].status = "succeeded" => jobs[i].status = "succeeded"

LEMMA JobsOnlyKept ==
  ASSUME ImportInv, JobsOnly, UNCHANGED <<applied, deleted, copies, file, backups, export>>
  PROVE  /\ FilesTyped'
         /\ \A i \in Jobs : /\ applied'[i] <= 1
                            /\ applied'[i] = 1 => jobs'[i].payload = EmptyFile
                            /\ jobs'[i].status = "succeeded" => applied'[i] = 1
         /\ \A d \in deleted' : KeptOf(d)'
<1>1. FilesTyped'
  BY EmptyTabled DEF ImportInv, FilesTyped, JobsOnly
<1>2. \A i \in Jobs : /\ applied'[i] <= 1
                      /\ applied'[i] = 1 => jobs'[i].payload = EmptyFile
                      /\ jobs'[i].status = "succeeded" => applied'[i] = 1
  BY DEF ImportInv, WrittenOnce, JobsOnly
<1>3. \A d \in deleted' : KeptOf(d)'
  BY DEF ImportInv, Copied, KeptOf, JobsOnly
<1> QED BY <1>1, <1>2, <1>3

\* The jobs' rows stay as they are.
LEMMA JobsSame ==
  ASSUME ImportInv, UNCHANGED jobs
  PROVE  JobsOnly
BY DEF ImportInv, JobsTyped, JobsOnly

\* markFailed.
LEMMA FailedJob ==
  ASSUME ImportInv, NEW j \in Jobs, jobs[j].status # "none", jobs' = Failed(j)
  PROVE  JobsOnly
<1>1. DOMAIN jobs = Jobs /\ DOMAIN jobs' = Jobs /\ jobs' = [jobs EXCEPT ![j].status = "failed", ![j].payload = EmptyFile]
  BY DEF ImportInv, JobsTyped, Failed
<1>2. \A i \in Jobs : i # j => jobs'[i] = jobs[i]
  BY <1>1
<1>3. jobs[j] = [status |-> jobs[j].status, payload |-> jobs[j].payload,
                 replace |-> jobs[j].replace, old |-> jobs[j].old]
  BY DEF ImportInv, JobsTyped
<1>4. jobs'[j] = [status |-> "failed", payload |-> EmptyFile, replace |-> jobs[j].replace, old |-> jobs[j].old]
  BY <1>1, <1>3
<1> QED BY <1>1, <1>2, <1>4 DEF JobsOnly, ImportInv, JobsTyped

\* A worker that lets its job go leaves the invariant.
LEMMA LetGoKept ==
  ASSUME ImportInv, NEW w \in Workers, work[w].stage # "idle",
         work' = [work EXCEPT ![w] = NoWork],
         DOMAIN queue' = Jobs, \A i \in Jobs : i # work[w].job => queue'[i] = queue[i],
         DOMAIN queue'[work[w].job] = {"state", "made", "stalls", "by"},
         JobsOnly, UNCHANGED <<db, broken, applied, deleted, copies, file, backups, export>>
  PROVE  ImportInv'
<1>0. WorkTyped /\ OneWorker /\ JobsTyped
  BY DEF ImportInv
<1>1. /\ WorkTyped'
      /\ \A i \in Jobs : jobs[i].status = "none" => queue'[i] = queue[i]
      /\ \A v \in Workers : work'[v].stage # "idle" =>
           /\ work'[v] = work[v] /\ work[v].job # work[w].job
           /\ queue'[work[v].job] = queue[work[v].job]
  BY <1>0, LetGo
<1>2. JobsTyped'
  BY <1>0, <1>1 DEF JobsTyped, JobsOnly
<1>3. OneWorker'
  BY <1>0, <1>1 DEF OneWorker, JobsOnly
<1>4. WrittenOnce'
  BY <1>1, JobsOnlyKept DEF ImportInv, WrittenOnce
<1>5. AcceptedOnly'
  BY <1>1 DEF ImportInv, AcceptedOnly
<1>6. Copied'
  BY <1>0, <1>1, JobsOnlyKept DEF ImportInv, Copied, JobsOnly, OneWorker
<1> QED BY <1>1, <1>2, <1>3, <1>4, <1>5, <1>6, BooksKept, JobsOnlyKept DEF ImportInv

\* A worker at work holds its job.
LEMMA HoldsIt ==
  ASSUME ImportInv, NEW w \in Workers, work[w].stage # "idle"
  PROVE  /\ work[w].job \in Jobs /\ Holds(w) /\ jobs[work[w].job].status # "none"
         /\ DOMAIN queue = Jobs /\ DOMAIN queue[work[w].job] = {"state", "made", "stalls", "by"}
<1>1. work[w].job \in Jobs /\ queue[work[w].job].state = "active" /\ queue[work[w].job].by = w
  BY DEF ImportInv, OneWorker
<1>2. jobs[work[w].job].status # "none"
  BY <1>1 DEF ImportInv, OneWorker
<1> QED BY <1>1, <1>2 DEF Holds, ImportInv, JobsTyped

LEMMA AcknowledgeKeeps ==
  ASSUME ImportInv, NEW w \in Workers, Acknowledge(w) PROVE ImportInv'
<1>1. work[w].stage # "idle" /\ work' = [work EXCEPT ![w] = NoWork] /\ UNCHANGED jobs
      /\ UNCHANGED <<db, broken, applied, deleted, copies, file, backups, export>>
  BY DEF Acknowledge
<1>2. /\ DOMAIN queue' = Jobs /\ DOMAIN queue'[work[w].job] = {"state", "made", "stalls", "by"}
      /\ \A i \in Jobs : i # work[w].job => queue'[i] = queue[i]
  BY <1>1, HoldsIt DEF Acknowledge
<1> QED BY <1>1, <1>2, JobsSame, LetGoKept

LEMMA FailKeeps ==
  ASSUME ImportInv, NEW w \in Workers, Fail(w) PROVE ImportInv'
<1> DEFINE final == queue[work[w].job].made + 1 >= MaxAttempts
<1>1. work[w].stage # "idle" /\ work' = [work EXCEPT ![w] = NoWork]
      /\ jobs' = (IF final THEN Failed(work[w].job) ELSE jobs)
      /\ UNCHANGED <<db, broken, applied, deleted, copies, file, backups, export>>
  BY DEF Fail
<1>2. /\ DOMAIN queue' = Jobs /\ DOMAIN queue'[work[w].job] = {"state", "made", "stalls", "by"}
      /\ \A i \in Jobs : i # work[w].job => queue'[i] = queue[i]
  BY <1>1, HoldsIt DEF Fail
<1>3. JobsOnly
  <2>1. CASE final
    <3>1. jobs' = Failed(work[w].job)
      BY <1>1, <2>1
    <3> QED BY <3>1, <1>1, HoldsIt, FailedJob
  <2>2. CASE ~ final
    <3>1. UNCHANGED jobs
      BY <1>1, <2>2
    <3> QED BY <3>1, JobsSame
  <2> QED BY <2>1, <2>2
<1> HIDE DEF final
<1> QED BY <1>1, <1>2, <1>3, LetGoKept

LEMMA CrashKeeps ==
  ASSUME ImportInv, NEW w \in Workers, Crash(w) PROVE ImportInv'
<1>1. work[w].stage # "idle" /\ work' = [work EXCEPT ![w] = NoWork] /\ UNCHANGED jobs
      /\ UNCHANGED <<db, broken, applied, deleted, copies, file, backups, export>>
  BY DEF Crash, ImportInv, WorkTyped, NoWork
<1>2. /\ DOMAIN queue' = Jobs /\ DOMAIN queue'[work[w].job] = {"state", "made", "stalls", "by"}
      /\ \A i \in Jobs : i # work[w].job => queue'[i] = queue[i]
  BY <1>1, HoldsIt DEF Crash, Stalled
<1> QED BY <1>1, <1>2, JobsSame, LetGoKept

\* POST /backup/import: the new row is the only one that is not a given-up one.
LEMMA EnqueueKeeps ==
  ASSUME ImportInv, NEW j \in Jobs, NEW replace, NEW f \in backups \cup {file}, Enqueue(j, f, replace)
  PROVE  ImportInv'
<1>1. /\ jobs[j].status = "none"
      /\ UNCHANGED <<db, work, copies, export, backups, deleted, applied, broken, file>>
  BY DEF Enqueue
<1>2. DOMAIN jobs = Jobs /\ DOMAIN queue = Jobs /\ queue[j].state = "none" /\ applied[j] = 0
  BY <1>1 DEF ImportInv, OneWorker, JobsTyped
<1>3. /\ DOMAIN jobs' = Jobs
      /\ \A i \in Jobs : i # j => jobs'[i] = IF Active(i) THEN [jobs[i] EXCEPT !.status = "failed", !.payload = EmptyFile]
                                             ELSE jobs[i]
  BY DEF Enqueue
<1>4. ASSUME NEW i \in Jobs, i # j
      PROVE  /\ jobs'[i] = [status |-> jobs'[i].status, payload |-> jobs'[i].payload,
                            replace |-> jobs'[i].replace, old |-> jobs'[i].old]
             /\ jobs'[i].replace = jobs[i].replace
             /\ jobs'[i].payload \in {jobs[i].payload, EmptyFile}
             /\ jobs'[i].status = "none" => jobs[i].status = "none"
             /\ jobs'[i].status = "succeeded" => jobs[i].status = "succeeded"
  <2>1. jobs[i] = [status |-> jobs[i].status, payload |-> jobs[i].payload,
                   replace |-> jobs[i].replace, old |-> jobs[i].old]
    BY DEF ImportInv, JobsTyped
  <2>2. CASE Active(i)
    <3>1. jobs'[i] = [jobs[i] EXCEPT !.status = "failed", !.payload = EmptyFile]
      BY <1>3, <1>4, <2>2
    <3>2. jobs'[i] = [status |-> "failed", payload |-> EmptyFile, replace |-> jobs[i].replace, old |-> jobs[i].old]
      BY <3>1, <2>1
    <3> QED BY <3>2
  <2>3. CASE ~ Active(i)
    BY <1>3, <1>4, <2>1, <2>3
  <2> QED BY <2>2, <2>3
<1>5. /\ DOMAIN queue' = Jobs /\ DOMAIN queue'[j] = {"state", "made", "stalls", "by"}
      /\ \A i \in Jobs : i # j => queue'[i] = queue[i]
  BY <1>2 DEF Enqueue, ImportInv, JobsTyped
<1>6. Tabled(f.data)
  BY DEF ImportInv, FilesTyped
<1>7. \A w \in Workers : work[w].stage # "idle" => work[w].job \in Jobs /\ work[w].job # j
  BY <1>2 DEF ImportInv, OneWorker
<1>16. jobs'[j].payload = f /\ jobs'[j].status = "queued"
       /\ jobs'[j] = [status |-> jobs'[j].status, payload |-> jobs'[j].payload,
                      replace |-> jobs'[j].replace, old |-> jobs'[j].old]
  <2>1. jobs'[j] = [status |-> "queued", payload |-> f, replace |-> replace, old |-> FALSE]
    BY DEF Enqueue
  <2> QED BY <2>1
<1>17. DOMAIN jobs' = Jobs
  BY <1>3
<1>8. FilesTyped'
  <2>1. ASSUME NEW i \in Jobs PROVE Tabled(jobs'[i].payload.data)
    <3>1. CASE i = j
      BY <3>1, <1>6, <1>16
    <3>2. CASE i # j
      BY <3>2, <1>4, EmptyTabled DEF ImportInv, FilesTyped
    <3> QED BY <3>1, <3>2
  <2> QED BY <1>1, <2>1 DEF ImportInv, FilesTyped
<1>9. JobsTyped'
  BY <1>1, <1>4, <1>5, <1>16, <1>17 DEF ImportInv, JobsTyped
<1>10. WorkTyped'
  BY <1>1 DEF ImportInv, WorkTyped
<1>11. OneWorker'
  <2>1. \A i \in Jobs : jobs'[i].status = "none" => queue'[i].state = "none" /\ applied'[i] = 0
    <3> SUFFICES ASSUME NEW i \in Jobs, jobs'[i].status = "none"
                 PROVE  queue'[i].state = "none" /\ applied'[i] = 0
      OBVIOUS
    <3>1. i # j
      BY <1>16
    <3>2. jobs[i].status = "none"
      BY <3>1, <1>4
    <3>3. queue[i].state = "none" /\ applied[i] = 0
      BY <3>2 DEF ImportInv, OneWorker
    <3> QED BY <3>1, <3>3, <1>1, <1>5
  <2>2. \A w \in Workers : work'[w].stage # "idle" =>
          work'[w].job \in Jobs /\ queue'[work'[w].job].state = "active" /\ queue'[work'[w].job].by = w
    BY <1>1, <1>5, <1>7 DEF ImportInv, OneWorker
  <2> QED BY <2>1, <2>2 DEF OneWorker
<1>12. WrittenOnce'
  <2>1. ASSUME NEW i \in Jobs
        PROVE  /\ applied'[i] <= 1 /\ (applied'[i] = 1 => jobs'[i].payload = EmptyFile)
               /\ (jobs'[i].status = "succeeded" => applied'[i] = 1)
    <3>1. CASE i = j
      BY <3>1, <1>1, <1>2, <1>16
    <3>2. CASE i # j
      BY <3>2, <1>1, <1>4 DEF ImportInv, WrittenOnce
    <3> QED BY <3>1, <3>2
  <2>2. \A w \in Workers : work'[w].stage \in {"checked", "writing"} => applied'[work'[w].job] = 0
    BY <1>1 DEF ImportInv, WrittenOnce
  <2> QED BY <2>1, <2>2 DEF WrittenOnce
<1>13. AcceptedOnly'
  BY <1>1 DEF ImportInv, AcceptedOnly
<1>14. Copied'
  <2>1. \A w \in Workers : work'[w].stage = "writing" /\ jobs'[work'[w].job].replace =>
          Tabled(work'[w].seen) /\ copies'[work'[w].job] = BuildTenantSnapshot(work'[w].seen)
    BY <1>1, <1>4, <1>7 DEF ImportInv, Copied
  <2>2. ASSUME NEW d \in deleted PROVE KeptOf(d)'
    <3>1. KeptOf(d)
      BY DEF ImportInv, Copied
    <3>2. d.job # j
      BY <1>2, <3>1 DEF KeptOf
    <3> QED BY <1>1, <1>4, <3>1, <3>2 DEF KeptOf
  <2> QED BY <1>1, <2>1, <2>2 DEF Copied
<1>15. ShopTyped' /\ AcceptedFits' /\ CountersCover'
  BY <1>1, BooksKept
<1> QED BY <1>8, <1>9, <1>10, <1>11, <1>12, <1>13, <1>14, <1>15 DEF ImportInv

LEMMA HalfHourKeeps ==
  ASSUME ImportInv, NEW j \in Jobs, HalfHour(j) PROVE ImportInv'
<1>1. UNCHANGED <<db, queue, work, copies, export, backups, deleted, applied, broken, file>>
  BY DEF HalfHour
<1>2. JobsOnly
  <2>1. DOMAIN jobs' = Jobs /\ jobs'[j] = [jobs[j] EXCEPT !.old = TRUE]
        /\ \A i \in Jobs : i # j => jobs'[i] = jobs[i]
    BY DEF HalfHour, ImportInv, JobsTyped
  <2>2. jobs[j] = [status |-> jobs[j].status, payload |-> jobs[j].payload,
                   replace |-> jobs[j].replace, old |-> jobs[j].old]
    BY DEF ImportInv, JobsTyped
  <2>3. jobs'[j] = [status |-> jobs[j].status, payload |-> jobs[j].payload,
                    replace |-> jobs[j].replace, old |-> TRUE]
    BY <2>1, <2>2
  <2> QED BY <2>1, <2>3 DEF JobsOnly, ImportInv, JobsTyped
<1>3. JobsTyped'
  BY <1>1, <1>2 DEF ImportInv, JobsTyped, JobsOnly
<1>4. WorkTyped' /\ AcceptedOnly'
  BY <1>1 DEF ImportInv, WorkTyped, AcceptedOnly
<1>5. OneWorker'
  BY <1>1, <1>2 DEF ImportInv, OneWorker, JobsOnly
<1>6. WrittenOnce'
  BY <1>1, <1>2, JobsOnlyKept DEF ImportInv, WrittenOnce
<1>7. Copied'
  BY <1>1, <1>2, JobsOnlyKept DEF ImportInv, Copied, JobsOnly, OneWorker
<1> QED BY <1>1, <1>2, <1>3, <1>4, <1>5, <1>6, <1>7, BooksKept, JobsOnlyKept DEF ImportInv

\* The worker takes the job the queue hands it.
LEMMA TakeJobKeeps ==
  ASSUME ImportInv, NEW w \in Workers, NEW j \in Jobs, TakeJob(w, j) PROVE ImportInv'
<1>1. /\ work[w].stage = "idle" /\ queue[j].state = "waiting" /\ MarkRunning(j)
      /\ UNCHANGED <<db, copies, export, backups, deleted, applied, broken, file>>
  BY DEF TakeJob
<1>2. jobs[j].status # "none"
  BY <1>1 DEF ImportInv, OneWorker
<1>3. JobsOnly
  <2>1. CASE UNCHANGED jobs
    BY <2>1, JobsSame
  <2>2. CASE jobs' = [jobs EXCEPT ![j].status = "running", ![j].old = FALSE]
    <3>1. DOMAIN jobs = Jobs /\ DOMAIN jobs' = Jobs
      BY <2>2 DEF ImportInv, JobsTyped
    <3>2. \A i \in Jobs : i # j => jobs'[i] = jobs[i]
      BY <2>2, <3>1
    <3>3. jobs[j] = [status |-> jobs[j].status, payload |-> jobs[j].payload,
                     replace |-> jobs[j].replace, old |-> jobs[j].old]
      BY DEF ImportInv, JobsTyped
    <3>4. jobs'[j] = [status |-> "running", payload |-> jobs[j].payload, replace |-> jobs[j].replace, old |-> FALSE]
      BY <2>2, <3>1, <3>3
    <3> QED BY <3>1, <3>2, <3>4 DEF JobsOnly, ImportInv, JobsTyped
  <2> QED BY <1>1, <2>1, <2>2 DEF MarkRunning
<1>4. /\ DOMAIN queue' = Jobs /\ DOMAIN queue'[j] = {"state", "made", "stalls", "by"}
      /\ queue'[j].state = "active" /\ queue'[j].by = w
      /\ \A i \in Jobs : i # j => queue'[i] = queue[i]
  <2>1. DOMAIN queue = Jobs /\ DOMAIN queue[j] = {"state", "made", "stalls", "by"}
    BY DEF ImportInv, JobsTyped
  <2> QED BY <2>1 DEF TakeJob
<1>5. PICK stage \in {"refused", "marked"} :
        work' = [work EXCEPT ![w] = [NoWork EXCEPT !.job = j, !.stage = stage]]
  BY DEF TakeJob
<1>6. DOMAIN NoWork = {"job", "stage", "file", "seen"}
  BY DEF NoWork
<1>7. /\ DOMAIN work' = Workers
      /\ DOMAIN work'[w] = {"job", "stage", "file", "seen"} /\ work'[w].job = j /\ work'[w].stage = stage
      /\ \A v \in Workers : v # w => work'[v] = work[v]
  BY <1>5, <1>6 DEF ImportInv, WorkTyped
<1>8. \A v \in Workers : v # w /\ work[v].stage # "idle" => work[v].job \in Jobs /\ work[v].job # j
  BY <1>1 DEF ImportInv, OneWorker
<1>9. WorkTyped'
  BY <1>7 DEF ImportInv, WorkTyped
<1>10. JobsTyped'
  BY <1>1, <1>3, <1>4 DEF ImportInv, JobsTyped, JobsOnly
<1>11. OneWorker'
  BY <1>1, <1>2, <1>3, <1>4, <1>7, <1>8 DEF ImportInv, OneWorker, JobsOnly
<1>12. WrittenOnce'
  BY <1>1, <1>3, <1>7, JobsOnlyKept DEF ImportInv, WrittenOnce
<1>13. AcceptedOnly'
  BY <1>7 DEF ImportInv, AcceptedOnly
<1>14. Copied'
  BY <1>1, <1>3, <1>7, <1>8, JobsOnlyKept DEF ImportInv, Copied, JobsOnly
<1> QED BY <1>1, <1>3, <1>9, <1>10, <1>11, <1>12, <1>13, <1>14, BooksKept, JobsOnlyKept DEF ImportInv

-----------------------------------------------------------------------------
(* Steps of a worker *)

\* A worker's step that leaves jobs, queue and shop alone.
LEMMA StepKept ==
  ASSUME ImportInv, NEW w \in Workers, work[w].stage # "idle", WorkTyped',
         \A v \in Workers : v # w => work'[v] = work[v],
         work'[w].job = work[w].job, work'[w].stage # "idle",
         UNCHANGED <<db, jobs, queue, applied, deleted, file, backups, export>>, AcceptedFits',
         DOMAIN copies' = Jobs,
         \A i \in Jobs : i # work[w].job \/ applied[i] = 1 => copies'[i] = copies[i],
         work'[w].stage \in {"checked", "writing"} =>
            applied[work[w].job] = 0 /\ ~ Refused(work'[w].file) /\ Tabled(work'[w].file.data),
         work'[w].stage = "writing" /\ jobs[work[w].job].replace =>
            Tabled(work'[w].seen) /\ copies'[work[w].job] = BuildTenantSnapshot(work'[w].seen)
  PROVE  ImportInv'
<1>1. work[w].job \in Jobs
  BY DEF ImportInv, OneWorker
<1>2. ASSUME NEW v \in Workers, v # w, work[v].stage # "idle"
      PROVE  work[v].job \in Jobs /\ work[v].job # work[w].job
  BY <1>2, OwnJob DEF ImportInv, OneWorker
<1>3. FilesTyped'
  BY DEF ImportInv, FilesTyped
<1>4. JobsTyped'
  BY DEF ImportInv, JobsTyped
<1>5. OneWorker'
  <2>1. \A v \in Workers : work'[v].stage # "idle" => work[v].stage # "idle" /\ work'[v].job = work[v].job
    OBVIOUS
  <2> QED BY <2>1 DEF ImportInv, OneWorker
<1>6. WrittenOnce'
  <2>1. \A v \in Workers : work'[v].stage \in {"checked", "writing"} => applied'[work'[v].job] = 0
    BY DEF ImportInv, WrittenOnce
  <2> QED BY <2>1 DEF ImportInv, WrittenOnce
<1>7. AcceptedOnly'
  BY DEF ImportInv, AcceptedOnly
<1>8. Copied'
  <2>1. ASSUME NEW v \in Workers, work'[v].stage = "writing", jobs'[work'[v].job].replace
        PROVE  Tabled(work'[v].seen) /\ copies'[work'[v].job] = BuildTenantSnapshot(work'[v].seen)
    <3>1. CASE v = w
      BY <2>1, <3>1
    <3>2. CASE v # w
      <4>1. work'[v] = work[v] /\ work[v].job \in Jobs /\ work[v].job # work[w].job
        BY <2>1, <3>2, <1>2
      <4>2. copies'[work[v].job] = copies[work[v].job]
        BY <4>1
      <4>3. Tabled(work[v].seen) /\ copies[work[v].job] = BuildTenantSnapshot(work[v].seen)
        BY <2>1, <4>1 DEF ImportInv, Copied
      <4> QED BY <4>1, <4>2, <4>3
    <3> QED BY <3>1, <3>2
  <2>2. ASSUME NEW d \in deleted PROVE KeptOf(d)'
    <3>1. KeptOf(d)
      BY DEF ImportInv, Copied
    <3> QED BY <3>1 DEF KeptOf
  <2> QED BY <2>1, <2>2 DEF Copied
<1>9. shop' = shop /\ counters' = counters
  BY DEF db
<1>10. ShopTyped' /\ CountersCover'
  BY <1>9 DEF ImportInv, ShopTyped, CountersCover
<1> QED BY <1>3, <1>4, <1>5, <1>6, <1>7, <1>8, <1>10 DEF ImportInv

LEMMA ProcessJobKeeps ==
  ASSUME ImportInv, NEW w \in Workers, ProcessJob(w) PROVE ImportInv'
<1>1. /\ work[w].stage = "marked"
      /\ UNCHANGED <<db, jobs, queue, copies, export, backups, deleted, applied, broken, file>>
  BY DEF ProcessJob
<1>2. DOMAIN copies' = Jobs /\ \A i \in Jobs : copies'[i] = copies[i]
  BY <1>1 DEF ImportInv, JobsTyped
<1>3. WorkTyped /\ AcceptedFits'
  BY <1>1, BooksKept DEF ImportInv
<1>4. CASE Step(w, "committed") \/ Step(w, "threw")
  <2>1. PICK s \in {"committed", "threw"} : Step(w, s)
    BY <1>4
  <2>2. /\ WorkTyped'
        /\ \A v \in Workers : v # w => work'[v] = work[v]
        /\ work'[w].job = work[w].job /\ work'[w].stage = s
    <3>1. s # "idle" /\ work[w].stage # "idle"
      BY <1>1
    <3> QED BY <1>3, <2>1, <3>1, StepTyped
  <2> QED BY <1>1, <1>2, <1>3, <2>2, StepKept
<1>5. CASE /\ HasPayload(work[w].job) /\ Preflight(jobs[work[w].job].payload, jobs[work[w].job].replace)
           /\ work' = [work EXCEPT ![w] = [job |-> work[w].job, stage |-> "checked",
                                           file |-> jobs[work[w].job].payload, seen |-> NoRows]]
  <2>1. work[w].job \in Jobs
    BY <1>1 DEF ImportInv, OneWorker
  <2>2. /\ DOMAIN work' = Workers
        /\ work'[w] = [job |-> work[w].job, stage |-> "checked", file |-> jobs[work[w].job].payload, seen |-> NoRows]
        /\ \A v \in Workers : v # w => work'[v] = work[v]
    BY <1>3, <1>5 DEF WorkTyped
  <2>3. WorkTyped'
    BY <1>3, <2>2 DEF WorkTyped
  <2>4. applied[work[w].job] = 0
    <3>1. applied[work[w].job] # 1 /\ applied[work[w].job] <= 1 /\ applied[work[w].job] \in Nat
      BY <1>5, <2>1 DEF ImportInv, WrittenOnce, HasPayload, JobsTyped
    <3> QED BY <3>1
  <2>5. ~ Refused(work'[w].file) /\ Tabled(work'[w].file.data)
    BY <1>5, <2>1, <2>2 DEF Preflight, ImportInv, FilesTyped
  <2>6. work'[w].job = work[w].job /\ work'[w].stage = "checked"
    BY <2>2
  <2> QED BY <1>1, <1>2, <1>3, <2>2, <2>3, <2>4, <2>5, <2>6, StepKept
<1> QED BY <1>4, <1>5 DEF ProcessJob

\* The transaction's snapshot, and the copy of it.
LEMMA BeginTxKeeps ==
  ASSUME ImportInv, NEW w \in Workers, BeginTx(w) PROVE ImportInv'
<1> DEFINE j == work[w].job
<1>1. /\ work[w].stage = "checked"
      /\ copies' = IF jobs[j].replace THEN [copies EXCEPT ![j] = BuildTenantSnapshot(shop)] ELSE copies
      /\ UNCHANGED <<db, jobs, queue, export, backups, deleted, applied, broken, file>>
  BY DEF BeginTx
<1>2. WorkTyped /\ j \in Jobs /\ applied[j] = 0 /\ ~ Refused(work[w].file) /\ Tabled(work[w].file.data)
  BY <1>1 DEF ImportInv, OneWorker, WrittenOnce, AcceptedOnly
<1>3. DOMAIN copies' = Jobs /\ \A i \in Jobs : i # j \/ applied[i] = 1 => copies'[i] = copies[i]
  BY <1>1, <1>2 DEF ImportInv, JobsTyped
<1>6. AcceptedFits' /\ Tabled(shop)
  BY <1>1, BooksKept DEF ImportInv, ShopTyped
<1>4. CASE jobs[j].replace \/ AssertNoTransactions(shop)
  <2>1. work' = [work EXCEPT ![w].stage = "writing", ![w].seen = shop]
    BY <1>4 DEF BeginTx
  <2>2. /\ DOMAIN work' = Workers /\ \A v \in Workers : v # w => work'[v] = work[v]
        /\ DOMAIN work'[w] = {"job", "stage", "file", "seen"}
        /\ work'[w].job = j /\ work'[w].stage = "writing"
        /\ work'[w].file = work[w].file /\ work'[w].seen = shop
    BY <1>2, <2>1 DEF WorkTyped
  <2>3. WorkTyped'
    BY <1>2, <2>2 DEF WorkTyped
  <2>4. jobs[j].replace => copies'[j] = BuildTenantSnapshot(work'[w].seen)
    BY <1>1, <1>2, <2>2 DEF ImportInv, JobsTyped
  <2> HIDE DEF j
  <2> QED BY <1>1, <1>2, <1>3, <1>6, <2>2, <2>3, <2>4, StepKept DEF j
<1>5. CASE ~ (jobs[j].replace \/ AssertNoTransactions(shop))
  <2>1. Step(w, "threw")
    BY <1>5 DEF BeginTx
  <2>2. /\ WorkTyped'
        /\ \A v \in Workers : v # w => work'[v] = work[v]
        /\ work'[w].job = work[w].job /\ work'[w].stage = "threw"
    BY <1>1, <1>2, <2>1, StepTyped
  <2> QED BY <1>1, <1>3, <1>6, <2>2, StepKept
<1> QED BY <1>4, <1>5

\* What is left of the shop after the deletes of an import.
LEMMA EmptiedTabled ==
  ASSUME ShopTyped, NEW w, NEW replace, NEW base, base = Emptied(w, replace)
  PROVE  /\ Tabled(base)
         /\ \A t \in Tables : base[t] \subseteq shop[t]
         /\ IdsDiffer(base["payment_accounts"]) /\ IdsDiffer(base["owner_review_items"])
         /\ Cardinality({a \in Live(base["payment_accounts"]) : a.default}) <= 1
<1> DEFINE E == EmptiedTables(replace, work[w].file)
<1>1. \A t \in Tables : base[t] = IF t \in E THEN shop[t] \ Visible(w)[t] ELSE shop[t]
  BY DEF Emptied
<1>2. \A t \in Tables : base[t] \subseteq shop[t]
  BY <1>1
<1>3. "settings" \in Tables /\ "settings" \notin E
  BY TableNames DEF EmptiedTables, WrittenTo, Replaced, Carried, NeverCopied, Transactions, Numbered, People
<1>4. base["settings"] = shop["settings"]
  BY <1>1, <1>3
<1> HIDE DEF E
<1>5. /\ \A t \in Numbered \cup {"payment_accounts"} : t \in Tables
      /\ "payment_accounts" \in Tables /\ "owner_review_items" \in Tables
  BY TableNames
<1>6. \A t \in Numbered \cup {"payment_accounts"} : IsFiniteSet(base[t])
  <2> TAKE t \in Numbered \cup {"payment_accounts"}
  <2>1. IsFiniteSet(shop[t]) /\ base[t] \subseteq shop[t]
    BY <1>2, <1>5 DEF ShopTyped, Tabled
  <2> QED BY <2>1, FS_Subset
<1>7. \A t \in Tables : \A r \in base[t] : r = [c \in Columns(t) |-> r[c]]
  BY <1>2 DEF ShopTyped, Tabled
<1>8. \A t \in Numbered : \A r \in base[t] : r.no[1] \in Devices => r.no[2] \in Nat
  BY <1>2, <1>5 DEF ShopTyped, Tabled
<1>9. IdsDiffer(base["settings"])
  BY <1>4 DEF ShopTyped, Tabled
<1>10. IdsDiffer(base["payment_accounts"]) /\ IdsDiffer(base["owner_review_items"])
  BY <1>2, <1>5 DEF ShopTyped, IdsDiffer
<1>11. Cardinality({a \in Live(base["payment_accounts"]) : a.default}) <= 1
  <2> DEFINE F == {a \in Live(base["payment_accounts"]) : a.default}
             G == {a \in Live(shop["payment_accounts"]) : a.default}
  <2>1. F \subseteq G /\ G \subseteq shop["payment_accounts"]
    BY <1>2, <1>5 DEF Live
  <2>2. IsFiniteSet(shop["payment_accounts"]) /\ Cardinality(G) <= 1
    BY DEF ShopTyped, Tabled
  <2> HIDE DEF F, G
  <2>3. IsFiniteSet(G)
    BY <2>1, <2>2, FS_Subset
  <2>4. IsFiniteSet(F) /\ Cardinality(F) <= Cardinality(G)
    BY <2>1, <2>3, FS_Subset
  <2>5. Cardinality(F) \in Nat /\ Cardinality(G) \in Nat
    BY <2>3, <2>4, FS_CardinalityType
  <2>6. Cardinality(F) <= 1
    BY <2>2, <2>4, <2>5
  <2> QED BY <2>6 DEF F
<1> QED BY <1>2, <1>6, <1>7, <1>8, <1>9, <1>10, <1>11 DEF Tabled

\* What the database says to a file it refuses.
Refusal(f, base) ==
    [full |-> {t \in WrittenTo(f) : base[t] # {}}, by |-> Objections(f, WriteSnapshot(base, f))]

\* The commit that fails: a shop whose tables are empty refuses an accepted file only for
\* what the pre-flight leaves to it.
LEMMA CommitFailsKeeps ==
  ASSUME ImportInv, NEW w \in Workers, work[w].stage = "writing",
         NEW j, j = work[w].job, NEW base, base = Emptied(w, jobs[j].replace),
         broken' = broken \/ broken' = broken \cup {Refusal(work[w].file, base)},
         Step(w, "threw"),
         UNCHANGED <<db, jobs, deleted, applied, queue, copies, export, backups, file, bounds>>
  PROVE  ImportInv'
<1>1. WorkTyped /\ ShopTyped /\ ~ Refused(work[w].file) /\ Tabled(work[w].file.data)
  BY DEF ImportInv, AcceptedOnly
<1>2. AcceptedFits'
  <2>1. PICK f : f = work[w].file
    OBVIOUS
  <2>2. PICK r : r = Refusal(f, base)
    OBVIOUS
  <2>3. r.full = {t \in WrittenTo(f) : base[t] # {}} /\ r.by = Objections(f, WriteSnapshot(base, f))
    BY <2>2 DEF Refusal
  <2>4. ASSUME r.full = {} PROVE r.by \subseteq Unforeseen
    <3>1. \A t \in WrittenTo(f) : base[t] = {}
      BY <2>3, <2>4
    <3>2. /\ Tabled(base)
          /\ IdsDiffer(base["payment_accounts"]) /\ IdsDiffer(base["owner_review_items"])
          /\ Cardinality({a \in Live(base["payment_accounts"]) : a.default}) <= 1
      BY <1>1, EmptiedTabled
    <3>3. ~ Refused(f) /\ Tabled(f.data)
      BY <1>1, <2>1
    <3>4. Objections(f, WriteSnapshot(base, f)) \subseteq Unforeseen
      BY <3>1, <3>2, <3>3, AcceptedFileFits
    <3> QED BY <2>3, <3>4
  <2>5. \A b \in broken' : b \in broken \/ b = r
    BY <2>1, <2>2
  <2> QED BY <2>4, <2>5 DEF ImportInv, AcceptedFits
<1>3. /\ WorkTyped'
      /\ \A v \in Workers : v # w => work'[v] = work[v]
      /\ work'[w].job = work[w].job /\ work'[w].stage = "threw"
  BY <1>1, StepTyped
<1>4. DOMAIN copies' = Jobs /\ \A i \in Jobs : copies'[i] = copies[i]
  BY DEF ImportInv, JobsTyped
<1> QED BY <1>2, <1>3, <1>4, StepKept

\* The rows a worker's commit deletes.
Deletes(w, replace, j) ==
    UNION {{[table |-> t, id |-> r.id, job |-> j] : r \in Visible(w)[t]} :
             t \in EmptiedTables(replace, work[w].file)}

\* What it does to its job.
Succeeds(w, j) ==
    /\ deleted' = deleted \cup Deletes(w, jobs[j].replace, j)
    /\ applied' = [applied EXCEPT ![j] = @ + 1]
    /\ jobs' = [jobs EXCEPT ![j].status = "succeeded", ![j].payload = EmptyFile]
    /\ Step(w, "committed")

\* The commit that succeeds: everything at once, and the job's own success with it.
LEMMA CommitSucceedsKeeps ==
  ASSUME ImportInv, NEW w \in Workers, work[w].stage = "writing",
         NEW j, j = work[w].job, NEW base, base = Emptied(w, jobs[j].replace),
         NEW after, after = WriteSnapshot(base, work[w].file), Objections(work[w].file, after) = {},
         shop' = after, counters' = SeedDocCounters(counters, work[w].file),
         Succeeds(w, j),
         UNCHANGED <<broken, queue, copies, export, backups, file, bounds>>
  PROVE  ImportInv'
<1>1. WorkTyped /\ ShopTyped /\ JobsTyped /\ OneWorker /\ Tabled(work[w].file.data)
      /\ j \in Jobs /\ applied[j] = 0
  BY DEF ImportInv, AcceptedOnly, OneWorker, WrittenOnce
<1>2. Tabled(base) /\ \A t \in Tables : base[t] \subseteq shop[t]
  BY <1>1, EmptiedTabled
<1>3. DOMAIN after = Tables /\ Tabled(after)
  BY <1>1, <1>2, WrittenTabled
<1>4. /\ counters' \in [Numbered -> [Devices -> Nat]]
      /\ \A t \in Numbered, d \in Devices : counters[t][d] <= counters'[t][d]
      /\ \A t \in Numbered : \A r \in work[w].file.data[t] :
           r.no[1] \in Devices => r.no[2] <= counters'[t][r.no[1]]
  BY <1>1, Seeded DEF ShopTyped
<1>5. ShopTyped'
  <2>1. "payment_accounts" \in Tables /\ "owner_review_items" \in Tables
    BY TableNames
  <2>2. Violated(after) = {}
    BY DEF Objections
  <2>3. Satisfied("keys", after) /\ Satisfied("default account", after)
    BY <2>2 DEF Violated, Constraints
  <2>4. /\ IdsDiffer(after["payment_accounts"]) /\ IdsDiffer(after["owner_review_items"])
        /\ Cardinality({a \in Live(after["payment_accounts"]) : a.default}) <= 1
    BY <2>1, <2>3 DEF Satisfied
  <2> QED BY <1>3, <1>4, <2>4 DEF ShopTyped
<1>6. CountersCover'
  <2> SUFFICES ASSUME NEW t \in Numbered, NEW r \in after[t], r.no[1] \in Devices
               PROVE  r.no[2] <= counters'[t][r.no[1]]
    BY DEF CountersCover
  <2>1. t \in Tables /\ after[t] = Written(base, work[w].file, t)
    BY TableNames DEF WriteSnapshot
  <2>2. r \in base[t] \/ \E x \in work[w].file.data[t] : r.no = x.no
    <3>1. PICK f : f = work[w].file
      OBVIOUS
    <3>2. Tabled(f.data) /\ r \in Written(base, f, t)
      BY <1>1, <2>1, <3>1
    <3>3. \A x \in Written(base, f, t) : x \in base[t] \/ \E y \in f.data[t] : x.no = y.no
      BY <1>2, <3>2, WrittenNumbers
    <3> QED BY <3>1, <3>2, <3>3
  <2>3. CASE r \in base[t]
    <3>1. r \in shop[t]
      BY <1>2, <2>1, <2>3
    <3>2. r.no[2] <= counters[t][r.no[1]] /\ r.no[2] \in Nat
      BY <1>1, <3>1 DEF ImportInv, CountersCover, ShopTyped, Tabled
    <3>3. counters[t][r.no[1]] \in Nat /\ counters'[t][r.no[1]] \in Nat
      BY <1>1, <1>4 DEF ShopTyped
    <3>4. counters[t][r.no[1]] <= counters'[t][r.no[1]]
      BY <1>4
    <3> QED BY <3>2, <3>3, <3>4
  <2>4. CASE \E x \in work[w].file.data[t] : r.no = x.no
    BY <1>4, <2>4
  <2> QED BY <2>2, <2>3, <2>4
<1>7. /\ WorkTyped'
      /\ \A v \in Workers : v # w => work'[v] = work[v]
      /\ work'[w].job = j /\ work'[w].stage = "committed"
  BY <1>1, StepTyped DEF Succeeds
<1>8. /\ DOMAIN jobs' = Jobs /\ \A i \in Jobs : i # j => jobs'[i] = jobs[i]
      /\ jobs'[j] = [status |-> "succeeded", payload |-> EmptyFile, replace |-> jobs[j].replace, old |-> jobs[j].old]
  <2>1. jobs[j] = [status |-> jobs[j].status, payload |-> jobs[j].payload,
                   replace |-> jobs[j].replace, old |-> jobs[j].old]
    BY <1>1 DEF JobsTyped
  <2> QED BY <1>1, <2>1 DEF JobsTyped, Succeeds
<1>9. /\ applied' \in [Jobs -> Nat] /\ applied'[j] = 1 /\ \A i \in Jobs : i # j => applied'[i] = applied[i]
  <2>1. applied \in [Jobs -> Nat] /\ applied[j] = 0
    BY <1>1 DEF JobsTyped
  <2>2. applied' = [applied EXCEPT ![j] = @ + 1]
    BY <1>1 DEF Succeeds
  <2> QED BY <1>1, <2>1, <2>2
<1>10. \A v \in Workers : v # w /\ work[v].stage # "idle" => work[v].job \in Jobs /\ work[v].job # j
  BY <1>1, OwnJob DEF OneWorker
<1>11. FilesTyped'
  <2>1. \A i \in Jobs : jobs'[i].payload \in {jobs[i].payload, EmptyFile}
    BY <1>8
  <2> QED BY <2>1, EmptyTabled DEF ImportInv, FilesTyped
<1>12. JobsTyped'
  BY <1>8, <1>9 DEF ImportInv, JobsTyped
<1>13. OneWorker'
  <2>1. \A i \in Jobs : jobs'[i].status = "none" => queue'[i].state = "none" /\ applied'[i] = 0
    <3>1. jobs'[j].status = "succeeded"
      BY <1>8
    <3>2. ASSUME NEW i \in Jobs, i # j, jobs[i].status = "none"
          PROVE  queue[i].state = "none" /\ applied[i] = 0
      BY <1>1, <3>2 DEF OneWorker
    <3> QED BY <1>8, <1>9, <3>1, <3>2
  <2>2. \A v \in Workers : work'[v].stage # "idle" =>
          work'[v].job \in Jobs /\ queue'[work'[v].job].state = "active" /\ queue'[work'[v].job].by = v
    BY <1>1, <1>7 DEF OneWorker
  <2> QED BY <2>1, <2>2 DEF OneWorker
<1>14. WrittenOnce'
  <2>1. \A i \in Jobs : /\ applied'[i] <= 1
                        /\ applied'[i] = 1 => jobs'[i].payload = EmptyFile
                        /\ jobs'[i].status = "succeeded" => applied'[i] = 1
    BY <1>8, <1>9 DEF ImportInv, WrittenOnce
  <2>2. ASSUME NEW v \in Workers, work'[v].stage \in {"checked", "writing"} PROVE applied'[work'[v].job] = 0
    <3>1. v # w /\ work'[v] = work[v]
      BY <1>7, <2>2
    <3>2. work[v].job \in Jobs /\ work[v].job # j /\ applied[work[v].job] = 0
      BY <1>10, <2>2, <3>1 DEF ImportInv, WrittenOnce
    <3> QED BY <1>9, <3>1, <3>2
  <2> QED BY <2>1, <2>2 DEF WrittenOnce
<1>15. AcceptedOnly'
  BY <1>7 DEF ImportInv, AcceptedOnly
<1>16. Copied'
  <2>1. ASSUME NEW v \in Workers, work'[v].stage = "writing", jobs'[work'[v].job].replace
        PROVE  Tabled(work'[v].seen) /\ copies'[work'[v].job] = BuildTenantSnapshot(work'[v].seen)
    <3>1. v # w /\ work'[v] = work[v]
      BY <1>7, <2>1
    <3>2. work[v].job \in Jobs /\ work[v].job # j
      BY <1>10, <2>1, <3>1
    <3>3. jobs[work[v].job].replace
      BY <1>8, <2>1, <3>1, <3>2
    <3> QED BY <2>1, <3>1, <3>3 DEF ImportInv, Copied
  <2>2. ASSUME NEW d \in deleted PROVE KeptOf(d)'
    <3>1. KeptOf(d)
      BY DEF ImportInv, Copied
    <3>2. d.job # j
      BY <1>1, <3>1 DEF KeptOf
    <3> QED BY <1>8, <1>9, <3>1, <3>2 DEF KeptOf
  <2>3. ASSUME NEW t \in EmptiedTables(jobs[j].replace, work[w].file), NEW r \in Visible(w)[t]
        PROVE  IF jobs[j].replace THEN t \in NeverCopied \/ r.id \in Ids(copies[j].data[t])
               ELSE t = "payment_accounts"
    <3>1. CASE ~ jobs[j].replace
      BY <3>1 DEF EmptiedTables, WrittenTo
    <3>2. CASE jobs[j].replace /\ t \notin NeverCopied
      <4>1. t \in Tables
        BY DEF EmptiedTables, WrittenTo, Tables, Replaced
      <4>2. Tabled(work[w].seen) /\ copies[j] = BuildTenantSnapshot(work[w].seen)
        BY <3>2 DEF ImportInv, Copied
      <4>3. copies[j].data[t] = Section(work[w].seen, t)
        BY <4>1, <4>2 DEF BuildTenantSnapshot
      <4>4. Ids(Section(work[w].seen, t)) = Ids(work[w].seen[t])
        BY <3>2, <4>1, <4>2, SectionOf
      <4>5. r.id \in Ids(work[w].seen[t])
        BY DEF Visible, Ids
      <4> QED BY <3>2, <4>3, <4>4, <4>5
    <3>3. CASE jobs[j].replace /\ t \in NeverCopied
      BY <3>3
    <3> QED BY <3>1, <3>2, <3>3
  <2>4. ASSUME NEW d \in Deletes(w, jobs[j].replace, j) PROVE KeptOf(d)'
    <3>1. PICK t \in EmptiedTables(jobs[j].replace, work[w].file) :
            \E r \in Visible(w)[t] : d = [table |-> t, id |-> r.id, job |-> j]
      BY DEF Deletes
    <3>2. PICK r \in Visible(w)[t] : d = [table |-> t, id |-> r.id, job |-> j]
      BY <3>1
    <3>3. d.table = t /\ d.id = r.id /\ d.job = j
      BY <3>2
    <3>4. jobs'[j].replace = jobs[j].replace /\ copies' = copies
      BY <1>8
    <3> QED BY <1>1, <1>9, <2>3, <3>3, <3>4 DEF KeptOf
  <2>5. deleted' = deleted \cup Deletes(w, jobs[j].replace, j)
    BY DEF Succeeds
  <2> QED BY <2>1, <2>2, <2>4, <2>5 DEF Copied
<1>17. AcceptedFits'
  BY DEF ImportInv, AcceptedFits
<1> QED BY <1>5, <1>6, <1>7, <1>11, <1>12, <1>13, <1>14, <1>15, <1>16, <1>17 DEF ImportInv

LEMMA CommitKeeps ==
  ASSUME ImportInv, NEW w \in Workers, Commit(w) PROVE ImportInv'
<1>1. PICK j : j = work[w].job
  OBVIOUS
<1>2. PICK base : base = Emptied(w, jobs[j].replace)
  OBVIOUS
<1>3. PICK after : after = WriteSnapshot(base, work[w].file)
  OBVIOUS
<1>4. CASE Conflict(w, jobs[j].replace)
  <2>1. /\ work[w].stage = "writing" /\ broken' = broken
        /\ Step(w, "threw")
        /\ UNCHANGED <<db, jobs, deleted, applied, queue, copies, export, backups, file, bounds>>
    BY <1>1, <1>4 DEF Commit
  <2> QED BY <1>1, <1>2, <2>1, CommitFailsKeeps
<1>5. CASE ~ Conflict(w, jobs[j].replace) /\ Objections(work[w].file, after) # {}
  <2>1. /\ work[w].stage = "writing"
        /\ broken' = broken \cup {Refusal(work[w].file, base)}
        /\ Step(w, "threw")
        /\ UNCHANGED <<db, jobs, deleted, applied, queue, copies, export, backups, file, bounds>>
    BY <1>1, <1>2, <1>3, <1>5 DEF Commit, Refusal
  <2> QED BY <1>1, <1>2, <2>1, CommitFailsKeeps
<1>6. CASE ~ Conflict(w, jobs[j].replace) /\ Objections(work[w].file, after) = {}
  <2>1. /\ work[w].stage = "writing"
        /\ shop' = after /\ counters' = SeedDocCounters(counters, work[w].file)
        /\ Succeeds(w, j)
        /\ UNCHANGED <<broken, queue, copies, export, backups, file, bounds>>
    BY <1>1, <1>2, <1>3, <1>6 DEF Commit, Succeeds, Deletes
  <2> QED BY <1>1, <1>2, <1>3, <1>6, <2>1, CommitSucceedsKeeps
<1> QED BY <1>4, <1>5, <1>6

-----------------------------------------------------------------------------
(* Steps of the shop *)

\* A change of the shop's tables that no worker and no export takes part in.
LEMMA ShopMoves ==
  ASSUME ImportInv, DOMAIN shop' = Tables,
         counters' \in [Numbered -> [Devices -> Nat]],
         \A t \in Numbered, d \in Devices : counters[t][d] <= counters'[t][d],
         \A t \in Tables : \A r \in shop'[t] : r \in shop[t] \/ r = [c \in Columns(t) |-> r[c]],
         \A t \in Numbered : IsFiniteSet(shop'[t]),
         \A t \in Numbered : \A r \in shop'[t] : \/ r \in shop[t]
            \/ (r.no[1] \in Devices /\ r.no[2] \in Nat /\ r.no[2] <= counters'[t][r.no[1]]),
         \A t \in {"payment_accounts", "settings", "owner_review_items"} : shop'[t] = shop[t],
         UNCHANGED <<jobs, queue, work, copies, export, backups, deleted, applied, broken, file>>
  PROVE  ImportInv'
<1>1. Tabled(shop) /\ counters \in [Numbered -> [Devices -> Nat]]
  BY DEF ImportInv, ShopTyped
<1>2. \A t \in Tables : \A r \in shop'[t] : r = [c \in Columns(t) |-> r[c]]
  BY <1>1 DEF Tabled
<1>3. \A t \in Numbered \cup {"payment_accounts"} : IsFiniteSet(shop'[t])
  BY <1>1 DEF Tabled
<1>4. \A t \in Numbered : \A r \in shop'[t] : r.no[1] \in Devices => r.no[2] \in Nat
  BY <1>1 DEF Tabled
<1>5. IdsDiffer(shop'["settings"])
  BY <1>1 DEF Tabled
<1>6. ShopTyped'
  BY <1>2, <1>3, <1>4, <1>5 DEF ImportInv, ShopTyped, Tabled
<1>7. CountersCover'
  <2> SUFFICES ASSUME NEW t \in Numbered, NEW r \in shop'[t], r.no[1] \in Devices
               PROVE  r.no[2] <= counters'[t][r.no[1]]
    BY DEF CountersCover
  <2>1. CASE r \in shop[t]
    <3>1. r.no[2] <= counters[t][r.no[1]] /\ r.no[2] \in Nat
      BY <1>1, <2>1 DEF ImportInv, CountersCover, Tabled
    <3>2. counters[t][r.no[1]] \in Nat /\ counters'[t][r.no[1]] \in Nat
          /\ counters[t][r.no[1]] <= counters'[t][r.no[1]]
      BY <1>1
    <3> QED BY <3>1, <3>2
  <2>2. CASE r \notin shop[t]
    BY <2>2
  <2> QED BY <2>1, <2>2
<1>8. FilesTyped'
  BY DEF ImportInv, FilesTyped
<1>9. JobsTyped'
  BY DEF ImportInv, JobsTyped
<1>10. WorkTyped'
  BY DEF ImportInv, WorkTyped
<1>11. OneWorker'
  BY DEF ImportInv, OneWorker
<1>12. WrittenOnce'
  BY DEF ImportInv, WrittenOnce
<1>13. AcceptedOnly'
  BY DEF ImportInv, AcceptedOnly
<1>14. Copied'
  BY DEF ImportInv, Copied, KeptOf
<1>15. AcceptedFits'
  BY DEF ImportInv, AcceptedFits
<1> QED BY <1>6, <1>7, <1>8, <1>9, <1>10, <1>11, <1>12, <1>13, <1>14, <1>15 DEF ImportInv

\* The counter of a kind of document goes on.
Takes(t, d, no) == no = counters[t][d] + 1 /\ counters' = [counters EXCEPT ![t] = [@ EXCEPT ![d] = no]]

\* A document under its device's next number.
LEMMA Numbering ==
  ASSUME ShopTyped, NEW t \in Numbered, NEW d \in Devices,
         NEW no, Takes(t, d, no),
         NEW row, row.no = <<d, no>>, shop'[t] = shop[t] \cup {row},
         \A u \in Numbered : u # t => shop'[u] = shop[u]
  PROVE  /\ counters' \in [Numbered -> [Devices -> Nat]]
         /\ \A u \in Numbered, e \in Devices : counters[u][e] <= counters'[u][e]
         /\ \A u \in Numbered : IsFiniteSet(shop'[u])
         /\ \A u \in Numbered : \A r \in shop'[u] : \/ r \in shop[u]
            \/ (r.no[1] \in Devices /\ r.no[2] \in Nat /\ r.no[2] <= counters'[u][r.no[1]])
<1>1. counters \in [Numbered -> [Devices -> Nat]] /\ no \in Nat
      /\ counters[t][d] \in Nat /\ no = counters[t][d] + 1
  BY DEF ShopTyped, Takes
<1>2. counters' \in [Numbered -> [Devices -> Nat]]
  BY <1>1 DEF Takes
<1>3. \A u \in Numbered, e \in Devices : counters'[u][e] = IF u = t /\ e = d THEN no ELSE counters[u][e]
  BY <1>1 DEF Takes
<1>4. \A u \in Numbered, e \in Devices : counters[u][e] <= counters'[u][e]
  <2> TAKE u \in Numbered, e \in Devices
  <2>1. counters[u][e] \in Nat
    BY <1>1
  <2>2. CASE u = t /\ e = d
    BY <1>1, <1>3, <2>2
  <2>3. CASE ~ (u = t /\ e = d)
    BY <1>3, <2>1, <2>3
  <2> QED BY <2>2, <2>3
<1>5. \A u \in Numbered : IsFiniteSet(shop'[u])
  <2> TAKE u \in Numbered
  <2>1. IsFiniteSet(shop[u])
    BY DEF ShopTyped, Tabled
  <2>2. CASE u = t
    BY <2>1, <2>2, FS_AddElement
  <2>3. CASE u # t
    BY <2>1, <2>3
  <2> QED BY <2>2, <2>3
<1>6. row.no[1] = d /\ row.no[2] = no /\ counters'[t][d] = no
  BY <1>3
<1>7. \A u \in Numbered : \A r \in shop'[u] : \/ r \in shop[u]
            \/ (r.no[1] \in Devices /\ r.no[2] \in Nat /\ r.no[2] <= counters'[u][r.no[1]])
  <2> SUFFICES ASSUME NEW u \in Numbered, NEW r \in shop'[u], r \notin shop[u]
               PROVE  r.no[1] \in Devices /\ r.no[2] \in Nat /\ r.no[2] <= counters'[u][r.no[1]]
    OBVIOUS
  <2>1. u = t /\ r = row
    OBVIOUS
  <2>2. r.no[1] = d /\ r.no[2] = no /\ counters'[u][r.no[1]] = no
    BY <1>6, <2>1
  <2> QED BY <1>1, <2>2
<1> QED BY <1>2, <1>4, <1>5, <1>7

\* A change of products alone.
LEMMA ProductMoves ==
  ASSUME ImportInv, NEW rows, shop' = [shop EXCEPT !["products"] = rows],
         \A r \in rows : r \in shop["products"] \/ r = [c \in Columns("products") |-> r[c]],
         UNCHANGED counters,
         UNCHANGED <<jobs, queue, work, copies, export, backups, deleted, applied, broken, file>>
  PROVE  ImportInv'
<1>1. DOMAIN shop = Tables /\ counters' = counters /\ counters \in [Numbered -> [Devices -> Nat]]
  BY DEF ImportInv, ShopTyped
<1>2. "products" \in Tables /\ "products" \notin Numbered \cup {"payment_accounts", "settings", "owner_review_items"}
      /\ \A t \in Numbered \cup {"payment_accounts", "settings", "owner_review_items"} : t \in Tables
  BY TableNames
<1>3. DOMAIN shop' = Tables /\ shop'["products"] = rows
      /\ \A t \in Tables : t # "products" => shop'[t] = shop[t]
  BY <1>1, <1>2
<1>4. \A t \in Numbered \cup {"payment_accounts", "settings", "owner_review_items"} : shop'[t] = shop[t]
  BY <1>2, <1>3
<1>5. \A t \in Numbered : IsFiniteSet(shop'[t])
  BY <1>4 DEF ImportInv, ShopTyped, Tabled
<1>6. \A t \in Tables : \A r \in shop'[t] : r \in shop[t] \/ r = [c \in Columns(t) |-> r[c]]
  BY <1>3
<1>7. \A t \in Numbered, d \in Devices : counters[t][d] \in Nat /\ counters[t][d] <= counters'[t][d]
  BY <1>1
<1> QED BY <1>1, <1>3, <1>4, <1>5, <1>6, <1>7, ShopMoves

\* The row of a product that there is.
LEMMA ProductRow ==
  ASSUME ImportInv, NEW p \in Ids(shop["products"]), NEW row, row = Named(shop["products"], p)
  PROVE  /\ row \in shop["products"] /\ row = [c \in Columns("products") |-> row[c]]
         /\ Columns("products") = {"id", "part", "category", "live", "stock"}
<1>1. row \in shop["products"]
  BY NamedIs
<1>2. "products" \in Tables
  BY TableNames
<1>3. row = [c \in Columns("products") |-> row[c]]
  BY <1>1, <1>2 DEF ImportInv, ShopTyped, Tabled
<1>4. Columns("products") = {"id", "part", "category", "live", "stock"}
  BY DEF Columns, People
<1> QED BY <1>1, <1>3, <1>4

\* A document and the stock it moves.
LEMMA DocumentMoves ==
  ASSUME ImportInv, NEW t \in Numbered, NEW d \in Devices, NEW no, Takes(t, d, no),
         NEW row, row.no = <<d, no>>, row = [c \in Columns(t) |-> row[c]],
         NEW rows, \A r \in rows : r \in shop["products"] \/ r = [c \in Columns("products") |-> r[c]],
         DOMAIN shop' = Tables, shop'["products"] = rows, shop'[t] = shop[t] \cup {row},
         \A u \in Tables : u \notin {"products", t} => shop'[u] = shop[u],
         UNCHANGED <<jobs, queue, work, copies, export, backups, deleted, applied, broken, file>>
  PROVE  ImportInv'
<1>1. DOMAIN shop = Tables /\ ShopTyped
  BY DEF ImportInv, ShopTyped
<1>2. "products" \in Tables /\ "products" \notin Numbered \cup {"payment_accounts", "settings", "owner_review_items"}
      /\ t \notin {"payment_accounts", "settings", "owner_review_items"} /\ t \in Tables /\ t # "products"
      /\ \A u \in Numbered \cup {"payment_accounts", "settings", "owner_review_items"} : u \in Tables
  BY TableNames
<1>4. \A u \in Numbered : u # t => shop'[u] = shop[u]
  BY <1>2
<1>5. /\ counters' \in [Numbered -> [Devices -> Nat]]
      /\ \A u \in Numbered, e \in Devices : counters[u][e] <= counters'[u][e]
      /\ \A u \in Numbered : IsFiniteSet(shop'[u])
      /\ \A u \in Numbered : \A r \in shop'[u] : \/ r \in shop[u]
            \/ (r.no[1] \in Devices /\ r.no[2] \in Nat /\ r.no[2] <= counters'[u][r.no[1]])
  BY <1>1, <1>4, Numbering, SMTT(30)
<1>6. \A u \in Tables : \A r \in shop'[u] : r \in shop[u] \/ r = [c \in Columns(u) |-> r[c]]
  <2> TAKE u \in Tables
  <2>1. CASE u \notin {"products", t}
    BY <2>1
  <2>2. CASE u = "products"
    BY <2>2
  <2>3. CASE u = t
    BY <2>3
  <2> QED BY <2>1, <2>2, <2>3
<1>7. \A u \in {"payment_accounts", "settings", "owner_review_items"} : shop'[u] = shop[u]
  BY <1>2
<1> QED BY <1>5, <1>6, <1>7, ShopMoves

LEMMA SellKeeps ==
  ASSUME ImportInv, NEW s, NEW p, NEW d \in Devices, SellOne(s, p, d),
         UNCHANGED <<jobs, queue, work, copies, export, backups, deleted, applied, broken, file>>
  PROVE  ImportInv'
<1>1. PICK row : row = Named(shop["products"], p)
  OBVIOUS
<1>2. PICK no : no = counters["sales"][d] + 1
  OBVIOUS
<1>3. PICK bill : bill = [id |-> s, no |-> <<d, no>>, customer |-> None, mechanic |-> None,
                          product |-> p, named |-> TRUE, account |-> None]
  OBVIOUS
<1>4. PICK sold : sold = [row EXCEPT !.stock = @ - 1]
  OBVIOUS
<1>5. PICK rows : rows = (shop["products"] \ {row}) \cup {sold}
  OBVIOUS
<1>6. p \in Ids(Live(shop["products"])) /\ Takes("sales", d, no)
  BY <1>2 DEF SellOne, Takes
<1>7. /\ DOMAIN shop' = Tables /\ shop'["products"] = rows /\ shop'["sales"] = shop["sales"] \cup {bill}
      /\ \A u \in Tables : u \notin {"products", "sales"} => shop'[u] = shop[u]
  <2>1. shop' = [shop EXCEPT !["products"] = (@ \ {row}) \cup {sold}, !["sales"] = @ \cup {bill}]
    BY <1>1, <1>2, <1>3, <1>4 DEF SellOne
  <2>2. DOMAIN shop = Tables /\ "products" \in Tables /\ "sales" \in Tables
    BY TableNames DEF ImportInv, ShopTyped
  <2> QED BY <2>1, <2>2, <1>5
<1>8. p \in Ids(shop["products"])
  BY <1>6 DEF Ids, Live
<1>9. sold = [c \in Columns("products") |-> sold[c]]
  <2>1. PICK n : n = row.stock - 1
    OBVIOUS
  <2>2. sold = [row EXCEPT !.stock = n]
    BY <1>4, <2>1
  <2>3. row = [c \in Columns("products") |-> row[c]]
        /\ Columns("products") = {"id", "part", "category", "live", "stock"}
    BY <1>1, <1>8, ProductRow
  <2> QED BY <2>2, <2>3
<1>10. \A r \in rows : r \in shop["products"] \/ r = [c \in Columns("products") |-> r[c]]
  BY <1>5, <1>9
<1>11. "sales" \in Numbered
  BY TableNames
<1>12. bill.no = <<d, no>> /\ bill = [c \in Columns("sales") |-> bill[c]]
  <2>1. Columns("sales") = {"id", "no", "customer", "mechanic", "product", "named", "account"}
    BY DEF Columns, People
  <2> QED BY <1>3, <2>1
<1> QED BY <1>2, <1>6, <1>7, <1>10, <1>11, <1>12, DocumentMoves

LEMMA ReturnKeeps ==
  ASSUME ImportInv, NEW s, NEW d \in Devices, ReturnOne(s, d),
         UNCHANGED <<jobs, queue, work, copies, export, backups, deleted, applied, broken, file>>
  PROVE  ImportInv'
<1>1. PICK p : p = Named(shop["sales"], s).product
  OBVIOUS
<1>2. PICK row : row = Named(shop["products"], p)
  OBVIOUS
<1>3. PICK no : no = counters["returns"][d] + 1
  OBVIOUS
<1>4. PICK note : note = [id |-> s, no |-> <<d, no>>, sale |-> s, mechanic |-> None]
  OBVIOUS
<1>5. PICK back : back = [row EXCEPT !.stock = @ + 1]
  OBVIOUS
<1>6. PICK rows : rows = (shop["products"] \ {row}) \cup {back}
  OBVIOUS
<1>7. p \in Ids(shop["products"]) /\ Takes("returns", d, no)
  BY <1>1, <1>3 DEF ReturnOne, Takes
<1>8. /\ DOMAIN shop' = Tables /\ shop'["products"] = rows /\ shop'["returns"] = shop["returns"] \cup {note}
      /\ \A u \in Tables : u \notin {"products", "returns"} => shop'[u] = shop[u]
  <2>1. shop' = [shop EXCEPT !["products"] = (@ \ {row}) \cup {back}, !["returns"] = @ \cup {note}]
    BY <1>1, <1>2, <1>3, <1>4, <1>5 DEF ReturnOne
  <2>2. DOMAIN shop = Tables /\ "products" \in Tables /\ "returns" \in Tables
    BY TableNames DEF ImportInv, ShopTyped
  <2> QED BY <2>1, <2>2, <1>6
<1>9. back = [c \in Columns("products") |-> back[c]]
  <2>1. PICK n : n = row.stock + 1
    OBVIOUS
  <2>2. back = [row EXCEPT !.stock = n]
    BY <1>5, <2>1
  <2>3. row = [c \in Columns("products") |-> row[c]]
        /\ Columns("products") = {"id", "part", "category", "live", "stock"}
    BY <1>2, <1>7, ProductRow
  <2> QED BY <2>2, <2>3
<1>10. \A r \in rows : r \in shop["products"] \/ r = [c \in Columns("products") |-> r[c]]
  BY <1>6, <1>9
<1>11. "returns" \in Numbered
  BY TableNames
<1>12. note.no = <<d, no>> /\ note = [c \in Columns("returns") |-> note[c]]
  <2>1. Columns("returns") = {"id", "no", "sale", "mechanic"}
    BY DEF Columns, People
  <2> QED BY <1>4, <2>1
<1> QED BY <1>3, <1>7, <1>8, <1>10, <1>11, <1>12, DocumentMoves

LEMMA QuoteKeeps ==
  ASSUME ImportInv, NEW q, NEW d \in Devices, QuoteOne(q, d),
         UNCHANGED <<jobs, queue, work, copies, export, backups, deleted, applied, broken, file>>
  PROVE  ImportInv'
<1>1. PICK no : no = counters["quotes"][d] + 1
  OBVIOUS
<1>2. PICK quote : quote = [id |-> q, no |-> <<d, no>>, sale |-> None]
  OBVIOUS
<1>3. PICK rows : rows = shop["products"]
  OBVIOUS
<1>4. Takes("quotes", d, no)
      /\ shop' = [shop EXCEPT !["quotes"] = shop["quotes"] \cup {quote}]
  BY <1>1, <1>2 DEF QuoteOne, Shop, Takes
<1>5. /\ DOMAIN shop' = Tables /\ shop'["products"] = rows /\ shop'["quotes"] = shop["quotes"] \cup {quote}
      /\ \A u \in Tables : u \notin {"products", "quotes"} => shop'[u] = shop[u]
  <2>1. DOMAIN shop = Tables /\ "products" \in Tables /\ "quotes" \in Tables
    BY TableNames DEF ImportInv, ShopTyped
  <2> QED BY <1>3, <1>4, <2>1
<1>6. "quotes" \in Numbered
  BY TableNames
<1>7. quote.no = <<d, no>> /\ quote = [c \in Columns("quotes") |-> quote[c]]
  <2>1. Columns("quotes") = {"id", "no", "sale"}
    BY DEF Columns, People
  <2> QED BY <1>2, <2>1
<1>8. \A r \in rows : r \in shop["products"] \/ r = [c \in Columns("products") |-> r[c]]
  BY <1>3
<1> QED BY <1>1, <1>4, <1>5, <1>6, <1>7, <1>8, DocumentMoves

LEMMA DeleteProductKeeps ==
  ASSUME ImportInv, NEW p, DeleteProduct(p),
         UNCHANGED <<jobs, queue, work, copies, export, backups, deleted, applied, broken, file>>
  PROVE  ImportInv'
<1>1. PICK row : row = Named(shop["products"], p)
  OBVIOUS
<1>2. PICK gone : gone = [row EXCEPT !.live = FALSE]
  OBVIOUS
<1>3. PICK rows : rows = (shop["products"] \ {row}) \cup {gone}
  OBVIOUS
<1>4. p \in Ids(Live(shop["products"])) /\ shop' = [shop EXCEPT !["products"] = rows] /\ UNCHANGED counters
  BY <1>1, <1>2, <1>3 DEF DeleteProduct, Shop
<1>5. p \in Ids(shop["products"])
  BY <1>4 DEF Ids, Live
<1>6. gone = [c \in Columns("products") |-> gone[c]]
  <2>1. row = [c \in Columns("products") |-> row[c]]
        /\ Columns("products") = {"id", "part", "category", "live", "stock"}
    BY <1>1, <1>5, ProductRow
  <2> QED BY <1>2, <2>1
<1>7. \A r \in rows : r \in shop["products"] \/ r = [c \in Columns("products") |-> r[c]]
  BY <1>3, <1>6
<1> QED BY <1>4, <1>7, ProductMoves

LEMMA AddProductKeeps ==
  ASSUME ImportInv, NEW p, NEW part, AddProduct(p, part),
         UNCHANGED <<jobs, queue, work, copies, export, backups, deleted, applied, broken, file>>
  PROVE  ImportInv'
<1>1. PICK row : row = [id |-> p, part |-> part, category |-> "c", live |-> TRUE, stock |-> 1]
  OBVIOUS
<1>2. PICK rows : rows = shop["products"] \cup {row}
  OBVIOUS
<1>3. shop' = [shop EXCEPT !["products"] = rows] /\ UNCHANGED counters
  BY <1>1, <1>2 DEF AddProduct, Shop
<1>4. row = [c \in Columns("products") |-> row[c]]
  <2>1. Columns("products") = {"id", "part", "category", "live", "stock"}
    BY DEF Columns, People
  <2> QED BY <1>1, <2>1
<1>5. \A r \in rows : r \in shop["products"] \/ r = [c \in Columns("products") |-> r[c]]
  BY <1>2, <1>4
<1> QED BY <1>3, <1>5, ProductMoves

LEMMA ShopGoesOnKeeps ==
  ASSUME ImportInv, ShopGoesOn PROVE ImportInv'
<1>1. UNCHANGED <<jobs, queue, work, copies, export, backups, deleted, applied, broken, file>>
  BY DEF ShopGoesOn
<1>2. CASE \E d \in Devices, s \in SaleIds : ReturnOne(s, d)
  BY <1>1, <1>2, ReturnKeeps
<1>3. CASE \E d \in Devices, s \in SaleIds : \E p \in ProductIds : SellOne(s, p, d)
  BY <1>1, <1>3, SellKeeps
<1>4. CASE \E d \in Devices, q \in {"q1"} : QuoteOne(q, d)
  BY <1>1, <1>4, QuoteKeeps
<1>5. CASE \E p \in ProductIds : DeleteProduct(p)
  BY <1>1, <1>5, DeleteProductKeeps
<1>6. CASE \E p \in ProductIds : \E part \in Parts : AddProduct(p, part)
  BY <1>1, <1>6, AddProductKeeps
<1> QED BY <1>2, <1>3, <1>4, <1>5, <1>6 DEF ShopGoesOn

\* A section of an export, read between two commits of the shop.
LEMMA ExportKeeps ==
  ASSUME ImportInv, Export PROVE ImportInv'
<1>0. UNCHANGED <<db, broken>> /\ UNCHANGED <<jobs, queue, work, copies, deleted, applied, file>>
      /\ Tabled(shop)
  BY DEF Export, ImportInv, ShopTyped
<1>1. FilesTyped'
  <2>1. CASE export = None
    <3>1. PICK e : e = ReadSection(1, NoRows)
      OBVIOUS
    <3>2. Tabled(e)
      BY <1>0, <3>1, NoRowsTabled, ReadTabled DEF ReadSection
    <3>3. export' = [stage |-> 1, read |-> e] /\ UNCHANGED backups
      BY <2>1, <3>1 DEF Export
    <3> QED BY <1>0, <3>2, <3>3 DEF ImportInv, FilesTyped
  <2>2. CASE export # None
    <3>1. PICK e : e = ReadSection(export.stage + 1, export.read)
      OBVIOUS
    <3>2. Tabled(e)
      <4>1. Tabled(export.read)
        BY <2>2 DEF ImportInv, FilesTyped
      <4> QED BY <1>0, <3>1, <4>1, ReadTabled DEF ReadSection
    <3>3. \/ export' = [stage |-> export.stage + 1, read |-> e] /\ UNCHANGED backups
          \/ export' = None /\ backups' = backups \cup {[data |-> e, flaws |-> {}]}
      BY <2>2, <3>1 DEF Export
    <3> QED BY <1>0, <3>2, <3>3 DEF ImportInv, FilesTyped
  <2> QED BY <2>1, <2>2
<1>2. JobsTyped'
  BY <1>0 DEF ImportInv, JobsTyped
<1>3. WorkTyped'
  BY <1>0 DEF ImportInv, WorkTyped
<1>4. OneWorker'
  BY <1>0 DEF ImportInv, OneWorker
<1>5. WrittenOnce'
  BY <1>0 DEF ImportInv, WrittenOnce
<1>6. AcceptedOnly'
  BY <1>0 DEF ImportInv, AcceptedOnly
<1>7. Copied'
  BY <1>0 DEF ImportInv, Copied, KeptOf
<1> QED BY <1>0, <1>1, <1>2, <1>3, <1>4, <1>5, <1>6, <1>7, BooksKept DEF ImportInv

-----------------------------------------------------------------------------
(* Every step, and what follows *)

LEMMA ImportStep == ImportInv /\ [Next]_vars => ImportInv'
<1> SUFFICES ASSUME ImportInv, [Next]_vars PROVE ImportInv'
  OBVIOUS
<1>1. CASE \E j \in Jobs, replace \in BOOLEAN, f \in backups \cup {file} : Enqueue(j, f, replace)
  BY <1>1, EnqueueKeeps
<1>2. CASE \E j \in Jobs : HalfHour(j)
  BY <1>2, HalfHourKeeps
<1>3. ASSUME NEW w \in Workers, Worker(w) PROVE ImportInv'
  <2>1. CASE ProcessJob(w)
    BY <2>1, ProcessJobKeeps
  <2>2. CASE BeginTx(w)
    BY <2>2, BeginTxKeeps
  <2>3. CASE Commit(w)
    BY <2>3, CommitKeeps
  <2>4. CASE Acknowledge(w)
    BY <2>4, AcknowledgeKeeps
  <2>5. CASE Fail(w)
    BY <2>5, FailKeeps
  <2>6. CASE \E j \in Jobs : TakeJob(w, j)
    BY <2>6, TakeJobKeeps
  <2> QED BY <1>3, <2>1, <2>2, <2>3, <2>4, <2>5, <2>6 DEF Worker
<1>4. CASE \E w \in Workers : Crash(w)
  BY <1>4, CrashKeeps
<1>5. CASE ShopGoesOn
  BY <1>5, ShopGoesOnKeeps
<1>6. CASE Export
  BY <1>6, ExportKeeps
<1>7. CASE UNCHANGED vars
  <2>1. UNCHANGED <<db, broken>> /\ UNCHANGED <<jobs, queue, work, copies, export, backups, deleted, applied, file>>
    BY <1>7 DEF vars
  <2>2. FilesTyped'
    BY <2>1 DEF ImportInv, FilesTyped
  <2>3. JobsTyped'
    BY <2>1 DEF ImportInv, JobsTyped
  <2>4. WorkTyped'
    BY <2>1 DEF ImportInv, WorkTyped
  <2>5. OneWorker'
    BY <2>1 DEF ImportInv, OneWorker
  <2>6. WrittenOnce'
    BY <2>1 DEF ImportInv, WrittenOnce
  <2>7. AcceptedOnly'
    BY <2>1 DEF ImportInv, AcceptedOnly
  <2>8. Copied'
    BY <2>1 DEF ImportInv, Copied, KeptOf
  <2> QED BY <2>1, <2>2, <2>3, <2>4, <2>5, <2>6, <2>7, <2>8, BooksKept DEF ImportInv
<1> QED BY <1>1, <1>2, <1>3, <1>4, <1>5, <1>6, <1>7 DEF Next

LEMMA ImportAlways == Spec => []ImportInv
BY ImportInit, ImportStep, PTL DEF Spec

\* A shop's tables stay the schema's, its counters numbers, and no worker writes a file
\* that is not one, however often jobs are tried (tenant-import.processor.ts,
\* tenant-import.service.ts).
THEOREM ImportTypes == Spec => [](ShopTyped /\ FilesTyped /\ JobsTyped /\ WorkTyped)
<1>1. ImportInv => ShopTyped /\ FilesTyped /\ JobsTyped /\ WorkTyped
  BY DEF ImportInv
<1> QED BY <1>1, ImportAlways, PTL

\* Replace mode deletes nothing its own job has no copy of but the owner's review items,
\* which no snapshot carries, though the shop goes on selling while the copy is made and the
\* job may be tried again; an import into an empty shop deletes nothing but the QR accounts
\* it replaces (tenant-import.service.ts: writeSnapshot, preImportExportPath, the DELETE of
\* REPLACED_TABLES and the one of importPaymentAccounts).
THEOREM DeletedStaysCopied == Spec => []DeletedIsCopied
<1>1. ImportInv => DeletedIsCopied
  BY DEF ImportInv, Copied, KeptOf, DeletedIsCopied
<1> QED BY <1>1, ImportAlways, PTL

\* Retries, stalls and lost workers never write a file twice, and a job that says it
\* succeeded was written, while no stalled attempt goes on running
\* (tenant-import.processor.ts: process, onFailed; tenant-import.service.ts: markRunning,
\* processJob).
THEOREM WrittenAtMostOnce == Spec => []AppliedOnce
<1>1. ImportInv => AppliedOnce
  <2> SUFFICES ASSUME ImportInv, NEW j \in Jobs
               PROVE  applied[j] <= 1 /\ (jobs[j].status = "succeeded" => applied[j] = 1)
    BY DEF AppliedOnce
  <2> QED BY DEF ImportInv, WrittenOnce
<1> QED BY <1>1, ImportAlways, PTL

\* Whatever a file carries, once the pre-flight accepts it the database refuses it, written
\* to empty tables, for nothing but codes that clash, documents of movements and values no
\* check looks at: never for a key, a part number, a document number, a foreign key or a
\* second default account (tenant-import.service.ts: preflight against writeSnapshot,
\* snapshot-preflight.ts, snapshot-tombstones.ts).
THEOREM AcceptedFilesFit == Spec => []AcceptedFits
<1>1. ImportInv => AcceptedFits
  BY DEF ImportInv
<1> QED BY <1>1, ImportAlways, PTL

\* No till is ever given a number that came with a file, for any files and any devices
\* (tenant-import.service.ts: seedDocCounters).
THEOREM CountersStayAhead == Spec => []CountersCover
<1>1. ImportInv => CountersCover
  BY DEF ImportInv
<1> QED BY <1>1, ImportAlways, PTL
=============================================================================
