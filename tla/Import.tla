------------------------------- MODULE Import -------------------------------
(***************************************************************************)
(* Restoring a shop from a file while the shop goes on selling.  The api   *)
(* checks the file, records a job and queues it; a worker takes the job,   *)
(* checks again and writes everything in one transaction.  BullMQ hands a  *)
(* job out again when its worker is gone or silent.                        *)
(*                                                                         *)
(* The write transaction is REPEATABLE READ: it sees the shop as it was at *)
(* its first statement, and fails when a row it changes has been changed   *)
(* since.  What the shop does meanwhile commits as a whole.                *)
(***************************************************************************)
EXTENDS Snapshot, Sequences

CONSTANTS Jobs,          \* ids of import jobs: the owner's client names each once
          MaxAttempts,   \* DEFAULT_JOB_OPTIONS.attempts
          MaxStalls,     \* BullMQ's maxStalledCount
          MaxOverlaps,   \* bound: stalled attempts that go on running
          MaxMishaps,    \* bound: workers lost or silent, queue adds refused
          MaxOps,        \* bound: what the shop does besides
          Parts,         \* part numbers
          Shops,         \* the shops an import may find
          Files          \* files from elsewhere, besides the shop's own exports

ASSUME ImportAssumption ==
    /\ MaxAttempts \in Nat \ {0}
    /\ MaxStalls \in Nat /\ MaxOverlaps \in Nat /\ MaxMishaps \in Nat /\ MaxOps \in Nat

\* A shop is one the schema takes; a file is only one that can be read as JSON of this form.
ASSUME DataAssumption ==
    /\ \A s \in Shops : DOMAIN s = Tables /\ Tabled(s) /\ Fits(s)
    /\ \A f \in Files : Tabled(f.data)

Workers == 1..(MaxOverlaps + 1)
ProductIds == {"p1", "p2"}
SaleIds == {"s1", "s2"}

VARIABLES shop,       \* the tenant's tables
          counters,   \* doc_counters, which no import deletes
          jobs,       \* import_jobs
          queue,      \* the BullMQ job of each
          work,       \* what each worker is doing
          copies,     \* pre-import/<job>.zip
          export,     \* the export under way: the tables read so far
          backups,    \* finished exports the owner keeps
          deleted,    \* rows an import ever deleted, with their table and the job
          applied,    \* how often each job's file was written
          broken,     \* writes the database refused: tables not empty before, and why
          file,       \* the file from elsewhere at hand
          mishaps, ops

db == <<shop, counters>>
bounds == <<mishaps, ops>>
vars == <<db, jobs, queue, work, copies, export, backups, deleted, applied, broken, file, bounds>>

\* A job row is active while queued or running; old past STALE_JOB_CEILING_MINUTES.
Active(j) == jobs[j].status \in {"queued", "running"}

NoJob == [status |-> "none", payload |-> EmptyFile, replace |-> FALSE, old |-> FALSE]

NoWork == [job |-> None, stage |-> "idle", file |-> EmptyFile, seen |-> NoRows]

Init ==
    /\ shop \in Shops /\ file \in Files
    /\ counters = SeedDocCounters([t \in Numbered |-> [d \in Devices |-> 0]], [data |-> shop])
    /\ jobs = [j \in Jobs |-> NoJob]
    /\ queue = [j \in Jobs |-> [state |-> "none", made |-> 0, stalls |-> 0, by |-> None]]
    /\ work = [w \in Workers |-> NoWork]
    /\ copies = [j \in Jobs |-> EmptyFile] /\ export = None /\ backups = {}
    /\ deleted = {} /\ applied = [j \in Jobs |-> 0] /\ broken = {}
    /\ mishaps = 0 /\ ops = 0

Mishap == mishaps < MaxMishaps /\ mishaps' = mishaps + 1 /\ UNCHANGED ops

-----------------------------------------------------------------------------
(* The api *)

\* POST /backup/import: pre-flight, then the job's row, then the queue.  A row a lost
\* worker left behind is given up first; any other active one refuses this request.
Preflight(f, replace) == ~ Refused(f) /\ (replace \/ AssertNoTransactions(shop))

Enqueue(j, f, replace) ==
    /\ jobs[j].status = "none" /\ Preflight(f, replace)
    /\ \A i \in Jobs : Active(i) => jobs[i].old
    /\ jobs' = [i \in Jobs |->
         IF i = j THEN [status |-> "queued", payload |-> f, replace |-> replace, old |-> FALSE]
         ELSE IF Active(i) THEN [jobs[i] EXCEPT !.status = "failed", !.payload = EmptyFile] ELSE jobs[i]]
    /\ \/ /\ queue' = [queue EXCEPT ![j] = [state |-> "waiting", made |-> 0, stalls |-> 0, by |-> None]]
          /\ UNCHANGED bounds
       \* importQueue.add fails: the row is committed and stays queued.
       \/ Mishap /\ UNCHANGED queue
    /\ UNCHANGED <<db, work, copies, export, backups, deleted, applied, broken, file>>

HalfHour(j) ==
    /\ Active(j) /\ ~ jobs[j].old
    /\ \A w \in Workers : work[w].job # j
    /\ jobs' = [jobs EXCEPT ![j].old = TRUE]
    /\ UNCHANGED <<db, queue, work, copies, export, backups, deleted, applied, broken, file, bounds>>

-----------------------------------------------------------------------------
(* The worker *)

Step(w, stage) == work' = [work EXCEPT ![w].stage = stage]

\* markRunning asks for nothing but the id, and may meet uq_import_jobs_active.
MarkRunning(j) ==
    IF \E i \in Jobs : i # j /\ Active(i) THEN UNCHANGED jobs
    ELSE jobs' = [jobs EXCEPT ![j].status = "running", ![j].old = FALSE]

TakeJob(w, j) ==
    /\ work[w].stage = "idle" /\ queue[j].state = "waiting"
    /\ queue' = [queue EXCEPT ![j] = [@ EXCEPT !.state = "active", !.by = w]]
    /\ MarkRunning(j)
    /\ work' = [work EXCEPT ![w] =
         [NoWork EXCEPT !.job = j,
            !.stage = IF \E i \in Jobs : i # j /\ Active(i) THEN "refused" ELSE "marked"]]
    /\ UNCHANGED <<db, copies, export, backups, deleted, applied, broken, file, bounds>>

\* Mutant: a finished job is processed again.
HasPayloadAlways(j) == TRUE

\* processJob: a row that succeeded answers again, one without a payload is finished.
HasPayload(j) == jobs[j].payload # EmptyFile

ProcessJob(w) ==
    LET j == work[w].job IN
    /\ work[w].stage = "marked"
    /\ \/ jobs[j].status = "succeeded" /\ Step(w, "committed")
       \/ jobs[j].status # "succeeded" /\ ~ (HasPayload(j) /\ Preflight(jobs[j].payload, jobs[j].replace))
          /\ Step(w, "threw")
       \/ /\ jobs[j].status # "succeeded" /\ HasPayload(j) /\ Preflight(jobs[j].payload, jobs[j].replace)
          /\ work' = [work EXCEPT ![w] = [job |-> j, stage |-> "checked", file |-> jobs[j].payload, seen |-> NoRows]]
    /\ UNCHANGED <<db, jobs, queue, copies, export, backups, deleted, applied, broken, file, bounds>>

\* The transaction's first statements: its snapshot, and then the emptiness check again,
\* or the copy of what it is about to delete.
BeginTx(w) ==
    LET j == work[w].job IN
    /\ work[w].stage = "checked"
    /\ IF jobs[j].replace \/ AssertNoTransactions(shop)
       THEN work' = [work EXCEPT ![w].stage = "writing", ![w].seen = shop]
       ELSE Step(w, "threw")
    /\ copies' = IF jobs[j].replace THEN [copies EXCEPT ![j] = BuildTenantSnapshot(shop)] ELSE copies
    /\ UNCHANGED <<db, jobs, queue, export, backups, deleted, applied, broken, file, bounds>>

\* Mutant: the transaction is not REPEATABLE READ.
VisibleNow(w) == shop

\* What the transaction's statements see.
Visible(w) == work[w].seen

\* The deletes: everything a file carries and the review items in replace mode, and the
\* accounts in both modes when the file has any.
EmptiedTables(replace, f) == (IF replace THEN Replaced ELSE {}) \cup (WrittenTo(f) \ Carried)

Emptied(w, replace) ==
    [t \in Tables |-> IF t \in EmptiedTables(replace, work[w].file) THEN shop[t] \ Visible(w)[t]
                      ELSE shop[t]]

\* 40001: a row it deletes, or stamps at the end, is not what its snapshot saw.
Conflict(w, replace) ==
    \E t \in EmptiedTables(replace, work[w].file) \cup {"products"} \cup People :
        ~ (Visible(w)[t] \subseteq shop[t])

\* Delete, write, seed, and the job's own success, in one commit; or an error and none.
Commit(w) ==
    LET j == work[w].job
        f == work[w].file
        base == Emptied(w, jobs[j].replace)
        after == WriteSnapshot(base, f)
    IN
    /\ work[w].stage = "writing"
    /\ IF Conflict(w, jobs[j].replace)
       THEN Step(w, "threw") /\ UNCHANGED <<db, jobs, deleted, applied, broken>>
       ELSE IF Objections(f, after) # {}
       THEN /\ broken' = broken \cup {[full |-> {t \in WrittenTo(f) : base[t] # {}},
                                        by |-> Objections(f, after)]}
            /\ Step(w, "threw")
            /\ UNCHANGED <<db, jobs, deleted, applied>>
       ELSE /\ shop' = after
            /\ counters' = SeedDocCounters(counters, f)
            /\ deleted' = deleted \cup
                   UNION {{[table |-> t, id |-> r.id, job |-> j] : r \in Visible(w)[t]} :
                             t \in EmptiedTables(jobs[j].replace, f)}
            /\ applied' = [applied EXCEPT ![j] = @ + 1]
            /\ jobs' = [jobs EXCEPT ![j].status = "succeeded", ![j].payload = EmptyFile]
            /\ Step(w, "committed") /\ UNCHANGED broken
    /\ UNCHANGED <<queue, copies, export, backups, file, bounds>>

\* A worker that stalled holds no lock on its job any more: BullMQ does not hear it.
Holds(w) == queue[work[w].job].by = w

Acknowledge(w) ==
    /\ work[w].stage = "committed"
    /\ queue' = IF Holds(w) THEN [queue EXCEPT ![work[w].job] = [@ EXCEPT !.state = "completed", !.by = None]] ELSE queue
    /\ work' = [work EXCEPT ![w] = NoWork]
    /\ UNCHANGED <<db, jobs, copies, export, backups, deleted, applied, broken, file, bounds>>

Failed(j) == [jobs EXCEPT ![j].status = "failed", ![j].payload = EmptyFile]

\* markFailed, then BullMQ's retry; the last attempt's failure is the job's.
Fail(w) ==
    LET j == work[w].job
        final == queue[j].made + 1 >= MaxAttempts
    IN
    /\ work[w].stage \in {"threw", "refused"}
    /\ jobs' = IF final THEN Failed(j) ELSE jobs
    /\ queue' = IF Holds(w)
                THEN [queue EXCEPT ![j] = [@ EXCEPT !.made = @ + 1, !.by = None,
                                              !.state = IF final THEN "failed" ELSE "waiting"]]
                ELSE queue
    /\ work' = [work EXCEPT ![w] = NoWork]
    /\ UNCHANGED <<db, copies, export, backups, deleted, applied, broken, file, bounds>>

\* BullMQ finds the job's lock expired and hands it out again, so many times; after that
\* it fails it, and onFailed leaves the row alone while attempts are left.
Stalled(j) ==
    [queue EXCEPT ![j] =
        IF @.stalls < MaxStalls THEN [@ EXCEPT !.stalls = @ + 1, !.state = "waiting", !.by = None]
        ELSE [@ EXCEPT !.state = "failed", !.by = None]]

\* The worker is gone; what it committed stays.
Crash(w) ==
    /\ work[w].job # None /\ Mishap
    /\ queue' = IF Holds(w) THEN Stalled(work[w].job) ELSE queue
    /\ work' = [work EXCEPT ![w] = NoWork]
    /\ UNCHANGED <<db, jobs, copies, export, backups, deleted, applied, broken, file>>

\* The worker is only slow.
Stall(w) ==
    /\ MaxOverlaps > 0 /\ work[w].job # None /\ Holds(w)
    /\ Mishap
    /\ queue' = Stalled(work[w].job)
    /\ UNCHANGED <<db, jobs, work, copies, export, backups, deleted, applied, broken, file>>

-----------------------------------------------------------------------------
(* The shop meanwhile *)

Op == ops < MaxOps /\ ops' = ops + 1 /\ UNCHANGED mishaps

Shop(t, rows) == shop' = [shop EXCEPT ![t] = rows]

\* A till's sale: the product's stock, and the bill under the counter's next number.
SellOne(s, p, d) ==
    LET row == Named(shop["products"], p)
        no == counters["sales"][d] + 1
    IN
    /\ Op
    /\ s \notin Ids(shop["sales"]) /\ p \in Ids(Live(shop["products"])) /\ row.stock > 0
    /\ shop' = [shop EXCEPT
         !["products"] = (@ \ {row}) \cup {[row EXCEPT !.stock = @ - 1]},
         !["sales"] = @ \cup {[id |-> s, no |-> <<d, no>>, customer |-> None, mechanic |-> None,
                               product |-> p, named |-> TRUE, account |-> None]}]
    /\ counters' = [counters EXCEPT !["sales"] = [@ EXCEPT ![d] = no]]

\* A credit note puts the goods back.
ReturnOne(s, d) ==
    LET sale == Named(shop["sales"], s)
        row == Named(shop["products"], sale.product)
        no == counters["returns"][d] + 1
    IN
    /\ Op
    /\ s \in Ids(shop["sales"]) /\ sale.product \in Ids(shop["products"])
    /\ \A r \in shop["returns"] : r.sale # s
    /\ shop' = [shop EXCEPT
         !["products"] = (@ \ {row}) \cup {[row EXCEPT !.stock = @ + 1]},
         !["returns"] = @ \cup {[id |-> s, no |-> <<d, no>>, sale |-> s, mechanic |-> None]}]
    /\ counters' = [counters EXCEPT !["returns"] = [@ EXCEPT ![d] = no]]

\* A quote changes no product: nothing of it meets an import's transaction.
QuoteOne(q, d) ==
    LET no == counters["quotes"][d] + 1 IN
    /\ Op /\ q \notin Ids(shop["quotes"])
    /\ Shop("quotes", shop["quotes"] \cup {[id |-> q, no |-> <<d, no>>, sale |-> None]})
    /\ counters' = [counters EXCEPT !["quotes"] = [@ EXCEPT ![d] = no]]

\* Products are deleted softly; a part number is free again when no live row has it.
DeleteProduct(p) ==
    /\ Op
    /\ p \in Ids(Live(shop["products"]))
    /\ LET row == Named(shop["products"], p) IN
       Shop("products", (shop["products"] \ {row}) \cup {[row EXCEPT !.live = FALSE]})
    /\ UNCHANGED counters

AddProduct(p, part) ==
    /\ Op
    /\ p \notin Ids(shop["products"]) /\ \A q \in Live(shop["products"]) : q.part # part
    /\ Shop("products", shop["products"] \cup
              {[id |-> p, part |-> part, category |-> "c", live |-> TRUE, stock |-> 1]})
    /\ UNCHANGED counters

ShopGoesOn ==
    /\ \/ \E d \in Devices, s \in SaleIds : ReturnOne(s, d) \/ \E p \in ProductIds : SellOne(s, p, d)
       \/ \E d \in Devices, q \in {"q1"} : QuoteOne(q, d)
       \/ \E p \in ProductIds : DeleteProduct(p) \/ \E part \in Parts : AddProduct(p, part)
    /\ UNCHANGED <<jobs, queue, work, copies, export, backups, deleted, applied, broken, file>>

\* POST /backup/export, a READ COMMITTED transaction: a section at a time, in this order.
ReadOrder == <<{"products"} \cup People, {"sales"}, {"returns"}, Tables \ ({"products", "sales", "returns"} \cup People)>>

ReadSection(stage, read) ==
    [t \in Tables |-> IF t \in ReadOrder[stage] THEN Section(shop, t) ELSE read[t]]

Export ==
    /\ \/ /\ export = None /\ Op
          /\ export' = [stage |-> 1, read |-> ReadSection(1, NoRows)] /\ UNCHANGED backups
       \/ /\ export # None /\ UNCHANGED bounds
          /\ LET read == ReadSection(export.stage + 1, export.read) IN
             IF export.stage + 1 < Len(ReadOrder)
             THEN export' = [stage |-> export.stage + 1, read |-> read] /\ UNCHANGED backups
             ELSE export' = None /\ backups' = backups \cup {[data |-> read, flaws |-> {}]}
    /\ UNCHANGED <<db, jobs, queue, work, copies, deleted, applied, broken, file>>

-----------------------------------------------------------------------------
Worker(w) == \/ ProcessJob(w) \/ BeginTx(w) \/ Commit(w) \/ Acknowledge(w) \/ Fail(w)
             \/ \E j \in Jobs : TakeJob(w, j)

Next ==
    \/ \E j \in Jobs, replace \in BOOLEAN, f \in backups \cup {file} : Enqueue(j, f, replace)
    \/ \E j \in Jobs : HalfHour(j)
    \/ \E w \in Workers : Worker(w) \/ Crash(w)
    \/ ShopGoesOn \/ Export

Spec == Init /\ [][Next]_vars

\* With attempts that outlive their lock.
SlowNext == Next \/ \E w \in Workers : Stall(w)

-----------------------------------------------------------------------------
(* Properties *)

\* What replace mode deletes is in that job's copy, whatever the shop sold and changed
\* meanwhile and however often the job was tried; only the owner's review items are in no
\* copy.  An import into an empty shop deletes nothing but the QR accounts it replaces.
DeletedIsCopied ==
    \A d \in deleted :
        IF jobs[d.job].replace
        THEN d.table \in NeverCopied \/ d.id \in Ids(copies[d.job].data[d.table])
        ELSE d.table = "payment_accounts"

\* A job's file is written at most once, and a job says so only when it was.
AppliedOnce ==
    \A j \in Jobs : /\ applied[j] <= 1
                    /\ jobs[j].status = "succeeded" => applied[j] = 1

\* A file the pre-flight accepts, written to empty tables, meets no key, part number,
\* document number, foreign key or second default half-way: only what the pre-flight does
\* not look at can still refuse it (Unforeseen).
AcceptedFits == \A b \in broken : b.full = {} => b.by \subseteq Unforeseen

\* No imported number is one the shop's devices will issue again.
CountersCover ==
    \A t \in Numbered : \A r \in shop[t] :
        r.no[1] \in Devices => r.no[2] <= counters[t][r.no[1]]

-----------------------------------------------------------------------------
(* What the repository says and the code does not do *)

\* A retry of an import that committed answers what it recorded.
CommittedSaysSo ==
    \A j \in Jobs : applied[j] = 1 => jobs[j].status # "failed"
=============================================================================
