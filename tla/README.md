# Verification of the Srisurart Autopart POS

TLA+ specifications of the point-of-sale system in this repository, the TLC runs that
check them on small instances, and TLAPS proofs that hold for every instance.

Check a run with `tlc -config <cfg> <module>`, the proofs of a module with
`tlapm <module>.tla`. `PROJECT.json` lists the components, the runs, the lines of code
each definition models, the hazards the properties are aimed at and the theorems.

## 1. The system

A Flutter client (`frontend/lib`) and a NestJS server (`server/src`) over PostgreSQL (one
schema, row-level security per tenant), two Redis instances (a cache that may evict
anything, a queue) and a BullMQ worker. The client has two builds. In the *offline build*
the local Drift/SQLite database is the truth. In the *API build* Postgres is the truth,
Drift is a cache, and what is written without a connection waits in an outbox that
`SyncService` pushes to `POST /sync/push`.

Every write on the server follows one path: the route claims its `Idempotency-Key`, the
service runs inside that same transaction (`TenantService.runTx`) and takes row locks on
what it reads, the answer is recorded, the transaction commits if it is younger than the
commit ceiling, and only then run the hooks that invalidate the cache and queue jobs.

| Component | State | Operations | What is hard | Correct when |
|---|---|---|---|---|
| Idempotency record (`idempotency/`) | `idempotency_keys`, a Redis copy of finished answers | claim, complete, replay, cleanup | retries at once, crash, commit acknowledgement lost, stale copy, cleanup | a key's work is committed at most once, every success names committed work |
| Transactions (`common/database`) | one transaction, its row locks, its post-commit hooks | runTx, commit ceiling | lock order, rollback, hooks after commit | no circle of waits; overlapping requests leave what they would leave one by one |
| Sales, voids (`sales/`) | bills, stock, ledgers, audit rows | create, void, offline replay | part on two lines, credit limit, void after refund, void of an old shift | goods conserved; no drawer already counted changes |
| Returns (`returns/`) | credit notes | create, auto-void | several notes on one bill, rounding per note, refund method | never more back than sold; the money adds up to the bill |
| Drawers (`shifts/`, `reports/drawer-cash.sql.ts`) | shifts, entries, expected cash | open, close, entry, archive | closing while documents arrive, drawers nobody counts | one current drawer a machine; counted drawers frozen; no day lost |
| Credit payments (`mechanics/`) | payments, the mechanic's tab | create | overpayment, method | the tab follows the documents |
| Devices (`devices/`, `auth/`, `platform/`) | machines and their stage, unsynced report | issue, enrol, retire, replace | retirement with an open drawer or unsent work | one live machine; a retired one has no drawer |
| Purchasing (`purchasing/`) | orders, stock, average cost | create, receive, cancel, delete | one part on two lines, free goods, rounding | goods conserved; cost within the prices paid |
| Tenant cache (`infra/tenant-cache.service.ts`) | generation, values, stampede locks in Redis | prefix, get, singleFlight, set, invalidate | late writes, eviction, lock expiry, Redis failing | no read older than the last invalidation; every request answered |
| Sync push and outbox (`sync/`, `frontend/lib/data/sync`) | the outbox, client ids, verdicts | enqueue, push, replay by key, body and id, resend, discard | order, partial batches, lost replies, renumbering | each offline document once, in order, none lost |
| Document numbers (`documents/`, `doc_number_service.dart`) | `doc_counters`, the till's counters | issue, record, seed | two issuers of one series, end of the range | no number twice |
| Access (`auth/`, `common/guards`, `platform/`) | users, refresh chains, device tokens, a cached shop status | login, rotate, change password, enrol, suspend, reset | two tabs, lost reply, work between a read and its write | one chain; old sessions end; a suspended shop stops |
| Import (`platform/tenant-import.service.ts`, `backup/`, the worker) | jobs, their payloads, the shop's rows | check, enqueue, write, export, requeue | selling meanwhile, lost workers, stalled attempts, numbers | nothing deleted without a copy; written once; an accepted file fits |
| Quotes (`quotes/`, `sales/quote-sale.service.ts`) | quotes, the bills from them | create … convert, offline sale of a quote, purge | two tills at once, expiry, replays | one bill a quote, never a second bill for a retry |
| Pull (`products/`, `api_products_repository.dart`) | the till's cursor | pages of a round | stamps become visible out of order | no change is missed |
| Images (`product-images/`, `sale-photos/`) | files, rows that name them | upload, attach, replace, delete, sweep | file and row in two systems, one file for two rows | what a row names is on the disk |
| Payment accounts, registers (`payment-accounts/`, `customers/`, `parked-sales/`, `review-items/`) | small tables | add, edit, delete, recall, review | two windows at once | as if one came after the other |
| Rate limit (`rate-limit/`) | counters of attempts in Redis | consume, refund, clear, guard | slices turn, refunds cross, Redis fails | guesses stay within their limit |
| Log level (`config/runtime-config.service.ts`) | etcd key, watch | read, watch, start over | compaction, broken watch | the level follows the key |

`PROJECT.json` lists all components, with the reason for each one that is not modelled.

## 2. Modules

| Module | Models | State and actions |
|---|---|---|
| `Idempotency` | `idempotency.service.ts`, `TenantService.runTx`, the cleanup job | per attempt the phase of its handler; per key the uncommitted row, the committed row and the Redis entry; a clock. One action per statement that another attempt can observe |
| `WriteOnce` | what the record promises | record, executed work, answers; `Idempotency` implements it |
| `ShopState` | the rows of one shop, what the services share (line arithmetic, expected cash, drawer lookup) | |
| `Sales`, `Returns`, `Drawers`, `Purchasing` | the services of those names, with voids, credit payments, machines, stock corrections | one action per handler |
| `Shop` | the composition of those, and their properties | `Next` is the disjunction of every operation |
| `OneByOne` | the money and stock requests when none overlap: each checked and done at once | the rows reduced to what two requests can disagree about |
| `RowLocks` | the same requests as transactions that take row locks in the services' orders; implements `OneByOne` | `Begin`, `Wait`, `Take`, `Refuse`, `Commit`, `RollBack` |
| `TenantCache` | `tenant-cache.service.ts` under `products.service.ts` `list` | per reader the await it is in; per generation the value and its lock; writers; Redis losing keys |
| `AccessState`, `Sessions`, `Tenancy`, `Access` | login, refresh, password change; shops, machines, codes, guards; the two composed | per request the stage it is in and the rows it read; tokens with their signed times |
| `DocNumbers` | issuing, checking and recording numbers, on the server and on the till | operators on counters |
| `SyncState`, `Till`, `SyncPush`, `Sync` | the outbox and `SyncService`; `POST /sales` and `POST /sync/push`; the two composed over a line that loses, repeats and delays | outbox, posts and replies under way, pushes and the verdicts so far; the server's rows, keys, counters, review items |
| `Snapshot`, `Import` | what an export writes, what the pre-flight refuses, what an import writes; jobs, workers and a shop that goes on selling | a table is a set of rows; a write transaction works on the snapshot it began with |
| `Quotes`, `Images`, `Pull`, `Config`, `Accounts`, `Registers`, `RateLimit` | the components of those names | one action per statement others can observe |
| `Office` | those seven in one specification | a behaviour is of one part, see below |
| `Absent` | the constant for SQL's NULL | |
| `ShopProofs` | proofs about `Shop` | what `SumFunction` of a finite set of terms is and how it grows; types, machines and drawers; goods, money and average cost |
| `RowLocksProofs` | proofs about `RowLocks` | the order of the locks; a commit is a step of `OneByOne` |
| `AccessProofs` | proofs about `Access` | tokens and chains; passwords; the status of the shop |
| `OfficeProofs` | proofs about the parts of `Office` | |
| `ImportProofs` | proofs about `Import` and `Snapshot` | what a write leaves of a shop and a file; who holds a job |
| `SyncProofs` | proofs about `Sync` | what may leave the outbox and what may be sent; what an answer leaves behind |
| `IdempotencyProofs`, `TenantCacheProofs` | proofs | |
| `MC…` | instances for TLC | |

**Grain.** Where concurrency is the point (`Idempotency`, `TenantCache`, `Access`, `Import`,
`RowLocks` and the parts of `Office`) a step is one statement, or one that ends with a lock
held, and everything between two awaits may interleave. In `Shop` and `SyncPush` a handler is
one step: it runs in a transaction whose locks keep what it read until it commits. That this
is enough is what `RowLocks` shows: with the rows cut down to what two requests can disagree
about, every commit is a step of `OneByOne`, whichever requests overlap, and that is proved for
any number of them (`OverlapIsAsOneByOne`).

**Data.** Money is integer satang, as in the services. A bill's lines are a function from
(product, price) to quantity, which is what `aggregate()` reduces a body to. Bodies of
requests are constants (`Bills`, `Notes`, `Forms`, `Amounts`, `Body`), and a switch in a body
(offline replay, override, force) ranges over `Flags`. A row of the cache is the version of
the catalogue it was read at, a picture is its hash, a password the number of its change. A
random token is a token not drawn before: 64 random bits are taken not to repeat.

## 3. Runs

The first nine runs end without error; the three *violations* are findings.
`CHECK_DEADLOCK FALSE` throughout: a shop may stop trading, and every request of a finite
instance ends.

| Run | Instance | States | Shows |
|---|---|---|---|
| `idempotency` | 3 attempts, 1 key, 2 requests, life 1, ceiling 1, clock to 2, fair | 427,680 | a record and its work commit together, every success is real, `WriteOnce` is implemented, every attempt that starts is answered |
| `shop_money` | 2 bills (on and off the tab, one part at two prices), 4 notes, 1 payment | 39,984 | no over-refund, no drift of money, the tab follows the documents |
| `shop_counter` | 3 machines and 3 drawers; or 2 of each, bill, 2 notes, payment, entry, all switches; or 2 orders, bill, note, corrections, deletion, top of the column at 5 | 86,710 | drawers orderly, no day lost, counted drawers frozen, goods conserved, cost within prices |
| `row_locks` | any 3 of 14 requests about two tills, a mechanic, an old bill and two products | 66,494 | no circle of waits; `OneByOne` is implemented |
| `cache` | 2 readers, 1 writer, 3 tokens, 1 poll, fair | 543,568 | fresh answers, one loader, every read answered |
| `access` | 4 requests and platform operations, of which 3 requests only by themselves, 2 machines, clock to 4 | 754,569 | one chain, no live session dropped, old sessions end, a reset stands, a stopped shop stops |
| `sync` | 2 bills, one with a void and a note, 3 pushes of 2, 2 mishaps (lost, repeated or delayed), 1 resend, numbers to 2 | 1,752,898 | each document once, none lost, in order, numbers differ, the owner knows of every paper that does not match |
| `import` | 1 shop, files of every flaw, lost and silent workers, refused queue | 803,936 | deleted data is copied, a file written once, an accepted file fits, counters cover its numbers |
| `office` | two or three requests or windows of each part | 1,109,674 | the ten properties of the parts |
| `import_lost_ack`, `import_overlap`, `office_long_round` | as above | *violation* | see below |

**Why the bounds are enough.** An idempotency race needs an owner, a retry that waits and a
retry that comes after; three attempts give all orders of them, and two fingerprints tell a
retry from a reused key. A life of one tick under a clock of two lets a record be born, read
at its last moment, expire and be replaced. Over-refund needs two notes on one bill, and drift
needs more notes than one rounding: four notes. A frozen drawer can be disturbed only by a
document of an earlier shift or of another machine, and a machine has to be retired, replaced
and followed by a third: three machines and three drawers. A circle of waits among requests
that each hold one lock of a pair needs two of them and one over three pairs
needs three. The cache race needs a slow reader, a writer and a later reader; a third token lets the generation be evicted and recreated besides. A fork of a
chain needs two presentations of one token and a third request that moves between. A bill with its
void and its note has all the orders that a batch can get wrong, batches of two cut between any
of them, and of three pushes one can be late while its retry and the next one run.

**What an instance cuts away.** `shop_money` holds two families of requests and
`shop_counter` three, and they look no further once a behaviour has used two
(`RefundsOrLedger`, `DrawersMachinesOrGoods`): their properties are about one family. `cache` draws its tokens in one
order (`DrawnInOrder`), which loses nothing since they are compared for equality only.
`access` starts a third request, and enters the last second, only where the platform does
nothing (`ThirdAlone`): the one is there to present a token two others have presented, the
other to drop a dead chain. `import` takes either a file of many tables into a quiet shop or few files with much
happening. A behaviour of `office` is of one part, which is no loss because no step of a part
reads another's variables. Symmetry is used for ids that are only compared for equality, never
under a liveness property.

**Time in `Access`.** The clock waits for two things: a guard between its read of the status and
its `SET`, and a refresh between its read of the owner and the rotation of its chain. Neither
takes longer than `Slow`. The guard's are two calls with a time limit each; the refresh is one
transaction, whose statements `statement_timeout` bounds and whose pauses
`idle_in_transaction_session_timeout` does (`commit-ceiling.ts:16-17`). `LivesAssumption` asks that `Slow` and the tolerance of
the verifier's clock (`Skew`) together stay within the time a dead chain is kept (`Keep`):
seconds against the day of `auth.service.ts:554`. Without the bound a
refresh that slept in its transaction until its chain was pruned would create the chain again and
answer a token already rotated (`NoFork`).

**Fairness.** `FairSpec` in the idempotency run assumes weak fairness of each attempt's
handler, in the cache run of each reader's next step, and nothing else: no cleanup, no cache
write, no expiry, no commit of somebody else. The code earns it with time limits:
`lock_timeout` on the claim, `statement_timeout` on every query and `redisCommandTimeoutMs` on
every Redis command, so each await settles. Failing is never assumed.

### What the violations show

- `import_lost_ack`: an import that committed and whose acknowledgement was lost ends as
  *failed*. `markRunning` (`tenant-import.service.ts:1333`) sets the status back before the
  check at `:1373-1375` that would recognise the finished job.
- `import_overlap`: an attempt that stalled after its checks goes on beside its retry and
  writes the file a second time; its copy of what it deletes is then a copy of the imported
  data, over the only copy of the shop's. `tenant-import.service.ts:1048` says nothing else
  can reach the row, `snapshot-zip.ts:107` says a stalled attempt can.
- `office_long_round`: a round of pages that lasts longer than the rewind less the commit
  ceiling misses a row for good, because the cursor of the next round is the *end* of this one
  (`api_products_repository.dart:213`; `adr/0010:204` reasons as if it were the start). The
  passing run bounds the round (`MaxRound`) and assumes the ceiling shorter than the rewind;
  the code enforces neither.

### What the code does otherwise, without a run

- A cached answer of the idempotency record can outlive the record: `ttl_seconds` is measured
  when the retry's transaction starts (`idempotency.service.ts:246`) and counts from when Redis
  executes the `SET`, against the comment at `:394`. Harmless while `SuccessIsReal` holds.
- The total and the page of a product list are two statements of a READ COMMITTED transaction
  and may be of two versions (`products.service.ts:184`, `:249`).
- A drawer can go below zero: a cash-out is checked against it (`shifts.service.ts:481`), the
  void after it is not (`void.service.ts:124`), though `:411` says a drawer never does.
- A refund by transfer that waits for an `open` of the same till is stamped with no shift
  although the new drawer is open when it commits: the row it waited for is archived and the
  new one is not in its snapshot (`shifts.service.ts:537`). `OneByOne` allows for it; a cash
  refund or a sale is refused in that case.
- An outbox row left for retry, or one that outlived a restart, is pushed by no timer of its
  own (`sync_service.dart:315`; `08_PHASE2_SPEC.md:302-303`), and `outboxRemaining` leaves out
  rows just refused (`sync_service.dart:368`; `:272` of the same document).
- A shop that deleted a product and gave its part number to another exports a file that its
  own import refuses (`tenant-snapshot.ts:91`, `snapshot-zip.ts:81-82`).
- A retry of `convert` whose quote has been purged is answered 404 although the bill stands.
- `openIn`'s comment says `FOR SHARE` on the device; the statement is `FOR NO KEY UPDATE`.

## 4. Proofs

TLAPS proves these for every value of the constants that meets the named assumptions.

| Theorem | Says | From |
|---|---|---|
| `TypeCorrect`, `AssertionsHold` | types; the internal errors of `claim` and `complete` are unreachable | `NobodyAssumption`, `TimeAssumption` |
| `RecordsMatchWork`, `NeverTwice` | record and work commit together; no key's work twice while its record lives | same |
| `NoPhantomSuccess`, `NoSpuriousConflict` | every success names committed work of the same request; no 409 for a retry whose record lives | same |
| `Refinement` | `Idempotency` implements `WriteOnce` | same |
| `ShopTyped` | stock within 0..INT4_MAX, average costs and ledgers non-negative: the column's CHECK is never what refuses a request | the assumptions of `ShopState` |
| `DrawersAreOrderly`, `NoDayIsLost` | one live machine, one current drawer; every drawer counted or reported | same |
| `ClosedDrawersAreFrozen` | no step changes a drawer that is closed or archived | same |
| `RefundsAreWithinBill` | never more of a line back than was sold; void by notes exactly when all is back | same |
| `RefundedMoneyIsMatched` | refunds of a bill within half a satang a note of its money | same |
| `StockIsExplained` | a part's stock is what the documents say | same |
| `CostIsWithinPrices` | the average cost lies between the prices paid | same |
| `TabsFollowDocuments` | every step moves a tab by what its documents say | same |
| `NobodyWaitsInACircle` | requests of a shop never wait for one another in a circle | `OneByOneAssumption` |
| `OverlapIsAsOneByOne` | `RowLocks` implements `OneByOne` | same |
| `CacheTyped`, `AnswersAreFresh`, `LocksAreKept` | types, no stale answer, locks lost only to expiry | `TokensAssumption`, `PollsAssumption` |
| `OneBillAQuote`, `NobodyRungTwice` | one bill takes a quote and its mark names it; a bill that stands is never refused | `QuotesAssumption` |
| `NothingIsMissed` | a complete round of the pull leaves no committed row behind, if `MaxRound + Ceiling < Rewind` | `PullAssumption`, `None` is no integer (`RateLimitAssumption`) |
| `PicturesStayOrderly` | what a row names is on the disk or was raced by an identical upload; no bill has photos past the limit | `ImagesAssumption`, `None` is no integer (`RateLimitAssumption`) |
| `AccountsStayOrderly` | the limit, one default, no field taken back | `AccountsAssumption` |
| `DebtsAreKept`, `EachHasOneTaker` | no debtor deleted; one taker for each code, basket and item | `RegistersAssumption` |
| `AccessTypes` | types; a temporary password has an expiry and no other has; device numbers and token ids stay in range | `LivesAssumption`, `NamesAssumption` |
| `OneChain`, `LiveTokensKeepTheirChain` | a refresh token is rotated at most once and answered at most once more; one that verifies finds its chain | same |
| `SessionsEndWithTheirPassword`, `OnlyItsLoginReplaces` | no session outlives its password; a temporary password buys its own replacement only | same |
| `StoppedShopsStop` | nobody is let in later than the key's TTL and one slow call after the stop | same |
| `ImportTypes` | a shop's tables stay the schema's, whatever is imported | `ImportAssumption`, `DataAssumption`, `AccountsAssumption` |
| `DeletedStaysCopied`, `WrittenAtMostOnce` | what an import deletes is in the copy of a finished job; a file is written at most once, and "succeeded" means written | same |
| `AcceptedFilesFit` | what the pre-flight accepts, the schema takes when written to empty tables | same |
| `CountersStayAhead` | no imported number is issued again | same |
| `SyncTypes` | types; no push answers more than it was asked or is asked more than a batch | the assumptions of `SyncState` and `DocNumbers` |
| `CountedOnce`, `QueuedIsNotLost` | a document counts once; what left the outbox is at the server or discarded | same |
| `NoneOvertakesItsBill` | no credit note or void is refused for want of a bill that is still to come | same |
| `NoNumberTwice`, `RenumberedIsKnown` | a number of a series is used once; the owner knows of every paper that does not match | same |
| `LevelIsFollowed` | a watch that caught up has the level put last | `ConfigAssumption`, `None` is no integer (`RateLimitAssumption`) |
| `GuessesAreBounded` | in no slice does a bucket let in more wrong guesses than its limit and its slack | the assumptions of `RateLimit` |

**The inductive invariants.** Each proof module proves an inductive invariant
(`OfficeProofs` one for each part), checked with TLC on a small instance before it was proved.

- *Idempotency.* The properties speak of committed rows and answers; what keeps them is
  ownership. The uncommitted row of a key belongs to the one attempt between its insert and
  its commit, with no committed row beside it (`ClaimInv`); committed rows are finished
  (`CommitInv`); a retry that found the key taken has seen committed work (`RepeatInv`);
  whatever is in Redis, on its way there or about to be sent is committed work of that key
  (`CopyInv`). `Commit` then cannot meet another commit of its key, and a hit in Redis
  cannot be a phantom. `NeverTwice` follows from `RecordsMatchWork` and is proved beside it;
  no run checks it separately.
- *Shop, its drawers* (`ShopProofs`). The types of the rows, `DrawersOrderly` and `NoDayLost`,
  strengthened by "a closed drawer has its count". The frozen drawer needs the types only:
  every document that enters or leaves a drawer's sums is stamped with the open drawer of its
  machine, so the sets that the sums of a shut drawer range over, and the rows in them, are
  unchanged.
- *Shop, its books*. `BooksInv` adds that finitely many documents were ever
  written, that a note is against a stored bill, and that a stored bill passed
  `assertSaleTotals`. A step writes at most one document, so a sum over documents changes by
  one term: the lemmas on finite sums prove that of `SumFunction`, by least-element induction over the naturals
  (`WFMin`), the one induction theorem of the library that takes no operator. Each property
  then needs what makes it inductive:
  `RefundsWithinBill` is (`assertRefundable` looks at all earlier notes); `StockExplained`
  needs that only a received order has taken goods (`OnlyReceivedTaken`);
  `RefundedMoneyMatches` speaks of a whole bill and is carried by `MoneyRated`, which says of
  the notes so far that their refunds are off the bill's rate by at most half a satang each,
  multiplied out by the subtotal so that no division is left;
  `CostWithinPrices` is carried by `CostBetween` (some two prices paid bound it), with
  `AverageBetween` for one line's average and an induction along an order's lines, which are
  received one after another.
- The one assumption on a shop beyond the shape of its constants is `CatalogueAssumption`: the
  parts and the prices on bills are finitely many.
- *RowLocks.* `LocksInv`: no two requests hold conflicting locks (`Excluded`), a request holds
  the locks of the part of its plan it has gone through (`HeldFromPlan`), and what it read under
  them is still so (`StillSo`, one conjunct for the drawer, the tab, the stock and the rows).
  Every plan ascends in one order of kinds: own document or machine, drawer, mechanic, products
  by id, counter (`PlanInOrder`, which needs that a finite set of ids can be listed in ascending
  order). In a circle nobody could want a counter; nor a product, for the one who holds the
  largest wanted would want a larger; nor a mechanic or a drawer, though a payment takes its
  mechanic before its drawer, because it wants that drawer `FOR SHARE` only and those who hold
  one `FOR UPDATE` want nothing more (`DrawerLast`); nor then a first row. For the refinement, a commit writes rows
  that its own locks keep the others from having read (`Apart`), the one that is not a row
  being the cash of a drawer: a cash-out sums the documents stamped with the shift it holds
  `FOR UPDATE`, and every other request that adds or voids one of them has that shift locked too
  (`CashKept`). `OneByOneAssumption` says what the foreign keys and types of the
  schema say of bodies, and that ids are ordered.
- *TenantCache.* `NoStaleAnswer` speaks of answers. It is inductive with a statement about
  each generation: no value under the current generation, stored or still being loaded, is
  older than the last invalidation (`Current`), and none under any generation is older than
  what a reader holding it may see (`Reachable`). Nothing is stored under a token not yet
  drawn (`Undrawn`), so replacing the generation keeps both: that is where the random token,
  and taking it before the query, enter.
- *Import.* `ImportInv`: the queue hands a job to one worker (`OneWorker`), whose file was accepted
  and is not yet written (`AcceptedOnly`, `WrittenOnce`), and before a replacing worker writes, the
  copy of its job is exactly what its transaction sees (`Copied`). A commit deletes only rows
  its transaction sees, so what was deleted is in the copy of a job that is done, and no step
  copies for a done job again. `AcceptedFits` is a statement
  about data: `AcceptedFileFits` takes the schema's keys and references one by one and finds for
  each the check of the pre-flight, the tombstone or the dropped row that keeps it. It needs the
  rows written under one id to be one (`InsertAll`), and the accounts and settings, which an import
  keeps when its file has none, to be in order in the shop. `DataAssumption` says that a shop is
  one the schema takes and that a file's rows have the columns of their tables. The proof is of
  `Spec`, in which a worker that lost its job is gone; under `SlowNext` two of these are false
  (`import_overlap`).
- *RateLimit.* `GuessesBounded` counts the guesses let in; the counter in Redis counts
  attempts, and goes down when a right answer gives its own back. They are tied by `CountInv`:
  what was let in plus the refunds still on their way is at most what the counter holds plus
  its slack, and at most the limit plus its slack. A refund that crosses the turn of the slice, or
  was never counted because Redis did not answer, takes one attempt off that slice; the slack
  counts exactly those.

- *Access, its chains.* `NoFork` counts what a token was answered with; what bounds the count is
  the row. The token a chain expects was never rotated and the one before it once, and answered by
  grace only if the row says so (`ChainTrue`); no token is expected or remembered by two chains
  (`ChainsApart`); and a login's token, which has no row until its first refresh, is in no chain
  but its own and gets no second one before it is dead (`RootTrue`). The last is where the prune
  enters: a chain is deleted only a day after its tokens expired (`OneExpiry`: they expire
  together), when no request that read one of them alive can still be in its transaction
  (`ChainRequest`).
- *Access, its passwords.* A token of a password that is no longer the owner's was signed no
  later than the change unless the change crossed its request (`TokenTrue`); a request that read
  the owner's row holds either the row as it stands or one with another password
  (`PasswordRequest`), which is what the predicate of `changePassword`'s UPDATE tells apart.
- *Access, its status.* A cached or just read "active" dates from no later than the stop
  (`CachedTrue`, `StatusRequest`), so it expires a TTL and a slow call after it; the purge is
  not needed for the bound.
- *Quotes.* `QuotesInv`: while a request holds a quote's row, what it classified is still so,
  because every other writer of that row waits; a quote is marked exactly when one bill took
  it, and that bill is the one the mark names. The found state of a bill is therefore the truth
  at its commit, which is what `NeverRungTwice` compares a refusal with.
- *Pull.* `PullInv` orders the stamps: a writer's stamp is no older than the ceiling before its
  commit, the round's cursor stays back by the rewind, and a row the walk has passed is copied
  or was committed after the round began. The hypothesis of `NothingIsMissed` is not an
  assumption of the model because the code does not enforce it; `office_long_round` is an
  instance where it fails and a row is lost.
- *Images.* A file that a row names, or that an upload or an import is about to name, is there
  (`WantedThere`); a removal that was decided, and that nothing has overlapped, is of a file
  nobody wants (`DoomedUnwanted`); of the uploads to one bill one has counted its photos
  (`BillsHold`). The second carries the first through `RemoveFiles`.
- *Accounts.* At most one window is between its judgement and its write; the row it read and the
  number of active accounts it counted are still so.
- *Registers.* A lock has one holder and what its holder read stands; codes are 1..n without a
  gap, so the next one is free; customers owe nothing.
- *Config.* The process has seen every revision up to its latest and logs at that one; an open
  watch asks for the next.

- *Sync.* `SyncInv`. The properties speak of what the server holds; what keeps them is what is
  still in the outbox, under way or promised. Effects, rows and keys say the same (`Claimed`).
  A result "applied" that is on its way is of a document the server has and whose paper, if it
  differs, the owner knows of (`Settled`); a result "rejected" is of an operation with a verdict
  (`Told`). So an answer may be lost, or taken late, without taking an entry out too early. An
  entry carries the number on its paper, in the outbox and in every push, and a number is not
  drawn again for what was queued (`Papers`): without it a replay by key could not know that the
  owner was told. In the outbox and in every push a credit note or a void comes after its bill
  unless the bill is `Past` (stored, discarded or judged; `Order`). For the outbox that needs that
  what leaves it is settled or discarded; for a push, that `findSendableOps` keeps the order and
  sends no entry past a held one of its bill (`BatchFollows`); and the stop at the first retry
  then leaves no way to reach a note whose bill was only put off. `Batches` bounds a push and
  says that what the till waits on is pending in its outbox, so that a failed head has attempts
  left to count. Entries are kept by `Kept`, written with the rank of a place so that its order
  could be proved without recursion (`Places`, `KeptIs`). `NoneAssumption` says that no row, push,
  number of a push or fingerprint is the absent value.

**Only model-checked.** The liveness properties (`Served`, `Answered`), which are out of the
prover's reach. Every other property of the passing runs is the statement of a theorem.

## 5. What is left out

- **Isolation inside `Shop`** is abstracted by its one-step handlers; `RowLocks` shows it for
  rows cut down to one unit a line and one tab, not for the full ledgers. The retry of a whole
  request after a rollback is in `Idempotency`.
- **Tenants**: every model is of one tenant. Row-level security is a property of the schema.
- **Redis commands that time out and execute much later.** A command that fails may have
  been executed, but not after the request has gone on. For the generation this changes
  nothing (a late `SET` of it is a late `Invalidate`).
- **Other readers of the cache** (`byId`, settings, customers, mechanics): they follow `list`
  without its lock.
- **Offline build**: the Drift repositories repeat the server's operations for one user
  without concurrency.
- **Failure counters nobody calls** (`getFailureStatus`, `recordFailure`, `checkKeyLimit`).
- **Reports** other than the expected cash, health, metrics, deployment, client screens and
  blocs, the files of the sale-post and backup jobs: read-only, or no state the properties are
  about.
- **Contents of rows** that no check reads: names, notes, labels, wording, units.

## 6. Plan

In order:

1. The other readers of the cache and the settings row; the jobs queued after a commit and
   their retries.
