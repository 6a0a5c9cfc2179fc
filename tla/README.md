# tenso: specification and verification

TLA+ modules for `block-analysis`, the program that fetches a range of Solana
blocks, reconstructs how parallel each block could have run, infers token prices
from balance changes, and stores both in DuckDB for an API and a dashboard.
Paths below are relative to the repository; `crates/` is where the code lives.

## 1. The system

| Component | State | Operations | Talks to |
|---|---|---|---|
| ingest pipeline (`cli/src/main.rs`) | three tokio tasks, two bounded channels, the pending batch, counters | fetch, parse, store, flush, join, candle pass | block fetch (callback), storage (mutex) |
| block fetch (`ingest-core/block_fetch.rs`, `retry.rs`) | work list, `FuturesUnordered` pool, attempts and sleeps | prime, poll, refill, back off | rate limiter, RPC client, `on_outcome` |
| rate limiter (`rate_limiter.rs`) | tokens, time of the last refill | `acquire` | every worker (shared mutex) |
| RPC client (`rpc_client.rs`, `account_resolution.rs`, `types.rs`) | none | classify replies, decode balances, locks, programs | RPC node |
| contention (`contention/src/lib.rs`) | per-account last write and readers | `build_schedule` | called by parse |
| ohlcv (`ohlcv/src/lib.rs`) | none | `infer_trades`, `build_candles` | called by the candle pass |
| storage (`storage/src/`) | seven tables | status upsert, batch replace, step updates, candle upsert, queries | DuckDB |
| API (`api/src/`) | shared connection mutex, blocking threads | three queries, health | storage, on the ingest's connection |
| dashboard (`static/`) | token list, two menus, the chart | three fetches | API |

What is hard here, and what must hold:

* **Pipeline.** Three tasks end in any order, each can fail, the channels fill
  up, and the process can be killed between any two database commits. No slot
  may be lost or counted twice, memory must stay bounded, no await may wait for
  ever, and a success must mean that the range is stored.
* **Pool and limiter.** Many workers sleep on times computed from a bucket
  others use meanwhile. The cap must hold in every window and be reached, only
  transient errors may be retried, every slot must get an answer.
* **Scheduler.** One pass with one step and a list per account must equal a
  definition that looks at all earlier transactions.
* **Decoding and candles.** Counts of a header cut a list in four; two lists are
  matched by index; nets wrap at 64 bits; rows of several runs meet in one table
  of candles, with trades of equal time in any order.

* **Storage and API.** A batch is a dozen statements for each slot, any of which may
  fail, panic or be the last one of the process; the next attempt meets what
  it left, and queries run on the same connection. What is committed of a slot must be
  one attempt's, an answer must be one state's, and nobody may wait for ever.
* **Dashboard.** The menus are those of an earlier moment, and responses arrive in
  any order: what is asked for must exist, what is drawn must be what is selected.

The hazards are listed with their lines in `PROJECT.json`.

## 2. Modules

| Module | Models | Refines | Theorems in |
|---|---|---|---|
| `OrderPreservingSchedule` | what a schedule must be | | |
| `Contention` | `build_schedule`, one transaction per step | `OrderPreservingSchedule` | `Contention_proofs` |
| `IngestRun` | what the `ingest` command promises | | |
| `Pipeline` | `run_ingest` and the database writes | `IngestRun` | `Pipeline_proofs` |
| `TokenBucket` | the rate limiter | | `BlockFetch_proofs` |
| `BlockFetch` | the pool, the requests, the retries; extends `TokenBucket` | `TokenBucket` | `BlockFetch_proofs` |
| `AtomicStore` | what `flush_parsed_batch` promises about the database | | |
| `FlushBatch` | one connection and `flush_parsed_batch`, one statement per step | `AtomicStore` | `ApiServer_proofs` |
| `ApiServer` | the API's requests and the ingest's jobs on that connection; extends `FlushBatch` | `AtomicStore` | `ApiServer_proofs` |
| `Dashboard` | the page's menus, requests and chart | | `Dashboard_proofs` |
| `TokenFlow` | one transaction's balances from RPC reply to trade | | `TokenFlow_proofs` |
| `Candles` | the candle table over several runs | | `Candles_proofs` |
| `AccountLocks` | locks and programs of one message | | `AccountLocks_proofs` |

`MCContention`, `MCTokenFlow`, `MCCandles` and `MCApiServer` define the inputs TLC enumerates.
`PROJECT.json` maps every definition to its lines. An operator whose comment
says *Mutant* is a plausible bug; it is used by no action and exists to show that
a property would notice.

### How state and actions correspond to the code

**Contention.** `lastWrite` and `readers` are the two fields of `AccountState`;
`ScheduleTx` is one iteration of the loop over `txs` (lib.rs:88-137), `Finish`
the depth and widths. A lock list is two disjoint sets of accounts: RPC messages
name an account once, and the order of a transaction's locks does not matter to
either inner loop. Signatures and program ids are left out.

**Pipeline.** A task runs on its own memory between two awaits, so an action goes
from one await to the next. `FetchNext` is a future's outcome coming out of
`in_flight.next()`; `FetchSend` is the send on the channel together with the
refill of the pool that follows it in the same poll; `ParseRecv`/`ParseSend`,
`StoreRecv`/`StoreStatus` likewise. `StoreStatus` also hands a full batch to
`flush_parsed_batch`, of which `FlushCommit` (the DuckDB transaction of
`replace_slots_batch`) and each `FlushSteps` (a block's step updates) are
separate commits; a kill or an error in the middle of the latter may leave them
`"partial"`. `Crash` keeps the four database variables and nothing else;
`Restart` runs the same command again. A block is its slot number.
`--simulate-pause-secs` and `--cpu-inline` only change how long a step takes. With
`--serve` the process does not exit after the candles but keeps serving; the run
is over all the same.

**TokenBucket, BlockFetch.** Time is discrete. The `f64` token count is kept exact
by counting in units of 1/`Unit` of a token. `Grant` and `Refuse` are the two
ways one turn of the loop in `acquire` can go: the async mutex is held for all
of it. In `BlockFetch` a future is in `acquire` (asleep while `timer > 0`),
`request`, `backoff` or `done`; the futures are polled by one task, and not at all
while `on_outcome` runs (`delivering`). A reply of the node is its class, with
both text patterns free, so `"missing"` inside a throttling message is a case.

**FlushBatch.** `Pipeline` takes a flush for one commit and one step per block; here it is
taken apart. A row is its table, slot, primary key and the number of the flush
that wrote it; `view` is what a statement on the connection sees, `disk` what is
committed. `DeleteRows`, `UpsertBlock` and `AppendRows` are the seven statements of
`replace_slot_data_inner`, `WriteStep` one UPDATE. The upsert of `blocks` replaces the
slot's only row, so it is written as a delete and an insert. An appender refuses a
primary key that is taken; within a transaction a deleted key is free again
(DuckDB 1.5, the bundled one). `Fault` is any statement that fails from outside, with the
`?` and ROLLBACK that follow, and a COMMIT that fails with or without ending
the transaction; `Panic` unwinds without ROLLBACK and poisons the mutex, so
its transaction stays open; `Reopen` is a restart. The keys of a block are the
same in every attempt: a block is final when it is fetched.

**ApiServer.** A query and a job of the ingest each wait for a blocking thread
(`GetThread`), then for the mutex (`Lock`, or `LockPoisoned` and `IngestPoisoned`). A
job is a flush, or any other use of the connection (status, candles, counts), which
reads and writes no table of `FlushBatch`; an error ends the run or is only
logged, so both are taken. A contention query is its two statements, a request for tokens or
candles one. `Exit` loses the requests in flight; `Open` starts `ingest --serve` or
`serve` on the same file. A run flushes each slot at most once.

**Dashboard.** One action is what runs between two awaits. The rows behind the menus
are which series have candles, and `Build` adds to them in the order of
`build_and_store_candles`, ending anywhere. `fetches` keeps every request, so that
`Serve` and the arrivals may happen in any order; `Fail` is a 500, whose body is no JSON, or
no response, and the handler's promise is rejected. `inOrder` is a history
variable for the property only.

**TokenFlow.** `Decode`, `Parse`, `Store` and `Infer` are the four hand-overs of a
transaction's rows. Amounts have `Width` bits; sums are exact (the code uses
`i128`) and cast back. A row of `Store` whose cast to `i64` is negative is refused by the
`UBIGINT` column (external). Decimals are left out: a sign and a zero do not
depend on them.

**Candles.** A run stores some slots of its range and upserts candles of *all*
rows stored in the range. The hash map that yields the transactions is any order
that the stable sort by time allows: `place` is where `mtrades` has each of them
after the sort. A pass that stops early (`IngestCut`) has
upserted the candles of the first interval before those of the second. One mint
is enough: rows of different mints never meet.

**AccountLocks.** A key is its index; the header's counts range over values that
cannot be true as well.

## 3. Runs

| Run | Instance | Checks |
|---|---|---|
| `contention` | every block of up to 4 transactions over 2 accounts (all 9 lock pairs each) | exact account state, order, no idle wait, depth = longest chain, conflicts of writes, refinement |
| `pipeline_crash` | 3 slots, pool 2, batch 2, channels 1, 2 runs, kills and errors anywhere | nothing lost, nothing twice, stage order, counters recorded, success complete, refinement of `IngestRun` |
| `pipeline_stalls` | 7 slots, pool 1, batch 2, channels 1, one run, blocks and failed fetches, every failure of the store task | bounded memory, a run ends |
| `block_fetch` | 3 slots, 2 workers, one retry, 2/3 token per tick, bucket of 4/3, 5 ticks of dated grants | cap kept and reached, one token per slot, pool discipline, no oversleep, retries, every slot answered |
| `served_ingest` | 2 slots, 3 signatures, 2 flushes, 2 requests, 2 threads, one fault or panic, 2 processes | slots whole, no flush fails by itself, schedules complete to readers, answers of one committed state, refinement of `AtomicStore`, every request answered |
| `dashboard` | 2 mints, 2 builds of candles, 4 requests of the page | no empty chart, the chart is the selection |
| `token_flow` | 3 accounts, 2 mints, amounts 0, 3, 5 of 3 bits, with and without failure | exact nets, storage keeps them, trades are opposite moves |
| `candles` | 3 slots in 5 seconds, at most one without time, widths 2 and 4, 2 runs over any ranges | real candles, exact whole buckets, series agree |
| `account_locks` | up to 3 static and 3 + 3 loaded keys, counts up to 4 | every key once, documented layout, programs by index |

Why these bounds are enough:

* *contention*: reset, re-read and re-write of an account needs four
  transactions, and a chain that crosses accounts needs two accounts. The
  theorems cover the rest.
* *pipeline*: three slots with a pool and a batch of two give a full batch, a
  short last one, a refilled pool and a full channel; a second run is what a
  re-run after a kill needs. Seven slots exceed everything the stages can hold
  together in `pipeline_stalls` (1 + 2·1 + 1 + 2 = 6), so every await on a full
  channel is reached.
* *block fetch*: rates that do not divide a token make every sleep round up and the
  bucket overflow, with two workers racing for the same token; `Horizon` bounds
  only the dating of grants, behaviours go on after it.
* *served ingest*: the second flush meets the rows, keys and transaction state of
  the first, in the same process or the next; two threads are what one query
  and one job can fill; two of the three transactions have no balance row, and all write one account.
* *dashboard*: four requests are the token list, a first chart and two changes of the
  selection, so that responses cross; two builds let a mint gain an interval, and
  a mint appear, after the list was loaded.
* *token flow*: with three bits, 5 is an amount whose signed cast is negative and
  5 + 5 does not fit; the last occurs in no real supply, so the three properties
  say which transactions they speak of (`WithinSupply`, `MintsKept`).
* *candles*: wide buckets contain two narrow ones, slots share seconds, and a run
  over part of a bucket, over the same slots and over new ones all occur.
* *account locks*: counts above the number of keys occur in every combination.

### Disagreements between code and documentation

Each of these runs checks one sentence of the documentation and finds a
behaviour of the code that contradicts it.

| Run | Sentence | Behaviour |
|---|---|---|
| `block_fetch_retry_rate` | total throughput of all workers "stays under the cap" (block_fetch.rs:21-23) | retries take no token |
| `pipeline_lost_batch` | the status tells re-runs "what's already done" (types.rs:40-41) | the status is committed before the block; a kill leaves it without one |
| `candles_subrange` | re-running "converges to the same end state" (repository.rs:9-10) | a re-run of part of a bucket replaces the whole bucket's candle |

More were met and are not given a run.

* With `--rate-per-sec` below 1 the limiter's burst is smaller than one token, and
  `acquire` never returns, although it blocks "until a token is available"
  (rate_limiter.rs:40). This is a theorem, `SlowBucketNeverGrants`.
* Snapshots come out of a hash map and are sorted by time only, so a re-run may change
  open and close of a bucket with trades of one second; `SeriesAgree` holds
  because both series of one pass are built from the same order.
* `top_conflicting_accounts` (repository.rs:222-228) counts write locks; a lone
  transaction's count as well. `Top` of `ApiServer` is modelled so.
* The token list is loaded once per page, so mints that gain candles later are
  not offered, and a response overtaken by a later one is drawn over it.
* `--max-concurrency 0` primes an empty pool, so the command succeeds with nothing
  fetched, although "Fetch every slot" (block_fetch.rs:20) makes no exception;
  `SuccessIsComplete` is stated for at least one worker.
* `conflicts` is documented as "Every account-lock conflict observed"
  (contention/src/lib.rs:65), while only a write lock adds to it: a read moved
  behind an earlier write is not reported. `WriteConflictsReported` says exactly
  which ones are.

### Fairness

Safety properties need none. `Pipeline` assumes weak fairness of each task: the
multi-threaded runtime polls every woken task, a blocking worker finishes, and the
RPC node answers in the end. Kills and restarts are never assumed. `BlockFetch` assumes it
of each future's step, of `on_outcome`, of time and of the node's answer. That
last one is a real assumption: the HTTP client is built without a timeout
(rpc_client.rs:49), so a node that accepts a request and stays silent stalls a
worker for ever.

`ApiServer` assumes weak fairness of each request's steps and of the ingest's: the
runtime runs every async task and every blocking thread that can go on. A mutex
and a queue for threads need not be fair for this: a run has finitely many jobs
(`MaxJobs`) and requests, so nobody is overtaken for ever. Asking, submitting,
failing and ending the process are never assumed. `Dashboard` states no liveness:
the network owes the page nothing.

`CHECK_DEADLOCK FALSE` is used where the program stops: `build_schedule` and
`resolve_account_locks` return, a transaction is done, every slot is answered, the
numbers of runs, flushes and
requests are bounded. `Pipeline` is
checked for deadlock: a run that is over stutters in `Stopped`, nothing else may.

## 4. Proofs

Proved by TLAPS for every value of the constants, from the named `ASSUME`s of
the modules (the constants are natural numbers, a channel holds at least one
message, a rate is positive, a block is a sequence of transactions and a step is
a natural number, accounts, mints and the slots of the candles are finitely many, times, prices and
volumes of trades are integers, the menus' empty value is no mint). TLC evaluates the assumptions in the runs.

* **Contention_proofs.** `IInv` is `TypeOK`, `AccountStateExact`, `StepsBounded`,
  `OrderPreserving` and `NoIdleWait`. The second carries the weight: order is not
  inductive by itself, since the code does not look at earlier transactions
  but at the account state. `EarliestStepMax` says what the maximum over blocking
  steps is, and each conjunct is proved for `ScheduleTx`. With the invariant,
  the step given is the first free one, hence `ImplementsSchedule`.
  `ConflictsAreReported` has `ConflictsExact` besides: an account has activity exactly
  when an earlier transaction locks it (`ActivityIsAnEarlierLock`), although a
  write empties the list of readers. `DepthIsLeast` needs two halves. A chain is no longer than the depth,
  as its steps increase (`ChainIncreases`: else take the smallest gap at which they do
  not). And one is as long: every transaction ends a chain of its
  step's length (`ChainsReachDown`: the least that did not would directly follow
  one that does, by `NoIdleWait`). The widths cut the block by step, so they add up to its length.
  `NothingRunsEarlier` compares with every order-preserving schedule at once: none starts
  any single transaction earlier. TLC has no run for it, as the schedules to compare with are unbounded.
* **Pipeline_proofs.** `TypeOK`, then `StageOrder` from it, then `NothingLost`
  from both, `CountedIsRecorded` and last `SuccessIsComplete`; one lemma per
  task and property. Success needs all of them: the joins say that every stage ended well
  (`StageOrder`), so that nothing is in transit and everything popped is counted (`NothingLost`), and
  what is counted is stored (`CountedIsRecorded`).
  `CountedOnce` has `OnceInv`: the places a slot can be in are disjoint, and the
  two counters together count what has left them. `MemoryIsBounded` has `BoundInv`: the
  pool is not refilled before the outcome is sent, a channel not filled beyond its
  capacity, and a batch taken when it is full. `ImplementsIngestRun` maps every step, a kill
  and a failure among them, to an outcome recorded, a block stored, an end, or a stutter. It is
  stated for at least one worker: with none it is false (section 3).
* **BlockFetch_proofs, the limiter.** The cap of all windows is not inductive: `Headroom`
  relates what is in the bucket to what each window may still grant. A grant
  spends a unit of every headroom, a tick adds as much to the window as to the
  bucket, the cap at `Burst` opens the window of the next grant.
  `SlowBucketNeverGrants` needs of it only that the level stays below the burst.
  `CapIsReached` is the converse of the cap and has an invariant of its own, `Tight`: the
  bucket is full, or what it holds and what some window has granted add up to all
  that window may have.
* **ApiServer_proofs, the flush.** `IInv` is `TypeOK`, `BeginsAtOnce` (a flush that has not begun is
  at its first block), `Connection` (a transaction is open exactly in the statements
  and after a panic, `view` is `disk` when none is), `NoOwnFailure`,
  `FlushedRows` and `DiskWhole`. `FlushedRows` carries the weight: it says, for every
  place in the batch, which slots' rows are already this flush's, and what
  of the current slot the statements so far have deleted and appended; from it,
  the keys an append needs are free and COMMIT installs whole slots.
  `StepsNow`, what an open transaction has made of the steps, is added for `ImplementsStore`.
* **ApiServer_proofs, the server.** `ServerInv` adds who is where (`Whereabouts`), that at most one
  client has the mutex (`MutexHeld`), that a flush under way is the holder's
  (`FlushHolds`), and that what a contention query saw first is still so
  (`SeenIsCurrent`). A step of the server is a step of the connection or leaves it alone, so
  `ServerImplementsStore` and `ServerSlotsStayWhole` follow from the two theorems
  above; `ContentionAnswersAreCurrent` from `SeenIsCurrent` and from `view = disk`
  whenever a query has the mutex: after a panic none gets it.
  `SchedulesAreSeen` adds `FirstRun`: without a fault, what is still to be stepped is
  what the current flush has inserted (`Unstepped`), and there is none when the mutex is free.
* **BlockFetch_proofs, the pool.** `IInv` adds how many attempts go with each place of a
  future. `ImplementsBucket` maps every step of the pool to a bucket step or a
  stutter, so that `PoolKeepsCap` follows from `CapIsKept`. `PoolIsDisciplined`
  counts the pool: an answer takes one future out and holds the poll up, and the
  delivery that ends that adds the oldest slot left, so the sum of the two
  is the limit as long as a slot waits. `PoolReachesCap` carries `CapIsReached` over in the
  same way as the cap. `TokensMatchSlots` counts grants against slots that have asked the node:
  only the step that leaves `acquire` adds to either. `NobodyOversleeps` rests on
  `SleepIsShort` (the division that computes a sleep rounds up by less than a tick), and
  on the fact that other workers can only lower the level meanwhile, and time adds one tick's refill.
* **AccountLocks_proofs.** `Cuts`: for any header the three counts, each saturated and
  capped as the code does it, cut 0..n at places in order, so the four slices neither overlap nor
  leave a gap. `LocksOfTx` turns the concatenated slices into sets of locks, from which
  `EveryKeyIsLockedOnce` and `LocksFollowLayout` follow; `ProgramsAreLocked` from
  the unsplit list being the keys in order.

* **TokenFlow_proofs.** The library's induction theorems cannot be used here, so a sum over a set
  is found by a table: a function that gives every subset a number and agrees with
  adding one element exists, and is the sum (`TableExists`, `SumIsTable`; the smallest subset
  for which either failed would contradict the one below it). `SumOfDifferences` then
  makes the net of a mint the difference of its holdings, `NetWithinWidth` says that it fits 64 bits
  wherever the supply does, and `RowIsExact` that the casts to `u64`, `i64` and back return it.
  `StoredIsDecoded` needs `NettingTwice`, netting rows of which each mint has one;
  `SwapsAreTraded` the signs of a product. `FlowInv` ties each stage to the transaction.
* **Dashboard_proofs.** `IInv`: whatever the list, the menus and every request offer has candles,
  since candles are only ever added (`AllOffer`). `OrderInv` for `ChartFollowsMenus`: the list is
  asked for once, the last request is for the selection, and what is drawn is
  the latest request that is over, as long as none was overtaken.

* **Candles_proofs.** `IInv` is `TypeOK`, `CandlesAreReal` and `LastPassInOneOrder`: a complete
  pass has built the buckets of every width from one order of its trades, although it
  computes them width by width. `CandleSummarises` is about one call of `build_candles`;
  with it the first is inductive, since what a pass does not upsert it leaves alone.
  `WholeBucketsStayExact` follows because a bucket whose stored trades all were read is
  built from all of them. For `SeriesStayInAgreement` a wide bucket is cut into the narrow ones
  (`BucketsNest`, about the floor division; `BucketsAreCut`), and an extreme, an end and a sum are found part
  by part (`ExtremesByParts`, `EndsByParts`, `SumByParts`).

Only model-checked: liveness (`RunEnds`, `EverySlotAnswered`, `EveryRequestAnswered`),
which is beyond this prover, as is ENABLED. Only proved, and not run:
`RefinesBucket`, which the syntax of `BlockFetch`'s actions gives TLC nothing to disturb.

## 5. Not modelled

* the JSON shapes and the digits of an amount (serde, `str::parse`), `get_slot`;
* floating point: prices are given values in `Candles`, token counts exact rationals in `TokenBucket`;
* panics outside the connection's mutex;
* `query_db_stats` and its nine counts, `LIMIT 20` and the order of the accounts, the
  schema's DDL, static files, scripts;
* the contention table of the page and the pixels of its charts.

## 6. Plan

Done in this order, the most important behaviour first: scheduler, pipeline,
limiter and pool, token flow, candles, account locks; the flush statement by
statement, the API on its connection, the dashboard; proofs about each of them.
Every safety property of a passing run is a theorem.

To do: that no task, request or future is ever left without a step it can take, as
state predicates (without ENABLED) and with them theorems for every capacity; theorems
about the abstract specifications, which a detailed module inherits by its refinement.
