# Verification of reserve-stats

`reserve-stats` gathers what the Kyber reserves do on the Ethereum chain and on
exchanges: it crawls trades and rates into PostgreSQL, derives accounting data,
and serves both over HTTP.  This directory holds TLA+ models of its stateful
parts, TLC configurations that check them on small instances, and theorems about
them checked by TLAPS.  Paths below are relative to `src/`.

## Inventory

| Component | State | Operations | What is hard | What makes it correct |
| --- | --- | --- | --- | --- |
| Workers pool (`tradelogs/workers`, the same design in `reserverates/workers`) | job channel, error channel, mutex, last completed order, failed flag | run, retry, serial save, mark as failed, shut down | many goroutines, polling, closing channels under workers | results are stored in job order and nothing after a failed one; it always ends |
| Trade logs crawler (`tradelogs/cmd/trade-logs-crawler`) | the planner's `fromBlock`; the tables | plan a round, cut it into jobs, resume | crashes, reorganisations, generation boundaries | no gap below the resume point, only final blocks |
| Trade log assembly (`tradelogs/crawler*.go`) | the pending trade log of a job | one handler per event, per contract generation | events of several trades in one stream | no part of a trade in another one |
| Trade logs storage (`tradelogs/storage/postgres`) | tradelogs, users, fee, split, reserve, token, big_tradelogs tables | SaveTradeLogs, SaveBigTrades, LastBlock, reports | shadowed errors around the transaction, replays | one first trade per user, idempotent batches |
| Reserve rates crawler (`reserverates`) | rows of equal rates | fetch a block, group, upsert, resume | crash between blocks, skipped pairs | a row is right for each of its blocks |
| Last block of a day (`lib/lastblockdaily`) | last resolved day | exponential and binary search, stored results | days jumped over, a reader that is gone | one block per day, in order |
| Accounting rates (`accounting/reserve-rate`) | rows per day, completed order | daily jobs | blocking error channel, check-then-store | days are stored in order or not at all |
| Reserve transactions (`accounting/reserve-transaction-fetcher`) | tables, last inserted block | batches per address type | crash between the data and the marker | no block left out |
| Reserve addresses (`accounting/reserve-addresses`) | addresses, version counter | create, update, get all | unlocked reads of data and version | a version names one content |
| Listed tokens (`accounting/listed-tokens`) | tokens with old addresses, version | fetch, create or update | order of reserves | a change raises the version, history is kept |
| Exchange trades and withdrawals (`accounting/binance`, `accounting/huobi`) | tables per exchange, a resume point derived from them | incremental fetch per account, conversion of trades, import of fees | one resume point for several accounts, goroutines and symbols; states that change later | nothing is missing below the resume point |
| Burned fees (`burnedfees`) | event table | crawl in ranges | shared boundary blocks, no key | each event once |
| Application names (`app-names`) | applications and addresses | create, update, delete | addresses move between applications | an address has one application |
| Caches (`lib/blockchain`, `lib/userprofile`) | maps with indices and limits | look up, evict | concurrent misses | index and map agree |
| Rates (`lib/tokenrate`, `tokenratefetcher`) | cache by day with expiry; table of rates | look up, ask, set; fetch a day, resume | slow provider, racing callers, failed runs | no stale rate, no day left out |
| Users (`users`) | volumes in Redis, with expiry | cacher: query, set; API: caps | window, expiry and failed runs out of step | who is rich has traded, caps are within the limit |
| Reports of trades (`tradelogs/storage/postgres`, `tradelogs/http`) | none | SQL queries, two for some reports | time zones, joins, rows stored between two queries | reports agree with the rows and with one another |
| Binance rate limiter (`lib/binance`) | blocked-until time | guard, punish | answers in any order | no request before the time the client was told |
| Chainalysis push (`tradelogs/cmd/trade-logs-chainalysis`) | none | windows, retries, two calls per user | calls that fail after being served | a run registers all trades of its windows |
| HTTP handlers, gateways | none | parse, forward | none that is stateful | (not modelled) |

The components interact through PostgreSQL (the crawlers write, the APIs read),
through HTTP (the gateway forwards, the fetchers ask the addresses API), and
inside a crawler through channels and a mutex.  `PROJECT.json` lists every
component with its status and the hazards with their lines.

## Modules

### Which module stands for what

| Module | Code | State | Actions |
| --- | --- | --- | --- |
| `SerialSaver` | what `tradelogs/workers` promises | the jobs stored, the counter, halted | store the next job, complete it, halt |
| `WorkerPool` | `tradelogs/workers/workers.go`, `main.go` of the crawler | each worker's place and job, tries, mutex, counter, failed flag, error channel, feeder, `main` | one per step of `Run`, `serialSaveTradeLogs`, `markAsFailed`, of the feeder and of the select loop |
| `TradeLogsJobs` | the cutting of a range into jobs, the generation of a job | none (operators) | - |
| `TradeLogsCrawler` | planner, `SaveTradeLogs`, `SaveBigTrades`, `LastBlock` | chain (head, reorganised blocks), process, round, jobs fetched and stored, tables | mine, reorganise, plan, fetch, store, fail to COMMIT, save big trades, end a round, crash, start |
| `TradeLogAssembly` | `tradelogs/crawler*.go` | the event logs left, the pending trade log, the trades | one per kind of event: a fee, a trade, a failing fetch, the end |
| `TradeLogsStorage` | `SaveTradeLogs` with its reserves and splits, `create_or_update_tradelogs` | reserves registered and moved on the chain, rows of reserve and split, the job at work | save reserves, update rebate wallets, insert a trade, commit and go on to the next job, lose the COMMIT of wallets or of trades, stop |
| `TradeLogReports` | reports and `LoadTradeLogs` of `tradelogs/storage/postgres` | rows of trades, the report between its two queries, the last answer | store a trade, the first query, the second one |
| `ChainalysisPush` | `tradelogs/cmd/trade-logs-chainalysis`, `tradelogs/chainalysis` | window, attempt, what is left to register, what Chainalysis has | get trades, begin an attempt, register an address, a transfer, fail, give up, next window |
| `ReserveRates` | `reserverates` crawler, workers and PostgreSQL storage | rates of the chain, rows of equal rates, the range at work | mine, start a round, fetch and upsert a block, end a round, crash |
| `LastBlockDaily` | `lib/lastblockdaily` | chain with the day of each block, the call at work, its search interval, the table | mine, call Resolve or Next, probe, search, store, fail |
| `AccountingRates` | `accounting/reserve-rate/fetcher` | day, reserves known, rows per day, phases, resolver goroutines, jobs, completed order, failed, what was stored without a reserve | a new day, a reserve, start, start for a range, plan, resolve, fetch, leave reserves out, wait for the turn, store, error, return, kill |
| `HuobiWithdrawals` | `accounting/huobi` withdrawals and their command | withdrawals of each account, rows, a goroutine per currency, the account at work | withdraw, start, fetch a page, give up, store, next account, kill |
| `BinanceWithdrawals` | `accounting/binance` withdrawals, their command, the import of fees | withdrawals with state and account, rows, the window at work | withdraw, progress, start, fetch a window, store, import, kill |
| `BinanceTrades` | `accounting/binance` trades, their command and the post-processor | trades by account and pair, rows with and without conversion, batches | trade, start, get a page, store, convert, fail, kill |
| `HuobiTrades` | `accounting/huobi` trades and their command | orders with the hour they were filled, rows, a goroutine per symbol | make and fill an order, start, get orders, stop, store |
| `ReserveTransactions` | `accounting/reserve-transaction-fetcher` | transactions, links, last inserted blocks, the batch at work | mine, start a run, fetch, store, update the marker, fail, kill |
| `ReserveAddresses` | `accounting/reserve-addresses` storage and trigger | addresses, version, the reader between its two queries | Create, Update, the two reads of GetAll |
| `ListedTokens` | `accounting/listed-tokens` fetcher, `save_token`, `tokens_view` | what reserves list, token rows with parents, version | a reserve lists, a run begins, saves a token, ends or stops |
| `BurnedFees` | `burnedfees` crawler and PostgreSQL storage | head, event rows, range at work | mine, start, crawl a chunk, end, kill |
| `AppNames` | `app-names` storage | names, addresses, active flags | create or update, update, delete |
| `BlockTimeCache` | `lib/blockchain` block time resolver | map, index list, callers between unlock and lock | look up, fetch, insert, evict |
| `ProfileCache` | `lib/userprofile` cached client | map, heap, clients between unlock and lock | look up, answer, insert or update, evict |
| `BinanceLimiter` | `lib/binance/transport_limiter.go` | time, blocked-until, requests between guard and answer, what the client was told | guard, answer 200, 429 or 418, handle an answer, fail |
| `RateCache` | `lib/tokenrate/cached_rate_provider.go` | time, items with expiry, callers waiting for the provider | ask, the provider gives or fails, set |
| `TokenRates` | `tokenratefetcher` with its PostgreSQL table | today, days stored, days left of the run | a day passes, start with and without a range, fetch a day, stop |
| `UserCaps` | `users` internal cacher, keys in Redis, `userStats` | time, trades, keys with expiry, the run between query and pipeline | time passes, trade, query, execute the pipeline, stop in between |

Every action is a handler or the longest stretch of one that no other goroutine,
process or failure can interrupt; where the code unlocks, sends, receives, queries
or commits, another action begins.  Definitions keep the names of the code.  An
operator whose comment says "variant" is a plausible mistake at that place: it is
used by no specification and shows, when it is put in the place of the definition
after it, that the property named in `PROJECT.json` under `mutants` would notice.

Three `MC` modules put programs beside each other that share no state; `program`, chosen
at the start, tells which one runs, so the state space is the sum of theirs and not the
product:

- `MCAccounting`: the resolver (`LastBlockDaily`), the fetcher of rates (`AccountingRates`),
  which sees of the resolver only the day it found, and the fetchers of Huobi's and
  Binance's withdrawals, with fairness;
- `MCRecords`: assembly, storage, reports, push, the fetchers of Binance withdrawals and
  trades, of Huobi trades, of token rates, the cache of rates and the caps, for safety only;
- `MCServices`: transactions, addresses, listed tokens, burned fees, application names, the
  two caches and the rate limiter.

Their properties are conjunctions of those of the modules, named below.  The other `MC`
modules choose constants.

### How they fit

`WorkerPool` checks one round with all of its goroutines and shows that it behaves as
`SerialSaver`.  `TradeLogsCrawler` builds on exactly that: its `Turn` stores the jobs of
a round in order and stops at a failure, and what it adds is everything around a round
(planning, crashes, reorganisations, the database).  `TradeLogsJobs` gives it the jobs
and the decoder of each, `TradeLogAssembly` looks inside the fetch of one job and
`TradeLogsStorage` inside the save of one; `TradeLogReports` and `ChainalysisPush` read what is stored.
The pool of `reserverates/workers` is that of `tradelogs/workers` without the big
trades, and is not modelled twice: `ReserveRates` processes its blocks in order.

## Runs

| Run | Instance | What it shows |
| --- | --- | --- |
| `pool` | 3 workers, 5 jobs, 2 attempts | All interleavings of workers, feeder and `main`, any fetch or save failing.  Nothing is stored at or after a failed job (`NothingStoredPastFailure`), when `main` ends without an error all is stored and the channels are closed on nobody (`CleanEnd`), the inductive invariant holds (`IInv`), a worker that reports never blocks (`ReportNeverBlocks`), the pool refines `SerialSaver`, each run ends. |
| `crawler` | 9 blocks, jobs of 2, all four generations, 2 workers, 2 crashes, 1 reorganisation, 1 lost COMMIT | `LastBlock` never hides a gap, no stored trade is ever reorganised away, each user has one first trade and it is the earliest, the jobs of a round cover its range with the right decoder and a completed range is stored (`RoundsAreComplete`), recent big trades are queued, and what is confirmed is stored in the end. |
| `crawler_lost` | 7 blocks, 1 lost COMMIT | Violated: a COMMIT that fails is not reported (`tradelogs/storage/postgres/tradelog.go:320`). |
| `rates` | 2 pairs, 2 rates, 4 blocks, 2 crashes, 1 skipped fetch | Every history of rates: a row tells the right rate of each of its blocks and starts where it held (`RowsAreRight`), the rows of a pair are seamless and end where the crawler resumes (`GroupsAreSeamless`), a range that is done is covered, all is covered in the end. |
| `accounting` | 3 days of 3 or 4 blocks and every estimate; 4 days, 2 reserves deployed on days 1 and 3, 1 failure, lost or partial fetch, kill or range given by hand; 2 accounts, 2 currencies | The resolver returns last blocks of finished days (`OnlyLastBlocks`), one day after the other (`NextIsNextDay`), and it and the fetcher of rates end (`CallsEnd`).  The fetcher stores the days in order, and a reserve misses only days whose own job was stored without it (`DaysAreStored`).  Whatever Huobi has below the resume point is stored (`NoWithdrawalIsPassed`), and all withdrawals of both exchanges are in the end (`AllIsStored`). |
| `accounting_rates_gap` | a reserve deployed and added later | Violated: the second phase of a round begins where the first one ended (`lib/lastblockdaily/last_block_daily.go:242`). |
| `huobi_withdrawals_race` | 2 currencies | Violated: a withdrawal made while the goroutines fetch is missed by its own one, a newer one is returned by the other (`accounting/huobi/fetcher/withdrawal-history.go:76`). |
| `records` | see `MCRecords.cfg` | Ten programs.  A trade log is made of one trade's parts, with its ether amount, and none is lost (`TradesAreAssembled`).  A split is bound to a row of its reserve, with the address it had at the time of the trade or got within a job's length of it, whichever jobs fail and COMMITs are lost (`SplitsHaveTheirReserves`).  Nothing is missing below the point from which a program resumes (`NothingBelowResumePoint`: reserves, withdrawals, trades, converted trades, orders, token rates).  Withdrawals are refreshed while they are open, imports touch few rows (`WithdrawalsAreUpToDate`).  A run of the push registers all (`RunRegistersAll`).  Reports have whole days in every time zone, agree with one another, and trades are read back whole (`ReportsAddUp`).  Caps and rates are not older than expiry and calls explain (`AnswersAreRecent`). |
| `assembly_src_amount` | 2 trades of generation 2 | Violated: a sale of ETH without burn fee gets source amount 0 (`tradelogs/crawler_v2.go:132`). |
| `services` | see `MCServices.cfg` | No transaction or fee is left out after any kill, and fees are repeated at chunk ends only (`NothingIsLeftOut`), all come in the end (`AllIsFetched`), versions count the changes of the data they are returned with (`VersionsCountChanges`), what reserves list and the addresses an application was given last are returned (`WhatWasGivenIsReturned`), the caches' maps and indices agree under races (`CachesAgree`), the limiter holds requests back (`LimitsHoldRequests`). |
| `wallet_transfers` | two ERC20 transfers | Violated: a transfer stored for a reserve first is not returned for the wallet (`.../postgres/postgres.go:322`). |
| `tokens_history` | 2 reserves, 3 contracts | Violated: two reserves that list different contracts of a token leave one out of all answers (`listed-tokens/storage/sql.go:142`). |

`PROJECT.json` quotes, for each violated run, the line the code disagrees with.

### Disagreements that no run shows

Seen while modelling; the models do what the code does.

- `lib/pgsql/commit.go:15-16` asks for a function with a named result.  `updateRebateWallet`
  (`tradelogs/storage/postgres/tradelog.go:46-70`) has none, so that a COMMIT that fails is
  assigned to a local variable when the result is already `nil`: the job goes on and stores its
  trades, and the next run resumes after the wallets it lost (`CommitWalletsFails`).
- `tradelogs/common/types.go:111` says that the ether amount is the original one times the
  number of burn fees, `tradelogs/crawler_v1.go:170` takes them as equal.  A comment at
  `tradelogs/crawler.go:518` says that `fetchTradeLogV2` works for trades of generation 3,
  whose event `crawler_v2.go:22` does not know (`records` gives every decoder every trade).
- `accounting/reserve-addresses/storage/postgresql/storage.go:186`: "If given data is zero, it
  won't be updated to database"; an update without an address overwrites the timestamp
  (`:226`).
- `tradelogs/cmd/trade-logs-chainalysis/main.go:47` says "number times retry when func
  get error"; the loop at `:113` repeats a window after a success as well.
- `accounting/huobi/fetcher/trade-history.go:90` promises all trades between two times;
  orders that had no room in an answer are not returned.
- `accounting/binance/storage/withdrawalstorage/withdraw_storage.go:162` says that it handles
  withdrawals that are not completed; those in state EmailSent do not count.
- `users/common/caps.go:52`: `IsRich` ignores its argument `kyced` and compares with the daily
  limit of users without KYC.  The batch request of
  `users/http/server.go:150` has the comment "max size = 1k" and refuses just 1000 (`:129`).  A value in a result that is not a
  number makes the cachers return without an error and without setting a key.  The public
  API looks keys up by the spelling of the address in the request, the keys have that of
  the trade logs.
- `country_stats.go:32` counts users with KYC and new users once for each fee;
  `reports.go:32` adds up volumes, fees and new users once for each pair of fee and split.
  `tradelogs/http/country_stats.go` asks for the unknown country as `''`, which
  `record.go:195` stores as NULL.  `postgres.go` takes the platform wallet of a fee from
  the wallet of the trade.  `GetReserveVolume`, the aggregated burn and wallet fees and
  `GetTopReserves` name columns that the tables, or the groups, do not have.
- `tokenratefetcher/cmd/main.go:109`: with an empty table the run starts on the day after
  the default day, which never gets a rate.

### Where deadlock is not checked

`pool`, `crawler`, `crawler_lost` and `rates` check it: a run that is over, a process
that is completed and an idle machine have a step of their own.  The other models really
stop: an assembled job is a returned function, and in the others days, hours, blocks, ids
or versions run out (they are the bounds below).  In `accounting` there is also a
real hang of the fetcher of rates, described under "Exceptions".

### Bounds, and why they are enough

- `pool`: three workers are the least for which one saves, one waits and one takes
  another job; five jobs let a worker take a second job while others wait, after either
  outcome.  Two attempts tell the last one from the others.
- `crawler`: generations start at 2, 5 and 8 with jobs of at most two blocks, so each
  boundary falls inside, at the start and at the end of a range; nine blocks pass the last
  of them.  Two crashes: a crash of the process that recovers from one.
  One confirmation and reorganisations of depth one: the property is about the two being
  in the right order, not about their size.  `JobsAssumption` wants the generations more
  than one job apart; it leaves out the Ropsten deployment, where the second and the
  third are adjacent.
- assembly: state is carried from one trade to the next only (the pending trade log is
  reset after each), hence two trades, of every shape.  Amounts are three different
  numbers, enough to tell who wrote which.
- `rates`: a row has a left end, an inside and a right end, and a neighbour: four blocks.
- resolver: every assignment of days to blocks in which a day is longer than
  `BlockStep` (as on Ethereum, where a day has some 6000 blocks), and every estimate of
  the average block time within `MaxEstimate`.
- withdrawals and trades: two accounts, because what is kept from the first one harms the
  second; two currencies or symbols, because they share a resume point; pages and windows
  of one element, so that two ids need a second page and three moments need windows that
  meet; one disturbance (kill, import, late progress) at any step.
- storage: four blocks in jobs of two, with the block that two jobs share; two reserves of
  two addresses let a reserve move and an address change hands.  Two stops, each of which is a
  failing job, a kill or a lost COMMIT: what a COMMIT lost matters when a later job fails, too, and is
  tried again.
- fetcher of rates: four days, so that a day in the middle has stored ones on both sides after a
  restart.  `MaxFailures` is one for all of failures, fetches without some reserves, kills and ranges given
  by hand; the theorem has no bound.
- push: three moments in windows of one; two users, so that a window has a first and a
  second one; two attempts.
- reports: four hours in days of two, time zones that shift days by an hour either way; three rows
  of three kinds, with 0 and 2 fees, 1 and 2 splits, with and without a country.
- caches that expire: time runs until a key of today, a key of the past and a volume
  have expired and been set again; a window and an expiry of two ticks, a run or call that
  takes one.  `RunTime` and `CallTime` bound how long a run or call is at work, which the
  code does not: the properties speak of ages in these terms.
- limiter: minutes of two ticks, four ticks, two requests under way.
- services: a batch of two over seven blocks, two clients for the races of a cache and
  a third that comes late, four tokens of which three are versions of one.

### Fairness, and why the code justifies it

- `WorkerPool`: weak fairness of each goroutine (workers, feeder, `main`), which the Go
  scheduler gives; a poll of the mutex after a sleep is a step of the worker that polls.
  No fairness between the two outcomes of a fetch or a save.
- `TradeLogsCrawler`, `ReserveRates`: weak fairness of the running process and of the chain.
  Crashes are bounded, and the supervisor starts the process again; `EventuallyStored`
  assumes that it is the daemon that is started in the end.
- `AccountingRates`: weak fairness of `main`, of the goroutines together, of the
  resolver's steps, and of the days.  `MCAccounting` states the conditions that are alike
  for its programs as one: only one of them runs in a behaviour.
- `ReserveTransactions`, `BurnedFees`: a run up to the head is strongly fair: it is started
  again and again by cron or by a supervisor, in between which the last one may be at work.
  So are the runs of the withdrawal fetchers without flags for Huobi and up to the
  present for Binance; their work and the time are weakly fair.

### Exceptions that properties state

Some properties hold only on a condition, and the condition is a fact about the code.

- `NoGapBelowLastBlock`, `OneFirstTrade`, `CompletedMeansStored` in `RoundsAreComplete`: unless a COMMIT was lost
  (that is `crawler_lost`).  `BigTradesAreQueued`: unless the process crashed between
  `SaveTradeLogs` and `SaveBigTrades`, which nothing makes up for.
- `RatesAreRight`, `GroupsAreSeamless`: for the daemon, as long as no fetch is skipped.  A range that is
  crawled again by hand finds the rows of its own future and extends them too far;
  `RowStartsRight`, a part of `RowsAreRight`, holds all the same, and `CompletedIsCovered` unless a fetch was skipped.
- `NoDayIsSkipped`: a reserve may miss a day that was stored without it, and this very day only.
  The crawler skips a reserve whose tokens cannot be got (`reserverates/crawler/crawler.go:111-115`) and
  returns the others without an error; `retryFetchTokenRate` returns no rates and no error when all
  attempts fail.  The job of the day stores what there is, and the next one is the day after:
  `leftOut` records for which reserves and days.  A reserve whose contract was not there
  on a day (`:120-123`) has no rates before that day, and the property asks for none.
- `NoDayIsSkipped` excuses everything once a round had several phases (`accounting_rates_gap`), a
  range was given by hand, or a day was resolved in vain.  A reserve that was left out on the newest day makes
  the next round one of two phases.  A process with `--from` and `--to`
  (`accounting-reserve-rate-fetcher/main.go:181-194`) stores any range, and a daemon started later resumes
  from its newest row, past days that nobody fetched.
  `Run` goes on after it has
  reported the end because the block is after `to`; the goroutine then moves `LastResolved`
  on by a day, once that day is over, and blocks with the block for which no `Fetch` asks
  any more.  The last phase of a round goes up to the time at which it begins (`to` of
  `NewResolver`), so that this happens with a single reserve, too, when its `Fetch` lasts
  beyond the day in which it began: the day that follows is stored for none.
  `CallsEnd`: unless a job fails after the end of its
  range (`FetchHasEnded`); then its send on the error channel has no receiver left, and the fetcher hangs.
- `LastResolved` is read by one goroutine and written by another one without a lock; the
  model reads it as a whole when the call starts.
- `ReadIsNotNewer` in `VersionsCountChanges`: `GetAll` reads the rows, then the version.  It may return old rows under
  a new version, and this excludes only the reverse.
- `ListedIsReturned` in `WhatWasGivenIsReturned`, and `QuietRunKeepsVersion` in `VersionsCountChanges`: while reserves agree on
  the current contract of a token, and creation times differ.  When they do not agree, parents flip
  and the version grows with each run.  The example in the API's documentation shows the
  newest contract as the current one; the code keeps the oldest
  (`listed-tokens/fetcher/fetcher.go:40`).
- `RepeatsAreChunkEnds` in `NothingIsLeftOut`: `burnedfees` begins a range with the last block of the one before it,
  in a table without a key: the events of that block are stored twice, and those of
  the last block once more each round.  It takes no confirmations either;
  reorganisations are not part of the model.  A range of one block crawls nothing.
- `GrowsByRacesOnly` in `CachesAgree`: concurrent misses of one block let the cache of block times outgrow
  `maxCachedBlocks` (called "maximum number of block headers in cache" at
  `lib/blockchain/block_time.go:31`) by one each, and it never shrinks again.
- `NoWithdrawalIsPassed`, `AllIsStored`: withdrawals of Huobi that were made while a run was
  at work (`huobi_withdrawals_race`) and those of accounts that were fetched with the
  first account's `fromID` are excused (`Excused`); for Binance, all is stored unless
  PostgreSQL refused a statement that has a row twice, a time was passed by hand, or an
  import overwrote the data.  `OpenIsRefreshed` is about the states that count as open.
- `NothingBelowResumePoint`: orders of Huobi that had no room in an answer, were filled
  after their window was read, or lie in a window passed by hand; trades of Binance of
  which a newer one of the pair was converted before they came.  Token rates of
  days below a range that was given.  Rebate wallets (not added reserves) of which the COMMIT of
  their own job failed: nothing tells of it (`lostBlocks` in `ReservesAreNotPassed`).
- `SplitsHaveTheirReserves` allows addresses up to a job's length ahead of the trade: reserves are
  saved before the trades of a job.  A trade lost by a COMMIT is passed, and is stored only if a later job
  fails and the next process resumes below it; the reserves of the jobs in between are there by
  then, and the split may point to any of their addresses.
- `BurnedFees` models runs without `--from-block`.  A run with it may begin anywhere: above the last stored
  event it leaves a gap that the daemon passes later, below it it stores events again that are
  not at the end of a chunk.  `NothingIsLeftOut` and `AllIsFetched` say nothing of these.
- `TradeLogsCrawler` asks of an operator that gives `--to-block` to name a confirmed block
  (`StartProcess`).  `planner.go:101-105` does not check it; with a later block
  trades could be stored that a reorganisation takes away, and `StoredIsCanonical` would fail.
- `ReserveTransactions`: the type of an address is a constant.  The service can change it, after which
  other transactions are asked for from the marker on, and those before it are not.
- `RunRegistersAll`: for runs that are given the end of their range; without it `main` makes
  one request, whose end is left to the API.
- `LimitsHoldRequests`: unless the answer to a request that passed earlier has moved the
  blocked-until time back.
- `AnswersAreSound` in `ReportsAddUp`: reports by country count users with KYC and new
  users once for each fee; only their other columns are compared.  The same holds for
  the new users of `GetStats`.
- `CapsAreWithinLimit`: while the last completed run is younger than its keys, and up to
  what a user traded since that run asked.
- `ProfileCache` assumes a limit of at least one: with `MaxCacheSize` 0 the code pops an empty heap.
- `AppNames`: each call is one statement that locks the rows it changes.  An unknown id
  without addresses is reported as updated, and an empty list changes nothing, unlike the
  comment at `app-names/storage/sql.go:19-20` says.  The handlers lack a `return` after a
  failed `Get` and write two answers; HTTP answers are not modelled.

## Proofs

Every invariant that a passing run checks, and every action property, is a theorem; what is
left to TLC is listed at the end of this section.  `RecordsProofs` takes tlapm a quarter of an
hour, the other modules a minute to five each.

`WorkerPoolProofs` proves for any finite set of workers, any number of jobs and of
attempts (`PoolAssumption`), without fairness:

| Theorem | Statement |
| --- | --- |
| `Invariance` | `Spec => []IInv` |
| `TypeCorrect` | `Spec => []TypeOK` |
| `NothingPastFailure` | `Spec => []NothingStoredPastFailure` |
| `FinishedIsComplete` | `Spec => []FinishedMeansAllStored` |
| `QuietShutdown` | `Spec => []ShutdownIsQuiet` |
| `EndIsClean` | `Spec => []CleanEnd`, the two together |
| `PoolImplementsSerialSaver` | `Spec => Serial!Spec`: each step of the pool is a step of the serial writer or a stutter |

None of the properties is inductive.  "Nothing past a failure is stored" follows from what
every worker is waiting for, and so the invariant `IInv == TypeOK /\ PoolInv` says, part
by part, where each job is:

1. `JobsAreDistinct`: two workers never hold the same job, and none has one that was not fed;
2. `BusyIsAhead`: the job of a busy worker, or of one that gave up, is past the counter, so
   its turn is still to come; that of an idle worker is completed;
3. `MutexIsSaving`: who holds the mutex across steps is the one that saves, its job is next, and
   no job has failed;
4. `StoredIsPrefix`: the jobs stored are 1, 2, ... up to the counter, or one more while the
   big trades of a job are being saved, or after that failed;
5. `ErrorsAreAhead`: an error in the channel, or on its way, belongs to a job past the counter
   whose worker gave it up,
   which is why no job after it ever gets its turn;
6. `EndIsComplete`: the feeder ends and `main` closes the channels only when the counter is at
   the last job, and a failed job keeps it from getting there.

`InitIInv` and `NextIInv` show that it is inductive, one step per action; `ErrorsKept`,
`ErrorSent` and `TurnMeansAllCompleted` are the arguments that several actions share.  TLC
checks `IInv` in run `pool`.

`ServicesProofs` proves `GuardHolds`, `LimiterSpec => []LimitsHoldRequests`, for any
set of requests and any length of a minute (`LimiterAssumption`), however late an answer
is handled.  The property speaks of the moment a request passes the guard and of what
the client had been told by then; it is not inductive, as it says nothing of requests that
wait for their answer.  `LimiterInv` adds the types (`Types`), that a request read the
clock before it passed and no later than now (`TimesAreOrdered`), that the latest time told is
the blocked-until time unless an older request took it back (`ToldIsBlocked`), and
that who passed did so at a time when the guard let it (`PassedTheGuard`).  TLC checks the
property in run `services`.

`TradeLogsCrawlerProofs` proves, for any chain, generations, job length, number of
workers, crashes and lost COMMITs, and reorganisations within the confirmations
(`JobsAssumption`: the generations start more than a job apart; `DeploymentAssumption`: the
crawler begins at or before the first trade, in the first generation, a trade has one place in the chain, and in
the block in which a generation starts a user trades with the old contracts first):

| Theorem | Statement |
| --- | --- |
| `CrawlerInvariant` | `Spec => []CrawlerInv` |
| `CrawlerTypes` | `Spec => []TypeOK` |
| `NothingIsMissingBelowLastBlock` | `Spec => []NoGapBelowLastBlock` |
| `NothingStoredIsReorganised` | `Spec => []StoredIsCanonical` |
| `FirstTradesAreFirst` | `Spec => []OneFirstTrade` |
| `RoundsLeaveNothingOut` | `Spec => []RoundsAreComplete` |
| `BigTradesAreNotLeftOut` | `Spec => []BigTradesAreQueued` |

The heart is `ProgressInv`.  That `MAX(block_number)` hides no gap says nothing of a round
that is under way, whose jobs may lie above rows stored before; so it says of every
place from which the work goes on (the resume point, `fromBlock`, the start of the round, the
end of each job that is stored) that all trades below it are stored.  A job that ends
with block b does not store the trades of b that its decoder does not know, which is why
`StoredBefore` asks of b itself only for trades of the generations that ended there, and why
the next job begins with b again.  `UsersInv` needs the trades of a user to be stored in the
order in which they happened; `FetchedInv` and `RowsInv` say that what is fetched is below
`ConfirmedBlock`, where no reorganisation reaches.  The cutting of a range into jobs is a
recursive function; `NatSetInduction` of `DataLemmas` shows that the jobs meet and cover
the range, `FlattenSeqSteps` that the jobs of all generations do.

`ReserveRatesProofs` proves `ReserveRatesTypes`, `RowsAreAlwaysRight`, `GroupsStaySeamless`
and `CompletedRangesAreCovered` from `ReserveRatesInvariant`, for any pairs, rates and
histories, flags, crashes and skipped fetches, on a chain of any length (`RatesAssumption`;
`MaxHead` stands for its end).  `RatesInv` has four parts: the process (`ProcessInv`); the key of
the table, that a group starts at a block which had its rate and is not empty (`RowsInv`);
for the daemon, that the groups of each pair are seamless, right, and all end at the same
block, the one to crawl next (`DaemonInv`); and for a range crawled by hand
(`RangeInv`) that a crash starts it over while its groups of the last time are still there,
so that a pair has been `Reached` up to some block h, past which the run at work has not come,
and a block that was written over is in a group of its rate or will be again.  `UpsertIs` is
the argument of both: what the statement with ON CONFLICT leaves in the table.

`ServicesProofs` proves all invariants of run `services`: `ServicesTypes`, `FetchersLeaveNothingOut`,
`CachesStayInStep`, `GivenIsReturned`, `VersionsCount`.  `ServicesInv` is the conjunction of
an inductive invariant for each of the eight programs; a step of one leaves the variables of
the others alone (`EveryServiceSteps`).  What each adds to its property:

- `TxInv`: the addresses that the run has passed have their transactions and marker, the
  one at work up to the batch (`PassedAddresses`, `BatchInv`), so that a kill between data and marker loses
  nothing;
- `AddressesInv`: the history has the rows of every version up to the counter, the newest are the table's,
  and what a reader has read so far are the rows of one of them;
- `TokensInv`: while the reserves agree, what a run saved for one is not undone by the save of
  another (`SavesStay`);
- `FeesInv`: the events from the first block up to `feeFrom` are stored or about to be, these come after the
  ones stored, and all that lie below a stored one are stored;
- `AppsInv`: an application has the addresses that the history says it was given last;
- `CacheInv`, `ProfilesInv`: the list of block times has at most an entry for each block of the map
  and one for every race, the heap has a node for each profile, and its size is counted.  These are sums
  over functions, and rest on the lemmas on `FoldFunction` in `DataLemmas` (`TotalUpdate`, `TotalExcept`);
- `LimiterBounds`: `LimiterInv` above, with the bounds of the time.

It assumes what the `ASSUME`s of the modules say: finitely many headers and profiles, creation
times of tokens that differ, events of fees in the order of their blocks, sizes and batches of at least one.

`WorkerPoolProofs` also proves `ReportsNeverBlock`, `Spec => []ReportNeverBlocks`.  The channel has
a slot for each worker; the errors in it are of different jobs (`ErrorsAreDistinct`, an
invariant on top of `IInv`), each of a worker that stopped, and the one that reports is not yet among them:
an injection into the workers, which is not onto.

`AccountingProofs` proves the four invariants and the action property of run `accounting`:

- `WithdrawalsAreNotPassed`, `Spec => []NoWithdrawalIsPassed`, for any accounts, currencies,
  page sizes and stops (`HuobiAssumption`).  A run stores an account only when all of its goroutines are
  done, and the invariant `HuobiTurn` says what they owe until then: a withdrawal beyond `fromID`
  has been fetched, is still ahead of its currency's goroutine, or was made meanwhile; and
  `fromID` is no higher than what is stored of the account, or excuses it.
- `LastBlocksAreStored`, `Spec => []OnlyLastBlocks`, and `NextMovesByOneDay`,
  `Spec => NextIsNextDay`, on every chain whose days are longer than a probing step
  (`ChainsAssumption`).  `ResolverInv` brackets the search: it begins at a block no later than
  the day wanted and ends at one of the next day.
- `DaysAreStoredAlways`, `Spec => []DaysAreStored`, for any reserves, days, failures, reserves
  left out, kills and ranges (`DailyAssumption`).  The order alone follows from the jobs and the counter; that no day
  is passed needs `DailyInv`: the jobs of a Fetch have days that follow one another, up to the one
  its goroutine looks for (`JobDays`, `RightDay`), the next one to be stored is
  no earlier than the last one of the table, and no reserve misses a day before it but those it was left out of (`StoreOrder`); and
  every reserve has all days from its first one to the last one of the table but those it was left out
  of (`UpToLastDay`).  `Resumes` says the same of the day after the one resolved last, from which the next
  round goes on: it may be ahead of the table when a job stored a day for no reserve.
  The goroutines that are left of earlier Fetches share `LastResolved`; if one of them resolves a
  day, `RightDay` breaks, and the run is excused (see "Exceptions").
- `AccountingTypes`, `Spec => []TypeOK`: the types are parts of the invariants of the four
  programs, in a stronger form (the jobs of a Fetch are of days that are over, a row has the account
  of its withdrawal).  `BinanceWithdrawalsProofs` has the invariant of the fourth one, see below.

`RecordsProofs` proves all invariants of run `records`:

| Theorem | Statement |
| --- | --- |
| `NothingIsPassed` | `Spec => []NothingBelowResumePoint` |
| `SplitsAreOfTheirReserves` | `Spec => []SplitsHaveTheirReserves` |
| `WithdrawalsAreRefreshed` | `Spec => []WithdrawalsAreUpToDate` |
| `TradesAssembledAlways` | `Spec => []TradesAreAssembled` |
| `ReportsAddUpAlways` | `Spec => []ReportsAddUp` |
| `PushesRegisterAll` | `Spec => []RunRegistersAll` |
| `CachesAnswerRecently` | `Spec => []AnswersAreRecent` |
| `RecordsTypes` | `Spec => []TypeOK` |
| `NoRateDayIsPassedHolds` | `TokenRatesSpec => []NoRateDayIsPassed`, of the token rates by themselves |

`NothingBelowResumePoint` is about five programs that remember how far they have come by the
newest row stored.  None of its five parts is inductive: a resume point says nothing of
a run at work.  Each program has an invariant, and `ResumeInv` is their conjunction:

- `StorageInv`, for any chain, routes of splits, length of a job and number of stops
  (`StorageAssumption`).  What is told of reserves below the resume point, or in the part of a job that
  is done, is saved (`PassedIsSaved`), and added reserves are saved in the order of
  their blocks (`RowsFollowAdds`); so the row that `saveTradeLogs` takes for a split, the newest of
  its reserve, has the latest address (`NewestIsLatest`).  A failed job leaves its reserves behind
  without its trades, and `SavedAreNear` bounds how far: by the length of a job, unless
  a COMMIT lost its trades without stopping the process; when that makes a block one of `lostBlocks`, the addresses
  allowed for it only become more (`AddressesGrow`).  `InsertReservesIs`
  says what the statement with ON CONFLICT DO NOTHING leaves of a batch.
- `BinanceInv` (in `BinanceWithdrawalsProofs`), for any accounts, length of the window, flags and
  files (`BinanceAssumption`): nothing older than the newest row of an account is missing
  (`OlderAreStored`), and in the turn of an account all that lies before the next window was got,
  or is stored and no longer open (`BinanceTurn`).
- `TradesInv`, for any accounts and pairs, sizes of batch and page (`TradesAssumption`): each goroutine has got, or
  the table has, all trades of a pair before the id from which it asks next (`FetchesPass`); none
  is missing that is older than a stored one (`OlderTradesAreStored`).  Conversion, by
  another process, has dealt with all that is stored before a converted trade of the pair
  (`OlderAreConverted`), which holds because it reads them in order (`ReadInOrder`).
- `OrdersInv`, for any symbols, window and page (`OrdersAssumption`): within a batch each
  symbol is settled up to where its goroutine is (`BatchSettles`), all of them before the batch begins
  (`BatchesMeet`), and nothing older than a stored order is missing (`OlderOrdersAreStored`), but for the exceptions above.
- `RatesInv`, for any first and last day, number of stops and of ranges given by hand
  (`TokenRatesAssumption`).  A range may store days in any order, so it says of every day stored,
  not of the last one, that those before it are covered (`StoredAreCovered`), and that a run at
  work has passed covered days only (`RunIsCovered`): the row it stores next hides none.
  `DaysHaveLast`, that the days have a last one, stands for an induction over the table.

  `RatesAreInRange` adds that a run is at work on a day from the first one to today.

`RecordsInv` is the conjunction of the invariants of the other five programs; a step of one program
is a step of its own relation and leaves the variables of the others alone (`ProgramsStep`).

- `AssemblyInv`, for any number of trades, of any shapes and in any order of transactions, and any
  decoder (`AssemblyAssumption`).  It counts in the list of what the decoder sees (`Seen`): what is left is
  a suffix of it (`LogIsLeft`); of the part that is done, the events after the last trade event are those of the
  trade at work (`Current`), and the pending trade log has exactly their fees, no wallet and no reserve of
  another trade, and the ether amount of the transfer if there was one (`PendingIs`); each trade whose last
  event is done has one trade log, in order, with all parts of its own (`TradesAre`).  That events of the trade at work
  are all of one trade comes from the places of the events in the stream: `FlattenSeqPlaces` of `DataLemmas` says of
  a flattened sequence which part each element comes from, and that parts do not mix.
- `ReportsInv`, for any trades, zones, days and questions (`ReportsAssumption`: amounts and numbers of
  fees and splits are natural, a trade has a split, and a question is asked in one of the zones).  Its own content is small: the first trade of a
  user, and of no one else, is marked (`SalesAre`), and the counts of a report of which the volumes
  are still to be queried fit rows that are only added to (`QuestionIs`).  The agreement of the reports holds in every
  state of the table: a row is on one day in each zone (`DateTruncIs`, `RepeatedAre`); the sums by
  token, country, user and application partition the rows (`TokensAgree`, `CountriesAgree`, `UsersAgree`, `IntegrationsAgree`),
  which is `SumOfParts`: the sum over a set is the sum of the sums over its parts;
  the joins of GetStats and of the trade log count each row once (`StatsAgree`, `TradesAreReadBackAlways`).
- `PushInv`, for any users, trades, windows and attempts (`PushAssumption`): what an attempt no longer has on its
  list is registered, or is the one address just sent (`AttemptRegisters`), and nothing
  before the window is missing (`WindowsMeet`), however often a call that failed had been served.
- `RateCacheInv`, for any askers and expiries (`RateCacheAssumption`): the rate of an item was given no earlier than
  its day began and stored soon after, with the expiry that fits the day of that moment (`ItemsAreRecent`);
  a call is not at work for longer than it takes (`CallsAreInTime`).
- `CapsInv`, for any traders, limits, expiry and stops (`CapsAssumption`): a key has a volume
  that its user had at a query no longer than a run before the key was set (`KeysAreVolumes`); while the last
  completed run is younger than a key lives, each user has a key with no less than he had traded before some query since,
  or had traded nothing (`KeysAreFresh`), although runs that failed have overwritten some of the keys.

TLC checked all of these on the instance of run `records`, without one conjunct
of `TradesAre` that it cannot evaluate: that the trade logs are a sequence over some set (`\E S : trades \in Seq(S)`).

`DataLemmas` holds what these proofs share: that a set of naturals has a least and a bounded one a
greatest element, induction over the naturals and over finite sets, stated of sets
(`S \subseteq Nat` closed under successor) and not of an operator, `FlattenSeq`, sums with `FoldFunction`, and
the elements of a set of naturals by rank: the first n, which the pages of the exchanges hold, and
the n-th, by which `TradeLogsStorage` numbers its rows; from which part of a flattened sequence an
element comes; functions on the subsets of a set that are defined one element at a time (`StepsExist`, which
stands for the folds of the community modules); and sums over sets, their parts and the values of a function.

### What stays with TLC

- Liveness (`RunEnds`, `EventuallyStored`, `AllIsFetched`, `CallsEnd`, `AllIsStored`
  and the others): it rests on fairness and ENABLED, which the prover does not treat.
- Of the invariants that the runs check none: each of them is a theorem.
- The runs that expect a violation: a counterexample is a proof of its own.

A library theorem whose parameter is an operator (the general induction and recursion
theorems) cannot be instantiated by the provers at hand.  Where a proof needed one, `DataLemmas` proves
the case for a set or for the function at hand.

## Not modelled

- Generated code: the bindings of contracts in `lib/contracts` are some 22000 lines of ABI
  calls, two fifths of the repository's lines; they have no control of their own.
- HTTP handlers, gateways, the InfluxDB storages with their continuous queries: they
  parse, forward or hold the same rows; access decisions are those of a library.
- Of the reports: amounts in USD and of tokens, the lists of top tokens, integrations and
  reserves, and the queries that always fail (see above).
- Of the trade log storage: tweeting.  Of the assembly: receiver addresses, IP, country
  and ETH/USD rate.
- Of the exchanges: the amounts of Huobi's partial fills, the import of Huobi's files.
- The public cacher and API of `users`, which do by address what `UserCaps` does by user.
- IP information and token information, which keep no state.

## Plan

The modules build on one another in this order: the pool with its proofs, the crawler,
the assembly; the rates, the accounting fetchers, the services; the storage, the
exchanges, the limiter and the push; reports, rates and caps.  What is left:

1. `TradeLogsStorage` in the place of `SaveTradeLogs` in `TradeLogsCrawler`, with its workers
   and crashes.
2. An abstract specification of "fetch a range, then remember how far", which
   `ReserveTransactions`, `BurnedFees`, `TokenRates` and `TradeLogsCrawler` implement.
3. Tweeting of big trades, between the crawler's queue and the notifier.

No invariant is left to prove.  The abstract specification of point 2, with the invariants that
are proved of its programs, would give a refinement for each of them; the liveness properties would need a prover
that treats ENABLED.
