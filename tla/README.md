# quantbot-pro in TLA+

Models of the order path of quantbot-pro, an automatic trading program for the
Korean broker KIS (`src/`), the TLC instances that check them and the TLAPS
proofs about them. Paths below are relative to the repository; line numbers of
every definition are in `PROJECT.json` under `map`.

## 1. The system

The program is one Python process. `main.py` builds the components and starts
an APScheduler `BackgroundScheduler`; its jobs run on a thread pool, one
instance of each job at a time, and share the objects below without a common
lock. The state that outlives the process is a SQLite database and the account
at the broker.

| part | state | operations | how it is used |
|---|---|---|---|
| `execution/writer_queue.py` | queue, running and degraded flags, worker thread | `submit`, `start`, `stop`, the worker loop | every database write of every job is a task of its one worker |
| `execution/auto_trader.py` | none between cycles | `run_cycle`, `execute_cycle` | a strategy cycle: signals, exits, resolver, guards, sizing, orders |
| `execution/order_manager.py` | `trading_blocked`, `reconciliation_status`; rows `signals`, `orders` | persist, place (with retries), holds, cancel | called by cycles, the poll and the cancel job |
| `execution/fill_ingestion.py`, `fill_processor.py` | rows `order_executions`, `trades`, `positions`, `position_lots` | collect fill deltas, book them | called by the poll |
| `execution/reconciliation.py` | rows of past runs | compare broker and database | called by the poll, blocks trading |
| `execution/runtime.py` | `TradingRuntime.state`, notification keys | jobs: token, poll, pre-close cancel, health, cycles | decides whether a cycle may start |
| `main.py`, `auth/token_manager.py` | `cycle_access_token`, the stored token | get, refresh, assign, clear | a cycle's broker calls carry the token |
| `execution/kis_api.py` | rate limiter | submit, cancel, inquiries | every job's requests to the broker |
| `strategy/data_provider.py`, `data/collector.py` | caches of daily histories and minute bars | loads from pykrx and KIS | what a cycle decides on |
| `strategy/`, `risk/`, `execution/market_constraints.py` | none | signals, resolution, sizing, guards | pure decisions inside a cycle |
| `scripts/repair_manual_fills.py`, `restore_portfolio.py` | rows of the ledger | replay of sells made by hand | run by an operator while the process is stopped |
| `backtest/`, `scripts/run_kr_rebalance_backtest.py` | schedule, trades | replay of two strategies over past prices | outside the process |
| `tax/`, `monitor/` | rows, files | reports, views, messages | outside the order path |

What is hard here, and hard to test:

- **Interleaving.** Two cycles, the poll and the cancel job overlap; each
  transaction is atomic, no job is. What one job has read is stale when it
  writes. `TradingRuntime.state` and the cycle token are shared by assignment.
- **The broker.** A request may be booked and its answer lost; a retryable
  error answer may hide a booked order; fills arrive as cumulative quantities
  and average prices; some environments do not offer the open order inquiry.
  All requests share a rate limiter, and three loops repeat what failed.
- **Inputs.** A cycle loads its data ticker by ticker, from two sources, through
  two caches and with a token another cycle may clear; any part may be missing.
- **Failure.** A write that fails for good degrades the queue until a restart;
  a restart keeps the database and loses every flag in memory.
- **The calendar.** Crons, entry window, force exit, pre-close cancel and
  closing auction are configured apart from each other.

`PROJECT.json` lists these under `hazards`, each at its line.

What makes the parts correct: the writer queue settles each accepted write once
and truthfully; the ledger never gets ahead of the broker, and if it falls
behind, that is noticed; it is ahead of the account by unbooked sells only;
statuses say what really happened; no order is dropped halfway but by a cycle
that ends; a cycle starts only on fresh, healthy state and decides on the bars of
today and on one history; no second sees too many requests, and callers are told
what happened to theirs; lots, positions and executions tell the same story in
units and in money, after a repair too; exits are not sent twice and limits are
kept, but for what a cycle read too early; a backtest does not look ahead.

## 2. The modules

| module | models | composed with |
|---|---|---|
| `SerialWriter` | what the writer queue promises | implemented by `WriterQueue` |
| `WriterQueue` | `writer_queue.py`, statement by statement where threads meet | `INSTANCE SerialWriter` |
| `WriterQueueProofs` | theorems about it | extends `WriterQueue`, `TLAPS` |
| `OrderExecution` | cycles, `OrderManager`, poll, reconciliation and cancel job around the broker | writes are atomic, as `SerialWriter` promises |
| `OrderExecutionProofs` | theorems about it | extends `OrderExecution`, `TLAPS` |
| `RuntimeGuard` | `TradingRuntime.state`, its jobs and the gate of the cycle | |
| `RuntimeGuardProofs` | theorems about it | extends `RuntimeGuard`, `TLAPS` |
| `CycleToken` | the token closure of `main.py` and `TokenManager` | |
| `CycleInputs` | the loads of `run_cycle`, the provider's caches and its loaders | extends `CycleToken`: each KIS call of a load is its `LoadData` |
| `CycleInputsProofs` | theorems about both | extends `CycleInputs`, `TLAPS` |
| `RateLimiter` | `RateLimiter.acquire` under any number of calls | |
| `BrokerClient` | `KISApiClient.request` and the loops around submit, cancel and the open order inquiry | extends `RateLimiter`: each request passes it |
| `BrokerClientProofs` | theorems about both | extends `BrokerClient`, `TLAPS` |
| `FillLedger` | fill deltas, lots, costs and execution numbers of one ticker | the poll of `OrderExecution`, seen from inside |
| `TaxReport` | the yearly report of `tax_calculator.py`, recomputed in every state of the ledger | extends `FillLedger` |
| `LedgerRepair` | sells by hand and `repair_manual_fills.py` | extends `TaxReport`, thereby the ledger it repairs |
| `LedgerProofs` | theorems about the ledger, its report and its repair | extends `LedgerRepair`, `TLAPS` |
| `TradingDay` | the decisions of the cycles over whole days | the cycles of `OrderExecution`, seen from their decisions |
| `TradingDayProofs` | theorems about it | extends `TradingDay`, `TLAPS` |
| `Backtest` | schedule and replay of the two rebalancing strategies | |
| `BacktestProofs` | theorems about it | extends `Backtest`, `TLAPS` |

**WriterQueue.** A caller's `submit` is three steps (degraded test, running
test, put), because nothing locks them together. The worker's loop condition is
two reads. `stop` clears the flag, puts the poison item, and joins; the join
ends when the thread of the last `start` has exited or with
`StopJoinTimesOut`, after which a later `start` runs a second worker beside the
abandoned one. `abandoned` is a history variable; `SerialWriter` shows it, since
the promise of order ends there. `accepted` and `applied` are history as well.

**OrderExecution.** The database is `status`, `signal`, `quantity`, `retryCount`,
`kisOrderNo`, `filled`, the `position` of each strategy and, by ticker, the order
in which the strategies' rows were inserted (`rows`); the broker is `bState`,
`bFilled` (by submission, an order and an attempt) and `holdings`, which the
strategies share; the flags of memory are `blocked`, `reconStatus`, `degraded`.
A cycle has the program counter `cpc`. It reads the positions of its strategy
(`LoadPositions`), which decide what may be bought and how much is sold, and
later the tickers with active orders (`ReadCandidates`). Then for each candidate
it persists the signal, persists the order, enters `place_order`, which looks at
the block once (`PlaceStart`) and then reads the attempts left
(`ReadSubmitAttempts`), submits, and records what came of it, with every error
class of `kis_api.py`, the retry loop and the holds. The poll (`ppc`) reads
progress, asks the broker, books the fills one transaction each, asks for
positions and open orders, and reconciles. A sell the strategy's position does
not cover raises in every attempt of the write and degrades the queue
(`FillRefused`). Reconciliation compares the last of a ticker's rows with the
account (`LastRow`), since the rows go into a dictionary by ticker, and compares
only tickers the broker lists, of which one that was sold out may or may not be.
The cancel job (`xpc`) cancels, requests and confirms. `Crash` forgets all
memory. Prices are one; `FillLedger` has lots and prices.

**RuntimeGuard.** `self.state = replace(self.state, ...)` is a `Build` step,
which reads the state, and a `Store` step, which writes it back: what another
thread has stored in between is lost. `note` holds a job's local variables.
The gate reads the queue's own flag first and the state afterwards, as
`health_snapshot` does.

**CycleToken.** `shared` is the closure variable. A cycle gets a token, assigns
it, reads the variable again for the call, uses it or the manager's token while
it loads data, and clears it in the end.

**CycleInputs.** `stage` follows `run_cycle`: cash, signals, daily histories,
the exits position by position, orders. `daily` and `minutely` are the
provider's caches. The loader that `main.py` composes asks pykrx first and KIS
for what is left; a ticker whose request raises is left out, while a token that
cannot be had raises out of the load and ends the cycle. Prices are abstracted:
a daily history is the moment it was loaded, a bar is its minute and whether
that minute was over when KIS answered. An answer holds the rows up to the asked
moment, any number of them, of the day before too, and a minute without a trade
has no row. The exits of `intraday_momentum` use the time at which they are
evaluated, not that of the cycle. Cycles of two jobs share nothing but the
token, so the second job takes the steps of `CycleToken` only.

**RateLimiter.** Time is the `age` of each granted call, up to a second.
`acquire` filters its list and grants or sleeps in one step, since it holds the
lock; the sleep is a countdown that may end late.

**BrokerClient.** An operation is one call of `place_order`,
`_cancel_order_with_retry` or `_call_broker_poll_with_retry`; its requests are a
hash key (submit and cancel) and the request itself, and each waits for the
limiter. The answers are kept apart as far as the code does: HTTP errors by
class, error codes by their wording, a lost or unreadable answer, and an answer
without `rt_cd`. The last passes `request` (`kis_api.py:120`), is not accepted,
and goes on to `classify_submit_result` or `_is_retryable_broker_result`; of an
inquiry it may lack the list, which is then read as no open orders. `open` is
what the broker has, `answers` and `misread` are history. The order desk is that
of the three operations; an inquiry whose answer goes on over a second page is
not modelled, and the code asks for the first only.

**FillLedger.** The prices of the fills are multiples of all quantities, so the
average the broker reports is exact and `amount` and `cost` stand for price
times quantity. A restart between two fills, and a broker that gives two fills
of an order the same number, are part of it. A strategy has one active order of
the ticker at a time, since `run_cycle` leaves out tickers with active orders
and a strategy has one job; two strategies may overlap, because each may look
before the other has inserted its order. (`OldestLotFirst` and the tax report
need this: were two sells of one strategy at work at once, a buy booked between
them could arrive behind a lot that is already sold. A sell of a quantity that
was read before an earlier sell was booked is not in it: the strategy may hold
less by then, and `OrderExecution` has such sells refused.) The time of a fill is the
broker's notification time `infm_tmd`.

**TaxReport.** Domestic sells have no tax event, so the report replays the sells
of the year over lots filled up to what was bought. The ledger's executions
carry the cost that `_apply_sell` realized (`basis`), to compare with.

**LedgerRepair.** The owner's orders are entries of the broker's `book` that no
internal order has. An order has two names at the broker, the organisation
(orgno) and the number; the answer to the submission and the row of the daily
fills may each lack the first (`OrgnoInAnswer`, `OrgnoInReport`), and
`MirroredOrderKeys` compares both, as the script does. `TakeSnapshot` is the
exported file, which is current or missing; `Repair` is one run with `--apply`,
for any strategy and any selection of broker orders by day or number. Its
position and the broker's quantity are compared for the whole ticker, as in
`_broker_quantity`. A run that raises has written nothing and is no action.

**TradingDay.** Time moves through a few minutes of the day. A cycle is three
steps: it reads its positions (`seen`), it reads the tickers with active orders
of any strategy (`busy`), and it decides and sends (`ExecuteCycle`): any signals
the strategy may give at that minute, any prices, any cash, then the resolver,
the guards, sizing and the limits of `execute_cycle` in the order of the code,
then any answers of the broker. Fills, the cancel and the cycle of another
strategy come between the steps. The two loops are stated by what they choose: a
signal becomes a candidate, and a candidate an order, depending on those before
it in the list. `Fill` is a fill together with its booking. `undercut` and
`stale` are history: they mark the sells of a cycle that had read its positions
before a sell of the ticker was booked. Cash is an input because the cycle takes
that of the newest `portfolio_snapshots` row, which the runtime never writes.

**Backtest.** Prices and factor snapshots are chosen once and stay. A step is
one time stamp of `_build_signal_schedule` or of `_run_fallback`. Returns are
compared by multiplying, so no fraction is rounded. `Scheduling` computes the
schedule up to a day again from any prices and factors, and `NoLookAhead` gives
it other futures.

## 3. The runs

Each run is one question; `PROJECT.json` gives each property a mutation of the
modelled code under which the same run fails.

| run | instance | shows |
|---|---|---|
| `writer_queue` | 3 callers, 2 attempts, 2 starts | single writer, no write lost or run twice, truthful outcomes, `stop` drains, `SerialWriter` is implemented |
| `order_faults` | 1 cycle that buys 2 units or sells 1, another strategy with a position or none, 2 attempts, lost answers, answers without a number, failing writes, 1 restart, no open order inquiry, fair polls | the ledger is never ahead of the broker; statuses are true; the submit loop leaves no order behind; the compared position catches up or trading is blocked |
| `order_cycles` | 2 cycles of a strategy that sell, 1 of another that buys, 1 ticker, poll and cancel, 1 attempt, every broker call answered | ledger, account and unbooked sells agree; statuses are true |
| `guard_cycles` | 1 cycle, token and poll jobs, clock 0..1 | a running cycle has a fresh poll behind it and a healthy queue |
| `guard_report` | poll, health, cancel | a degraded queue is reported in the end |
| `cycle_inputs` | 1 job with its inputs over 4 minutes, 1 job beside its first moments, 2 tokens, 1 ticker | no token outlives the cycles, a cycle alone uses one token; decisions on today's closed bars and on one history; forced exits are signalled |
| `fill_ledger` | 2 strategies, 2 prices, 3 units, 4 orders, 1 repeated execution number, 1 restart | lots, positions, executions and the tax report agree; oldest lots first |
| `ledger_repair` | the same with 2 units, 5 orders, 1 of them by hand, any repairs | no sale booked twice, never more sold than at the broker |
| `trading_day` | 2 tickers, 2 strategies, 5 minutes, 1 price, 2 amounts of cash | exits are covered but for stale reads, entries and positions stay within their limits |
| `broker_client` | 1 submission, 1 cancel, 1 inquiry, two of them at work at a time, 2 attempts, a limit of 2 in a second of 2 ticks | the rate is kept, callers are told the truth, every operation ends |
| `backtest` | 2 tickers, 2 prices and gaps, 4 days, 2 factor snapshots, 1 leader | no look-ahead, only leaders are held, each entry is one trade |
| `tax_second_year` | 1 strategy, 4 orders, a year's end after two fills | *violation*: the second year's report repeats the cost of lots sold in the first |

### Bounds, and why they are enough

- **Writer queue.** Two starts make the one situation with two workers; two
  attempts make a retry and a giving up; three callers make a task that waits
  behind another in the queue while a third is being submitted.
- **Orders.** In `order_faults` two units make a partial fill, and two attempts
  make one resubmission of an order the broker may already hold, so the order is
  validated again between its attempts. One restart is enough to lose each piece
  of memory once. In `order_cycles` two cycles of a strategy sell the position
  they both have read, and a buy of the other strategy comes in between: they
  meet in the ledger, at the account and in `flag_reconciliation_hold`. The two
  selling cycles are symmetric. A position at the start is at most one unit
  (`MaxCarried`). The theorems have no bound.
- **Runtime.** One tick of the clock distinguishes fresh from stale;
  three failures are the configured number. The theorems have no bound.
- **Inputs.** Two ticks a minute tell a forming bar from a closed one in the
  same cache entry. Two minutes of opening range can lack one; the entry window
  is the third minute and the forced exit begins with the fourth, so each part
  of the session is met. The second job leaves with the first moment
  (`LastOverlap`): by then it has been able to clear or replace the token at
  every stage of the first cycle. Lookbacks of two days and one are a longer
  and a shorter load. The configuration lets entries begin with the end of the
  opening range, and the module assumes it, as it assumes that session and
  opening range end before the day does: an answer from the evening before would
  otherwise count as one of today.
- **Requests.** Two operations of two attempts with a hash key each make eight
  requests for two places in a second, so callers sleep, wake late and compete;
  every pair of kinds of operations is among the initial states.
- **Repair.** One manual order can be replayed for its own strategy or for the
  other one, alone or together with other sells, before and after polls. Of the
  five orders one has an orgno in the report and none in the answer, so both
  kinds of orders are sold and repaired; the theorems hold for any.
- **Backtest.** A day before the start, a gap at each place including the final
  day, a tie, a snapshot before and inside the test.
- **Ledger.** Three units at two prices distinguish lots by price and age and
  let a sell end inside a lot; four orders let a strategy sell out and enter
  again; the orders of two strategies overlap in one poll.
- **Day.** The five minutes lie in the entry window, where both crons fire or
  one of them does, at the force exit time and in the auction with the pre-close
  cancel. A unit of cash is sized to one or two shares, so a partial fill and a
  limit that is reached occur. The entry window ends with the force exit, both
  at 15:00, to keep the run small. A cycle is over before the next of the five
  minutes (`NoCycleRuns`), which are ten minutes apart or more where a strategy
  fires in both; this bound is part of the specification the theorems share.

`CHECK_DEADLOCK FALSE` is in every cfg: the instances are bounded, and the
program itself may come to rest (a stopped queue, a closed market).

### Fairness

- `WriterQueue`: weak fairness of each worker thread. A worker blocks only in
  `queue.get()`, where its step is not enabled. Nothing is assumed about
  callers or the control thread.
- `OrderExecution`: the poll's own steps. The poll is an `IntervalTrigger` job
  (`runtime.py:203-208`), and a job that has begun goes on. Its broker
  inquiries may fail each time, so the steps that follow one are strongly fair:
  an inquiry that is tried again and again succeeds at some time. No fairness
  for cycles, cancels, fills, failures or crashes.
- `BrokerClient`: each operation's steps and time. A request has a timeout
  (`kis_api.py:105`), a sleep ends, and each job has a thread of its own.
- `RuntimeGuard`: the health job, which fires each minute, and the refresh
  steps of a job that has begun. None for the jobs that degrade or block.

## 4. What is proved

TLAPS checks these for every value of the constants that satisfies the named
assumptions of the modules.

`OrderExecutionProofs`, from `OrderExecutionAssumption`:

- `TypeCorrect`: `Spec => []TypeOK`.
- `LedgerIsSafe`: `Spec => []LedgerNeverAheadOfBroker`. The property alone is
  not inductive: the poll adds a difference to a total it has read two broker
  calls before. The invariant is
  `IInv == TypeOK /\ CycleInv /\ PollLedgerInv`. `CycleInv` says that a cycle
  works on its own order, that the order has no broker number before the
  submission is recorded, and that the retry count in the database is the
  attempt in the loop, which is why `MarkSubmissionResult` never replaces a
  number that already has fills. `PollInv` says that what the poll has read is
  still the ledger when it asks, and that a delta it holds is still missing
  when it is booked; that is so because only the poll books fills.
- `StatusesAreTruthful`: `Spec => []StatusIsTruthful`. "Cancelled" is written
  two steps after the broker has confirmed, and "filled" after the poll has
  read, so the strengthening `StatusInv` follows submissions at the broker:
  `SendInv` (a cycle never sends an attempt twice, so a submission starts
  empty), `SizeInv` (an order on its way has the size its cycle gave it),
  `FillsInv` (an open submission is not full) and `CancelInv` (what the cancel
  job holds between its steps is closed, and not full, for good).
- `ValidatedOrdersAreOwned`: `Spec => ValidatedIsOwned`, an action property,
  whatever answers are lost, writes fail and restarts happen: an order that is
  validated loses its cycle only in the step that ends the cycle, and none
  becomes validated without one. So `place_order` never returns from its loop
  with an order still validated, although a retry counter in the database and
  another in the loop decide it. `HandInv` ties `cur` to the program counter.
  Section 5 tells what ends a cycle in the middle.
- `PositionsAreBought`: `Spec => []PositionNeverAheadOfAccount`, for any
  tickers, strategies, orders and positions at the start. Positions and holdings
  are sums over strategies, orders and submissions (`Total`). `PositionInv` is
  the balance of ledger and account: what is held, booked as sold and bought at
  the broker is what the account has, sold at the broker and booked as bought.
  No more is booked as bought than is bought, since `LedgerNeverAheadOfBroker`
  gives each order a submission of its own (`TotalIsMonotone`).

The proofs first show which actions write which variables (the frame lemmas),
then have one lemma per actor and conjunct.

`RuntimeGuardProofs`, from `RuntimeGuardAssumption`:

- `TypeCorrect`: `Spec => []TypeOK`.
- `CyclesArePolled`: `Spec => []CycleNeedsFreshPoll`. The strengthening is
  `PollNotInvented`: no copy of the state, stored or not, remembers a poll
  later than the last that succeeded. A lost update can only make it older.
- `DegradedStopsCycles`: `Spec => []NoCycleRunsDegraded`. The strengthening is
  `GateIsShut`, from the fact that nothing resets the queue's flag.

`WriterQueueProofs`, from `WriterQueueAssumption`:

- `TypeCorrect`, `WritesAreHeldOnce` (`PendingIsHeldOnce`), `FuturesAreTruthful`
  (`OutcomeIsTruthful`) and `WriterIsSingle` (`SingleWriter`), all from `IInv`.
  It adds `FuturesMatchCallers` (who has put a task has a future, and a pending
  one has an attempt left), `HandsMatchWorkers` (an item is in hand exactly
  while it is executed) and `ThreadsMatchControl` (which threads `start` and
  `stop` have left alive; until a join times out, the last one alone).
- `QueueIsSerialWriter`: `Spec => ImplementsSerialWriter`, the refinement:
  each step is a step of `SerialWriter` or none. What is in hand must have been
  accepted before all that is queued. `AcceptedOnce`
  and `QueueKeepsOrder` say so while there is a single writer.

`BrokerClientProofs`, from the assumptions of `RateLimiter` and `BrokerClient`:

- `LimiterKeepsRate`: `LimiterSpec => []RateKept`. The limiter's list may hold
  stamps that are over, since it is only filtered on demand; `ListIsComplete`
  says that it lacks no young one and never exceeds the limit.
- `ClientUsesLimiter`: `Spec => LimiterSpec`, step by step, so any number of
  operations with their hash keys and retries keeps the rate
  (`ClientKeepsRate`).
- `CallersAreToldTheTruth`: `Spec => []AnswersAreTruthful`. The outcome comes
  attempts after the request that decided it: `UnansweredIsNotBooked` says that
  a submission without a server error or an answer without `rt_cd` so far is not
  at the broker, and `ClosedIsAnswered` that a closed order was closed unclearly
  or as reported. The property excepts an inquiry whose answer had neither
  `rt_cd` nor a list, which the code takes for no open orders (section 5).

`CycleInputsProofs`, from the assumptions of `CycleToken` and `CycleInputs`:

- `NoTokenOutlivesCycles` and `LoneCycleUsesOneToken` about `CycleToken`, for
  any number of overlapping cycles. The second needs `AloneMeansAlone`: while a
  cycle is alone, the variable and the argument of the call have its token.
- `InputsRefineTokens`: `InputsSpec => Spec`, every load and order of
  `run_cycle` is a step of `CycleToken`, so both hold of it too
  (`InputsUseOneToken`).
- `SignalsArePricedOnTheirHistory` (`OneHistoryPerCycle`), from
  `SignalsStayCached`: the history of a signal stays in the cache, and is long
  enough for the later load. Tickers that fail in between do not matter.
- `ForcedExitsSurviveLoads` (`ForcedExitsAreSignalled`), from
  `CheckedPositionsExit`: of the positions of a forced cycle, those looked at
  are exits.
- `DecisionsRestOnTodaysBars` (`DecisionsOnTodaysBars`), from `CacheIsClosed`:
  what the cache keeps under a minute was closed in that minute, and is of
  today. This is where the assumption on the length of the session is needed.

`TradingDayProofs`, from `TradingDayAssumption`:

- `TypeCorrect`, and `ExitsAreSentOnce` (`SellsAreCovered`), from `UnitsInv`:
  a strategy has one active order of a ticker (`OneOrderEach`), and a sell has
  left at most what its strategy holds (`SellsInv`), through partial fills,
  cancels, changes of day and the cycles of other strategies. What a running
  cycle has read is still held (`SeenInv`) and still free of orders (`BusyInv`),
  unless a sell of the ticker was booked after it read the positions; the sells
  it sends of such a ticker are the exception the property names.
- `FewPositionsAreHeld` (`PositionsWithinLimit`), from `HeldInv`: what is held
  together with what is being bought is within `MaxPositions`, because the guard
  counts both the positions and the candidates before. While an intraday cycle
  runs, what is held is among the positions it has read.
- `IntradayKeepsItsLimits` (`IntradayWithinLimits`), from `EntriesInv`, which
  relates the entries counted in the database to the buys that got units. Each
  partly filled buy that the pre-close cancel has withdrawn from the count of
  `_count_intraday_entries_for_day` allows one entry more, whatever the times of
  the settings are. With the shipped times the entry window and the auction
  guard end buying before that cancel (15:10 and 15:20 against 15:25;
  `config/config.yaml:26`, `:110`), so the entry more is never made.

`LedgerProofs`, about the ledger, from `FillLedgerAssumption`:

- `PositionsAreTheirLots` (`LotsExplainPosition`), `HighestIsReached`
  (`HighestCoversLots`), `LotsAreUsedInOrder` (`OldestLotFirst`),
  `FillsMatchBroker` (`FilledMatchesBroker`), `LotsAreExecutions`
  (`ExecutionsExplainLots`) and `TypeCorrect`, all from
  `LedgerInv == BookInv /\ LotsInv /\ TimeInv /\ ExecutionsExplainLots`, for any
  strategies, orders, prices, stops and repeated execution numbers. They are
  about the `Spec` of `FillLedger`. The run of `fill_ledger` is one of
  `RepairSpec`, but with no sell by hand there is nothing to repair.
- `BookInv` ties order rows to the broker's. In it, `RowsInv` says that an order
  is active exactly while executions are missing and that a strategy has one
  active order at most; `MoneyInv` that executions are a part of what the broker
  filled, all of its units exactly when all of its money; `FillsInv` that the
  fills in hand are of different orders which still lack them. So a sell never
  exceeds its lots, and a dropped duplicate only leaves a part unbooked. Every
  amount stays a multiple of all quantities (`Divisible`), so the division of
  `_derive_delta_price` is exact: this is what the assumption on `Prices` is for.
- `LotsInv` says that lots are sorted by age and explain the position.
  `OldestLotFirst` alone is not inductive, since a lot is put where its time
  belongs. `TimeInv` adds that what is booked of a strategy, the fill in hand and
  what the broker has filled beyond it follow one another in time: a strategy
  has one active order, and the poll books what it has read of it before it asks
  again. So every booking is later than all lots and sells of its strategy.
- The sums are recursive functions over a sequence. `SumsAdd`, `SumsAppend`,
  `SumsInsert` and `SumsChange` say what adding two sequences term by term,
  appending, inserting and changing an entry do to them.

About the repair, for every step of `RepairSpec`, also from
`LedgerRepairAssumption`:

- `AccountsAreKept`: `RepairSpec => []RepairInv`. Neither property of the repair
  is inductive: the gap that `_build_plan` closes is one of a single strategy,
  the account is that of all. `RepairInv` therefore has an account of the whole:
  - `Sound`: a strategy has one row of a key (orgno and number) at most, and two
    open rows only as sells of two orders at the broker; rows have no more
    executions than the broker reports (`Shape`); every buy at the broker has
    one row (`BuysFit`, the owner only sells); all positions together are what
    was bought and not sold (`PositionsFit`).
  - `HoldingsFit`: the account has what was bought and not sold at the broker.
  - `Covered`: the units in the account, without those whose buy is still to be
    booked, are a share of the positions. A strategy with a share has the units
    of its own unbooked sells beside it, and of two strategies with an open
    row of the same sell, as a repair makes when it replays the sale of another
    strategy, only one has a share.
  - the fills in hand fit the open rows (`FillsFit`), and a snapshot, taken while
    the process is stopped, fits what is known of the account since.
- `NoSaleTooMany` (`SalesNeverOverbooked`), `NoSaleTwice` (`NoSaleReplayed`) and
  `RepairedPositionsAreTheirLots` (`LotsExplainPosition`) follow, for any orders
  whose orgno is told in the answer, in the report, in both or in neither.
  `NoSaleTwice` excepts an order whose orgno is told in one of the two only: the
  script does not find its key, and its sale can be booked once more. Even then
  `NoSaleTooMany` holds if the snapshot is current. The repair
  books all its sells in one step; the proof follows its candidates one by one
  (`MayReplay`, `HasReplayed`). The run of `ledger_repair` makes these repairs.

About the tax report, for every step of `Spec`:

- `ReportIsRight` (`ReportMatchesLedger`), from `ReportInv`: the report over the
  sells of a strategy, in whatever order those of a time come, ends with the
  ledger's own lots and with the cost that was booked. A sell extends the report
  by one row, because by `TimeInv` it is the last sell and all lots are open to
  it; a buy adds a lot behind those that any sell reached. It is a statement
  about the sells up to now as one year, which is what the code gets right; for
  a second year TLC refutes it (`tax_second_year`).

`BacktestProofs`, from `BacktestAssumption`:

- `LeadersAreHeld` (`OnlyLeadersAreHeld`), from `Walking`, which says that the
  loop is at a time stamp and leaves none out.
- `EntriesAreRealized` (`EveryEntryIsRealized`). Schedule and replay meet only
  in the list of events, so the strengthening has three parts: `EventsInv` (an
  event is on a day passed and has a price), `PairsInv` (between two entries of
  a ticker there is an exit, and only a ticker without a final price has none
  after its last entry) and `TradesInv` (open and realized trades are determined
  by the events of the days replayed).
- `ScheduleIsOfThePast` (`NoLookAhead`), from `ByDayInv`: the schedule is the
  recursive function of the day that `Scheduling` defines; two histories that
  agree up to a day agree on all it reads.

Induction over numbers, which the proofs need here and there, is done with the
least element of a set of naturals (`LeastNatural`).

Only model-checked:

- Liveness (`LedgerCatchesUpOrBlocks`, `DegradedIsReported`, `StopDrains`,
  `OperationsEnd`), which is beyond the prover.
- The counterexample of `tax_second_year`.

Every invariant of a passing run is stated by a theorem. Of the ledger's other
invariants under repairs nothing is claimed, and `ReportMatchesLedger` is false
there: a repair may book a sale that is older than the lots it consumes, and the
report then raises (section 5).

## 5. Where code and documents disagree

`tax_second_year` shows a disagreement as a counterexample (`findings`). The
others were met while modelling and have no run.

Orders and the ledger:

- A transport exception escapes `place_order` and leaves the order `validated`,
  without a retry and without an owner (`order_manager.py:167`;
  `docs/PRD_v1.4.md:452` and `:462`), as a failed write and a restart do.
  `ValidatedIsOwned` says that no other step leaves one behind.
- Error codes of KIS are `BrokerApiError`s of no status: a throttled submission
  fails for good while a throttled poll or cancel is tried again, and an answer
  that the token is bad never blocks trading (`kis_api.py:121`; PRD:452-459).
- An HTTP 200 answer without `rt_cd` is no error (`kis_api.py:120`). An inquiry
  that also lacks its list is read as "no open orders" (`kis_api.py:290`), so
  the comparison puts orders on hold; a submission is not accepted and gets
  the class that `classify_submit_result` finds, although the order may be at
  the broker. Of the open orders only the first page is asked for.
- Two cycles that fire in the same minute read the active orders before either
  inserts its own and may both order the ticker (`auto_trader.py:225`;
  `docs/plans/phase4_execution_plan.md:145`).
- A cycle counts an order when its reloaded status is `submitted`
  (`auto_trader.py:514`); one that is already filled does not count against the
  limit of `docs/plans/phase4_execution_plan.md:144`.
- A fill that was collected before a cancel overwrites `cancelled`
  (`fill_processor.py:85`; PRD:425), and a cancelled order is no longer polled,
  so its earlier fills are never read (`fill_ingestion.py:48`; PRD:584).
- An order submitted between the broker's answer and the comparison looks
  missing and blocks trading (`reconciliation.py:92`; PRD:436); the simulated
  environment always answers that no order is open (`kis_api.py:143`; PRD:377).
- The submit loop goes on while trading is blocked: the block is looked at once,
  before the attempts left are read from the database (`order_manager.py:148`,
  `:164`, `:167`; PRD:443).
- Reconciliation compares a ticker that two strategies hold by the row that was
  inserted last (`reconciliation.py:68`). The difference usually blocks trading
  at the next poll; if that row happens to equal the account, what the other
  rows lack stays hidden. A ticker the broker no longer lists is not compared
  (`reconciliation.py:74`; PRD:438).
- A cycle sizes its sells by positions it read before its loads, and asks for
  active orders after them (`auto_trader.py:184`, `:225`). A sell that is booked
  in between leaves a quantity that is sold again, and a buy a ticker that may be
  bought again. A sell that the strategy's position does not cover at the time
  of booking is refused in every attempt and degrades the queue
  (`fill_processor.py:181`).
- `highest_price` survives a sold position and no market price ever raises it
  (`fill_processor.py:122`).
- An order left `validated` or `reconcile_hold` blocks its ticker for good,
  exits included.

Runtime and queue:

- A health refresh that loaded the state before the third poll failure stores it
  afterwards and takes the block back (`runtime.py:854`;
  `docs/plans/phase2_execution_plan.md:534`).
- After a join that timed out there may be two writers (`writer_queue.py:72`;
  `docs/DB_SCHEMA_v1.2.md:110`); a write put behind the poison item waits for a
  restart (`writer_queue.py:78`).
- A poll that began while trading was blocked sends no alert for a mismatch it
  finds, although the token job may have lifted the block meanwhile and the poll
  sets it anew (`runtime.py:600`).
- Two jobs may both send the degraded alert (`runtime.py:838`;
  `tests/test_execution/test_runtime.py:1079`).
- Overlapping cycles share one token (`main.py:94`;
  `docs/plans/phase4_execution_plan.md:213`).

Decisions of a cycle:

- With the configured crons the intraday job fires at 15:10 and 15:20, the
  forced exit begins at 15:15, and from 15:20 the auction guard rejects sells as
  well: no forced exit is ever sent (`market_constraints.py:42`;
  `docs/plans/intraday_momentum_replacement_plan.md:74` and `:373`).
- A forced exit of a ticker without a history is signalled at the price of its
  last fill, then rejected for the missing price (`auto_trader.py:282`).
- A minute without a trade in the opening range leaves a ticker without entries
  and without the exits that read bars for the whole day
  (`intraday_momentum.py:43`); with `bar_interval_minutes` above one the loader
  still returns minute bars, so part of the range is enough.
- A settings file may let entries begin inside the opening range
  (`core/settings.py:176`); the bars of the range are then counted while the last
  is forming.
- A history from pykrx, which may end a day earlier, is preferred to the one
  from KIS (`main.py:52`).
- The cash of a cycle is that of the newest portfolio snapshot, which only
  `restore_portfolio.py` writes (`auto_trader.py:641`; PRD:481, PRD:547).
- A pre-close cancel takes a partly filled buy out of the day's entry count; only
  the configured times keep another one from following (`auto_trader.py:446`;
  `IntradayWithinLimits` counts what was withdrawn).
- `max_positions` does not see the unfilled buys of earlier cycles
  (`auto_trader.py:422`; `docs/plans/intraday_momentum_replacement_plan.md:372`).
- Exits come after entries and share `max_orders_per_cycle`; an exit above
  `max_order_notional_per_cycle` is rejected in every cycle
  (`auto_trader.py:489`; PRD:165).
- `allow_new_entries`, `allow_exits`, `take_profit_pct` and
  `same_day_rebuy_blocked` are read nowhere (`core/settings.py:304`; PRD:184,
  PRD:213).
- Of several sells of one ticker the resolver keeps one (PRD:212).

Repair and backtest:

- An own sale whose orgno is in the submission's answer or in the daily report,
  but not in both, is no known order to the repair and may be replayed as one by
  hand (`repair_manual_fills.py:376`, `:441`).
- The repair compares the position of one strategy with the quantity of the
  whole account, so another strategy's sale may be replayed for this one
  (`repair_manual_fills.py:239`); a manual order that fills further after its
  repair cannot be repaired again, nor can the unread fills of a cancelled own
  order; a sale older than the lots it consumes makes the tax report raise
  (PRD:638-650; `docs/layer5_usage_runbook.md:216-240`).
- A trade whose ticker has no price on the final day is missing in the result
  (`backtest_runner.py:174`); a rebalance date that is no trading day gives no
  rebalancing that month, and a ticker that leaves the factor file is held for
  good (`docs/layer5_usage_runbook.md:91`).

## 6. What is not modelled

Indicators, strengths and merged metadata of the live strategies: numbers that
are inputs here. The factor strategy in the live cycle: it trades once a
quarter, and its inputs are disabled (`collector.py:258`). Event flags and price
limits: any signal may be stopped by them. `reject_signal`, which nothing calls.
Log payloads, message texts, encryption, the dashboards and the Telegram bot,
universe downloads, report files, tax events and exchange rates of US sells, the
figures of a backtest and its stored rows. Sessions are a free choice in
`RuntimeGuard`. Submission without an API client, which only tests use. Settings
are constants. `PROJECT.json` gives the reason for each part.

The liveness of exits is not stated: the code allows an exit to be rejected in
every cycle (section 5), so it would hold only under assumptions about prices
and limits that nothing guarantees.

## 7. Plan

Done: the order path, the writer queue and its refinement, the runtime gate, the
token, the ledger, its tax report, the day with cash and sizing, the limiter and
the client, the repair, the backtest, and the inputs of a cycle, and proofs about
all of them. Of what could follow, the lots under repairs come first: which order
of lots survives when a sale by hand is replayed after a later buy.
