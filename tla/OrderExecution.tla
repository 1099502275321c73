--------------------------- MODULE OrderExecution ---------------------------
(***************************************************************************)
(* The order path of the program, as the threads of the scheduler run it:  *)
(*                                                                         *)
(*   - strategy cycles (AutoTrader.execute_cycle, OrderManager.place_order)*)
(*     insert orders and submit them to the broker, with retries;          *)
(*   - the broker poll (TradingRuntime._run_broker_poll_job) turns the     *)
(*     broker's cumulative fills into executions, then compares positions  *)
(*     and open orders and blocks trading on a mismatch;                   *)
(*   - the pre-close cancel (TradingRuntime._run_pre_close_cancel_job)     *)
(*     cancels what is still open.                                         *)
(*                                                                         *)
(* Every database write goes through the writer queue and every read opens *)
(* a session of its own, so the unit of interleaving is one transaction,   *)
(* one read or one broker call.  A buy is of Qty units, a sell of the whole *)
(* position, at a price of one.  A cycle is one run of the job of one      *)
(* strategy; the strategies share the account and its tickers.             *)
(***************************************************************************)
EXTENDS Integers, Sequences, FiniteSets

CONSTANTS
  Orders,              \* the order candidates the strategies come up with
  Cycles,              \* the runs of the strategy cycle jobs
  Strategies,
  Tickers,
  StrategyOf,          \* the strategy of the cycle
  CycleOf,             \* the cycle that proposes the order
  TickerOf, SideOf,    \* the ticker and the side of the order
  Qty,                 \* the quantity of a buy
  MaxCarried,          \* bound: the positions at the start
  MaxSubmitRetries,    \* OrderManager.max_submit_retries
  MaxOrdersPerCycle,   \* auto_trading.max_orders_per_cycle
  MaxNotionalPerCycle, \* auto_trading.max_order_notional_per_cycle
  OpenOrdersSupported, \* does the broker environment answer list_open_orders?
  ResponseMayBeLost,   \* can a broker call end in a transport exception?
  AnswerMayLackNumber, \* can an accepted order come back without a number?
  WritesMayFail,       \* can a write exhaust its retries in the writer queue?
  MaxCrashes,          \* bound: restarts of the process
  None                 \* "no order"

ASSUME OrderExecutionAssumption ==
  /\ IsFiniteSet(Orders) /\ IsFiniteSet(Strategies)
  /\ StrategyOf \in [Cycles -> Strategies]
  /\ CycleOf \in [Orders -> Cycles]
  /\ TickerOf \in [Orders -> Tickers]
  /\ SideOf \in [Orders -> {"buy", "sell"}]
  /\ Qty \in Nat \ {0}
  /\ MaxCarried \in Nat
  /\ MaxSubmitRetries \in Nat \ {0}
  /\ MaxOrdersPerCycle \in Nat \ {0}
  /\ MaxNotionalPerCycle \in Nat
  /\ MaxCrashes \in Nat
  /\ {OpenOrdersSupported, ResponseMayBeLost, AnswerMayLackNumber, WritesMayFail} \subseteq BOOLEAN
  /\ None \notin Orders
  \* SignalResolver leaves one signal per ticker in a cycle; of a buy and a
  \* sell of one ticker the position lets one become a candidate.
  /\ \A o, p \in Orders :
       CycleOf[o] = CycleOf[p] /\ TickerOf[o] = TickerOf[p] /\ SideOf[o] = SideOf[p] => o = p

\* A submission is identified by the attempt that made it: the broker order
\* number of attempt k of an order is k, and 0 stands for no number.
Attempts == 1..MaxSubmitRetries

Status == {"none", "validated", "submitted", "partially_filled", "filled",
           "cancel_pending", "cancelled", "reconcile_hold", "failed"}
ActiveStatus == {"validated", "submitted", "partially_filled",
                 "cancel_pending", "reconcile_hold"}
OpenStatus == {"submitted", "partially_filled"}

\* SubmitFailureClass
Failures == {"retryable", "terminal", "auth", "hold"}

\* No row for a ticker in the answer of the account inquiry.
NoRow == -1

VARIABLES
  \* the database: the orders, and for each ticker the positions of the
  \* strategies and the order in which their rows were inserted
  status, signal, quantity, retryCount, kisOrderNo, filled, position, rows,
  \* the broker: state and filled quantity of each submission, the account
  bState, bFilled, holdings,
  \* the memory of OrderManager and WriterQueue
  blocked, reconStatus, degraded,
  \* the strategy cycles: program counter, candidates left, the order in
  \* hand, the attempt under way, the failure to record, the orders counted
  \* and their amount
  cpc, todo, cur, attempt, failure, counted, notional,
  \* the poll: program counter, candidates and progress read, fills to
  \* process, positions and open orders answered by the broker
  ppc, pollCand, pollSeen, pollFills, pollPos, pollOpen,
  \* the pre-close cancel: program counter, candidates left, order in hand
  xpc, xTodo, xCur,
  crashes

bookVars == <<position, rows>>
dbVars == <<status, signal, quantity, retryCount, kisOrderNo, filled, bookVars>>
limitVars == <<counted, notional>>
brokerVars == <<bState, bFilled, holdings>>
memVars == <<blocked, reconStatus, degraded>>
cycleVars == <<cpc, todo, cur, attempt, failure, limitVars>>
pollVars == <<ppc, pollCand, pollSeen, pollFills, pollPos, pollOpen>>
cancelVars == <<xpc, xTodo, xCur>>
vars == <<dbVars, brokerVars, memVars, cycleVars, pollVars, cancelVars, crashes>>

NoFills == [o \in Orders |-> 0]
NoRows == [t \in Tickers |-> NoRow]

\* The sum of a function of natural numbers, counted unit by unit.
Units(f) == UNION {{x} \X (1..f[x]) : x \in DOMAIN f}
Total(f) == Cardinality(Units(f))

\* What the ledger holds of a ticker, over all strategies.
Held(t) == Total([s \in Strategies |-> position[s][t]])

\* The strategies that have a position row of a ticker, in any order.
Listings ==
  {r \in UNION {[1..n -> Strategies] : n \in 0..Cardinality(Strategies)} :
     \A i, j \in DOMAIN r : r[i] = r[j] => i = j}
HasRow(s, t) == \E i \in 1..Len(rows[t]) : rows[t][i] = s

\* It starts with positions on which ledger and account agree.
Init ==
  /\ status = [o \in Orders |-> "none"]
  /\ signal = [o \in Orders |-> "none"]
  /\ retryCount = [o \in Orders |-> 0]
  /\ kisOrderNo = [o \in Orders |-> 0]
  /\ quantity = NoFills /\ filled = NoFills
  /\ position \in [Strategies -> [Tickers -> 0..MaxCarried]]
  /\ rows \in [Tickers -> Listings]
  /\ \A s \in Strategies, t \in Tickers : position[s][t] > 0 <=> HasRow(s, t)
  /\ bState = [o \in Orders |-> [k \in Attempts |-> "none"]]
  /\ bFilled = [o \in Orders |-> [k \in Attempts |-> 0]]
  /\ holdings = [t \in Tickers |-> Held(t)]
  /\ blocked = FALSE /\ reconStatus = "idle" /\ degraded = FALSE
  /\ cpc = [c \in Cycles |-> "idle"]
  /\ todo = [c \in Cycles |-> {}]
  /\ cur = [c \in Cycles |-> None]
  /\ attempt = [c \in Cycles |-> 0]
  /\ failure = [c \in Cycles |-> "none"]
  /\ counted = [c \in Cycles |-> 0] /\ notional = [c \in Cycles |-> 0]
  /\ ppc = "idle" /\ pollCand = {} /\ pollSeen = NoFills
  /\ pollFills = NoFills /\ pollPos = NoRows /\ pollOpen = {}
  /\ xpc = "idle" /\ xTodo = {} /\ xCur = None
  /\ crashes = 0

-----------------------------------------------------------------------------
(***************************************************************************)
(* Strategy cycle: AutoTrader.execute_cycle and OrderManager.place_order.  *)
(***************************************************************************)
CycleGoto(c, from, to) ==
  /\ cpc[c] = from
  /\ cpc' = [cpc EXCEPT ![c] = to]

CycleIsOver(c) ==
  /\ cpc' = [cpc EXCEPT ![c] = "done"]
  /\ todo' = [todo EXCEPT ![c] = {}]
  /\ cur' = [cur EXCEPT ![c] = None]
  /\ attempt' = [attempt EXCEPT ![c] = 0]
  /\ failure' = [failure EXCEPT ![c] = "none"]

\* run_cycle(): the positions of the strategy, read at the start.  A ticker it
\* holds is not bought, one it does not hold is not sold, and a sell is of
\* what was read here, whatever is sold of it until the order is placed.  The
\* scheduler runs one instance of a job at a time.
MayTrade(o) ==
  LET held == position[StrategyOf[CycleOf[o]]][TickerOf[o]]
  IN  IF SideOf[o] = "buy" THEN held = 0 ELSE held > 0

SizeOf(o) == IF SideOf[o] = "buy" THEN Qty ELSE position[StrategyOf[CycleOf[o]]][TickerOf[o]]

LoadPositions(c) ==
  LET mine == {o \in Orders : CycleOf[o] = c /\ MayTrade(o)} IN
  /\ CycleGoto(c, "idle", "loaded")
  /\ \A d \in Cycles \ {c} : StrategyOf[d] = StrategyOf[c] => cpc[d] \in {"idle", "done"}
  /\ todo' = [todo EXCEPT ![c] = mine]
  /\ quantity' = [o \in Orders |-> IF o \in mine THEN SizeOf(o) ELSE quantity[o]]
  /\ UNCHANGED <<status, signal, retryCount, kisOrderNo, filled, bookVars, brokerVars,
                 memVars, cur, attempt, failure, limitVars, pollVars, cancelVars, crashes>>

\* After the prices are loaded and the signals resolved: the candidates whose
\* ticker has no active order at this moment.
OpenOrderTickers == {TickerOf[o] : o \in {p \in Orders : status[p] \in ActiveStatus}}

ReadCandidates(c) ==
  /\ CycleGoto(c, "loaded", "next")
  /\ todo' = [todo EXCEPT ![c] = {o \in @ : TickerOf[o] \notin OpenOrderTickers}]
  /\ UNCHANGED <<dbVars, brokerVars, memVars, cur, attempt, failure, limitVars,
                 pollVars, cancelVars, crashes>>

\* A candidate met while trading is blocked, or over the order limit or the
\* notional limit of the cycle, is rejected.
MayOrder(c, o) ==
  /\ ~blocked
  /\ counted[c] < MaxOrdersPerCycle
  /\ notional[c] + quantity[o] <= MaxNotionalPerCycle

SkipCandidate(c, o) ==
  /\ cpc[c] = "next" /\ o \in todo[c]
  /\ ~MayOrder(c, o)
  /\ todo' = [todo EXCEPT ![c] = @ \ {o}]
  /\ UNCHANGED <<dbVars, brokerVars, memVars, cpc, cur, attempt, failure,
                 limitVars, pollVars, cancelVars, crashes>>

PersistSignal(c, o) ==
  /\ CycleGoto(c, "next", "persist") /\ o \in todo[c]
  /\ MayOrder(c, o) /\ ~degraded
  /\ todo' = [todo EXCEPT ![c] = @ \ {o}]
  /\ cur' = [cur EXCEPT ![c] = o]
  /\ signal' = [signal EXCEPT ![o] = "pending"]
  /\ UNCHANGED <<status, quantity, retryCount, kisOrderNo, filled, bookVars, brokerVars,
                 memVars, attempt, failure, limitVars, pollVars, cancelVars, crashes>>

PersistValidatedOrder(c) ==
  /\ CycleGoto(c, "persist", "place") /\ ~degraded
  /\ status' = [status EXCEPT ![cur[c]] = "validated"]
  /\ signal' = [signal EXCEPT ![cur[c]] = "resolved"]
  /\ UNCHANGED <<quantity, retryCount, kisOrderNo, filled, bookVars, brokerVars, memVars,
                 todo, cur, attempt, failure, limitVars, pollVars, cancelVars, crashes>>

\* place_order(): a blocked manager fails the order without calling the broker.
PlaceRefused(c) ==
  /\ CycleGoto(c, "place", "reload") /\ blocked /\ ~degraded
  /\ status' = [status EXCEPT ![cur[c]] = "failed"]
  /\ UNCHANGED <<signal, quantity, retryCount, kisOrderNo, filled, bookVars, brokerVars,
                 memVars, todo, cur, attempt, failure, limitVars, pollVars,
                 cancelVars, crashes>>

\* This is the only look at trading_blocked: the loop goes on past a block.
PlaceStart(c) ==
  /\ CycleGoto(c, "place", "budget") /\ ~blocked
  /\ UNCHANGED <<dbVars, brokerVars, memVars, todo, cur, attempt, failure, limitVars,
                 pollVars, cancelVars, crashes>>

\* _remaining_submit_attempts(): the attempts left by the retry count of the
\* order, read from the database; they are numbered on from those made.
ReadSubmitAttempts(c) ==
  LET made == retryCount[cur[c]] IN
  /\ CycleGoto(c, "budget", IF made < MaxSubmitRetries THEN "submit" ELSE "reload")
  /\ attempt' = [attempt EXCEPT ![c] = IF made < MaxSubmitRetries THEN made + 1 ELSE @]
  /\ UNCHANGED <<dbVars, brokerVars, memVars, todo, cur, failure, limitVars,
                 pollVars, cancelVars, crashes>>

\* The broker books the order; the broker call of the attempt under way.
BrokerBooks(c) == bState' = [bState EXCEPT ![cur[c]][attempt[c]] = "open"]

SubmitAccepted(c) ==
  /\ CycleGoto(c, "submit", "mark")
  /\ BrokerBooks(c)
  /\ UNCHANGED <<dbVars, bFilled, holdings, memVars, todo, cur, attempt,
                 failure, limitVars, pollVars, cancelVars, crashes>>

\* An error answer: an exception, or an answer that does not say "accepted",
\* which may be one without rt_cd.  None of them tells for certain whether the
\* broker booked the order.  An authentication error and a reconciliation
\* error block trading before anything is written.
SubmitFailed(c, f) ==
  /\ CycleGoto(c, "submit", IF f = "hold" THEN "hold" ELSE "record")
  /\ failure' = [failure EXCEPT ![c] = f]
  /\ BrokerBooks(c) \/ UNCHANGED bState
  /\ blocked' = (blocked \/ f \in {"auth", "hold"})
  /\ UNCHANGED <<dbVars, bFilled, holdings, reconStatus, degraded, todo, cur,
                 attempt, limitVars, pollVars, cancelVars, crashes>>

\* A transport exception (requests.Timeout, ConnectionError) is none of the
\* exceptions place_order() catches: it ends the cycle job.
SubmitLost(c) ==
  /\ ResponseMayBeLost
  /\ cpc[c] = "submit"
  /\ BrokerBooks(c) \/ UNCHANGED bState
  /\ CycleIsOver(c)
  /\ UNCHANGED <<dbVars, bFilled, holdings, memVars, limitVars, pollVars,
                 cancelVars, crashes>>

\* place_order() returns, and its local variables are gone.
LeavePlaceOrder(c) ==
  /\ attempt' = [attempt EXCEPT ![c] = 0]
  /\ failure' = [failure EXCEPT ![c] = "none"]

\* normalize_order_result(): ODNO is taken as it comes, and when the answer has
\* none the order is submitted without a number.
AnsweredNumbers(k) == IF AnswerMayLackNumber THEN {k, 0} ELSE {k}

MarkSubmissionResult(c) ==
  /\ CycleGoto(c, "mark", "reload") /\ ~degraded
  /\ status' = [status EXCEPT ![cur[c]] = "submitted"]
  /\ \E n \in AnsweredNumbers(attempt[c]) : kisOrderNo' = [kisOrderNo EXCEPT ![cur[c]] = n]
  /\ signal' = [signal EXCEPT ![cur[c]] = "ordered"]
  /\ LeavePlaceOrder(c)
  /\ UNCHANGED <<quantity, retryCount, filled, bookVars, brokerVars, memVars, todo, cur,
                 limitVars, pollVars, cancelVars, crashes>>

\* _record_submit_failure(): the order may be tried again while its retry
\* count is below the maximum.
MayRetryOnceMore(f, n) == f = "retryable" /\ n <= MaxSubmitRetries  \* mutant
MayRetry(f, n) == f = "retryable" /\ n < MaxSubmitRetries

\* _should_retry_submit(): within the attempts that were left at the start.
ShouldRetryPastBudget(f, k) == f = "retryable" /\ k <= MaxSubmitRetries  \* mutant
ShouldRetrySubmit(f, k) == f = "retryable" /\ k < MaxSubmitRetries

RecordSubmitFailure(c) ==
  LET o == cur[c]
      n == retryCount[o] + 1
      again == ShouldRetrySubmit(failure[c], attempt[c])
  IN
  /\ CycleGoto(c, "record", IF again THEN "submit" ELSE "reload") /\ ~degraded
  /\ retryCount' = [retryCount EXCEPT ![o] = n]
  /\ status' = [status EXCEPT ![o] = IF MayRetry(failure[c], n) THEN "validated" ELSE "failed"]
  /\ IF again
       THEN /\ attempt' = [attempt EXCEPT ![c] = @ + 1]
            /\ failure' = [failure EXCEPT ![c] = "none"]
       ELSE LeavePlaceOrder(c)
  /\ UNCHANGED <<signal, quantity, kisOrderNo, filled, bookVars, brokerVars, memVars,
                 todo, cur, limitVars, pollVars, cancelVars, crashes>>

MarkOrderReconcileHold(c) ==
  /\ CycleGoto(c, "hold", "flag") /\ ~degraded
  /\ status' = [status EXCEPT ![cur[c]] = "reconcile_hold"]
  /\ UNCHANGED <<signal, quantity, retryCount, kisOrderNo, filled, bookVars, brokerVars,
                 memVars, todo, cur, attempt, failure, limitVars, pollVars,
                 cancelVars, crashes>>

\* flag_reconciliation_hold(ticker): every open order of the ticker is held.
FlagReconciliationHold(c) ==
  /\ CycleGoto(c, "flag", "reload") /\ ~degraded
  /\ blocked' = TRUE
  /\ reconStatus' = "mismatch_detected"
  /\ status' = [o \in Orders |->
       IF TickerOf[o] = TickerOf[cur[c]] /\ status[o] \in OpenStatus
       THEN "reconcile_hold" ELSE status[o]]
  /\ LeavePlaceOrder(c)
  /\ UNCHANGED <<signal, quantity, retryCount, kisOrderNo, filled, bookVars, brokerVars,
                 degraded, todo, cur, limitVars, pollVars, cancelVars, crashes>>

\* _load_order(): the order counts against the limit of the cycle when the
\* reloaded status is "submitted", and its amount against the other.
Reload(c) ==
  /\ CycleGoto(c, "reload", "next")
  /\ IF status[cur[c]] = "submitted"
       THEN /\ counted' = [counted EXCEPT ![c] = @ + 1]
            /\ notional' = [notional EXCEPT ![c] = @ + quantity[cur[c]]]
       ELSE UNCHANGED limitVars
  /\ cur' = [cur EXCEPT ![c] = None]
  /\ UNCHANGED <<dbVars, brokerVars, memVars, todo, attempt, failure, pollVars, cancelVars, crashes>>

FinishCycle(c) ==
  /\ cpc[c] = "next" /\ todo[c] = {}
  /\ CycleIsOver(c)
  /\ UNCHANGED <<dbVars, brokerVars, memVars, limitVars, pollVars, cancelVars, crashes>>

\* A write exhausts its retries, or is refused by a degraded queue: the
\* exception leaves execute_cycle().  The write of the flag step comes after
\* trading_blocked and the status were set.
CycleWriteFails(c) ==
  /\ WritesMayFail \/ degraded
  /\ \/ cpc[c] \in {"persist", "mark", "record", "hold", "flag"}
     \/ cpc[c] = "place" /\ blocked
     \/ cpc[c] = "next" /\ \E o \in todo[c] : MayOrder(c, o)
  /\ degraded' = TRUE
  /\ blocked' = (blocked \/ cpc[c] = "flag")
  /\ reconStatus' = IF cpc[c] = "flag" THEN "mismatch_detected" ELSE reconStatus
  /\ CycleIsOver(c)
  /\ UNCHANGED <<dbVars, brokerVars, limitVars, pollVars, cancelVars, crashes>>

CycleStep(c) ==
  \/ LoadPositions(c) \/ ReadCandidates(c)
  \/ \E o \in Orders : SkipCandidate(c, o) \/ PersistSignal(c, o)
  \/ PersistValidatedOrder(c)
  \/ PlaceRefused(c) \/ PlaceStart(c) \/ ReadSubmitAttempts(c)
  \/ SubmitAccepted(c) \/ SubmitLost(c)
  \/ \E f \in Failures : SubmitFailed(c, f)
  \/ MarkSubmissionResult(c) \/ RecordSubmitFailure(c)
  \/ MarkOrderReconcileHold(c) \/ FlagReconciliationHold(c)
  \/ Reload(c) \/ FinishCycle(c)
  \/ CycleWriteFails(c)

-----------------------------------------------------------------------------
(***************************************************************************)
(* The broker: an open submission fills unit by unit, a sell from what the *)
(* account holds, whichever strategy bought it.                            *)
(***************************************************************************)
BrokerFill(o, k) ==
  /\ bState[o][k] = "open"
  /\ SideOf[o] = "sell" => holdings[TickerOf[o]] > 0
  /\ bFilled' = [bFilled EXCEPT ![o][k] = @ + 1]
  /\ bState' = [bState EXCEPT ![o][k] = IF bFilled[o][k] + 1 = quantity[o] THEN "closed" ELSE @]
  /\ holdings' = [holdings EXCEPT ![TickerOf[o]] = IF SideOf[o] = "buy" THEN @ + 1 ELSE @ - 1]
  /\ UNCHANGED <<dbVars, memVars, cycleVars, pollVars, cancelVars, crashes>>

-----------------------------------------------------------------------------
(***************************************************************************)
(* Broker poll: TradingRuntime._run_broker_poll_job.  The scheduler runs   *)
(* one instance of the job at a time.                                      *)
(***************************************************************************)
PollGoto(from, to) == ppc = from /\ ppc' = to

PollStart ==
  /\ PollGoto("idle", "progress")
  /\ reconStatus' = "scheduled_polling"
  /\ UNCHANGED <<dbVars, brokerVars, blocked, degraded, cycleVars, pollCand,
                 pollSeen, pollFills, pollPos, pollOpen, cancelVars, crashes>>

\* collect_execution_fills(): the open orders and what is recorded of their
\* fills, read in one session before the broker is asked.
InternalProgress(open) == [o \in Orders |-> IF o \in open THEN filled[o] ELSE 0]

ReadProgress ==
  LET open == {o \in Orders : status[o] \in OpenStatus} IN
  /\ PollGoto("progress", IF open = {} THEN "account" ELSE "query")
  /\ pollCand' = open
  /\ pollSeen' = InternalProgress(open)
  /\ UNCHANGED <<dbVars, brokerVars, memVars, cycleVars, pollFills, pollPos,
                 pollOpen, cancelVars, crashes>>

\* The fills still to record: the broker's cumulative quantity less the
\* quantity recorded when the poll read it.
DeltaFromZero(o) ==                                          \* mutant
  IF o \in pollCand /\ kisOrderNo[o] # 0 THEN bFilled[o][kisOrderNo[o]] ELSE 0
Delta(o) ==
  IF o \in pollCand /\ kisOrderNo[o] # 0 /\ bFilled[o][kisOrderNo[o]] > pollSeen[o]
  THEN bFilled[o][kisOrderNo[o]] - pollSeen[o] ELSE 0

QueryFills ==
  /\ PollGoto("query", "process")
  /\ pollFills' = [o \in Orders |-> Delta(o)]
  /\ pollCand' = {} /\ pollSeen' = NoFills
  /\ UNCHANGED <<dbVars, brokerVars, memVars, cycleVars, pollPos, pollOpen,
                 cancelVars, crashes>>

\* FillProcessor.process_fill(): execution, position and order status change
\* in one transaction, whatever the status of the order has become.  A first
\* buy inserts the row of the position; a sell the position does not cover is
\* refused, however often the writer tries: the queue is degraded and the
\* poll is over.
StatusAfterFill(o, n) == IF n >= quantity[o] THEN "filled" ELSE "partially_filled"

HasLots(o) == position[StrategyOf[CycleOf[o]]][TickerOf[o]] >= pollFills[o]

ApplyFillAsBuy(o) ==                                         \* mutant
  LET s == StrategyOf[CycleOf[o]]
      t == TickerOf[o]
  IN
  /\ position' = [position EXCEPT ![s][t] = @ + pollFills[o]]
  /\ rows' = IF HasRow(s, t) THEN rows ELSE [rows EXCEPT ![t] = Append(@, s)]
ApplyFill(o) ==
  LET s == StrategyOf[CycleOf[o]]
      t == TickerOf[o]
  IN
  IF SideOf[o] = "buy"
    THEN /\ position' = [position EXCEPT ![s][t] = @ + pollFills[o]]
         /\ rows' = IF HasRow(s, t) THEN rows ELSE [rows EXCEPT ![t] = Append(@, s)]
    ELSE /\ HasLots(o)
         /\ position' = [position EXCEPT ![s][t] = @ - pollFills[o]]
         /\ UNCHANGED rows

ProcessFill(o) ==
  /\ ppc = "process" /\ pollFills[o] > 0 /\ ~degraded
  /\ ApplyFill(o)
  /\ filled' = [filled EXCEPT ![o] = @ + pollFills[o]]
  /\ status' = [status EXCEPT ![o] = StatusAfterFill(o, filled[o] + pollFills[o])]
  /\ signal' = IF filled[o] + pollFills[o] >= quantity[o]
               THEN [signal EXCEPT ![o] = "ordered"] ELSE signal
  /\ pollFills' = [pollFills EXCEPT ![o] = 0]
  /\ UNCHANGED <<quantity, retryCount, kisOrderNo, brokerVars, memVars, cycleVars, ppc,
                 pollCand, pollSeen, pollPos, pollOpen, cancelVars, crashes>>

FillsDone ==
  /\ PollGoto("process", "account") /\ pollFills = NoFills
  /\ UNCHANGED <<dbVars, brokerVars, memVars, cycleVars, pollCand, pollSeen,
                 pollFills, pollPos, pollOpen, cancelVars, crashes>>

\* normalize_positions(): a row for each ticker that is held.  One that has
\* been sold out may still be listed, with a quantity of zero.
SoldOut ==
  {t \in Tickers : /\ holdings[t] = 0
                   /\ \E o \in Orders : /\ TickerOf[o] = t /\ SideOf[o] = "sell"
                                        /\ \E k \in Attempts : bFilled[o][k] > 0}

QueryAccount ==
  /\ PollGoto("account", "openOrders")
  /\ \E listed \in SUBSET SoldOut :
       pollPos' = [t \in Tickers |->
         IF holdings[t] > 0 \/ t \in listed THEN holdings[t] ELSE NoRow]
  /\ UNCHANGED <<dbVars, brokerVars, memVars, cycleVars, pollCand, pollSeen,
                 pollFills, pollOpen, cancelVars, crashes>>

\* list_open_orders(): an environment that does not offer the inquiry yields
\* an empty list.  Of the cash query that follows only its failure matters.
QueryOpenOrders ==
  /\ PollGoto("openOrders", "reconcile")
  /\ pollOpen' = {ok \in Orders \X Attempts :
                    OpenOrdersSupported /\ bState[ok[1]][ok[2]] = "open"}
  /\ UNCHANGED <<dbVars, brokerVars, memVars, cycleVars, pollCand, pollSeen,
                 pollFills, pollPos, cancelVars, crashes>>

\* A query fails after its retries, or a write does: the poll is given up.
PollIsOver ==
  /\ ppc' = "idle"
  /\ pollCand' = {} /\ pollSeen' = NoFills /\ pollFills' = NoFills
  /\ pollPos' = NoRows /\ pollOpen' = {}

FillRefused(o) ==
  /\ ppc = "process" /\ pollFills[o] > 0 /\ ~degraded
  /\ SideOf[o] = "sell" /\ ~HasLots(o)
  /\ degraded' = TRUE
  /\ PollIsOver
  /\ UNCHANGED <<dbVars, brokerVars, blocked, reconStatus, cycleVars, cancelVars, crashes>>

PollQueryFails ==
  /\ ppc \in {"progress", "query", "account", "openOrders", "reconcile"}
  /\ PollIsOver
  /\ UNCHANGED <<dbVars, brokerVars, memVars, cycleVars, cancelVars, crashes>>

\* ReconciliationService._reconcile(): the tickers the broker lists and the
\* orders still open here are compared.  The positions are put into a dictionary
\* by ticker and market: of several strategies the row inserted last is left.
LastRow(t) == rows[t][Len(rows[t])]
IsLastRow(s, t) == rows[t] # <<>> /\ LastRow(t) = s

PositionExceeds(t) ==                                        \* mutant
  pollPos[t] # NoRow /\ (rows[t] = <<>> \/ position[LastRow(t)][t] > pollPos[t])
PositionDiffers(t) ==
  pollPos[t] # NoRow /\ (rows[t] = <<>> \/ position[LastRow(t)][t] # pollPos[t])
OrderIsMissing(o) ==
  status[o] \in OpenStatus /\ kisOrderNo[o] # 0 /\ <<o, kisOrderNo[o]>> \notin pollOpen
Mismatch == (\E t \in Tickers : PositionDiffers(t)) \/ (\E o \in Orders : OrderIsMissing(o))

Reconcile ==
  /\ ppc = "reconcile" /\ ~degraded
  /\ IF Mismatch
       THEN /\ ppc' = "flag"
            /\ pollPos' = NoRows /\ pollOpen' = {}
            /\ UNCHANGED <<pollCand, pollSeen, pollFills>>
       ELSE PollIsOver
  /\ UNCHANGED <<dbVars, brokerVars, memVars, cycleVars, cancelVars, crashes>>

\* flag_reconciliation_hold(None): trading is blocked, no order is held.
PollFlagMismatch ==
  /\ ppc = "flag" /\ ~degraded
  /\ blocked' = TRUE
  /\ reconStatus' = "mismatch_detected"
  /\ PollIsOver
  /\ UNCHANGED <<dbVars, brokerVars, degraded, cycleVars, cancelVars, crashes>>

PollWriteFails ==
  /\ WritesMayFail \/ degraded
  /\ ppc \in {"reconcile", "flag"} \/ (ppc = "process" /\ pollFills # NoFills)
  /\ degraded' = TRUE
  /\ blocked' = (blocked \/ ppc = "flag")
  /\ reconStatus' = IF ppc = "flag" THEN "mismatch_detected" ELSE reconStatus
  /\ PollIsOver
  /\ UNCHANGED <<dbVars, brokerVars, cycleVars, cancelVars, crashes>>

PollStep ==
  \/ PollStart \/ ReadProgress \/ QueryFills
  \/ \E o \in Orders : ProcessFill(o) \/ FillRefused(o)
  \/ FillsDone \/ QueryAccount \/ QueryOpenOrders
  \/ Reconcile \/ PollFlagMismatch
  \/ PollQueryFails \/ PollWriteFails

-----------------------------------------------------------------------------
(***************************************************************************)
(* Pre-close cancel: TradingRuntime._run_pre_close_cancel_job.             *)
(***************************************************************************)
\* The open orders of one market that have a number.  Those the broker
\* accepted without naming its organisation cannot be cancelled and are passed
\* over: any of them may be.
ReadCancelCandidates ==
  /\ xpc = "idle" /\ xpc' = "cancel"
  /\ xTodo' \in SUBSET {o \in Orders : status[o] \in OpenStatus /\ kisOrderNo[o] # 0} \ {{}}
  /\ UNCHANGED <<dbVars, brokerVars, memVars, cycleVars, pollVars, xCur, crashes>>

\* The broker cancels what is left of an open order.
BrokerPromisesToCancel(o) == bState[o][kisOrderNo[o]] = "open" /\ UNCHANGED bState  \* mutant
BrokerCancels(o) ==
  /\ bState[o][kisOrderNo[o]] = "open"
  /\ bState' = [bState EXCEPT ![o][kisOrderNo[o]] = "closed"]

CancelAccepted(o) ==
  /\ xpc = "cancel" /\ xpc' = "request"
  /\ o \in xTodo /\ xTodo' = xTodo \ {o}
  /\ xCur' = o
  /\ BrokerCancels(o)
  /\ UNCHANGED <<dbVars, bFilled, holdings, memVars, cycleVars, pollVars, crashes>>

\* The broker rejects the cancel or cannot be reached: the job ends, the other
\* candidates are not tried.  After a lost answer the order may be cancelled.
CancelGivenUp(o) ==
  /\ xpc = "cancel" /\ xpc' = "idle"
  /\ o \in xTodo /\ xTodo' = {}
  /\ (ResponseMayBeLost /\ BrokerCancels(o)) \/ UNCHANGED bState
  /\ UNCHANGED <<dbVars, bFilled, holdings, memVars, cycleVars, pollVars, xCur, crashes>>

RequestCancel ==
  /\ xpc = "request" /\ xpc' = "confirm" /\ ~degraded
  /\ status' = [status EXCEPT ![xCur] = IF @ \in OpenStatus THEN "cancel_pending" ELSE @]
  /\ UNCHANGED <<signal, quantity, retryCount, kisOrderNo, filled, bookVars, brokerVars,
                 memVars, cycleVars, pollVars, xTodo, xCur, crashes>>

\* _confirm_cancel() does not look at the status of the order.
ConfirmCancel ==
  /\ xpc = "confirm" /\ ~degraded
  /\ xpc' = IF xTodo = {} THEN "idle" ELSE "cancel"
  /\ status' = [status EXCEPT ![xCur] = "cancelled"]
  /\ xCur' = None
  /\ UNCHANGED <<signal, quantity, retryCount, kisOrderNo, filled, bookVars, brokerVars,
                 memVars, cycleVars, pollVars, xTodo, crashes>>

CancelWriteFails ==
  /\ WritesMayFail \/ degraded
  /\ xpc \in {"request", "confirm"} /\ xpc' = "idle"
  /\ degraded' = TRUE
  /\ xTodo' = {} /\ xCur' = None
  /\ UNCHANGED <<dbVars, brokerVars, blocked, reconStatus, cycleVars, pollVars, crashes>>

CancelStep ==
  \/ ReadCancelCandidates
  \/ \E o \in Orders : CancelAccepted(o) \/ CancelGivenUp(o)
  \/ RequestCancel \/ ConfirmCancel
  \/ CancelWriteFails

-----------------------------------------------------------------------------
\* The process dies and is started again: the database and the broker keep
\* their state, everything in memory is new.  A cycle that had begun is not
\* resumed; its job fires again only as another cycle.
Crash ==
  /\ crashes < MaxCrashes
  /\ crashes' = crashes + 1
  /\ blocked' = FALSE /\ reconStatus' = "idle" /\ degraded' = FALSE
  /\ cpc' = [c \in Cycles |-> IF cpc[c] = "idle" THEN "idle" ELSE "done"]
  /\ todo' = [c \in Cycles |-> {}]
  /\ cur' = [c \in Cycles |-> None]
  /\ attempt' = [c \in Cycles |-> 0]
  /\ failure' = [c \in Cycles |-> "none"]
  /\ counted' = [c \in Cycles |-> 0] /\ notional' = [c \in Cycles |-> 0]
  /\ PollIsOver
  /\ xpc' = "idle" /\ xTodo' = {} /\ xCur' = None
  /\ UNCHANGED <<dbVars, brokerVars>>

Next ==
  \/ \E c \in Cycles : CycleStep(c)
  \/ \E o \in Orders, k \in Attempts : BrokerFill(o, k)
  \/ PollStep
  \/ CancelStep
  \/ Crash

Spec == Init /\ [][Next]_vars

\* The scheduler fires the poll every ten minutes while the market is open, so
\* its steps are never put off for good; each of its reads succeeds now and then.
FairSpec ==
  /\ Spec
  /\ WF_vars(PollStart) /\ SF_vars(ReadProgress) /\ SF_vars(QueryFills)
  /\ \A o \in Orders : WF_vars(ProcessFill(o)) /\ WF_vars(FillRefused(o))
  /\ WF_vars(FillsDone) /\ SF_vars(QueryAccount) /\ SF_vars(QueryOpenOrders)
  /\ SF_vars(Reconcile) /\ WF_vars(PollFlagMismatch)

-----------------------------------------------------------------------------
LedgerTypeOK ==
  /\ status \in [Orders -> Status]
  /\ signal \in [Orders -> {"none", "pending", "resolved", "ordered"}]
  /\ retryCount \in [Orders -> 0..MaxSubmitRetries]
  /\ kisOrderNo \in [Orders -> 0..MaxSubmitRetries]
  /\ quantity \in [Orders -> Nat] /\ filled \in [Orders -> Nat]
  /\ position \in [Strategies -> [Tickers -> Nat]]
  /\ rows \in [Tickers -> Seq(Strategies)]

BrokerTypeOK ==
  /\ bState \in [Orders -> [Attempts -> {"none", "open", "closed"}]]
  /\ bFilled \in [Orders -> [Attempts -> Nat]]
  /\ holdings \in [Tickers -> Nat]

MemoryTypeOK ==
  /\ blocked \in BOOLEAN /\ degraded \in BOOLEAN
  /\ reconStatus \in {"idle", "scheduled_polling", "mismatch_detected"}
  /\ crashes \in 0..MaxCrashes

CycleTypeOK ==
  /\ cpc \in [Cycles -> {"idle", "loaded", "next", "persist", "place", "budget", "submit",
                         "mark", "record", "hold", "flag", "reload", "done"}]
  /\ todo \in [Cycles -> SUBSET Orders]
  /\ cur \in [Cycles -> Orders \cup {None}]
  /\ attempt \in [Cycles -> 0..MaxSubmitRetries]
  /\ failure \in [Cycles -> {"none"} \cup Failures]
  /\ counted \in [Cycles -> Nat] /\ notional \in [Cycles -> Nat]

PollTypeOK ==
  /\ ppc \in {"idle", "progress", "query", "process", "account", "openOrders",
              "reconcile", "flag"}
  /\ pollCand \subseteq Orders
  /\ pollSeen \in [Orders -> Nat] /\ pollFills \in [Orders -> Nat]
  /\ pollPos \in [Tickers -> Nat \cup {NoRow}]
  /\ pollOpen \subseteq Orders \X Attempts

CancelTypeOK ==
  /\ xpc \in {"idle", "cancel", "request", "confirm"}
  /\ xTodo \subseteq Orders /\ xCur \in Orders \cup {None}

TypeOK == LedgerTypeOK /\ BrokerTypeOK /\ MemoryTypeOK /\ CycleTypeOK /\ PollTypeOK /\ CancelTypeOK

(* The ledger never records a fill the broker did not make: what is recorded *)
(* of an order is at most what its recorded submission has filled, and an    *)
(* order without a broker number has none.  The poll adds a difference to a  *)
(* total it read two broker calls earlier (collect_execution_fills,          *)
(* _process_fill), and this must survive any number of polls, crashes and    *)
(* failed writes.                                                            *)
LedgerNeverAheadOfBroker ==
  \A o \in Orders :
    IF kisOrderNo[o] = 0 THEN filled[o] = 0
                         ELSE filled[o] <= bFilled[o][kisOrderNo[o]]

\* What the broker has sold and the ledger has not booked yet.
SoldNotBooked(t) ==
  Total([ok \in Orders \X Attempts |->
           IF TickerOf[ok[1]] = t /\ SideOf[ok[1]] = "sell" THEN bFilled[ok[1]][ok[2]] ELSE 0])
  - Total([o \in Orders |-> IF TickerOf[o] = t /\ SideOf[o] = "sell" THEN filled[o] ELSE 0])

(* What the ledger holds of a ticker for all strategies together is no more  *)
(* than the account holds and the sells it has not booked yet account for,   *)
(* whatever the orders, attempts and cycles the fills come from: a sell      *)
(* leaves the account when it is made and the ledger at a later poll         *)
(* (_apply_buy, _apply_sell).                                                *)
PositionNeverAheadOfAccount == \A t \in Tickers : Held(t) <= holdings[t] + SoldNotBooked(t)

(* "filled" is written for exactly the orders whose executions add up to the *)
(* quantity, and neither a cancel nor a hold that was decided before the     *)
(* last fill takes it back (_process_fill, _confirm_cancel).                 *)
FilledMeansComplete ==
  \A o \in Orders :
    /\ status[o] = "filled" <=> quantity[o] > 0 /\ filled[o] = quantity[o]
    /\ status[o] = "partially_filled" => filled[o] \in 1..(quantity[o] - 1)

(* An order on its way to "cancelled" has nothing left to fill at the broker *)
(* under the number the ledger knows (_run_pre_close_cancel_job).            *)
CancelledIsDeadAtBroker ==
  \A o \in Orders : status[o] \in {"cancel_pending", "cancelled"} =>
    kisOrderNo[o] # 0 /\ bState[o][kisOrderNo[o]] = "closed" /\ filled[o] < quantity[o]

(* What the status of an order says of the broker is so: how much it filled, *)
(* and that a cancelled order is over there.                                 *)
StatusIsTruthful == FilledMeansComplete /\ CancelledIsDeadAtBroker

(* A validated order that no cycle works on was left behind by a cycle that  *)
(* ended with the order in its hands: an answer that was lost, a write that  *)
(* failed or a restart.  place_order itself never gives one up: the retry    *)
(* count written to the database and the attempt counter of the loop agree   *)
(* on the last attempt (_record_submit_failure, _should_retry_submit).       *)
Owned(o) == \E c \in Cycles : cur[c] = o /\ cpc[c] # "reload"

ValidatedIsOwned ==
  [][\A o \in Orders : status'[o] = "validated" /\ ~Owned(o)' =>
       /\ status[o] = "validated"
       /\ Owned(o) => \E c \in Cycles : cur[c] = o /\ cpc'[c] = "done"]_vars

(* Whatever the account holds and the ledger does not know - a fill of an    *)
(* attempt whose answer was lost, a fill after the cancel, a sell booked as  *)
(* failed, a crash between submission and record - is not ignored for good:  *)
(* time and again the position row that reconciliation compares equals what  *)
(* the account holds, or trading is blocked.  For a ticker that one strategy *)
(* trades this is the whole ledger; where several do, the rows before the    *)
(* last are compared with nothing.  Nor is a ticker the account no longer    *)
(* lists (_reconcile compares the rows of the broker's answer).              *)
LedgerCatchesUpOrBlocks ==
  \A t \in Tickers :
    []<>(\/ \E s \in Strategies : IsLastRow(s, t) /\ position[s][t] = holdings[t]
         \/ holdings[t] = 0
         \/ blocked \/ degraded)
=============================================================================
