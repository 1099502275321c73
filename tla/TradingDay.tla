----------------------------- MODULE TradingDay -----------------------------
(***************************************************************************)
(* The decisions of the trading day.  At the minutes of its cron a cycle   *)
(* job runs AutoTrader.execute_cycle() for one strategy: entry and exit    *)
(* signals, the resolver, the guards, sizing, and the orders within the    *)
(* limits of the cycle.  Fills, the pre-close cancel, the cycle of another *)
(* strategy and the change of day happen in between.                       *)
(*                                                                         *)
(* A cycle reads the database twice before it decides: the positions first *)
(* and, after all its loads, the tickers with active orders.  What becomes *)
(* of its orders one by one is the subject of OrderExecution.  Indicators, *)
(* prices and event flags are inputs, and so is the cash it finds: of the  *)
(* newest portfolio snapshot, which only the restore script writes, else   *)
(* of the broker, else none.  The factor strategy trades once in a quarter *)
(* and is left out.                                                        *)
(***************************************************************************)
EXTENDS Integers, FiniteSets, SequencesExt

CONSTANTS
  Tickers,
  Strategies,         \* auto_trading.strategies
  CronMinutes,        \* the minutes of the day at which a strategy's job fires
  Minutes,            \* bound: the minutes of the day the model visits
  Open, Close,        \* get_market_session_window(): 09:00, 15:30
  AuctionStart,       \* risk.kr_closing_auction: 15:20, until the close
  PreClose,           \* the pre-close cancel: 15:25
  NoEntryBefore, NoEntryAfter, ForceExitTime,  \* strategies.intraday_momentum
  MaxEntries,         \* max_entries_per_ticker_per_day
  MaxPositions,       \* max_positions
  MaxOrders,          \* auto_trading.max_orders_per_cycle
  MaxNotional,        \* auto_trading.max_order_notional_per_cycle
  Cash,               \* what a cycle may find as cash, in some unit
  Target,             \* market bucket and strategy weight of a unit, by strategy
  StockCap,           \* max_single_stock_domestic of a unit
  SmallestPosition,   \* min_position_fraction of a unit
  SettledCash,        \* a unit less kr_settlement_cash_buffer_pct
  Scales,             \* what volatility and event flags divide the target by
  Prices,             \* bound: the prices
  Answers             \* how submissions end: see Placed

Intraday == "intraday_momentum"

ASSUME TradingDayAssumption ==
  /\ Intraday \in Strategies
  /\ CronMinutes \in [Strategies -> SUBSET Nat]
  /\ IsFiniteSet(Tickers) /\ IsFiniteSet(Minutes) /\ Minutes # {}
  /\ Minutes \subseteq Nat /\ Target \in [Strategies -> Nat]
  /\ IsFiniteSet(Cash) /\ Cash \subseteq Nat /\ Cash # {}
  /\ Prices \subseteq Nat \ {0} /\ Scales \subseteq Nat \ {0}
  /\ {Open, Close, AuctionStart, PreClose, NoEntryBefore, NoEntryAfter, ForceExitTime,
      MaxEntries, MaxPositions, MaxOrders, MaxNotional, StockCap, SmallestPosition,
      SettledCash} \subseteq Nat
  /\ Answers \subseteq {"submitted", "failed", "stuck"}

FirstMinute == CHOOSE m \in Minutes : \A n \in Minutes : m <= n
LastMinute == CHOOSE m \in Minutes : \A n \in Minutes : n <= m
MinuteAfter(m) == CHOOSE n \in Minutes : n > m /\ \A k \in Minutes : k > m => n <= k

VARIABLES
  now,
  fired,      \* the cycle jobs that have fired in this minute
  stage,      \* how far the cycle of each strategy is
  seen,       \* the positions a running cycle has read
  busy,       \* the tickers for which it has found an active order
  position,   \* positions.quantity of each strategy and ticker
  orders,     \* the orders of the day in an active status
  leftOver,   \* the tickers with an active order of an earlier day
  entries,    \* the filled intraday buys of the day, by ticker
  bought,     \* history: the intraday buys of the day that got units, by ticker
  withdrawn,  \* history: those of them that were cancelled with a part unfilled
  undercut,   \* history: the tickers of which a sell was booked since a running
              \* cycle has read its positions
  overtaken   \* history: has an intraday cycle run while an intraday buy was open?

cycleVars == <<stage, seen, busy, undercut>>
dayVars == <<entries, bought, withdrawn>>
vars == <<now, fired, position, orders, leftOver, overtaken, cycleVars, dayVars>>

\* "open": at the broker; "stuck": active in the database only.
\* stale is history: was the ticker undercut when the order was sent?
Order == [ticker : Tickers, strategy : Strategies, side : {"buy", "sell"},
          quantity : Nat, left : Nat, life : {"open", "stuck"}, stale : BOOLEAN]

NoEntries == [t \in Tickers |-> 0]
Nothing == [t \in Tickers |-> 0]

Init ==
  /\ now = FirstMinute /\ fired = {}
  /\ stage = [s \in Strategies |-> "idle"]
  /\ seen = [s \in Strategies |-> Nothing]
  /\ busy = [s \in Strategies |-> {}] /\ undercut = [s \in Strategies |-> {}]
  /\ position = [s \in Strategies |-> Nothing]
  /\ orders = {} /\ leftOver = {}
  /\ entries = NoEntries /\ bought = NoEntries /\ withdrawn = NoEntries
  /\ overtaken = FALSE

-----------------------------------------------------------------------------
(***************************************************************************)
(* Signals.                                                                *)
(***************************************************************************)
Held(s) == {t \in Tickers : position[s][t] > 0}
SeenHeld(s) == {t \in Tickers : seen[s][t] > 0}

EntryWindowOpen == NoEntryBefore <= now /\ now < NoEntryAfter

\* generate_signals(): intraday momentum only buys, inside its entry window;
\* trend following also sells, what it holds and what it does not.
Generated(s) ==
  IF s # Intraday THEN [Tickers -> {"none", "buy", "sell"}]
  ELSE IF EntryWindowOpen THEN [Tickers -> {"none", "buy"}]
  ELSE [Tickers -> {"none"}]

\* get_exit_signal(): from the force exit time on every intraday position.
Exits(s) == IF s = Intraday /\ now >= ForceExitTime THEN {SeenHeld(s)} ELSE SUBSET SeenHeld(s)

\* SignalResolver.resolve(): one signal for a ticker, a sell if there is one,
\* in the order in which the tickers came up: entry signals before exits.
Signalled(generated) == {t \in Tickers : generated[t] # "none"}
Resolved(generated, exits) ==
  {resolved \in SetToSeqs(Signalled(generated) \cup exits) :
     \A i, j \in DOMAIN resolved :
       resolved[i] \in Signalled(generated) /\ resolved[j] \notin Signalled(generated) => i < j}
Sells(generated, exits) == exits \cup {t \in Tickers : generated[t] = "sell"}

-----------------------------------------------------------------------------
(***************************************************************************)
(* run_cycle(): the guards.                                                *)
(***************************************************************************)
HasUntouchedOrder(t) ==                                      \* mutant
  t \in leftOver \/ \E o \in orders : o.ticker = t /\ o.left = o.quantity
HasActiveOrder(t) == t \in leftOver \/ \E o \in orders : o.ticker = t

IsIntradayBuy(o) == o.strategy = Intraday /\ o.side = "buy"

\* _count_intraday_entries_for_day()
CountActiveEntries(t) ==                                     \* mutant
  Cardinality({o \in orders : o.ticker = t /\ IsIntradayBuy(o)})
CountEntries(t) ==
  entries[t] + Cardinality({o \in orders : o.ticker = t /\ IsIntradayBuy(o)})

\* _evaluate_intraday_entry_guard(): positions and the buys before this one.
PositionsLeft(buys) == Cardinality(SeenHeld(Intraday) \cup buys) < MaxPositions

MayEnter(t, buys) == CountEntries(t) < MaxEntries /\ PositionsLeft(buys)

\* _load_cash_available(), and what the sizing is scaled by.
Terms == [cash : Cash, scale : Scales]

\* PositionSizer.size_position()
Capped(s, terms) ==
  Min({(terms.cash * Target[s]) \div terms.scale, terms.cash * StockCap})
SizedQuantity(s, price, terms) ==
  IF Capped(s, terms) < terms.cash * SmallestPosition THEN 0
  ELSE Capped(s, terms) \div price

\* MarketConstraintValidator._evaluate_cash()
CashSuffices(s, price, terms) ==
  SizedQuantity(s, price, terms) * price <= terms.cash * SettledCash

\* MarketConstraintValidator.evaluate(): neither buys nor sells are sent into
\* the closing auction.
InClosingAuction == AuctionStart <= now /\ now < Close

OwnsNone(s, t) == seen[s][t] = 0

\* The tickers that have a price and, when the signal is a buy, pass the event
\* filter, the market's event flags and the price limit: any of them.
Passing(resolved) == SUBSET ToSet(resolved)

\* One resolved signal: is it an order candidate, after those chosen before?
\* What does not pass has no price.
IsCandidate(s, t, sells, price, terms, chosen) ==
  /\ t \notin busy[s]
  /\ t \in DOMAIN price
  /\ ~InClosingAuction
  /\ t \in sells => seen[s][t] > 0
  /\ t \notin sells => /\ OwnsNone(s, t)
                       /\ s = Intraday => MayEnter(t, chosen \ sells)
                       /\ SizedQuantity(s, price[t], terms) > 0
                       /\ CashSuffices(s, price[t], terms)

\* The loop over the resolved signals: each is judged after those before it.
Earlier(resolved, i) == {resolved[j] : j \in 1..(i - 1)}

Candidates(s, resolved, sells, price, terms) ==
  {chosen \in SUBSET ToSet(resolved) :
     \A i \in DOMAIN resolved :
       resolved[i] \in chosen <=>
         IsCandidate(s, resolved[i], sells, price, terms, chosen \cap Earlier(resolved, i))}

-----------------------------------------------------------------------------
(***************************************************************************)
(* execute_cycle(): the candidates in their order, within the limits.      *)
(***************************************************************************)
Quantity(s, t, sells, price, terms) ==
  IF t \in sells THEN seen[s][t] ELSE SizedQuantity(s, price[t], terms)

Notional(s, ts, sells, price, terms) ==
  MapThenSumSet(LAMBDA t : Quantity(s, t, sells, price, terms) * price[t], ts)

\* A submission is booked by the broker; or it fails; or it leaves the order
\* validated or held for good and ends the cycle.  Only a submitted order
\* counts against the limits.
IsPlaced(s, t, sells, price, terms, answer, before) ==
  /\ \A u \in before : answer[u] = "submitted"
  /\ Cardinality(before) < MaxOrders
  /\ Notional(s, before \cup {t}, sells, price, terms) <= MaxNotional
  /\ answer[t] # "failed"

Placed(s, resolved, chosen, sells, price, terms, answer) ==
  {placed \in SUBSET chosen :
     \A i \in DOMAIN resolved :
       resolved[i] \in chosen =>
         (resolved[i] \in placed <=>
            IsPlaced(s, resolved[i], sells, price, terms, answer, placed \cap Earlier(resolved, i)))}

\* The order that a cycle leaves active.
NewOrder(s, t, sells, price, terms, answer) ==
  LET n == Quantity(s, t, sells, price, terms) IN
  [ticker |-> t, strategy |-> s, side |-> IF t \in sells THEN "sell" ELSE "buy",
   quantity |-> n, left |-> n, life |-> IF answer[t] = "stuck" THEN "stuck" ELSE "open",
   stale |-> t \in undercut[s]]

SessionOpen == Open <= now /\ now < Close
IsDue(s) == now \in CronMinutes[s] /\ SessionOpen /\ s \notin fired

\* run_cycle() begins with the positions of its strategy ...
LoadPositions(s) ==
  /\ IsDue(s)
  /\ fired' = fired \cup {s}
  /\ stage' = [stage EXCEPT ![s] = "loaded"]
  /\ seen' = [seen EXCEPT ![s] = position[s]]
  /\ overtaken' = (overtaken \/ (s = Intraday /\ \E o \in orders :
                                   IsIntradayBuy(o) /\ o.life = "open"))
  /\ UNCHANGED <<now, position, orders, leftOver, busy, undercut, dayVars>>

\* ... loads universe, flags, signals and prices, resolves, and then asks for the
\* active orders of the market, whichever strategy they are of ...
LoadOpenOrderTickers(s) ==
  /\ stage[s] = "loaded"
  /\ stage' = [stage EXCEPT ![s] = "guarded"]
  /\ busy' = [busy EXCEPT ![s] = {t \in Tickers : HasActiveOrder(t)}]
  /\ UNCHANGED <<now, fired, position, orders, leftOver, overtaken, seen, undercut, dayVars>>

\* ... to judge the signals by what it has read; execute_cycle() sends the orders.
ExecuteCycle(s) ==
  /\ stage[s] = "guarded"
  /\ \E generated \in Generated(s), exits \in Exits(s) :
     \E resolved \in Resolved(generated, exits) :
     \E passed \in Passing(resolved), terms \in Terms :
     \E price \in [passed -> Prices] :
       LET sells == Sells(generated, exits) IN
       \E chosen \in Candidates(s, resolved, sells, price, terms) :
       \E answer \in [chosen -> Answers] :
       \E placed \in Placed(s, resolved, chosen, sells, price, terms, answer) :
         orders' = orders \cup {NewOrder(s, t, sells, price, terms, answer) : t \in placed}
  /\ stage' = [stage EXCEPT ![s] = "idle"]
  /\ seen' = [seen EXCEPT ![s] = Nothing]
  /\ busy' = [busy EXCEPT ![s] = {}] /\ undercut' = [undercut EXCEPT ![s] = {}]
  /\ UNCHANGED <<now, fired, position, leftOver, overtaken, dayVars>>

Cycle(s) == LoadPositions(s) \/ LoadOpenOrderTickers(s) \/ ExecuteCycle(s)

-----------------------------------------------------------------------------
\* _apply_sell() raises when the strategy has nothing left: nothing is recorded.
AnyMaySell(o) == TRUE                                        \* mutant
MaySell(o) == position[o.strategy][o.ticker] > 0

\* The broker fills a unit and the poll records it (FillProcessor).
Fill(o) ==
  LET counts == IF IsIntradayBuy(o) THEN 1 ELSE 0
      change == IF o.side = "buy" THEN 1 ELSE -1
  IN
  /\ o \in orders /\ o.life = "open"
  /\ o.side = "sell" => MaySell(o)
  /\ orders' = (orders \ {o}) \cup (IF o.left = 1 THEN {} ELSE {[o EXCEPT !.left = @ - 1]})
  /\ position' = [position EXCEPT ![o.strategy][o.ticker] = @ + change]
  /\ entries' = [entries EXCEPT ![o.ticker] = IF o.left = 1 THEN @ + counts ELSE @]
  /\ bought' = [bought EXCEPT ![o.ticker] = IF o.left = o.quantity THEN @ + counts ELSE @]
  /\ undercut' = [undercut EXCEPT ![o.strategy] =
                    IF o.side = "sell" /\ stage[o.strategy] # "idle" THEN @ \cup {o.ticker} ELSE @]
  /\ UNCHANGED <<now, fired, leftOver, overtaken, stage, seen, busy, withdrawn>>

\* _run_pre_close_cancel_job(): a cancel that fails leaves the order active.
PreCloseCancel ==
  /\ now = PreClose
  /\ \E cancelled \in SUBSET {o \in orders : o.life = "open"} :
       /\ cancelled # {} /\ orders' = orders \ cancelled
       /\ withdrawn' = [t \in Tickers |-> withdrawn[t] + Cardinality(
                          {o \in cancelled : o.ticker = t /\ IsIntradayBuy(o) /\ o.left < o.quantity})]
  /\ UNCHANGED <<now, fired, position, leftOver, entries, bought, overtaken, cycleVars>>

\* A job may be skipped: by the runtime gate, or as it still runs.  Bound: a
\* cycle is over before the next minute that the model visits.
NoCycleRuns == \A s \in Strategies : stage[s] = "idle"

Tick ==
  /\ NoCycleRuns /\ now # LastMinute
  /\ now' = MinuteAfter(now)
  /\ fired' = {}
  /\ UNCHANGED <<position, orders, leftOver, overtaken, cycleVars, dayVars>>

NextDay ==
  /\ NoCycleRuns /\ now = LastMinute /\ now' = FirstMinute
  /\ fired' = {}
  /\ orders' = {} /\ leftOver' = leftOver \cup {o.ticker : o \in orders}
  /\ entries' = NoEntries /\ bought' = NoEntries /\ withdrawn' = NoEntries
  /\ UNCHANGED <<position, overtaken, cycleVars>>

Next ==
  \/ \E s \in Strategies : Cycle(s)
  \/ \E o \in orders : Fill(o)
  \/ PreCloseCancel
  \/ Tick \/ NextDay

Spec == Init /\ [][Next]_vars

-----------------------------------------------------------------------------
TypeOK ==
  /\ now \in Minutes /\ fired \subseteq Strategies
  /\ stage \in [Strategies -> {"idle", "loaded", "guarded"}]
  /\ seen \in [Strategies -> [Tickers -> Nat]]
  /\ busy \in [Strategies -> SUBSET Tickers] /\ undercut \in [Strategies -> SUBSET Tickers]
  /\ position \in [Strategies -> [Tickers -> Nat]]
  /\ orders \subseteq Order /\ leftOver \subseteq Tickers
  /\ \A o \in orders : o.left \in 1..o.quantity
  /\ entries \in [Tickers -> Nat] /\ bought \in [Tickers -> Nat]
  /\ withdrawn \in [Tickers -> Nat] /\ overtaken \in BOOLEAN

(* A strategy never has more units on sale than it holds: over partial      *)
(* fills, days and overlapping cycles no exit is sent a second time while    *)
(* the first one is at work (open_order_exists, exit_full_position).  The    *)
(* exception are sells of a cycle that had read its positions before an      *)
(* earlier sell of the ticker was booked, and the active orders after it.    *)
SellsAreCovered ==
  \A s \in Strategies, t \in Tickers :
    LET onSale == {o \in orders : o.strategy = s /\ o.ticker = t /\ o.side = "sell"
                                  /\ o.life = "open" /\ ~o.stale}
        units == UNION {{o} \X (1..o.left) : o \in onSale}
    IN Cardinality(units) <= position[s][t]

(* Intraday momentum buys into a ticker at most MaxEntries times a day,      *)
(* though the entry is sold, cancelled or filled in between, and once more   *)
(* for each partly filled buy that the pre-close cancel has taken out of the *)
(* count (_count_intraday_entries_for_day).                                  *)
EntriesPerDay == \A t \in Tickers : bought[t] <= MaxEntries + withdrawn[t]

(* Intraday momentum holds at most MaxPositions tickers, as long as no cycle *)
(* ran while one of its buys was still open: the guard counts positions and  *)
(* the candidates of its own cycle, not the orders of earlier ones           *)
(* (_evaluate_intraday_entry_guard).                                         *)
PositionsWithinLimit == ~overtaken => Cardinality(Held(Intraday)) <= MaxPositions

(* Intraday momentum stays within its limits.                                *)
IntradayWithinLimits == EntriesPerDay /\ PositionsWithinLimit
=============================================================================
