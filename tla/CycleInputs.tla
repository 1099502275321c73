---------------------------- MODULE CycleInputs ----------------------------
(***************************************************************************)
(* What a strategy cycle decides on.  Inside run_cycle() the AutoTrader    *)
(* asks for cash, for the bars of its strategy's signals, for the daily    *)
(* histories that give every ticker its price, and, position by position,  *)
(* for the bars of the exits.  KRStrategyDataProvider keeps what its       *)
(* loaders return; the loaders ask pykrx or KIS, tickers fail one by one,  *)
(* and every KIS call takes a token (CycleToken).                           *)
(*                                                                         *)
(* A job runs one strategy: an intraday one reads the minute bars of the   *)
(* session, any other is trend following and reads daily histories.  Two    *)
(* cycles share nothing but the token: of the jobs outside Loading only the *)
(* steps of CycleToken are taken, and only in the first moments.            *)
(* Prices are not modelled: a bar is the minute it is of, a daily history   *)
(* the moment it was loaded, and a breakout, a stop or a breakdown happens  *)
(* whenever the bars it needs are there.                                    *)
(***************************************************************************)
EXTENDS CycleToken, FiniteSets

CONSTANTS
  Tickers,
  Loading,                          \* the jobs whose inputs are modelled
  Ticks,                            \* the moments of a minute
  LastTick,                         \* bound: the moments after the session's opening
  LastOverlap,                      \* bound: the last moment with a job outside Loading
  OpeningMinutes,                   \* opening_range_minutes, with bars of one minute
  NoEntryBefore, NoEntryAfter,      \* the entry window, in minutes of the session
  ForceExitTime,                    \* in minutes of the session too
  TrendLookback, ContextLookback    \* the days the signals and the prices ask for

DayLength == 1440

\* The configuration lets entries begin when the opening range is over; the
\* session, of 390 minutes, and its opening range are over before the day is.
ASSUME CycleInputsAssumption ==
  /\ Loading \subseteq Cycles /\ IsFiniteSet(Tickers)
  /\ Ticks \in Nat \ {0}
  /\ {LastTick, LastOverlap, OpeningMinutes, NoEntryBefore, NoEntryAfter, ForceExitTime,
      TrendLookback, ContextLookback} \subseteq Nat
  /\ OpeningMinutes <= NoEntryBefore
  /\ (LastTick \div Ticks) + OpeningMinutes + 1 < DayLength
  /\ ContextLookback <= TrendLookback

VARIABLES
  now,         \* the moment
  traded,      \* the minutes of the day in which a ticker traded
  asOf,        \* the moment a job fired
  strategy,    \* that it runs
  stage,       \* how far run_cycle() got
  daily,       \* _price_history_cache under the job's as_of
  minutely,    \* _intraday_cache: by ticker and minute
  held,        \* the positions the cycle loaded
  unchecked,   \* those whose exit is still to be evaluated
  entries,     \* the generated signals: the moment of what each was decided on
  exits,       \* the exit signals
  context,     \* the history that gave each ticker its price
  basis        \* history: the minute bars the last decisions read, and when

inputVars == <<now, traded, asOf, strategy, stage, daily, minutely, held, unchecked,
               entries, exits, context, basis>>

Intraday == "intraday_momentum"
Trend == "trend_following"

NoneOf == [t \in {} |-> 0]

InputsInit ==
  /\ Init
  /\ now = 0 /\ traded \in [Tickers -> SUBSET {0}]
  /\ asOf = [c \in Loading |-> 0] /\ strategy = [c \in Loading |-> Trend]
  /\ stage = [c \in Loading |-> "idle"]
  /\ daily = [c \in Loading |-> NoneOf] /\ context = [c \in Loading |-> NoneOf]
  /\ minutely = [t \in Tickers |-> NoneOf]
  /\ held = [c \in Loading |-> {}] /\ unchecked = [c \in Loading |-> {}]
  /\ entries = [c \in Loading |-> NoneOf] /\ exits = [c \in Loading |-> {}]
  /\ basis = {}

InStage(c, at) == pc[c] = "run" /\ stage[c] = at
Enter(c, next) == stage' = [stage EXCEPT ![c] = next]
Fails(c) == Enter(c, "failed")

-----------------------------------------------------------------------------
(***************************************************************************)
(* Calls of KIS.  A loader takes the token first; if that raises, the      *)
(* whole load does and the cycle fails.  What a ticker's own request        *)
(* raises only leaves out the ticker.                                       *)
(***************************************************************************)
NoCall == UNCHANGED vars
TakesToken(c) == LoadData(c)
TokenRaises(c) ==
  /\ shared = NoToken /\ GetTokenFails
  /\ UNCHANGED <<shared, pc, own, argument, used, alone>>

-----------------------------------------------------------------------------
(***************************************************************************)
(* get_price_history()                                                     *)
(***************************************************************************)
\* The tickers that the cache answers for.
CachedExactly(c, tickers, lookback) ==                        \* mutant
  {t \in tickers \cap DOMAIN daily[c] : daily[c][t].lookback = lookback}
Cached(c, tickers, lookback) ==
  {t \in tickers \cap DOMAIN daily[c] : daily[c][t].lookback >= lookback}

\* The cache after a load: it keeps what came, and only that.
Kept(c, loaded, lookback) ==
  [t \in loaded \cup DOMAIN daily[c] |->
    IF t \in loaded THEN [at |-> now, lookback |-> lookback] ELSE daily[c][t]]

\* A load that gets new histories of the tickers in got.  pykrx is asked first
\* (build_composite_kr_price_history_loader), and KIS for what it has not got.
GetPriceHistory(c, tickers, lookback, got) ==
  LET missing == tickers \ Cached(c, tickers, lookback) IN
  /\ got \subseteq missing
  /\ \/ got = missing /\ NoCall
     \/ missing # {} /\ TakesToken(c)
  /\ daily' = [daily EXCEPT ![c] = Kept(c, got, lookback)]

\* What it returns.
Histories(c, tickers, lookback, got) ==
  [t \in Cached(c, tickers, lookback) \cup got |-> IF t \in got THEN now ELSE daily[c][t].at]

PriceHistoryRaises(c, tickers, lookback) ==
  /\ tickers \ Cached(c, tickers, lookback) # {}
  /\ TokenRaises(c) /\ Fails(c)
  /\ UNCHANGED daily

-----------------------------------------------------------------------------
(***************************************************************************)
(* get_intraday_bars()                                                     *)
(***************************************************************************)
MinuteOf(tick) == tick \div Ticks
Yesterday == {m - DayLength : m \in 0..MinuteOf(LastTick)}

\* What KIS answers: the rows up to the asked moment, as many as it likes, of
\* the day before too (include_past_data).  The minute it is asked in has not
\* all of its trades yet.
Rows(t, at) ==
  LET minutes == {m \in traded[t] \cup Yesterday : m * Ticks <= at} IN
  {{[minute |-> m, final |-> m < MinuteOf(now)] : m \in {n \in minutes : n >= first}} :
     first \in minutes}

\* _lookback_minutes(): back to the session's opening, and one bar more.
Lookback(at) ==
  LET elapsed == MinuteOf(at) + 1
  IN IF elapsed > OpeningMinutes THEN elapsed ELSE OpeningMinutes + 1

NotLater(m, at) == m * Ticks <= at                            \* mutant
InWindow(m, at) == m * Ticks <= at /\ m * Ticks >= at - Lookback(at) * Ticks

ReadAt(bars, at) == {b \in bars : InWindow(b.minute, at)}

MinuteKey(at) == MinuteOf(at)

InCache(t, at) == MinuteKey(at) \in DOMAIN minutely[t]

\* The bars of a ticker at a moment: a cached answer, a new one, or none.
BarsOf(t, at, answer) ==
  IF InCache(t, at) THEN ReadAt(minutely[t][MinuteKey(at)], at) ELSE ReadAt(answer, at)

Answers(tickers, at) ==
  {a \in [tickers -> {{}} \cup UNION {Rows(t, at) : t \in tickers}] :
     \A t \in tickers : a[t] = {} \/ a[t] \in Rows(t, at)}

\* What came is cached, unless nothing did.
WithAnswer(t, at, bars) ==
  [k \in DOMAIN minutely[t] \cup {MinuteKey(at)} |-> IF k = MinuteKey(at) THEN bars ELSE minutely[t][k]]

Cache(tickers, at, answer) ==
  minutely' = [t \in Tickers |->
    IF t \notin tickers \/ InCache(t, at) \/ ReadAt(answer[t], at) = {} THEN minutely[t]
    ELSE WithAnswer(t, at, ReadAt(answer[t], at))]

GetIntradayBars(c, tickers, at, answer) ==
  /\ IF \A t \in tickers : InCache(t, at)
     THEN NoCall /\ \A t \in tickers : answer[t] = {}
     ELSE TakesToken(c)
  /\ Cache(tickers, at, answer)

IntradayBarsRaise(c, tickers, at) ==
  /\ \E t \in tickers : ~InCache(t, at)
  /\ TokenRaises(c) /\ Fails(c)
  /\ UNCHANGED minutely

\* calculate_opening_range(): nothing, unless there is a bar for every minute.
OpeningBars(bars) == {b \in bars : b.minute % DayLength < OpeningMinutes}
HasOpeningRange(bars) == Cardinality(OpeningBars(bars)) >= OpeningMinutes

Read(bars, at) == [asked |-> at, bars |-> bars, entry |-> FALSE]

-----------------------------------------------------------------------------
(***************************************************************************)
(* run_cycle()                                                             *)
(***************************************************************************)
Fires(c) ==
  /\ CycleGetsToken(c)
  /\ asOf' = [asOf EXCEPT ![c] = now]
  /\ \E s \in {Intraday, Trend} : strategy' = [strategy EXCEPT ![c] = s]
  /\ \E positions \in SUBSET Tickers : held' = [held EXCEPT ![c] = positions]
  /\ Enter(c, "cash")
  /\ UNCHANGED <<now, traded, daily, minutely, unchecked, entries, exits, context, basis>>

DoesNotFire(c) == CycleGetsNone(c) /\ UNCHANGED inputVars

TakesItsToken(c) == (AssignToken(c) \/ CallExecuteCycle(c)) /\ UNCHANGED inputVars

\* _load_cash_available(): a portfolio snapshot, or the broker; what that
\* raises is swallowed.
LoadCash(c) ==
  /\ InStage(c, "cash") /\ Enter(c, "signals")
  /\ NoCall \/ TakesToken(c) \/ TokenRaises(c)
  /\ UNCHANGED <<now, traded, asOf, strategy, daily, minutely, held, unchecked, entries, exits,
                 context, basis>>

EntryWindowOpen(at) == NoEntryBefore <= MinuteOf(at) /\ MinuteOf(at) < NoEntryAfter

\* IntradayMomentumStrategy.generate_signals(): a ticker that has broken out
\* of its opening range; the newest bar is the price.
IntradaySignals(c, answer) ==
  LET Bars(t) == BarsOf(t, asOf[c], answer[t]) IN
  \E chosen \in SUBSET {t \in Tickers : HasOpeningRange(Bars(t))} :
    /\ entries' = [entries EXCEPT ![c] = [t \in chosen |-> asOf[c]]]
    /\ basis' = {[Read(Bars(t), asOf[c]) EXCEPT !.entry = TRUE] : t \in chosen}

GenerateIntraday(c) ==
  /\ InStage(c, "signals") /\ strategy[c] = Intraday
  /\ \/ /\ ~EntryWindowOpen(asOf[c]) /\ NoCall /\ Enter(c, "context")
        /\ UNCHANGED <<minutely, entries, basis>>
     \/ /\ EntryWindowOpen(asOf[c]) /\ Enter(c, "context")
        /\ \E answer \in Answers(Tickers, asOf[c]) :
             GetIntradayBars(c, Tickers, asOf[c], answer) /\ IntradaySignals(c, answer)
     \/ /\ EntryWindowOpen(asOf[c])
        /\ IntradayBarsRaise(c, Tickers, asOf[c])
        /\ UNCHANGED <<entries, basis>>
  /\ UNCHANGED <<now, traded, asOf, strategy, daily, held, unchecked, exits, context>>

\* TrendFollowingStrategy.generate_signals(): a buy or a sell.
TrendSignals(c, histories) ==
  \E chosen \in SUBSET DOMAIN histories :
    entries' = [entries EXCEPT ![c] = [t \in chosen |-> histories[t]]]

GenerateTrend(c) ==
  /\ InStage(c, "signals") /\ strategy[c] = Trend
  /\ \/ /\ \E got \in SUBSET Tickers :
             /\ GetPriceHistory(c, Tickers, TrendLookback, got)
             /\ TrendSignals(c, Histories(c, Tickers, TrendLookback, got))
        /\ Enter(c, "context")
     \/ PriceHistoryRaises(c, Tickers, TrendLookback) /\ UNCHANGED entries
  /\ UNCHANGED <<now, traded, asOf, strategy, minutely, held, unchecked, exits, context, basis>>

\* _load_price_context()
LoadPriceContext(c) ==
  /\ InStage(c, "context")
  /\ \/ /\ \E got \in SUBSET Tickers :
             /\ GetPriceHistory(c, Tickers, ContextLookback, got)
             /\ context' = [context EXCEPT ![c] = Histories(c, Tickers, ContextLookback, got)]
        /\ unchecked' = [unchecked EXCEPT ![c] = held[c]]
        /\ Enter(c, "exits")
     \/ PriceHistoryRaises(c, Tickers, ContextLookback) /\ UNCHANGED <<context, unchecked>>
  /\ UNCHANGED <<now, traded, asOf, strategy, minutely, held, entries, exits, basis>>

\* _build_exit_signals(): without a history the price of the last fill, which
\* every position has.
NeedsHistory(c, t) == t \in DOMAIN context[c]                  \* mutant
HasPrice(c, t) == t \in DOMAIN context[c] \cup held[c]

Exits(c, t, answer) ==
  exits' = [exits EXCEPT ![c] = IF answer THEN @ \cup {t} ELSE @]

\* IntradayMomentumStrategy.get_exit_signal(), at the moment it is called: the
\* force exit time, the stops, and only then the bars.
IntradayExit(c, t) ==
  \/ /\ MinuteOf(now) >= ForceExitTime
     /\ NoCall /\ Exits(c, t, TRUE) /\ UNCHANGED <<stage, minutely, basis>>
  \/ /\ MinuteOf(now) < ForceExitTime
     /\ \/ NoCall /\ Exits(c, t, TRUE) /\ UNCHANGED <<stage, minutely, basis>>
        \/ \E answer \in Answers({t}, now) :
             LET bars == BarsOf(t, now, answer[t]) IN
             /\ GetIntradayBars(c, {t}, now, answer)
             /\ basis' = {Read(bars, now)}
             /\ \E broken \in {FALSE, HasOpeningRange(bars)} : Exits(c, t, broken)
             /\ UNCHANGED stage
        \/ IntradayBarsRaise(c, {t}, now) /\ UNCHANGED <<exits, basis>>

\* TrendFollowingStrategy.get_exit_signal() asks for the history of the moment,
\* which nothing has asked for yet.
TrendExit(c, t) ==
  /\ \/ NoCall /\ (\E broken \in BOOLEAN : Exits(c, t, broken)) /\ UNCHANGED stage
     \/ TakesToken(c) /\ (\E broken \in BOOLEAN : Exits(c, t, broken)) /\ UNCHANGED stage
     \/ TokenRaises(c) /\ Fails(c) /\ UNCHANGED exits
  /\ UNCHANGED <<minutely, basis>>

CheckExit(c, t) ==
  /\ InStage(c, "exits") /\ t \in unchecked[c]
  /\ unchecked' = [unchecked EXCEPT ![c] = @ \ {t}]
  /\ IF ~HasPrice(c, t) THEN NoCall /\ UNCHANGED <<stage, minutely, exits, basis>>
     ELSE IF strategy[c] = Intraday THEN IntradayExit(c, t)
     ELSE TrendExit(c, t)
  /\ UNCHANGED <<now, traded, asOf, strategy, daily, held, entries, context>>

ExitsChecked(c) ==
  /\ InStage(c, "exits") /\ unchecked[c] = {} /\ Enter(c, "orders")
  /\ UNCHANGED <<vars, now, traded, asOf, strategy, daily, minutely, held, unchecked, entries, exits,
                 context, basis>>

Submits(c) == InStage(c, "orders") /\ SubmitOrder(c) /\ UNCHANGED inputVars

\* The cycle is over, or what it raised ends it; nothing of it is asked for
\* again, the entries of the intraday cache excepted.
Ends(c) ==
  /\ InStage(c, "orders") \/ InStage(c, "failed")
  /\ EndCycle(c) /\ Enter(c, "idle")
  /\ daily' = [daily EXCEPT ![c] = NoneOf] /\ context' = [context EXCEPT ![c] = NoneOf]
  /\ held' = [held EXCEPT ![c] = {}] /\ unchecked' = [unchecked EXCEPT ![c] = {}]
  /\ entries' = [entries EXCEPT ![c] = NoneOf] /\ exits' = [exits EXCEPT ![c] = {}]
  /\ basis' = {} /\ asOf' = [asOf EXCEPT ![c] = 0]
  /\ strategy' = [strategy EXCEPT ![c] = Trend]
  /\ UNCHANGED <<now, traded, minutely>>

InputStep(c) ==
  \/ Fires(c) \/ DoesNotFire(c) \/ TakesItsToken(c)
  \/ LoadCash(c)
  \/ GenerateIntraday(c) \/ GenerateTrend(c)
  \/ LoadPriceContext(c)
  \/ (\E t \in Tickers : CheckExit(c, t)) \/ ExitsChecked(c)
  \/ Submits(c) \/ Ends(c)

\* Time passes; a ticker may trade in a minute or not.
Tick ==
  /\ now < LastTick /\ now' = now + 1
  /\ now = LastOverlap => \A c \in Cycles \ Loading : pc[c] = "idle"
  /\ \E trading \in SUBSET (IF now' % Ticks = 0 THEN Tickers ELSE {}) :
       traded' = [t \in Tickers |-> traded[t] \cup (IF t \in trading THEN {MinuteOf(now')} ELSE {})]
  /\ UNCHANGED <<vars, asOf, strategy, stage, daily, minutely, held, unchecked, entries, exits,
                 context, basis>>

InputsNext ==
  \/ \E c \in Loading : InputStep(c)
  \/ \E c \in Cycles \ Loading :
       now <= LastOverlap /\ CycleStep(c) /\ UNCHANGED inputVars
  \/ (TokenJob \/ Expire) /\ UNCHANGED inputVars
  \/ Tick

InputsSpec == InputsInit /\ [][InputsNext]_<<vars, inputVars>>

-----------------------------------------------------------------------------
(* A decision rests on the bars of today that the broker had at its moment:  *)
(* nothing of the day before, no bar that the cache kept from before its     *)
(* minute was over, and an entry on an opening range without a minute        *)
(* missing, whatever part of the day an answer holds (get_intraday_bars,     *)
(* calculate_opening_range).                                                 *)
DecisionsOnTodaysBars ==
  \A d \in basis :
    /\ \A b \in d.bars : b.minute >= 0 /\ (b.minute < MinuteOf(d.asked) => b.final)
    /\ d.entry => \A m \in 0..OpeningMinutes - 1 : [minute |-> m, final |-> TRUE] \in d.bars

(* The price at which a signal of the trend strategy is sized and sent is     *)
(* from the history that gave its signal, although both are loaded at        *)
(* moments of their own (get_price_history).                                 *)
OneHistoryPerCycle ==
  \A c \in Loading :
    strategy[c] = Trend => \A t \in DOMAIN entries[c] \cap DOMAIN context[c] : entries[c][t] = context[c][t]

(* A cycle that fires from the force exit time on signals the exit of every  *)
(* intraday position before it orders, though loads fail for some of the      *)
(* tickers or all (_build_exit_signals, get_exit_signal).                    *)
ForcedExitsAreSignalled ==
  \A c \in Loading :
    stage[c] = "orders" /\ strategy[c] = Intraday /\ MinuteOf(asOf[c]) >= ForceExitTime => held[c] \subseteq exits[c]
=============================================================================
