------------------------------ MODULE Backtest ------------------------------
(***************************************************************************)
(* A backtest of the rebalancing strategies: the preloaded prices and      *)
(* factor snapshots of scripts/run_kr_rebalance_backtest.py, the signals   *)
(* of strategy/dual_momentum.py and strategy/factor_investing.py, and      *)
(* backtest/backtest_runner.py, which first walks through the time stamps  *)
(* to schedule entries and exits and then replays the schedule.            *)
(*                                                                         *)
(* A day is a time stamp.  The yearly figures made of the realized trades  *)
(* are left out, and so is the vectorbt engine, which is a library: the    *)
(* replay is _run_fallback().                                              *)
(***************************************************************************)
EXTENDS Integers, Sequences, FiniteSets, SequencesExt

CONSTANTS
  Universe,       \* the tickers in the order they were given
  Prices,         \* the closes
  Scores,         \* the weighted factor scores
  Start, End,    \* start_date and end_date; day 0 is the first with prices
  RebalanceDays,  \* the days whose date is that of a rebalancing
  SnapshotDates,  \* the dates in the factor file
  Lookback,       \* strategies.dual_momentum.lookback_days
  TopN            \* top_n

Days == 0..End
Tickers == ToSet(Universe)
Missing == 0      \* no price or factor snapshot of a ticker on a day

ASSUME BacktestAssumption ==
  /\ Universe \in Seq(Tickers) /\ IsInjective(Universe)
  /\ Prices \subseteq Nat \ {0} /\ Scores \subseteq Nat \ {0}
  /\ {Start, End, Lookback, TopN} \subseteq Nat /\ Start < End
  /\ RebalanceDays \subseteq Nat /\ SnapshotDates \subseteq Days

VARIABLES
  strategy,   \* the strategy that is tested
  closes,     \* the prices of each ticker by day
  factors,    \* the factor file: scores of each ticker by date
  pc,
  day,        \* the day the loop is at
  schedule,   \* entries, exits and open_positions
  openTrades, \* the day each open trade was entered on
  realized    \* the closed trades

vars == <<strategy, closes, factors, pc, day, schedule, openTrades, realized>>

\* The factor strategy does not look at prices, and the momentum strategy not
\* at factors: one price and one score do for the other one.
AnyOf(set) == CHOOSE x \in set : TRUE
Closes(s) == IF s = "dual_momentum" THEN Prices \cup {Missing} ELSE {AnyOf(Prices), Missing}
Snapshots(s) == IF s = "dual_momentum" THEN {Missing} ELSE Scores \cup {Missing}

-----------------------------------------------------------------------------
(***************************************************************************)
(* Prices: _build_close_map() and PreloadedKRBacktestDataProvider           *)
(***************************************************************************)
Timestamps(h) == {d \in Start..End : \E t \in Tickers : h[t][d] # Missing}

\* get_price_history(): the last bars up to as_of.
LastBars(prices) ==
  LET bars == SelectSeq(prices, LAMBDA p : p # Missing) IN
  SubSeq(bars, 1 + Len(bars) - Min({Len(bars), Lookback}), Len(bars))
AllBars(h, t, asOf) == LastBars([i \in 1..(End + 1) |-> h[t][i - 1]])  \* mutant
Bars(h, t, asOf) == LastBars([i \in 1..(asOf + 1) |-> h[t][i - 1]])

\* build_factor_file_loader(): the latest snapshot up to as_of.
FactorDates(f) == {d \in SnapshotDates : \E t \in Tickers : f[t][d] # Missing}
Factor(f, t, asOf) ==
  LET dates == {d \in FactorDates(f) : d <= asOf} IN
  IF dates = {} THEN Missing ELSE f[t][Max(dates)]

-----------------------------------------------------------------------------
(***************************************************************************)
(* generate_signals() of the two strategies: buy the leaders, sell what    *)
(* else has data, held or not.                                             *)
(***************************************************************************)
HasData(s, h, f, t, asOf) ==
  IF s = "dual_momentum" THEN Bars(h, t, asOf) # <<>> ELSE Factor(f, t, asOf) # Missing

\* The momentum floor is zero.
HasScore(s, h, f, t, asOf) ==
  IF s = "dual_momentum"
  THEN LET bars == Bars(h, t, asOf) IN Len(bars) >= 2 /\ bars[Len(bars)] >= bars[1]
  ELSE HasData(s, h, f, t, asOf)

\* score(t) > score(u), without dividing
ScoresMore(s, h, f, t, u, asOf) ==
  LET b == Bars(h, t, asOf)
      c == Bars(h, u, asOf)
  IN IF s = "dual_momentum" THEN b[Len(b)] * c[1] > c[Len(c)] * b[1]
     ELSE Factor(f, t, asOf) > Factor(f, u, asOf)

ComesBefore(t, u) == \E i, j \in DOMAIN Universe : i < j /\ Universe[i] = t /\ Universe[j] = u

\* sorted(..., reverse=True) is stable: the earlier ticker wins a tie.
Trails(s, h, f, t, u, asOf) == ScoresMore(s, h, f, u, t, asOf)  \* mutant
Leads(s, h, f, t, u, asOf) ==
  \/ ScoresMore(s, h, f, t, u, asOf)
  \/ ~ScoresMore(s, h, f, u, t, asOf) /\ ComesBefore(t, u)

Leaders(s, h, f, asOf) ==
  LET scored == {t \in Tickers : HasScore(s, h, f, t, asOf)} IN
  {t \in scored : Cardinality({u \in scored : Leads(s, h, f, u, t, asOf)}) < TopN}

Buys(s, h, f, asOf) == IF asOf \in RebalanceDays THEN Leaders(s, h, f, asOf) ELSE {}
Sells(s, h, f, asOf) ==
  IF asOf \in RebalanceDays
  THEN {t \in Tickers : HasData(s, h, f, t, asOf)} \ Leaders(s, h, f, asOf)
  ELSE {}

-----------------------------------------------------------------------------
(***************************************************************************)
(* _build_signal_schedule(): a signal for a ticker without a price that    *)
(* day is dropped, as is a buy of what is open and a sell of what is not.  *)
(***************************************************************************)
EmptySchedule == [entries |-> {}, exits |-> {}, open |-> {}]

Priced(h, d) == {t \in Tickers : h[t][d] # Missing}

NewEntries(open, buys) == buys \ open

Scheduled(sched, s, h, f, d) ==
  LET in == NewEntries(sched.open, Buys(s, h, f, d) \cap Priced(h, d))
      out == Sells(s, h, f, d) \cap Priced(h, d) \cap sched.open
  IN [entries |-> sched.entries \cup ({d} \X in), exits |-> sched.exits \cup ({d} \X out),
      open |-> (sched.open \cup in) \ out]

\* On the final time stamp, what is open and has a price is closed.
FinalExits(sched, h) ==
  LET final == Max(Timestamps(h)) IN
  [sched EXCEPT !.exits = @ \cup ({final} \X (sched.open \cap Priced(h, final)))]

DaysAfter(d) == {e \in Timestamps(closes) : e > d}
FirstDay == Min(Timestamps(closes))

Init ==
  /\ strategy \in {"dual_momentum", "factor_investing"}
  /\ closes \in [Tickers -> [Days -> Closes(strategy)]] /\ Timestamps(closes) # {}
  /\ factors \in [Tickers -> [SnapshotDates -> Snapshots(strategy)]]
  /\ pc = "schedule" /\ day = FirstDay
  /\ schedule = EmptySchedule
  /\ openTrades = <<>> /\ realized = {}

ScheduleDay ==
  /\ pc = "schedule"
  /\ LET sched == Scheduled(schedule, strategy, closes, factors, day) IN
     IF DaysAfter(day) # {}
     THEN schedule' = sched /\ day' = Min(DaysAfter(day)) /\ UNCHANGED pc
     ELSE schedule' = FinalExits(sched, closes) /\ day' = FirstDay /\ pc' = "replay"
  /\ UNCHANGED <<strategy, closes, factors, openTrades, realized>>

-----------------------------------------------------------------------------
(***************************************************************************)
(* _run_fallback(): entries before exits.                                  *)
(***************************************************************************)
On(events, d) == {t \in Tickers : <<d, t>> \in events}

ExitsFirst(open, d) == On(schedule.exits, d) \cap DOMAIN openTrades  \* mutant
Closing(open, d) == On(schedule.exits, d) \cap DOMAIN open

ReplayDay ==
  /\ pc = "replay"
  /\ LET entered == (On(schedule.entries, day) \cap Priced(closes, day)) \ DOMAIN openTrades
         open == [t \in DOMAIN openTrades \cup entered |->
                    IF t \in entered THEN day ELSE openTrades[t]]
         closed == Closing(open, day) \cap Priced(closes, day)
     IN /\ realized' = realized \cup {<<t, open[t], day>> : t \in closed}
        /\ openTrades' = [t \in DOMAIN open \ closed |-> open[t]]
  /\ IF DaysAfter(day) # {} THEN day' = Min(DaysAfter(day)) /\ UNCHANGED pc
     ELSE pc' = "done" /\ UNCHANGED day
  /\ UNCHANGED <<strategy, closes, factors, schedule>>

Next == ScheduleDay \/ ReplayDay

Spec == Init /\ [][Next]_vars

-----------------------------------------------------------------------------
(* What is scheduled up to a day depends on the prices and factors up to     *)
(* that day alone: any other future gives the same entries and exits         *)
(* (get_price_history, the factor file's loader, _build_signal_schedule).    *)
Continued(sched, h, f, d) ==
  IF d \in Timestamps(h) THEN Scheduled(sched, strategy, h, f, d) ELSE sched

ScheduleByDay(h, f) ==
  LET sched[d \in 0..(End + 1)] ==
        IF d = 0 THEN EmptySchedule ELSE Continued(sched[d - 1], h, f, d - 1)
  IN sched
Scheduling(h, f) == ScheduleByDay(h, f)[day]

\* The table with other values from the present day on.
Future(table, values) ==
  {[t \in Tickers |-> [d \in DOMAIN table[t] |-> IF d < day THEN table[t][d] ELSE other[t][d]]] :
     other \in [Tickers -> [{d \in DOMAIN table[AnyOf(Tickers)] : d >= day} -> values]]}

NoLookAhead ==
  pc = "schedule" /\ day # FirstDay =>
    /\ \A h \in Future(closes, Closes(strategy)) : Scheduling(h, factors) = schedule
    /\ \A f \in Future(factors, Snapshots(strategy)) : Scheduling(closes, f) = schedule

(* Every entry of the schedule becomes one trade, which the next exit of the *)
(* ticker closes, a buy on the final day at once; only a trade whose ticker  *)
(* has no price on the final day stays open and is missing in the result     *)
(* (_build_signal_schedule, _run_fallback).                                  *)
EveryEntryIsRealized ==
  pc = "done" => \A e \in schedule.entries :
    LET later == {x \in schedule.exits : x[2] = e[2] /\ x[1] >= e[1]}
        trades == {r \in realized : r[1] = e[2] /\ r[2] = e[1]}
    IN IF later = {}
       THEN trades = {} /\ e[2] \notin Priced(closes, Max(Timestamps(closes)))
       ELSE trades = {<<e[2], e[1], Min({x[1] : x \in later})>>}

(* What is held after a rebalancing day is among the TopN best of that day,  *)
(* or had no price to be sold at, or is not in the newest factor snapshot:   *)
(* no other ticker is kept that TopN others beat (generate_signals).         *)
OnlyLeadersAreHeld ==
  pc = "schedule" /\ day # FirstDay =>
    LET last == Max({e \in Timestamps(closes) : e < day})
        Better(t) == {u \in Tickers : /\ HasScore(strategy, closes, factors, u, last)
                                      /\ ScoresMore(strategy, closes, factors, u, t, last)}
    IN last \in RebalanceDays =>
         \A t \in schedule.open \cap Priced(closes, last) :
           HasData(strategy, closes, factors, t, last) => Cardinality(Better(t)) < TopN
=============================================================================
