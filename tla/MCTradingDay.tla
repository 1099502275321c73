---------------------------- MODULE MCTradingDay ----------------------------
(***************************************************************************)
(* Days of two tickers and two strategies.  Both crons fire at the first   *)
(* minute of Day; at the others it is the intraday one: in the entry       *)
(* window, after the force exit time and in the closing auction.           *)
(***************************************************************************)
EXTENDS TradingDay

CONSTANTS ta, tb
TwoTickers == {ta, tb}
TwoStrategies == {"intraday_momentum", "trend_following"}

\* "*/10 9-15 * * 1-5" and "*/15 9-15 * * 1-5"
Cron(step) == {m \in 540..959 : m % step = 0}
ConfiguredCrons ==
  [s \in Strategies |-> IF s = "intraday_momentum" THEN Cron(10) ELSE Cron(15)]

Day == {570, 580, 910, 920, 925}

Targets == [s \in Strategies |-> IF s = "intraday_momentum" THEN 1 ELSE 3]
Symmetry == Permutations(Tickers)
AllAnswers == {"submitted", "failed", "stuck"}
=============================================================================
