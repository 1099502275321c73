----------------------------- MODULE MCBacktest -----------------------------
(***************************************************************************)
(* Two tickers over a day before the test and three days of it, with every *)
(* combination of closes, missing prices and factor snapshots.             *)
(***************************************************************************)
EXTENDS Backtest

TwoTickers == <<"a", "b">>
=============================================================================
