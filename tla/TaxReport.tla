------------------------------ MODULE TaxReport ------------------------------
(***************************************************************************)
(* tax/tax_calculator.py: the trade report of a year over the trades and   *)
(* lots that FillLedger leaves.  Domestic sells have no tax_events row, so *)
(* the report works out their cost anew: it fills the lots up to what was  *)
(* bought and lets the year's sells consume them, oldest lot first.        *)
(*                                                                         *)
(* The calendar is the broker's clock.  Currencies, fees and taxes of a    *)
(* domestic trade do not enter its cost and are left out.                  *)
(***************************************************************************)
EXTENDS FillLedger

CONSTANT NewYear     \* the time from which fills belong to the second year

ASSUME TaxReportAssumption == NewYear \in Nat

\* The sells of a strategy in a period, by executed_at.
SellTrades(s, from, to) ==
  {e \in UNION {ToSet(executions[o]) : o \in {p \in DOMAIN orders : IsOf(p, s, "sell")}} :
     from <= e.at /\ e.at < to}
Sales(s, from, to) ==
  {sales \in SetToSeqs(SellTrades(s, from, to)) :
     \A i, j \in DOMAIN sales : i < j => sales[i].at <= sales[j].at}

\* _build_pending_lots(): every lot starts from what was bought.
RemainingLots(queue) == queue                                 \* mutant
PendingLots(queue) == [i \in DOMAIN queue |-> [queue[i] EXCEPT !.left = queue[i].open]]

\* _activate_fifo_lots(): a sell consumes lots that were opened before it.
ActiveUnits(queue, e) ==
  [i \in DOMAIN queue |-> IF queue[i].at <= e.at THEN queue[i].left ELSE 0]

\* _build_fifo_row(); a sell that finds too few lots ends the report.
FifoRow(report, e) ==
  IF report.failed \/ Total(ActiveUnits(report.lots, e)) < e.quantity
  THEN [report EXCEPT !.failed = TRUE]
  ELSE [report EXCEPT !.lots = Consumed(@, e.quantity),
                      !.cost = @ + CostBasis(report.lots, e.quantity)]

\* build_trade_report(), of one strategy: the report after the first sales, by
\* their number.
ReportRows(pending, sales) ==
  LET report[i \in 0..Len(sales)] ==
        IF i = 0 THEN [lots |-> pending, cost |-> 0, failed |-> FALSE]
        ELSE FifoRow(report[i - 1], sales[i])
  IN report
TradeReport(s, sales) == ReportRows(PendingLots(lots[s]), sales)[Len(sales)]

\* What the ledger realized on the same sells when it booked them.
LedgerCost(sales) == Total([i \in DOMAIN sales |-> sales[i].basis])

-----------------------------------------------------------------------------
(* As long as all sells lie in one year, the report succeeds and gives them  *)
(* the cost that was realized when they were booked, though it starts from   *)
(* what was bought and replays the sells alone, while the ledger booked buys *)
(* and sells as the polls, restarts and dropped fills brought them           *)
(* (build_trade_report, _apply_sell).                                        *)
ReportMatchesLedger ==
  \A s \in Strategies : \A sales \in Sales(s, 0, clock + 1) :
    LET report == TradeReport(s, sales) IN
    ~report.failed /\ report.cost = LedgerCost(sales)

(* The report of the second year puts the cost on its sells that they had    *)
(* when they were booked: cost by FIFO over all sells, not of one year.      *)
SecondYearMatchesLedger ==
  \A s \in Strategies : \A sales \in Sales(s, NewYear, clock + 1) :
    LET report == TradeReport(s, sales) IN
    ~report.failed => report.cost = LedgerCost(sales)
=============================================================================
