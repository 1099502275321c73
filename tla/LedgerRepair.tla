---------------------------- MODULE LedgerRepair ----------------------------
(***************************************************************************)
(* scripts/repair_manual_fills.py on the ledger: the owner of the account  *)
(* sells units by hand at the broker, the process is stopped, an operator  *)
(* exports a broker snapshot, and the script replays the broker's sell     *)
(* fills that the strategy has no order for, as orders and fills of its    *)
(* own, if they are exactly what the position is ahead of the account.     *)
(*                                                                         *)
(* A refused repair raises before it writes anything and is no action.     *)
(***************************************************************************)
EXTENDS TaxReport

CONSTANTS
  MaxManual,        \* bound: the orders the owner places by hand
  OrgnoInReport     \* the broker orders whose rows in the daily fills have an orgno

ASSUME LedgerRepairAssumption == MaxManual \in Nat /\ OrgnoInReport \subseteq Nat

VARIABLES
  snapshot,    \* the units in the snapshot file
  manual,      \* history: the orders placed by hand
  repairs      \* history: the repairs made

repairVars == <<snapshot, manual, repairs>>

NoSnapshot == -1

RepairInit == Init /\ snapshot = NoSnapshot /\ manual = {} /\ repairs = {}

ManualSell(n) ==
  /\ Cardinality(manual) < MaxManual /\ Len(book) < MaxOrders
  /\ n <= holdings
  /\ book' = Append(book, Booking("sell", n))
  /\ manual' = manual \cup {Len(book) + 1}
  /\ UNCHANGED <<orders, ledgerVars, holdings, clock, fills, degraded, processVars,
                 snapshot, repairs>>

\* The runbook asks for a current snapshot, taken while the runtime is stopped.
TakeSnapshot ==
  /\ ~running /\ snapshot # holdings
  /\ snapshot' = holdings
  /\ UNCHANGED <<vars, manual, repairs>>

-----------------------------------------------------------------------------
(***************************************************************************)
(* _build_plan()                                                           *)
(***************************************************************************)
\* An order has two names, of which the first may be missing.
OrderKey(order) == <<order.orgno, order.number>>
ReportKey(n) == <<n \in OrgnoInReport, n>>

SellKeys(l, s) ==
  {OrderKey(l.orders[o]) : o \in {p \in DOMAIN l.orders :
                                    l.orders[p].strategy = s /\ l.orders[p].side = "sell"}}

\* _load_mirrored_order_keys(): whatever the status of the order.
NothingIsMirrored(s) == {}                                    \* mutant
MirroredOrderKeys(s) == SellKeys(Ledger, s)

\* _select_candidates(): the sell fills among the broker's orders of a trade
\* date, or of one order number; in the order of their time.
Candidates(s, first, last) ==
  {numbers \in SetToSeqs({n \in first..last : /\ book[n].side = "sell" /\ book[n].filled > 0
                                              /\ ReportKey(n) \notin MirroredOrderKeys(s)}) :
     \A i, j \in DOMAIN numbers : i < j => book[numbers[i]].at < book[numbers[j]].at}

Missing(s) == position[s].quantity - snapshot

\* The script's own reading of "active" has two more statuses, which no order
\* of this model gets.
MayRepair(s) == ~running /\ snapshot # NoSnapshot /\ Missing(s) > 0 /\ NoActiveOrder(s)

AtLeastTheGap(s, candidates) ==                               \* mutant
  Total([i \in DOMAIN candidates |-> book[candidates[i]].filled]) >= Missing(s)
FillsMatchGap(s, candidates) ==
  Total([i \in DOMAIN candidates |-> book[candidates[i]].filled]) = Missing(s)

-----------------------------------------------------------------------------
(***************************************************************************)
(* _apply_manual_fill_repairs(), one transaction.                          *)
(***************************************************************************)
\* _load_or_create_manual_order()
HasRow(l, s, n) == ReportKey(n) \in SellKeys(l, s)
WithRow(l, s, n) ==
  IF HasRow(l, s, n) THEN l
  ELSE [l EXCEPT !.orders = Append(@, [strategy |-> s, side |-> "sell", status |-> "submitted",
                                       quantity |-> book[n].filled, number |-> n,
                                       orgno |-> n \in OrgnoInReport])]

RowOf(l, s, n) ==
  CHOOSE o \in DOMAIN l.orders :
    l.orders[o].strategy = s /\ l.orders[o].side = "sell" /\ OrderKey(l.orders[o]) = ReportKey(n)

\* _build_execution_no(): another name than the poll gives to the same fill.
ManualFill(l, s, n) ==
  [no |-> <<"manual", n, book[n].filled>>, order |-> RowOf(l, s, n),
   quantity |-> book[n].filled, price |-> book[n].amount \div book[n].filled, at |-> book[n].at]

Replayed(s, l, n) ==
  LET m == WithRow(l, s, n)
      f == ManualFill(m, s, n)
  IN IF IsDuplicate(m, f) THEN m ELSE Booked(m, f)

\* The tables after the first candidates are replayed, by their number.
Replays(s, candidates) ==
  LET after[i \in 0..Len(candidates)] ==
        IF i = 0 THEN Ledger ELSE Replayed(s, after[i - 1], candidates[i])
  IN after

\* repair(apply=True); what follows the transaction are comparisons that raise
\* and rows of the audit trail.
Repair(s, candidates) ==
  /\ MayRepair(s)
  /\ candidates # <<>> /\ FillsMatchGap(s, candidates)
  /\ Len(orders) + Len(candidates) <= MaxOrders
  /\ SetLedger(Replays(s, candidates)[Len(candidates)])
  /\ repairs' = repairs \cup {s}
  /\ UNCHANGED <<brokerVars, fills, degraded, processVars, snapshot, manual>>

RepairNext ==
  \/ Next /\ snapshot' = (IF running' THEN NoSnapshot ELSE snapshot) /\ UNCHANGED <<manual, repairs>>
  \/ \E n \in 1..MaxUnits : ManualSell(n)
  \/ TakeSnapshot
  \/ \E s \in Strategies : \E first, last \in DOMAIN book :
       \E candidates \in Candidates(s, first, last) : Repair(s, candidates)

RepairSpec == RepairInit /\ [][RepairNext]_<<vars, repairVars>>

-----------------------------------------------------------------------------
Sold(n) == book[n].filled

(* The ledger never books more sold units than were sold at the broker,      *)
(* whichever strategy a repair books them for, whichever orders it selects,  *)
(* and whatever the polls read before and after (the gap in _build_plan).    *)
SalesNeverOverbooked ==
  Total([o \in DOMAIN orders |-> IF orders[o].side = "sell" THEN FilledQuantity(o) ELSE 0])
    <= Total([n \in DOMAIN book |-> IF book[n].side = "sell" THEN Sold(n) ELSE 0])

\* Is an order known under two keys, since one of the broker's two answers has
\* its orgno and the other does not?
HasTwoKeys(n) == (n \in OrgnoInAnswer) # (n \in OrgnoInReport)

(* A strategy books no sale twice, neither as its own order and again as a   *)
(* manual one nor in two repairs, although the repair gives the execution a  *)
(* number by which process_fill would not know it (_load_mirrored_order_keys).*)
(* The exception is its own order that has two keys: its sale may be booked  *)
(* once more.                                                                *)
NoSaleReplayed ==
  \A o \in DOMAIN orders :
    /\ FilledQuantity(o) <= AtBroker(o).filled
    /\ \A p \in DOMAIN orders :
         p # o /\ orders[p].strategy = orders[o].strategy /\ orders[p].number = orders[o].number =>
           HasTwoKeys(orders[o].number) /\ orders[p].orgno # orders[o].orgno
=============================================================================
