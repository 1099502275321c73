----------------------------- MODULE FillLedger -----------------------------
(***************************************************************************)
(* What becomes of the fills of one ticker: the broker poll turns the      *)
(* broker's cumulative quantity and average price of an order into a fill  *)
(* of its own (execution/fill_ingestion.py), and FillProcessor books the   *)
(* fill into executions, the position and its lots, oldest lot first       *)
(* (execution/fill_processor.py).  Each strategy has its own position; the *)
(* account at the broker does not know strategies, only orders by number.  *)
(*                                                                         *)
(* Prices are multiples of every number of units, so that a mean price is  *)
(* an integer; cost stands for avg_cost * quantity.  OrderExecution models *)
(* the polls, cancels and failures around this.                            *)
(***************************************************************************)
EXTENDS Integers, Sequences, SequencesExt

CONSTANTS
  Strategies,       \* the strategies that trade the ticker
  Prices,           \* the prices of the fills
  MaxUnits,         \* bound: the units of all buy orders
  MaxOrders,        \* bound: orders at the broker, and order rows
  MaxStops,         \* bound: how often the process is stopped or dies
  RepeatedHints,    \* the broker orders all of whose fills have one number
  OrgnoInAnswer     \* the broker orders of which the submission told the orgno

ASSUME FillLedgerAssumption ==
  /\ {MaxUnits, MaxOrders, MaxStops} \subseteq Nat
  /\ RepeatedHints \subseteq Nat /\ OrgnoInAnswer \subseteq Nat
  /\ \A p \in Prices : p \in Nat \ {0} /\ \A n \in 1..MaxUnits : p % n = 0

Ids == 1..MaxOrders   \* Order.id, in the order of insertion

VARIABLES
  orders,      \* the order rows; number: kis_order_no; orgno: is kis_order_orgno
               \* there beside it?
  executions,  \* the executions of each order row; basis: realized_cost_basis
  lots,        \* the lots of each strategy, by opened_at
  position,    \* the position of each strategy
  book,        \* the orders at the broker, by number: filled quantity, filled
               \* quantity times price, and infm_tmd, the time of the last fill
  holdings,    \* the units in the account
  clock,
  fills,       \* the fills a poll has still to process
  degraded,    \* the writer queue
  running,     \* is the process up?
  stops

vars == <<orders, executions, lots, position, book, holdings, clock, fills, degraded,
          running, stops>>
brokerVars == <<book, holdings, clock>>
ledgerVars == <<executions, lots, position>>
processVars == <<running, stops>>

NoPosition == [quantity |-> 0, cost |-> 0, highest |-> 0]

Init ==
  /\ orders = <<>> /\ executions = [o \in Ids |-> <<>>]
  /\ lots = [s \in Strategies |-> <<>>]
  /\ position = [s \in Strategies |-> NoPosition]
  /\ book = <<>> /\ holdings = 0 /\ clock = 0
  /\ fills = <<>> /\ degraded = FALSE
  /\ running = TRUE /\ stops = 0

Active(o) == orders[o].status \in {"submitted", "partially_filled"}

NoActiveOrder(s) == \A o \in DOMAIN orders : Active(o) => orders[o].strategy # s

\* The sum of a sequence of numbers, and those of its beginnings.
Sums(seq) ==
  LET sum[i \in 0..Len(seq)] == IF i = 0 THEN 0 ELSE sum[i - 1] + seq[i]
  IN sum
Total(seq) == Sums(seq)[Len(seq)]

\* The broker books an order that has not filled yet.
Booking(side, n) == [side |-> side, quantity |-> n, filled |-> 0, amount |-> 0, at |-> 0]

\* An order as AutoTrader places it: a buy, or a sell of the whole position.
\* A cycle leaves out tickers that have an active order; only the cycle of
\* another strategy may have looked before that order was there.
UnitsBought ==
  Total([o \in DOMAIN orders |-> IF orders[o].side = "buy" THEN orders[o].quantity ELSE 0])

SubmitOrder(s, side, n) ==
  /\ Len(book) < MaxOrders /\ Len(orders) < MaxOrders /\ running /\ ~degraded
  /\ NoActiveOrder(s)
  /\ IF side = "buy" THEN UnitsBought + n <= MaxUnits ELSE n > 0 /\ n = position[s].quantity
  /\ orders' = Append(orders, [strategy |-> s, side |-> side, quantity |-> n,
                               status |-> "submitted", number |-> Len(book) + 1,
                               orgno |-> Len(book) + 1 \in OrgnoInAnswer])
  /\ book' = Append(book, Booking(side, n))
  /\ UNCHANGED <<ledgerVars, holdings, clock, fills, degraded, processVars>>

BrokerFill(n, p) ==
  /\ book[n].filled < book[n].quantity
  /\ book[n].side = "sell" => holdings > 0
  /\ book' = [book EXCEPT ![n].filled = @ + 1, ![n].amount = @ + p, ![n].at = clock + 1]
  /\ clock' = clock + 1
  /\ holdings' = IF book[n].side = "buy" THEN holdings + 1 ELSE holdings - 1
  /\ UNCHANGED <<orders, ledgerVars, fills, degraded, processVars>>

-----------------------------------------------------------------------------
(***************************************************************************)
(* collect_execution_fills().  Only the poll writes executions, so reading *)
(* them and asking the broker are one step here.                           *)
(***************************************************************************)
Quantities(entries) == [i \in DOMAIN entries |-> entries[i].quantity]
Amounts(entries) == [i \in DOMAIN entries |-> entries[i].quantity * entries[i].price]
FilledQuantity(o) == Total(Quantities(executions[o]))
FilledAmount(o) == Total(Amounts(executions[o]))

AtBroker(o) == book[orders[o].number]

\* _derive_delta_price(): what is left of the cumulative amount, or the
\* average price when nothing is.
AveragePrice(o, n) == AtBroker(o).amount \div AtBroker(o).filled  \* mutant
DeltaPrice(o, n) ==
  LET left == AtBroker(o).amount - FilledAmount(o) IN
  IF left > 0 THEN left \div n ELSE AtBroker(o).amount \div AtBroker(o).filled

\* _build_execution_no(): the broker's number, or one made of the order and
\* the count of its fills.
ExecutionNumber(o) ==
  IF orders[o].number \in RepeatedHints THEN <<"hint", orders[o].number, 0>>
  ELSE <<"poll", orders[o].number, Len(executions[o]) + 1>>

FillOf(o) ==
  LET n == AtBroker(o).filled - FilledQuantity(o) IN
  [no |-> ExecutionNumber(o), order |-> o, quantity |-> n, price |-> DeltaPrice(o, n),
   at |-> AtBroker(o).at]

HasNews(o) == Active(o) /\ AtBroker(o).filled > 0              \* mutant
HasFill(o) == Active(o) /\ AtBroker(o).filled > FilledQuantity(o)

\* In the order of their ids.
Due == {due \in SetToSeqs({o \in DOMAIN orders : HasFill(o)}) :
          \A i, j \in DOMAIN due : i < j => due[i] < due[j]}

CollectFills ==
  /\ fills = <<>> /\ running /\ ~degraded
  /\ \E due \in Due \ {<<>>} : fills' = [i \in DOMAIN due |-> FillOf(due[i])]
  /\ UNCHANGED <<orders, ledgerVars, brokerVars, degraded, processVars>>

-----------------------------------------------------------------------------
(***************************************************************************)
(* _process_fill(), one transaction.                                       *)
(***************************************************************************)
Added(queue, lot) ==
  LET older == {i \in DOMAIN queue : queue[i].at <= lot.at}
  IN InsertAt(queue, Cardinality(older) + 1, lot)

\* The lots after n units are taken from the oldest ones, and what the units
\* had cost.
Units(queue) == [i \in DOMAIN queue |-> queue[i].left]
Costs(queue) == [i \in DOMAIN queue |-> queue[i].left * queue[i].price]
LeftIn(queue) == Total(Units(queue))
CostOf(queue) == Total(Costs(queue))
NewestFirst(queue, n) ==                                      \* mutant
  [i \in DOMAIN queue |->
     LET after == LeftIn(SubSeq(queue, i + 1, Len(queue))) IN
     Min({queue[i].left, Max({n - after, 0})})]
Taken(queue, n) ==
  [i \in DOMAIN queue |->
     LET before == Sums(Units(queue))[i - 1] IN
     Min({queue[i].left, Max({n - before, 0})})]
Consumed(queue, n) ==
  [i \in DOMAIN queue |-> [queue[i] EXCEPT !.left = @ - Taken(queue, n)[i]]]
AverageBasis(queue, n) == n * (CostOf(queue) \div LeftIn(queue))  \* mutant
CostBasis(queue, n) ==
  Total([i \in DOMAIN queue |-> Taken(queue, n)[i] * queue[i].price])

LatestPrice(p, q) == q                                       \* mutant
Higher(p, q) == Max({p, q})

\* The tables a fill is booked in.
Ledger == [orders |-> orders, executions |-> executions, lots |-> lots, position |-> position]

\* An execution number that is known already: the fill is dropped.
IsDuplicate(l, f) == \E o \in Ids : \E i \in DOMAIN l.executions[o] : l.executions[o][i].no = f.no

\* _apply_buy(): highest_price starts at the price of the first fill and is
\* kept when the position is closed.
ApplyBuy(l, s, f) ==
  [l EXCEPT
     !.position[s] = [quantity |-> @.quantity + f.quantity,
                      cost |-> @.cost + f.price * f.quantity,
                      highest |-> Higher(@.highest, f.price)],
     !.lots[s] = Added(@, [at |-> f.at, price |-> f.price, open |-> f.quantity,
                           left |-> f.quantity])]

\* _apply_sell()
AverageCostLeft(queue, p, n) == p.cost - n * (p.cost \div p.quantity)  \* mutant
CostLeft(queue, p, n) == CostOf(queue)

ApplySell(l, s, f) ==
  LET rest == Consumed(l.lots[s], f.quantity)
      held == l.position[s]
      n == held.quantity - f.quantity
  IN
  [l EXCEPT
     !.position[s].quantity = Max({n, 0}),
     !.position[s].cost = IF n <= 0 THEN 0 ELSE CostLeft(rest, held, f.quantity),
     !.lots[s] = rest]

StatusAfter(order, n) == IF n >= order.quantity THEN "filled" ELSE "partially_filled"

\* The tables with the fill f booked.
Booked(l, f) ==
  LET o == f.order
      s == l.orders[o].strategy
      isBuy == l.orders[o].side = "buy"
      basis == IF isBuy THEN 0 ELSE CostBasis(l.lots[s], f.quantity)
      filled == Total(Quantities(l.executions[o])) + f.quantity
  IN
  [(IF isBuy THEN ApplyBuy(l, s, f) ELSE ApplySell(l, s, f)) EXCEPT
     !.executions[o] = Append(@, [no |-> f.no, quantity |-> f.quantity, price |-> f.price,
                                  at |-> f.at, basis |-> basis]),
     !.orders[o].status = StatusAfter(l.orders[o], filled)]

\* A sell without enough lots raises: the transaction is rolled back, the
\* queue degrades and the poll is given up.
Raises(l, f) ==
  l.orders[f.order].side = "sell" /\ LeftIn(l.lots[l.orders[f.order].strategy]) < f.quantity

SetLedger(l) ==
  /\ orders' = l.orders /\ executions' = l.executions
  /\ lots' = l.lots /\ position' = l.position

DropDuplicate ==
  /\ fills # <<>> /\ running /\ ~degraded
  /\ IsDuplicate(Ledger, Head(fills))
  /\ fills' = Tail(fills)
  /\ UNCHANGED <<orders, ledgerVars, brokerVars, degraded, processVars>>

ProcessFill ==
  /\ fills # <<>> /\ running /\ ~degraded
  /\ ~IsDuplicate(Ledger, Head(fills))
  /\ IF Raises(Ledger, Head(fills))
       THEN degraded' = TRUE /\ fills' = <<>> /\ UNCHANGED <<orders, ledgerVars>>
       ELSE SetLedger(Booked(Ledger, Head(fills))) /\ fills' = Tail(fills) /\ UNCHANGED degraded
  /\ UNCHANGED <<brokerVars, processVars>>

\* The process is stopped or dies; what it had in memory is gone.
Stop ==
  /\ running /\ stops < MaxStops
  /\ running' = FALSE /\ stops' = stops + 1
  /\ fills' = <<>> /\ degraded' = FALSE
  /\ UNCHANGED <<orders, ledgerVars, brokerVars>>

Start ==
  /\ ~running
  /\ running' = TRUE
  /\ UNCHANGED <<orders, ledgerVars, brokerVars, fills, degraded, stops>>

Next ==
  \/ \E s \in Strategies, side \in {"buy", "sell"}, n \in 1..MaxUnits :
       SubmitOrder(s, side, n)
  \/ \E n \in DOMAIN book, p \in Prices : BrokerFill(n, p)
  \/ CollectFills
  \/ DropDuplicate \/ ProcessFill
  \/ Stop \/ Start

Spec == Init /\ [][Next]_vars

-----------------------------------------------------------------------------
Numbers == {"poll", "hint", "manual"} \X Nat \X Nat

TypeOK ==
  /\ orders \in Seq([strategy : Strategies, side : {"buy", "sell"}, quantity : Nat \ {0},
                     status : {"submitted", "partially_filled", "filled"}, number : Nat \ {0},
                     orgno : BOOLEAN])
  /\ executions \in [Ids -> Seq([no : Numbers, quantity : Nat \ {0}, price : Nat \ {0},
                             at : Nat, basis : Nat])]
  /\ lots \in [Strategies -> Seq([at : Nat, price : Nat, open : Nat, left : Nat])]
  /\ position \in [Strategies -> [quantity : Nat, cost : Nat, highest : Nat]]
  /\ book \in Seq([side : {"buy", "sell"}, quantity : Nat \ {0}, filled : Nat, amount : Nat,
                   at : Nat])
  /\ {holdings, clock, stops} \subseteq Nat /\ {degraded, running} \subseteq BOOLEAN
  /\ \A i \in DOMAIN fills : fills[i].no \in Numbers /\ fills[i].quantity > 0

(* The lots of a strategy explain its position: their units are its quantity *)
(* and their cost is its average cost times its quantity, which _apply_buy   *)
(* updates step by step and _apply_sell computes anew from the lots.         *)
LotsExplainPosition ==
  \A s \in Strategies :
    /\ position[s].quantity = LeftIn(lots[s])
    /\ position[s].cost = CostOf(lots[s])

(* Lots are used up in the order of their acquisition: a lot that was        *)
(* touched by a sell has nothing left in front of it, though buys, sells,    *)
(* restarts and dropped fills alternate (_apply_sell, PositionLot.opened_at).*)
OldestLotFirst ==
  \A s \in Strategies : \A i, j \in DOMAIN lots[s] :
    i < j /\ lots[s][j].left < lots[s][j].open => lots[s][i].left = 0

(* The executions of an order that is filled add up to what the broker       *)
(* reports of it, in units and in money: the price of each fill is derived   *)
(* from two averages, and it is the executions that say what was paid.       *)
FilledMatchesBroker ==
  \A o \in DOMAIN orders :
    orders[o].status = "filled" /\ orders[o].quantity = AtBroker(o).quantity =>
      FilledQuantity(o) = AtBroker(o).filled /\ FilledAmount(o) = AtBroker(o).amount

IsOf(o, s, side) == orders[o].strategy = s /\ orders[o].side = side
UnitsFilled(s, side) ==
  Total([o \in DOMAIN orders |-> IF IsOf(o, s, side) THEN FilledQuantity(o) ELSE 0])
AmountPaid(s) ==
  Total([o \in DOMAIN orders |-> IF IsOf(o, s, "buy") THEN FilledAmount(o) ELSE 0])
RealizedCost(o) == Total([i \in DOMAIN executions[o] |-> executions[o][i].basis])
CostRealized(s) ==
  Total([o \in DOMAIN orders |-> IF IsOf(o, s, "sell") THEN RealizedCost(o) ELSE 0])

Opened(queue) == [i \in DOMAIN queue |-> queue[i].open]
Gone(queue) == [i \in DOMAIN queue |-> queue[i].open - queue[i].left]

(* The executions explain the lots, in units and in money: what the buys of  *)
(* a strategy brought in is in its lots, what its sells took out has left    *)
(* them, also when two strategies share the account, sells overlap and       *)
(* execution numbers repeat.                                                 *)
ExecutionsExplainLots ==
  \A s \in Strategies :
    /\ UnitsFilled(s, "buy") = Total(Opened(lots[s]))
    /\ UnitsFilled(s, "sell") = Total(Gone(lots[s]))
    /\ AmountPaid(s) = CostRealized(s) + CostOf(lots[s])

(* The price the trailing stop hangs on is not below what any unit still     *)
(* held was bought at, in whatever order buys at two prices and sells are    *)
(* processed (_apply_buy).                                                   *)
HighestCoversLots ==
  \A s \in Strategies : \A i \in DOMAIN lots[s] :
    lots[s][i].left > 0 => lots[s][i].price <= position[s].highest
=============================================================================
