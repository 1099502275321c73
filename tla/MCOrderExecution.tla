------------------------- MODULE MCOrderExecution -------------------------
(***************************************************************************)
(* Small instances of OrderExecution: one cycle that buys or sells, and    *)
(* three cycles of two strategies that trade the same ticker.              *)
(***************************************************************************)
EXTENDS OrderExecution, TLC

CONSTANTS buy1, sell1, sell2, buy3, c1, c2, c3, s1, s2, ta

TwoStrategies == {s1, s2}
OneTicker == {ta}
SameTicker == [o \in Orders |-> ta]
SideByName == [o \in Orders |-> IF o \in {buy1, buy3} THEN "buy" ELSE "sell"]

\* One cycle of the first strategy, which buys what it does not hold.
OneCycle == {c1}
OneCycleOrders == {buy1, sell1}
OnlyCycle == [o \in Orders |-> c1]

\* Two cycles of the first strategy that sell, one of the second that buys.
ThreeCycles == {c1, c2, c3}
ThreeOrders == {sell1, sell2, buy3}
OwnCycle == [o \in Orders |-> CASE o = sell1 -> c1 [] o = sell2 -> c2 [] o = buy3 -> c3]

\* The two cycles of the first strategy do the same, each with its own order.
SellCycles ==
  {p \in Permutations({c1, c2, sell1, sell2}) :
     p[c1] \in {c1, c2} /\ p[sell1] = IF p[c1] = c1 THEN sell1 ELSE sell2}

FirstStrategyTwice == [c \in Cycles |-> IF c = c3 THEN s2 ELSE s1]
=============================================================================
