-------------------------- MODULE TradingDayProofs --------------------------
(***************************************************************************)
(* Proofs about TradingDay for any tickers, strategies, crons, prices and  *)
(* limits: over any number of days no exit is sent twice, and the intraday *)
(* strategy stays within its limits.  All of it rests on two facts: a      *)
(* strategy has at most one active order of a ticker, and what a running   *)
(* cycle has read still holds, but for the sells booked since.             *)
(***************************************************************************)
EXTENDS TradingDay, FiniteSetTheorems, TLAPS

(***************************************************************************)
(* Numbers.                                                                *)
(***************************************************************************)
\* A set of natural numbers has a least element: in the place of induction.
LEMMA LeastNatural ==
  ASSUME NEW T \in SUBSET Nat, T # {}
  PROVE \E x \in T : \A y \in T : x <= y
  <1> DEFINE U == {0..n : n \in T}
  <1>1. IsWellFoundedOn(StrictSubsetOrdering(Nat), FiniteSubsetsOf(Nat))
    BY FS_StrictSubsetOrderingWellFounded
  <1>2. U \subseteq FiniteSubsetsOf(Nat)
    <2>1. ASSUME NEW n \in T PROVE 0..n \in FiniteSubsetsOf(Nat)
      <3>1. n \in Int /\ 0 \in Int /\ 0..n \subseteq Nat
        OBVIOUS
      <3>2. IsFiniteSet(0..n)
        BY <3>1, FS_Interval
      <3> QED BY <3>1, <3>2 DEF FiniteSubsetsOf
    <2> QED BY <2>1
  <1>3. U # {}
    OBVIOUS
  <1>4. \E x \in U : \A y \in U : <<y, x>> \notin StrictSubsetOrdering(Nat)
    <2> HIDE DEF U
    <2> QED BY <1>1, <1>2, <1>3, WFMin
  <1>5. PICK m \in T : \A y \in T : <<0..y, 0..m>> \notin StrictSubsetOrdering(Nat)
    BY <1>4
  <1>6. ASSUME NEW y \in T, y < m PROVE FALSE
    <2>1. y \in Nat /\ m \in Nat
      OBVIOUS
    <2>2. 0..y \subseteq 0..m /\ 0..y \subseteq Nat /\ 0..m \subseteq Nat
      BY <1>6, <2>1
    <2>3. m \in 0..m /\ m \notin 0..y
      BY <1>6, <2>1
    <2>4. <<0..y, 0..m>> \in StrictSubsetOrdering(Nat)
      BY <2>2, <2>3 DEF StrictSubsetOrdering
    <2> QED BY <1>5, <2>4
  <1> QED BY <1>6

\* A set of indices has a greatest element.
LEMMA GreatestIndex ==
  ASSUME NEW n \in Nat, NEW T \in SUBSET (1..n), T # {}
  PROVE  \E x \in T : \A y \in T : y <= x
  <1> DEFINE D == {n - i : i \in T}
  <1>1. D \subseteq Nat /\ D # {}
    <2>1. ASSUME NEW i \in T PROVE n - i \in Nat
      OBVIOUS
    <2>2. PICK i \in T : TRUE
      OBVIOUS
    <2> QED
      BY <2>1, <2>2
  <1>2. PICK d \in D : \A e \in D : d <= e
    <2> HIDE DEF D
    <2> QED BY <1>1, LeastNatural
  <1>3. PICK x \in T : d = n - x
    OBVIOUS
  <1>4. ASSUME NEW y \in T PROVE y <= x
    <2>1. n - y \in D
      OBVIOUS
    <2> QED BY <1>2, <1>3, <2>1
  <1> QED BY <1>4

\* So has a finite set of natural numbers.
LEMMA GreatestNatural ==
  ASSUME NEW S \in SUBSET Nat, IsFiniteSet(S), S # {}
  PROVE  \E x \in S : \A y \in S : y <= x
  <1> DEFINE HasMax(Q) == \E x \in Q : \A y \in Q : y <= x
             U == {Q \in FiniteSubsetsOf(Nat) : Q # {} /\ ~HasMax(Q)}
  <1>1. IsWellFoundedOn(StrictSubsetOrdering(Nat), FiniteSubsetsOf(Nat))
    BY FS_StrictSubsetOrderingWellFounded
  <1>2. ASSUME U # {} PROVE FALSE
    <2>1. U \subseteq FiniteSubsetsOf(Nat)
      OBVIOUS
    <2>2. PICK Q \in U : \A R \in U : <<R, Q>> \notin StrictSubsetOrdering(Nat)
      <3> HIDE DEF U
      <3> QED BY <1>1, <1>2, <2>1, WFMin
    <2>3. Q \subseteq Nat /\ IsFiniteSet(Q) /\ Q # {} /\ ~HasMax(Q)
      BY DEF FiniteSubsetsOf
    <2>4. PICK x \in Q : TRUE
      BY <2>3
    <2> DEFINE R == Q \ {x}
    <2>5. R # {} 
      <3>1. ASSUME R = {} PROVE FALSE
        <4>1. \A y \in Q : y = x
          BY <3>1
        <4> QED BY <2>3, <2>4, <4>1
      <3> QED BY <3>1
    <2>6. R \in FiniteSubsetsOf(Nat)
      BY <2>3, FS_RemoveElement DEF FiniteSubsetsOf
    <2>7. <<R, Q>> \in StrictSubsetOrdering(Nat)
      BY <2>3, <2>4 DEF StrictSubsetOrdering
    <2>8. HasMax(R)
      BY <2>2, <2>5, <2>6, <2>7
    <2>9. PICK m \in R : \A y \in R : y <= m
      BY <2>8
    <2>10. m \in Nat /\ x \in Nat /\ m \in Q
      BY <2>3, <2>4
    <2>11. CASE x <= m
      BY <2>3, <2>9, <2>10, <2>11
    <2>12. CASE m < x
      <3>1. \A y \in Q : y <= x
        BY <2>3, <2>9, <2>10, <2>12
      <3> QED BY <2>3, <2>4, <3>1
    <2> QED BY <2>10, <2>11, <2>12
  <1>3. S \in FiniteSubsetsOf(Nat)
    BY DEF FiniteSubsetsOf
  <1> QED BY <1>2, <1>3

LEMMA LeastIsMin ==
  ASSUME NEW S \in SUBSET Nat, S # {}
  PROVE  Min(S) \in S /\ \A y \in S : Min(S) <= y
  BY LeastNatural DEF Min

-----------------------------------------------------------------------------
(***************************************************************************)
(* The parameters.                                                         *)
(***************************************************************************)
LEMMA DayConstants ==
  /\ Intraday \in Strategies /\ IsFiniteSet(Tickers)
  /\ {Open, Close, AuctionStart, PreClose, NoEntryBefore, NoEntryAfter, ForceExitTime,
      MaxEntries, MaxPositions, MaxOrders, MaxNotional, StockCap, SmallestPosition,
      SettledCash} \subseteq Nat
  /\ Minutes \subseteq Nat /\ Prices \subseteq Nat \ {0} /\ Scales \subseteq Nat \ {0}
  /\ \A s \in Strategies : Target[s] \in Nat
  BY TradingDayAssumption DEF TradingDayAssumption

\* The day has a first and a last minute, and goes on from any other one.
LEMMA MinutesGoOn ==
  /\ FirstMinute \in Minutes /\ LastMinute \in Minutes
  /\ \A m \in Minutes : m # LastMinute => MinuteAfter(m) \in Minutes /\ MinuteAfter(m) > m
  <1>1. Minutes \subseteq Nat /\ IsFiniteSet(Minutes) /\ Minutes # {}
    BY TradingDayAssumption DEF TradingDayAssumption
  <1>2. FirstMinute \in Minutes
    BY <1>1, LeastNatural DEF FirstMinute
  <1>3. LastMinute \in Minutes /\ \A n \in Minutes : n <= LastMinute
    BY <1>1, GreatestNatural DEF LastMinute
  <1>4. ASSUME NEW m \in Minutes, m # LastMinute
        PROVE  MinuteAfter(m) \in Minutes /\ MinuteAfter(m) > m
    <2> DEFINE after == {n \in Minutes : n > m}
    <2>1. after \subseteq Nat /\ LastMinute \in after
      <3>1. m \in Nat /\ LastMinute \in Nat /\ m <= LastMinute
        BY <1>1, <1>3
      <3>2. LastMinute > m
        BY <1>4, <3>1
      <3> QED
        BY <1>1, <1>3, <3>2
    <2>2. PICK n \in after : \A k \in after : n <= k
      <3> HIDE DEF after
      <3> QED
        BY <2>1, LeastNatural
    <2>3. n \in Minutes /\ n > m /\ \A k \in Minutes : k > m => n <= k
      BY <2>2
    <2> QED
      BY <2>3 DEF MinuteAfter
  <1> QED
    BY <1>2, <1>3, <1>4

LEMMA SizedQuantityType ==
  ASSUME NEW s \in Strategies, NEW price \in Prices, NEW terms \in Terms
  PROVE  SizedQuantity(s, price, terms) \in Nat
  <1>1. /\ terms.cash \in Nat /\ terms.scale \in Nat \ {0} /\ price \in Nat \ {0}
        /\ StockCap \in Nat /\ Target[s] \in Nat
    BY TradingDayAssumption, DayConstants DEF TradingDayAssumption, Terms
  <1> DEFINE a == (terms.cash * Target[s]) \div terms.scale
             b == terms.cash * StockCap
  <1>2. a \in Nat
    <2>1. terms.cash * Target[s] \in Nat
      BY <1>1
    <2> QED
      BY <1>1, <2>1
  <1>3. b \in Nat
    BY <1>1
  <1>4. Capped(s, terms) = Min({a, b})
    BY DEF Capped
  <1>5. Capped(s, terms) \in Nat
    <2> HIDE DEF a, b
    <2>1. {a, b} \subseteq Nat /\ {a, b} # {}
      BY <1>2, <1>3
    <2>2. Min({a, b}) \in {a, b}
      BY <2>1, LeastIsMin
    <2> QED
      BY <1>2, <1>3, <1>4, <2>2
  <1>6. Capped(s, terms) \div price \in Nat
    <2> HIDE DEF b
    <2> QED
      BY <1>1, <1>5
  <1>7. SizedQuantity(s, price, terms) \in {0, Capped(s, terms) \div price}
    BY DEF SizedQuantity
  <1> HIDE DEF a, b
  <1> QED
    BY <1>6, <1>7

-----------------------------------------------------------------------------
(***************************************************************************)
(* What holds between the cycles.                                          *)
(***************************************************************************)
\* open_order_exists is asked for the ticker, whoever the order is of; but the
\* cycles of two strategies may ask before either has sent its order.
OneOrderEach ==
  \A o, p \in orders : o.ticker = p.ticker /\ o.strategy = p.strategy => o = p

\* Until it is full a sell has what the position is still to lose.
SellsInv ==
  \A o \in orders : o.side = "sell" /\ ~o.stale => o.left <= position[o.strategy][o.ticker]

\* What a running cycle has read: positions shrink only by the sells booked
\* since, a ticker without an active order of the strategy gets none, and the
\* intraday strategy buys nothing unless one of its buys was open.
SeenInv ==
  \A s \in Strategies, t \in Tickers :
    stage[s] # "idle" /\ t \notin undercut[s] => seen[s][t] <= position[s][t]
BusyInv ==
  \A s \in Strategies, t \in Tickers :
    stage[s] = "guarded" /\ t \notin busy[s] =>
      \A o \in orders : ~(o.strategy = s /\ o.ticker = t)

\* The day's intraday buys of a ticker: those that got units, and the one that
\* may get some.  The guard counts all of them but the withdrawn ones.
IsBuyOfDay(o, t) == o.ticker = t /\ IsIntradayBuy(o)
HasBuy(t) == \E o \in orders : IsBuyOfDay(o, t)
HasUntouchedBuy(t) == \E o \in orders : IsBuyOfDay(o, t) /\ o.left = o.quantity
OneIf(b) == IF b THEN 1 ELSE 0

EntriesInv ==
  \A t \in Tickers :
    /\ bought[t] + OneIf(HasUntouchedBuy(t)) <= MaxEntries + withdrawn[t]
    /\ bought[t] + OneIf(HasUntouchedBuy(t)) <= entries[t] + OneIf(HasBuy(t)) + withdrawn[t]

\* What the intraday strategy holds or may come to hold.
OpenBuys == {o \in orders : IsIntradayBuy(o) /\ o.life = "open"}
HeldOrBought == Held(Intraday) \cup {o.ticker : o \in OpenBuys}
HeldInv ==
  ~overtaken =>
    /\ Cardinality(HeldOrBought) <= MaxPositions
    /\ stage[Intraday] # "idle" => OpenBuys = {} /\ Held(Intraday) \subseteq SeenHeld(Intraday)

LEMMA InitDay ==
  Init => TypeOK /\ OneOrderEach /\ SellsInv /\ SeenInv /\ BusyInv /\ EntriesInv /\ HeldInv
  <1> SUFFICES ASSUME Init
               PROVE  /\ TypeOK /\ OneOrderEach /\ SellsInv /\ SeenInv /\ BusyInv
                      /\ EntriesInv /\ HeldInv
    OBVIOUS
  <1> USE DayConstants DEF Init, NoEntries, Nothing
  <1>1. TypeOK
    BY MinutesGoOn DEF TypeOK
  <1>2. OneOrderEach /\ SellsInv /\ SeenInv /\ BusyInv
    BY DEF OneOrderEach, SellsInv, SeenInv, BusyInv
  <1>3. EntriesInv
    BY DEF EntriesInv, HasUntouchedBuy, HasBuy, OneIf
  <1>4. HeldInv
    <2>1. HeldOrBought = {}
      BY DEF HeldOrBought, Held, OpenBuys
    <2>2. Cardinality({}) = 0 /\ MaxPositions \in Nat
      BY FS_EmptySet
    <2> QED
      BY <2>1, <2>2 DEF HeldInv
  <1> QED
    BY <1>1, <1>2, <1>3, <1>4

-----------------------------------------------------------------------------
(***************************************************************************)
(* A cycle.                                                                *)
(***************************************************************************)
\* The resolver gives each ticker one signal.
LEMMA ResolvedIsInjective ==
  ASSUME NEW s \in Strategies, NEW generated \in Generated(s), NEW exits \in Exits(s),
         NEW resolved \in Resolved(generated, exits)
  PROVE  /\ \E n \in Nat : DOMAIN resolved = 1..n
         /\ \A i \in DOMAIN resolved :
              resolved[i] \in Tickers /\ resolved[i] \in Signalled(generated) \cup exits
         /\ \A i, j \in DOMAIN resolved : resolved[i] = resolved[j] => i = j
  <1> DEFINE all == Signalled(generated) \cup exits
             n == Cardinality(all)
  <1>1. all \subseteq Tickers
    BY DEF Signalled, Exits, SeenHeld
  <1>2. n \in Nat
    <2> HIDE DEF all
    <2> QED
      BY <1>1, DayConstants, FS_Subset, FS_CardinalityType
  <1>3. /\ resolved \in [1..n -> all]
        /\ \A i, j \in 1..n : i # j => resolved[i] # resolved[j]
    BY DEF Resolved, SetToSeqs
  <1> HIDE DEF n, all
  <1>4. DOMAIN resolved = 1..n /\ \A i \in 1..n : resolved[i] \in all
    BY <1>3
  <1> QED
    BY <1>1, <1>2, <1>3, <1>4 DEF all

\* The guard counts each intraday buy of the day once.
LEMMA GuardCounts ==
  ASSUME OneOrderEach, NEW t \in Tickers
  PROVE  CountEntries(t) = entries[t] + OneIf(HasBuy(t))
  <1> DEFINE A == {o \in orders : o.ticker = t /\ IsIntradayBuy(o)}
  <1>1. CASE HasBuy(t)
    <2>1. PICK o \in orders : IsBuyOfDay(o, t)
      BY <1>1 DEF HasBuy
    <2>2. A = {o}
      BY <2>1 DEF IsBuyOfDay, IsIntradayBuy, OneOrderEach
    <2>3. Cardinality(A) = 1
      BY <2>2, FS_Singleton
    <2> QED
      BY <1>1, <2>3 DEF CountEntries, OneIf
  <1>2. CASE ~HasBuy(t)
    <2>1. A = {}
      BY <1>2 DEF HasBuy, IsBuyOfDay
    <2>2. Cardinality(A) = 0
      BY <2>1, FS_EmptySet
    <2> QED
      BY <1>2, <2>2 DEF CountEntries, OneIf
  <1> QED
    BY <1>1, <1>2

\* What a cycle of a strategy may send.
MayBeSent(s, o) ==
  /\ o \in Order /\ o.strategy = s /\ o.left = o.quantity /\ o.quantity > 0
  /\ o.ticker \notin busy[s]
  /\ o.stale <=> o.ticker \in undercut[s]
  /\ o.side = "sell" => o.quantity = seen[s][o.ticker]
  /\ o.side = "buy" /\ s = Intraday => CountEntries(o.ticker) < MaxEntries

\* The candidates after which there is still room: the last buy among them was
\* judged after all the others.
LEMMA BuysFit ==
  ASSUME TypeOK, NEW n \in Nat, NEW resolved, DOMAIN resolved = 1..n,
         \A i \in 1..n : resolved[i] \in Tickers,
         \A i, j \in 1..n : resolved[i] = resolved[j] => i = j,
         NEW sells, NEW price, NEW terms \in Terms,
         NEW chosen \in Candidates(Intraday, resolved, sells, price, terms),
         chosen \ sells # {}
  PROVE  Cardinality(SeenHeld(Intraday) \cup (chosen \ sells)) <= MaxPositions
  <1>0. chosen \subseteq ToSet(resolved) /\ ToSet(resolved) = {resolved[i] : i \in 1..n}
    BY DEF Candidates, ToSet
  <1> DEFINE T == {i \in 1..n : resolved[i] \in chosen \ sells}
  <1>1. T \in SUBSET (1..n) /\ T # {}
    BY <1>0
  <1>2. PICK i \in T : \A j \in T : j <= i
    <2> HIDE DEF T
    <2> QED
      BY <1>1, GreatestIndex
  <1>3. i \in 1..n /\ resolved[i] \in chosen /\ resolved[i] \notin sells
    OBVIOUS
  <1> DEFINE before == (chosen \cap Earlier(resolved, i)) \ sells
  <1>4. PositionsLeft(before)
    <2>1. IsCandidate(Intraday, resolved[i], sells, price, terms, chosen \cap Earlier(resolved, i))
      BY <1>3 DEF Candidates
    <2> QED
      BY <1>3, <2>1 DEF IsCandidate, MayEnter
  <1>5. chosen \ sells = before \cup {resolved[i]}
    <2>1. ASSUME NEW t \in chosen \ sells, t # resolved[i] PROVE t \in Earlier(resolved, i)
      <3>1. PICK j \in 1..n : t = resolved[j]
        BY <1>0
      <3>2. j \in T
        BY <3>1
      <3>3. j <= i /\ j # i
        BY <1>2, <2>1, <3>1, <3>2
      <3>4. j \in 1..(i - 1)
        BY <1>3, <3>3
      <3> QED
        BY <3>1, <3>4 DEF Earlier
    <2> QED
      BY <1>3, <2>1
  <1>6. /\ SeenHeld(Intraday) \cup (chosen \ sells) = (SeenHeld(Intraday) \cup before) \cup {resolved[i]}
        /\ SeenHeld(Intraday) \cup before \subseteq Tickers
    BY <1>0, <1>5 DEF SeenHeld
  <1>7. IsFiniteSet(SeenHeld(Intraday) \cup before)
    BY <1>6, DayConstants, FS_Subset
  <1>8. /\ Cardinality(SeenHeld(Intraday) \cup before) \in Nat
        /\ Cardinality(SeenHeld(Intraday) \cup (chosen \ sells))
             <= Cardinality(SeenHeld(Intraday) \cup before) + 1
    <2> HIDE DEF before
    <2>1. Cardinality(SeenHeld(Intraday) \cup before) \in Nat
      BY <1>7, FS_CardinalityType
    <2>2. Cardinality((SeenHeld(Intraday) \cup before) \cup {resolved[i]}) =
            IF resolved[i] \in SeenHeld(Intraday) \cup before THEN Cardinality(SeenHeld(Intraday) \cup before)
            ELSE Cardinality(SeenHeld(Intraday) \cup before) + 1
      BY <1>7, FS_AddElement
    <2>3. Cardinality((SeenHeld(Intraday) \cup before) \cup {resolved[i]})
            <= Cardinality(SeenHeld(Intraday) \cup before) + 1
      BY <2>1, <2>2
    <2> QED
      BY <1>6, <2>1, <2>3
  <1>9. Cardinality(SeenHeld(Intraday) \cup before) < MaxPositions /\ MaxPositions \in Nat
    BY <1>4, DayConstants DEF PositionsLeft
  <1>10. Cardinality(SeenHeld(Intraday) \cup (chosen \ sells)) \in Nat
    <2>1. SeenHeld(Intraday) \cup (chosen \ sells) \subseteq Tickers
      BY <1>0 DEF SeenHeld
    <2>2. IsFiniteSet(SeenHeld(Intraday) \cup (chosen \ sells))
      BY <2>1, DayConstants, FS_Subset
    <2> QED
      BY <2>2, FS_CardinalityType
  <1> QED
    BY <1>8, <1>9, <1>10

\* What a cycle does to the orders.
Sendable(s, N) ==
  /\ \A o \in N : MayBeSent(s, o)
  /\ \A o, p \in N : o.ticker = p.ticker => o = p
  /\ s = Intraday /\ (\E o \in N : o.side = "buy") =>
       \E buys \in SUBSET Tickers :
         /\ \A o \in N : o.side = "buy" => o.ticker \in buys
         /\ Cardinality(SeenHeld(Intraday) \cup buys) <= MaxPositions

LEMMA CycleSends ==
  ASSUME TypeOK, NEW s \in Strategies, ExecuteCycle(s)
  PROVE  \E N : orders' = orders \cup N /\ Sendable(s, N)
  <1>1. PICK generated \in Generated(s), exits \in Exits(s) :
             \E resolved \in Resolved(generated, exits) :
             \E passed \in Passing(resolved), terms \in Terms :
             \E price \in [passed -> Prices] :
               \E chosen \in Candidates(s, resolved, Sells(generated, exits), price, terms) :
               \E answer \in [chosen -> Answers] :
               \E placed \in Placed(s, resolved, chosen, Sells(generated, exits), price, terms, answer) :
                 orders' = orders \cup
                   {NewOrder(s, t, Sells(generated, exits), price, terms, answer) : t \in placed}
    BY DEF ExecuteCycle
  <1> DEFINE sells == Sells(generated, exits)
  <1>2. PICK resolved \in Resolved(generated, exits) :
             \E passed \in Passing(resolved), terms \in Terms :
             \E price \in [passed -> Prices] :
               \E chosen \in Candidates(s, resolved, sells, price, terms) :
               \E answer \in [chosen -> Answers] :
               \E placed \in Placed(s, resolved, chosen, sells, price, terms, answer) :
                 orders' = orders \cup {NewOrder(s, t, sells, price, terms, answer) : t \in placed}
    BY <1>1
  <1>3. PICK passed \in Passing(resolved), terms \in Terms :
             \E price \in [passed -> Prices] :
               \E chosen \in Candidates(s, resolved, sells, price, terms) :
               \E answer \in [chosen -> Answers] :
               \E placed \in Placed(s, resolved, chosen, sells, price, terms, answer) :
                 orders' = orders \cup {NewOrder(s, t, sells, price, terms, answer) : t \in placed}
    BY <1>2
  <1>4. PICK price \in [passed -> Prices] :
               \E chosen \in Candidates(s, resolved, sells, price, terms) :
               \E answer \in [chosen -> Answers] :
               \E placed \in Placed(s, resolved, chosen, sells, price, terms, answer) :
                 orders' = orders \cup {NewOrder(s, t, sells, price, terms, answer) : t \in placed}
    BY <1>3
  <1>5. PICK chosen \in Candidates(s, resolved, sells, price, terms) :
               \E answer \in [chosen -> Answers] :
               \E placed \in Placed(s, resolved, chosen, sells, price, terms, answer) :
                 orders' = orders \cup {NewOrder(s, t, sells, price, terms, answer) : t \in placed}
    BY <1>4
  <1>6. PICK answer \in [chosen -> Answers] :
               \E placed \in Placed(s, resolved, chosen, sells, price, terms, answer) :
                 orders' = orders \cup {NewOrder(s, t, sells, price, terms, answer) : t \in placed}
    BY <1>5
  <1>7. PICK placed \in Placed(s, resolved, chosen, sells, price, terms, answer) :
                 orders' = orders \cup {NewOrder(s, t, sells, price, terms, answer) : t \in placed}
    BY <1>6
  <1> DEFINE Sent(t) == NewOrder(s, t, sells, price, terms, answer)
             N == {Sent(t) : t \in placed}
  <1>8. PICK n \in Nat : DOMAIN resolved = 1..n
    BY ResolvedIsInjective
  <1>9. /\ \A i \in 1..n : resolved[i] \in Tickers /\ resolved[i] \in Signalled(generated) \cup exits
        /\ \A i, j \in 1..n : resolved[i] = resolved[j] => i = j
    BY <1>8, ResolvedIsInjective
  <1>10. chosen \subseteq ToSet(resolved) /\ ToSet(resolved) = {resolved[i] : i \in 1..n}
    BY <1>8 DEF Candidates, ToSet
  <1>11. placed \subseteq chosen
    BY DEF Placed
  <1>12. ASSUME NEW t \in chosen
         PROVE  /\ t \in Tickers /\ t \in Signalled(generated) \cup exits
                /\ \E before \in SUBSET chosen : IsCandidate(s, t, sells, price, terms, before)
    <2>1. PICK i \in 1..n : t = resolved[i]
      BY <1>10
    <2>2. IsCandidate(s, resolved[i], sells, price, terms, chosen \cap Earlier(resolved, i))
      BY <1>8, <2>1 DEF Candidates
    <2> QED
      BY <1>9, <2>1, <2>2
  <1>13. ASSUME NEW t \in chosen PROVE MayBeSent(s, Sent(t))
    <2>1. PICK before \in SUBSET chosen : IsCandidate(s, t, sells, price, terms, before)
      BY <1>12
    <2>2. t \in Tickers /\ t \in DOMAIN price /\ price[t] \in Prices
      BY <1>12, <2>1 DEF IsCandidate
    <2>3. Quantity(s, t, sells, price, terms) \in Nat /\ Quantity(s, t, sells, price, terms) > 0
      <3>1. seen[s][t] \in Nat
        BY <2>2 DEF TypeOK
      <3>3. SizedQuantity(s, price[t], terms) \in Nat
        BY <2>2, SizedQuantityType
      <3> QED
        BY <2>1, <3>1, <3>3 DEF Quantity, IsCandidate
    <2>4. /\ Sent(t).ticker = t /\ Sent(t).strategy = s
          /\ Sent(t).quantity = Quantity(s, t, sells, price, terms)
          /\ Sent(t).left = Sent(t).quantity /\ Sent(t).life \in {"open", "stuck"}
          /\ Sent(t).stale = (t \in undercut[s])
          /\ Sent(t).side = IF t \in sells THEN "sell" ELSE "buy"
      BY DEF NewOrder
    <2>5. Sent(t) \in Order
      <3>1. Sent(t).side \in {"buy", "sell"} /\ Sent(t).life \in {"open", "stuck"}
        BY <2>4
      <3> QED
        BY <2>2, <2>3 DEF NewOrder, Order
    <2>6. t \notin busy[s]
      BY <2>1 DEF IsCandidate
    <2>7. ASSUME t \in sells PROVE MayBeSent(s, Sent(t))
      BY <2>3, <2>4, <2>5, <2>6, <2>7 DEF MayBeSent, Quantity
    <2>8. ASSUME t \notin sells PROVE MayBeSent(s, Sent(t))
      <3>1. s = Intraday => CountEntries(t) < MaxEntries
        BY <2>1, <2>8 DEF IsCandidate, MayEnter
      <3> HIDE DEF Sent
      <3> QED
        BY <2>3, <2>4, <2>5, <2>6, <2>8, <3>1 DEF MayBeSent
    <2> QED
      BY <2>7, <2>8
  <1>14. \A t \in chosen : Sent(t).ticker = t /\ (Sent(t).side = "buy" => t \notin sells)
    BY DEF NewOrder
  <1>15. ASSUME s = Intraday, NEW b \in N, b.side = "buy"
         PROVE  /\ \A o \in N : o.side = "buy" => o.ticker \in chosen \ sells
                /\ Cardinality(SeenHeld(Intraday) \cup (chosen \ sells)) <= MaxPositions
    <2>1. \A o \in N : o.side = "buy" => o.ticker \in chosen \ sells
      <3> HIDE DEF Sent
      <3> QED
        BY <1>11, <1>14
    <2>2. chosen \ sells # {}
      BY <1>15, <2>1
    <2>3. chosen \in Candidates(Intraday, resolved, sells, price, terms)
      BY <1>15
    <2> HIDE DEF sells, N
    <2> QED
      BY <1>8, <1>9, <2>1, <2>2, <2>3, BuysFit
  <1>16. chosen \ sells \in SUBSET Tickers
    BY <1>12
  <1>17. Sendable(s, N)
    <2>1. \A o \in N : MayBeSent(s, o)
      BY <1>11, <1>13
    <2>2. \A o, p \in N : o.ticker = p.ticker => o = p
      <3> HIDE DEF Sent
      <3> QED
        BY <1>11, <1>14
    <2> HIDE DEF N
    <2> QED
      BY <1>15, <1>16, <2>1, <2>2 DEF Sendable
  <1>18. orders' = orders \cup N
    BY <1>7
  <1> QED
    BY <1>17, <1>18

-----------------------------------------------------------------------------
(***************************************************************************)
(* A fill.                                                                 *)
(***************************************************************************)
OneUnitLess(o) == [o EXCEPT !.left = o.left - 1]
Change(o) == IF o.side = "buy" THEN 1 ELSE -1

LEMMA OrderFields ==
  ASSUME TypeOK, NEW o \in orders
  PROVE  /\ o.ticker \in Tickers /\ o.strategy \in Strategies /\ o.side \in {"buy", "sell"}
         /\ o.quantity \in Nat /\ o.left \in 1..o.quantity /\ o.left \in Nat
         /\ o.life \in {"open", "stuck"}
         /\ position[o.strategy][o.ticker] \in Nat
         /\ entries[o.ticker] \in Nat /\ bought[o.ticker] \in Nat
  <1>1. o \in Order
    BY DEF TypeOK
  <1>2. o.ticker \in Tickers /\ o.strategy \in Strategies /\ o.side \in {"buy", "sell"}
        /\ o.quantity \in Nat /\ o.life \in {"open", "stuck"} /\ o.left \in Nat
    BY <1>1 DEF Order
  <1> QED
    BY <1>2 DEF TypeOK

LEMMA LessOfOrder ==
  ASSUME TypeOK, NEW o \in orders
  PROVE  LET p == OneUnitLess(o) IN
         /\ p \in Order /\ p.left = o.left - 1 /\ p.ticker = o.ticker
         /\ p.strategy = o.strategy /\ p.side = o.side /\ p.quantity = o.quantity
         /\ p.life = o.life /\ p.stale = o.stale
  <1>1. o \in Order /\ o.left \in 1..o.quantity /\ o.quantity \in Nat
    BY OrderFields DEF TypeOK
  <1>2. o.left - 1 \in Nat
    BY <1>1
  <1> QED
    BY <1>1, <1>2 DEF Order, OneUnitLess

LEMMA FillEffect ==
  ASSUME TypeOK, NEW o \in orders, Fill(o)
  PROVE  /\ o.life = "open" /\ (o.side = "sell" => position[o.strategy][o.ticker] > 0)
         /\ UNCHANGED <<now, fired, leftOver, overtaken, stage, seen, busy, withdrawn>>
         /\ undercut' \in [Strategies -> SUBSET Tickers]
         /\ \A s \in Strategies, t \in Tickers :
              t \notin undercut'[s] =>
                /\ t \notin undercut[s]
                /\ ~(s = o.strategy /\ t = o.ticker /\ o.side = "sell" /\ stage[s] # "idle")
         /\ orders' = IF o.left = 1 THEN orders \ {o} ELSE (orders \ {o}) \cup {OneUnitLess(o)}
         /\ position' \in [Strategies -> [Tickers -> Int]]
         /\ \A s \in Strategies, t \in Tickers :
              position'[s][t] = IF s = o.strategy /\ t = o.ticker
                                THEN position[s][t] + Change(o) ELSE position[s][t]
         /\ entries' \in [Tickers -> Nat] /\ bought' \in [Tickers -> Nat]
         /\ \A t \in Tickers :
              /\ entries'[t] = IF t = o.ticker /\ o.left = 1 /\ IsIntradayBuy(o)
                               THEN entries[t] + 1 ELSE entries[t]
              /\ bought'[t] = IF t = o.ticker /\ o.left = o.quantity /\ IsIntradayBuy(o)
                              THEN bought[t] + 1 ELSE bought[t]
  <1> DEFINE counts == IF IsIntradayBuy(o) THEN 1 ELSE 0
  <1>1. o.ticker \in Tickers /\ o.strategy \in Strategies /\ o.left \in Nat
    BY OrderFields
  <1>2. /\ o.life = "open" /\ (o.side = "sell" => position[o.strategy][o.ticker] > 0)
        /\ UNCHANGED <<now, fired, leftOver, overtaken, stage, seen, busy, withdrawn>>
    BY DEF Fill, MaySell
  <1>3. orders' = IF o.left = 1 THEN orders \ {o} ELSE (orders \ {o}) \cup {OneUnitLess(o)}
    BY DEF Fill, OneUnitLess
  <1>4. position' = [position EXCEPT ![o.strategy][o.ticker] = @ + Change(o)]
    BY DEF Fill, Change
  <1>5. entries' = [entries EXCEPT ![o.ticker] = IF o.left = 1 THEN @ + counts ELSE @]
        /\ bought' = [bought EXCEPT ![o.ticker] = IF o.left = o.quantity THEN @ + counts ELSE @]
    BY DEF Fill
  <1>6. position \in [Strategies -> [Tickers -> Int]] /\ Change(o) \in Int
        /\ entries \in [Tickers -> Nat] /\ bought \in [Tickers -> Nat]
        /\ undercut \in [Strategies -> SUBSET Tickers]
    BY DEF TypeOK, Change
  <1>7. counts \in Nat /\ counts = IF IsIntradayBuy(o) THEN 1 ELSE 0
    OBVIOUS
  <1>8. position' \in [Strategies -> [Tickers -> Int]]
        /\ \A s \in Strategies, t \in Tickers :
             position'[s][t] = IF s = o.strategy /\ t = o.ticker
                               THEN position[s][t] + Change(o) ELSE position[s][t]
    BY <1>1, <1>4, <1>6
  <1> HIDE DEF counts
  <1>9. entries' \in [Tickers -> Nat] /\ bought' \in [Tickers -> Nat]
    BY <1>1, <1>5, <1>6, <1>7
  <1>10. \A t \in Tickers :
           /\ entries'[t] = IF t = o.ticker /\ o.left = 1 THEN entries[t] + counts ELSE entries[t]
           /\ bought'[t] = IF t = o.ticker /\ o.left = o.quantity THEN bought[t] + counts ELSE bought[t]
    BY <1>1, <1>5, <1>6
  <1>11. \A t \in Tickers : entries[t] \in Nat /\ bought[t] \in Nat
    BY <1>6
  <1>12. \A t \in Tickers :
              /\ entries'[t] = IF t = o.ticker /\ o.left = 1 /\ IsIntradayBuy(o)
                               THEN entries[t] + 1 ELSE entries[t]
              /\ bought'[t] = IF t = o.ticker /\ o.left = o.quantity /\ IsIntradayBuy(o)
                              THEN bought[t] + 1 ELSE bought[t]
    BY <1>7, <1>10, <1>11
  <1>13. undercut' = [undercut EXCEPT ![o.strategy] =
                       IF o.side = "sell" /\ stage[o.strategy] # "idle" THEN @ \cup {o.ticker} ELSE @]
    BY DEF Fill
  <1>14. /\ undercut' \in [Strategies -> SUBSET Tickers]
         /\ \A s \in Strategies, t \in Tickers :
              t \notin undercut'[s] =>
                /\ t \notin undercut[s]
                /\ ~(s = o.strategy /\ t = o.ticker /\ o.side = "sell" /\ stage[s] # "idle")
    BY <1>1, <1>6, <1>13
  <1> QED
    BY <1>2, <1>3, <1>8, <1>9, <1>12, <1>14

\* Every order after a fill was there before, with one unit more at most.
LEMMA OrdersAfterFill ==
  ASSUME TypeOK, NEW o \in orders, Fill(o), NEW p \in orders'
  PROVE  \/ p \in orders /\ p # o
         \/ o.left > 1 /\ p = OneUnitLess(o)
  <1>1. o.left \in Nat /\ o.left \in 1..o.quantity /\ o.quantity \in Nat
    BY OrderFields
  <1> QED
    BY <1>1, FillEffect

-----------------------------------------------------------------------------
(***************************************************************************)
(* Every step keeps the types, one order for a strategy and ticker, the    *)
(* units that are still to go, and the worth of what a cycle has read.     *)
(***************************************************************************)
UnitsInv == TypeOK /\ OneOrderEach /\ SellsInv /\ SeenInv /\ BusyInv

LEMMA LoadPositionsKeepsUnits ==
  ASSUME UnitsInv, NEW s \in Strategies, LoadPositions(s)
  PROVE  UnitsInv'
  <1> USE DEF UnitsInv
  <1>1. /\ UNCHANGED <<now, position, orders, leftOver, busy, undercut, entries, bought, withdrawn>>
        /\ fired' = fired \cup {s} /\ stage' = [stage EXCEPT ![s] = "loaded"]
        /\ seen' = [seen EXCEPT ![s] = position[s]] /\ overtaken' \in BOOLEAN
    BY DEF LoadPositions, dayVars, TypeOK
  <1>2. TypeOK'
    BY <1>1 DEF TypeOK
  <1>3. OneOrderEach' /\ SellsInv'
    BY <1>1 DEF OneOrderEach, SellsInv
  <1>4. \A u \in Strategies : /\ stage'[u] = IF u = s THEN "loaded" ELSE stage[u]
                              /\ seen'[u] = IF u = s THEN position[s] ELSE seen[u]
    BY <1>1 DEF TypeOK
  <1>5. SeenInv'
    <2>1. \A t \in Tickers : position[s][t] <= position[s][t]
      BY DEF TypeOK
    <2> QED
      BY <1>1, <1>4, <2>1 DEF SeenInv
  <1>6. BusyInv'
    BY <1>1, <1>4 DEF BusyInv
  <1> QED
    BY <1>2, <1>3, <1>5, <1>6

LEMMA LoadOrdersKeepsUnits ==
  ASSUME UnitsInv, NEW s \in Strategies, LoadOpenOrderTickers(s)
  PROVE  UnitsInv'
  <1> USE DEF UnitsInv
  <1>1. /\ UNCHANGED <<now, fired, position, orders, leftOver, overtaken, seen, undercut,
                       entries, bought, withdrawn>>
        /\ stage[s] = "loaded" /\ stage' = [stage EXCEPT ![s] = "guarded"]
        /\ busy' = [busy EXCEPT ![s] = {t \in Tickers : HasActiveOrder(t)}]
    BY DEF LoadOpenOrderTickers, dayVars
  <1>2. TypeOK'
    BY <1>1 DEF TypeOK
  <1>3. OneOrderEach' /\ SellsInv'
    BY <1>1 DEF OneOrderEach, SellsInv
  <1>4. \A u \in Strategies :
          /\ stage'[u] = IF u = s THEN "guarded" ELSE stage[u]
          /\ busy'[u] = IF u = s THEN {t \in Tickers : HasActiveOrder(t)} ELSE busy[u]
    BY <1>1 DEF TypeOK
  <1>5. SeenInv'
    BY <1>1, <1>4 DEF SeenInv
  <1>6. BusyInv'
    <2>1. ASSUME NEW u \in Strategies, NEW t \in Tickers, stage'[u] = "guarded", t \notin busy'[u],
                 NEW o \in orders
          PROVE  ~(o.strategy = u /\ o.ticker = t)
      <3>1. CASE u = s
        <4>1. ~HasActiveOrder(t)
          BY <1>4, <2>1, <3>1
        <4> QED
          BY <4>1 DEF HasActiveOrder
      <3>2. CASE u # s
        <4>1. stage[u] = "guarded" /\ t \notin busy[u]
          BY <1>4, <2>1, <3>2
        <4> QED
          BY <4>1 DEF BusyInv
      <3> QED
        BY <3>1, <3>2
    <2> QED
      BY <1>1, <2>1 DEF BusyInv
  <1> QED
    BY <1>2, <1>3, <1>5, <1>6

LEMMA ExecuteKeepsUnits ==
  ASSUME UnitsInv, NEW s \in Strategies, ExecuteCycle(s)
  PROVE  UnitsInv'
  <1> USE DEF UnitsInv
  <1>1. PICK N : orders' = orders \cup N /\ Sendable(s, N)
    BY CycleSends
  <1>2. /\ UNCHANGED <<now, fired, position, leftOver, overtaken, entries, bought, withdrawn>>
        /\ stage[s] = "guarded" /\ stage' = [stage EXCEPT ![s] = "idle"]
        /\ seen' = [seen EXCEPT ![s] = Nothing] /\ busy' = [busy EXCEPT ![s] = {}]
        /\ undercut' = [undercut EXCEPT ![s] = {}]
    BY DEF ExecuteCycle, dayVars
  <1>3. ASSUME NEW o \in N PROVE MayBeSent(s, o)
    BY <1>1 DEF Sendable
  <1>4. ASSUME NEW o \in N
        PROVE  /\ o \in Order /\ o.left \in 1..o.quantity
               /\ o.strategy = s /\ o.ticker \in Tickers /\ o.left = o.quantity
               /\ \A p \in orders : ~(p.strategy = s /\ p.ticker = o.ticker)
               /\ o.side = "sell" /\ ~o.stale => o.left <= position[s][o.ticker]
    <2>1. o \in Order /\ o.left = o.quantity /\ o.quantity > 0 /\ o.strategy = s
      BY <1>3 DEF MayBeSent
    <2>2. o.quantity \in Nat /\ o.ticker \in Tickers
      BY <2>1 DEF Order
    <2>3. o.left \in 1..o.quantity
      BY <2>1, <2>2
    <2>4. \A p \in orders : ~(p.strategy = s /\ p.ticker = o.ticker)
      BY <1>2, <1>3, <2>2 DEF MayBeSent, BusyInv
    <2>5. ASSUME o.side = "sell", ~o.stale PROVE o.left <= position[s][o.ticker]
      <3>1. o.ticker \notin undercut[s] /\ o.quantity = seen[s][o.ticker]
        BY <1>3, <2>5 DEF MayBeSent
      <3>2. seen[s][o.ticker] <= position[s][o.ticker]
        BY <1>2, <2>2, <3>1 DEF SeenInv
      <3> QED
        BY <2>1, <3>1, <3>2
    <2> QED
      BY <2>1, <2>2, <2>3, <2>4, <2>5
  <1>5. TypeOK'
    <2>1. /\ stage' \in [Strategies -> {"idle", "loaded", "guarded"}]
          /\ seen' \in [Strategies -> [Tickers -> Nat]]
          /\ busy' \in [Strategies -> SUBSET Tickers] /\ undercut' \in [Strategies -> SUBSET Tickers]
      BY <1>2 DEF TypeOK, Nothing
    <2>2. orders' \subseteq Order /\ \A o \in orders' : o.left \in 1..o.quantity
      BY <1>1, <1>4 DEF TypeOK
    <2> QED
      BY <1>2, <2>1, <2>2 DEF TypeOK
  <1>6. OneOrderEach'
    <2>1. \A o, p \in N : o.ticker = p.ticker => o = p
      BY <1>1 DEF Sendable
    <2> QED
      BY <1>1, <1>4, <2>1 DEF OneOrderEach
  <1>7. SellsInv'
    <2>1. ASSUME NEW o \in orders', o.side = "sell", ~o.stale
          PROVE  o.left <= position[o.strategy][o.ticker]
      BY <1>1, <1>4, <2>1 DEF SellsInv
    <2> QED
      BY <1>2, <2>1 DEF SellsInv
  <1>8. \A u \in Strategies :
          /\ stage'[u] = IF u = s THEN "idle" ELSE stage[u]
          /\ u # s => seen'[u] = seen[u] /\ busy'[u] = busy[u] /\ undercut'[u] = undercut[u]
    BY <1>2 DEF TypeOK
  <1>9. SeenInv'
    BY <1>2, <1>8 DEF SeenInv
  <1>10. BusyInv'
    <2>1. ASSUME NEW u \in Strategies, NEW t \in Tickers, stage'[u] = "guarded", t \notin busy'[u],
                 NEW o \in orders', o.strategy = u, o.ticker = t
          PROVE  FALSE
      <3>1. u # s /\ stage[u] = "guarded" /\ t \notin busy[u]
        BY <1>8, <2>1
      <3>2. o \in orders
        BY <1>1, <1>4, <2>1, <3>1
      <3> QED
        BY <2>1, <3>1, <3>2 DEF BusyInv
    <2> QED
      BY <2>1 DEF BusyInv
  <1> QED
    BY <1>5, <1>6, <1>7, <1>9, <1>10

LEMMA FillKeepsUnits ==
  ASSUME UnitsInv, NEW o \in orders, Fill(o)
  PROVE  UnitsInv'
  <1> USE DEF UnitsInv
  <1>1. /\ o.ticker \in Tickers /\ o.strategy \in Strategies /\ o.side \in {"buy", "sell"}
        /\ o.quantity \in Nat /\ o.left \in 1..o.quantity /\ o.left \in Nat
        /\ position[o.strategy][o.ticker] \in Nat /\ o.left >= 1
    BY OrderFields
  <1>2. ASSUME NEW p \in orders'
        PROVE  (p \in orders /\ p # o) \/ (o.left > 1 /\ p = OneUnitLess(o))
    BY OrdersAfterFill
  <1>3. ASSUME NEW p \in orders, p # o PROVE ~(p.strategy = o.strategy /\ p.ticker = o.ticker)
    BY <1>3 DEF OneOrderEach
  <1>4. /\ OneUnitLess(o) \in Order /\ OneUnitLess(o).left = o.left - 1
        /\ OneUnitLess(o).ticker = o.ticker /\ OneUnitLess(o).strategy = o.strategy
        /\ OneUnitLess(o).side = o.side /\ OneUnitLess(o).quantity = o.quantity
        /\ OneUnitLess(o).stale = o.stale
    BY LessOfOrder
  <1>5. \A u \in Strategies, t \in Tickers :
              position'[u][t] = IF u = o.strategy /\ t = o.ticker
                                THEN position[u][t] + Change(o) ELSE position[u][t]
    BY FillEffect
  <1>6. o.side = "sell" => position[o.strategy][o.ticker] > 0
    BY FillEffect
  <1>7. \A u \in Strategies, t \in Tickers : position[u][t] \in Nat
    BY DEF TypeOK
  <1>8. \A u \in Strategies, t \in Tickers : position'[u][t] \in Nat
    <2>1. position[o.strategy][o.ticker] + Change(o) \in Nat
      BY <1>1, <1>6 DEF Change
    <2> QED
      BY <1>5, <1>7, <2>1
  <1>9. TypeOK'
    <2>1. \A p \in orders' : p \in Order /\ p.left \in 1..p.quantity
      <3>1. ASSUME NEW p \in orders', p \in orders PROVE p \in Order /\ p.left \in 1..p.quantity
        BY <3>1 DEF TypeOK
      <3>2. o.left > 1 => OneUnitLess(o).left \in 1..OneUnitLess(o).quantity
        BY <1>1, <1>4
      <3> QED
        BY <1>2, <1>4, <3>1, <3>2
    <2>2. position' \in [Strategies -> [Tickers -> Nat]]
      <3>1. position' \in [Strategies -> [Tickers -> Int]]
        BY FillEffect
      <3> QED
        BY <1>8, <3>1
    <2> QED
      BY <2>1, <2>2, FillEffect DEF TypeOK
  <1>10. OneOrderEach'
    BY <1>2, <1>3, <1>4 DEF OneOrderEach
  <1>11. SellsInv'
    <2>1. ASSUME NEW p \in orders', p.side = "sell", ~p.stale
          PROVE  p.left <= position'[p.strategy][p.ticker]
      <3>1. CASE p \in orders /\ p # o
        <4>1. /\ ~(p.strategy = o.strategy /\ p.ticker = o.ticker)
              /\ p.ticker \in Tickers /\ p.strategy \in Strategies
          BY <1>3, <3>1, OrderFields
        <4>2. p.left <= position[p.strategy][p.ticker]
          BY <2>1, <3>1 DEF SellsInv
        <4> QED
          BY <1>5, <4>1, <4>2
      <3>2. CASE o.left > 1 /\ p = OneUnitLess(o)
        <4>1. /\ p.left = o.left - 1 /\ p.ticker = o.ticker /\ p.strategy = o.strategy
              /\ o.side = "sell" /\ ~o.stale
          BY <1>4, <2>1, <3>2
        <4>2. position'[o.strategy][o.ticker] = position[o.strategy][o.ticker] - 1
          BY <1>1, <1>5, <4>1 DEF Change
        <4>3. o.left <= position[o.strategy][o.ticker]
          BY <4>1 DEF SellsInv
        <4> QED
          BY <1>1, <4>1, <4>2, <4>3
      <3> QED
        BY <1>2, <3>1, <3>2
    <2> QED
      BY <2>1 DEF SellsInv
  <1>12. SeenInv'
    <2>1. stage' = stage /\ seen' = seen
      BY FillEffect
    <2>2. ASSUME NEW u \in Strategies, NEW t \in Tickers, stage[u] # "idle", t \notin undercut'[u]
          PROVE  seen[u][t] <= position'[u][t]
      <3>1. /\ t \notin undercut[u]
            /\ ~(u = o.strategy /\ t = o.ticker /\ o.side = "sell" /\ stage[u] # "idle")
        BY <2>2, FillEffect
      <3>2. seen[u][t] <= position[u][t] /\ seen[u][t] \in Nat /\ position[u][t] \in Nat
        BY <2>2, <3>1 DEF SeenInv, TypeOK
      <3>3. CASE u = o.strategy /\ t = o.ticker
        <4>1. position'[u][t] = position[u][t] + 1
          BY <1>1, <1>5, <2>2, <3>1, <3>3 DEF Change
        <4> QED
          BY <3>2, <4>1
      <3>4. CASE ~(u = o.strategy /\ t = o.ticker)
        BY <1>5, <3>2, <3>4
      <3> QED
        BY <3>3, <3>4
    <2> QED
      BY <2>1, <2>2 DEF SeenInv
  <1>13. BusyInv'
    <2>1. stage' = stage /\ busy' = busy
      BY FillEffect
    <2>2. \A p \in orders' : \E q \in orders : p.strategy = q.strategy /\ p.ticker = q.ticker
      BY <1>2, <1>4
    <2> QED
      BY <2>1, <2>2 DEF BusyInv
  <1> QED
    BY <1>9, <1>10, <1>11, <1>12, <1>13

\* A cancel withdraws at most one buy of a ticker, and counts it.
LEMMA CancelWithdraws ==
  ASSUME TypeOK, OneOrderEach, PreCloseCancel
  PROVE  /\ withdrawn' \in [Tickers -> Nat]
         /\ \A t \in Tickers :
              withdrawn'[t] = withdrawn[t] + OneIf(HasBuy(t) /\ ~HasUntouchedBuy(t) /\ ~HasBuy(t)')
  <1>1. PICK cancelled \in SUBSET {o \in orders : o.life = "open"} :
          /\ orders' = orders \ cancelled
          /\ withdrawn' = [t \in Tickers |-> withdrawn[t] + Cardinality(
                             {o \in cancelled : o.ticker = t /\ IsIntradayBuy(o) /\ o.left < o.quantity})]
    BY DEF PreCloseCancel
  <1>2. ASSUME NEW t \in Tickers
        PROVE  Cardinality({o \in cancelled : o.ticker = t /\ IsIntradayBuy(o) /\ o.left < o.quantity})
                 = OneIf(HasBuy(t) /\ ~HasUntouchedBuy(t) /\ ~HasBuy(t)')
    <2> DEFINE A == {o \in cancelled : o.ticker = t /\ IsIntradayBuy(o) /\ o.left < o.quantity}
    <2>1. ASSUME NEW o \in orders, IsBuyOfDay(o, t), NEW p \in orders, IsBuyOfDay(p, t) PROVE o = p
      BY <2>1 DEF IsBuyOfDay, IsIntradayBuy, OneOrderEach
    <2>2. ASSUME NEW o \in orders PROVE o.left < o.quantity <=> o.left # o.quantity
      <3>1. o.left \in 1..o.quantity /\ o.quantity \in Nat
        BY OrderFields
      <3> QED
        BY <3>1
    <2>3. CASE A = {}
      <3>1. ASSUME NEW o \in orders, IsBuyOfDay(o, t), o.left # o.quantity PROVE o \in orders'
        BY <1>1, <2>2, <2>3, <3>1 DEF IsBuyOfDay
      <3>2. ~(HasBuy(t) /\ ~HasUntouchedBuy(t) /\ ~HasBuy(t)')
        BY <3>1 DEF HasBuy, HasUntouchedBuy, IsBuyOfDay, IsIntradayBuy
      <3>3. Cardinality(A) = 0
        BY <2>3, FS_EmptySet
      <3> QED
        BY <3>2, <3>3 DEF OneIf
    <2>4. CASE A # {}
      <3>1. PICK o \in A : TRUE
        BY <2>4
      <3>2. o \in orders /\ IsBuyOfDay(o, t) /\ o.left # o.quantity /\ o \notin orders'
        BY <1>1, <2>2, <3>1 DEF IsBuyOfDay
      <3>3. \A p \in A : p \in orders /\ IsBuyOfDay(p, t)
        BY DEF IsBuyOfDay
      <3>4. A = {o}
        BY <2>1, <3>1, <3>2, <3>3
      <3>5. HasBuy(t) /\ ~HasUntouchedBuy(t)
        BY <2>1, <3>2 DEF HasBuy, HasUntouchedBuy
      <3>6. orders' \subseteq orders
        BY <1>1
      <3>7. ~HasBuy(t)'
        BY <2>1, <3>2, <3>6 DEF HasBuy, IsBuyOfDay, IsIntradayBuy
      <3> HIDE DEF A
      <3>8. Cardinality(A) = 1
        BY <3>4, FS_Singleton
      <3> QED
        BY <3>5, <3>7, <3>8 DEF A, OneIf
    <2> QED
      BY <2>3, <2>4
  <1>3. \A t \in Tickers :
          withdrawn'[t] = withdrawn[t] + OneIf(HasBuy(t) /\ ~HasUntouchedBuy(t) /\ ~HasBuy(t)')
    BY <1>1, <1>2
  <1>4. withdrawn' \in [Tickers -> Nat]
    <2>1. \A t \in Tickers : withdrawn[t] \in Nat
      BY DEF TypeOK
    <2>2. \A t \in Tickers : withdrawn'[t] \in Nat
      BY <1>3, <2>1 DEF OneIf
    <2> QED
      BY <1>1, <2>2
  <1> QED
    BY <1>3, <1>4

LEMMA OtherStepsKeepUnits ==
  ASSUME UnitsInv, PreCloseCancel \/ Tick \/ NextDay \/ UNCHANGED vars
  PROVE  UnitsInv'
  <1> USE DEF UnitsInv
  <1>1. UNCHANGED <<stage, seen, busy, undercut, position, overtaken>> /\ orders' \subseteq orders
    BY DEF PreCloseCancel, Tick, NextDay, vars, cycleVars
  <1>2. OneOrderEach' /\ SellsInv' /\ SeenInv' /\ BusyInv'
    BY <1>1 DEF OneOrderEach, SellsInv, SeenInv, BusyInv
  <1>3. now' \in Minutes /\ fired' \subseteq Strategies
    <2>1. CASE PreCloseCancel \/ UNCHANGED vars
      BY <2>1 DEF PreCloseCancel, vars, TypeOK
    <2>2. CASE Tick \/ NextDay
      BY <2>2, MinutesGoOn DEF Tick, NextDay, TypeOK
    <2> QED
      BY <2>1, <2>2
  <1>4. leftOver' \subseteq Tickers
    <2>1. \A o \in orders : o.ticker \in Tickers
      BY OrderFields
    <2> QED
      BY <2>1 DEF PreCloseCancel, Tick, NextDay, vars, TypeOK
  <1>5. /\ entries' \in [Tickers -> Nat] /\ bought' \in [Tickers -> Nat]
        /\ withdrawn' \in [Tickers -> Nat]
    <2>1. CASE PreCloseCancel
      <3>1. entries' = entries /\ bought' = bought
        BY <2>1 DEF PreCloseCancel
      <3>2. withdrawn' \in [Tickers -> Nat]
        BY <2>1, CancelWithdraws
      <3> QED
        BY <3>1, <3>2 DEF TypeOK
    <2>2. CASE Tick \/ NextDay \/ UNCHANGED vars
      BY <2>2 DEF Tick, NextDay, NoEntries, vars, dayVars, TypeOK
    <2> QED
      BY <2>1, <2>2
  <1> QED
    BY <1>1, <1>2, <1>3, <1>4, <1>5 DEF TypeOK

LEMMA StepKeepsUnits == UnitsInv /\ [Next]_vars => UnitsInv'
  BY LoadPositionsKeepsUnits, LoadOrdersKeepsUnits, ExecuteKeepsUnits, FillKeepsUnits,
     OtherStepsKeepUnits DEF Next, Cycle

\* The units of one order.
LEMMA UnitsOfOrder ==
  ASSUME NEW o, NEW n \in Nat
  PROVE  Cardinality({o} \X (1..n)) = n
  <1>1. IsFiniteSet(1..n) /\ Cardinality(1..n) = n
    <2>1. 1 \in Int /\ n \in Int
      OBVIOUS
    <2>2. IsFiniteSet(1..n) /\ Cardinality(1..n) = IF 1 > n THEN 0 ELSE n - 1 + 1
      BY <2>1, FS_Interval
    <2> QED
      BY <2>2
  <1>2. IsFiniteSet({o}) /\ Cardinality({o}) = 1
    BY FS_Singleton
  <1>3. Cardinality({o} \X (1..n)) = 1 * n
    BY <1>1, <1>2, FS_Product
  <1> QED
    BY <1>3

LEMMA CoveredByUnits == UnitsInv => SellsAreCovered
  <1> SUFFICES ASSUME UnitsInv
               PROVE  SellsAreCovered
    OBVIOUS
  <1> USE DEF UnitsInv
  <1>1. ASSUME NEW s \in Strategies, NEW t \in Tickers
        PROVE  Cardinality(UNION {{o} \X (1..o.left) :
                 o \in {p \in orders : p.strategy = s /\ p.ticker = t /\ p.side = "sell"
                                       /\ p.life = "open" /\ ~p.stale}}) <= position[s][t]
    <2> DEFINE onSale == {p \in orders : p.strategy = s /\ p.ticker = t /\ p.side = "sell"
                                         /\ p.life = "open" /\ ~p.stale}
               units == UNION {{o} \X (1..o.left) : o \in onSale}
    <2>1. position[s][t] \in Nat
      BY DEF TypeOK
    <2>2. CASE onSale = {}
      <3>1. units = {}
        BY <2>2
      <3> HIDE DEF units
      <3>2. Cardinality(units) = 0
        BY <3>1, FS_EmptySet
      <3> QED
        BY <2>1, <3>2 DEF units
    <2>3. CASE onSale # {}
      <3>1. PICK o \in orders : o.strategy = s /\ o.ticker = t /\ o.side = "sell" /\ o.life = "open" /\ ~o.stale
        BY <2>3
      <3>2. onSale = {o}
        BY <3>1 DEF OneOrderEach
      <3>3. units = {o} \X (1..o.left)
        <4> HIDE DEF onSale
        <4> QED
          BY <3>2
      <3>4. o.left \in Nat /\ o.left <= position[s][t]
        BY <3>1, OrderFields DEF SellsInv
      <3>5. Cardinality(units) = o.left
        <4> HIDE DEF units
        <4> QED
          BY <3>3, <3>4, UnitsOfOrder
      <3> HIDE DEF onSale
      <3> QED
        BY <3>4, <3>5 DEF onSale
    <2> QED
      BY <2>2, <2>3
  <1> QED
    BY <1>1 DEF SellsAreCovered

LEMMA UnitsAlways == Spec => []UnitsInv
  <1>1. Init => UnitsInv
    BY InitDay DEF UnitsInv
  <1> QED
    BY <1>1, StepKeepsUnits, PTL DEF Spec

(* The state keeps its types; above all no position becomes negative, though *)
(* the sells of a cycle that has read stale positions may exceed it          *)
(* (_apply_sell).                                                            *)
THEOREM TypeCorrect == Spec => []TypeOK
  <1>1. UnitsInv => TypeOK
    BY DEF UnitsInv
  <1> QED
    BY <1>1, UnitsAlways, PTL

(* No exit is sent a second time while the first one is at work: what a      *)
(* strategy has on sale is never more than what it holds, but for the sells  *)
(* of a cycle that read its positions before an earlier sell was booked.     *)
THEOREM ExitsAreSentOnce == Spec => []SellsAreCovered
  BY UnitsAlways, CoveredByUnits, PTL

-----------------------------------------------------------------------------
(***************************************************************************)
(* The intraday limits.                                                    *)
(***************************************************************************)
\* No two intraday orders of a ticker: what is bought of it today is the one order.
LEMMA HasBuyIs ==
  ASSUME UnitsInv, NEW t \in Tickers
  PROVE  /\ bought[t] \in Nat /\ entries[t] \in Nat /\ withdrawn[t] \in Nat /\ MaxEntries \in Nat
         /\ OneIf(HasBuy(t)) \in {0, 1} /\ OneIf(HasUntouchedBuy(t)) \in {0, 1}
         /\ HasUntouchedBuy(t) => HasBuy(t)
  <1>1. bought[t] \in Nat /\ entries[t] \in Nat /\ withdrawn[t] \in Nat /\ MaxEntries \in Nat
    BY DayConstants DEF UnitsInv, TypeOK
  <1> QED
    BY <1>1 DEF OneIf, HasBuy, HasUntouchedBuy

LEMMA ExecuteKeepsEntries ==
  ASSUME UnitsInv, EntriesInv, NEW s \in Strategies, ExecuteCycle(s)
  PROVE  EntriesInv'
  <1>1. PICK N : orders' = orders \cup N /\ Sendable(s, N)
    BY CycleSends DEF UnitsInv
  <1>2. UNCHANGED <<entries, bought, withdrawn>> /\ stage[s] = "guarded"
    BY DEF ExecuteCycle, dayVars
  <1>3. ASSUME NEW o \in N PROVE MayBeSent(s, o)
    BY <1>1 DEF Sendable
  <1>4. ASSUME NEW t \in Tickers
        PROVE  /\ bought[t] + OneIf(HasUntouchedBuy(t)') <= MaxEntries + withdrawn[t]
               /\ bought[t] + OneIf(HasUntouchedBuy(t)') <= entries[t] + OneIf(HasBuy(t)') + withdrawn[t]
    <2>0. /\ bought[t] \in Nat /\ entries[t] \in Nat /\ withdrawn[t] \in Nat /\ MaxEntries \in Nat
          /\ bought[t] + OneIf(HasUntouchedBuy(t)) <= MaxEntries + withdrawn[t]
          /\ bought[t] + OneIf(HasUntouchedBuy(t)) <= entries[t] + OneIf(HasBuy(t)) + withdrawn[t]
      BY HasBuyIs DEF EntriesInv
    <2>1. CASE \A o \in N : ~IsBuyOfDay(o, t)
      <3>1. HasBuy(t)' <=> HasBuy(t)
        BY <1>1, <2>1 DEF HasBuy, IsBuyOfDay, IsIntradayBuy
      <3>2. HasUntouchedBuy(t)' <=> HasUntouchedBuy(t)
        BY <1>1, <2>1 DEF HasUntouchedBuy, IsBuyOfDay, IsIntradayBuy
      <3> QED
        BY <2>0, <3>1, <3>2 DEF OneIf
    <2>2. CASE \E o \in N : IsBuyOfDay(o, t)
      <3>1. PICK o \in N : IsBuyOfDay(o, t)
        BY <2>2
      <3>2. MayBeSent(s, o) /\ s = Intraday /\ o.side = "buy" /\ o.ticker = t /\ o.left = o.quantity
        BY <1>3, <3>1 DEF IsBuyOfDay, IsIntradayBuy, MayBeSent
      <3>3. CountEntries(t) < MaxEntries /\ t \notin busy[s]
        BY <3>2 DEF MayBeSent
      <3>4. ~HasBuy(t) /\ ~HasUntouchedBuy(t)
        BY <1>2, <3>2, <3>3 DEF UnitsInv, BusyInv, HasBuy, HasUntouchedBuy, IsBuyOfDay, IsIntradayBuy
      <3>5. HasBuy(t)' /\ HasUntouchedBuy(t)'
        BY <1>1, <3>1, <3>2 DEF HasBuy, HasUntouchedBuy, IsBuyOfDay, IsIntradayBuy
      <3>6. CountEntries(t) = entries[t]
        <4>1. CountEntries(t) = entries[t] + OneIf(HasBuy(t))
          BY GuardCounts DEF UnitsInv
        <4> QED
          BY <2>0, <3>4, <4>1 DEF OneIf
      <3>7. bought[t] <= entries[t] + withdrawn[t] /\ entries[t] < MaxEntries
        BY <2>0, <3>3, <3>4, <3>6 DEF OneIf
      <3> QED
        BY <2>0, <3>5, <3>7 DEF OneIf
    <2> QED
      BY <2>1, <2>2
  <1> QED
    BY <1>2, <1>4 DEF EntriesInv

LEMMA LoadsKeepEntries ==
  ASSUME EntriesInv, NEW s \in Strategies, LoadPositions(s) \/ LoadOpenOrderTickers(s)
  PROVE  EntriesInv'
  <1>1. UNCHANGED <<orders, entries, bought, withdrawn>>
    BY DEF LoadPositions, LoadOpenOrderTickers, dayVars
  <1>2. \A t \in Tickers : HasBuy(t)' = HasBuy(t) /\ HasUntouchedBuy(t)' = HasUntouchedBuy(t)
    BY <1>1 DEF HasBuy, HasUntouchedBuy, IsBuyOfDay, IsIntradayBuy
  <1> QED
    BY <1>1, <1>2 DEF EntriesInv

LEMMA FillKeepsEntries ==
  ASSUME UnitsInv, EntriesInv, NEW o \in orders, Fill(o)
  PROVE  EntriesInv'
  <1>0. TypeOK /\ OneOrderEach
    BY DEF UnitsInv
  <1>1. /\ o.left \in 1..o.quantity /\ o.left \in Nat /\ o.quantity \in Nat /\ o.life = "open"
        /\ withdrawn' = withdrawn
    BY <1>0, OrderFields, FillEffect
  <1>2. /\ OneUnitLess(o).left = o.left - 1 /\ OneUnitLess(o).ticker = o.ticker
        /\ OneUnitLess(o).strategy = o.strategy /\ OneUnitLess(o).side = o.side
        /\ OneUnitLess(o).quantity = o.quantity /\ OneUnitLess(o).life = o.life
    BY <1>0, LessOfOrder
  <1>3. orders' = IF o.left = 1 THEN orders \ {o} ELSE (orders \ {o}) \cup {OneUnitLess(o)}
    BY <1>0, FillEffect
  <1>4. ASSUME NEW t \in Tickers
        PROVE  /\ bought'[t] + OneIf(HasUntouchedBuy(t)') <= MaxEntries + withdrawn[t]
               /\ bought'[t] + OneIf(HasUntouchedBuy(t)')
                    <= entries'[t] + OneIf(HasBuy(t)') + withdrawn[t]
    <2>0. /\ bought[t] \in Nat /\ entries[t] \in Nat /\ withdrawn[t] \in Nat /\ MaxEntries \in Nat
          /\ bought[t] + OneIf(HasUntouchedBuy(t)) <= MaxEntries + withdrawn[t]
          /\ bought[t] + OneIf(HasUntouchedBuy(t)) <= entries[t] + OneIf(HasBuy(t)) + withdrawn[t]
      BY HasBuyIs DEF EntriesInv
    <2>1. /\ entries'[t] = IF t = o.ticker /\ o.left = 1 /\ IsIntradayBuy(o)
                           THEN entries[t] + 1 ELSE entries[t]
          /\ bought'[t] = IF t = o.ticker /\ o.left = o.quantity /\ IsIntradayBuy(o)
                          THEN bought[t] + 1 ELSE bought[t]
      BY <1>0, FillEffect
    <2>2. CASE ~IsBuyOfDay(o, t)
      <3>1. HasBuy(t)' <=> HasBuy(t)
        BY <1>2, <1>3, <2>2 DEF HasBuy, IsBuyOfDay, IsIntradayBuy
      <3>2. HasUntouchedBuy(t)' <=> HasUntouchedBuy(t)
        <4>1. ~IsBuyOfDay(OneUnitLess(o), t)
          BY <1>2, <2>2 DEF IsBuyOfDay, IsIntradayBuy
        <4> QED
          BY <1>3, <2>2, <4>1 DEF HasUntouchedBuy, IsBuyOfDay, IsIntradayBuy
      <3>3. entries'[t] = entries[t] /\ bought'[t] = bought[t]
        BY <1>1, <2>1, <2>2 DEF IsBuyOfDay
      <3> QED
        BY <2>0, <3>1, <3>2, <3>3 DEF OneIf
    <2>3. CASE IsBuyOfDay(o, t)
      <3>1. t = o.ticker /\ IsIntradayBuy(o)
        BY <2>3 DEF IsBuyOfDay
      <3>2. HasBuy(t)
        BY <2>3 DEF HasBuy
      <3>3. HasUntouchedBuy(t) <=> o.left = o.quantity
        BY <1>0, <2>3 DEF HasUntouchedBuy, IsBuyOfDay, IsIntradayBuy, OneOrderEach
      <3>4. ASSUME NEW p \in orders' PROVE p # o /\ (IsBuyOfDay(p, t) => o.left > 1 /\ p = OneUnitLess(o))
        <4>1. (p \in orders /\ p # o) \/ (o.left > 1 /\ p = OneUnitLess(o))
          BY <1>0, OrdersAfterFill
        <4>2. p # o
          BY <1>1, <1>2, <4>1
        <4> QED
          BY <1>0, <2>3, <4>1, <4>2 DEF IsBuyOfDay, IsIntradayBuy, OneOrderEach
      <3>5. ~HasUntouchedBuy(t)'
        <4>1. OneUnitLess(o).left # OneUnitLess(o).quantity
          BY <1>1, <1>2
        <4> QED
          BY <3>4, <4>1 DEF HasUntouchedBuy, IsBuyOfDay, IsIntradayBuy
      <3>6. HasBuy(t)' <=> o.left > 1
        <4>1. IsBuyOfDay(OneUnitLess(o), t)
          BY <1>2, <2>3 DEF IsBuyOfDay, IsIntradayBuy
        <4>2. o.left > 1 => OneUnitLess(o) \in orders'
          BY <1>1, <1>3
        <4> QED
          BY <3>4, <4>1, <4>2 DEF HasBuy, IsBuyOfDay, IsIntradayBuy
      <3> QED
        BY <1>1, <2>0, <2>1, <3>1, <3>2, <3>3, <3>5, <3>6 DEF OneIf
    <2> QED
      BY <2>2, <2>3
  <1> QED
    BY <1>1, <1>4 DEF EntriesInv

LEMMA OtherStepsKeepEntries ==
  ASSUME UnitsInv, EntriesInv, PreCloseCancel \/ Tick \/ NextDay \/ UNCHANGED vars
  PROVE  EntriesInv'
  <1>1. ASSUME NEW t \in Tickers
        PROVE  /\ bought[t] \in Nat /\ entries[t] \in Nat /\ withdrawn[t] \in Nat /\ MaxEntries \in Nat
               /\ HasUntouchedBuy(t) => HasBuy(t)
               /\ bought[t] + OneIf(HasUntouchedBuy(t)) <= MaxEntries + withdrawn[t]
               /\ bought[t] + OneIf(HasUntouchedBuy(t)) <= entries[t] + OneIf(HasBuy(t)) + withdrawn[t]
    BY HasBuyIs DEF EntriesInv
  <1>2. CASE PreCloseCancel
    <2>1. orders' \subseteq orders /\ entries' = entries /\ bought' = bought
      BY <1>2 DEF PreCloseCancel
    <2>2. ASSUME NEW t \in Tickers
          PROVE  /\ bought[t] + OneIf(HasUntouchedBuy(t)') <= MaxEntries + withdrawn'[t]
                 /\ bought[t] + OneIf(HasUntouchedBuy(t)') <= entries[t] + OneIf(HasBuy(t)') + withdrawn'[t]
      <3>1. /\ HasUntouchedBuy(t)' => HasUntouchedBuy(t) /\ HasBuy(t)'
            /\ HasBuy(t)' => HasBuy(t)
        BY <2>1 DEF HasUntouchedBuy, HasBuy, IsBuyOfDay, IsIntradayBuy
      <3>2. withdrawn'[t] = withdrawn[t] + OneIf(HasBuy(t) /\ ~HasUntouchedBuy(t) /\ ~HasBuy(t)')
        BY <1>2, CancelWithdraws DEF UnitsInv
      <3>3. HasBuy(t)' /\ HasUntouchedBuy(t) => HasUntouchedBuy(t)'
        <4>1. ASSUME NEW o \in orders, IsBuyOfDay(o, t), NEW p \in orders, IsBuyOfDay(p, t) PROVE o = p
          BY <4>1 DEF UnitsInv, OneOrderEach, IsBuyOfDay, IsIntradayBuy
        <4> QED
          BY <2>1, <4>1 DEF HasUntouchedBuy, HasBuy, IsBuyOfDay, IsIntradayBuy
      <3> QED
        BY <1>1, <3>1, <3>2, <3>3 DEF OneIf
    <2> QED
      BY <2>1, <2>2 DEF EntriesInv
  <1>3. CASE NextDay
    <2>1. \A t \in Tickers : entries'[t] = 0 /\ bought'[t] = 0 /\ withdrawn'[t] = 0
      BY <1>3 DEF NextDay, NoEntries
    <2>2. \A t \in Tickers : ~HasBuy(t)' /\ ~HasUntouchedBuy(t)'
      BY <1>3 DEF NextDay, HasBuy, HasUntouchedBuy, IsBuyOfDay, IsIntradayBuy
    <2>3. MaxEntries \in Nat
      BY DayConstants
    <2> QED
      BY <2>1, <2>2, <2>3 DEF EntriesInv, OneIf
  <1>4. CASE Tick \/ UNCHANGED vars
    <2>1. UNCHANGED <<orders, entries, bought, withdrawn>>
      BY <1>4 DEF Tick, vars, dayVars
    <2>2. \A t \in Tickers : HasBuy(t)' = HasBuy(t) /\ HasUntouchedBuy(t)' = HasUntouchedBuy(t)
      BY <2>1 DEF HasBuy, HasUntouchedBuy, IsBuyOfDay, IsIntradayBuy
    <2> QED
      BY <2>1, <2>2 DEF EntriesInv
  <1> QED
    BY <1>2, <1>3, <1>4

\* What the strategy holds or may come to hold is finite, and what is part of
\* it is not more.
LEMMA HeldIsFinite ==
  ASSUME TypeOK
  PROVE  HeldOrBought \subseteq Tickers /\ IsFiniteSet(HeldOrBought)
         /\ Cardinality(HeldOrBought) \in Nat /\ MaxPositions \in Nat
  <1>1. HeldOrBought \subseteq Tickers
    BY OrderFields DEF HeldOrBought, OpenBuys, Held
  <1> QED
    BY <1>1, DayConstants, FS_Subset, FS_CardinalityType

LEMMA FewerAreWithin ==
  ASSUME TypeOK, NEW held \in SUBSET HeldOrBought, Cardinality(HeldOrBought) <= MaxPositions
  PROVE  Cardinality(held) <= MaxPositions
  <1>1. IsFiniteSet(HeldOrBought) /\ Cardinality(HeldOrBought) \in Nat /\ MaxPositions \in Nat
    BY HeldIsFinite
  <1>2. Cardinality(held) <= Cardinality(HeldOrBought) /\ Cardinality(held) \in Nat
    BY <1>1, FS_Subset, FS_CardinalityType
  <1> QED
    BY <1>1, <1>2

LEMMA LoadsKeepHeld ==
  ASSUME UnitsInv, HeldInv, NEW s \in Strategies, LoadPositions(s) \/ LoadOpenOrderTickers(s)
  PROVE  HeldInv'
  <1>1. UNCHANGED <<orders, position>>
    BY DEF LoadPositions, LoadOpenOrderTickers
  <1>2. OpenBuys' = OpenBuys /\ Held(Intraday)' = Held(Intraday)
    BY <1>1 DEF OpenBuys, Held, IsIntradayBuy
  <1>3. HeldOrBought' = HeldOrBought
    BY <1>1, <1>2 DEF HeldOrBought
  <1>4. /\ seen \in [Strategies -> [Tickers -> Nat]] /\ Intraday \in Strategies
        /\ stage \in [Strategies -> {"idle", "loaded", "guarded"}] /\ overtaken \in BOOLEAN
    BY DayConstants DEF UnitsInv, TypeOK
  <1>5. CASE LoadPositions(s)
    <2>1. /\ overtaken' = (overtaken \/ (s = Intraday /\ OpenBuys # {}))
          /\ seen' = [seen EXCEPT ![s] = position[s]] /\ stage' = [stage EXCEPT ![s] = "loaded"]
      BY <1>5 DEF LoadPositions, OpenBuys
    <2>2. SUFFICES ASSUME ~overtaken'
                   PROVE  /\ Cardinality(HeldOrBought) <= MaxPositions
                          /\ stage'[Intraday] # "idle" =>
                               OpenBuys = {} /\ Held(Intraday) \subseteq SeenHeld(Intraday)'
      BY <1>2, <1>3 DEF HeldInv
    <2>3. ~overtaken /\ (s = Intraday => OpenBuys = {})
      BY <2>1, <2>2
    <2>4. CASE s = Intraday
      <3>1. seen'[Intraday] = position[Intraday]
        BY <1>4, <2>1, <2>4
      <3>2. SeenHeld(Intraday)' = Held(Intraday)
        BY <3>1 DEF SeenHeld, Held
      <3> QED
        BY <2>3, <2>4, <3>2 DEF HeldInv
    <2>5. CASE s # Intraday
      <3>1. seen'[Intraday] = seen[Intraday] /\ stage'[Intraday] = stage[Intraday]
        BY <1>4, <2>1, <2>5
      <3>2. SeenHeld(Intraday)' = SeenHeld(Intraday)
        BY <3>1 DEF SeenHeld
      <3> QED
        BY <2>3, <3>1, <3>2 DEF HeldInv
    <2> QED
      BY <2>4, <2>5
  <1>6. CASE LoadOpenOrderTickers(s)
    <2>1. overtaken' = overtaken /\ seen' = seen
          /\ (stage'[Intraday] # "idle" => stage[Intraday] # "idle")
      BY <1>4, <1>6 DEF LoadOpenOrderTickers
    <2>2. SeenHeld(Intraday)' = SeenHeld(Intraday)
      BY <2>1 DEF SeenHeld
    <2> QED
      BY <1>2, <1>3, <2>1, <2>2 DEF HeldInv
  <1> QED
    BY <1>5, <1>6

LEMMA ExecuteKeepsHeld ==
  ASSUME UnitsInv, HeldInv, NEW s \in Strategies, ExecuteCycle(s)
  PROVE  HeldInv'
  <1>0. TypeOK
    BY DEF UnitsInv
  <1>1. PICK N : orders' = orders \cup N /\ Sendable(s, N)
    BY <1>0, CycleSends
  <1>2. /\ position' = position /\ Held(Intraday)' = Held(Intraday) /\ overtaken' = overtaken
        /\ stage[s] = "guarded" /\ stage' = [stage EXCEPT ![s] = "idle"]
        /\ seen' = [seen EXCEPT ![s] = Nothing]
    BY DEF ExecuteCycle, Held
  <1>3. ASSUME NEW o \in N PROVE o.strategy = s /\ o.side \in {"buy", "sell"}
    <2>1. o \in Order /\ o.strategy = s
      BY <1>1 DEF Sendable, MayBeSent
    <2> QED
      BY <2>1 DEF Order
  <1>4. SUFFICES ASSUME ~overtaken
                 PROVE  /\ Cardinality(HeldOrBought') <= MaxPositions
                        /\ stage'[Intraday] # "idle" =>
                             OpenBuys' = {} /\ Held(Intraday) \subseteq SeenHeld(Intraday)'
    BY <1>2 DEF HeldInv
  <1>5. /\ Cardinality(HeldOrBought) <= MaxPositions
        /\ stage[Intraday] # "idle" => OpenBuys = {} /\ Held(Intraday) \subseteq SeenHeld(Intraday)
    BY <1>4 DEF HeldInv
  <1>6. Intraday \in Strategies /\ stage \in [Strategies -> {"idle", "loaded", "guarded"}]
        /\ seen \in [Strategies -> [Tickers -> Nat]]
    BY <1>0, DayConstants DEF TypeOK
  <1>7. CASE \A o \in N : ~IsIntradayBuy(o)
    <2>1. OpenBuys' = OpenBuys
      BY <1>1, <1>7 DEF OpenBuys, IsIntradayBuy
    <2>2. HeldOrBought' = HeldOrBought
      BY <1>2, <2>1 DEF HeldOrBought
    <2>3. ASSUME stage'[Intraday] # "idle"
          PROVE  stage[Intraday] # "idle" /\ SeenHeld(Intraday)' = SeenHeld(Intraday)
      <3>1. s # Intraday
        BY <1>2, <1>6, <2>3
      <3>2. stage'[Intraday] = stage[Intraday] /\ seen'[Intraday] = seen[Intraday]
        BY <1>2, <1>6, <3>1
      <3> QED
        BY <2>3, <3>2 DEF SeenHeld
    <2> QED
      BY <1>5, <2>1, <2>2, <2>3
  <1>8. CASE \E b \in N : IsIntradayBuy(b)
    <2>0. PICK b \in N : IsIntradayBuy(b)
      BY <1>8
    <2>1. s = Intraday /\ b.side = "buy"
      BY <1>3, <2>0 DEF IsIntradayBuy
    <2>2. OpenBuys = {} /\ Held(Intraday) \subseteq SeenHeld(Intraday) /\ stage'[Intraday] = "idle"
      BY <1>2, <1>5, <1>6, <2>1
    <2>3. PICK buys \in SUBSET Tickers :
             /\ \A o \in N : o.side = "buy" => o.ticker \in buys
             /\ Cardinality(SeenHeld(Intraday) \cup buys) <= MaxPositions
      BY <1>1, <2>1 DEF Sendable
    <2>4. \A o \in OpenBuys' : o.ticker \in buys
      BY <1>1, <2>2, <2>3 DEF OpenBuys, IsIntradayBuy
    <2>5. HeldOrBought' \subseteq SeenHeld(Intraday) \cup buys
      BY <1>2, <2>2, <2>4 DEF HeldOrBought
    <2>6. SeenHeld(Intraday) \cup buys \subseteq Tickers
      BY DEF SeenHeld
    <2>7. IsFiniteSet(SeenHeld(Intraday) \cup buys)
      BY <2>6, DayConstants, FS_Subset
    <2>8. /\ Cardinality(HeldOrBought') <= Cardinality(SeenHeld(Intraday) \cup buys)
          /\ Cardinality(HeldOrBought') \in Nat /\ Cardinality(SeenHeld(Intraday) \cup buys) \in Nat
      <3> DEFINE after == HeldOrBought'
                 most == SeenHeld(Intraday) \cup buys
      <3>1. after \subseteq most /\ IsFiniteSet(most)
        BY <2>5, <2>7
      <3> HIDE DEF after, most
      <3>2. IsFiniteSet(after) /\ Cardinality(after) <= Cardinality(most)
        BY <3>1, FS_Subset
      <3>3. Cardinality(after) \in Nat /\ Cardinality(most) \in Nat
        BY <3>1, <3>2, FS_CardinalityType
      <3> QED
        BY <3>2, <3>3 DEF after, most
    <2> QED
      BY <2>2, <2>3, <2>8, DayConstants
  <1> QED
    BY <1>7, <1>8

LEMMA FillKeepsHeld ==
  ASSUME UnitsInv, HeldInv, NEW o \in orders, Fill(o)
  PROVE  HeldInv'
  <1>0. TypeOK
    BY DEF UnitsInv
  <1>1. /\ o.ticker \in Tickers /\ o.strategy \in Strategies /\ o.side \in {"buy", "sell"}
        /\ o.life = "open" /\ overtaken' = overtaken /\ Intraday \in Strategies
    BY <1>0, OrderFields, FillEffect, DayConstants
  <1>2. ASSUME NEW t \in Held(Intraday)' PROVE t \in HeldOrBought
    <2>1. t \in Tickers /\ position'[Intraday][t] > 0 /\ position[Intraday][t] \in Nat
      BY <1>0, <1>1 DEF Held, TypeOK
    <2>2. position'[Intraday][t] = IF Intraday = o.strategy /\ t = o.ticker
                                   THEN position[Intraday][t] + Change(o) ELSE position[Intraday][t]
      BY <1>0, <1>1, <2>1, FillEffect
    <2>3. CASE t \in Held(Intraday)
      BY <2>3 DEF HeldOrBought
    <2>4. CASE t \notin Held(Intraday)
      <3>1. position[Intraday][t] = 0
        BY <2>1, <2>4 DEF Held
      <3>2. o.strategy = Intraday /\ t = o.ticker /\ o.side = "buy"
        BY <1>1, <2>1, <2>2, <3>1 DEF Change
      <3>3. o \in OpenBuys
        BY <1>1, <3>2 DEF OpenBuys, IsIntradayBuy
      <3> QED
        BY <3>2, <3>3 DEF HeldOrBought
    <2> QED
      BY <2>3, <2>4
  <1>3. ASSUME NEW p \in OpenBuys' PROVE p.ticker \in HeldOrBought
    <2>1. p \in orders' /\ IsIntradayBuy(p) /\ p.life = "open"
      BY DEF OpenBuys, IsIntradayBuy
    <2>2. CASE p \in orders /\ p # o
      BY <2>1, <2>2 DEF OpenBuys, HeldOrBought
    <2>3. CASE o.left > 1 /\ p = OneUnitLess(o)
      <3>1. p.ticker = o.ticker /\ p.strategy = o.strategy /\ p.side = o.side /\ p.life = o.life
        BY <1>0, <2>3, LessOfOrder
      <3>2. o \in OpenBuys
        BY <2>1, <3>1 DEF OpenBuys, IsIntradayBuy
      <3> QED
        BY <3>1, <3>2 DEF HeldOrBought
    <2> QED
      BY <1>0, <2>1, <2>2, <2>3, OrdersAfterFill
  <1>4. HeldOrBought' \in SUBSET HeldOrBought
    BY <1>2, <1>3 DEF HeldOrBought
  <1> QED
    <2> DEFINE after == HeldOrBought'
    <2>1. after \in SUBSET HeldOrBought
      BY <1>4
    <2> HIDE DEF after
    <2>2. ~overtaken => Cardinality(after) <= MaxPositions
      BY <1>0, <2>1, FewerAreWithin DEF HeldInv
    <2>3. stage' = stage /\ seen' = seen
      BY <1>0, FillEffect
    <2>4. ASSUME OpenBuys = {} PROVE OpenBuys' = {} /\ Held(Intraday)' \subseteq Held(Intraday)
      <3>1. HeldOrBought = Held(Intraday)
        BY <2>4 DEF HeldOrBought
      <3>2. OpenBuys' = {}
        <4>1. o \notin OpenBuys
          BY <2>4
        <4>2. ASSUME NEW p \in OpenBuys' PROVE FALSE
          <5>1. p \in orders' /\ IsIntradayBuy(p) /\ p.life = "open"
            BY DEF OpenBuys, IsIntradayBuy
          <5>2. CASE p \in orders
            BY <2>4, <5>1, <5>2 DEF OpenBuys
          <5>3. CASE p = OneUnitLess(o)
            <6>1. p.strategy = o.strategy /\ p.side = o.side /\ p.life = o.life
              BY <1>0, <5>3, LessOfOrder
            <6> QED
              BY <4>1, <5>1, <6>1 DEF OpenBuys, IsIntradayBuy
          <5> QED
            BY <1>0, <5>1, <5>2, <5>3, OrdersAfterFill
        <4> QED
          BY <4>2
      <3> QED
        BY <1>2, <3>1, <3>2
    <2>5. SeenHeld(Intraday)' = SeenHeld(Intraday)
      BY <2>3 DEF SeenHeld
    <2> QED
      BY <1>1, <2>2, <2>3, <2>4, <2>5 DEF after, HeldInv

LEMMA OtherStepsKeepHeld ==
  ASSUME UnitsInv, HeldInv, PreCloseCancel \/ Tick \/ NextDay \/ UNCHANGED vars
  PROVE  HeldInv'
  <1>0. TypeOK
    BY DEF UnitsInv
  <1>1. UNCHANGED <<position, overtaken, stage, seen>>
    BY DEF PreCloseCancel, Tick, NextDay, vars, cycleVars
  <1>2. OpenBuys' \subseteq OpenBuys
    <2>1. orders' \subseteq orders
      BY DEF PreCloseCancel, Tick, NextDay, vars
    <2> QED
      BY <2>1 DEF OpenBuys, IsIntradayBuy
  <1>3. HeldOrBought' \in SUBSET HeldOrBought
    BY <1>1, <1>2 DEF HeldOrBought, Held
  <1> DEFINE after == HeldOrBought'
  <1>4. after \in SUBSET HeldOrBought
    BY <1>3
  <1> HIDE DEF after
  <1>5. ~overtaken => Cardinality(after) <= MaxPositions
    BY <1>0, <1>4, FewerAreWithin DEF HeldInv
  <1>6. Held(Intraday)' = Held(Intraday) /\ SeenHeld(Intraday)' = SeenHeld(Intraday)
    BY <1>1 DEF Held, SeenHeld
  <1> QED
    BY <1>1, <1>2, <1>5, <1>6 DEF after, HeldInv

LEMMA HeldAlways == Spec => [](UnitsInv /\ HeldInv)
  <1>1. Init => UnitsInv /\ HeldInv
    BY InitDay DEF UnitsInv
  <1>2. HeldInv /\ UnitsInv /\ [Next]_vars => HeldInv'
    BY LoadsKeepHeld, ExecuteKeepsHeld, FillKeepsHeld, OtherStepsKeepHeld DEF Next, Cycle
  <1> QED
    BY <1>1, <1>2, StepKeepsUnits, PTL DEF Spec

(* Intraday momentum holds at most MaxPositions tickers as long as no cycle  *)
(* ran while one of its buys was open (_evaluate_intraday_entry_guard).      *)
THEOREM FewPositionsAreHeld == Spec => []PositionsWithinLimit
  <1>1. UnitsInv /\ HeldInv => PositionsWithinLimit
    <2> SUFFICES ASSUME UnitsInv, HeldInv, ~overtaken
                 PROVE  Cardinality(Held(Intraday)) <= MaxPositions
      BY DEF PositionsWithinLimit
    <2>1. TypeOK
      BY DEF UnitsInv
    <2>2. Held(Intraday) \in SUBSET HeldOrBought
      BY DEF HeldOrBought
    <2> DEFINE held == Held(Intraday)
    <2>3. held \in SUBSET HeldOrBought
      BY <2>2
    <2> HIDE DEF held
    <2>4. Cardinality(held) <= MaxPositions
      BY <2>1, <2>3, FewerAreWithin DEF HeldInv
    <2> QED
      BY <2>4 DEF held
  <1> QED
    BY <1>1, HeldAlways, PTL

(* Intraday momentum stays within its limits: it buys into a ticker at most  *)
(* MaxEntries times a day and once more for each partly filled buy that was  *)
(* cancelled (_count_intraday_entries_for_day), and no cycle that reads its  *)
(* positions early holds too many.                                           *)
THEOREM IntradayKeepsItsLimits == Spec => []IntradayWithinLimits
  <1>1. Init => EntriesInv
    BY InitDay
  <1>2. EntriesInv /\ UnitsInv /\ [Next]_vars => EntriesInv'
    BY LoadsKeepEntries, ExecuteKeepsEntries, FillKeepsEntries, OtherStepsKeepEntries DEF Next, Cycle
  <1>3. UnitsInv /\ EntriesInv => EntriesPerDay
    <2> SUFFICES ASSUME UnitsInv, EntriesInv, NEW t \in Tickers
                 PROVE  bought[t] <= MaxEntries + withdrawn[t]
      BY DEF EntriesPerDay
    <2>1. bought[t] + OneIf(HasUntouchedBuy(t)) <= MaxEntries + withdrawn[t]
      BY DEF EntriesInv
    <2> QED
      BY <2>1, HasBuyIs
  <1>4. IntradayWithinLimits <=> EntriesPerDay /\ PositionsWithinLimit
    BY DEF IntradayWithinLimits
  <1> QED
    BY <1>1, <1>2, <1>3, <1>4, UnitsAlways, FewPositionsAreHeld, PTL DEF Spec
=============================================================================
