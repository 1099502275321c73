--------------------------- MODULE BacktestProofs ---------------------------
(***************************************************************************)
(* Proofs about Backtest for any universe, prices, factors and rebalancing *)
(* days: what is scheduled does not depend on the future, what is held     *)
(* after a rebalancing is among its leaders, and the replay makes one      *)
(* trade of each entry of the schedule.                                    *)
(***************************************************************************)
EXTENDS Backtest, FiniteSetTheorems, TLAPS

(***************************************************************************)
(* Days.                                                                   *)
(***************************************************************************)
\* A set of natural numbers has a least element: in the place of induction.
LEMMA LeastNatural ==
  ASSUME NEW T \in SUBSET Nat, T # {}
  PROVE \E x \in T : \A y \in T : x <= y
  <1> DEFINE U == {0..n : n \in T}
  <1>1. IsWellFoundedOn(StrictSubsetOrdering(Nat), FiniteSubsetsOf(Nat))
    BY FS_StrictSubsetOrderingWellFounded
  <1>2. U \subseteq FiniteSubsetsOf(Nat)
    <2>1. ASSUME NEW n \in T PROVE 0..n \in FiniteSubsetsOf(Nat)
      <3>1. n \in Int /\ 0 \in Int /\ 0..n \subseteq Nat
        OBVIOUS
      <3>2. IsFiniteSet(0..n)
        BY <3>1, FS_Interval
      <3> QED BY <3>1, <3>2 DEF FiniteSubsetsOf
    <2> QED BY <2>1
  <1>3. U # {}
    OBVIOUS
  <1>4. \E x \in U : \A y \in U : <<y, x>> \notin StrictSubsetOrdering(Nat)
    <2> HIDE DEF U
    <2> QED BY <1>1, <1>2, <1>3, WFMin
  <1>5. PICK m \in T : \A y \in T : <<0..y, 0..m>> \notin StrictSubsetOrdering(Nat)
    BY <1>4
  <1>6. ASSUME NEW y \in T, y < m PROVE FALSE
    <2>1. y \in Nat /\ m \in Nat
      OBVIOUS
    <2>2. 0..y \subseteq 0..m /\ 0..y \subseteq Nat /\ 0..m \subseteq Nat
      BY <1>6, <2>1
    <2>3. m \in 0..m /\ m \notin 0..y
      BY <1>6, <2>1
    <2>4. <<0..y, 0..m>> \in StrictSubsetOrdering(Nat)
      BY <2>2, <2>3 DEF StrictSubsetOrdering
    <2> QED BY <1>5, <2>4
  <1> QED BY <1>6

\* A set of days has a first and a last one.
LEMMA FirstOfDays ==
  ASSUME NEW S \in SUBSET Nat, S # {}
  PROVE  Min(S) \in S /\ \A y \in S : Min(S) <= y
  BY LeastNatural DEF Min

LEMMA LastOfDays ==
  ASSUME NEW S \in SUBSET Nat, S # {}, NEW n \in Nat, \A y \in S : y <= n
  PROVE  Max(S) \in S /\ \A y \in S : y <= Max(S)
  <1> DEFINE D == {n - i : i \in S}
  <1>1. D \subseteq Nat /\ D # {}
    <2>1. ASSUME NEW i \in S PROVE n - i \in Nat
      OBVIOUS
    <2>2. PICK i \in S : TRUE
      OBVIOUS
    <2> QED
      BY <2>1, <2>2
  <1>2. PICK d \in D : \A e \in D : d <= e
    <2> HIDE DEF D
    <2> QED
      BY <1>1, LeastNatural
  <1>3. PICK x \in S : d = n - x
    OBVIOUS
  <1>4. ASSUME NEW y \in S PROVE x >= y
    <2>1. n - y \in D
      OBVIOUS
    <2>2. n - x <= n - y
      BY <1>2, <1>3, <2>1
    <2> QED
      BY <2>2
  <1>5. Max(S) \in S /\ \A y \in S : Max(S) >= y
    BY <1>4 DEF Max
  <1> QED
    BY <1>5

-----------------------------------------------------------------------------
(***************************************************************************)
(* The walk through the time stamps.                                       *)
(***************************************************************************)
LEMMA BacktestConstants ==
  /\ {Start, End, Lookback, TopN} \subseteq Nat /\ Start < End
  /\ Start..End \subseteq Days /\ Days \subseteq Nat
  /\ IsFiniteSet(Tickers)
  <1>1. {Start, End, Lookback, TopN} \subseteq Nat /\ Start < End /\ Universe \in Seq(Tickers)
    BY BacktestAssumption DEF BacktestAssumption
  <1>2. Start..End \subseteq Days /\ Days \subseteq Nat
    BY <1>1 DEF Days
  <1>3. IsFiniteSet(Tickers)
    <2> DEFINE n == Len(Universe)
    <2>1. n \in Nat /\ DOMAIN Universe = 1..n /\ Universe \in [1..n -> Tickers]
      BY <1>1
    <2>2. \A t \in Tickers : \E i \in 1..n : Universe[i] = t
      BY <2>1 DEF Tickers, ToSet
    <2>3. Universe \in Surjection(1..n, Tickers)
      BY <2>1, <2>2 DEF Surjection
    <2>4. IsFiniteSet(1..n)
      BY <2>1, FS_Interval
    <2> QED
      BY <2>3, <2>4, FS_Surjection
  <1> QED
    BY <1>1, <1>2, <1>3

Stamps == Timestamps(closes)
Final == Max(Stamps)

LEMMA StampsAreDays ==
  /\ \A h : Timestamps(h) \subseteq Start..End
  /\ Stamps \subseteq Nat /\ \A d \in Stamps : d <= End
  /\ Stamps \subseteq Days
  BY BacktestConstants DEF Stamps, Timestamps

Walking ==
  /\ pc \in {"schedule", "replay", "done"}
  /\ Stamps # {} /\ day \in Stamps
  /\ pc = "done" => day = Final
  /\ closes \in [Tickers -> [Days -> Closes(strategy)]]
  /\ factors \in [Tickers -> [SnapshotDates -> Snapshots(strategy)]]

\* The walk starts at the first time stamp, goes to the one after and ends at
\* the last one.
LEMMA WalkOfDays ==
  ASSUME Walking
  PROVE  /\ FirstDay \in Stamps /\ \A d \in Stamps : FirstDay <= d
         /\ Final \in Stamps /\ \A d \in Stamps : d <= Final
         /\ DaysAfter(day) # {} => /\ Min(DaysAfter(day)) \in Stamps /\ Min(DaysAfter(day)) > day
                                  /\ \A d \in Stamps : d > day => Min(DaysAfter(day)) <= d
         /\ DaysAfter(day) = {} => day = Final
  <1>1. Stamps \subseteq Nat /\ Stamps # {} /\ \A d \in Stamps : d <= End
    BY StampsAreDays DEF Walking
  <1>2. FirstDay \in Stamps /\ \A d \in Stamps : FirstDay <= d
    BY <1>1, FirstOfDays DEF FirstDay, Stamps
  <1>3. Final \in Stamps /\ \A d \in Stamps : d <= Final
    BY <1>1, LastOfDays, BacktestConstants DEF Final
  <1>4. DaysAfter(day) = {e \in Stamps : e > day}
    BY DEF DaysAfter, Stamps
  <1>5. ASSUME DaysAfter(day) # {}
        PROVE  /\ Min(DaysAfter(day)) \in Stamps /\ Min(DaysAfter(day)) > day
               /\ \A d \in Stamps : d > day => Min(DaysAfter(day)) <= d
    <2>1. DaysAfter(day) \subseteq Nat
      BY <1>1, <1>4
    <2>2. Min(DaysAfter(day)) \in DaysAfter(day) /\ \A d \in DaysAfter(day) : Min(DaysAfter(day)) <= d
      BY <1>5, <2>1, FirstOfDays
    <2> QED
      BY <1>4, <2>2
  <1>6. ASSUME DaysAfter(day) = {}
        PROVE  day = Final
    <2>1. ~(Final > day) /\ day <= Final
      BY <1>3, <1>4, <1>6 DEF Walking
    <2>2. day \in Nat /\ Final \in Nat
      BY <1>1, <1>3 DEF Walking
    <2> QED
      BY <2>1, <2>2
  <1> QED
    BY <1>2, <1>3, <1>5, <1>6

LEMMA WalkStarts == Init => Walking
  <1> SUFFICES ASSUME Init
               PROVE  Walking
    OBVIOUS
  <1>1. Stamps # {} /\ Stamps \subseteq Nat
    BY StampsAreDays DEF Init, Stamps
  <1>2. FirstDay \in Stamps
    BY <1>1, FirstOfDays DEF FirstDay, Stamps
  <1> QED
    BY <1>1, <1>2 DEF Init, Walking

LEMMA WalkGoesOn == Walking /\ [Next]_vars => Walking'
  <1> SUFFICES ASSUME Walking, [Next]_vars
               PROVE  Walking'
    OBVIOUS
  <1>1. strategy' = strategy /\ closes' = closes /\ factors' = factors
    BY DEF Next, ScheduleDay, ReplayDay, vars
  <1>2. Stamps' = Stamps /\ Final' = Final
    BY <1>1 DEF Stamps, Final
  <1>3. pc' \in {"schedule", "replay", "done"} /\ day' \in Stamps /\ (pc' = "done" => day' = Final)
    BY WalkOfDays DEF Walking, Next, ScheduleDay, ReplayDay, vars
  <1> QED
    BY <1>1, <1>2, <1>3 DEF Walking

-----------------------------------------------------------------------------
(***************************************************************************)
(* What is held.                                                           *)
(***************************************************************************)
\* After a rebalancing only leaders and what cannot be sold are open.
LEMMA LeadersStay ==
  ASSUME NEW sched, NEW d \in RebalanceDays,
         NEW t \in Scheduled(sched, strategy, closes, factors, d).open \cap Priced(closes, d),
         HasData(strategy, closes, factors, t, d)
  PROVE  t \in Leaders(strategy, closes, factors, d)
  <1> DEFINE in == NewEntries(sched.open, Buys(strategy, closes, factors, d) \cap Priced(closes, d))
             out == Sells(strategy, closes, factors, d) \cap Priced(closes, d) \cap sched.open
  <1>1. Scheduled(sched, strategy, closes, factors, d).open = (sched.open \cup in) \ out
    BY DEF Scheduled
  <1>2. t \in Tickers
    BY DEF Priced
  <1>3. CASE t \in in
    BY <1>3 DEF NewEntries, Buys
  <1>4. CASE t \in sched.open
    BY <1>1, <1>2, <1>4 DEF Sells
  <1> QED
    BY <1>1, <1>3, <1>4

LEMMA FewBeatALeader ==
  ASSUME NEW d, NEW t \in Leaders(strategy, closes, factors, d)
  PROVE  Cardinality({u \in Tickers : /\ HasScore(strategy, closes, factors, u, d)
                                      /\ ScoresMore(strategy, closes, factors, u, t, d)}) < TopN
  <1> DEFINE scored == {u \in Tickers : HasScore(strategy, closes, factors, u, d)}
             ahead == {u \in scored : Leads(strategy, closes, factors, u, t, d)}
             better == {u \in Tickers : /\ HasScore(strategy, closes, factors, u, d)
                                        /\ ScoresMore(strategy, closes, factors, u, t, d)}
  <1>1. Cardinality(ahead) < TopN
    BY DEF Leaders
  <1>2. better \subseteq ahead /\ ahead \subseteq Tickers
    BY DEF Leads
  <1> HIDE DEF better, ahead
  <1>3. IsFiniteSet(ahead)
    BY <1>2, BacktestConstants, FS_Subset
  <1>4. Cardinality(better) <= Cardinality(ahead) /\ IsFiniteSet(better)
    BY <1>2, <1>3, FS_Subset
  <1>5. Cardinality(better) \in Nat /\ Cardinality(ahead) \in Nat /\ TopN \in Nat
    BY <1>3, <1>4, FS_CardinalityType, BacktestConstants
  <1>6. Cardinality(better) < TopN
    BY <1>1, <1>4, <1>5
  <1> QED
    BY <1>6 DEF better

(* Only the leaders of the last rebalancing are held, and what could not be  *)
(* sold on its day (generate_signals).                                       *)
THEOREM LeadersAreHeld == Spec => []OnlyLeadersAreHeld
  <1>1. Init => OnlyLeadersAreHeld
    BY DEF Init, OnlyLeadersAreHeld
  <1>2. Walking /\ OnlyLeadersAreHeld /\ [Next]_vars => OnlyLeadersAreHeld'
    <2> SUFFICES ASSUME Walking, OnlyLeadersAreHeld, [Next]_vars
                 PROVE  OnlyLeadersAreHeld'
      OBVIOUS
    <2>1. CASE ScheduleDay /\ DaysAfter(day) # {}
      <3> DEFINE last == Max({e \in Stamps : e < day'})
      <3>1. /\ schedule' = Scheduled(schedule, strategy, closes, factors, day)
            /\ strategy' = strategy /\ closes' = closes /\ factors' = factors
            /\ day' = Min(DaysAfter(day))
        BY <2>1 DEF ScheduleDay
      <3>2. last = day
        <4> DEFINE S == {e \in Stamps : e < day'}
        <4>1. /\ day' \in Stamps /\ day' > day /\ day \in Stamps
              /\ \A d \in Stamps : d > day => day' <= d
          BY <2>1, <3>1, WalkOfDays DEF Walking
        <4>2. Stamps \subseteq Nat
          BY StampsAreDays
        <4>3. day \in S /\ S \subseteq Nat /\ \A e \in S : e <= day
          <5>1. day \in Nat /\ day' \in Nat
            BY <4>1, <4>2
          <5>2. ASSUME NEW e \in S PROVE e <= day
            <6>1. e \in Stamps /\ e < day' /\ e \in Nat
              BY <4>2
            <6> QED
              BY <4>1, <5>1, <6>1
          <5> QED
            BY <4>1, <4>2, <5>1, <5>2
        <4> HIDE DEF S
        <4>4. Max(S) \in S /\ \A e \in S : e <= Max(S)
          BY <4>2, <4>3, LastOfDays
        <4>5. Max(S) <= day /\ day <= Max(S) /\ Max(S) \in Nat /\ day \in Nat
          BY <4>3, <4>4
        <4>6. Max(S) = day
          BY <4>5
        <4> QED
          BY <4>6 DEF S
      <3>3. OnlyLeadersAreHeld' = (pc' = "schedule" /\ day' # FirstDay =>
               (last \in RebalanceDays => \A t \in schedule'.open \cap Priced(closes, last) :
                  HasData(strategy, closes, factors, t, last) =>
                    Cardinality({u \in Tickers : /\ HasScore(strategy, closes, factors, u, last)
                                                 /\ ScoresMore(strategy, closes, factors, u, t, last)})
                      < TopN))
        BY <3>1 DEF OnlyLeadersAreHeld, Stamps, FirstDay
      <3>4. ASSUME day \in RebalanceDays, NEW t \in schedule'.open \cap Priced(closes, day),
                   HasData(strategy, closes, factors, t, day)
            PROVE  Cardinality({u \in Tickers : /\ HasScore(strategy, closes, factors, u, day)
                                                 /\ ScoresMore(strategy, closes, factors, u, t, day)})
                      < TopN
        <4>1. t \in Leaders(strategy, closes, factors, day)
          BY <3>1, <3>4, LeadersStay
        <4> QED
          BY <4>1, FewBeatALeader
      <3> HIDE DEF last
      <3> QED
        BY <3>2, <3>3, <3>4
    <2>2. CASE (ScheduleDay /\ DaysAfter(day) = {}) \/ ReplayDay
      <3>1. pc' # "schedule"
        BY <2>2 DEF ScheduleDay, ReplayDay
      <3> QED
        BY <3>1 DEF OnlyLeadersAreHeld
    <2>3. CASE UNCHANGED vars
      BY <2>3 DEF vars, OnlyLeadersAreHeld, FirstDay
    <2> QED
      BY <2>1, <2>2, <2>3 DEF Next
  <1> QED
    BY <1>1, <1>2, WalkStarts, WalkGoesOn, PTL DEF Spec

-----------------------------------------------------------------------------
(***************************************************************************)
(* The trades.                                                             *)
(***************************************************************************)
Entered(t, d) == <<d, t>> \in schedule.entries
Exited(t, d) == <<d, t>> \in schedule.exits

\* Entries and exits are on time stamps with a price that the walk has passed.
EventsInv ==
  /\ schedule.entries \subseteq Stamps \X Tickers /\ schedule.exits \subseteq Stamps \X Tickers
  /\ schedule.open \subseteq Tickers
  /\ \A d \in Stamps, t \in Tickers : Entered(t, d) \/ Exited(t, d) =>
       t \in Priced(closes, d) /\ (pc = "schedule" => d < day)

\* Between two entries of a ticker there is an exit, and what has none after
\* its last entry is open, at the end for want of a price.
PairsInv ==
  /\ \A t \in Tickers : \A d, e \in Stamps : Entered(t, d) /\ Entered(t, e) /\ d < e =>
       \E x \in Stamps : Exited(t, x) /\ d <= x /\ x < e
  /\ \A t \in Tickers, d \in Stamps : Entered(t, d) /\ (\A x \in Stamps : Exited(t, x) => x < d) =>
       IF pc = "schedule" THEN t \in schedule.open ELSE t \notin Priced(closes, Final)

\* The days that the replay is through.
Replayed(d) == pc = "done" \/ (pc = "replay" /\ d < day)

HeldSince(t, d) ==
  /\ Entered(t, d) /\ Replayed(d)
  /\ \A x \in Stamps : Exited(t, x) /\ Replayed(x) => x < d

IsTrade(t, d, x) ==
  /\ Entered(t, d) /\ Exited(t, x) /\ Replayed(x) /\ d <= x
  /\ \A y \in Stamps : Exited(t, y) /\ y < x => y < d

\* What is open, and what is realized, of the days replayed.
TradesInv ==
  /\ DOMAIN openTrades \subseteq Tickers
  /\ \A t \in DOMAIN openTrades : openTrades[t] \in Stamps /\ HeldSince(t, openTrades[t])
  /\ \A t \in Tickers, d \in Stamps : HeldSince(t, d) => t \in DOMAIN openTrades
  /\ realized \subseteq Tickers \X Stamps \X Stamps
  /\ \A t \in Tickers : \A d, x \in Stamps : <<t, d, x>> \in realized <=> IsTrade(t, d, x)

ReplayInv == Walking /\ EventsInv /\ PairsInv /\ TradesInv

LEMMA ReplayInvStarts == Init => EventsInv /\ PairsInv /\ TradesInv
  BY DEF Init, EmptySchedule, EventsInv, PairsInv, TradesInv, Entered, Exited, HeldSince,
         IsTrade, Replayed

\* A day of the walk adds entries of what is not open and exits of what is.
LEMMA ScheduledKeepsPairs ==
  ASSUME Walking, EventsInv, PairsInv, pc = "schedule",
         NEW sched, sched = Scheduled(schedule, strategy, closes, factors, day)
  PROVE  /\ sched.entries \subseteq Stamps \X Tickers /\ sched.exits \subseteq Stamps \X Tickers
         /\ sched.open \subseteq Tickers
         /\ \A d \in Stamps, t \in Tickers :
              <<d, t>> \in sched.entries \/ <<d, t>> \in sched.exits =>
                t \in Priced(closes, d) /\ d <= day
         /\ \A t \in Tickers : \A d, e \in Stamps :
              <<d, t>> \in sched.entries /\ <<e, t>> \in sched.entries /\ d < e =>
                \E x \in Stamps : <<x, t>> \in sched.exits /\ d <= x /\ x < e
         /\ \A t \in Tickers, d \in Stamps :
              <<d, t>> \in sched.entries /\ (\A x \in Stamps : <<x, t>> \in sched.exits => x < d) =>
                t \in sched.open
  <1> DEFINE in == NewEntries(schedule.open, Buys(strategy, closes, factors, day) \cap Priced(closes, day))
             out == Sells(strategy, closes, factors, day) \cap Priced(closes, day) \cap schedule.open
  <1>1. /\ sched.entries = schedule.entries \cup ({day} \X in)
        /\ sched.exits = schedule.exits \cup ({day} \X out)
        /\ sched.open = (schedule.open \cup in) \ out
    BY DEF Scheduled
  <1>2. /\ in \subseteq Priced(closes, day) /\ in \cap schedule.open = {}
        /\ out \subseteq Priced(closes, day) /\ out \subseteq schedule.open
        /\ in \subseteq Tickers /\ out \subseteq Tickers
    BY DEF NewEntries, Priced
  <1> HIDE DEF in, out
  <1>3. \A d, t : <<d, t>> \in sched.entries <=> Entered(t, d) \/ (d = day /\ t \in in)
    BY <1>1 DEF Entered
  <1>4. \A d, t : <<d, t>> \in sched.exits <=> Exited(t, d) \/ (d = day /\ t \in out)
    BY <1>1 DEF Exited
  <1>5. day \in Stamps /\ day \in Nat /\ Stamps \subseteq Nat
    BY StampsAreDays DEF Walking
  <1>6. /\ sched.entries \subseteq Stamps \X Tickers /\ sched.exits \subseteq Stamps \X Tickers
        /\ sched.open \subseteq Tickers
    BY <1>1, <1>2, <1>5 DEF EventsInv
  <1>7. ASSUME NEW d \in Stamps, NEW t \in Tickers,
               <<d, t>> \in sched.entries \/ <<d, t>> \in sched.exits
        PROVE  t \in Priced(closes, d) /\ d <= day
    <2>1. CASE Entered(t, d) \/ Exited(t, d)
      BY <1>5, <2>1 DEF EventsInv
    <2>2. CASE d = day /\ (t \in in \/ t \in out)
      BY <1>2, <1>5, <2>2
    <2> QED
      BY <1>3, <1>4, <1>7, <2>1, <2>2
  <1>8. ASSUME NEW t \in Tickers, NEW d \in Stamps, NEW e \in Stamps,
               <<d, t>> \in sched.entries, <<e, t>> \in sched.entries, d < e
        PROVE  \E x \in Stamps : <<x, t>> \in sched.exits /\ d <= x /\ x < e
    <2>1. Entered(t, d) /\ d < day
      <3>1. e <= day
        BY <1>7, <1>8
      <3>2. d # day
        BY <1>5, <1>8, <3>1
      <3> QED
        BY <1>3, <1>8, <3>2 DEF EventsInv
    <2>2. CASE Entered(t, e)
      <3>1. PICK x \in Stamps : Exited(t, x) /\ d <= x /\ x < e
        BY <1>8, <2>1, <2>2 DEF PairsInv
      <3> QED
        BY <1>4, <3>1
    <2>3. CASE e = day /\ t \in in
      <3>1. t \notin schedule.open
        BY <1>2, <2>3
      <3>2. PICK x \in Stamps : Exited(t, x) /\ ~(x < d)
        BY <2>1, <3>1 DEF PairsInv
      <3>3. x < day
        BY <3>2 DEF EventsInv
      <3>4. d <= x
        BY <1>5, <3>2
      <3> QED
        BY <1>4, <2>3, <3>2, <3>3, <3>4
    <2> QED
      BY <1>3, <1>8, <2>2, <2>3
  <1>9. ASSUME NEW t \in Tickers, NEW d \in Stamps, <<d, t>> \in sched.entries,
               \A x \in Stamps : <<x, t>> \in sched.exits => x < d
        PROVE  t \in sched.open
    <2>1. CASE Entered(t, d)
      <3>1. t \in schedule.open
        BY <1>4, <1>9, <2>1 DEF PairsInv
      <3>2. t \notin out
        <4>1. ASSUME t \in out PROVE FALSE
          <5>1. day < d
            BY <1>4, <1>5, <1>9, <4>1
          <5>2. d < day
            BY <2>1 DEF EventsInv
          <5> QED
            BY <1>5, <5>1, <5>2
        <4> QED
          BY <4>1
      <3> QED
        BY <1>1, <3>1, <3>2
    <2>2. CASE d = day /\ t \in in
      BY <1>1, <1>2, <2>2
    <2> QED
      BY <1>3, <1>9, <2>1, <2>2
  <1> QED
    BY <1>6, <1>7, <1>8, <1>9

LEMMA ScheduleKeepsReplayInv ==
  ASSUME ReplayInv, ScheduleDay
  PROVE  EventsInv' /\ PairsInv' /\ TradesInv'
  <1> USE DEF ReplayInv
  <1> DEFINE sched == Scheduled(schedule, strategy, closes, factors, day)
  <1>1. /\ pc = "schedule" /\ strategy' = strategy /\ closes' = closes /\ factors' = factors
        /\ openTrades' = openTrades /\ realized' = realized
    BY DEF ScheduleDay
  <1>2. Stamps' = Stamps /\ Final' = Final /\ Stamps \subseteq Nat
    BY <1>1, StampsAreDays DEF Stamps, Final
  <1>3. /\ sched.entries \subseteq Stamps \X Tickers /\ sched.exits \subseteq Stamps \X Tickers
        /\ sched.open \subseteq Tickers
        /\ \A d \in Stamps, t \in Tickers :
              <<d, t>> \in sched.entries \/ <<d, t>> \in sched.exits =>
                t \in Priced(closes, d) /\ d <= day
        /\ \A t \in Tickers : \A d, e \in Stamps :
              <<d, t>> \in sched.entries /\ <<e, t>> \in sched.entries /\ d < e =>
                \E x \in Stamps : <<x, t>> \in sched.exits /\ d <= x /\ x < e
        /\ \A t \in Tickers, d \in Stamps :
              <<d, t>> \in sched.entries /\ (\A x \in Stamps : <<x, t>> \in sched.exits => x < d) =>
                t \in sched.open
    BY <1>1, ScheduledKeepsPairs
  <1>4. day \in Stamps /\ day \in Nat
    BY <1>2 DEF Walking
  <1>5. DOMAIN openTrades = {} /\ realized = {}
    <2>1. \A t \in Tickers, d \in Stamps : ~HeldSince(t, d)
      BY <1>1 DEF HeldSince, Replayed
    <2>2. \A t \in Tickers : \A d, x \in Stamps : ~IsTrade(t, d, x)
      BY <1>1 DEF IsTrade, Replayed
    <2>3. DOMAIN openTrades = {}
      BY <2>1 DEF TradesInv
    <2>4. realized = {}
      <3>1. ASSUME NEW r \in realized PROVE FALSE
        <4>1. PICK t \in Tickers, d \in Stamps, x \in Stamps : r = <<t, d, x>>
          BY DEF TradesInv
        <4> QED
          BY <2>2, <4>1 DEF TradesInv
      <3> QED
        BY <3>1
    <2> QED
      BY <2>3, <2>4
  <1>6. ASSUME \A d \in Stamps : ~Replayed(d)' PROVE TradesInv'
    <2>1. \A t \in Tickers, d \in Stamps : ~HeldSince(t, d)'
      BY <1>2, <1>6 DEF HeldSince
    <2>2. \A t \in Tickers : \A d, x \in Stamps : ~IsTrade(t, d, x)'
      BY <1>2, <1>6 DEF IsTrade
    <2> QED
      BY <1>1, <1>2, <1>5, <2>1, <2>2 DEF TradesInv
  <1>7. CASE DaysAfter(day) # {}
    <2>1. schedule' = sched /\ pc' = "schedule" /\ day' = Min(DaysAfter(day))
      BY <1>1, <1>7 DEF ScheduleDay
    <2>2. day' > day /\ day' \in Stamps
      BY <1>7, <2>1, WalkOfDays
    <2>3. \A d, t : /\ Entered(t, d)' <=> <<d, t>> \in sched.entries
                    /\ Exited(t, d)' <=> <<d, t>> \in sched.exits
      BY <2>1 DEF Entered, Exited
    <2> HIDE DEF sched
    <2>4. EventsInv'
      <3>1. \A d \in Stamps : d <= day => d < day'
        BY <1>2, <1>4, <2>2
      <3>2. \A d \in Stamps, t \in Tickers : Entered(t, d)' \/ Exited(t, d)' =>
              t \in Priced(closes, d) /\ d < day'
        BY <1>3, <2>3, <3>1
      <3> QED
        BY <1>1, <1>2, <1>3, <2>1, <3>2 DEF EventsInv, Priced
    <2>5. PairsInv'
      BY <1>2, <1>3, <2>1, <2>3 DEF PairsInv
    <2>6. TradesInv'
      BY <1>6, <2>1 DEF Replayed
    <2> QED
      BY <2>4, <2>5, <2>6
  <1>8. CASE DaysAfter(day) = {}
    <2> DEFINE last == {Final} \X (sched.open \cap Priced(closes, Final))
    <2>1. schedule' = FinalExits(sched, closes) /\ pc' = "replay" /\ day' = FirstDay /\ day = Final
      BY <1>8, WalkOfDays DEF ScheduleDay
    <2>2. /\ schedule'.entries = sched.entries /\ schedule'.exits = sched.exits \cup last
          /\ schedule'.open = sched.open
      BY <2>1 DEF FinalExits, Scheduled, Final, Stamps
    <2> HIDE DEF sched
    <2>3. last \subseteq Stamps \X Tickers
      BY <1>3, <1>4, <2>1
    <2>4. \A d, t : Entered(t, d)' <=> <<d, t>> \in sched.entries
      BY <2>2 DEF Entered
    <2>5. \A d, t : Exited(t, d)' <=> <<d, t>> \in sched.exits
                                     \/ (d = Final /\ t \in sched.open \cap Priced(closes, Final))
      BY <2>2 DEF Exited
    <2>6. EventsInv'
      <3>1. \A d \in Stamps, t \in Tickers : Entered(t, d)' \/ Exited(t, d)' => t \in Priced(closes, d)
        BY <1>3, <2>4, <2>5
      <3> QED
        BY <1>1, <1>2, <1>3, <2>1, <2>2, <2>3, <3>1 DEF EventsInv, Priced
    <2>7. PairsInv'
      <3>1. ASSUME NEW t \in Tickers, NEW d \in Stamps, NEW e \in Stamps,
                   Entered(t, d)', Entered(t, e)', d < e
            PROVE  \E x \in Stamps : Exited(t, x)' /\ d <= x /\ x < e
        BY <1>3, <2>4, <2>5, <3>1
      <3>2. ASSUME NEW t \in Tickers, NEW d \in Stamps, Entered(t, d)',
                   \A x \in Stamps : Exited(t, x)' => x < d
            PROVE  t \notin Priced(closes, Final)
        <4>1. t \in sched.open
          BY <1>3, <2>4, <2>5, <3>2
        <4>2. d <= Final /\ Final \in Stamps
          BY <1>3, <1>4, <2>1, <2>4, <3>2
        <4>3. ASSUME t \in Priced(closes, Final) PROVE FALSE
          <5>1. Final < d
            BY <2>5, <3>2, <4>1, <4>2, <4>3
          <5> QED
            BY <1>2, <4>2, <5>1
        <4> QED
          BY <4>3
      <3>3. Priced(closes, Final)' = Priced(closes, Final)
        BY <1>1, <1>2 DEF Priced
      <3> QED
        BY <1>2, <2>1, <3>1, <3>2, <3>3 DEF PairsInv
    <2>8. TradesInv'
      <3>1. FirstDay \in Stamps /\ \A d \in Stamps : FirstDay <= d
        BY WalkOfDays
      <3>2. \A d \in Stamps : ~(d < FirstDay)
        BY <1>2, <3>1
      <3> QED
        BY <1>6, <2>1, <3>2 DEF Replayed
    <2> QED
      BY <2>6, <2>7, <2>8
  <1> QED
    BY <1>7, <1>8

\* The days of the replay: the day joins those it is through.
LEMMA ReplayGoesOn ==
  ASSUME Walking, ReplayDay
  PROVE  \A d \in Stamps : Replayed(d)' <=> Replayed(d) \/ d = day
  <1>1. Stamps \subseteq Nat /\ day \in Stamps
    BY StampsAreDays DEF Walking
  <1>2. pc = "replay" /\ \A d \in Stamps : Replayed(d) <=> d < day
    BY DEF ReplayDay, Replayed
  <1>3. CASE DaysAfter(day) # {}
    <2>1. pc' = "replay" /\ day' = Min(DaysAfter(day))
      BY <1>2, <1>3 DEF ReplayDay
    <2>2. day' \in Stamps /\ day' > day /\ \A d \in Stamps : d > day => day' <= d
      BY <1>3, <2>1, WalkOfDays
    <2>3. ASSUME NEW d \in Stamps PROVE d < day' <=> d < day \/ d = day
      <3>1. d \in Nat /\ day \in Nat /\ day' \in Nat
        BY <1>1, <2>2
      <3> QED
        BY <2>2, <3>1
    <2> QED
      BY <1>2, <2>1, <2>3 DEF Replayed
  <1>4. CASE DaysAfter(day) = {}
    <2>1. pc' = "done" /\ day = Final
      BY <1>4, WalkOfDays DEF ReplayDay
    <2>2. \A d \in Stamps : d <= day
      BY <2>1, WalkOfDays
    <2>3. ASSUME NEW d \in Stamps PROVE d < day \/ d = day
      <3>1. d \in Nat /\ day \in Nat /\ d <= day
        BY <1>1, <2>2
      <3> QED
        BY <3>1
    <2> QED
      BY <1>2, <2>1, <2>3 DEF Replayed
  <1> QED
    BY <1>3, <1>4

\* A ticker is held since one day at most.
LEMMA HeldSinceOneDay ==
  ASSUME ReplayInv, NEW t \in Tickers, NEW d \in Stamps, NEW e \in Stamps,
         HeldSince(t, d), HeldSince(t, e)
  PROVE  d = e
  <1>1. d \in Nat /\ e \in Nat /\ Stamps \subseteq Nat
    BY StampsAreDays
  <1>2. ASSUME NEW a \in Stamps, NEW b \in Stamps, HeldSince(t, a), HeldSince(t, b), a < b
        PROVE  FALSE
    <2>1. PICK x \in Stamps : Exited(t, x) /\ a <= x /\ x < b
      BY <1>2 DEF ReplayInv, PairsInv, HeldSince
    <2>2. Replayed(x)
      <3>1. Replayed(b)
        BY <1>2 DEF HeldSince
      <3>2. x \in Nat /\ b \in Nat /\ day \in Nat
        BY <1>1 DEF ReplayInv, Walking
      <3> QED
        BY <2>1, <3>1, <3>2 DEF Replayed
    <2>3. x < a
      BY <1>2, <2>1, <2>2 DEF HeldSince
    <2>4. x \in Nat /\ a \in Nat
      BY <1>1
    <2> QED
      BY <2>1, <2>3, <2>4
  <1> QED
    BY <1>1, <1>2

LEMMA ReplayKeepsReplayInv ==
  ASSUME ReplayInv, ReplayDay
  PROVE  EventsInv' /\ PairsInv' /\ TradesInv'
  <1> USE DEF ReplayInv
  <1> DEFINE entered == (On(schedule.entries, day) \cap Priced(closes, day)) \ DOMAIN openTrades
             open == [t \in DOMAIN openTrades \cup entered |->
                        IF t \in entered THEN day ELSE openTrades[t]]
             closed == Closing(open, day) \cap Priced(closes, day)
  <1>1. /\ pc = "replay" /\ pc' # "schedule"
        /\ strategy' = strategy /\ closes' = closes /\ factors' = factors /\ schedule' = schedule
        /\ realized' = realized \cup {<<t, open[t], day>> : t \in closed}
        /\ openTrades' = [t \in DOMAIN open \ closed |-> open[t]]
    BY DEF ReplayDay
  <1>2. Stamps' = Stamps /\ Final' = Final /\ Stamps \subseteq Nat /\ day \in Stamps /\ day \in Nat
    BY <1>1, StampsAreDays DEF Stamps, Final, Walking
  <1>3. \A t, d : (Entered(t, d)' <=> Entered(t, d)) /\ (Exited(t, d)' <=> Exited(t, d))
    BY <1>1 DEF Entered, Exited
  <1>4. EventsInv'
    <2>1. \A d \in Stamps, t \in Tickers : Entered(t, d) \/ Exited(t, d) => t \in Priced(closes, d)
      BY DEF EventsInv
    <2> QED
      BY <1>1, <1>2, <1>3, <2>1 DEF EventsInv, Priced
  <1>5. PairsInv'
    <2>1. Priced(closes, Final)' = Priced(closes, Final)
      BY <1>1, <1>2 DEF Priced
    <2> QED
      BY <1>1, <1>2, <1>3, <2>1 DEF PairsInv
  <1>6. \A d \in Stamps : Replayed(d)' <=> Replayed(d) \/ d = day
    BY ReplayGoesOn
  <1>7. \A d \in Stamps : Replayed(d) <=> d < day
    BY <1>1 DEF Replayed
  \* Nothing stands in the way of an entry.
  <1>8. ASSUME NEW t \in Tickers, Entered(t, day)
        PROVE  t \notin DOMAIN openTrades /\ t \in entered
    <2>1. ASSUME t \in DOMAIN openTrades PROVE FALSE
      <3>1. PICK e \in Stamps : HeldSince(t, e)
        BY <2>1 DEF TradesInv
      <3>2. Entered(t, e) /\ e < day
        BY <1>7, <3>1 DEF HeldSince
      <3>3. PICK x \in Stamps : Exited(t, x) /\ e <= x /\ x < day
        BY <1>2, <1>8, <3>1, <3>2 DEF PairsInv
      <3>4. x < e
        BY <1>7, <3>1, <3>3 DEF HeldSince
      <3>5. x \in Nat /\ e \in Nat
        BY <1>2
      <3> QED
        BY <3>3, <3>4, <3>5
    <2>2. t \in Priced(closes, day) /\ t \in On(schedule.entries, day)
      BY <1>2, <1>8 DEF EventsInv, On, Entered
    <2> QED
      BY <2>1, <2>2
  <1>9. \A t \in entered : t \in Tickers /\ Entered(t, day) /\ t \notin DOMAIN openTrades
    BY DEF On, Entered
  <1>10. DOMAIN open = DOMAIN openTrades \cup entered /\ DOMAIN open \subseteq Tickers
    BY <1>9 DEF TradesInv
  <1>11. \A t \in DOMAIN open : t \in closed <=> Exited(t, day)
    <2>1. \A t \in DOMAIN open : t \in Closing(open, day) <=> Exited(t, day)
      <3> HIDE DEF open
      <3> QED
        BY <1>10 DEF Closing, On, Exited
    <2>2. \A t \in DOMAIN open : Exited(t, day) => t \in Priced(closes, day)
      BY <1>2, <1>10 DEF EventsInv
    <2> HIDE DEF open
    <2> QED
      BY <2>1, <2>2
  <1>12. closed \subseteq DOMAIN open
    <2> HIDE DEF open
    <2> QED
      BY DEF Closing
  \* What is open on the day before it is closed, and nothing else.
  <1>13. ASSUME NEW t \in DOMAIN open
         PROVE  /\ open[t] \in Stamps /\ open[t] <= day /\ Entered(t, open[t])
                /\ \A x \in Stamps : Exited(t, x) /\ x < day => x < open[t]
    <2>1. CASE t \in entered
      <3>1. open[t] = day
        BY <2>1
      <3> QED
        BY <1>2, <1>9, <2>1, <3>1
    <2>2. CASE t \notin entered
      <3>1. t \in DOMAIN openTrades /\ open[t] = openTrades[t]
        BY <2>2
      <3>2. PICK e \in Stamps : e = open[t] /\ HeldSince(t, e)
        <4> HIDE DEF open
        <4> QED
          BY <3>1 DEF TradesInv
      <3>3. e < day /\ e \in Nat
        BY <1>2, <1>7, <3>2 DEF HeldSince
      <3>4. Entered(t, e) /\ \A x \in Stamps : Exited(t, x) /\ x < day => x < e
        BY <1>7, <3>2 DEF HeldSince
      <3>5. e <= day
        BY <1>2, <3>3
      <3> HIDE DEF open
      <3> QED
        BY <3>2, <3>4, <3>5
    <2> QED
      BY <2>1, <2>2
  <1>14. ASSUME NEW t \in Tickers, NEW d \in Stamps, Entered(t, d), d <= day,
                \A x \in Stamps : Exited(t, x) /\ x < day => x < d
         PROVE  t \in DOMAIN open /\ open[t] = d
    <2>1. CASE d = day
      <3>1. t \in entered
        BY <1>8, <1>14, <2>1
      <3> QED
        BY <2>1, <3>1
    <2>2. CASE d # day
      <3>1. HeldSince(t, d)
        BY <1>2, <1>7, <1>14, <2>2 DEF HeldSince
      <3>2. t \in DOMAIN openTrades
        BY <3>1 DEF TradesInv
      <3>3. openTrades[t] = d
        BY <3>1, <3>2, HeldSinceOneDay DEF TradesInv
      <3>4. t \notin entered
        BY <1>9, <3>2
      <3> QED
        BY <3>2, <3>3, <3>4
    <2> QED
      BY <2>1, <2>2
  <1> HIDE DEF open, entered, closed
  <1>15. ASSUME NEW t \in Tickers, NEW d \in Stamps
         PROVE  HeldSince(t, d)' <=> t \in DOMAIN open \ closed /\ open[t] = d
    <2>1. HeldSince(t, d)' <=> /\ Entered(t, d) /\ d <= day
                               /\ \A x \in Stamps : Exited(t, x) /\ x <= day => x < d
      <3>1. \A x \in Stamps : Replayed(x)' <=> x <= day
        BY <1>2, <1>6, <1>7
      <3> QED
        BY <1>2, <1>3, <3>1 DEF HeldSince
    <2>2. ASSUME Entered(t, d), d <= day, \A x \in Stamps : Exited(t, x) /\ x <= day => x < d
          PROVE  t \in DOMAIN open \ closed /\ open[t] = d
      <3>1. \A x \in Stamps : Exited(t, x) /\ x < day => x < d
        BY <1>2, <2>2
      <3>2. t \in DOMAIN open /\ open[t] = d
        BY <1>14, <2>2, <3>1
      <3>3. ~Exited(t, day)
        BY <1>2, <2>2
      <3> QED
        BY <1>11, <3>2, <3>3
    <2>3. ASSUME t \in DOMAIN open \ closed, open[t] = d
          PROVE  Entered(t, d) /\ d <= day /\ \A x \in Stamps : Exited(t, x) /\ x <= day => x < d
      <3>1. ~Exited(t, day)
        BY <1>11, <2>3
      <3>2. Entered(t, d) /\ d <= day /\ \A x \in Stamps : Exited(t, x) /\ x < day => x < d
        BY <1>13, <2>3
      <3> QED
        BY <1>2, <3>1, <3>2
    <2> QED
      BY <2>1, <2>2, <2>3
  <1>16. ASSUME NEW t \in Tickers, NEW d \in Stamps, NEW x \in Stamps
         PROVE  IsTrade(t, d, x)' <=> IsTrade(t, d, x) \/ (x = day /\ t \in closed /\ open[t] = d)
    <2>1. CASE x # day
      <3>1. Replayed(x)' <=> Replayed(x)
        BY <1>6, <2>1
      <3> QED
        BY <1>2, <1>3, <2>1, <3>1 DEF IsTrade
    <2>2. CASE x = day
      <3>1. Replayed(x)' /\ ~Replayed(x)
        BY <1>2, <1>6, <1>7, <2>2
      <3>2. IsTrade(t, d, x)' <=> /\ Entered(t, d) /\ Exited(t, day) /\ d <= day
                                  /\ \A y \in Stamps : Exited(t, y) /\ y < day => y < d
        BY <1>2, <1>3, <2>2, <3>1 DEF IsTrade
      <3>3. ~IsTrade(t, d, x)
        BY <3>1 DEF IsTrade
      <3>4. ASSUME Entered(t, d), Exited(t, day), d <= day,
                   \A y \in Stamps : Exited(t, y) /\ y < day => y < d
            PROVE  t \in closed /\ open[t] = d
        BY <1>11, <1>14, <3>4
      <3>5. ASSUME t \in closed, open[t] = d
            PROVE  /\ Entered(t, d) /\ Exited(t, day) /\ d <= day
                   /\ \A y \in Stamps : Exited(t, y) /\ y < day => y < d
        BY <1>11, <1>12, <1>13, <3>5
      <3> QED
        BY <2>2, <3>2, <3>3, <3>4, <3>5
    <2> QED
      BY <2>1, <2>2
  <1>17. TradesInv'
    <2>1. DOMAIN openTrades' = DOMAIN open \ closed
          /\ \A t \in DOMAIN open \ closed : openTrades'[t] = open[t]
      BY <1>1
    <2>2. DOMAIN openTrades' \subseteq Tickers
      BY <1>10, <2>1
    <2>3. \A t \in DOMAIN openTrades' : openTrades'[t] \in Stamps
      BY <1>13, <2>1
    <2>4. ASSUME NEW t \in DOMAIN openTrades' PROVE HeldSince(t, openTrades[t])'
      <3>1. t \in DOMAIN open \ closed /\ openTrades'[t] = open[t] /\ t \in Tickers
            /\ open[t] \in Stamps /\ open[t] <= day /\ Entered(t, open[t])
        BY <1>13, <2>1, <2>2
      <3>2. \A x \in Stamps : Exited(t, x) /\ x <= day => x < open[t]
        BY <1>2, <1>11, <1>13, <3>1
      <3>3. \A x \in Stamps : Replayed(x)' <=> x <= day
        BY <1>2, <1>6, <1>7
      <3> QED
        BY <1>2, <1>3, <3>1, <3>2, <3>3 DEF HeldSince
    <2>5. \A t \in Tickers, d \in Stamps : HeldSince(t, d)' => t \in DOMAIN openTrades'
      BY <1>15, <2>1
    <2>6. realized' \subseteq Tickers \X Stamps \X Stamps
      <3>1. ASSUME NEW t \in closed PROVE <<t, open[t], day>> \in Tickers \X Stamps \X Stamps
        BY <1>2, <1>10, <1>12, <1>13
      <3> QED
        BY <1>1, <3>1 DEF TradesInv
    <2>7. ASSUME NEW t \in Tickers, NEW d \in Stamps, NEW x \in Stamps
          PROVE  <<t, d, x>> \in realized' <=> IsTrade(t, d, x)'
      <3>1. <<t, d, x>> \in realized' <=> \/ <<t, d, x>> \in realized
                                          \/ x = day /\ t \in closed /\ open[t] = d
        BY <1>1
      <3> QED
        BY <1>16, <3>1 DEF TradesInv
    <2> QED
      BY <1>2, <2>2, <2>3, <2>4, <2>5, <2>6, <2>7 DEF TradesInv
  <1> QED
    BY <1>4, <1>5, <1>17

LEMMA ReplayInvAlways == Spec => []ReplayInv
  <1>1. Init => ReplayInv
    BY WalkStarts, ReplayInvStarts DEF ReplayInv
  <1>2. ReplayInv /\ [Next]_vars => ReplayInv'
    <2> SUFFICES ASSUME ReplayInv, [Next]_vars
                 PROVE  ReplayInv'
      OBVIOUS
    <2>1. Walking'
      BY WalkGoesOn DEF ReplayInv
    <2>2. CASE UNCHANGED vars
      <3>1. Stamps' = Stamps /\ Final' = Final /\ \A d : Replayed(d)' = Replayed(d)
        BY <2>2 DEF vars, Stamps, Final, Replayed
      <3>2. EventsInv' /\ PairsInv'
        BY <2>2, <3>1 DEF vars, ReplayInv, EventsInv, PairsInv, Entered, Exited, Priced
      <3>3. TradesInv'
        BY <2>2, <3>1 DEF vars, ReplayInv, TradesInv, Entered, Exited, HeldSince, IsTrade
      <3> QED
        BY <2>1, <3>2, <3>3 DEF ReplayInv
    <2> QED
      BY <2>1, <2>2, ScheduleKeepsReplayInv, ReplayKeepsReplayInv DEF Next, ReplayInv
  <1> QED
    BY <1>1, <1>2, PTL DEF Spec

(* The replay makes one trade of every entry of the schedule, that the next  *)
(* exit closes, or none if there is no price to close it at                  *)
(* (_build_signal_schedule, _run_fallback).                                  *)
THEOREM EntriesAreRealized == Spec => []EveryEntryIsRealized
  <1>1. ReplayInv => EveryEntryIsRealized
    <2> SUFFICES ASSUME ReplayInv, pc = "done", NEW entry \in schedule.entries
                 PROVE  LET later == {x \in schedule.exits : x[2] = entry[2] /\ x[1] >= entry[1]}
                            trades == {r \in realized : r[1] = entry[2] /\ r[2] = entry[1]}
                        IN IF later = {}
                           THEN trades = {} /\ entry[2] \notin Priced(closes, Max(Timestamps(closes)))
                           ELSE trades = {<<entry[2], entry[1], Min({x[1] : x \in later})>>}
      BY DEF EveryEntryIsRealized
    <2> USE DEF ReplayInv
    <2>1. PICK d \in Stamps, t \in Tickers : entry = <<d, t>>
      BY DEF EventsInv
    <2> DEFINE later == {x \in schedule.exits : x[2] = t /\ x[1] >= d}
               trades == {r \in realized : r[1] = t /\ r[2] = d}
               days == {x[1] : x \in later}
    <2>2. Entered(t, d) /\ Stamps \subseteq Nat /\ d \in Nat
      BY <2>1, StampsAreDays DEF Entered
    <2>3. \A x \in Stamps : Replayed(x)
      BY DEF Replayed
    <2>4. \A x : x \in days <=> x \in Stamps /\ Exited(t, x) /\ x >= d
      <3>1. ASSUME NEW x \in days PROVE x \in Stamps /\ Exited(t, x) /\ x >= d
        <4>1. PICK y \in schedule.exits : y[1] = x /\ y[2] = t /\ y[1] >= d
          OBVIOUS
        <4>2. y = <<x, t>> /\ x \in Stamps
          BY <4>1 DEF EventsInv
        <4> QED
          BY <4>1, <4>2 DEF Exited
      <3>2. ASSUME NEW x \in Stamps, Exited(t, x), x >= d PROVE x \in days
        <4>1. <<x, t>> \in later
          BY <3>2 DEF Exited
        <4>2. <<x, t>>[1] = x
          OBVIOUS
        <4> HIDE DEF later
        <4> QED
          BY <4>1, <4>2
      <3> HIDE DEF days
      <3> QED
        BY <3>1, <3>2
    <2>5. \A r : r \in trades <=> \E x \in Stamps : r = <<t, d, x>> /\ IsTrade(t, d, x)
      <3>1. ASSUME NEW r \in trades PROVE \E x \in Stamps : r = <<t, d, x>> /\ IsTrade(t, d, x)
        <4>1. r \in realized /\ r[1] = t /\ r[2] = d
          OBVIOUS
        <4>2. PICK u \in Tickers, e \in Stamps, x \in Stamps : r = <<u, e, x>>
          BY <4>1 DEF TradesInv
        <4>3. u = t /\ e = d
          BY <4>1, <4>2
        <4> QED
          BY <4>1, <4>2, <4>3 DEF TradesInv
      <3>2. ASSUME NEW x \in Stamps, IsTrade(t, d, x) PROVE <<t, d, x>> \in trades
        BY <3>2 DEF TradesInv
      <3> HIDE DEF trades
      <3> QED
        BY <3>1, <3>2
    <2>6. \A x \in Stamps : IsTrade(t, d, x) <=> x \in days /\ \A y \in days : x <= y
      <3> HIDE DEF days
      <3>1. ASSUME NEW x \in Stamps, IsTrade(t, d, x) PROVE x \in days /\ \A y \in days : x <= y
        <4>1. Exited(t, x) /\ d <= x /\ \A y \in Stamps : Exited(t, y) /\ y < x => y < d
          BY <3>1 DEF IsTrade
        <4>2. x \in days
          BY <2>2, <2>4, <4>1
        <4>3. ASSUME NEW y \in days PROVE x <= y
          <5>1. y \in Stamps /\ Exited(t, y) /\ y >= d /\ y \in Nat /\ x \in Nat
            BY <2>2, <2>4
          <5> QED
            BY <2>2, <4>1, <5>1
        <4> QED
          BY <4>2, <4>3
      <3>2. ASSUME NEW x \in Stamps, x \in days, \A y \in days : x <= y PROVE IsTrade(t, d, x)
        <4>1. Exited(t, x) /\ d <= x /\ x \in Nat
          BY <2>2, <2>4, <3>2
        <4>2. ASSUME NEW y \in Stamps, Exited(t, y), y < x PROVE y < d
          <5>1. y \notin days /\ y \in Nat
            BY <2>2, <3>2, <4>1, <4>2
          <5> QED
            BY <2>2, <2>4, <4>2, <5>1
        <4> QED
          BY <2>2, <2>3, <4>1, <4>2 DEF IsTrade
      <3> QED
        BY <3>1, <3>2
    <2>7. (later = {}) <=> (days = {})
      OBVIOUS
    <2>8. CASE later = {}
      <3>1. days = {}
        BY <2>7, <2>8
      <3>2. trades = {}
        <4> HIDE DEF days, trades
        <4> QED
          BY <2>5, <2>6, <3>1
      <3>3. t \notin Priced(closes, Final)
        <4>1. ASSUME NEW x \in Stamps, Exited(t, x) PROVE x < d
          <5> HIDE DEF days
          <5>1. x \in Nat /\ x \notin days
            BY <2>2, <3>1
          <5> QED
            BY <2>2, <2>4, <4>1, <5>1
        <4> QED
          BY <2>2, <4>1 DEF PairsInv
      <3> HIDE DEF trades, later
      <3> QED
        BY <2>1, <2>8, <3>2, <3>3 DEF Final, Stamps, trades, later
    <2>9. CASE later # {}
      <3>1. Min(days) \in days /\ \A y \in days : Min(days) <= y
        <4>1. days # {}
          BY <2>7, <2>9
        <4> HIDE DEF days
        <4>2. days \subseteq Nat
          BY <2>2, <2>4
        <4> QED
          BY <4>1, <4>2, FirstOfDays
      <3>2. trades = {<<t, d, Min(days)>>}
        <4> HIDE DEF days, trades
        <4>1. Min(days) \in Stamps
          BY <2>4, <3>1
        <4>2. IsTrade(t, d, Min(days))
          BY <2>6, <3>1, <4>1
        <4>3. ASSUME NEW x \in Stamps, IsTrade(t, d, x) PROVE x = Min(days)
          <5>1. x <= Min(days) /\ Min(days) <= x
            BY <2>6, <3>1, <4>3
          <5>2. x \in Nat /\ Min(days) \in Nat
            BY <2>2, <4>1
          <5> QED
            BY <5>1, <5>2
        <4> QED
          BY <2>5, <4>1, <4>2, <4>3
      <3> HIDE DEF trades, days, later
      <3> QED
        BY <2>1, <2>9, <3>2 DEF trades, days, later
    <2> QED
      BY <2>8, <2>9
  <1> QED
    BY <1>1, ReplayInvAlways, PTL

-----------------------------------------------------------------------------
(***************************************************************************)
(* The schedule of the past.                                               *)
(***************************************************************************)
\* The recursive definition has a solution: the days can be taken one by one.
LEMMA ScheduleByDayIs ==
  ASSUME NEW h, NEW f
  PROVE  ScheduleByDay(h, f) =
           [d \in 0..(End + 1) |-> IF d = 0 THEN EmptySchedule
                                   ELSE Continued(ScheduleByDay(h, f)[d - 1], h, f, d - 1)]
  <1> DEFINE Fits(n, g) == g = [d \in 0..n |-> IF d = 0 THEN EmptySchedule
                                               ELSE Continued(g[d - 1], h, f, d - 1)]
             T == {n \in Nat : ~\E g : Fits(n, g)}
  <1>1. ASSUME T # {} PROVE FALSE
    <2>1. PICK m \in T : \A n \in T : m <= n
      <3>1. T \subseteq Nat
        OBVIOUS
      <3> HIDE DEF T
      <3> QED
        BY <1>1, <3>1, LeastNatural
    <2>2. m \in Nat /\ ~\E g : Fits(m, g)
      OBVIOUS
    <2>3. CASE m = 0
      <3> DEFINE g == [d \in 0..0 |-> EmptySchedule]
      <3>1. Fits(0, g)
        OBVIOUS
      <3> QED
        BY <2>2, <2>3, <3>1
    <2>4. CASE m # 0
      <3>1. m - 1 \in Nat /\ m - 1 \notin T
        BY <2>1, <2>2, <2>4, SMTT(30)
      <3>2. PICK g : Fits(m - 1, g)
        BY <3>1
      <3> DEFINE k == [d \in 0..m |-> IF d = 0 THEN EmptySchedule ELSE Continued(g[d - 1], h, f, d - 1)]
      <3>3. ASSUME NEW d \in 0..(m - 1) PROVE k[d] = g[d]
        <4>1. d \in 0..m
          BY <2>2
        <4>2. g[d] = IF d = 0 THEN EmptySchedule ELSE Continued(g[d - 1], h, f, d - 1)
          BY <3>2
        <4> QED
          BY <4>1, <4>2
      <3>4. ASSUME NEW d \in 0..m, d # 0 PROVE k[d - 1] = g[d - 1]
        <4>1. d - 1 \in 0..(m - 1)
          BY <2>2, <3>4
        <4> HIDE DEF k
        <4> QED
          BY <3>3, <4>1
      <3>5. \A d \in 0..m : k[d] = IF d = 0 THEN EmptySchedule ELSE Continued(g[d - 1], h, f, d - 1)
        OBVIOUS
      <3>6. k = [d \in 0..m |-> k[d]]
        OBVIOUS
      <3> HIDE DEF k
      <3>7. \A d \in 0..m : k[d] = IF d = 0 THEN EmptySchedule ELSE Continued(k[d - 1], h, f, d - 1)
        BY <3>4, <3>5
      <3>8. Fits(m, k)
        BY <3>6, <3>7
      <3> QED
        BY <2>2, <3>8
    <2> QED
      BY <2>3, <2>4
  <1>2. End + 1 \in Nat
    BY BacktestConstants
  <1>3. \E g : Fits(End + 1, g)
    BY <1>1, <1>2
  <1>4. Fits(End + 1, CHOOSE g : Fits(End + 1, g))
    BY <1>3
  <1> QED
    BY <1>4 DEF ScheduleByDay

LEMMA ScheduleDayByDay ==
  ASSUME NEW h, NEW f
  PROVE  /\ ScheduleByDay(h, f)[0] = EmptySchedule
         /\ \A d \in 0..End : ScheduleByDay(h, f)[d + 1] = Continued(ScheduleByDay(h, f)[d], h, f, d)
  <1> DEFINE S == ScheduleByDay(h, f)
  <1>1. S = [d \in 0..(End + 1) |-> IF d = 0 THEN EmptySchedule ELSE Continued(S[d - 1], h, f, d - 1)]
    BY ScheduleByDayIs
  <1> HIDE DEF S
  <1>2. End \in Nat
    BY BacktestConstants
  <1>3. \A d \in 0..(End + 1) : S[d] = IF d = 0 THEN EmptySchedule ELSE Continued(S[d - 1], h, f, d - 1)
    BY <1>1
  <1>4. S[0] = EmptySchedule
    BY <1>2, <1>3
  <1>5. ASSUME NEW d \in 0..End PROVE S[d + 1] = Continued(S[d], h, f, d)
    <2>1. d + 1 \in 0..(End + 1) /\ d + 1 # 0 /\ (d + 1) - 1 = d
      BY <1>2
    <2> QED
      BY <1>3, <2>1
  <1> QED
    BY <1>4, <1>5 DEF S

\* Where there is no time stamp the schedule does not change.
LEMMA QuietDays ==
  ASSUME NEW h, NEW f, NEW a \in 0..(End + 1), NEW b \in 0..(End + 1), a <= b,
         \A d \in Timestamps(h) : ~(a <= d /\ d < b)
  PROVE  ScheduleByDay(h, f)[b] = ScheduleByDay(h, f)[a]
  <1> DEFINE S == ScheduleByDay(h, f)
             T == {c \in a..b : S[c] # S[a]}
  <1>1. End \in Nat /\ a \in Nat /\ b \in Nat
    BY BacktestConstants
  <1>2. ASSUME T # {} PROVE FALSE
    <2>1. T \subseteq Nat
      BY <1>1
    <2>2. PICK c \in T : \A e \in T : c <= e
      <3> HIDE DEF T
      <3> QED
        BY <1>2, <2>1, LeastNatural
    <2>3. c \in a..b /\ S[c] # S[a] /\ c # a
      OBVIOUS
    <2>4. c - 1 \in a..b /\ c - 1 \in 0..End /\ (c - 1) + 1 = c /\ c - 1 \notin T /\ c - 1 < b
      <3>1. c \in Nat /\ c > a /\ c <= b
        BY <1>1, <2>3
      <3>2. ~(c <= c - 1)
        BY <3>1
      <3> HIDE DEF T
      <3> QED
        BY <1>1, <2>2, <3>1, <3>2
    <2>5. S[c - 1] = S[a]
      BY <2>4
    <2>6. c - 1 \notin Timestamps(h)
      BY <1>1, <2>4
    <2>7. S[(c - 1) + 1] = Continued(S[c - 1], h, f, c - 1)
      BY <2>4, ScheduleDayByDay
    <2>8. S[c] = S[c - 1]
      BY <2>4, <2>6, <2>7 DEF Continued
    <2> QED
      BY <2>3, <2>5, <2>8
  <1>3. b \in a..b
    BY <1>1
  <1> QED
    BY <1>2, <1>3

\* The walk has what the recursion has for its day.
ByDayInv == pc = "schedule" => schedule = Scheduling(closes, factors)

LEMMA ByDayStarts == Init => ByDayInv
  <1> SUFFICES ASSUME Init
               PROVE  schedule = Scheduling(closes, factors)
    BY DEF ByDayInv
  <1>1. Walking
    BY WalkStarts
  <1>2. day = FirstDay /\ schedule = EmptySchedule
    BY DEF Init
  <1>3. day \in Stamps /\ \A d \in Stamps : day <= d
    BY <1>1, <1>2, WalkOfDays
  <1>4. day \in 0..(End + 1) /\ 0 \in 0..(End + 1) /\ 0 <= day
    BY <1>3, StampsAreDays, BacktestConstants
  <1>5. \A d \in Timestamps(closes) : ~(0 <= d /\ d < day)
    <2>1. ASSUME NEW d \in Timestamps(closes) PROVE ~(d < day)
      <3>1. d \in Nat /\ day \in Nat /\ day <= d
        BY <1>3, StampsAreDays DEF Stamps
      <3> QED
        BY <3>1
    <2> QED
      BY <2>1
  <1>6. ScheduleByDay(closes, factors)[day] = ScheduleByDay(closes, factors)[0]
    BY <1>4, <1>5, QuietDays
  <1> QED
    BY <1>2, <1>6, ScheduleDayByDay DEF Scheduling

LEMMA WalkIsByDay ==
  ASSUME Walking, ByDayInv, ScheduleDay
  PROVE  ByDayInv'
  <1> SUFFICES ASSUME pc' = "schedule"
               PROVE  schedule' = Scheduling(closes, factors)'
    BY DEF ByDayInv
  <1> DEFINE S == ScheduleByDay(closes, factors)
  <1>1. /\ DaysAfter(day) # {} /\ day' = Min(DaysAfter(day))
        /\ schedule' = Scheduled(schedule, strategy, closes, factors, day)
        /\ strategy' = strategy /\ closes' = closes /\ factors' = factors
    BY DEF ScheduleDay
  <1>2. day' \in Stamps /\ day' > day /\ \A d \in Stamps : d > day => day' <= d
    BY <1>1, WalkOfDays
  <1>3. day \in Stamps /\ day \in Nat /\ day' \in Nat /\ End \in Nat /\ day <= End /\ day' <= End
    BY <1>2, StampsAreDays, BacktestConstants DEF Walking
  <1>4. schedule = S[day]
    BY DEF ByDayInv, ScheduleDay, Scheduling
  <1>5. S[day + 1] = schedule'
    <2>1. day \in 0..End
      BY <1>3
    <2>2. S[day + 1] = Continued(S[day], closes, factors, day)
      BY <2>1, ScheduleDayByDay
    <2> QED
      BY <1>1, <1>3, <1>4, <2>2 DEF Continued, Stamps
  <1>6. S[day'] = S[day + 1]
    <2>1. day + 1 \in 0..(End + 1) /\ day' \in 0..(End + 1) /\ day + 1 <= day'
      BY <1>2, <1>3
    <2>2. ASSUME NEW d \in Timestamps(closes) PROVE ~(day + 1 <= d /\ d < day')
      <3>1. d \in Nat /\ d \in Stamps
        BY StampsAreDays DEF Stamps
      <3> QED
        BY <1>2, <1>3, <3>1
    <2> QED
      BY <2>1, <2>2, QuietDays
  <1>7. Scheduling(closes, factors)' = S[day']
    <2>1. ScheduleByDay(closes, factors)' = ScheduleByDay(closes, factors)
      BY <1>1 DEF ScheduleByDay, Continued, Scheduled, EmptySchedule
    <2> QED
      BY <2>1 DEF Scheduling
  <1> QED
    BY <1>5, <1>6, <1>7

-----------------------------------------------------------------------------
(***************************************************************************)
(* No look-ahead.                                                          *)
(***************************************************************************)
\* Two tables that agree up to a day.
Agree(tab, other, dates, n) ==
  \A t \in Tickers : \A d \in dates : d < n => tab[t][d] = other[t][d]

LEMMA SameBars ==
  ASSUME NEW h, NEW k, NEW n \in Nat, Agree(h, k, Days, n),
         NEW t \in Tickers, NEW d \in Days, d < n
  PROVE  Bars(h, t, d) = Bars(k, t, d)
  <1>1. ASSUME NEW i \in 1..(d + 1) PROVE h[t][i - 1] = k[t][i - 1]
    <2>1. i - 1 \in Days /\ i - 1 < n
      BY BacktestConstants DEF Days
    <2> QED
      BY <2>1 DEF Agree
  <1>2. [i \in 1..(d + 1) |-> h[t][i - 1]] = [i \in 1..(d + 1) |-> k[t][i - 1]]
    BY <1>1
  <1> QED
    BY <1>2 DEF Bars

LEMMA SameFactor ==
  ASSUME NEW f, NEW g, NEW n \in Nat, Agree(f, g, SnapshotDates, n),
         NEW t \in Tickers, NEW d \in Days, d < n
  PROVE  Factor(f, t, d) = Factor(g, t, d)
  <1> DEFINE dates == {e \in FactorDates(f) : e <= d}
  <1>1. SnapshotDates \subseteq Nat /\ d \in Nat
    BY BacktestAssumption, BacktestConstants DEF BacktestAssumption
  <1>2. \A e \in SnapshotDates : e <= d => e < n
    BY <1>1
  <1>3. dates = {e \in FactorDates(g) : e <= d}
    BY <1>2 DEF FactorDates, Agree
  <1>4. ASSUME dates # {} PROVE f[t][Max(dates)] = g[t][Max(dates)]
    <2>1. dates \subseteq Nat /\ dates \subseteq SnapshotDates /\ \A e \in dates : e <= d
      BY <1>1 DEF FactorDates
    <2> HIDE DEF dates
    <2>2. Max(dates) \in dates
      BY <1>1, <1>4, <2>1, LastOfDays
    <2> QED
      BY <1>2, <2>1, <2>2 DEF Agree
  <1> HIDE DEF dates
  <1>5. Factor(f, t, d) = IF dates = {} THEN Missing ELSE f[t][Max(dates)]
    BY DEF Factor, dates
  <1>6. Factor(g, t, d) = IF dates = {} THEN Missing ELSE g[t][Max(dates)]
    BY <1>3 DEF Factor
  <1> QED
    BY <1>4, <1>5, <1>6

Known(s, h, f, d) == {t \in Tickers : HasData(s, h, f, t, d)}

SameInputs(h, k, f, g, d) ==
  \A t \in Tickers : Bars(h, t, d) = Bars(k, t, d) /\ Factor(f, t, d) = Factor(g, t, d)

LEMMA SameLeaders ==
  ASSUME NEW s, NEW h, NEW k, NEW f, NEW g, NEW d, SameInputs(h, k, f, g, d)
  PROVE  /\ Known(s, h, f, d) = Known(s, k, g, d)
         /\ Leaders(s, h, f, d) = Leaders(s, k, g, d)
  <1>1. \A t \in Tickers : HasData(s, h, f, t, d) <=> HasData(s, k, g, t, d)
    BY DEF SameInputs, HasData
  <1>2. \A t \in Tickers : HasScore(s, h, f, t, d) <=> HasScore(s, k, g, t, d)
    BY <1>1 DEF SameInputs, HasScore
  <1>3. \A t, u \in Tickers : ScoresMore(s, h, f, t, u, d) <=> ScoresMore(s, k, g, t, u, d)
    BY DEF SameInputs, ScoresMore
  <1>4. \A t, u \in Tickers : Leads(s, h, f, t, u, d) <=> Leads(s, k, g, t, u, d)
    BY <1>3 DEF Leads
  <1> DEFINE scored == {t \in Tickers : HasScore(s, h, f, t, d)}
  <1>5. scored = {t \in Tickers : HasScore(s, k, g, t, d)}
    BY <1>2
  <1>6. ASSUME NEW t \in Tickers
        PROVE  {u \in scored : Leads(s, h, f, u, t, d)} = {u \in scored : Leads(s, k, g, u, t, d)}
    BY <1>4
  <1>7. Leaders(s, h, f, d) = {t \in scored : Cardinality({u \in scored : Leads(s, h, f, u, t, d)}) < TopN}
    BY DEF Leaders
  <1>8. Leaders(s, k, g, d) = {t \in scored : Cardinality({u \in scored : Leads(s, k, g, u, t, d)}) < TopN}
    BY <1>5 DEF Leaders
  <1>9. scored \subseteq Tickers
    OBVIOUS
  <1> HIDE DEF scored
  <1> QED
    BY <1>1, <1>6, <1>7, <1>8, <1>9 DEF Known

\* A day of the walk looks at what is there up to that day.
LEMMA SameDay ==
  ASSUME NEW h, NEW k, NEW f, NEW g, NEW n \in Nat,
         Agree(h, k, Days, n), Agree(f, g, SnapshotDates, n),
         NEW d \in Days, d < n, NEW sched
  PROVE  Continued(sched, h, f, d) = Continued(sched, k, g, d)
  <1>1. \A t \in Tickers : h[t][d] = k[t][d]
    BY DEF Agree
  <1>2. d \in Timestamps(h) <=> d \in Timestamps(k)
    BY <1>1 DEF Timestamps
  <1>3. Priced(h, d) = Priced(k, d)
    BY <1>1 DEF Priced
  <1>4. SameInputs(h, k, f, g, d)
    <2>1. ASSUME NEW t \in Tickers PROVE Bars(h, t, d) = Bars(k, t, d)
      BY SameBars
    <2>2. ASSUME NEW t \in Tickers PROVE Factor(f, t, d) = Factor(g, t, d)
      BY SameFactor
    <2> QED
      BY <2>1, <2>2 DEF SameInputs
  <1>5. /\ Known(strategy, h, f, d) = Known(strategy, k, g, d)
        /\ Leaders(strategy, h, f, d) = Leaders(strategy, k, g, d)
    BY <1>4, SameLeaders
  <1>6. Buys(strategy, h, f, d) = Buys(strategy, k, g, d)
    BY <1>5 DEF Buys
  <1>7. Sells(strategy, h, f, d) = Sells(strategy, k, g, d)
    BY <1>5 DEF Sells, Known
  <1>8. Scheduled(sched, strategy, h, f, d) = Scheduled(sched, strategy, k, g, d)
    BY <1>3, <1>6, <1>7 DEF Scheduled
  <1> QED
    BY <1>2, <1>8 DEF Continued

LEMMA SamePast ==
  ASSUME NEW h, NEW k, NEW f, NEW g, NEW n \in Days,
         Agree(h, k, Days, n), Agree(f, g, SnapshotDates, n)
  PROVE  ScheduleByDay(h, f)[n] = ScheduleByDay(k, g)[n]
  <1> DEFINE T == {c \in 0..n : ScheduleByDay(h, f)[c] # ScheduleByDay(k, g)[c]}
  <1>1. n \in Nat /\ End \in Nat /\ n <= End
    BY BacktestConstants DEF Days
  <1>2. ASSUME T # {} PROVE FALSE
    <2>1. PICK c \in T : \A e \in T : c <= e
      <3>1. T \subseteq Nat
        OBVIOUS
      <3> HIDE DEF T
      <3> QED
        BY <1>2, <3>1, LeastNatural
    <2>2. c \in 0..n /\ ScheduleByDay(h, f)[c] # ScheduleByDay(k, g)[c]
      OBVIOUS
    <2>3. c # 0
      BY <2>2, ScheduleDayByDay
    <2>4. c - 1 \in 0..n /\ c - 1 \in 0..End /\ c - 1 < n /\ (c - 1) + 1 = c /\ c - 1 \in Days
      BY <1>1, <2>2, <2>3 DEF Days
    <2>5. c - 1 \notin T
      <3>1. ~(c <= c - 1)
        BY <2>2
      <3> HIDE DEF T
      <3> QED
        BY <2>1, <3>1
    <2>6. ScheduleByDay(h, f)[c - 1] = ScheduleByDay(k, g)[c - 1]
      BY <2>4, <2>5
    <2>7. /\ ScheduleByDay(h, f)[(c - 1) + 1] = Continued(ScheduleByDay(h, f)[c - 1], h, f, c - 1)
          /\ ScheduleByDay(k, g)[(c - 1) + 1] = Continued(ScheduleByDay(k, g)[c - 1], k, g, c - 1)
      BY <2>4, ScheduleDayByDay
    <2>8. Continued(ScheduleByDay(h, f)[c - 1], h, f, c - 1)
            = Continued(ScheduleByDay(h, f)[c - 1], k, g, c - 1)
      BY <1>1, <2>4, SameDay
    <2> QED
      BY <2>2, <2>4, <2>6, <2>7, <2>8
  <1>3. n \in 0..n
    BY <1>1
  <1> QED
    BY <1>2, <1>3

(* What is scheduled up to a day is the same in every other future           *)
(* (get_price_history, the factor file's loader, _build_signal_schedule).    *)
THEOREM ScheduleIsOfThePast == Spec => []NoLookAhead
  <1>1. ByDayInv /\ Walking /\ [Next]_vars => ByDayInv'
    <2> SUFFICES ASSUME ByDayInv, Walking, [Next]_vars
                 PROVE  ByDayInv'
      OBVIOUS
    <2>1. CASE ScheduleDay
      BY <2>1, WalkIsByDay
    <2>2. CASE ReplayDay
      BY <2>2 DEF ReplayDay, ByDayInv
    <2>3. CASE UNCHANGED vars
      <3>1. Scheduling(closes, factors)' = Scheduling(closes, factors)
        BY <2>3 DEF vars, Scheduling, ScheduleByDay, Continued, Scheduled, EmptySchedule
      <3> QED
        BY <2>3, <3>1 DEF vars, ByDayInv
    <2> QED
      BY <2>1, <2>2, <2>3 DEF Next
  <1>2. ByDayInv /\ Walking => NoLookAhead
    <2> SUFFICES ASSUME ByDayInv, Walking, pc = "schedule"
                 PROVE  /\ \A h \in Future(closes, Closes(strategy)) :
                             Scheduling(h, factors) = schedule
                        /\ \A f \in Future(factors, Snapshots(strategy)) :
                             Scheduling(closes, f) = schedule
      BY DEF NoLookAhead
    <2>1. day \in Days /\ day \in Nat
      BY StampsAreDays DEF Walking
    <2>2. schedule = ScheduleByDay(closes, factors)[day]
      BY DEF ByDayInv, Scheduling
    <2>3. Agree(closes, closes, Days, day) /\ Agree(factors, factors, SnapshotDates, day)
      BY DEF Agree
    <2>4. ASSUME NEW h \in Future(closes, Closes(strategy)) PROVE Scheduling(h, factors) = schedule
      <3>1. PICK other : h = [t \in Tickers |-> [d \in DOMAIN closes[t] |->
                                IF d < day THEN closes[t][d] ELSE other[t][d]]]
        BY DEF Future
      <3>2. \A t \in Tickers : DOMAIN closes[t] = Days
        BY DEF Walking
      <3>3. Agree(h, closes, Days, day)
        BY <3>1, <3>2 DEF Agree
      <3> QED
        BY <2>1, <2>2, <2>3, <3>3, SamePast DEF Scheduling
    <2>5. ASSUME NEW f \in Future(factors, Snapshots(strategy)) PROVE Scheduling(closes, f) = schedule
      <3>1. PICK other : f = [t \in Tickers |-> [d \in DOMAIN factors[t] |->
                                IF d < day THEN factors[t][d] ELSE other[t][d]]]
        BY DEF Future
      <3>2. \A t \in Tickers : DOMAIN factors[t] = SnapshotDates
        BY DEF Walking
      <3>3. Agree(f, factors, SnapshotDates, day)
        BY <3>1, <3>2 DEF Agree
      <3> QED
        BY <2>1, <2>2, <2>3, <3>3, SamePast DEF Scheduling
    <2> QED
      BY <2>4, <2>5
  <1> QED
    BY <1>1, <1>2, ByDayStarts, WalkStarts, WalkGoesOn, PTL DEF Spec
=============================================================================
