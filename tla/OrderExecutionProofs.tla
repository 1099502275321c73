------------------------ MODULE OrderExecutionProofs ------------------------
(***************************************************************************)
(* Proofs about OrderExecution for any orders, cycles, strategies, tickers, *)
(* quantity, positions at the start, retry limit and number of restarts.   *)
(***************************************************************************)
EXTENDS OrderExecution, FiniteSetTheorems, TLAPS

\* The cycle has taken its order in hand, and not yet recorded a submission.
HasOrder == {"persist", "place", "budget", "submit", "mark", "record", "hold", "flag", "reload"}
Unsubmitted == HasOrder \ {"reload"}
Submitting == {"submit", "mark", "record"}

\* A cycle works on its own orders, once each; until it records a submission
\* the order has no broker number, and its retry count is the number of
\* attempts already answered.
Untouched(o) == kisOrderNo[o] = 0 /\ retryCount[o] = 0

IdleCycleInv == \A c \in Cycles, o \in Orders : cpc[c] = "idle" /\ CycleOf[o] = c => Untouched(o)
TodoInv == \A c \in Cycles : \A o \in todo[c] : CycleOf[o] = c /\ Untouched(o)
CurInv == \A c \in Cycles : cpc[c] \in HasOrder =>
            cur[c] \in Orders /\ CycleOf[cur[c]] = c /\ cur[c] \notin todo[c]
FreshInv == \A c \in Cycles : cpc[c] \in Unsubmitted => kisOrderNo[cur[c]] = 0
StartInv == \A c \in Cycles : cpc[c] \in {"persist", "place", "budget"} => retryCount[cur[c]] = 0
AttemptInv == \A c \in Cycles : cpc[c] \in Submitting =>
                attempt[c] \in Attempts /\ retryCount[cur[c]] = attempt[c] - 1

CycleInv == IdleCycleInv /\ TodoInv /\ CurInv /\ FreshInv /\ StartInv /\ AttemptInv

\* What the poll has read of the ledger is still true when it asks the broker,
\* and what it is about to record is still missing from the ledger.
PollInv ==
  /\ ppc = "query" => \A o \in pollCand : pollSeen[o] = filled[o]
  /\ ppc = "process" => \A o \in Orders : pollFills[o] > 0 =>
       kisOrderNo[o] # 0 /\ filled[o] + pollFills[o] <= bFilled[o][kisOrderNo[o]]

-----------------------------------------------------------------------------
(***************************************************************************)
(* Who writes what: the actions that touch the ledger, the broker and the  *)
(* flags of OrderManager and WriterQueue; the size of an order, which its  *)
(* cycle decides, counts with the ledger.  Everything else leaves them.    *)
(***************************************************************************)
LedgerWrite ==
  \/ \E c \in Cycles :
       \/ LoadPositions(c)
       \/ \E o \in Orders : PersistSignal(c, o)
       \/ PersistValidatedOrder(c) \/ PlaceRefused(c)
       \/ MarkSubmissionResult(c) \/ RecordSubmitFailure(c)
       \/ MarkOrderReconcileHold(c) \/ FlagReconciliationHold(c)
  \/ \E o \in Orders : ProcessFill(o)
  \/ RequestCancel \/ ConfirmCancel

BrokerCall ==
  \/ \E c \in Cycles :
       SubmitAccepted(c) \/ SubmitLost(c) \/ \E f \in Failures : SubmitFailed(c, f)
  \/ \E o \in Orders, k \in Attempts : BrokerFill(o, k)
  \/ \E o \in Orders : CancelAccepted(o) \/ CancelGivenUp(o)

MemoryWrite ==
  \/ \E c \in Cycles :
       \/ \E f \in Failures : SubmitFailed(c, f)
       \/ FlagReconciliationHold(c) \/ CycleWriteFails(c)
  \/ \E o \in Orders : FillRefused(o)
  \/ PollStart \/ PollFlagMismatch \/ PollWriteFails \/ CancelWriteFails \/ Crash

\* Every step that is not a LedgerWrite leaves the database alone.
LEMMA LedgerFrame == Next => LedgerWrite \/ UNCHANGED dbVars
  <1> SUFFICES ASSUME Next, ~LedgerWrite PROVE UNCHANGED dbVars
    OBVIOUS
  <1>1. ASSUME NEW c \in Cycles, CycleStep(c) PROVE UNCHANGED dbVars
    BY <1>1 DEF LedgerWrite, CycleStep, LoadPositions, ReadCandidates, SkipCandidate, PlaceStart,
       ReadSubmitAttempts, SubmitAccepted, SubmitLost, SubmitFailed, Reload, FinishCycle,
       CycleWriteFails
  <1>2. CASE \E o \in Orders, k \in Attempts : BrokerFill(o, k)
    BY <1>2 DEF BrokerFill
  <1>3. CASE PollStep
    BY <1>3 DEF LedgerWrite, PollStep, PollStart, ReadProgress, QueryFills, FillRefused,
       FillsDone, QueryAccount, QueryOpenOrders, Reconcile, PollFlagMismatch, PollQueryFails,
       PollWriteFails
  <1>4. CASE CancelStep
    BY <1>4 DEF LedgerWrite, CancelStep, ReadCancelCandidates, CancelAccepted, CancelGivenUp,
       CancelWriteFails
  <1>5. CASE Crash
    BY <1>5 DEF Crash
  <1> QED
    BY <1>1, <1>2, <1>3, <1>4, <1>5 DEF Next

\* Every step that is not a BrokerCall leaves the broker alone.
LEMMA BrokerFrame == Next => BrokerCall \/ UNCHANGED brokerVars
  <1> SUFFICES ASSUME Next, ~BrokerCall PROVE UNCHANGED brokerVars
    OBVIOUS
  <1>1. ASSUME NEW c \in Cycles, CycleStep(c) PROVE UNCHANGED brokerVars
    BY <1>1 DEF BrokerCall, CycleStep, LoadPositions, ReadCandidates, SkipCandidate,
       PersistSignal, PersistValidatedOrder, PlaceRefused, PlaceStart, ReadSubmitAttempts,
       MarkSubmissionResult, RecordSubmitFailure, MarkOrderReconcileHold, FlagReconciliationHold,
       Reload, FinishCycle, CycleWriteFails
  <1>2. CASE PollStep
    BY <1>2 DEF PollStep, PollStart, ReadProgress, QueryFills, ProcessFill, FillRefused,
       FillsDone, QueryAccount, QueryOpenOrders, Reconcile, PollFlagMismatch, PollQueryFails,
       PollWriteFails
  <1>3. CASE CancelStep
    BY <1>3 DEF BrokerCall, CancelStep, ReadCancelCandidates, RequestCancel, ConfirmCancel,
       CancelWriteFails
  <1>4. CASE Crash
    BY <1>4 DEF Crash
  <1> QED
    BY <1>1, <1>2, <1>3, <1>4 DEF Next, BrokerCall

\* Every step that is not a MemoryWrite leaves the flags and the restarts alone.
LEMMA MemoryFrame == Next => MemoryWrite \/ UNCHANGED <<memVars, crashes>>
  <1> SUFFICES ASSUME Next, ~MemoryWrite PROVE UNCHANGED <<memVars, crashes>>
    OBVIOUS
  <1>1. ASSUME NEW c \in Cycles, CycleStep(c) PROVE UNCHANGED <<memVars, crashes>>
    BY <1>1 DEF MemoryWrite, CycleStep, LoadPositions, ReadCandidates, SkipCandidate,
       PersistSignal, PersistValidatedOrder, PlaceRefused, PlaceStart, ReadSubmitAttempts,
       SubmitAccepted, SubmitLost, MarkSubmissionResult, RecordSubmitFailure,
       MarkOrderReconcileHold, Reload, FinishCycle
  <1>2. CASE \E o \in Orders, k \in Attempts : BrokerFill(o, k)
    BY <1>2 DEF BrokerFill
  <1>3. CASE PollStep
    BY <1>3 DEF MemoryWrite, PollStep, ReadProgress, QueryFills, ProcessFill, FillRefused,
       FillsDone, QueryAccount, QueryOpenOrders, Reconcile, PollQueryFails
  <1>4. CASE CancelStep
    BY <1>4 DEF MemoryWrite, CancelStep, ReadCancelCandidates, CancelAccepted, CancelGivenUp,
       RequestCancel, ConfirmCancel
  <1> QED
    BY <1>1, <1>2, <1>3, <1>4 DEF Next, MemoryWrite

\* Only the cycles and a restart touch the variables of the cycles, and the
\* broker numbers, retry counts and sizes of the orders.
LEMMA CycleFrame ==
  Next => (\E c \in Cycles : CycleStep(c)) \/ Crash \/ UNCHANGED <<cycleVars, kisOrderNo, retryCount, quantity>>
  <1>1. CASE \E o \in Orders, k \in Attempts : BrokerFill(o, k)
    BY <1>1 DEF BrokerFill, dbVars
  <1>2. CASE PollStep
    BY <1>2 DEF PollStep, PollStart, ReadProgress, QueryFills, ProcessFill, FillRefused,
       FillsDone, QueryAccount, QueryOpenOrders, Reconcile, PollFlagMismatch, PollQueryFails,
       PollWriteFails, dbVars
  <1>3. CASE CancelStep
    BY <1>3 DEF CancelStep, ReadCancelCandidates, CancelAccepted, CancelGivenUp,
       RequestCancel, ConfirmCancel, CancelWriteFails, dbVars
  <1> QED
    BY <1>1, <1>2, <1>3 DEF Next

\* A cycle touches neither the poll, nor the cancel, nor what has been filled.
LEMMA CycleStepFrame ==
  ASSUME NEW c \in Cycles, CycleStep(c)
  PROVE  UNCHANGED <<pollVars, cancelVars, filled, bookVars, bFilled, holdings, crashes>>
  BY DEF CycleStep, LoadPositions, ReadCandidates, SkipCandidate, PersistSignal,
     PersistValidatedOrder, PlaceRefused, PlaceStart, ReadSubmitAttempts, SubmitAccepted,
     SubmitLost, SubmitFailed, MarkSubmissionResult, RecordSubmitFailure, MarkOrderReconcileHold,
     FlagReconciliationHold, Reload, FinishCycle, CycleWriteFails, dbVars, brokerVars

\* Only the poll and a restart touch the variables of the poll.
LEMMA PollFrame == Next => PollStep \/ Crash \/ UNCHANGED pollVars
  <1>1. CASE \E o \in Orders, k \in Attempts : BrokerFill(o, k)
    BY <1>1 DEF BrokerFill
  <1>2. CASE CancelStep
    BY <1>2 DEF CancelStep, ReadCancelCandidates, CancelAccepted, CancelGivenUp,
       RequestCancel, ConfirmCancel, CancelWriteFails
  <1> QED
    BY <1>1, <1>2, CycleStepFrame DEF Next

\* Only the cancel job and a restart touch the variables of the cancel job.
LEMMA CancelFrame == Next => CancelStep \/ Crash \/ UNCHANGED cancelVars
  <1>1. CASE \E o \in Orders, k \in Attempts : BrokerFill(o, k)
    BY <1>1 DEF BrokerFill
  <1>2. CASE PollStep
    BY <1>2 DEF PollStep, PollStart, ReadProgress, QueryFills, ProcessFill, FillRefused,
       FillsDone, QueryAccount, QueryOpenOrders, Reconcile, PollFlagMismatch, PollQueryFails,
       PollWriteFails
  <1> QED
    BY <1>1, <1>2, CycleStepFrame DEF Next

-----------------------------------------------------------------------------
(***************************************************************************)
(* Totals: the units of a sum are added and compared as sets.              *)
(***************************************************************************)
LEMMA UnitsAreFinite ==
  ASSUME NEW D, IsFiniteSet(D), NEW f \in [D -> Nat]
  PROVE  IsFiniteSet(Units(f)) /\ Total(f) \in Nat
  <1> DEFINE part == [x \in D |-> {x} \X (1..f[x])]
             parts == {part[x] : x \in D}
  <1>1. \A x \in D : IsFiniteSet(part[x])
    <2> SUFFICES ASSUME NEW x \in D PROVE IsFiniteSet({x} \X (1..f[x]))
      OBVIOUS
    <2>1. 1 \in Int /\ f[x] \in Int
      OBVIOUS
    <2>2. IsFiniteSet({x}) /\ IsFiniteSet(1..f[x])
      BY ONLY <2>1, FS_Singleton, FS_Interval
    <2> QED
      BY ONLY <2>2, FS_Product
  <1>2. IsFiniteSet(parts)
    <2>1. part \in Surjection(D, parts)
      BY DEF Surjection
    <2> QED
      BY ONLY <2>1, IsFiniteSet(D), FS_Surjection
  <1>3. \A T \in parts : IsFiniteSet(T)
    BY <1>1
  <1>4. Units(f) = UNION parts
    BY DEF Units
  <1> HIDE DEF parts
  <1>5. IsFiniteSet(Units(f))
    BY <1>2, <1>3, <1>4, FS_UNION
  <1> QED
    BY <1>5, FS_CardinalityType DEF Total

\* Where one part of a sum grows by n, so does the sum.
LEMMA TotalGrows ==
  ASSUME NEW D, IsFiniteSet(D), NEW f \in [D -> Nat], NEW g \in [D -> Nat],
         NEW x \in D, NEW n \in Nat, g[x] = f[x] + n, \A y \in D : y # x => g[y] = f[y]
  PROVE  Total(g) = Total(f) + n
  <1> DEFINE lo == f[x] + 1
             hi == f[x] + n
             New == {x} \X (lo..hi)
  <1>0. f[x] \in Nat /\ g[x] \in Nat
    OBVIOUS
  <1>1. Units(g) = Units(f) \cup New
    <2>1. ASSUME NEW y \in D, NEW i \in Int
          PROVE  i \in 1..g[y] <=> i \in 1..f[y] \/ (y = x /\ i \in lo..hi)
      BY <1>0, <2>1
    <2>2. ASSUME NEW u PROVE u \in Units(g) <=> u \in Units(f) \/ u \in New
      <3>1. u \in Units(g) <=> \E y \in D : \E i \in 1..g[y] : u = <<y, i>>
        BY DEF Units
      <3>2. u \in Units(f) <=> \E y \in D : \E i \in 1..f[y] : u = <<y, i>>
        BY DEF Units
      <3>3. u \in New <=> \E i \in lo..hi : u = <<x, i>>
        OBVIOUS
      <3> HIDE DEF lo, hi, New
      <3> QED
        BY <2>1, <3>1, <3>2, <3>3
    <2> HIDE DEF New
    <2> QED
      BY <2>2
  <1>2. Units(f) \cap New = {}
    BY <1>0 DEF Units
  <1>3. IsFiniteSet(New) /\ Cardinality(New) = n
    <2>1. IsFiniteSet({x}) /\ Cardinality({x}) = 1
      BY FS_Singleton
    <2>2. lo \in Int /\ hi \in Int /\ (lo > hi => n = 0) /\ hi - lo + 1 = n
      BY <1>0
    <2> HIDE DEF lo, hi
    <2>3. IsFiniteSet(lo..hi) /\ Cardinality(lo..hi) = n
      BY <2>2, FS_Interval
    <2>4. IsFiniteSet(New) /\ Cardinality(New) = Cardinality({x}) * Cardinality(lo..hi)
      BY <2>1, <2>3, FS_Product
    <2> HIDE DEF New
    <2> QED
      BY <2>1, <2>3, <2>4
  <1>4. IsFiniteSet(Units(f)) /\ Total(f) \in Nat
    BY UnitsAreFinite
  <1> HIDE DEF New
  <1>5. Cardinality(Units(f) \cup New) = Cardinality(Units(f)) + Cardinality(New) - Cardinality({})
    BY <1>2, <1>3, <1>4, FS_Union
  <1> QED
    BY <1>1, <1>3, <1>4, <1>5, FS_EmptySet DEF Total

LEMMA TotalOfZeros == ASSUME NEW D PROVE Total([x \in D |-> 0]) = 0
  <1>1. Units([x \in D |-> 0]) = {}
    BY DEF Units
  <1> QED
    BY <1>1, FS_EmptySet DEF Total

\* A sum is no more than another one that has a part as large for each of its
\* parts.
LEMMA TotalIsMonotone ==
  ASSUME NEW D, IsFiniteSet(D), NEW E, IsFiniteSet(E),
         NEW f \in [D -> Nat], NEW g \in [E -> Nat], NEW h \in Injection(D, E),
         \A x \in D : f[x] <= g[h[x]]
  PROVE  Total(f) <= Total(g)
  <1> DEFINE into == [u \in Units(f) |-> <<h[u[1]], u[2]>>]
  <1>1. ASSUME NEW u \in Units(f)
        PROVE  /\ u = <<u[1], u[2]>> /\ u[1] \in D /\ u[2] \in 1..f[u[1]]
               /\ into[u] \in Units(g)
    <2>a. PICK x \in D : u \in {x} \X (1..f[x])
      BY DEF Units
    <2>1. PICK i \in 1..f[x] : u = <<x, i>>
      BY <2>a
    <2>2. h[x] \in E /\ f[x] \in Nat /\ g[h[x]] \in Nat /\ f[x] <= g[h[x]]
      BY DEF Injection
    <2>3. i \in 1..g[h[x]]
      BY <2>1, <2>2
    <2>4. <<h[x], i>> \in Units(g)
      BY <2>2, <2>3 DEF Units
    <2>5. u[1] = x /\ u[2] = i
      BY <2>1
    <2> QED
      BY <2>1, <2>4, <2>5
  <1>2. into \in Injection(Units(f), Units(g))
    <2>1. \A u, v \in Units(f) : into[u] = into[v] => u = v
      <3> SUFFICES ASSUME NEW u \in Units(f), NEW v \in Units(f), into[u] = into[v] PROVE u = v
        OBVIOUS
      <3>1. h[u[1]] = h[v[1]] /\ u[2] = v[2]
        OBVIOUS
      <3>2. u[1] = v[1]
        BY <1>1, <3>1 DEF Injection, IsInjective
      <3> QED
        BY <1>1, <3>1, <3>2
    <2>2. into \in [Units(f) -> Units(g)]
      BY <1>1
    <2> QED
      BY <2>1, <2>2 DEF Injection, IsInjective
  <1>3. IsFiniteSet(Units(f)) /\ IsFiniteSet(Units(g))
    BY UnitsAreFinite
  <1> HIDE DEF into
  <1> QED
    BY <1>2, <1>3, FS_Injection DEF Total

LEMMA HeldType ==
  ASSUME position \in [Strategies -> [Tickers -> Nat]], NEW t \in Tickers
  PROVE  Held(t) \in Nat
  <1>1. [s \in Strategies |-> position[s][t]] \in [Strategies -> Nat]
    OBVIOUS
  <1> QED
    BY <1>1, UnitsAreFinite, OrderExecutionAssumption DEF Held

-----------------------------------------------------------------------------
(***************************************************************************)
(* Type correctness, one lemma for each part of TypeOK.                    *)
(***************************************************************************)
LEMMA ListingsAreSequences == Listings \subseteq Seq(Strategies)
  <1> SUFFICES ASSUME NEW r \in Listings PROVE r \in Seq(Strategies)
    OBVIOUS
  <1>1. Cardinality(Strategies) \in Nat
    BY OrderExecutionAssumption, FS_CardinalityType
  <1>2. \E n \in Nat : r \in [1..n -> Strategies]
    BY <1>1 DEF Listings
  <1> QED
    BY <1>2

LEMMA InitTypeOK == Init => TypeOK
  <1> SUFFICES ASSUME Init PROVE TypeOK
    OBVIOUS
  <1> USE OrderExecutionAssumption DEF Init, NoFills, NoRows
  <1>1. LedgerTypeOK
    <2>1. position \in [Strategies -> [Tickers -> Nat]]
      BY DEF Init
    <2>2. rows \in [Tickers -> Seq(Strategies)]
      BY ListingsAreSequences
    <2> QED
      BY <2>1, <2>2 DEF LedgerTypeOK, Status
  <1>2. BrokerTypeOK
    <2>1. \A t \in Tickers : Held(t) \in Nat
      <3>1. position \in [Strategies -> [Tickers -> Nat]]
        BY DEF Init
      <3> QED
        BY ONLY <3>1, HeldType
    <2> QED
      BY <2>1 DEF BrokerTypeOK
  <1>3. MemoryTypeOK /\ CancelTypeOK
    <2>1. crashes \in 0..MaxCrashes
      OBVIOUS
    <2> QED
      BY <2>1, Zenon DEF MemoryTypeOK, CancelTypeOK
  <1>4. CycleTypeOK
    BY DEF CycleTypeOK
  <1>5. PollTypeOK
    BY DEF PollTypeOK
  <1> QED
    BY <1>1, <1>2, <1>3, <1>4, <1>5 DEF TypeOK

\* A sell is booked only where the position covers it.
LEMMA BooksTypeStep ==
  ASSUME LedgerTypeOK, PollTypeOK, NEW o \in Orders, ApplyFill(o)
  PROVE  /\ position' \in [Strategies -> [Tickers -> Nat]]
         /\ rows' \in [Tickers -> Seq(Strategies)]
  <1> DEFINE s == StrategyOf[CycleOf[o]]
             t == TickerOf[o]
  <1>1. s \in Strategies /\ t \in Tickers /\ SideOf[o] \in {"buy", "sell"}
    BY OrderExecutionAssumption
  <1>2. position[s][t] \in Nat /\ pollFills[o] \in Nat /\ rows[t] \in Seq(Strategies)
    BY <1>1 DEF LedgerTypeOK, PollTypeOK
  <1>3. position[s][t] + pollFills[o] \in Nat
    BY <1>2
  <1>4. SideOf[o] = "sell" => position[s][t] - pollFills[o] \in Nat
    BY <1>1, <1>2 DEF ApplyFill, HasLots
  <1>5. Append(rows[t], s) \in Seq(Strategies)
    BY <1>1, <1>2
  <1> HIDE DEF s, t
  <1>6. \/ position' = [position EXCEPT ![s][t] = position[s][t] + pollFills[o]]
        \/ /\ SideOf[o] = "sell"
           /\ position' = [position EXCEPT ![s][t] = position[s][t] - pollFills[o]]
    BY <1>1 DEF ApplyFill, s, t
  <1>7. rows' = rows \/ rows' = [rows EXCEPT ![t] = Append(rows[t], s)]
    BY DEF ApplyFill, s, t
  <1>8. position' \in [Strategies -> [Tickers -> Nat]]
    <2>1. ASSUME NEW n \in Nat, position' = [position EXCEPT ![s][t] = n]
          PROVE  position' \in [Strategies -> [Tickers -> Nat]]
      BY <1>1, <2>1 DEF LedgerTypeOK
    <2> QED
      BY <1>3, <1>4, <1>6, <2>1
  <1>9. rows' \in [Tickers -> Seq(Strategies)]
    BY <1>1, <1>5, <1>7 DEF LedgerTypeOK
  <1> QED
    BY <1>8, <1>9

\* The retry count stays in its bounds because it counts the attempts.
LEMMA LedgerTypeStep == TypeOK /\ AttemptInv /\ Next => LedgerTypeOK'
  <1> SUFFICES ASSUME TypeOK, AttemptInv, Next PROVE LedgerTypeOK'
    OBVIOUS
  <1> USE OrderExecutionAssumption
  <1>0. LedgerTypeOK /\ CycleTypeOK /\ PollTypeOK
    BY DEF TypeOK
  <1>1. ASSUME NEW c \in Cycles, NEW o \in Orders, PersistSignal(c, o) PROVE LedgerTypeOK'
    BY <1>0, <1>1 DEF LedgerTypeOK, PersistSignal, bookVars
  <1>2. ASSUME NEW c \in Cycles,
               \/ PersistValidatedOrder(c) \/ PlaceRefused(c)
               \/ MarkOrderReconcileHold(c) \/ FlagReconciliationHold(c)
        PROVE LedgerTypeOK'
    BY <1>0, <1>2 DEF LedgerTypeOK, bookVars, Status, PersistValidatedOrder, PlaceRefused,
       MarkOrderReconcileHold, FlagReconciliationHold
  <1>3. ASSUME NEW c \in Cycles, MarkSubmissionResult(c) PROVE LedgerTypeOK'
    <2>1. attempt[c] \in 0..MaxSubmitRetries
      BY <1>0 DEF CycleTypeOK
    <2>2. kisOrderNo' \in [Orders -> 0..MaxSubmitRetries]
      <3>1. AnsweredNumbers(attempt[c]) \subseteq 0..MaxSubmitRetries
        BY <2>1, OrderExecutionAssumption DEF AnsweredNumbers
      <3>2. PICK n \in AnsweredNumbers(attempt[c]) :
              kisOrderNo' = [kisOrderNo EXCEPT ![cur[c]] = n]
        BY <1>3 DEF MarkSubmissionResult
      <3> QED
        BY <1>0, <3>1, <3>2 DEF LedgerTypeOK
    <2> QED
      BY <1>0, <1>3, <2>2 DEF LedgerTypeOK, bookVars, Status, MarkSubmissionResult
  <1>4. ASSUME NEW c \in Cycles, RecordSubmitFailure(c) PROVE LedgerTypeOK'
    <2>1. retryCount[cur[c]] + 1 \in 0..MaxSubmitRetries
      BY <1>4 DEF AttemptInv, Submitting, Attempts, RecordSubmitFailure, CycleGoto
    <2>2. retryCount' \in [Orders -> 0..MaxSubmitRetries]
      BY <1>0, <1>4, <2>1 DEF LedgerTypeOK, RecordSubmitFailure
    <2>3. status' \in [Orders -> Status]
      BY <1>0, <1>4 DEF LedgerTypeOK, RecordSubmitFailure, Status
    <2> QED
      BY <1>0, <1>4, <2>2, <2>3 DEF LedgerTypeOK, bookVars, RecordSubmitFailure
  <1>5. ASSUME NEW o \in Orders, ProcessFill(o) PROVE LedgerTypeOK'
    <2>1. filled' \in [Orders -> Nat]
      BY <1>0, <1>5 DEF LedgerTypeOK, PollTypeOK, ProcessFill
    <2>4. position' \in [Strategies -> [Tickers -> Nat]] /\ rows' \in [Tickers -> Seq(Strategies)]
      BY <1>0, <1>5, BooksTypeStep DEF ProcessFill
    <2>2. status' \in [Orders -> Status]
      BY <1>0, <1>5 DEF LedgerTypeOK, ProcessFill, StatusAfterFill, Status
    <2> QED
      BY <1>0, <1>5, <2>1, <2>2, <2>4 DEF LedgerTypeOK, ProcessFill
  <1>6. CASE RequestCancel \/ ConfirmCancel
    <2>1. status' \in [Orders -> Status]
      <3>1. status \in [Orders -> Status] /\ "cancel_pending" \in Status /\ "cancelled" \in Status
        BY <1>0 DEF LedgerTypeOK, Status
      <3>2. \/ status' = [status EXCEPT ![xCur] = IF @ \in OpenStatus THEN "cancel_pending" ELSE @]
            \/ status' = [status EXCEPT ![xCur] = "cancelled"]
        BY <1>6 DEF RequestCancel, ConfirmCancel
      <3> QED
        BY ONLY <3>1, <3>2
    <2>2. UNCHANGED <<signal, quantity, retryCount, kisOrderNo, filled, position, rows>>
      BY <1>6 DEF RequestCancel, ConfirmCancel, bookVars
    <2> QED
      BY <1>0, <2>1, <2>2 DEF LedgerTypeOK
  <1>8. ASSUME NEW c \in Cycles, LoadPositions(c) PROVE LedgerTypeOK'
    <2>1. \A o \in Orders : SizeOf(o) \in Nat
      BY <1>0 DEF SizeOf, LedgerTypeOK
    <2>2. quantity' \in [Orders -> Nat]
      BY <1>0, <1>8, <2>1 DEF LoadPositions, LedgerTypeOK
    <2> QED
      BY <1>0, <1>8, <2>2 DEF LoadPositions, LedgerTypeOK, bookVars
  <1>7. CASE UNCHANGED dbVars
    BY <1>0, <1>7 DEF LedgerTypeOK, dbVars, bookVars
  <1> QED
    BY <1>1, <1>2, <1>3, <1>4, <1>5, <1>6, <1>7, <1>8, LedgerFrame DEF LedgerWrite

\* Every step keeps the types of the broker's variables.
LEMMA BrokerTypeStep == TypeOK /\ Next => BrokerTypeOK'
  <1> SUFFICES ASSUME TypeOK, Next PROVE BrokerTypeOK'
    OBVIOUS
  <1> USE OrderExecutionAssumption DEF BrokerTypeOK
  <1>0. BrokerTypeOK
    BY DEF TypeOK
  <1>1. ASSUME NEW c \in Cycles, BrokerBooks(c) PROVE bState' \in [Orders -> [Attempts -> {"none", "open", "closed"}]]
    BY <1>0, <1>1 DEF BrokerBooks
  <1>2. ASSUME NEW o \in Orders, BrokerCancels(o) PROVE bState' \in [Orders -> [Attempts -> {"none", "open", "closed"}]]
    BY <1>0, <1>2 DEF BrokerCancels
  <1>3. ASSUME NEW c \in Cycles,
               SubmitAccepted(c) \/ SubmitLost(c) \/ \E f \in Failures : SubmitFailed(c, f)
        PROVE BrokerTypeOK'
    BY <1>0, <1>1, <1>3 DEF SubmitAccepted, SubmitLost, SubmitFailed
  <1>4. ASSUME NEW o \in Orders, NEW k \in Attempts, BrokerFill(o, k) PROVE BrokerTypeOK'
    <2>1. bState' \in [Orders -> [Attempts -> {"none", "open", "closed"}]]
      BY <1>0, <1>4 DEF BrokerFill
    <2>2. bFilled' \in [Orders -> [Attempts -> Nat]]
      BY <1>0, <1>4 DEF BrokerFill
    <2>3. holdings' \in [Tickers -> Nat]
      BY <1>0, <1>4 DEF BrokerFill
    <2> QED
      BY <2>1, <2>2, <2>3
  <1>5. ASSUME NEW o \in Orders, CancelAccepted(o) \/ CancelGivenUp(o) PROVE BrokerTypeOK'
    BY <1>0, <1>2, <1>5 DEF CancelAccepted, CancelGivenUp
  <1>6. CASE UNCHANGED brokerVars
    BY <1>0, <1>6 DEF brokerVars
  <1> QED
    BY <1>3, <1>4, <1>5, <1>6, BrokerFrame DEF BrokerCall

\* Every step keeps the types of the flags in memory.
LEMMA MemoryTypeStep == TypeOK /\ Next => MemoryTypeOK'
  <1> SUFFICES ASSUME TypeOK, Next PROVE MemoryTypeOK'
    OBVIOUS
  <1> USE OrderExecutionAssumption DEF MemoryTypeOK
  <1>0. MemoryTypeOK
    BY DEF TypeOK
  <1>1. ASSUME NEW c \in Cycles, NEW f \in Failures, SubmitFailed(c, f) PROVE MemoryTypeOK'
    BY <1>0, <1>1 DEF SubmitFailed
  <1>2. ASSUME NEW c \in Cycles, FlagReconciliationHold(c) \/ CycleWriteFails(c) PROVE MemoryTypeOK'
    BY <1>0, <1>2 DEF FlagReconciliationHold, CycleWriteFails
  <1>3. CASE PollStart \/ PollFlagMismatch \/ PollWriteFails \/ CancelWriteFails
    BY <1>0, <1>3 DEF PollStart, PollFlagMismatch, PollWriteFails, CancelWriteFails
  <1>6. ASSUME NEW o \in Orders, FillRefused(o) PROVE MemoryTypeOK'
    BY <1>0, <1>6 DEF FillRefused
  <1>4. CASE Crash
    <2>1. crashes' \in 0..MaxCrashes
      BY <1>0, <1>4 DEF Crash
    <2> QED
      BY <1>4, <2>1, Zenon DEF Crash
  <1>5. CASE UNCHANGED <<memVars, crashes>>
    BY <1>0, <1>5 DEF memVars
  <1> QED
    BY <1>1, <1>2, <1>3, <1>4, <1>5, <1>6, MemoryFrame DEF MemoryWrite

\* Every step keeps the types of the variables of the cycles.
LEMMA CycleTypeStep == TypeOK /\ CurInv /\ Next => CycleTypeOK'
  <1> SUFFICES ASSUME TypeOK, CurInv, Next PROVE CycleTypeOK'
    OBVIOUS
  <1> USE OrderExecutionAssumption DEF CycleTypeOK
  <1>0. CycleTypeOK /\ LedgerTypeOK
    BY DEF TypeOK
  <1>1. ASSUME NEW c \in Cycles, CycleStep(c) PROVE CycleTypeOK'
    <2> USE <1>0 DEF CycleGoto, cycleVars, limitVars
    <2>1. CASE LoadPositions(c) \/ ReadCandidates(c)
      BY <2>1 DEF LoadPositions, ReadCandidates
    <2>2. ASSUME NEW o \in Orders, SkipCandidate(c, o) PROVE CycleTypeOK'
      BY <2>2 DEF SkipCandidate
    <2>3. ASSUME NEW o \in Orders, PersistSignal(c, o) PROVE CycleTypeOK'
      BY <2>3 DEF PersistSignal
    <2>4. CASE PersistValidatedOrder(c) \/ PlaceRefused(c) \/ SubmitAccepted(c)
      BY <2>4 DEF PersistValidatedOrder, PlaceRefused, SubmitAccepted
    <2>5. CASE PlaceStart(c) \/ ReadSubmitAttempts(c)
      <3>1. CASE PlaceStart(c)
        BY <3>1 DEF PlaceStart
      <3>2. CASE ReadSubmitAttempts(c)
        <4>1. /\ \E to \in {"submit", "reload"} : cpc' = [cpc EXCEPT ![c] = to]
              /\ \E k : /\ attempt' = [attempt EXCEPT ![c] = k]
                        /\ \/ k = attempt[c]
                           \/ k = retryCount[cur[c]] + 1 /\ retryCount[cur[c]] < MaxSubmitRetries
              /\ UNCHANGED <<todo, cur, failure, counted, notional>>
          BY <3>2 DEF ReadSubmitAttempts
        <4>2. cur[c] \in Orders
          BY <3>2 DEF ReadSubmitAttempts, CurInv, HasOrder
        <4>3. retryCount[cur[c]] < MaxSubmitRetries => retryCount[cur[c]] + 1 \in 0..MaxSubmitRetries
          BY <4>2 DEF LedgerTypeOK
        <4>4. attempt' \in [Cycles -> 0..MaxSubmitRetries]
          BY <4>1, <4>3
        <4> QED
          BY <4>1, <4>4
      <3> QED
        BY <2>5, <3>1, <3>2
    <2>6. ASSUME NEW f \in Failures, SubmitFailed(c, f) PROVE CycleTypeOK'
      BY <2>6 DEF SubmitFailed
    <2>7. CASE MarkSubmissionResult(c) \/ MarkOrderReconcileHold(c) \/ FlagReconciliationHold(c)
      BY <2>7 DEF MarkSubmissionResult, MarkOrderReconcileHold, FlagReconciliationHold,
         LeavePlaceOrder
    <2>8. CASE RecordSubmitFailure(c)
      BY <2>8 DEF RecordSubmitFailure, ShouldRetrySubmit, LeavePlaceOrder
    <2>9. CASE Reload(c)
      <3>1. counted' \in [Cycles -> Nat] /\ notional' \in [Cycles -> Nat]
        <4>1. cur[c] \in Orders => quantity[cur[c]] \in Nat
          BY DEF LedgerTypeOK
        <4>2. status[cur[c]] = "submitted" => cur[c] \in Orders
          BY <2>9 DEF Reload, CycleGoto, CurInv, HasOrder
        <4>3. CASE UNCHANGED limitVars
          BY <4>3
        <4>4. CASE /\ status[cur[c]] = "submitted"
                   /\ counted' = [counted EXCEPT ![c] = counted[c] + 1]
                   /\ notional' = [notional EXCEPT ![c] = notional[c] + quantity[cur[c]]]
          <5>1. notional[c] + quantity[cur[c]] \in Nat
            BY <4>1, <4>2, <4>4
          <5> QED
            BY <4>4, <5>1
        <4> QED
          BY <2>9, <4>3, <4>4 DEF Reload
      <3> QED
        BY <2>9, <3>1 DEF Reload
    <2>10. CASE SubmitLost(c) \/ FinishCycle(c) \/ CycleWriteFails(c)
      BY <2>10 DEF SubmitLost, FinishCycle, CycleWriteFails, CycleIsOver
    <2> QED
      BY <1>1, <2>1, <2>2, <2>3, <2>4, <2>5, <2>6, <2>7, <2>8, <2>9, <2>10 DEF CycleStep
  <1>2. CASE Crash
    BY <1>0, <1>2 DEF Crash
  <1>3. CASE UNCHANGED cycleVars
    BY <1>0, <1>3 DEF cycleVars, limitVars
  <1> QED
    BY <1>1, <1>2, <1>3, CycleFrame

\* Every step keeps the types of the variables of the poll.
LEMMA PollTypeStep == TypeOK /\ Next => PollTypeOK'
  <1> SUFFICES ASSUME TypeOK, Next PROVE PollTypeOK'
    OBVIOUS
  <1> USE OrderExecutionAssumption DEF PollTypeOK
  <1>0. PollTypeOK /\ LedgerTypeOK /\ BrokerTypeOK
    BY DEF TypeOK
  <1>1. CASE PollStep
    <2> USE <1>0 DEF PollGoto
    <2>1. CASE PollStart \/ FillsDone
      BY <2>1 DEF PollStart, FillsDone
    <2>2. CASE ReadProgress
      <3>1. pollSeen' \in [Orders -> Nat]
        BY <2>2 DEF ReadProgress, InternalProgress, LedgerTypeOK
      <3> QED
        BY <2>2, <3>1 DEF ReadProgress
    <2>3. CASE QueryFills
      <3>1. \A o \in Orders : Delta(o) \in Nat
        BY DEF Delta, LedgerTypeOK, BrokerTypeOK, Attempts
      <3>2. pollFills' \in [Orders -> Nat]
        BY <2>3, <3>1 DEF QueryFills
      <3> QED
        BY <2>3, <3>2 DEF QueryFills, NoFills
    <2>4. ASSUME NEW o \in Orders, ProcessFill(o) PROVE PollTypeOK'
      BY <2>4 DEF ProcessFill
    <2>5. CASE QueryAccount
      BY <2>5 DEF QueryAccount, BrokerTypeOK
    <2>6. CASE QueryOpenOrders
      BY <2>6 DEF QueryOpenOrders
    <2>7. CASE Reconcile
      BY <2>7 DEF Reconcile, PollIsOver, NoFills, NoRows
    <2>8. CASE PollFlagMismatch \/ PollQueryFails \/ PollWriteFails \/ \E o \in Orders : FillRefused(o)
      BY <2>8 DEF FillRefused, PollFlagMismatch, PollQueryFails, PollWriteFails, PollIsOver, NoFills, NoRows
    <2> QED
      BY <1>1, <2>1, <2>2, <2>3, <2>4, <2>5, <2>6, <2>7, <2>8 DEF PollStep
  <1>2. CASE Crash
    BY <1>2 DEF Crash, PollIsOver, NoFills, NoRows
  <1>3. CASE UNCHANGED pollVars
    BY <1>0, <1>3 DEF pollVars
  <1> QED
    BY <1>1, <1>2, <1>3, PollFrame

\* Every step keeps the types of the variables of the cancel job.
LEMMA CancelTypeStep == TypeOK /\ Next => CancelTypeOK'
  <1> SUFFICES ASSUME TypeOK, Next PROVE CancelTypeOK'
    OBVIOUS
  <1> USE DEF CancelTypeOK
  <1>0. CancelTypeOK
    BY DEF TypeOK
  <1>1. CASE CancelStep
    BY <1>0, <1>1 DEF CancelStep, ReadCancelCandidates, CancelAccepted, CancelGivenUp,
       RequestCancel, ConfirmCancel, CancelWriteFails
  <1>2. CASE Crash
    BY <1>2 DEF Crash
  <1>3. CASE UNCHANGED cancelVars
    BY <1>0, <1>3 DEF cancelVars
  <1> QED
    BY <1>1, <1>2, <1>3, CancelFrame

\* All types are kept, given that a retry count is an attempt already answered.
LEMMA TypeStep == TypeOK /\ AttemptInv /\ CurInv /\ [Next]_vars => TypeOK'
  <1>1. TypeOK /\ AttemptInv /\ CurInv /\ Next => TypeOK'
    BY LedgerTypeStep, BrokerTypeStep, MemoryTypeStep, CycleTypeStep, PollTypeStep,
       CancelTypeStep DEF TypeOK
  <1>2. ASSUME TypeOK, UNCHANGED vars PROVE TypeOK'
    <2>1. LedgerTypeOK' /\ BrokerTypeOK' /\ MemoryTypeOK'
      BY <1>2 DEF TypeOK, LedgerTypeOK, BrokerTypeOK, MemoryTypeOK, vars, dbVars, bookVars,
         brokerVars, memVars
    <2>2. CycleTypeOK'
      BY <1>2 DEF TypeOK, CycleTypeOK, vars, cycleVars, limitVars
    <2>3. PollTypeOK' /\ CancelTypeOK'
      BY <1>2 DEF TypeOK, PollTypeOK, CancelTypeOK, vars, pollVars, cancelVars
    <2> QED
      BY <2>1, <2>2, <2>3 DEF TypeOK
  <1> QED
    BY <1>1, <1>2

-----------------------------------------------------------------------------
(***************************************************************************)
(* The cycles: one lemma for the steps of a cycle, and the frame for the   *)
(* rest.  A step changes only the cycle that takes it and its own order.   *)
(***************************************************************************)
LEMMA InitCycleInv == Init => CycleInv
  BY DEF Init, CycleInv, IdleCycleInv, TodoInv, CurInv, FreshInv, StartInv, AttemptInv,
     Untouched, HasOrder, Unsubmitted, Submitting

\* Steps that change neither broker numbers nor retry counts.
LEMMA QuietCycleStep ==
  ASSUME TypeOK, CycleInv, NEW c \in Cycles, CycleStep(c),
         ~MarkSubmissionResult(c), ~RecordSubmitFailure(c)
  PROVE  CycleInv'
  <1> USE OrderExecutionAssumption
  <1> USE DEF CycleInv, IdleCycleInv, TodoInv, CurInv, FreshInv, StartInv, AttemptInv,
              Untouched, HasOrder, Unsubmitted, Submitting, Attempts
  <1>0. CycleTypeOK /\ LedgerTypeOK
    BY DEF TypeOK
  <1> USE <1>0 DEF CycleTypeOK, CycleGoto, cycleVars, dbVars
  <1>1. CASE LoadPositions(c) \/ ReadCandidates(c)
    <2>1. UNCHANGED <<cur, attempt, kisOrderNo, retryCount>>
      BY <1>1 DEF LoadPositions, ReadCandidates
    <2>2. /\ \/ cpc[c] = "idle" /\ cpc' = [cpc EXCEPT ![c] = "loaded"]
             \/ cpc[c] = "loaded" /\ cpc' = [cpc EXCEPT ![c] = "next"]
          /\ \E S : todo' = [todo EXCEPT ![c] = S] /\ \A o \in S : CycleOf[o] = c /\ Untouched(o)
      <3>1. CASE LoadPositions(c)
        <4> DEFINE mine == {o \in Orders : CycleOf[o] = c /\ MayTrade(o)}
        <4>1. cpc[c] = "idle" /\ \A o \in mine : CycleOf[o] = c /\ Untouched(o)
          BY <3>1 DEF LoadPositions
        <4>2. todo' = [todo EXCEPT ![c] = mine] /\ cpc' = [cpc EXCEPT ![c] = "loaded"]
          BY <3>1 DEF LoadPositions
        <4> HIDE DEF mine
        <4> QED
          BY <4>1, <4>2
      <3>2. CASE ReadCandidates(c)
        <4> DEFINE left == {o \in todo[c] : TickerOf[o] \notin OpenOrderTickers}
        <4>1. cpc[c] = "loaded" /\ \A o \in left : CycleOf[o] = c /\ Untouched(o)
          BY <3>2 DEF ReadCandidates
        <4>2. todo' = [todo EXCEPT ![c] = left] /\ cpc' = [cpc EXCEPT ![c] = "next"]
          BY <3>2 DEF ReadCandidates
        <4> HIDE DEF left
        <4> QED
          BY <4>1, <4>2
      <3> QED
        BY <1>1, <3>1, <3>2
    <2> QED
      BY <2>1, <2>2
  <1>2. ASSUME NEW o \in Orders, SkipCandidate(c, o) PROVE CycleInv'
    BY <1>2 DEF SkipCandidate
  <1>3. ASSUME NEW o \in Orders, PersistSignal(c, o) PROVE CycleInv'
    BY <1>3 DEF PersistSignal
  <1>4. CASE PersistValidatedOrder(c) \/ PlaceRefused(c) \/ SubmitAccepted(c)
    BY <1>4 DEF PersistValidatedOrder, PlaceRefused, SubmitAccepted
  <1>5. CASE PlaceStart(c)
    BY <1>5 DEF PlaceStart
  <1>10. CASE ReadSubmitAttempts(c)
    BY <1>10 DEF ReadSubmitAttempts
  <1>6. ASSUME NEW f \in Failures, SubmitFailed(c, f) PROVE CycleInv'
    BY <1>6 DEF SubmitFailed
  <1>7. CASE MarkOrderReconcileHold(c) \/ FlagReconciliationHold(c)
    BY <1>7 DEF MarkOrderReconcileHold, FlagReconciliationHold, LeavePlaceOrder
  <1>8. CASE Reload(c)
    BY <1>8 DEF Reload
  <1>9. CASE SubmitLost(c) \/ FinishCycle(c) \/ CycleWriteFails(c)
    <2>1. CycleIsOver(c) /\ UNCHANGED <<kisOrderNo, retryCount>>
      BY <1>9 DEF SubmitLost, FinishCycle, CycleWriteFails
    <2> QED
      BY <2>1 DEF CycleIsOver
  <1> QED
    BY <1>1, <1>2, <1>3, <1>4, <1>5, <1>6, <1>7, <1>8, <1>9, <1>10 DEF CycleStep

\* The order whose submission is recorded is no longer among those without a
\* number, and it belongs to no other cycle.
LEMMA MarkCycleStep ==
  ASSUME TypeOK, CycleInv, NEW c \in Cycles, MarkSubmissionResult(c)
  PROVE  CycleInv'
  <1> USE OrderExecutionAssumption
  <1>0. CycleTypeOK /\ LedgerTypeOK
    BY DEF TypeOK
  <1>1. cur[c] \in Orders /\ CycleOf[cur[c]] = c /\ cur[c] \notin todo[c]
    BY DEF CycleInv, CurInv, HasOrder, MarkSubmissionResult, CycleGoto
  <1>2. \A o \in Orders : o # cur[c] => kisOrderNo'[o] = kisOrderNo[o]
    BY <1>0 DEF LedgerTypeOK, MarkSubmissionResult
  <1>3. /\ UNCHANGED <<todo, cur, retryCount>> /\ cpc' = [cpc EXCEPT ![c] = "reload"]
        /\ attempt' = [attempt EXCEPT ![c] = 0]
    BY DEF MarkSubmissionResult, CycleGoto, LeavePlaceOrder
  <1> USE <1>0, <1>1, <1>2, <1>3 DEF CycleTypeOK, Untouched, HasOrder, Unsubmitted, Submitting, CycleInv
  <1>4. IdleCycleInv' /\ TodoInv'
    BY DEF IdleCycleInv, TodoInv
  <1>5. CurInv' /\ FreshInv'
    BY DEF CurInv, FreshInv
  <1>6. StartInv' /\ AttemptInv'
    BY DEF StartInv, AttemptInv
  <1> QED
    BY <1>4, <1>5, <1>6

\* A recorded failure counts one attempt more, on the order of this cycle only.
LEMMA RecordCycleStep ==
  ASSUME TypeOK, CycleInv, NEW c \in Cycles, RecordSubmitFailure(c)
  PROVE  CycleInv'
  <1> USE OrderExecutionAssumption
  <1>0. CycleTypeOK /\ LedgerTypeOK
    BY DEF TypeOK
  <1>1. cur[c] \in Orders /\ CycleOf[cur[c]] = c /\ cur[c] \notin todo[c]
    BY DEF CycleInv, CurInv, HasOrder, RecordSubmitFailure, CycleGoto
  <1>2. \A o \in Orders : o # cur[c] => retryCount'[o] = retryCount[o]
    BY <1>0 DEF LedgerTypeOK, RecordSubmitFailure
  <1>3. UNCHANGED <<todo, cur, kisOrderNo>>
    BY DEF RecordSubmitFailure
  <1>4. \E to \in {"submit", "reload"} :
          /\ cpc' = [cpc EXCEPT ![c] = to]
          /\ to = "submit" => attempt[c] < MaxSubmitRetries /\ attempt' = [attempt EXCEPT ![c] = @ + 1]
          /\ to = "reload" => attempt' = [attempt EXCEPT ![c] = 0]
    BY <1>0 DEF RecordSubmitFailure, CycleGoto, ShouldRetrySubmit, CycleTypeOK, LeavePlaceOrder
  <1>5. retryCount'[cur[c]] = retryCount[cur[c]] + 1
    BY <1>0, <1>1 DEF LedgerTypeOK, RecordSubmitFailure
  <1>6. cpc[c] = "record"
    BY DEF RecordSubmitFailure, CycleGoto
  <1>7. IdleCycleInv' /\ TodoInv'
    <2>1. ASSUME NEW k \in Cycles, NEW o \in Orders, CycleOf[o] = k, cpc'[k] = "idle"
          PROVE  Untouched(o)'
      <3>1. k # c /\ cpc[k] = "idle"
        BY <1>0, <1>4, <1>6, <2>1 DEF CycleTypeOK
      <3>2. Untouched(o) /\ o # cur[c]
        BY <1>1, <2>1, <3>1 DEF CycleInv, IdleCycleInv
      <3> QED
        BY <1>2, <1>3, <3>2 DEF Untouched
    <2>2. ASSUME NEW k \in Cycles, NEW o \in todo[k] PROVE CycleOf[o] = k /\ Untouched(o)'
      <3>1. o \in Orders
        BY <1>0 DEF CycleTypeOK
      <3>2. CycleOf[o] = k /\ Untouched(o)
        BY DEF CycleInv, TodoInv
      <3>3. o # cur[c]
        BY <1>1, <3>2
      <3> QED
        BY <1>2, <1>3, <3>1, <3>2, <3>3 DEF Untouched
    <2> QED
      BY <1>3, <2>1, <2>2 DEF IdleCycleInv, TodoInv
  <1> USE <1>0, <1>1, <1>2, <1>3, <1>4, <1>5, <1>6
  <1> USE DEF CycleTypeOK, Untouched, HasOrder, Unsubmitted, Submitting, CycleInv
  <1>8. CurInv' /\ FreshInv'
    BY DEF CurInv, FreshInv
  <1>9. StartInv' /\ AttemptInv'
    <2>1. StartInv'
      BY DEF StartInv, CurInv
    <2>2. AttemptInv'
      BY DEF AttemptInv, CurInv, Attempts
    <2> QED
      BY <2>1, <2>2
  <1> QED
    BY <1>7, <1>8, <1>9

\* A cycle keeps to its own orders, whatever the poll, the cancel job and other
\* cycles do between its steps.
LEMMA CycleInvStep == TypeOK /\ CycleInv /\ [Next]_vars => CycleInv'
  <1> SUFFICES ASSUME TypeOK, CycleInv, [Next]_vars PROVE CycleInv'
    OBVIOUS
  <1>1. ASSUME NEW c \in Cycles, CycleStep(c) PROVE CycleInv'
    BY <1>1, QuietCycleStep, MarkCycleStep, RecordCycleStep
  <1>2. CASE Crash
    BY <1>2 DEF Crash, dbVars, CycleInv, IdleCycleInv, TodoInv, CurInv, FreshInv, StartInv,
       AttemptInv, Untouched, HasOrder, Unsubmitted, Submitting
  <1>3. CASE UNCHANGED <<cycleVars, kisOrderNo, retryCount>>
    BY <1>3 DEF cycleVars, CycleInv, IdleCycleInv, TodoInv, CurInv, FreshInv, StartInv,
       AttemptInv, Untouched
  <1>4. CASE UNCHANGED vars
    BY <1>3, <1>4 DEF vars, cycleVars, dbVars
  <1> QED
    BY <1>1, <1>2, <1>3, <1>4, CycleFrame

-----------------------------------------------------------------------------
(***************************************************************************)
(* The poll and the ledger.                                                *)
(***************************************************************************)
PollLedgerInv == PollInv /\ LedgerNeverAheadOfBroker

\* At the start nothing is recorded, read or due.
LEMMA InitPollLedgerInv == Init => PollLedgerInv
  BY DEF Init, PollLedgerInv, PollInv, LedgerNeverAheadOfBroker, NoFills

\* A recorded submission starts from an empty ledger: the order had no number,
\* so nothing had been filled and the poll had nothing to add.
LEMMA CyclePollLedgerStep ==
  ASSUME TypeOK, CycleInv, PollLedgerInv, NEW c \in Cycles, CycleStep(c)
  PROVE  PollLedgerInv'
  <1>0. LedgerTypeOK /\ BrokerTypeOK /\ CycleTypeOK /\ PollTypeOK
    BY DEF TypeOK
  <1>1. UNCHANGED <<ppc, pollCand, pollSeen, pollFills, filled, bFilled>>
    BY CycleStepFrame DEF pollVars
  <1>2. CASE MarkSubmissionResult(c)
    <2>1. cur[c] \in Orders /\ kisOrderNo[cur[c]] = 0 /\ attempt[c] \in Attempts
      BY <1>2 DEF CycleInv, CurInv, FreshInv, AttemptInv, HasOrder, Unsubmitted, Submitting,
         MarkSubmissionResult, CycleGoto
    <2>2. PICK n \in {attempt[c], 0} : kisOrderNo' = [kisOrderNo EXCEPT ![cur[c]] = n]
      BY <1>2 DEF MarkSubmissionResult, AnsweredNumbers
    <2>3. filled[cur[c]] = 0 /\ bFilled[cur[c]][attempt[c]] \in Nat
      BY <1>0, <2>1 DEF PollLedgerInv, LedgerNeverAheadOfBroker, BrokerTypeOK
    <2>4. LedgerNeverAheadOfBroker'
      BY <1>0, <1>1, <2>1, <2>2, <2>3 DEF PollLedgerInv, LedgerNeverAheadOfBroker, LedgerTypeOK, Attempts
    <2>5. PollInv'
      BY <1>0, <1>1, <2>1, <2>2 DEF PollLedgerInv, PollInv, LedgerTypeOK
    <2> QED
      BY <2>4, <2>5 DEF PollLedgerInv
  <1>3. CASE ~MarkSubmissionResult(c)
    <2>1. UNCHANGED kisOrderNo
      BY <1>3 DEF CycleStep, LoadPositions, ReadCandidates, SkipCandidate, PersistSignal,
         PersistValidatedOrder, PlaceRefused, PlaceStart, ReadSubmitAttempts, SubmitAccepted,
         SubmitLost, SubmitFailed, RecordSubmitFailure, MarkOrderReconcileHold,
         FlagReconciliationHold, Reload, FinishCycle, CycleWriteFails, dbVars
    <2> QED
      BY <1>1, <2>1 DEF PollLedgerInv, PollInv, LedgerNeverAheadOfBroker
  <1> QED
    BY <1>2, <1>3

\* The quantity the poll adds is what the broker had beyond the recorded total,
\* and that total has not moved since the poll read it.
LEMMA PollPollLedgerStep ==
  ASSUME TypeOK, PollLedgerInv, PollStep
  PROVE  PollLedgerInv'
  <1>0. LedgerTypeOK /\ BrokerTypeOK /\ PollTypeOK
    BY DEF TypeOK
  <1>1. CASE QueryFills
    <2>1. UNCHANGED <<kisOrderNo, filled, bFilled>> /\ ppc = "query" /\ ppc' = "process"
      BY <1>1 DEF QueryFills, PollGoto, dbVars, brokerVars
    <2>2. ASSUME NEW o \in Orders, pollFills'[o] > 0
          PROVE  kisOrderNo[o] # 0 /\ filled[o] + pollFills'[o] <= bFilled[o][kisOrderNo[o]]
      <3>1. pollFills'[o] = Delta(o)
        BY <1>1 DEF QueryFills
      <3>2. /\ o \in pollCand /\ kisOrderNo[o] # 0
            /\ pollFills'[o] = bFilled[o][kisOrderNo[o]] - pollSeen[o]
        BY <2>2, <3>1 DEF Delta
      <3>3. pollSeen[o] = filled[o]
        BY <2>1, <3>2 DEF PollLedgerInv, PollInv
      <3>4. bFilled[o][kisOrderNo[o]] \in Nat /\ filled[o] \in Nat
        BY <1>0, <3>2, OrderExecutionAssumption DEF LedgerTypeOK, BrokerTypeOK, Attempts
      <3> QED
        BY <3>2, <3>3, <3>4
    <2> QED
      BY <2>1, <2>2 DEF PollLedgerInv, PollInv, LedgerNeverAheadOfBroker
  <1>2. ASSUME NEW o \in Orders, ProcessFill(o) PROVE PollLedgerInv'
    <2>1. /\ UNCHANGED <<kisOrderNo, bFilled, ppc, pollCand, pollSeen>> /\ ppc = "process"
          /\ pollFills[o] > 0
          /\ filled' = [filled EXCEPT ![o] = @ + pollFills[o]]
          /\ pollFills' = [pollFills EXCEPT ![o] = 0]
      BY <1>2 DEF ProcessFill, brokerVars
    <2>2. kisOrderNo[o] # 0 /\ filled[o] + pollFills[o] <= bFilled[o][kisOrderNo[o]]
      BY <2>1 DEF PollLedgerInv, PollInv
    <2> QED
      BY <1>0, <2>1, <2>2 DEF PollLedgerInv, PollInv, LedgerNeverAheadOfBroker, LedgerTypeOK, PollTypeOK
  <1>3. CASE ReadProgress
    BY <1>3 DEF ReadProgress, InternalProgress, PollGoto, dbVars, brokerVars, PollLedgerInv, PollInv,
       LedgerNeverAheadOfBroker
  <1>4. CASE PollStart \/ FillsDone \/ QueryAccount \/ QueryOpenOrders
    BY <1>4 DEF PollStart, FillsDone, QueryAccount, QueryOpenOrders, PollGoto, dbVars, brokerVars,
       PollLedgerInv, PollInv, LedgerNeverAheadOfBroker
  <1>5. CASE Reconcile \/ PollFlagMismatch \/ PollQueryFails \/ PollWriteFails \/ \E o \in Orders : FillRefused(o)
    BY <1>5 DEF FillRefused, Reconcile, PollFlagMismatch, PollQueryFails, PollWriteFails, PollIsOver, dbVars,
       brokerVars, PollLedgerInv, PollInv, LedgerNeverAheadOfBroker
  <1> QED
    BY <1>1, <1>2, <1>3, <1>4, <1>5 DEF PollStep

\* The broker only fills more; a cancel changes no quantity.
LEMMA BrokerPollLedgerStep ==
  ASSUME TypeOK, PollLedgerInv, NEW o \in Orders, NEW k \in Attempts, BrokerFill(o, k)
  PROVE  PollLedgerInv'
  <1>0. LedgerTypeOK /\ BrokerTypeOK /\ PollTypeOK
    BY DEF TypeOK
  <1>1. UNCHANGED <<kisOrderNo, filled, ppc, pollCand, pollSeen, pollFills>>
    BY DEF BrokerFill, dbVars, pollVars
  <1>2. bFilled' = [bFilled EXCEPT ![o][k] = @ + 1]
    BY DEF BrokerFill
  <1>3. \A p \in Orders, j \in Attempts : bFilled[p][j] \in Nat /\ bFilled'[p][j] \in Nat /\ bFilled[p][j] <= bFilled'[p][j]
    BY <1>0, <1>2 DEF BrokerTypeOK
  <1>4. \A p \in Orders : kisOrderNo[p] # 0 => kisOrderNo[p] \in Attempts
    BY <1>0, OrderExecutionAssumption DEF LedgerTypeOK, Attempts
  <1>a. \A p \in Orders : filled[p] \in Nat /\ pollFills[p] \in Nat
    BY <1>0 DEF LedgerTypeOK, PollTypeOK
  <1>5. LedgerNeverAheadOfBroker'
    BY <1>a, <1>1, <1>3, <1>4 DEF PollLedgerInv, LedgerNeverAheadOfBroker
  <1>6. PollInv'
    BY <1>a, <1>1, <1>3, <1>4 DEF PollLedgerInv, PollInv
  <1> QED
    BY <1>5, <1>6 DEF PollLedgerInv

\* What the poll has read stays true until it asks the broker, so the ledger
\* never overtakes the broker.
LEMMA PollLedgerInvStep == TypeOK /\ CycleInv /\ PollLedgerInv /\ [Next]_vars => PollLedgerInv'
  <1> SUFFICES ASSUME TypeOK, CycleInv, PollLedgerInv, [Next]_vars PROVE PollLedgerInv'
    OBVIOUS
  <1>1. CASE CancelStep
    BY <1>1 DEF CancelStep, ReadCancelCandidates, CancelAccepted, CancelGivenUp, RequestCancel,
       ConfirmCancel, CancelWriteFails, dbVars, brokerVars, pollVars, PollLedgerInv, PollInv,
       LedgerNeverAheadOfBroker
  <1>2. CASE Crash
    BY <1>2 DEF Crash, PollIsOver, dbVars, brokerVars, PollLedgerInv, PollInv, LedgerNeverAheadOfBroker
  <1>3. CASE UNCHANGED vars
    BY <1>3 DEF vars, dbVars, brokerVars, pollVars, PollLedgerInv, PollInv, LedgerNeverAheadOfBroker
  <1> QED
    BY <1>1, <1>2, <1>3, CyclePollLedgerStep, PollPollLedgerStep, BrokerPollLedgerStep DEF Next

-----------------------------------------------------------------------------
IInv == TypeOK /\ CycleInv /\ PollLedgerInv

\* The inductive invariant holds in every reachable state.
THEOREM Inductive == Spec => []IInv
  <1>1. Init => IInv
    BY InitTypeOK, InitCycleInv, InitPollLedgerInv DEF IInv
  <1>2. IInv /\ [Next]_vars => IInv'
    BY TypeStep, CycleInvStep, PollLedgerInvStep DEF IInv, CycleInv
  <1> QED
    BY <1>1, <1>2, PTL DEF Spec

(* Every reachable state is well typed, whatever the number of orders,       *)
(* cycles, retries and restarts: in particular the retry count of an order   *)
(* never exceeds max_submit_retries.                                         *)
THEOREM TypeCorrect == Spec => []TypeOK
  <1>1. IInv => TypeOK
    BY DEF IInv
  <1> QED
    BY <1>1, Inductive, PTL

(* The ledger never records a fill the broker did not make.                  *)
THEOREM LedgerIsSafe == Spec => []LedgerNeverAheadOfBroker
  <1>1. IInv => LedgerNeverAheadOfBroker
    BY DEF IInv, PollLedgerInv
  <1> QED
    BY <1>1, Inductive, PTL

-----------------------------------------------------------------------------
(***************************************************************************)
(* Statuses and the broker.                                                *)
(***************************************************************************)
\* Each attempt is sent at most once: those that a cycle has still before it
\* are unknown to the broker.
NotSent(o, k) == bState[o][k] = "none"

SendInv ==
  /\ \A c \in Cycles, o \in Orders : cpc[c] = "idle" /\ CycleOf[o] = c =>
       \A k \in Attempts : NotSent(o, k)
  /\ \A c \in Cycles : \A o \in todo[c] : \A k \in Attempts : NotSent(o, k)
  /\ \A c \in Cycles : cpc[c] \in {"persist", "place", "budget"} =>
       \A k \in Attempts : NotSent(cur[c], k)
  /\ \A c \in Cycles : cpc[c] = "submit" =>
       \A k \in Attempts : k >= attempt[c] => NotSent(cur[c], k)
  /\ \A c \in Cycles : cpc[c] = "record" =>
       \A k \in Attempts : k > attempt[c] => NotSent(cur[c], k)

\* An order that is on its way has a size, which its cycle has given it.
SizeInv ==
  \A c \in Cycles : /\ \A o \in todo[c] : quantity[o] > 0
                    /\ cpc[c] \in HasOrder => quantity[cur[c]] > 0

\* So a submission starts empty, and while it is open it is not full.
FillsInv ==
  \A o \in Orders, k \in Attempts :
    /\ bFilled[o][k] <= quantity[o]
    /\ bState[o][k] = "none" => bFilled[o][k] = 0
    /\ bState[o][k] = "open" => bFilled[o][k] < quantity[o]

\* What the cancel job is about to write is so for good: the broker fills no
\* more of the order, and it has not filled all of it.
CancelInv ==
  /\ \A o \in xTodo : kisOrderNo[o] # 0
  /\ xpc \in {"request", "confirm"} =>
       /\ xCur \in Orders /\ kisOrderNo[xCur] # 0
       /\ bState[xCur][kisOrderNo[xCur]] = "closed"
       /\ bFilled[xCur][kisOrderNo[xCur]] < quantity[xCur]

StatusInv == SendInv /\ SizeInv /\ FillsInv /\ CancelInv /\ StatusIsTruthful

\* A cycle sends the attempt it is at, and then goes on to the next one.
LEMMA CycleSendStep ==
  ASSUME TypeOK, CycleInv, SendInv, NEW c \in Cycles, CycleStep(c)
  PROVE  SendInv'
  <1> USE OrderExecutionAssumption
  <1> USE DEF SendInv, NotSent
  <1>0. CycleTypeOK /\ BrokerTypeOK
    BY DEF TypeOK
  <1>a. /\ \A d \in Cycles : \A o \in todo[d] : CycleOf[o] = d
        /\ cpc[c] \in HasOrder => cur[c] \in Orders /\ CycleOf[cur[c]] = c /\ cur[c] \notin todo[c]
        /\ \A d \in Cycles : d # c /\ cpc[c] \in HasOrder /\ cpc[d] \in HasOrder => cur[d] # cur[c]
    BY DEF CycleInv, TodoInv, CurInv
  <1> USE <1>0, <1>a DEF CycleTypeOK, CycleGoto, HasOrder, brokerVars, cycleVars
  <1>1. CASE LoadPositions(c) \/ ReadCandidates(c)
    <2>1. UNCHANGED <<cur, attempt, bState>>
      BY <1>1 DEF LoadPositions, ReadCandidates
    <2>2. /\ \/ cpc[c] = "idle" /\ cpc' = [cpc EXCEPT ![c] = "loaded"]
             \/ cpc[c] = "loaded" /\ cpc' = [cpc EXCEPT ![c] = "next"]
          /\ \E S : /\ todo' = [todo EXCEPT ![c] = S]
                    /\ \A o \in S : \A k \in Attempts : NotSent(o, k)
      <3>1. CASE LoadPositions(c)
        <4> DEFINE mine == {o \in Orders : CycleOf[o] = c /\ MayTrade(o)}
        <4>1. cpc[c] = "idle" /\ \A o \in mine : \A k \in Attempts : NotSent(o, k)
          BY <3>1 DEF LoadPositions
        <4>2. todo' = [todo EXCEPT ![c] = mine] /\ cpc' = [cpc EXCEPT ![c] = "loaded"]
          BY <3>1 DEF LoadPositions
        <4> HIDE DEF mine
        <4> QED
          BY <4>1, <4>2
      <3>2. CASE ReadCandidates(c)
        <4> DEFINE left == {o \in todo[c] : TickerOf[o] \notin OpenOrderTickers}
        <4>1. cpc[c] = "loaded" /\ \A o \in left : \A k \in Attempts : NotSent(o, k)
          BY <3>2 DEF ReadCandidates
        <4>2. todo' = [todo EXCEPT ![c] = left] /\ cpc' = [cpc EXCEPT ![c] = "next"]
          BY <3>2 DEF ReadCandidates
        <4> HIDE DEF left
        <4> QED
          BY <4>1, <4>2
      <3> QED
        BY <1>1, <3>1, <3>2
    <2> QED
      BY <2>1, <2>2
  <1>2. ASSUME NEW o \in Orders, SkipCandidate(c, o) \/ PersistSignal(c, o) PROVE SendInv'
    BY <1>2, SMTT(30) DEF SkipCandidate, PersistSignal
  <1>3. CASE PersistValidatedOrder(c) \/ PlaceRefused(c)
    <2>1. /\ UNCHANGED <<bState, todo, cur, attempt>>
          /\ \/ cpc[c] = "persist" /\ cpc' = [cpc EXCEPT ![c] = "place"]
             \/ cpc[c] = "place" /\ cpc' = [cpc EXCEPT ![c] = "reload"]
      BY <1>3 DEF PersistValidatedOrder, PlaceRefused
    <2> QED
      BY <2>1
  <1>4. CASE PlaceStart(c)
    BY <1>4 DEF PlaceStart
  <1>13. CASE ReadSubmitAttempts(c)
    BY <1>13 DEF ReadSubmitAttempts
  <1>5. ASSUME cpc[c] = "submit", BrokerBooks(c) \/ UNCHANGED bState,
               \A d \in Cycles : d # c => cpc'[d] = cpc[d] /\ cur'[d] = cur[d] /\ attempt'[d] = attempt[d],
               \A d \in Cycles : todo'[d] \in {todo[d], {}},
               cpc'[c] \in {"mark", "record", "hold", "done"},
               cpc'[c] = "record" => cur'[c] = cur[c] /\ attempt'[c] = attempt[c]
        PROVE  SendInv'
    <2>1. \A o \in Orders, k \in Attempts :
            o # cur[c] \/ k # attempt[c] => bState'[o][k] = bState[o][k]
      BY <1>5 DEF BrokerBooks, BrokerTypeOK
    <2>2. attempt[c] \in Attempts
      BY <1>5 DEF CycleInv, AttemptInv, Submitting
    <2>3. \A d \in Cycles, o \in Orders : cpc'[d] = "idle" /\ CycleOf[o] = d =>
            \A k \in Attempts : NotSent(o, k)'
      BY <1>5, <2>1
    <2>4. \A d \in Cycles : \A o \in todo'[d] : \A k \in Attempts : NotSent(o, k)'
      BY <1>5, <2>1, SMTT(30)
    <2>5. \A d \in Cycles : cpc'[d] \in {"persist", "place", "budget"} =>
            \A k \in Attempts : bState'[cur'[d]][k] = "none"
      BY <1>5, <2>1, SMTT(30) DEF CycleInv, CurInv
    <2>6. \A d \in Cycles : cpc'[d] = "submit" =>
            \A k \in Attempts : k >= attempt'[d] => bState'[cur'[d]][k] = "none"
      BY <1>5, <2>1, SMTT(30) DEF CycleInv, CurInv
    <2>7. \A d \in Cycles : cpc'[d] = "record" =>
            \A k \in Attempts : k > attempt'[d] => bState'[cur'[d]][k] = "none"
      <3>1. \A k \in Attempts : k > attempt[c] => bState'[cur[c]][k] = "none"
        BY <1>5, <2>1, <2>2 DEF Attempts
      <3> QED
        BY <1>5, <2>1, <3>1 DEF CycleInv, CurInv
    <2> QED
      BY <2>3, <2>4, <2>5, <2>6, <2>7
  <1>6. CASE SubmitAccepted(c)
    BY <1>5, <1>6 DEF SubmitAccepted
  <1>7. CASE SubmitLost(c)
    BY <1>5, <1>7 DEF SubmitLost, CycleIsOver
  <1>8. ASSUME NEW f \in Failures, SubmitFailed(c, f) PROVE SendInv'
    BY <1>5, <1>8 DEF SubmitFailed
  <1>9. CASE RecordSubmitFailure(c)
    <2>1. UNCHANGED <<bState, todo, cur>> /\ cpc[c] = "record"
      BY <1>9 DEF RecordSubmitFailure
    <2>2. attempt[c] \in Attempts
      BY <2>1 DEF CycleInv, AttemptInv, Submitting
    <2>3. \/ cpc' = [cpc EXCEPT ![c] = "submit"] /\ attempt' = [attempt EXCEPT ![c] = @ + 1]
          \/ cpc' = [cpc EXCEPT ![c] = "reload"] /\ attempt' = [attempt EXCEPT ![c] = 0]
      BY <1>9 DEF RecordSubmitFailure, LeavePlaceOrder
    <2>4. CASE cpc' = [cpc EXCEPT ![c] = "submit"] /\ attempt' = [attempt EXCEPT ![c] = @ + 1]
      BY <2>1, <2>2, <2>4 DEF Attempts
    <2>5. CASE cpc' = [cpc EXCEPT ![c] = "reload"] /\ attempt' = [attempt EXCEPT ![c] = 0]
      BY <2>1, <2>5
    <2> QED
      BY <2>3, <2>4, <2>5
  <1>10. CASE MarkSubmissionResult(c) \/ MarkOrderReconcileHold(c) \/ FlagReconciliationHold(c)
    <2>1. /\ UNCHANGED <<bState, todo, cur>>
          /\ \/ attempt' = [attempt EXCEPT ![c] = 0] /\ cpc' = [cpc EXCEPT ![c] = "reload"]
             \/ UNCHANGED attempt /\ cpc' = [cpc EXCEPT ![c] = "flag"]
      BY <1>10 DEF MarkSubmissionResult, MarkOrderReconcileHold, FlagReconciliationHold,
         LeavePlaceOrder
    <2> QED
      BY <2>1
  <1>11. CASE Reload(c)
    BY <1>11 DEF Reload
  <1>12. CASE FinishCycle(c) \/ CycleWriteFails(c)
    <2>1. CycleIsOver(c) /\ UNCHANGED bState
      BY <1>12 DEF FinishCycle, CycleWriteFails
    <2> QED
      BY <2>1 DEF CycleIsOver
  <1> QED
    BY <1>1, <1>2, <1>3, <1>4, <1>6, <1>7, <1>8, <1>9, <1>10, <1>11, <1>12, <1>13
    DEF CycleStep

\* Fills and cancels are of attempts that have been sent.
LEMMA SentFrame ==
  ASSUME TypeOK,
         (\E o \in Orders, k \in Attempts : BrokerFill(o, k)) \/ CancelStep \/ UNCHANGED bState
  PROVE  \A o \in Orders, k \in Attempts : NotSent(o, k) => NotSent(o, k)'
  <1>0. BrokerTypeOK
    BY DEF TypeOK
  <1>1. ASSUME NEW o \in Orders, NEW k \in Attempts, BrokerFill(o, k)
        PROVE  \A p \in Orders, j \in Attempts : NotSent(p, j) => NotSent(p, j)'
    BY <1>0, <1>1 DEF BrokerFill, NotSent, BrokerTypeOK
  <1>2. ASSUME NEW o \in Orders, BrokerCancels(o)
        PROVE  \A p \in Orders, j \in Attempts : NotSent(p, j) => NotSent(p, j)'
    BY <1>0, <1>2 DEF BrokerCancels, NotSent, BrokerTypeOK
  <1>3. CASE UNCHANGED bState
    BY <1>3 DEF NotSent
  <1>4. CASE CancelStep
    BY <1>2, <1>3, <1>4 DEF CancelStep, ReadCancelCandidates, CancelAccepted, CancelGivenUp,
       RequestCancel, ConfirmCancel, CancelWriteFails, brokerVars
  <1> QED
    BY <1>1, <1>3, <1>4

\* No attempt is sent twice, whatever fills, is cancelled or restarts.
LEMMA SendStep == TypeOK /\ CycleInv /\ SendInv /\ [Next]_vars => SendInv'
  <1> SUFFICES ASSUME TypeOK, CycleInv, SendInv, [Next]_vars PROVE SendInv'
    OBVIOUS
  <1>0. CycleTypeOK
    BY DEF TypeOK
  <1>1. ASSUME UNCHANGED cycleVars,
               \A o \in Orders, k \in Attempts : NotSent(o, k) => NotSent(o, k)'
        PROVE  SendInv'
    <2>1. \A c \in Cycles : cpc[c] \in HasOrder => cur[c] \in Orders
      BY DEF CycleInv, CurInv
    <2> QED
      BY <1>0, <1>1, <2>1 DEF SendInv, CycleTypeOK, HasOrder, cycleVars
  <1>2. CASE Crash
    BY <1>0, <1>2 DEF Crash, SendInv, NotSent, brokerVars, CycleTypeOK
  <1>3. ASSUME NEW c \in Cycles, CycleStep(c) PROVE SendInv'
    BY <1>3, CycleSendStep
  <1>4. ASSUME NEW o \in Orders, NEW k \in Attempts, BrokerFill(o, k) PROVE SendInv'
    <2>1. UNCHANGED cycleVars
      BY <1>4 DEF BrokerFill
    <2> QED
      BY <1>1, <1>4, <2>1, SentFrame
  <1>5. CASE PollStep
    <2>1. UNCHANGED cycleVars /\ UNCHANGED bState
      BY <1>5 DEF PollStep, PollStart, ReadProgress, QueryFills, ProcessFill, FillRefused,
         FillsDone, QueryAccount, QueryOpenOrders, Reconcile, PollFlagMismatch, PollQueryFails,
         PollWriteFails, brokerVars
    <2> QED
      BY <1>1, <2>1, SentFrame
  <1>6. CASE CancelStep
    <2>1. UNCHANGED cycleVars
      BY <1>6 DEF CancelStep, ReadCancelCandidates, CancelAccepted, CancelGivenUp,
         RequestCancel, ConfirmCancel, CancelWriteFails
    <2> QED
      BY <1>1, <1>6, <2>1, SentFrame
  <1>7. CASE UNCHANGED vars
    BY <1>1, <1>7, SentFrame DEF vars, brokerVars
  <1> QED
    BY <1>2, <1>3, <1>4, <1>5, <1>6, <1>7 DEF Next

\* A cycle gives a size to the orders it has not begun with, and to no other.
LEMMA QuantityFrame ==
  ASSUME TypeOK, [Next]_vars, NEW o \in Orders, quantity'[o] # quantity[o]
  PROVE  \E c \in Cycles : cpc[c] = "idle" /\ CycleOf[o] = c
  <1>0. LedgerTypeOK
    BY DEF TypeOK
  <1>1. ASSUME NEW c \in Cycles, LoadPositions(c) PROVE cpc[c] = "idle" /\ CycleOf[o] = c
    BY <1>0, <1>1 DEF LoadPositions, CycleGoto
  <1>2. (\E c \in Cycles : LoadPositions(c)) \/ UNCHANGED quantity
    BY LedgerFrame DEF LedgerWrite, PersistSignal, PersistValidatedOrder, PlaceRefused,
       MarkSubmissionResult, RecordSubmitFailure, MarkOrderReconcileHold,
       FlagReconciliationHold, ProcessFill, RequestCancel, ConfirmCancel, vars, dbVars
  <1> QED
    BY <1>1, <1>2

\* What a strategy holds or is to buy is at least a unit.
LEMMA SizeStep == TypeOK /\ CycleInv /\ SizeInv /\ [Next]_vars => SizeInv'
  <1> SUFFICES ASSUME TypeOK, CycleInv, SizeInv, [Next]_vars PROVE SizeInv'
    OBVIOUS
  <1>0. CycleTypeOK /\ LedgerTypeOK
    BY DEF TypeOK
  <1>1. ASSUME NEW c \in Cycles, LoadPositions(c) PROVE SizeInv'
    <2> DEFINE mine == {o \in Orders : CycleOf[o] = c /\ MayTrade(o)}
    <2>1. cpc' = [cpc EXCEPT ![c] = "loaded"] /\ todo' = [todo EXCEPT ![c] = mine] /\ cur' = cur
      BY <1>1 DEF LoadPositions, CycleGoto
    <2>2. \A o \in mine : SizeOf(o) > 0
      BY <1>0, OrderExecutionAssumption DEF SizeOf, MayTrade, LedgerTypeOK
    <2>3. \A o \in Orders : quantity'[o] = IF o \in mine THEN SizeOf(o) ELSE quantity[o]
      BY <1>1 DEF LoadPositions
    <2>4. \A d \in Cycles : d # c => \A o \in todo[d] : o \in Orders /\ o \notin mine
      BY <1>0 DEF CycleInv, TodoInv, CycleTypeOK
    <2>5. \A d \in Cycles : d # c /\ cpc[d] \in HasOrder => cur[d] \in Orders /\ cur[d] \notin mine
      BY DEF CycleInv, CurInv
    <2>6. \A o \in mine : o \in Orders
      OBVIOUS
    <2> HIDE DEF mine
    <2> QED
      BY <1>0, <2>1, <2>2, <2>3, <2>4, <2>5, <2>6 DEF SizeInv, CycleTypeOK, HasOrder
  <1>2. ASSUME NEW c \in Cycles, CycleStep(c), ~LoadPositions(c) PROVE SizeInv'
    <2>1. UNCHANGED quantity
      BY <1>2 DEF CycleStep, ReadCandidates, SkipCandidate, PersistSignal, PersistValidatedOrder,
         PlaceRefused, PlaceStart, ReadSubmitAttempts, SubmitAccepted, SubmitLost, SubmitFailed,
         MarkSubmissionResult, RecordSubmitFailure, MarkOrderReconcileHold,
         FlagReconciliationHold, Reload, FinishCycle, CycleWriteFails, dbVars
    <2>2. \A d \in Cycles : d # c => cpc'[d] = cpc[d] /\ cur'[d] = cur[d] /\ todo'[d] = todo[d]
      BY <1>0, <1>2 DEF CycleTypeOK, CycleStep, CycleGoto, CycleIsOver, cycleVars, ReadCandidates,
         SkipCandidate, PersistSignal, PersistValidatedOrder, PlaceRefused, PlaceStart,
         ReadSubmitAttempts, SubmitAccepted, SubmitLost, SubmitFailed, MarkSubmissionResult,
         RecordSubmitFailure, MarkOrderReconcileHold, FlagReconciliationHold, Reload,
         FinishCycle, CycleWriteFails
    <2>3. todo'[c] \subseteq todo[c]
      BY <1>0, <1>2 DEF CycleTypeOK, CycleStep, CycleIsOver, cycleVars, ReadCandidates,
         SkipCandidate, PersistSignal, PersistValidatedOrder, PlaceRefused, PlaceStart,
         ReadSubmitAttempts, SubmitAccepted, SubmitLost, SubmitFailed, MarkSubmissionResult,
         RecordSubmitFailure, MarkOrderReconcileHold, FlagReconciliationHold, Reload,
         FinishCycle, CycleWriteFails
    <2>4. cpc'[c] \in HasOrder => cur'[c] \in todo[c] \/ (cpc[c] \in HasOrder /\ cur'[c] = cur[c])
      BY <1>0, <1>2 DEF HasOrder, CycleTypeOK, CycleStep, CycleGoto, CycleIsOver, cycleVars,
         ReadCandidates, SkipCandidate, PersistSignal, PersistValidatedOrder, PlaceRefused,
         PlaceStart, ReadSubmitAttempts, SubmitAccepted, SubmitLost, SubmitFailed,
         MarkSubmissionResult, RecordSubmitFailure, MarkOrderReconcileHold,
         FlagReconciliationHold, Reload, FinishCycle, CycleWriteFails
    <2> QED
      BY <2>1, <2>2, <2>3, <2>4 DEF SizeInv
  <1>3. CASE Crash
    BY <1>0, <1>3 DEF Crash, dbVars, SizeInv, CycleTypeOK, HasOrder
  <1>4. CASE UNCHANGED <<cycleVars, kisOrderNo, retryCount, quantity>>
    BY <1>4 DEF SizeInv, cycleVars
  <1> QED
    BY <1>1, <1>2, <1>3, <1>4, CycleFrame DEF vars, dbVars, cycleVars

LEMMA LedgerTypeNext == ASSUME TypeOK, CycleInv, [Next]_vars PROVE LedgerTypeOK'
  BY TypeStep DEF TypeOK, CycleInv

\* The broker books a submission that has no fills, and closes it when it is
\* full.
LEMMA FillsStep == TypeOK /\ CycleInv /\ SendInv /\ SizeInv /\ FillsInv /\ [Next]_vars => FillsInv'
  <1> SUFFICES ASSUME TypeOK, CycleInv, SendInv, SizeInv, FillsInv, [Next]_vars PROVE FillsInv'
    OBVIOUS
  <1> USE OrderExecutionAssumption
  <1>0. BrokerTypeOK /\ LedgerTypeOK
    BY DEF TypeOK
  <1>1. ASSUME NEW c \in Cycles, cpc[c] = "submit", BrokerBooks(c), UNCHANGED <<bFilled, quantity>>
        PROVE  FillsInv'
    <2>1. cur[c] \in Orders /\ attempt[c] \in Attempts
      BY <1>1 DEF CycleInv, CurInv, AttemptInv, HasOrder, Submitting
    <2>2. bFilled[cur[c]][attempt[c]] = 0
      BY <1>1, <2>1 DEF SendInv, NotSent, FillsInv, Attempts
    <2>3. quantity[cur[c]] > 0
      BY <1>1 DEF SizeInv, HasOrder
    <2> QED
      BY <1>0, <1>1, <2>1, <2>2, <2>3 DEF BrokerBooks, BrokerTypeOK, FillsInv
  <1>2. ASSUME NEW o \in Orders, BrokerCancels(o), UNCHANGED <<bFilled, quantity>>
        PROVE  FillsInv'
    BY <1>0, <1>2 DEF BrokerCancels, BrokerTypeOK, FillsInv
  <1>3. CASE UNCHANGED <<bState, bFilled>>
    <2> SUFFICES ASSUME NEW o \in Orders, NEW k \in Attempts, quantity'[o] # quantity[o]
                 PROVE  bState[o][k] = "none" /\ bFilled[o][k] = 0 /\ quantity'[o] \in Nat
      BY <1>3 DEF FillsInv
    <2>1. bState[o][k] = "none" /\ bFilled[o][k] = 0
      BY QuantityFrame DEF SendInv, NotSent, FillsInv
    <2>2. quantity'[o] \in Nat
      BY LedgerTypeNext DEF LedgerTypeOK
    <2> QED
      BY <2>1, <2>2
  <1>4. ASSUME NEW c \in Cycles,
               SubmitAccepted(c) \/ SubmitLost(c) \/ \E f \in Failures : SubmitFailed(c, f)
        PROVE  FillsInv'
    BY <1>1, <1>3, <1>4 DEF SubmitAccepted, SubmitLost, SubmitFailed, CycleGoto, dbVars
  <1>5. ASSUME NEW o \in Orders, NEW k \in Attempts, BrokerFill(o, k) PROVE FillsInv'
    <2>1. /\ bState[o][k] = "open" /\ bFilled[o][k] < quantity[o] /\ bFilled[o][k] \in Nat /\ UNCHANGED quantity
          /\ \A p \in Orders, j \in Attempts :
               /\ bFilled'[p][j] = IF p = o /\ j = k THEN bFilled[p][j] + 1 ELSE bFilled[p][j]
               /\ bState'[p][j] = IF p = o /\ j = k /\ bFilled[o][k] + 1 = quantity[o]
                                  THEN "closed" ELSE bState[p][j]
      BY <1>0, <1>5 DEF BrokerFill, BrokerTypeOK, FillsInv, dbVars
    <2>2. \A p \in Orders, j \in Attempts : bFilled[p][j] \in Nat
      BY <1>0 DEF BrokerTypeOK
    <2>3. ASSUME NEW p \in Orders, NEW j \in Attempts
          PROVE  /\ bFilled'[p][j] <= quantity'[p]
                 /\ bState'[p][j] = "none" => bFilled'[p][j] = 0
                 /\ bState'[p][j] = "open" => bFilled'[p][j] < quantity'[p]
      <3>1. CASE p = o /\ j = k
        <4>1. bFilled'[p][j] = bFilled[o][k] + 1
          BY <2>1, <3>1
        <4>2. bState'[p][j] = IF bFilled[o][k] + 1 = quantity[o] THEN "closed" ELSE "open"
          BY <2>1, <3>1
        <4>3. bFilled[o][k] \in Nat /\ bFilled[o][k] < quantity[o] /\ quantity[o] \in Nat /\ quantity'[p] = quantity[o]
          BY <1>0, <2>1, <3>1 DEF LedgerTypeOK
        <4>4. CASE bFilled[o][k] + 1 = quantity[o]
          BY <4>1, <4>2, <4>3, <4>4
        <4>5. CASE bFilled[o][k] + 1 # quantity[o]
          <5>1. bState'[p][j] = "open"
            BY <4>2, <4>5
          <5>2. bFilled'[p][j] < quantity'[p] /\ bFilled'[p][j] <= quantity'[p]
            BY <4>1, <4>3, <4>5
          <5> QED
            BY <4>3, <5>1, <5>2
        <4> QED
          BY <4>4, <4>5
      <3>2. CASE ~(p = o /\ j = k)
        BY <2>1, <3>2 DEF FillsInv
      <3> QED
        BY <3>1, <3>2
    <2> QED
      BY <2>3 DEF FillsInv
  <1>6. ASSUME NEW o \in Orders, CancelAccepted(o) \/ CancelGivenUp(o) PROVE FillsInv'
    BY <1>2, <1>3, <1>6 DEF CancelAccepted, CancelGivenUp, dbVars
  <1>7. CASE UNCHANGED brokerVars
    BY <1>3, <1>7 DEF brokerVars
  <1> QED
    BY <1>4, <1>5, <1>6, <1>7, BrokerFrame DEF BrokerCall, vars

\* A closed submission stays closed, and an order keeps its number and its size.
LEMMA ClosedStaysClosed ==
  ASSUME TypeOK, CycleInv, SendInv, NEW o \in Orders, kisOrderNo[o] # 0, [Next]_vars
  PROVE  /\ kisOrderNo'[o] = kisOrderNo[o] /\ quantity'[o] = quantity[o]
         /\ bState[o][kisOrderNo[o]] = "closed" =>
              /\ bState'[o][kisOrderNo[o]] = "closed"
              /\ bFilled'[o][kisOrderNo[o]] = bFilled[o][kisOrderNo[o]]
  <1> USE OrderExecutionAssumption
  <1>0. BrokerTypeOK /\ LedgerTypeOK /\ kisOrderNo[o] \in Attempts
    BY DEF TypeOK, LedgerTypeOK, Attempts
  <1>1. kisOrderNo'[o] = kisOrderNo[o]
    <2>1. ASSUME NEW c \in Cycles, MarkSubmissionResult(c) PROVE kisOrderNo'[o] = kisOrderNo[o]
      <3>1. cur[c] # o
        BY <2>1 DEF MarkSubmissionResult, CycleGoto, CycleInv, FreshInv, HasOrder, Unsubmitted
      <3> QED
        BY <1>0, <2>1, <3>1 DEF MarkSubmissionResult, LedgerTypeOK
    <2>2. CASE UNCHANGED kisOrderNo
      BY <2>2
    <2>3. ASSUME NEW c \in Cycles, CycleStep(c), ~MarkSubmissionResult(c) PROVE UNCHANGED kisOrderNo
      BY <2>3 DEF CycleStep, LoadPositions, ReadCandidates, SkipCandidate, PersistSignal,
         PersistValidatedOrder, PlaceRefused, PlaceStart, ReadSubmitAttempts, SubmitAccepted,
         SubmitLost, SubmitFailed, RecordSubmitFailure, MarkOrderReconcileHold,
         FlagReconciliationHold, Reload, FinishCycle, CycleWriteFails, dbVars
    <2>4. CASE Crash \/ UNCHANGED vars
      BY <2>4 DEF Crash, vars, dbVars
    <2> QED
      BY <2>1, <2>2, <2>3, <2>4, CycleFrame
  <1> DEFINE Kept == bState[o][kisOrderNo[o]] = "closed" =>
                       /\ bState'[o][kisOrderNo[o]] = "closed"
                       /\ bFilled'[o][kisOrderNo[o]] = bFilled[o][kisOrderNo[o]]
  <1>2. ASSUME UNCHANGED <<bState, bFilled>> PROVE Kept
    BY <1>2
  <1>3. ASSUME NEW c \in Cycles, cpc[c] = "submit", BrokerBooks(c), UNCHANGED bFilled
        PROVE  Kept
    <2>1. cur[c] # o
      BY <1>3 DEF CycleInv, FreshInv, HasOrder, Unsubmitted
    <2> QED
      BY <1>0, <1>3, <2>1 DEF BrokerBooks, BrokerTypeOK
  <1>4. ASSUME NEW p \in Orders, BrokerCancels(p), UNCHANGED bFilled
        PROVE  Kept
    BY <1>0, <1>4 DEF BrokerCancels, BrokerTypeOK
  <1>5. ASSUME NEW c \in Cycles,
               SubmitAccepted(c) \/ SubmitLost(c) \/ \E f \in Failures : SubmitFailed(c, f)
        PROVE  Kept
    BY <1>2, <1>3, <1>5 DEF SubmitAccepted, SubmitLost, SubmitFailed, CycleGoto
  <1>6. ASSUME NEW p \in Orders, NEW k \in Attempts, BrokerFill(p, k) PROVE Kept
    BY <1>0, <1>6 DEF BrokerFill, BrokerTypeOK
  <1>7. ASSUME NEW p \in Orders, CancelAccepted(p) \/ CancelGivenUp(p) PROVE Kept
    BY <1>2, <1>4, <1>7 DEF CancelAccepted, CancelGivenUp
  <1>8. ASSUME UNCHANGED brokerVars PROVE Kept
    BY <1>2, <1>8 DEF brokerVars
  <1>9. quantity'[o] = quantity[o]
    BY QuantityFrame DEF CycleInv, IdleCycleInv, Untouched
  <1> QED
    BY <1>1, <1>9, <1>5, <1>6, <1>7, <1>8, BrokerFrame DEF BrokerCall, vars

\* Between the broker's answer to a cancel and the two writes that follow it,
\* nothing changes what they say.
LEMMA CancelInvStep ==
  TypeOK /\ CycleInv /\ SendInv /\ FillsInv /\ CancelInv /\ [Next]_vars => CancelInv'
  <1> SUFFICES ASSUME TypeOK, CycleInv, SendInv, FillsInv, CancelInv, [Next]_vars PROVE CancelInv'
    OBVIOUS
  <1> USE OrderExecutionAssumption
  <1>0. CancelTypeOK /\ BrokerTypeOK /\ LedgerTypeOK
    BY DEF TypeOK
  <1>1. ASSUME xTodo' \subseteq xTodo, xpc' \in {"request", "confirm"} =>
                 xpc \in {"request", "confirm"} /\ xCur' = xCur
        PROVE  CancelInv'
    <2>1. \A o \in xTodo' : kisOrderNo'[o] # 0
      BY <1>0, <1>1, ClosedStaysClosed DEF CancelInv, CancelTypeOK
    <2>2. xpc' \in {"request", "confirm"} =>
            /\ xCur' \in Orders /\ kisOrderNo'[xCur'] # 0
            /\ bState'[xCur'][kisOrderNo'[xCur']] = "closed"
            /\ bFilled'[xCur'][kisOrderNo'[xCur']] < quantity'[xCur']
      BY <1>1, ClosedStaysClosed DEF CancelInv
    <2> QED
      BY <2>1, <2>2 DEF CancelInv
  <1>2. CASE ReadCancelCandidates
    BY <1>2 DEF ReadCancelCandidates, CancelInv, dbVars
  <1>3. ASSUME NEW o \in Orders, CancelAccepted(o) PROVE CancelInv'
    <2>1. /\ xpc' = "request" /\ xCur' = o /\ xTodo' = xTodo \ {o} /\ kisOrderNo[o] # 0
          /\ BrokerCancels(o) /\ UNCHANGED <<bFilled, kisOrderNo, quantity>>
      BY <1>3 DEF CancelAccepted, CancelInv, dbVars
    <2>2. kisOrderNo[o] \in Attempts
      BY <1>0, <2>1 DEF LedgerTypeOK, Attempts
    <2>3. bState'[o][kisOrderNo[o]] = "closed" /\ bFilled[o][kisOrderNo[o]] < quantity[o]
      BY <1>0, <2>1, <2>2 DEF BrokerCancels, BrokerTypeOK, FillsInv
    <2> QED
      BY <2>1, <2>3 DEF CancelInv
  <1>4. CASE CancelStep
    BY <1>1, <1>2, <1>3, <1>4 DEF CancelStep, CancelGivenUp, RequestCancel, ConfirmCancel,
       CancelWriteFails
  <1>5. CASE Crash
    BY <1>1, <1>5 DEF Crash
  <1>6. CASE UNCHANGED cancelVars
    BY <1>1, <1>6 DEF cancelVars
  <1> QED
    BY <1>4, <1>5, <1>6, CancelFrame DEF vars

\* Each write of a status says what is so, although none looks at the broker:
\* a cycle writes before anything has filled, the poll what it has added up,
\* and the cancel job what CancelInv knows.
LEMMA StatusStep ==
  TypeOK /\ CycleInv /\ PollLedgerInv /\ StatusInv /\ [Next]_vars => StatusIsTruthful'
  <1> SUFFICES ASSUME TypeOK, CycleInv, PollLedgerInv, StatusInv, [Next]_vars
               PROVE  StatusIsTruthful'
    OBVIOUS
  <1> USE OrderExecutionAssumption
  <1>0. LedgerTypeOK /\ BrokerTypeOK /\ PollTypeOK /\ SendInv /\ FillsInv /\ CancelInv
    BY DEF TypeOK, StatusInv
  <1> DEFINE Truthful(o) ==
        /\ status[o] = "filled" <=> quantity[o] > 0 /\ filled[o] = quantity[o]
        /\ status[o] = "partially_filled" => filled[o] \in 1..(quantity[o] - 1)
        /\ status[o] \in {"cancel_pending", "cancelled"} =>
             kisOrderNo[o] # 0 /\ bState[o][kisOrderNo[o]] = "closed" /\ filled[o] < quantity[o]
  <1>1. \A o \in Orders : Truthful(o)
    BY DEF StatusInv, StatusIsTruthful, FilledMeansComplete, CancelledIsDeadAtBroker
  <1>2. SUFFICES ASSUME NEW o \in Orders PROVE Truthful(o)'
    BY DEF StatusIsTruthful, FilledMeansComplete, CancelledIsDeadAtBroker
  <1>3. /\ filled[o] \in Nat /\ quantity[o] \in Nat /\ filled[o] <= quantity[o]
        /\ kisOrderNo[o] # 0 => /\ kisOrderNo[o] \in Attempts
                               /\ bFilled[o][kisOrderNo[o]] \in Nat
                               /\ bFilled[o][kisOrderNo[o]] <= quantity[o]
    <2>1. filled[o] \in Nat /\ quantity[o] \in Nat /\ kisOrderNo[o] \in 0..MaxSubmitRetries
      BY <1>0 DEF LedgerTypeOK
    <2>2. \A k \in Attempts : bFilled[o][k] \in Nat /\ bFilled[o][k] <= quantity[o]
      BY <1>0 DEF BrokerTypeOK, FillsInv
    <2>3. IF kisOrderNo[o] = 0 THEN filled[o] = 0 ELSE filled[o] <= bFilled[o][kisOrderNo[o]]
      BY DEF PollLedgerInv, LedgerNeverAheadOfBroker
    <2>4. kisOrderNo[o] # 0 => kisOrderNo[o] \in Attempts
      BY <2>1 DEF Attempts
    <2> QED
      BY <1>0, <2>1, <2>2, <2>3, <2>4
  <1>4. ASSUME status'[o] = status[o], filled'[o] = filled[o], quantity'[o] = quantity[o]
        PROVE  Truthful(o)'
    BY <1>0, <1>1, <1>4, ClosedStaysClosed
  <1>5. ASSUME status'[o] \notin {"filled", "partially_filled", "cancel_pending", "cancelled"},
               filled'[o] = filled[o], quantity'[o] > 0 => filled[o] # quantity'[o]
        PROVE  Truthful(o)'
    BY <1>5
  <1>6. ASSUME NEW c \in Cycles,
               \/ PersistValidatedOrder(c) \/ PlaceRefused(c)
               \/ MarkSubmissionResult(c) \/ RecordSubmitFailure(c)
               \/ MarkOrderReconcileHold(c) 
        PROVE  Truthful(o)'
    <2>1. cpc[c] \in Unsubmitted /\ UNCHANGED <<filled, quantity>>
      BY <1>6 DEF PersistValidatedOrder, PlaceRefused, MarkSubmissionResult, RecordSubmitFailure,
         MarkOrderReconcileHold, CycleGoto, HasOrder, Unsubmitted
    <2>2. \E s \in {"validated", "submitted", "failed", "reconcile_hold"} :
            status' = [status EXCEPT ![cur[c]] = s]
      BY <1>6 DEF PersistValidatedOrder, PlaceRefused, MarkSubmissionResult, RecordSubmitFailure,
         MarkOrderReconcileHold
    <2>3. cur[c] = o => filled[o] = 0
      BY <1>0, <2>1 DEF CycleInv, FreshInv, PollLedgerInv, LedgerNeverAheadOfBroker
    <2> QED
      BY <1>0, <1>4, <1>5, <2>1, <2>2, <2>3 DEF LedgerTypeOK
  <1>7. ASSUME NEW c \in Cycles, FlagReconciliationHold(c) PROVE Truthful(o)'
    <2>1. /\ UNCHANGED <<filled, quantity>>
          /\ \/ status'[o] = status[o]
             \/ status'[o] = "reconcile_hold" /\ status[o] \in OpenStatus
      BY <1>7 DEF FlagReconciliationHold
    <2>2. status[o] \in OpenStatus => (quantity[o] > 0 => filled[o] # quantity[o])
      BY <1>1 DEF OpenStatus
    <2> QED
      BY <1>4, <1>5, <2>1, <2>2
  <1>8. ASSUME NEW p \in Orders, ProcessFill(p) PROVE Truthful(o)'
    <2>1. CASE p # o
      BY <1>0, <1>4, <1>8, <2>1 DEF ProcessFill, LedgerTypeOK
    <2>2. CASE p = o
      <3>1. /\ filled'[o] = filled[o] + pollFills[o] /\ pollFills[o] \in Nat \ {0}
            /\ quantity' = quantity
        BY <1>0, <1>8, <2>2 DEF ProcessFill, LedgerTypeOK, PollTypeOK
      <3>2. filled'[o] <= quantity[o]
        <4>1. kisOrderNo[o] # 0 /\ filled[o] + pollFills[o] <= bFilled[o][kisOrderNo[o]]
          BY <1>8, <2>2, <3>1 DEF ProcessFill, PollLedgerInv, PollInv
        <4> QED
          BY <1>0, <1>3, <3>1, <4>1
      <3>3. status'[o] = StatusAfterFill(o, filled'[o])
        BY <1>0, <1>8, <2>2, <3>1 DEF ProcessFill, LedgerTypeOK
      <3> QED
        BY <1>0, <1>3, <3>1, <3>2, <3>3 DEF StatusAfterFill
    <2> QED
      BY <2>1, <2>2
  <1>9. CASE RequestCancel \/ ConfirmCancel
    <2>1. /\ kisOrderNo[xCur] # 0 /\ bState[xCur][kisOrderNo[xCur]] = "closed"
          /\ bFilled[xCur][kisOrderNo[xCur]] < quantity[xCur] /\ xCur \in Orders
          /\ UNCHANGED <<quantity, filled, kisOrderNo, bState>>
      BY <1>0, <1>9 DEF RequestCancel, ConfirmCancel, CancelInv, brokerVars
    <2>2. filled[xCur] < quantity[xCur] /\ quantity[xCur] \in Nat
      <3>1. filled[xCur] \in Nat /\ filled[xCur] <= bFilled[xCur][kisOrderNo[xCur]]
        BY <1>0, <2>1 DEF PollLedgerInv, LedgerNeverAheadOfBroker, LedgerTypeOK
      <3>2. kisOrderNo[xCur] \in Attempts
        BY <1>0, <2>1 DEF LedgerTypeOK, Attempts
      <3>3. bFilled[xCur][kisOrderNo[xCur]] \in Nat
        BY <1>0, <2>1, <3>2 DEF BrokerTypeOK
      <3>4. quantity[xCur] \in Nat
        BY <1>0, <2>1 DEF LedgerTypeOK
      <3> QED
        BY <2>1, <3>1, <3>3, <3>4
    <2>3. o # xCur => status'[o] = status[o]
      BY <1>0, <1>9 DEF RequestCancel, ConfirmCancel, LedgerTypeOK
    <2>4. o = xCur => status'[o] \in {"cancel_pending", "cancelled"} \/ status'[o] = status[o]
      BY <1>0, <1>9 DEF RequestCancel, ConfirmCancel, LedgerTypeOK
    <2> QED
      BY <1>3, <1>4, <2>1, <2>2, <2>3, <2>4
  <1>10. CASE UNCHANGED <<status, filled, quantity>>
    BY <1>4, <1>10
  <1>12. ASSUME NEW c \in Cycles, LoadPositions(c) PROVE Truthful(o)'
    <2>1. UNCHANGED <<status, filled, kisOrderNo>>
      BY <1>12 DEF LoadPositions
    <2>2. CASE quantity'[o] = quantity[o]
      BY <1>4, <2>1, <2>2
    <2>3. CASE quantity'[o] # quantity[o]
      <3>1. kisOrderNo[o] = 0 /\ filled[o] = 0
        BY <2>3, QuantityFrame DEF CycleInv, IdleCycleInv, Untouched, PollLedgerInv,
           LedgerNeverAheadOfBroker
      <3>2. status[o] \notin {"filled", "partially_filled", "cancel_pending", "cancelled"}
        BY <1>1, <1>3, <3>1
      <3> QED
        BY <1>5, <2>1, <3>1, <3>2
    <2> QED
      BY <2>2, <2>3
  <1>11. ASSUME NEW c \in Cycles, NEW p \in Orders, PersistSignal(c, p) PROVE Truthful(o)'
    BY <1>10, <1>11 DEF PersistSignal
  <1> QED
    BY <1>6, <1>7, <1>8, <1>9, <1>10, <1>11, <1>12, LedgerFrame DEF LedgerWrite, vars, dbVars

LEMMA InitStatusInv == Init => StatusInv
  <1> SUFFICES ASSUME Init PROVE StatusInv
    OBVIOUS
  <1> USE OrderExecutionAssumption DEF Init, NoFills
  <1>1. SendInv
    BY DEF SendInv, NotSent
  <1>2. SizeInv /\ FillsInv
    BY DEF SizeInv, FillsInv, HasOrder
  <1>3. CancelInv
    BY DEF CancelInv
  <1>4. StatusIsTruthful
    BY DEF StatusIsTruthful, FilledMeansComplete, CancelledIsDeadAtBroker
  <1> QED
    BY <1>1, <1>2, <1>3, <1>4 DEF StatusInv

\* The statuses are truthful because of what the submissions, their fills and
\* the cancel job are: the four parts hold in every reachable state.
LEMMA StatusInvariant == Spec => []StatusInv
  <1>1. Init => StatusInv
    BY InitStatusInv
  <1>2. IInv /\ StatusInv /\ [Next]_vars => StatusInv'
    BY SendStep, SizeStep, FillsStep, CancelInvStep, StatusStep DEF IInv, StatusInv
  <1> QED
    BY <1>1, <1>2, Inductive, PTL DEF Spec

(* Whatever the cycles, the poll, the cancel job, the broker and restarts do *)
(* between one another's reads and writes, the status of an order is true:   *)
(* "filled" means all of it, and a cancelled order is over at the broker.    *)
THEOREM StatusesAreTruthful == Spec => []StatusIsTruthful
  <1>1. StatusInv => StatusIsTruthful
    BY DEF StatusInv
  <1> QED
    BY <1>1, StatusInvariant, PTL

-----------------------------------------------------------------------------
(***************************************************************************)
(* Validated orders and their cycles.                                      *)
(***************************************************************************)
\* A cycle without an order in hand has none, and one that has begun is on its
\* way; an order is no longer validated when its cycle is about to set the flag
\* of its ticker.
HandInv ==
  \A c \in Cycles : /\ cpc[c] \notin HasOrder => cur[c] = None
                    /\ cpc[c] = "flag" => status[cur[c]] # "validated"

\* A step of a cycle makes no order validated but the one it has in hand.
LEMMA CycleValidates ==
  ASSUME TypeOK, CycleInv, NEW c \in Cycles, CycleStep(c),
         NEW o \in Orders, status'[o] = "validated", status[o] # "validated"
  PROVE  cpc[c] \in {"persist", "record"} /\ o = cur[c]
  <1>0. LedgerTypeOK
    BY DEF TypeOK
  <1>1. ASSUME UNCHANGED status PROVE FALSE
    BY <1>1
  <1>2. ASSUME NEW v, status' = [status EXCEPT ![cur[c]] = v] PROVE o = cur[c]
    BY <1>0, <1>2 DEF LedgerTypeOK
  <1>3. ASSUME NEW v, v # "validated", status' = [status EXCEPT ![cur[c]] = v] PROVE FALSE
    BY <1>0, <1>3 DEF LedgerTypeOK
  <1>4. CASE PersistValidatedOrder(c)
    BY <1>2, <1>4 DEF PersistValidatedOrder, CycleGoto
  <1>5. CASE RecordSubmitFailure(c)
    BY <1>2, <1>5 DEF RecordSubmitFailure, CycleGoto
  <1>6. CASE PlaceRefused(c) \/ MarkSubmissionResult(c) \/ MarkOrderReconcileHold(c)
    BY <1>3, <1>6 DEF PlaceRefused, MarkSubmissionResult, MarkOrderReconcileHold
  <1>7. CASE FlagReconciliationHold(c)
    BY <1>7 DEF FlagReconciliationHold
  <1> QED
    BY <1>1, <1>4, <1>5, <1>6, <1>7 DEF CycleStep, LoadPositions, ReadCandidates, SkipCandidate,
       PersistSignal, PlaceStart, ReadSubmitAttempts, SubmitAccepted, SubmitLost, SubmitFailed,
       Reload, FinishCycle, CycleWriteFails, dbVars

\* The other cycles keep their orders.
LEMMA OtherCycles ==
  ASSUME TypeOK, NEW c \in Cycles, CycleStep(c), NEW d \in Cycles, d # c
  PROVE  cpc'[d] = cpc[d] /\ cur'[d] = cur[d]
  BY DEF TypeOK, CycleTypeOK, CycleStep, CycleGoto, CycleIsOver, cycleVars, LoadPositions,
     ReadCandidates, SkipCandidate, PersistSignal, PersistValidatedOrder, PlaceRefused,
     PlaceStart, ReadSubmitAttempts, SubmitAccepted, SubmitLost, SubmitFailed,
     MarkSubmissionResult, RecordSubmitFailure, MarkOrderReconcileHold,
     FlagReconciliationHold, Reload, FinishCycle, CycleWriteFails

\* Where a cycle goes with its order: on, to the reload with an order that is
\* not validated, to its end, or from the reload to the next candidate.
LEMMA WayOfAnOrder ==
  ASSUME TypeOK, CycleInv, HandInv, NEW c \in Cycles, CycleStep(c), cpc[c] \in HasOrder
  PROVE  \/ cpc'[c] \in HasOrder \ {"reload"} /\ cur'[c] = cur[c]
         \/ cpc'[c] = "reload" /\ cur'[c] = cur[c] /\ status'[cur[c]] # "validated"
         \/ cpc'[c] = "done" /\ cur'[c] = None /\ UNCHANGED status
         \/ cpc[c] = "reload" /\ cpc'[c] = "next" /\ cur'[c] = None /\ UNCHANGED status
  <1> USE OrderExecutionAssumption DEF HasOrder
  <1>0. /\ LedgerTypeOK /\ CycleTypeOK /\ cur[c] \in Orders
        /\ cpc[c] = "flag" => status[cur[c]] # "validated"
    BY DEF TypeOK, CycleInv, CurInv, HandInv
  <1>1. CASE PersistValidatedOrder(c) \/ PlaceStart(c) \/ SubmitAccepted(c) \/ MarkOrderReconcileHold(c)
    BY <1>0, <1>1 DEF CycleTypeOK, CycleGoto, PersistValidatedOrder, PlaceStart, SubmitAccepted,
       MarkOrderReconcileHold
  <1>2. ASSUME NEW f \in Failures, SubmitFailed(c, f)
        PROVE  cpc'[c] \in {"hold", "record"} /\ cur'[c] = cur[c]
    BY <1>0, <1>2 DEF CycleTypeOK, CycleGoto, SubmitFailed
  <1>3. CASE PlaceRefused(c) \/ MarkSubmissionResult(c)
    <2>1. /\ cpc' = [cpc EXCEPT ![c] = "reload"] /\ cur' = cur
          /\ \E v \in {"failed", "submitted"} : status' = [status EXCEPT ![cur[c]] = v]
      BY <1>3 DEF CycleGoto, PlaceRefused, MarkSubmissionResult
    <2>2. status'[cur[c]] # "validated"
      BY <1>0, <2>1 DEF LedgerTypeOK
    <2> QED
      BY <1>0, <2>1, <2>2 DEF CycleTypeOK
  <1>4. CASE ReadSubmitAttempts(c)
    <2>1. retryCount[cur[c]] = 0
      BY <1>4 DEF ReadSubmitAttempts, CycleGoto, CycleInv, StartInv
    <2>2. retryCount[cur[c]] < MaxSubmitRetries
      BY <2>1
    <2>3. cpc' = [cpc EXCEPT ![c] = "submit"] /\ cur' = cur
      BY <1>4, <2>2 DEF ReadSubmitAttempts, CycleGoto
    <2> QED
      BY <1>0, <2>3 DEF CycleTypeOK
  <1>5. CASE RecordSubmitFailure(c)
    <2>1. attempt[c] \in Attempts /\ retryCount[cur[c]] = attempt[c] - 1
      BY <1>5 DEF RecordSubmitFailure, CycleGoto, CycleInv, AttemptInv, Submitting
    <2>2. MayRetry(failure[c], retryCount[cur[c]] + 1) <=> ShouldRetrySubmit(failure[c], attempt[c])
      BY <2>1 DEF MayRetry, ShouldRetrySubmit, Attempts
    <2>3. /\ cur' = cur
          /\ \/ cpc' = [cpc EXCEPT ![c] = "submit"]
             \/ /\ cpc' = [cpc EXCEPT ![c] = "reload"]
                /\ status' = [status EXCEPT ![cur[c]] = "failed"]
      BY <1>5, <2>2 DEF RecordSubmitFailure, CycleGoto
    <2> QED
      BY <1>0, <2>3 DEF CycleTypeOK, LedgerTypeOK
  <1>6. CASE FlagReconciliationHold(c)
    BY <1>0, <1>6 DEF CycleTypeOK, CycleGoto, FlagReconciliationHold
  <1>7. CASE Reload(c)
    BY <1>0, <1>7 DEF CycleTypeOK, CycleGoto, Reload, dbVars
  <1>8. CASE SubmitLost(c) \/ CycleWriteFails(c)
    BY <1>0, <1>8 DEF CycleTypeOK, CycleIsOver, SubmitLost, CycleWriteFails, dbVars
  <1> QED
    BY <1>1, <1>2, <1>3, <1>4, <1>5, <1>6, <1>7, <1>8 DEF CycleStep, CycleGoto, LoadPositions,
       ReadCandidates, SkipCandidate, PersistSignal, FinishCycle

\* Where a cycle without an order goes: to its end, or on, with or without one
\* that it begins with.
LEMMA WayToAnOrder ==
  ASSUME TypeOK, HandInv, NEW c \in Cycles, CycleStep(c), cpc[c] \notin HasOrder
  PROVE  /\ UNCHANGED status /\ cpc'[c] # "flag" /\ cpc'[c] # "reload"
         /\ cpc'[c] \notin HasOrder => cur'[c] = None
  <1>0. CycleTypeOK /\ cur[c] = None
    BY DEF TypeOK, HandInv
  <1> QED
    BY <1>0 DEF HasOrder, CycleTypeOK, CycleStep, CycleGoto, CycleIsOver, dbVars, LoadPositions,
       ReadCandidates, SkipCandidate, PersistSignal, PersistValidatedOrder, PlaceRefused,
       PlaceStart, ReadSubmitAttempts, SubmitAccepted, SubmitLost, SubmitFailed,
       MarkSubmissionResult, RecordSubmitFailure, MarkOrderReconcileHold,
       FlagReconciliationHold, Reload, FinishCycle, CycleWriteFails

\* Outside the cycles no status becomes "validated".
LEMMA OthersOwnerFrame ==
  ASSUME TypeOK, [Next]_vars, ~(\E c \in Cycles : CycleStep(c)), ~Crash
  PROVE  /\ UNCHANGED cycleVars
         /\ \A o \in Orders : status'[o] = "validated" => status[o] = "validated"
  <1>0. LedgerTypeOK
    BY DEF TypeOK
  <1>1. UNCHANGED cycleVars
    BY CycleFrame DEF vars
  <1>2. ASSUME NEW p \in Orders, ProcessFill(p)
        PROVE  \A o \in Orders : status'[o] = "validated" => status[o] = "validated"
    BY <1>0, <1>2 DEF ProcessFill, StatusAfterFill, LedgerTypeOK
  <1>3. CASE RequestCancel \/ ConfirmCancel
    BY <1>0, <1>3 DEF RequestCancel, ConfirmCancel, LedgerTypeOK
  <1>4. LedgerWrite => (\E p \in Orders : ProcessFill(p)) \/ RequestCancel \/ ConfirmCancel
    BY DEF LedgerWrite, CycleStep
  <1> QED
    BY <1>1, <1>2, <1>3, <1>4, LedgerFrame DEF vars, dbVars

LEMMA HandInvStep == TypeOK /\ CycleInv /\ HandInv /\ [Next]_vars => HandInv'
  <1> SUFFICES ASSUME TypeOK, CycleInv, HandInv, [Next]_vars PROVE HandInv'
    OBVIOUS
  <1>0. CycleTypeOK /\ LedgerTypeOK
    BY DEF TypeOK
  <1>1. ASSUME NEW c \in Cycles, CycleStep(c) PROVE HandInv'
    <2> SUFFICES ASSUME NEW d \in Cycles
                 PROVE  /\ cpc'[d] \notin HasOrder => cur'[d] = None
                        /\ cpc'[d] = "flag" => status'[cur'[d]] # "validated"
      BY DEF HandInv
    <2>1. CASE d # c
      <3>1. cpc'[d] = cpc[d] /\ cur'[d] = cur[d]
        BY <1>1, <2>1, OtherCycles
      <3>2. ASSUME cpc[d] = "flag" PROVE status'[cur[d]] # "validated"
        <4>1. cur[d] \in Orders /\ CycleOf[cur[d]] = d /\ status[cur[d]] # "validated"
          BY <3>2 DEF CycleInv, CurInv, HasOrder, HandInv
        <4>2. cpc[c] \in HasOrder => CycleOf[cur[c]] = c
          BY DEF CycleInv, CurInv
        <4> QED
          BY <1>1, <2>1, <4>1, <4>2, CycleValidates DEF HasOrder
      <3> QED
        BY <3>1, <3>2 DEF HandInv
    <2>2. CASE d = c /\ cpc[c] \notin HasOrder
      BY <1>1, <2>2, WayToAnOrder DEF HasOrder
    <2>3. CASE d = c /\ cpc[c] \in HasOrder
      <3>1. cpc'[c] \notin HasOrder => cur'[c] = None
        BY <1>1, <2>3, WayOfAnOrder DEF HasOrder
      <3>2. cpc'[c] = "flag" => MarkOrderReconcileHold(c)
        BY <1>0, <1>1, <2>3 DEF CycleTypeOK, CycleStep, CycleGoto, CycleIsOver, LoadPositions,
           ReadCandidates, SkipCandidate, PersistSignal, PersistValidatedOrder, PlaceRefused,
           PlaceStart, ReadSubmitAttempts, SubmitAccepted, SubmitLost, SubmitFailed,
           MarkSubmissionResult, RecordSubmitFailure, FlagReconciliationHold, Reload,
           FinishCycle, CycleWriteFails
      <3>3. cpc'[c] = "flag" => status'[cur'[c]] # "validated"
        BY <1>0, <2>3, <3>2 DEF MarkOrderReconcileHold, CycleInv, CurInv, LedgerTypeOK
      <3> QED
        BY <2>3, <3>1, <3>3
    <2> QED
      BY <2>1, <2>2, <2>3
  <1>2. CASE Crash
    BY <1>0, <1>2 DEF Crash, HandInv, CycleTypeOK, HasOrder
  <1>3. CASE ~(\E c \in Cycles : CycleStep(c)) /\ ~Crash
    <2>1. cpc' = cpc /\ cur' = cur
      BY <1>3, OthersOwnerFrame DEF cycleVars
    <2>2. \A d \in Cycles : cpc[d] = "flag" => cur[d] \in Orders
      BY DEF CycleInv, CurInv, HasOrder
    <2> QED
      BY <1>3, <2>1, <2>2, OthersOwnerFrame DEF HandInv
  <1> QED
    BY <1>1, <1>2, <1>3

LEMMA OwnerStep ==
  ASSUME TypeOK, CycleInv, HandInv, [Next]_vars,
         NEW o \in Orders, status'[o] = "validated", ~Owned(o)'
  PROVE  /\ status[o] = "validated"
         /\ Owned(o) => \E c \in Cycles : cur[c] = o /\ cpc'[c] = "done"
  <1> USE OrderExecutionAssumption
  <1>0. CycleTypeOK
    BY DEF TypeOK
  <1>1. ASSUME NEW c \in Cycles, CycleStep(c)
        PROVE  /\ status[o] = "validated"
               /\ Owned(o) => \E d \in Cycles : cur[d] = o /\ cpc'[d] = "done"
    <2>1. ~(cur'[c] = o /\ cpc'[c] # "reload")
      BY DEF Owned
    <2>2. ASSUME cur[c] = o, cpc[c] \in HasOrder
          PROVE  UNCHANGED status /\ (cpc'[c] = "done" \/ cpc[c] = "reload")
      BY <1>1, <2>1, <2>2, WayOfAnOrder DEF HasOrder
    <2>3. status[o] = "validated"
      BY <1>1, <2>2, CycleValidates DEF HasOrder
    <2>4. ASSUME NEW d \in Cycles, cur[d] = o, cpc[d] # "reload"
          PROVE  d = c /\ cpc'[d] = "done"
      <3>1. d = c
        BY <1>1, <2>4, OtherCycles DEF Owned
      <3>2. cpc[d] \in HasOrder
        BY <2>4 DEF HandInv
      <3> QED
        BY <2>2, <2>4, <3>1, <3>2
    <2> QED
      BY <2>3, <2>4 DEF Owned
  <1>2. CASE Crash
    <2>1. status[o] = "validated" /\ \A c \in Cycles : cpc[c] # "idle" => cpc'[c] = "done"
      BY <1>0, <1>2 DEF Crash, dbVars
    <2>2. \A c \in Cycles : cur[c] = o => cpc[c] # "idle"
      BY DEF HandInv, HasOrder
    <2> QED
      BY <2>1, <2>2 DEF Owned
  <1>3. CASE ~(\E c \in Cycles : CycleStep(c)) /\ ~Crash
    <2>1. Owned(o)' = Owned(o)
      BY <1>3, OthersOwnerFrame DEF Owned, cycleVars
    <2> QED
      BY <1>3, <2>1, OthersOwnerFrame
  <1> QED
    BY <1>1, <1>2, <1>3

(* Whatever answers are lost, writes fail and restarts happen: a validated   *)
(* order loses its cycle only in the step that ends the cycle, and no order  *)
(* without a cycle becomes validated.                                        *)
THEOREM ValidatedOrdersAreOwned == Spec => ValidatedIsOwned
  <1>1. Init => HandInv
    BY DEF Init, HandInv, HasOrder
  <1>2. IInv /\ HandInv /\ [Next]_vars => HandInv'
    BY HandInvStep DEF IInv
  <1>3. IInv /\ HandInv /\ [Next]_vars =>
          [\A o \in Orders : status'[o] = "validated" /\ ~Owned(o)' =>
             /\ status[o] = "validated"
             /\ Owned(o) => \E c \in Cycles : cur[c] = o /\ cpc'[c] = "done"]_vars
    BY OwnerStep DEF IInv
  <1> QED
    BY <1>1, <1>2, <1>3, Inductive, PTL DEF Spec, ValidatedIsOwned

-----------------------------------------------------------------------------
(***************************************************************************)
(* Positions and account.                                                  *)
(***************************************************************************)
\* The units of the orders of one ticker and side, in the ledger and at the
\* broker.
BookedPart(t, side) == [o \in Orders |-> IF TickerOf[o] = t /\ SideOf[o] = side THEN filled[o] ELSE 0]
MadePart(t, side) ==
  [ok \in Orders \X Attempts |->
     IF TickerOf[ok[1]] = t /\ SideOf[ok[1]] = side THEN bFilled[ok[1]][ok[2]] ELSE 0]

Booked(t, side) == Total(BookedPart(t, side))
Made(t, side) == Total(MadePart(t, side))

\* Ledger and account start equal; the one moves by what is booked, the other
\* by what is made.
PositionInv ==
  \A t \in Tickers :
    Held(t) + Booked(t, "sell") + Made(t, "buy") = holdings[t] + Made(t, "sell") + Booked(t, "buy")

LEMMA OrdersAreFinite == IsFiniteSet(Orders) /\ IsFiniteSet(Orders \X Attempts)
  <1>1. 1 \in Int /\ MaxSubmitRetries \in Int
    BY OrderExecutionAssumption
  <1>2. IsFiniteSet(Attempts)
    BY <1>1, FS_Interval DEF Attempts
  <1>3. IsFiniteSet(Orders)
    BY OrderExecutionAssumption
  <1> QED
    BY <1>2, <1>3, FS_Product

\* The parts are functions to natural numbers, and so their totals are too.
LEMMA PartTypes ==
  ASSUME filled \in [Orders -> Nat], bFilled \in [Orders -> [Attempts -> Nat]], NEW t, NEW side
  PROVE  /\ BookedPart(t, side) \in [Orders -> Nat] /\ Booked(t, side) \in Nat
         /\ MadePart(t, side) \in [Orders \X Attempts -> Nat] /\ Made(t, side) \in Nat
  <1>1. BookedPart(t, side) \in [Orders -> Nat]
    BY DEF BookedPart
  <1>2. ASSUME NEW ok \in Orders \X Attempts PROVE bFilled[ok[1]][ok[2]] \in Nat
    OBVIOUS
  <1>3. MadePart(t, side) \in [Orders \X Attempts -> Nat]
    BY <1>2 DEF MadePart
  <1> QED
    BY <1>1, <1>3, UnitsAreFinite, OrdersAreFinite DEF Booked, Made

LEMMA InitPositionInv == Init => PositionInv
  <1> SUFFICES ASSUME Init, NEW t \in Tickers
               PROVE  Held(t) + Booked(t, "sell") + Made(t, "buy")
                        = holdings[t] + Made(t, "sell") + Booked(t, "buy")
    BY DEF PositionInv
  <1>1. \A side : BookedPart(t, side) = [o \in Orders |-> 0]
    BY DEF Init, NoFills, BookedPart
  <1>2. \A side : MadePart(t, side) = [ok \in Orders \X Attempts |-> 0]
    BY DEF Init, MadePart
  <1>3. \A side : Booked(t, side) = 0 /\ Made(t, side) = 0
    BY <1>1, <1>2, TotalOfZeros DEF Booked, Made
  <1>4. holdings[t] = Held(t)
    BY DEF Init
  <1>5. position \in [Strategies -> [Tickers -> Nat]]
    BY OrderExecutionAssumption DEF Init
  <1>6. Held(t) \in Nat
    BY <1>5, HeldType
  <1> QED
    BY <1>3, <1>4, <1>6

\* A fill that is recorded moves the ledger of its ticker and side by as much.
LEMMA ProcessFillBooks ==
  ASSUME TypeOK, NEW o \in Orders, ProcessFill(o), NEW t \in Tickers, NEW side \in {"buy", "sell"}
  PROVE  Booked(t, side)' =
           Booked(t, side) + (IF TickerOf[o] = t /\ SideOf[o] = side THEN pollFills[o] ELSE 0)
  <1> DEFINE n == IF TickerOf[o] = t /\ SideOf[o] = side THEN pollFills[o] ELSE 0
  <1>0. /\ filled \in [Orders -> Nat] /\ bFilled \in [Orders -> [Attempts -> Nat]]
        /\ pollFills[o] \in Nat
    BY DEF TypeOK, LedgerTypeOK, BrokerTypeOK, PollTypeOK
  <1>1. filled' = [filled EXCEPT ![o] = filled[o] + pollFills[o]]
    BY DEF ProcessFill
  <1>2. filled' \in [Orders -> Nat]
    BY <1>0, <1>1
  <1>3. BookedPart(t, side) \in [Orders -> Nat] /\ BookedPart(t, side)' \in [Orders -> Nat]
    BY <1>0, <1>2 DEF BookedPart
  <1>4. BookedPart(t, side)'[o] = BookedPart(t, side)[o] + n
    BY <1>0, <1>1 DEF BookedPart
  <1>5. \A p \in Orders : p # o => BookedPart(t, side)'[p] = BookedPart(t, side)[p]
    BY <1>0, <1>1 DEF BookedPart
  <1>6. n \in Nat
    BY <1>0
  <1> HIDE DEF n
  <1>7. Total(BookedPart(t, side)') = Total(BookedPart(t, side)) + n
    BY <1>3, <1>4, <1>5, <1>6, TotalGrows, OrdersAreFinite
  <1> QED
    BY <1>7 DEF Booked, n

LEMMA ProcessFillHolds ==
  ASSUME TypeOK, NEW o \in Orders, ProcessFill(o), NEW t \in Tickers
  PROVE  Held(t)' = IF TickerOf[o] # t THEN Held(t)
                    ELSE IF SideOf[o] = "buy" THEN Held(t) + pollFills[o]
                    ELSE Held(t) - pollFills[o]
  <1> DEFINE part == [s \in Strategies |-> position[s][t]]
             part2 == [s \in Strategies |-> position'[s][t]]
             me == StrategyOf[CycleOf[o]]
  <1>0. LedgerTypeOK /\ PollTypeOK
    BY DEF TypeOK
  <1>1. pollFills[o] \in Nat
    BY <1>0 DEF PollTypeOK
  <1>2. position' \in [Strategies -> [Tickers -> Nat]]
    BY <1>0, BooksTypeStep DEF ProcessFill
  <1>3. part \in [Strategies -> Nat] /\ part2 \in [Strategies -> Nat]
    BY <1>0, <1>2 DEF LedgerTypeOK
  <1>4. me \in Strategies /\ TickerOf[o] \in Tickers /\ SideOf[o] \in {"buy", "sell"}
    BY OrderExecutionAssumption
  <1>5. Held(t) = Total(part) /\ Held(t)' = Total(part2)
    BY DEF Held
  <1>6. CASE TickerOf[o] # t
    <2>0. \E n : position' = [position EXCEPT ![me][TickerOf[o]] = n]
      BY <1>4 DEF ProcessFill, ApplyFill
    <2>1. \A s \in Strategies : position'[s][t] = position[s][t]
      <3>1. PICK n : position' = [position EXCEPT ![me][TickerOf[o]] = n]
        BY <2>0
      <3>2. position \in [Strategies -> [Tickers -> Nat]]
        BY <1>0 DEF LedgerTypeOK
      <3> HIDE DEF me
      <3> QED
        BY <1>4, <1>6, <3>1, <3>2
    <2>2. part2 = part
      BY <2>1
    <2> QED
      BY <1>5, <1>6, <2>2
  <1>7. CASE TickerOf[o] = t /\ SideOf[o] = "buy"
    <2>1. \A s \in Strategies : s # me => position'[s][t] = position[s][t]
      BY <1>0, <1>4, <1>7 DEF ProcessFill, ApplyFill, LedgerTypeOK
    <2>2. position'[me][t] = position[me][t] + pollFills[o]
      BY <1>0, <1>4, <1>7 DEF ProcessFill, ApplyFill, LedgerTypeOK
    <2>3. part2[me] = part[me] + pollFills[o] /\ \A s \in Strategies : s # me => part2[s] = part[s]
      BY <1>4, <2>1, <2>2
    <2> HIDE DEF part, part2, me
    <2>4. Total(part2) = Total(part) + pollFills[o]
      BY <1>1, <1>3, <1>4, <2>3, TotalGrows, OrderExecutionAssumption
    <2> QED
      BY <1>5, <1>7, <2>4
  <1>8. CASE TickerOf[o] = t /\ SideOf[o] = "sell"
    <2>1. \A s \in Strategies : s # me => position'[s][t] = position[s][t]
      BY <1>0, <1>4, <1>8 DEF ProcessFill, ApplyFill, LedgerTypeOK
    <2>2. position'[me][t] = position[me][t] - pollFills[o]
      BY <1>0, <1>4, <1>8 DEF ProcessFill, ApplyFill, LedgerTypeOK
    <2>3. part[me] = part2[me] + pollFills[o] /\ \A s \in Strategies : s # me => part[s] = part2[s]
      BY <1>0, <1>1, <1>4, <2>1, <2>2 DEF LedgerTypeOK
    <2>4. Total(part) \in Nat /\ Total(part2) \in Nat
      BY <1>3, UnitsAreFinite, OrderExecutionAssumption
    <2> HIDE DEF part, part2, me
    <2>5. Total(part) = Total(part2) + pollFills[o]
      BY <1>1, <1>3, <1>4, <2>3, TotalGrows, OrderExecutionAssumption
    <2>6. Total(part2) = Total(part) - pollFills[o]
      BY <1>1, <2>4, <2>5
    <2> QED
      BY <1>5, <1>8, <2>6
  <1> QED
    BY <1>4, <1>6, <1>7, <1>8

\* A fill at the broker moves what is made of its ticker and side by one.
LEMMA BrokerFillMakes ==
  ASSUME TypeOK, NEW o \in Orders, NEW k \in Attempts, BrokerFill(o, k),
         NEW t \in Tickers, NEW side \in {"buy", "sell"}
  PROVE  Made(t, side)' =
           Made(t, side) + (IF TickerOf[o] = t /\ SideOf[o] = side THEN 1 ELSE 0)
  <1> DEFINE n == IF TickerOf[o] = t /\ SideOf[o] = side THEN 1 ELSE 0
             D == Orders \X Attempts
  <1>0. filled \in [Orders -> Nat] /\ bFilled \in [Orders -> [Attempts -> Nat]]
    BY DEF TypeOK, LedgerTypeOK, BrokerTypeOK
  <1>1. bFilled' = [bFilled EXCEPT ![o][k] = bFilled[o][k] + 1]
    BY DEF BrokerFill
  <1>2. bFilled' \in [Orders -> [Attempts -> Nat]]
    BY <1>0, <1>1
  <1>3. /\ bFilled'[o][k] = bFilled[o][k] + 1
        /\ \A p \in Orders, j \in Attempts : <<p, j>> # <<o, k>> => bFilled'[p][j] = bFilled[p][j]
    BY <1>0, <1>1
  <1>4. MadePart(t, side) \in [D -> Nat] /\ MadePart(t, side)' \in [D -> Nat]
    <2>1. ASSUME NEW ok \in D PROVE bFilled[ok[1]][ok[2]] \in Nat /\ bFilled'[ok[1]][ok[2]] \in Nat
      BY <1>0, <1>2
    <2> QED
      BY <2>1 DEF MadePart
  <1>5. <<o, k>> \in D
    OBVIOUS
  <1>6. MadePart(t, side)'[<<o, k>>] = MadePart(t, side)[<<o, k>>] + n
    BY <1>0, <1>3, <1>5 DEF MadePart
  <1>7. ASSUME NEW pj \in D, pj # <<o, k>> PROVE MadePart(t, side)'[pj] = MadePart(t, side)[pj]
    <2>1. PICK p \in Orders, j \in Attempts : pj = <<p, j>>
      OBVIOUS
    <2>2. bFilled'[p][j] = bFilled[p][j]
      BY <1>3, <1>7, <2>1
    <2> QED
      BY <2>1, <2>2 DEF MadePart
  <1>8. n \in Nat
    OBVIOUS
  <1>9. IsFiniteSet(D)
    BY OrdersAreFinite
  <1> HIDE DEF n, D
  <1>10. Total(MadePart(t, side)') = Total(MadePart(t, side)) + n
    BY <1>4, <1>5, <1>6, <1>7, <1>8, <1>9, TotalGrows
  <1> QED
    BY <1>10 DEF Made, n

LEMMA PositionStep ==
  ASSUME TypeOK, TypeOK', PositionInv, [Next]_vars
  PROVE  PositionInv'
  <1> SUFFICES ASSUME NEW t \in Tickers
               PROVE  Held(t)' + Booked(t, "sell")' + Made(t, "buy")'
                        = holdings'[t] + Made(t, "sell")' + Booked(t, "buy")'
    BY DEF PositionInv
  <1>0. /\ Held(t) + Booked(t, "sell") + Made(t, "buy") = holdings[t] + Made(t, "sell") + Booked(t, "buy")
        /\ Held(t) \in Nat /\ holdings[t] \in Nat
        /\ \A side \in {"buy", "sell"} : Booked(t, side) \in Nat /\ Made(t, side) \in Nat
    BY PartTypes, HeldType DEF PositionInv, TypeOK, LedgerTypeOK, BrokerTypeOK
  <1>1. ASSUME UNCHANGED <<position, filled>>
        PROVE  Held(t)' = Held(t) /\ \A side : Booked(t, side)' = Booked(t, side)
    BY <1>1 DEF Held, Booked, BookedPart
  <1>2. ASSUME UNCHANGED <<holdings, bFilled>>
        PROVE  holdings'[t] = holdings[t] /\ \A side : Made(t, side)' = Made(t, side)
    BY <1>2 DEF Made, MadePart
  <1>3. (\E o \in Orders : ProcessFill(o)) \/ UNCHANGED <<position, filled>>
    BY LedgerFrame DEF LedgerWrite, LoadPositions, PersistSignal, PersistValidatedOrder,
       PlaceRefused, MarkSubmissionResult, RecordSubmitFailure, MarkOrderReconcileHold,
       FlagReconciliationHold, RequestCancel, ConfirmCancel, vars, dbVars, bookVars
  <1>4. (\E o \in Orders, k \in Attempts : BrokerFill(o, k)) \/ UNCHANGED <<holdings, bFilled>>
    BY BrokerFrame DEF BrokerCall, SubmitAccepted, SubmitLost, SubmitFailed, CancelAccepted,
       CancelGivenUp, vars, brokerVars
  <1>5. ASSUME NEW o \in Orders, ProcessFill(o) PROVE UNCHANGED <<holdings, bFilled>>
    BY <1>5 DEF ProcessFill, brokerVars
  <1>6. ASSUME NEW o \in Orders, NEW k \in Attempts, BrokerFill(o, k) PROVE UNCHANGED <<position, filled>>
    BY <1>6 DEF BrokerFill, dbVars, bookVars
  <1>7. ASSUME NEW o \in Orders, ProcessFill(o)
        PROVE  Held(t)' + Booked(t, "sell")' + Made(t, "buy")'
                 = holdings'[t] + Made(t, "sell")' + Booked(t, "buy")'
    <2>1. pollFills[o] \in Nat /\ SideOf[o] \in {"buy", "sell"}
      BY OrderExecutionAssumption DEF TypeOK, PollTypeOK
    <2>2. /\ holdings'[t] = holdings[t]
          /\ Made(t, "buy")' = Made(t, "buy") /\ Made(t, "sell")' = Made(t, "sell")
      BY <1>2, <1>5, <1>7
    <2>3. Booked(t, "buy")' = Booked(t, "buy") + (IF TickerOf[o] = t /\ SideOf[o] = "buy" THEN pollFills[o] ELSE 0)
      BY <1>7, ProcessFillBooks
    <2>4. Booked(t, "sell")' = Booked(t, "sell") + (IF TickerOf[o] = t /\ SideOf[o] = "sell" THEN pollFills[o] ELSE 0)
      BY <1>7, ProcessFillBooks
    <2>5. Held(t)' = IF TickerOf[o] # t THEN Held(t)
                     ELSE IF SideOf[o] = "buy" THEN Held(t) + pollFills[o]
                     ELSE Held(t) - pollFills[o]
      BY <1>7, ProcessFillHolds
    <2> QED
      BY <1>0, <2>1, <2>2, <2>3, <2>4, <2>5
  <1>8. ASSUME NEW o \in Orders, NEW k \in Attempts, BrokerFill(o, k)
        PROVE  Held(t)' + Booked(t, "sell")' + Made(t, "buy")'
                 = holdings'[t] + Made(t, "sell")' + Booked(t, "buy")'
    <2>1. SideOf[o] \in {"buy", "sell"} /\ TickerOf[o] \in Tickers
      BY OrderExecutionAssumption
    <2>2. /\ Held(t)' = Held(t)
          /\ Booked(t, "buy")' = Booked(t, "buy") /\ Booked(t, "sell")' = Booked(t, "sell")
      BY <1>1, <1>6, <1>8
    <2>3. Made(t, "buy")' = Made(t, "buy") + (IF TickerOf[o] = t /\ SideOf[o] = "buy" THEN 1 ELSE 0)
      BY <1>8, BrokerFillMakes
    <2>4. Made(t, "sell")' = Made(t, "sell") + (IF TickerOf[o] = t /\ SideOf[o] = "sell" THEN 1 ELSE 0)
      BY <1>8, BrokerFillMakes
    <2>5. holdings'[t] = IF TickerOf[o] # t THEN holdings[t]
                         ELSE IF SideOf[o] = "buy" THEN holdings[t] + 1 ELSE holdings[t] - 1
      BY <1>8, <2>1 DEF BrokerFill, TypeOK, BrokerTypeOK
    <2> QED
      BY <1>0, <2>1, <2>2, <2>3, <2>4, <2>5
  <1> QED
    BY <1>0, <1>1, <1>2, <1>3, <1>4, <1>7, <1>8

\* What is booked of the buys has been made: by the recorded submission.
LEMMA BoughtIsMade ==
  ASSUME TypeOK, LedgerNeverAheadOfBroker, NEW t \in Tickers
  PROVE  Booked(t, "buy") <= Made(t, "buy")
  <1> DEFINE f == BookedPart(t, "buy")
             g == MadePart(t, "buy")
             h == [o \in Orders |-> <<o, IF kisOrderNo[o] = 0 THEN 1 ELSE kisOrderNo[o]>>]
  <1>0. /\ filled \in [Orders -> Nat] /\ bFilled \in [Orders -> [Attempts -> Nat]]
        /\ kisOrderNo \in [Orders -> 0..MaxSubmitRetries]
    BY DEF TypeOK, LedgerTypeOK, BrokerTypeOK
  <1>1. f \in [Orders -> Nat] /\ g \in [Orders \X Attempts -> Nat]
    BY <1>0, PartTypes
  <1>2. ASSUME NEW o \in Orders
        PROVE  /\ h[o] \in Orders \X Attempts /\ h[o][1] = o
               /\ f[o] <= g[h[o]]
    <2> DEFINE k == IF kisOrderNo[o] = 0 THEN 1 ELSE kisOrderNo[o]
    <2>1. k \in Attempts
      BY <1>0, OrderExecutionAssumption DEF Attempts
    <2>2. filled[o] \in Nat /\ bFilled[o][k] \in Nat /\ filled[o] <= bFilled[o][k]
      BY <1>0, <2>1 DEF LedgerNeverAheadOfBroker
    <2>3. h[o] = <<o, k>>
      OBVIOUS
    <2> HIDE DEF k
    <2>4. g[<<o, k>>] = IF TickerOf[o] = t /\ SideOf[o] = "buy" THEN bFilled[o][k] ELSE 0
      BY <2>1 DEF MadePart
    <2>5. f[o] = IF TickerOf[o] = t /\ SideOf[o] = "buy" THEN filled[o] ELSE 0
      BY DEF BookedPart
    <2> HIDE DEF f, g, h
    <2> QED
      BY <2>1, <2>2, <2>3, <2>4, <2>5
  <1>3. h \in Injection(Orders, Orders \X Attempts)
    <2>1. h \in [Orders -> Orders \X Attempts]
      BY <1>2
    <2>2. \A o, p \in Orders : h[o] = h[p] => o = p
      OBVIOUS
    <2> HIDE DEF h
    <2> QED
      BY <2>1, <2>2 DEF Injection, IsInjective
  <1>4. \A o \in Orders : f[o] <= g[h[o]]
    BY <1>2
  <1> HIDE DEF f, g, h
  <1>5. Total(f) <= Total(g)
    BY <1>1, <1>3, <1>4, OrdersAreFinite, TotalIsMonotone
  <1> QED
    BY <1>5 DEF Booked, Made, f, g

(* For every ticker, and whatever orders, attempts, cycles, strategies and   *)
(* positions at the start there are, the ledger holds no more than the       *)
(* account and the sells it has not booked yet account for.                  *)
THEOREM PositionsAreBought == Spec => []PositionNeverAheadOfAccount
  <1>1. Init => PositionInv
    BY InitPositionInv
  <1>2. IInv /\ IInv' /\ PositionInv /\ [Next]_vars => PositionInv'
    BY PositionStep DEF IInv
  <1>3. IInv /\ PositionInv => PositionNeverAheadOfAccount
    <2> SUFFICES ASSUME IInv, PositionInv, NEW t \in Tickers PROVE Held(t) <= holdings[t] + SoldNotBooked(t)
      BY DEF PositionNeverAheadOfAccount
    <2>1. TypeOK /\ LedgerNeverAheadOfBroker
      BY DEF IInv, PollLedgerInv
    <2>2. /\ Held(t) \in Nat /\ holdings[t] \in Nat
          /\ \A side \in {"buy", "sell"} : Booked(t, side) \in Nat /\ Made(t, side) \in Nat
      BY <2>1, PartTypes, HeldType DEF TypeOK, LedgerTypeOK, BrokerTypeOK
    <2>3. SoldNotBooked(t) = Made(t, "sell") - Booked(t, "sell")
      BY DEF SoldNotBooked, Made, MadePart, Booked, BookedPart
    <2>4. Booked(t, "buy") <= Made(t, "buy")
      BY <2>1, BoughtIsMade
    <2>5. Held(t) + Booked(t, "sell") + Made(t, "buy") = holdings[t] + Made(t, "sell") + Booked(t, "buy")
      BY DEF PositionInv
    <2> QED
      BY <2>2, <2>3, <2>4, <2>5
  <1> QED
    BY <1>1, <1>2, <1>3, Inductive, PTL DEF Spec
=============================================================================
