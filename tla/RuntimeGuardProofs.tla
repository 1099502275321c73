------------------------- MODULE RuntimeGuardProofs -------------------------
(***************************************************************************)
(* For any number of strategy cycles, any subset of the other jobs and any *)
(* bounds: the races on TradingRuntime.state may lose updates, but they    *)
(* never start a cycle on a poll that did not happen, nor one whose job    *)
(* fired when the writer queue was degraded.                               *)
(***************************************************************************)
EXTENDS RuntimeGuard, TLAPS

\* A copy of the state, stored or not, remembers no poll later than the last
\* one that succeeded: a lost update can only age it.
PollNotInvented ==
  /\ lastPollOk <= clock
  /\ state.pollAt <= lastPollOk
  /\ \A j \in Jobs : snap[j].pollAt <= lastPollOk

\* The queue stays degraded, so a cycle that fired late has seen it degraded.
GateIsShut ==
  \A c \in Cycles :
    /\ firedDegraded[c] => queueDegraded
    /\ pc[c] = "gate" /\ firedDegraded[c] => sawDegraded[c]
    /\ pc[c] = "running" => ~firedDegraded[c]

IInv == TypeOK /\ PollNotInvented /\ CycleNeedsFreshPoll /\ GateIsShut

(* The bounds, one by one.                                                   *)
LEMMA BoundsAreNaturals ==
  /\ TokenStaleAfter \in Nat /\ PollStaleAfter \in Nat /\ MaxTime \in Nat
  /\ MaxTokenJobs \in Nat /\ MaxFailures \in Nat /\ MaxAlerts \in Nat
  BY RuntimeGuardAssumption DEF RuntimeGuardAssumption

(* The initial state satisfies the invariant: nothing has run or polled.     *)
LEMMA InitHolds == Init => IInv
<1> SUFFICES ASSUME Init PROVE IInv
  OBVIOUS
<1> USE BoundsAreNaturals DEF Init
<1>1. NewState \in States /\ NewState.pollAt = Never
  BY DEF NewState, States, Never
<1>2. NoNote \in [wasDegraded : BOOLEAN, failures : 0..MaxFailures]
  BY DEF NoNote
<1>3. pc \in [Jobs -> Points] /\ asOf \in [Cycles -> 0..MaxTime]
  BY DEF Points
<1>4. state \in States /\ snap \in [Jobs -> States]
  BY <1>1
<1>5. note \in [Jobs -> [wasDegraded : BOOLEAN, failures : 0..MaxFailures]]
  BY <1>2
<1>6. TypeOK
  <2>1. queueDegraded \in BOOLEAN /\ keyActive \in BOOLEAN
    OBVIOUS
  <2> /\ sawDegraded \in [Cycles -> BOOLEAN] /\ firedDegraded \in [Cycles -> BOOLEAN]
    OBVIOUS
  <2>2. /\ clock \in 0..MaxTime /\ tokenJobs \in 0..MaxTokenJobs
        /\ alerts \in 0..MaxAlerts /\ failedInRow \in 0..MaxFailures
        /\ lastPollOk \in 0..MaxTime \cup {Never}
    OBVIOUS
  <2>3. QED BY <1>3, <1>4, <1>5, <2>1, <2>2 DEF TypeOK
<1>7. PollNotInvented
  BY <1>1 DEF PollNotInvented, Never
<1>8. CycleNeedsFreshPoll
  BY DEF CycleNeedsFreshPoll, Jobs
<1>9. GateIsShut
  BY DEF GateIsShut, Jobs
<1>10. QED BY <1>6, <1>7, <1>8, <1>9 DEF IInv

(* Storing a copy of the state keeps the invariant: the copy has a type and  *)
(* no poll stamp that the last successful poll has not reached.              *)
LEMMA StoreStep ==
  ASSUME IInv, NEW j \in Jobs, Store(j)
  PROVE  IInv'
<1> USE BoundsAreNaturals
<1>1. snap[j] \in States /\ snap[j].pollAt <= lastPollOk
  BY DEF IInv, TypeOK, PollNotInvented
<1>2. AfterStore(j)[pc[j]] \in Points \ {"gate", "running"}
  BY DEF Store, AfterStore, Return, Points
<1>3. NewState \in States /\ NewState.pollAt <= lastPollOk
  BY DEF IInv, TypeOK, NewState, States, Never
<1>4. TypeOK'
  BY <1>1, <1>2, <1>3 DEF IInv, TypeOK, Store, gateVars
<1>5. PollNotInvented'
  BY <1>1, <1>3 DEF IInv, TypeOK, PollNotInvented, Store
<1>6. CycleNeedsFreshPoll'
  BY <1>2 DEF IInv, TypeOK, CycleNeedsFreshPoll, Store, gateVars, Jobs
<1>7. GateIsShut'
  BY <1>2 DEF IInv, TypeOK, GateIsShut, Store, gateVars, Jobs
<1>8. QED BY <1>4, <1>5, <1>6, <1>7 DEF IInv

(* A job that builds a copy of the state with the poll stamp of the state,   *)
(* and goes anywhere but into a cycle, keeps the invariant (every step that  *)
(* builds, except the successful poll).                                      *)
LEMMA BuildStep ==
  ASSUME IInv, NEW j \in Jobs, NEW s \in States, s.pollAt <= lastPollOk,
         NEW from, NEW to \in Points \ {"gate", "running"}, Goto(j, from, to), Build(j, s),
         UNCHANGED <<clock, queueDegraded, state, gateVars, tokenJobs, alerts, lastPollOk>>,
         keyActive' \in BOOLEAN, failedInRow' \in 0..MaxFailures,
         note' \in [Jobs -> [wasDegraded : BOOLEAN, failures : 0..MaxFailures]]
  PROVE  IInv'
<1> USE BoundsAreNaturals DEF Goto, Build, gateVars
<1>1. TypeOK'
  BY DEF IInv, TypeOK
<1>2. PollNotInvented'
  BY DEF IInv, TypeOK, PollNotInvented
<1>3. CycleNeedsFreshPoll'
  BY DEF IInv, TypeOK, CycleNeedsFreshPoll, Jobs
<1>4. GateIsShut'
  BY DEF IInv, TypeOK, GateIsShut, Jobs
<1>5. QED BY <1>1, <1>2, <1>3, <1>4 DEF IInv

(* A job that only goes on, and not into a cycle, keeps the invariant.       *)
LEMMA GotoStep ==
  ASSUME IInv, NEW j \in Jobs, NEW from, NEW to \in Points \ {"gate", "running"}, Goto(j, from, to),
         UNCHANGED <<clock, queueDegraded, state, snap, gateVars, lastPollOk>>,
         keyActive' \in BOOLEAN, failedInRow' \in 0..MaxFailures,
         alerts' \in 0..MaxAlerts, tokenJobs' \in 0..MaxTokenJobs,
         note' \in [Jobs -> [wasDegraded : BOOLEAN, failures : 0..MaxFailures]]
  PROVE  IInv'
<1> USE BoundsAreNaturals DEF Goto, gateVars
<1>1. TypeOK'
  BY DEF IInv, TypeOK
<1>2. PollNotInvented'
  BY DEF IInv, TypeOK, PollNotInvented
<1>3. CycleNeedsFreshPoll'
  BY DEF IInv, TypeOK, CycleNeedsFreshPoll, Jobs
<1>4. GateIsShut'
  BY DEF IInv, TypeOK, GateIsShut, Jobs
<1>5. QED BY <1>1, <1>2, <1>3, <1>4 DEF IInv

(* The token job lifts the block or sets it, and never touches the poll      *)
(* stamp.                                                                    *)
LEMMA TokenKeeps ==
  ASSUME IInv, "token" \in Jobs, TokenStep
  PROVE  IInv'
<1> USE BoundsAreNaturals
<1>1. CASE TokenStart
  <2>1. tokenJobs' \in 0..MaxTokenJobs
    BY <1>1 DEF TokenStart, IInv, TypeOK
  <2>2. QED BY <1>1, <2>1, GotoStep DEF TokenStart, IInv, TypeOK, Points
<1>2. CASE TokenRefreshed
  <2> DEFINE s == [state EXCEPT !.blocked = FALSE, !.tokenAt = clock]
  <2>1. s \in States /\ s.pollAt <= lastPollOk
    BY DEF IInv, TypeOK, States, PollNotInvented
  <2>2. QED BY <1>2, <2>1, BuildStep DEF TokenRefreshed, IInv, TypeOK, Points
<1>3. CASE TokenRefreshFails
  <2> DEFINE s == [state EXCEPT !.blocked = TRUE]
  <2>1. s \in States /\ s.pollAt <= lastPollOk
    BY DEF IInv, TypeOK, States, PollNotInvented
  <2>2. QED BY <1>3, <2>1, BuildStep DEF TokenRefreshFails, IInv, TypeOK, Points
<1>4. QED BY <1>1, <1>2, <1>3 DEF TokenStep

(* The poll job moves the last successful poll to the clock, which is never  *)
(* behind it; every older copy of the state stays below.                     *)
LEMMA PollKeeps ==
  ASSUME IInv, "poll" \in Jobs, PollStep
  PROVE  IInv'
<1> USE BoundsAreNaturals
<1>1. CASE PollOutOfSession \/ PollStart
  BY <1>1, GotoStep DEF PollOutOfSession, PollStart, IInv, TypeOK, Points
<1>2. CASE PollSucceeds
  <2> DEFINE s == [state EXCEPT !.pollAt = clock, !.failures = 0]
  <2>0. state \in States /\ clock \in 0..MaxTime /\ 0 \in 0..MaxFailures
    BY DEF IInv, TypeOK
  <2>1. s \in States /\ s.pollAt = clock
    BY <2>0, Zenon DEF States
  <2>2. TypeOK'
    BY <1>2, <2>1 DEF PollSucceeds, Goto, Build, IInv, TypeOK, Points, gateVars
  <2>3. lastPollOk \in Int /\ clock \in Nat /\ lastPollOk <= clock
    BY DEF IInv, TypeOK, PollNotInvented, Never
  <2>4. PollNotInvented'
    BY <1>2, <2>1, <2>3 DEF PollSucceeds, Goto, Build, IInv, TypeOK, States,
       PollNotInvented, Never
  <2>5. CycleNeedsFreshPoll'
    BY <1>2, <2>3 DEF PollSucceeds, Goto, IInv, TypeOK, CycleNeedsFreshPoll, gateVars, Jobs,
       Never
  <2>6. GateIsShut'
    BY <1>2 DEF PollSucceeds, Goto, IInv, TypeOK, GateIsShut, gateVars, Jobs
  <2>7. QED BY <2>2, <2>4, <2>5, <2>6 DEF IInv
<1>3. CASE PollMismatch
  <2>0. state \in States /\ state.pollAt <= lastPollOk /\ 0 \in 0..MaxFailures
    BY DEF IInv, TypeOK, PollNotInvented
  <2>1. MismatchState(state) \in States /\ MismatchState(state).pollAt <= lastPollOk
    BY <2>0 DEF States, MismatchState
  <2>2. QED BY <1>3, <2>1, BuildStep DEF PollMismatch, IInv, TypeOK, Points
<1>4. CASE PollFails
  <2>1. failedInRow' \in 0..MaxFailures
    BY <1>4 DEF PollFails, IInv, TypeOK
  <2>2. FailureCount \in 0..MaxFailures
    BY <1>4 DEF PollFails, FailureCount, IInv, TypeOK, States
  <2>3. [NoNote EXCEPT !.failures = FailureCount]
           \in [wasDegraded : BOOLEAN, failures : 0..MaxFailures]
    BY <2>2 DEF NoNote
  <2>4. note' \in [Jobs -> [wasDegraded : BOOLEAN, failures : 0..MaxFailures]]
    BY <1>4, <2>3 DEF PollFails, Recall, IInv, TypeOK
  <2>5. QED BY <1>4, <2>1, <2>4, GotoStep DEF PollFails, IInv, TypeOK, Points
<1>5. CASE PollCountFailure
  <2> DEFINE n == note["poll"].failures
             s == [state EXCEPT !.failures = n, !.blocked = @ \/ n >= BlockAfterFailures]
  <2>1. n \in 0..MaxFailures
    BY DEF IInv, TypeOK
  <2>2. s \in States /\ s.pollAt <= lastPollOk
    BY <2>1 DEF IInv, TypeOK, States, PollNotInvented
  <2>3. note' \in [Jobs -> [wasDegraded : BOOLEAN, failures : 0..MaxFailures]]
    BY <1>5 DEF PollCountFailure, Recall, NoNote, IInv, TypeOK
  <2>4. QED BY <1>5, <2>2, <2>3, BuildStep DEF PollCountFailure, IInv, TypeOK, Points
<1>6. QED BY <1>1, <1>2, <1>3, <1>4, <1>5 DEF PollStep

(* Neither the refresh of the health status nor the cancel job changes the   *)
(* poll stamp of the copies they build.                                      *)
LEMMA RefreshKeeps ==
  ASSUME IInv, NEW j \in Jobs, RefreshStep(j)
  PROVE  IInv'
<1> USE BoundsAreNaturals
<1>1. CASE Store(j)
  BY <1>1, StoreStep
<1>2. CASE RefreshDegraded(j)
  <2>1. note' \in [Jobs -> [wasDegraded : BOOLEAN, failures : 0..MaxFailures]]
    BY <1>2 DEF RefreshDegraded, Recall, NoNote, WasDegraded, IInv, TypeOK, States
  <2>2. QED BY <1>2, <2>1, GotoStep DEF RefreshDegraded, IInv, TypeOK, Points
<1>3. CASE MarkDegraded(j)
  <2> DEFINE s == [state EXCEPT !.degraded = TRUE, !.blocked = TRUE]
  <2>1. s \in States /\ s.pollAt <= lastPollOk
    BY DEF IInv, TypeOK, States, PollNotInvented
  <2>2. QED BY <1>3, <2>1, BuildStep DEF MarkDegraded, IInv, TypeOK, Points
<1>4. CASE AlertDegraded(j)
  <2>1. Return(j) \in Points \ {"gate", "running"}
    BY DEF Return, Points
  <2>2. note' \in [Jobs -> [wasDegraded : BOOLEAN, failures : 0..MaxFailures]]
    BY <1>4 DEF AlertDegraded, Recall, NoNote, IInv, TypeOK
  <2>3. keyActive' \in BOOLEAN
    BY <1>4 DEF AlertDegraded, IInv, TypeOK
  <2>4. alerts' \in 0..MaxAlerts
    BY <1>4 DEF AlertDegraded, IInv, TypeOK
  <2>5. QED BY <1>4, <2>1, <2>2, <2>3, <2>4, GotoStep DEF AlertDegraded, IInv, TypeOK
<1>5. CASE RefreshHealthy(j)
  BY <1>5, GotoStep DEF RefreshHealthy, IInv, TypeOK, Points
<1>6. CASE UnmarkDegraded(j)
  <2> DEFINE s == [state EXCEPT !.degraded = FALSE]
  <2>1. s \in States /\ s.pollAt <= lastPollOk
    BY DEF IInv, TypeOK, States, PollNotInvented
  <2>2. QED BY <1>6, <2>1, BuildStep DEF UnmarkDegraded, IInv, TypeOK, Points
<1>7. QED BY <1>1, <1>2, <1>3, <1>4, <1>5, <1>6 DEF RefreshStep

(* A cycle that runs has seen a healthy queue and a poll stamp that is fresh *)
(* for its as_of, and the last successful poll is not older than that stamp. *)
LEMMA CycleKeeps ==
  ASSUME IInv, NEW c \in Cycles, CycleStep(c)
  PROVE  IInv'
<1> USE BoundsAreNaturals
<1> c \in Jobs
  BY DEF Jobs
<1> DEFINE Others == \A d \in Cycles \ {c} :
             /\ pc'[d] = pc[d] /\ asOf'[d] = asOf[d]
             /\ sawDegraded'[d] = sawDegraded[d] /\ firedDegraded'[d] = firedDegraded[d]
<1>1. Others /\ lastPollOk' = lastPollOk /\ queueDegraded' = queueDegraded
  BY DEF CycleStep, CycleStart, CycleAsksQueue, CycleRuns, CycleSkipped, CycleEnds, CycleFails,
     Goto, Forget, gateVars, IInv, TypeOK, Jobs
<1>2. CASE CycleRuns(c)
  <2>1. TypeOK'
    BY <1>2 DEF CycleRuns, Goto, IInv, TypeOK, Points, gateVars
  <2>2. PollNotInvented'
    BY <1>2 DEF CycleRuns, IInv, PollNotInvented
  <2>3. lastPollOk # Never /\ asOf[c] - lastPollOk <= PollStaleAfter
    BY <1>2 DEF CycleRuns, MayStart, Stale, IInv, TypeOK, States, PollNotInvented, Never
  <2>4. CycleNeedsFreshPoll'
    BY <1>2, <2>3 DEF CycleRuns, Goto, IInv, TypeOK, CycleNeedsFreshPoll, gateVars
  <2>5. ~firedDegraded[c]
    BY <1>2 DEF CycleRuns, MayStart, Goto, IInv, GateIsShut
  <2>6. GateIsShut'
    BY <1>2, <2>5 DEF CycleRuns, Goto, IInv, TypeOK, GateIsShut, gateVars
  <2>7. QED BY <2>1, <2>2, <2>4, <2>6 DEF IInv
<1>3. CASE CycleFails(c)
  <2>1. TypeOK'
    BY <1>3 DEF CycleFails, Goto, Build, Forget, IInv, TypeOK, Points
  <2>2. PollNotInvented'
    BY <1>3 DEF CycleFails, Build, IInv, TypeOK, PollNotInvented
  <2>3. pc'[c] = "storeError" /\ ~firedDegraded'[c]
    BY <1>3 DEF CycleFails, Goto, Forget, IInv, TypeOK
  <2>4. CycleNeedsFreshPoll'
    BY <1>1, <2>3 DEF IInv, CycleNeedsFreshPoll
  <2>5. GateIsShut'
    BY <1>1, <2>3 DEF IInv, GateIsShut
  <2>6. QED BY <2>1, <2>2, <2>4, <2>5 DEF IInv
<1>4. CASE CycleSkipped(c) \/ CycleEnds(c)
  <2>1. TypeOK'
    <3>1. /\ pc' = [pc EXCEPT ![c] = "idle"] /\ Forget(c)
          /\ UNCHANGED <<clock, queueDegraded, state, keyActive, snap, note, tokenJobs,
                         alerts, lastPollOk, failedInRow>>
      BY <1>4 DEF CycleSkipped, CycleEnds, Goto
    <3>2. QED BY <3>1 DEF Forget, IInv, TypeOK, Points
  <2>2. PollNotInvented'
    BY <1>4 DEF CycleSkipped, CycleEnds, IInv, PollNotInvented
  <2>3. pc'[c] = "idle" /\ ~firedDegraded'[c]
    BY <1>4 DEF CycleSkipped, CycleEnds, Goto, Forget, IInv, TypeOK
  <2>4. CycleNeedsFreshPoll'
    BY <1>1, <2>3 DEF IInv, CycleNeedsFreshPoll
  <2>5. GateIsShut'
    BY <1>1, <2>3 DEF IInv, GateIsShut
  <2>6. QED BY <2>1, <2>2, <2>4, <2>5 DEF IInv
<1>5. CASE CycleStart(c)
  <2>1. TypeOK'
    BY <1>5 DEF CycleStart, Goto, IInv, TypeOK, Points
  <2>2. PollNotInvented'
    BY <1>5 DEF CycleStart, IInv, PollNotInvented
  <2>3. pc'[c] = "refresh" /\ firedDegraded'[c] = queueDegraded
    BY <1>5 DEF CycleStart, Goto, IInv, TypeOK
  <2>4. CycleNeedsFreshPoll'
    BY <1>1, <2>3 DEF IInv, CycleNeedsFreshPoll
  <2>5. GateIsShut'
    BY <1>1, <2>3 DEF IInv, GateIsShut
  <2>6. QED BY <2>1, <2>2, <2>4, <2>5 DEF IInv
<1>6. CASE CycleAsksQueue(c)
  <2>1. TypeOK'
    BY <1>6 DEF CycleAsksQueue, AskQueue, Goto, IInv, TypeOK, Points
  <2>2. PollNotInvented'
    BY <1>6 DEF CycleAsksQueue, IInv, PollNotInvented
  <2>3. /\ pc'[c] = "gate" /\ sawDegraded'[c] = queueDegraded
        /\ firedDegraded'[c] = firedDegraded[c]
    BY <1>6 DEF CycleAsksQueue, AskQueue, Goto, IInv, TypeOK
  <2>4. CycleNeedsFreshPoll'
    BY <1>1, <2>3 DEF IInv, CycleNeedsFreshPoll
  <2>5. GateIsShut'
    BY <1>1, <2>3 DEF IInv, GateIsShut
  <2>6. QED BY <2>1, <2>2, <2>4, <2>5 DEF IInv
<1>7. QED BY <1>2, <1>3, <1>4, <1>5, <1>6 DEF CycleStep

(* Every step of every job keeps the invariant, whatever the other jobs are  *)
(* in the middle of.                                                         *)
THEOREM Inductive == IInv /\ [Next]_vars => IInv'
<1> SUFFICES ASSUME IInv, [Next]_vars PROVE IInv'
  OBVIOUS
<1> USE BoundsAreNaturals
<1>1. CASE JobStep
  <2>1. CASE "token" \in OtherJobs /\ TokenStep
    BY <2>1, TokenKeeps DEF Jobs
  <2>2. CASE "poll" \in OtherJobs /\ PollStep
    BY <2>2, PollKeeps DEF Jobs
  <2>3. CASE "cancel" \in OtherJobs /\ CancelOutOfSession
    BY <2>3, GotoStep DEF CancelOutOfSession, IInv, TypeOK, Points, Jobs
  <2>4. CASE "cancel" \in OtherJobs /\ CancelRecordsError
    <3>1. state \in States /\ state.pollAt <= lastPollOk
      BY DEF IInv, TypeOK, PollNotInvented
    <3>2. QED BY <2>4, <3>1, BuildStep DEF CancelRecordsError, IInv, TypeOK, Points, Jobs
  <2>5. CASE "health" \in OtherJobs /\ HealthStart
    BY <2>5, GotoStep DEF HealthStart, IInv, TypeOK, Points, Jobs
  <2>6. CASE \E c \in Cycles : CycleStep(c)
    BY <2>6, CycleKeeps
  <2>7. CASE \E j \in Jobs : RefreshStep(j)
    BY <2>7, RefreshKeeps
  <2>8. QED BY <1>1, <2>1, <2>2, <2>3, <2>4, <2>5, <2>6, <2>7 DEF JobStep
<1>2. CASE Tick
  <2>1. TypeOK'
    <3>1. clock' \in 0..MaxTime
      BY <1>2 DEF Tick, IInv, TypeOK
    <3>2. QED BY <1>2, <3>1 DEF Tick, IInv, TypeOK, gateVars
  <2>2. PollNotInvented'
    BY <1>2 DEF Tick, IInv, TypeOK, PollNotInvented, Never
  <2>3. CycleNeedsFreshPoll'
    BY <1>2 DEF Tick, IInv, CycleNeedsFreshPoll, gateVars
  <2>4. GateIsShut'
    BY <1>2 DEF Tick, IInv, GateIsShut, gateVars
  <2>5. QED BY <2>1, <2>2, <2>3, <2>4 DEF IInv
<1>3. CASE QueueDegrades
  BY <1>3 DEF QueueDegrades, gateVars, IInv, TypeOK, PollNotInvented, CycleNeedsFreshPoll,
     GateIsShut
<1>4. CASE UNCHANGED vars
  BY <1>4 DEF vars, gateVars, IInv, TypeOK, PollNotInvented, CycleNeedsFreshPoll, GateIsShut
<1>5. QED BY <1>1, <1>2, <1>3, <1>4 DEF Next

(* The invariant holds in every reachable state.                             *)
THEOREM AlwaysInvariant == Spec => []IInv
  BY InitHolds, Inductive, PTL DEF Spec

(* The state of the runtime has its type for any jobs, clock and bounds.     *)
THEOREM TypeCorrect == Spec => []TypeOK
<1>1. IInv => TypeOK
  BY DEF IInv
<1>2. QED BY <1>1, AlwaysInvariant, PTL

(* A strategy cycle runs only on a poll that really succeeded, not longer    *)
(* than PollStaleAfter before its as_of, however the jobs' updates of        *)
(* self.state overwrite each other.                                          *)
THEOREM CyclesArePolled == Spec => []CycleNeedsFreshPoll
<1>1. IInv => CycleNeedsFreshPoll
  BY DEF IInv
<1>2. QED BY <1>1, AlwaysInvariant, PTL

(* No cycle whose job fired when the writer queue was degraded runs: the     *)
(* gate asks the queue, not the flag that the races may clear.               *)
THEOREM DegradedStopsCycles == Spec => []NoCycleRunsDegraded
<1>1. IInv => NoCycleRunsDegraded
  BY DEF IInv, GateIsShut, NoCycleRunsDegraded
<1>2. QED BY <1>1, AlwaysInvariant, PTL
=============================================================================
