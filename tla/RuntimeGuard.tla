---------------------------- MODULE RuntimeGuard ----------------------------
(***************************************************************************)
(* execution/runtime.py: the state of TradingRuntime that decides whether a*)
(* strategy cycle may start, and the jobs that share it.  The scheduler    *)
(* runs the jobs on a thread pool, one instance of each at a time.  They   *)
(* have no lock: each update is                                            *)
(*                                                                         *)
(*     self.state = replace(self.state, ...)                               *)
(*                                                                         *)
(* whose load of the old state and store of the new one are two steps.     *)
(* The reads made by the arguments of one replace() are one step.          *)
(*                                                                         *)
(* last_error, health_status and the "trading_blocked" notification key    *)
(* only feed messages and are left out; whether a session is open is a     *)
(* choice, and every job may fire at any time.                             *)
(***************************************************************************)
EXTENDS Integers, FiniteSets

CONSTANTS
  Cycles,             \* the strategy cycle jobs
  OtherJobs,          \* bound: which of the other jobs fire
  BlockAfterFailures, \* 3: the poll failures in a row that block trading
  TokenStaleAfter,    \* token_stale_after
  PollStaleAfter,     \* poll_stale_after
  MaxTime,            \* bound of the clock
  MaxTokenJobs,       \* bound: how often the token job fires
  MaxFailures,        \* bound: poll failures, in a row and counted
  MaxAlerts           \* bound of the count of alerts

Never == -1           \* a time stamp that is None

ASSUME RuntimeGuardAssumption ==
  /\ OtherJobs \subseteq {"token", "poll", "health", "cancel"}
  /\ OtherJobs \cap Cycles = {}
  /\ BlockAfterFailures \in Nat \ {0}
  /\ {TokenStaleAfter, PollStaleAfter, MaxTime, MaxTokenJobs, MaxFailures,
      MaxAlerts} \subseteq Nat

Jobs == OtherJobs \cup Cycles

VARIABLES
  clock,
  queueDegraded,  \* writer_queue.health().degraded
  state,          \* self.state
  keyActive,      \* "writer_queue_degraded" in self._active_notification_keys
  pc,             \* program counter of each job
  snap,           \* the state a job has built and not yet stored
  note,           \* the local variables of each job
  asOf,           \* as_of of each strategy cycle
  sawDegraded,    \* writer_queue.degraded in the health snapshot of each cycle
  tokenJobs,      \* how often the token job has fired
  alerts,         \* history: the writer_queue_degraded alerts sent
  firedDegraded,  \* history: was the queue degraded when the cycle job fired?
  lastPollOk,     \* history: when a poll last succeeded
  failedInRow     \* history: the polls that failed since then

gateVars == <<asOf, sawDegraded, firedDegraded>>
vars == <<clock, queueDegraded, state, keyActive, pc, snap, note, gateVars, tokenJobs,
          alerts, lastPollOk, failedInRow>>

NewState == [blocked |-> FALSE, degraded |-> FALSE, failures |-> 0,
             tokenAt |-> Never, pollAt |-> Never]
NoNote == [wasDegraded |-> FALSE, failures |-> 0]

Init ==
  /\ clock = 0 /\ queueDegraded = FALSE
  /\ state = NewState /\ keyActive = FALSE
  /\ pc = [j \in Jobs |-> "idle"]
  /\ snap = [j \in Jobs |-> NewState]
  /\ note = [j \in Jobs |-> NoNote]
  /\ asOf = [c \in Cycles |-> 0]
  /\ sawDegraded = [c \in Cycles |-> FALSE]
  /\ firedDegraded = [c \in Cycles |-> FALSE]
  /\ tokenJobs = 0
  /\ alerts = 0
  /\ lastPollOk = Never /\ failedInRow = 0

Goto(j, from, to) == pc[j] = from /\ pc' = [pc EXCEPT ![j] = to]
Build(j, s) == snap' = [snap EXCEPT ![j] = s]
Recall(j, n) == note' = [note EXCEPT ![j] = n]

\* Where _refresh_health_status() returns to: a strategy cycle goes on.
Return(j) == IF j \in Cycles THEN "decide" ELSE "idle"

\* self.state = <the state that was built>, whatever it has become meanwhile.
AfterStore(j) == [storePlain |-> "refresh", storeDegraded |-> "alert",
                  storeHealthy |-> Return(j), storeError |-> "idle"]

Store(j) ==
  /\ pc[j] \in DOMAIN AfterStore(j)
  /\ state' = snap[j]
  /\ snap' = [snap EXCEPT ![j] = NewState]
  /\ pc' = [pc EXCEPT ![j] = AfterStore(j)[pc[j]]]
  /\ UNCHANGED <<clock, queueDegraded, keyActive, note, gateVars, tokenJobs, alerts,
                 lastPollOk, failedInRow>>

-----------------------------------------------------------------------------
(***************************************************************************)
(* _run_token_refresh_job(): refresh_token() stores the token through the  *)
(* writer queue, so it can only succeed while the queue is not degraded.   *)
(***************************************************************************)
TokenStart ==
  /\ Goto("token", "idle", "working")
  /\ tokenJobs < MaxTokenJobs
  /\ tokenJobs' = tokenJobs + 1
  /\ UNCHANGED <<clock, queueDegraded, state, keyActive, snap, note, gateVars, alerts,
                 lastPollOk, failedInRow>>

TokenRefreshed ==
  /\ Goto("token", "working", "storePlain") /\ ~queueDegraded
  /\ Build("token", [state EXCEPT !.blocked = FALSE, !.tokenAt = clock])
  /\ UNCHANGED <<clock, queueDegraded, state, keyActive, note, gateVars, tokenJobs,
                 alerts, lastPollOk, failedInRow>>

TokenRefreshFails ==
  /\ Goto("token", "working", "storePlain")
  /\ Build("token", [state EXCEPT !.blocked = TRUE])
  /\ UNCHANGED <<clock, queueDegraded, state, keyActive, note, gateVars, tokenJobs,
                 alerts, lastPollOk, failedInRow>>

TokenStep == TokenStart \/ TokenRefreshed \/ TokenRefreshFails

-----------------------------------------------------------------------------
(***************************************************************************)
(* _run_broker_poll_job(): outside the sessions it only refreshes the      *)
(* health status; the reconciliation is written through the writer queue.  *)
(***************************************************************************)
PollOutOfSession ==
  /\ Goto("poll", "idle", "refresh")
  /\ UNCHANGED <<clock, queueDegraded, state, keyActive, snap, note, gateVars, tokenJobs,
                 alerts, lastPollOk, failedInRow>>

PollStart ==
  /\ Goto("poll", "idle", "working")
  /\ UNCHANGED <<clock, queueDegraded, state, keyActive, snap, note, gateVars, tokenJobs,
                 alerts, lastPollOk, failedInRow>>

PollSucceeds ==
  /\ Goto("poll", "working", "storePlain") /\ ~queueDegraded
  /\ Build("poll", [state EXCEPT !.pollAt = clock, !.failures = 0])
  /\ lastPollOk' = clock /\ failedInRow' = 0
  /\ UNCHANGED <<clock, queueDegraded, state, keyActive, note, gateVars, tokenJobs, alerts>>

MismatchStamped(s) == [s EXCEPT !.blocked = TRUE, !.failures = 0, !.pollAt = clock]  \* mutant
MismatchState(s) == [s EXCEPT !.blocked = TRUE, !.failures = 0]

PollMismatch ==
  /\ Goto("poll", "working", "storePlain") /\ ~queueDegraded
  /\ Build("poll", MismatchState(state))
  /\ failedInRow' = 0
  /\ UNCHANGED <<clock, queueDegraded, state, keyActive, note, gateVars, tokenJobs,
                 alerts, lastPollOk>>

CountTwice == state.failures + 2                              \* mutant
FailureCount == state.failures + 1

PollFails ==
  /\ Goto("poll", "working", "failed")
  /\ failedInRow < MaxFailures /\ state.failures < MaxFailures
  /\ failedInRow' = failedInRow + 1
  /\ Recall("poll", [NoNote EXCEPT !.failures = FailureCount])
  /\ UNCHANGED <<clock, queueDegraded, state, keyActive, snap, gateVars, tokenJobs,
                 alerts, lastPollOk>>

PollCountFailure ==
  LET n == note["poll"].failures IN
  /\ Goto("poll", "failed", "storePlain")
  /\ Build("poll", [state EXCEPT !.failures = n,
                                 !.blocked = @ \/ n >= BlockAfterFailures])
  /\ Recall("poll", NoNote)
  /\ UNCHANGED <<clock, queueDegraded, state, keyActive, gateVars, tokenJobs,
                 alerts, lastPollOk, failedInRow>>

PollStep ==
  \/ PollOutOfSession \/ PollStart \/ PollSucceeds \/ PollMismatch
  \/ PollFails \/ PollCountFailure

-----------------------------------------------------------------------------
\* _run_pre_close_cancel_job(): of the state it only writes last_error, but
\* it writes back every other field.
CancelOutOfSession ==
  /\ Goto("cancel", "idle", "refresh")
  /\ UNCHANGED <<clock, queueDegraded, state, keyActive, snap, note, gateVars, tokenJobs,
                 alerts, lastPollOk, failedInRow>>

CancelRecordsError ==
  /\ Goto("cancel", "idle", "storePlain")
  /\ Build("cancel", state)
  /\ UNCHANGED <<clock, queueDegraded, state, keyActive, note, gateVars, tokenJobs,
                 alerts, lastPollOk, failedInRow>>

HealthStart ==
  /\ Goto("health", "idle", "refresh")
  /\ UNCHANGED <<clock, queueDegraded, state, keyActive, snap, note, gateVars, tokenJobs,
                 alerts, lastPollOk, failedInRow>>

-----------------------------------------------------------------------------
(***************************************************************************)
(* _refresh_health_status(), the last call of every job and the first of   *)
(* health_snapshot().                                                      *)
(***************************************************************************)
WasDegradedAfterMarking == TRUE                               \* mutant
WasDegraded == state.degraded

RefreshDegraded(j) ==
  /\ Goto(j, "refresh", "mark") /\ queueDegraded
  /\ Recall(j, [NoNote EXCEPT !.wasDegraded = WasDegraded])
  /\ UNCHANGED <<clock, queueDegraded, state, keyActive, snap, gateVars, tokenJobs,
                 alerts, lastPollOk, failedInRow>>

\* mark_writer_queue_degraded()
MarkDegraded(j) ==
  /\ Goto(j, "mark", "storeDegraded")
  /\ Build(j, [state EXCEPT !.degraded = TRUE, !.blocked = TRUE])
  /\ UNCHANGED <<clock, queueDegraded, state, keyActive, note, gateVars, tokenJobs,
                 alerts, lastPollOk, failedInRow>>

AlertDegraded(j) ==
  /\ Goto(j, "alert", Return(j))
  /\ IF note[j].wasDegraded \/ keyActive
       THEN UNCHANGED <<keyActive, alerts>>
       ELSE keyActive' = TRUE /\ alerts' = (IF alerts < MaxAlerts THEN alerts + 1 ELSE alerts)
  /\ Recall(j, NoNote)
  /\ UNCHANGED <<clock, queueDegraded, state, snap, gateVars, tokenJobs,
                 lastPollOk, failedInRow>>

RefreshHealthy(j) ==
  /\ Goto(j, "refresh", "unmark") /\ ~queueDegraded
  /\ UNCHANGED <<clock, queueDegraded, state, keyActive, snap, note, gateVars,
                 tokenJobs, alerts, lastPollOk, failedInRow>>

UnmarkDegraded(j) ==
  /\ Goto(j, "unmark", "storeHealthy")
  /\ keyActive' = FALSE
  /\ Build(j, [state EXCEPT !.degraded = FALSE])
  /\ UNCHANGED <<clock, queueDegraded, state, note, gateVars, tokenJobs, alerts,
                 lastPollOk, failedInRow>>

RefreshStep(j) ==
  \/ Store(j)
  \/ RefreshDegraded(j) \/ MarkDegraded(j) \/ AlertDegraded(j)
  \/ RefreshHealthy(j) \/ UnmarkDegraded(j)

-----------------------------------------------------------------------------
(***************************************************************************)
(* _run_strategy_cycle_job() and _evaluate_strategy_cycle_skip(): as_of is *)
(* taken when the job starts, the health snapshot after the refresh.       *)
(***************************************************************************)
CycleStart(c) ==
  /\ Goto(c, "idle", "refresh")
  /\ asOf' = [asOf EXCEPT ![c] = clock]
  /\ firedDegraded' = [firedDegraded EXCEPT ![c] = queueDegraded]
  /\ UNCHANGED <<clock, queueDegraded, state, keyActive, snap, note, sawDegraded,
                 tokenJobs, alerts, lastPollOk, failedInRow>>

\* health_snapshot() asks the queue before it reads the state.
AskState == state.degraded                                    \* mutant
AskQueue == queueDegraded

CycleAsksQueue(c) ==
  /\ Goto(c, "decide", "gate")
  /\ sawDegraded' = [sawDegraded EXCEPT ![c] = AskQueue]
  /\ UNCHANGED <<clock, queueDegraded, state, keyActive, snap, note, asOf,
                 firedDegraded, tokenJobs, alerts, lastPollOk, failedInRow>>

Stale(at, now, after) == at = Never \/ now - at > after

MayStart(c) ==
  /\ ~sawDegraded[c]
  /\ ~state.blocked
  /\ ~Stale(state.tokenAt, asOf[c], TokenStaleAfter)
  /\ ~Stale(state.pollAt, asOf[c], PollStaleAfter)

CycleRuns(c) ==
  /\ Goto(c, "gate", "running") /\ MayStart(c)
  /\ UNCHANGED <<clock, queueDegraded, state, keyActive, snap, note, gateVars,
                 tokenJobs, alerts, lastPollOk, failedInRow>>

Forget(c) ==
  /\ asOf' = [asOf EXCEPT ![c] = 0]
  /\ sawDegraded' = [sawDegraded EXCEPT ![c] = FALSE]
  /\ firedDegraded' = [firedDegraded EXCEPT ![c] = FALSE]

CycleSkipped(c) ==
  /\ Goto(c, "gate", "idle") /\ ~MayStart(c)
  /\ Forget(c)
  /\ UNCHANGED <<clock, queueDegraded, state, keyActive, snap, note, tokenJobs,
                 alerts, lastPollOk, failedInRow>>

CycleEnds(c) ==
  /\ Goto(c, "running", "idle")
  /\ Forget(c)
  /\ UNCHANGED <<clock, queueDegraded, state, keyActive, snap, note, tokenJobs,
                 alerts, lastPollOk, failedInRow>>

\* An exception of the cycle is written to last_error.
CycleFails(c) ==
  /\ Goto(c, "running", "storeError")
  /\ Build(c, state) /\ Forget(c)
  /\ UNCHANGED <<clock, queueDegraded, state, keyActive, note, tokenJobs,
                 alerts, lastPollOk, failedInRow>>

CycleStep(c) ==
  \/ CycleStart(c) \/ CycleAsksQueue(c)
  \/ CycleRuns(c) \/ CycleSkipped(c)
  \/ CycleEnds(c) \/ CycleFails(c)

-----------------------------------------------------------------------------
Tick ==
  /\ clock < MaxTime
  /\ clock' = clock + 1
  /\ UNCHANGED <<queueDegraded, state, keyActive, pc, snap, note, gateVars, tokenJobs,
                 alerts, lastPollOk, failedInRow>>

\* A write has failed for good (WriterQueue): nothing resets the flag.
QueueDegrades ==
  /\ ~queueDegraded
  /\ queueDegraded' = TRUE
  /\ UNCHANGED <<clock, state, keyActive, pc, snap, note, gateVars, tokenJobs, alerts,
                 lastPollOk, failedInRow>>

JobStep ==
  \/ "token" \in OtherJobs /\ TokenStep
  \/ "poll" \in OtherJobs /\ PollStep
  \/ "cancel" \in OtherJobs /\ (CancelOutOfSession \/ CancelRecordsError)
  \/ "health" \in OtherJobs /\ HealthStart
  \/ \E c \in Cycles : CycleStep(c)
  \/ \E j \in Jobs : RefreshStep(j)

Next == JobStep \/ Tick \/ QueueDegrades

Spec == Init /\ [][Next]_vars

\* The healthcheck job fires every minute, and a job that has begun to refresh
\* the health status finishes it: nothing there can block.
FairSpec ==
  /\ Spec
  /\ WF_vars("health" \in OtherJobs /\ HealthStart)
  /\ \A j \in Jobs : WF_vars(RefreshStep(j))

-----------------------------------------------------------------------------
Points == {"idle", "working", "failed", "refresh", "mark", "alert", "unmark",
           "decide", "gate", "running", "storePlain", "storeDegraded", "storeHealthy",
           "storeError"}

States == [blocked : BOOLEAN, degraded : BOOLEAN, failures : 0..MaxFailures,
           tokenAt : 0..MaxTime \cup {Never}, pollAt : 0..MaxTime \cup {Never}]

TypeOK ==
  /\ clock \in 0..MaxTime /\ queueDegraded \in BOOLEAN
  /\ state \in States /\ snap \in [Jobs -> States]
  /\ keyActive \in BOOLEAN
  /\ pc \in [Jobs -> Points]
  /\ note \in [Jobs -> [wasDegraded : BOOLEAN, failures : 0..MaxFailures]]
  /\ asOf \in [Cycles -> 0..MaxTime]
  /\ sawDegraded \in [Cycles -> BOOLEAN] /\ firedDegraded \in [Cycles -> BOOLEAN]
  /\ tokenJobs \in 0..MaxTokenJobs
  /\ alerts \in 0..MaxAlerts
  /\ lastPollOk \in 0..MaxTime \cup {Never} /\ failedInRow \in 0..MaxFailures

(* A strategy cycle runs only if a poll really succeeded not longer than     *)
(* PollStaleAfter before the cycle's as_of: whatever updates of the state    *)
(* the races lose, they never make the last poll look younger than it is.    *)
CycleNeedsFreshPoll ==
  \A c \in Cycles : pc[c] = "running" =>
    lastPollOk # Never /\ asOf[c] - lastPollOk <= PollStaleAfter

(* A strategy cycle whose job fires when the writer queue is degraded never  *)
(* runs, even if the degraded flag of the state is not set yet or has been   *)
(* written back to FALSE by another job, and the token job lifts the block   *)
(* meanwhile (health_snapshot, _evaluate_strategy_cycle_skip).               *)
NoCycleRunsDegraded == \A c \in Cycles : pc[c] = "running" => ~firedDegraded[c]

(* A degraded writer queue is reported to the operators in the end, whoever  *)
(* marks the state first and whatever is written back over the mark.         *)
DegradedIsReported == queueDegraded ~> alerts > 0
=============================================================================
