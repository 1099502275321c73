----------------------------- MODULE WriterQueue -----------------------------
(***************************************************************************)
(* execution/writer_queue.py: the queue every write of the program goes    *)
(* through.  Caller threads submit a task and wait on its future; a worker *)
(* thread takes the tasks one at a time and runs each in a transaction of  *)
(* its own, up to MaxRetries times.  A task that fails every attempt       *)
(* degrades the queue for good.  One control thread starts and stops it.   *)
(*                                                                         *)
(* submit() and the loop of the worker read the shared flags without a     *)
(* lock, so each read is a step of its own.  stop() waits for the worker   *)
(* only as long as its timeout, and the worker can outlive it.             *)
(***************************************************************************)
EXTENDS Naturals, Sequences, FiniteSets

CONSTANTS
  Tasks,            \* the tasks, one caller thread each
  MaxRetries,       \* max_retries
  MaxStarts,        \* bound: how many times the queue is started
  Poison,           \* the None item put by stop()
  NoTask            \* "no item in hand"

ASSUME WriterQueueAssumption ==
  /\ MaxRetries \in Nat \ {0}
  /\ MaxStarts \in Nat \ {0}
  /\ Poison \notin Tasks /\ NoTask \notin Tasks /\ Poison # NoTask

Workers == 1..MaxStarts      \* the worker thread of each start()

VARIABLES
  running,    \* self._running
  degraded,   \* self._degraded
  queue,      \* self._queue
  caller,     \* program counter of the thread that submits the task
  outcome,    \* the future of the task, "none" before it exists
  attempts,   \* item.attempts
  worker,     \* program counter of each worker thread
  item,       \* the item a worker has in hand
  control,    \* program counter of the thread that calls start() and stop()
  starts,     \* number of worker threads started so far
  accepted,   \* history: the tasks in the order they were put in the queue
  applied,    \* history: the tasks in the order they were committed
  abandoned   \* history: has a join timed out while the worker was alive?

vars == <<running, degraded, queue, caller, outcome, attempts, worker, item,
          control, starts, accepted, applied, abandoned>>

Init ==
  /\ running = FALSE /\ degraded = FALSE
  /\ queue = <<>>
  /\ caller = [t \in Tasks |-> "start"]
  /\ outcome = [t \in Tasks |-> "none"]
  /\ attempts = [t \in Tasks |-> 0]
  /\ worker = [w \in Workers |-> "unborn"]
  /\ item = [w \in Workers |-> NoTask]
  /\ control = "idle" /\ starts = 0
  /\ accepted = <<>> /\ applied = <<>> /\ abandoned = FALSE

(***************************************************************************)
(* submit(): refuse when degraded, refuse when stopped, else put the item. *)
(***************************************************************************)
CheckDegraded(t) ==
  /\ caller[t] = "start"
  /\ caller' = [caller EXCEPT ![t] = IF degraded THEN "refused" ELSE "checkRunning"]
  /\ UNCHANGED <<running, degraded, queue, outcome, attempts, worker, item,
                 control, starts, accepted, applied, abandoned>>

CheckRunning(t) ==
  /\ caller[t] = "checkRunning"
  /\ caller' = [caller EXCEPT ![t] = IF running THEN "put" ELSE "refused"]
  /\ UNCHANGED <<running, degraded, queue, outcome, attempts, worker, item,
                 control, starts, accepted, applied, abandoned>>

PutFirst(q, x) == <<x>> \o q                          \* mutant
PutLast(q, x) == Append(q, x)

Put(t) ==
  /\ caller[t] = "put"
  /\ caller' = [caller EXCEPT ![t] = "waiting"]
  /\ outcome' = [outcome EXCEPT ![t] = "pending"]
  /\ queue' = PutLast(queue, t)
  /\ accepted' = Append(accepted, t)
  /\ UNCHANGED <<running, degraded, attempts, worker, item, control, starts, applied, abandoned>>

(***************************************************************************)
(* start() and stop(), called by one control thread.                       *)
(***************************************************************************)
Start ==
  /\ control = "idle" /\ ~running
  /\ starts < MaxStarts
  /\ starts' = starts + 1
  /\ running' = TRUE
  /\ worker' = [worker EXCEPT ![starts + 1] = "readRunning"]
  /\ UNCHANGED <<degraded, queue, caller, outcome, attempts, item, control,
                 accepted, applied, abandoned>>

StopClearRunning ==
  /\ control = "idle" /\ running
  /\ running' = FALSE
  /\ control' = "putPoison"
  /\ UNCHANGED <<degraded, queue, caller, outcome, attempts, worker, item,
                 starts, accepted, applied, abandoned>>

StopPutPoison ==
  /\ control = "putPoison"
  /\ queue' = PutLast(queue, Poison)
  /\ control' = "join"
  /\ UNCHANGED <<running, degraded, caller, outcome, attempts, worker, item,
                 starts, accepted, applied, abandoned>>

\* self._worker is the thread of the last start(); joining it ends when it has
\* exited or when the timeout has passed, and then it is forgotten.
JoinAtOnce == TRUE                                    \* mutant
JoinReturns == worker[starts] = "exited"

StopJoin ==
  /\ control = "join" /\ control' = "idle"
  /\ JoinReturns
  /\ UNCHANGED <<running, degraded, queue, caller, outcome, attempts, worker,
                 item, starts, accepted, applied, abandoned>>

StopJoinTimesOut ==
  /\ control = "join" /\ control' = "idle"
  /\ worker[starts] # "exited"
  /\ abandoned' = TRUE
  /\ UNCHANGED <<running, degraded, queue, caller, outcome, attempts, worker,
                 item, starts, accepted, applied>>

(***************************************************************************)
(* _run(): while self._running or not self._queue.empty(): get and execute *)
(***************************************************************************)
ReadRunning(w) ==
  /\ worker[w] = "readRunning"
  /\ worker' = [worker EXCEPT ![w] = IF running THEN "get" ELSE "readEmpty"]
  /\ UNCHANGED <<running, degraded, queue, caller, outcome, attempts, item,
                 control, starts, accepted, applied, abandoned>>

ExitsAtOnce(q) == TRUE                                \* mutant
Exits(q) == q = <<>>

ReadEmpty(w) ==
  /\ worker[w] = "readEmpty"
  /\ worker' = [worker EXCEPT ![w] = IF Exits(queue) THEN "exited" ELSE "get"]
  /\ UNCHANGED <<running, degraded, queue, caller, outcome, attempts, item,
                 control, starts, accepted, applied, abandoned>>

\* queue.get() blocks while the queue is empty; None is skipped.
LeaveItThere(q) == q                                  \* mutant
TakeOne(q) == Tail(q)

Get(w) ==
  /\ worker[w] = "get"
  /\ queue # <<>>
  /\ queue' = TakeOne(queue)
  /\ IF Head(queue) = Poison
       THEN /\ worker' = [worker EXCEPT ![w] = "readRunning"]
            /\ UNCHANGED item
       ELSE /\ worker' = [worker EXCEPT ![w] = "execute"]
            /\ item' = [item EXCEPT ![w] = Head(queue)]
  /\ UNCHANGED <<running, degraded, caller, outcome, attempts, control, starts,
                 accepted, applied, abandoned>>

(***************************************************************************)
(* _execute_item(): the transaction commits and the future gets the        *)
(* result; or it rolls back, and after MaxRetries attempts the queue       *)
(* degrades and the future gets the exception.                             *)
(***************************************************************************)
AttemptCommits(w) ==
  /\ worker[w] = "execute"
  /\ attempts' = [attempts EXCEPT ![item[w]] = @ + 1]
  /\ outcome' = [outcome EXCEPT ![item[w]] = "result"]
  /\ applied' = Append(applied, item[w])
  /\ worker' = [worker EXCEPT ![w] = "readRunning"]
  /\ item' = [item EXCEPT ![w] = NoTask]
  /\ UNCHANGED <<running, degraded, queue, caller, control, starts, accepted, abandoned>>

GivesUpLate(n) == n > MaxRetries                      \* mutant
GivesUpEarly(n) == n >= MaxRetries - 1                \* mutant
GivesUp(n) == n >= MaxRetries

AttemptFails(w) ==
  /\ worker[w] = "execute"
  /\ attempts' = [attempts EXCEPT ![item[w]] = @ + 1]
  /\ IF GivesUp(attempts[item[w]] + 1)
       THEN /\ degraded' = TRUE
            /\ outcome' = [outcome EXCEPT ![item[w]] = "exception"]
            /\ worker' = [worker EXCEPT ![w] = "readRunning"]
            /\ item' = [item EXCEPT ![w] = NoTask]
       ELSE UNCHANGED <<degraded, outcome, worker, item>>
  /\ UNCHANGED <<running, queue, caller, control, starts, accepted, applied, abandoned>>

CallerStep(t) == CheckDegraded(t) \/ CheckRunning(t) \/ Put(t)
ControlStep ==
  Start \/ StopClearRunning \/ StopPutPoison \/ StopJoin \/ StopJoinTimesOut
WorkerStep(w) ==
  \/ ReadRunning(w) \/ ReadEmpty(w) \/ Get(w)
  \/ AttemptCommits(w) \/ AttemptFails(w)

Next ==
  \/ \E t \in Tasks : CallerStep(t)
  \/ ControlStep
  \/ \E w \in Workers : WorkerStep(w)

Spec == Init /\ [][Next]_vars

\* The worker is a thread that is never blocked except in queue.get().
FairSpec == Spec /\ \A w \in Workers : WF_vars(WorkerStep(w))

-----------------------------------------------------------------------------
Alive(w) == worker[w] \notin {"unborn", "exited"}
Executing(w) == worker[w] = "execute"
InQueue(t) == \E i \in DOMAIN queue : queue[i] = t

TypeOK ==
  /\ running \in BOOLEAN /\ degraded \in BOOLEAN
  /\ queue \in Seq(Tasks \cup {Poison})
  /\ caller \in [Tasks -> {"start", "checkRunning", "put", "waiting", "refused"}]
  /\ outcome \in [Tasks -> {"none", "pending", "result", "exception"}]
  /\ attempts \in [Tasks -> 0..MaxRetries]
  /\ worker \in [Workers -> {"unborn", "readRunning", "readEmpty", "get", "execute", "exited"}]
  /\ item \in [Workers -> Tasks \cup {NoTask}]
  /\ control \in {"idle", "putPoison", "join"}
  /\ starts \in 0..MaxStarts /\ abandoned \in BOOLEAN
  /\ accepted \in Seq(Tasks) /\ applied \in Seq(Tasks)

(* An unsettled write is in exactly one place: in the queue once, or in the  *)
(* hands of one worker.  A settled or unborn one is in neither: no write is  *)
(* lost, run twice, or run by two workers (WriterQueue._run, _execute_item). *)
PendingIsHeldOnce ==
  /\ \A t \in Tasks :
       outcome[t] = "pending" <=> (InQueue(t) \/ \E w \in Workers : item[w] = t)
  /\ \A w \in Workers : item[w] # NoTask =>
       ~InQueue(item[w]) /\ \A v \in Workers : item[v] = item[w] => v = w
  /\ \A i, j \in DOMAIN queue : queue[i] = queue[j] /\ queue[i] # Poison => i = j

(* The future tells the truth: a write is committed exactly when its future  *)
(* holds a result, and an exception means MaxRetries attempts were rolled    *)
(* back and the queue refuses new work (_execute_item).                      *)
OutcomeIsTruthful ==
  /\ \A t \in Tasks : outcome[t] = "result" <=> \E i \in DOMAIN applied : applied[i] = t
  /\ \A t \in Tasks : outcome[t] = "exception" => attempts[t] = MaxRetries /\ degraded
  /\ degraded => \E t \in Tasks : outcome[t] = "exception"

(* As long as every stop() has seen its worker end, the write path has a     *)
(* single writer: no two worker threads are alive, whatever is put, stopped  *)
(* and started meanwhile (start, stop, _run).                                *)
SingleWriter ==
  ~abandoned => \A v, w \in Workers : Alive(v) /\ Alive(w) => v = w

(* stop() drains: a write that is in the queue while the queue is running    *)
(* gets its future settled even if stop() follows at once, and even if the   *)
(* queue degrades meanwhile.                                                 *)
StopDrains == \A t \in Tasks : (InQueue(t) /\ running) ~> (outcome[t] \in {"result", "exception"})

\* The promise of the queue, of which only the history variables are visible.
Abstract == INSTANCE SerialWriter WITH
  Tasks <- Tasks, accepted <- accepted, outcome <- outcome,
  applied <- applied, abandoned <- abandoned

(* The queue implements the abstract writer: writes are settled once, one at *)
(* a time and in the order they were accepted, until a stop() abandons its   *)
(* worker; from then on still once, and truthfully.                          *)
ImplementsSerialWriter == Abstract!Spec
=============================================================================
