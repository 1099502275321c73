-------------------------- MODULE WriterQueueProofs --------------------------
(***************************************************************************)
(* For any number of callers, attempts and starts: every write is held in  *)
(* one place until its future tells the truth about it, there is a single  *)
(* writer as long as no join has timed out, and the queue implements the   *)
(* abstract SerialWriter.                                                  *)
(***************************************************************************)
EXTENDS WriterQueue, TLAPS

\* A task has a future exactly when its caller has put it; it is given up with
\* its last attempt, so an unsettled one has an attempt left.
FuturesMatchCallers ==
  \A t \in Tasks :
    /\ outcome[t] = "none" <=> caller[t] # "waiting"
    /\ outcome[t] = "none" => attempts[t] = 0
    /\ outcome[t] = "pending" => attempts[t] < MaxRetries

\* A worker has an item in hand exactly while it executes it.
HandsMatchWorkers == \A w \in Workers : item[w] # NoTask <=> worker[w] = "execute"

\* The threads are started one after the other.  Unless a join has timed out,
\* the last one alone may be alive, and not even that one once stop() is over.
ThreadsMatchControl ==
  /\ \A w \in Workers : worker[w] = "unborn" <=> w > starts
  /\ control # "idle" \/ running => starts \in Workers
  /\ running => control = "idle"
  /\ ~abandoned =>
       \A w \in Workers : Alive(w) => w = starts /\ (running \/ control # "idle")

IInv ==
  /\ TypeOK
  /\ FuturesMatchCallers /\ HandsMatchWorkers /\ ThreadsMatchControl
  /\ PendingIsHeldOnce /\ OutcomeIsTruthful

\* The accepted tasks are those that have a future, each accepted once.
AcceptedOnce ==
  /\ \A i \in DOMAIN accepted : outcome[accepted[i]] # "none"
  /\ \A t \in Tasks : outcome[t] # "none" => \E i \in DOMAIN accepted : accepted[i] = t
  /\ \A i, j \in DOMAIN accepted : accepted[i] = accepted[j] => i = j

\* The task s was accepted before the task t.
Before(s, t) ==
  \A i, j \in DOMAIN accepted : accepted[i] = s /\ accepted[j] = t => i < j

\* The queue keeps the order of acceptance, and while there is a single writer
\* the item in its hand was accepted before all that is still in the queue.
QueueKeepsOrder ==
  /\ \A i, j \in DOMAIN queue :
       i < j /\ queue[i] # Poison /\ queue[j] # Poison => Before(queue[i], queue[j])
  /\ ~abandoned =>
       \A w \in Workers, i \in DOMAIN queue :
         item[w] # NoTask /\ queue[i] # Poison => Before(item[w], queue[i])

OrderInv == AcceptedOnce /\ QueueKeepsOrder

-----------------------------------------------------------------------------
(* The constants, one by one.                                                *)
LEMMA Constants ==
  /\ MaxRetries \in Nat /\ MaxRetries >= 1 /\ MaxStarts \in Nat
  /\ Workers = 1..MaxStarts
  /\ Poison \notin Tasks /\ NoTask \notin Tasks /\ Poison # NoTask
  BY WriterQueueAssumption DEF WriterQueueAssumption, Workers

(* A commit adds the committed task, and only that, to those applied.        *)
LEMMA AppliedGrows ==
  ASSUME applied \in Seq(Tasks), NEW x \in Tasks, applied' = Append(applied, x)
  PROVE  \A t \in Tasks :
           (\E i \in DOMAIN applied' : applied'[i] = t)
             <=> (t = x \/ \E i \in DOMAIN applied : applied[i] = t)
<1>1. /\ Len(applied) \in Nat /\ DOMAIN applied = 1..Len(applied)
      /\ DOMAIN applied' = 1..(Len(applied) + 1)
      /\ \A i \in 1..Len(applied) : applied'[i] = applied[i]
      /\ applied'[Len(applied) + 1] = x
  OBVIOUS
<1>2. \A i \in 1..(Len(applied) + 1) : i = Len(applied) + 1 \/ i \in 1..Len(applied)
  BY <1>1
<1>3. /\ Len(applied) + 1 \in 1..(Len(applied) + 1)
      /\ \A i \in 1..Len(applied) : i \in 1..(Len(applied) + 1)
  BY <1>1
<1>4. QED BY <1>1, <1>2, <1>3, Zenon

(* Taking an item leaves the others in their order.                          *)
LEMMA TakeOneShifts ==
  ASSUME NEW S, NEW q \in Seq(S), q # <<>>
  PROVE  /\ Len(q) \in Nat \ {0} /\ DOMAIN q = 1..Len(q)
         /\ Head(q) \in S /\ Head(q) = q[1]
         /\ TakeOne(q) \in Seq(S)
         /\ DOMAIN TakeOne(q) = 1..(Len(q) - 1)
         /\ \A i \in 1..(Len(q) - 1) : TakeOne(q)[i] = q[i + 1]
  BY DEF TakeOne

(* Nothing has been submitted and no thread started.                         *)
LEMMA InitHolds == Init => IInv
<1> SUFFICES ASSUME Init PROVE IInv
  OBVIOUS
<1> USE Constants DEF Init
<1>1. TypeOK
  <2>1. running \in BOOLEAN /\ degraded \in BOOLEAN /\ abandoned \in BOOLEAN
    OBVIOUS
  <2>2. /\ queue \in Seq(Tasks \cup {Poison})
        /\ accepted \in Seq(Tasks) /\ applied \in Seq(Tasks)
    OBVIOUS
  <2>3. attempts \in [Tasks -> 0..MaxRetries] /\ starts \in 0..MaxStarts
    OBVIOUS
  <2>4. QED BY <2>1, <2>2, <2>3 DEF TypeOK
<1>2. FuturesMatchCallers /\ HandsMatchWorkers
  BY DEF FuturesMatchCallers, HandsMatchWorkers
<1>3. ThreadsMatchControl
  BY DEF ThreadsMatchControl, Alive
<1>4. PendingIsHeldOnce
  BY DEF PendingIsHeldOnce, InQueue
<1>5. OutcomeIsTruthful
  BY DEF OutcomeIsTruthful
<1>6. QED BY <1>1, <1>2, <1>3, <1>4, <1>5 DEF IInv

-----------------------------------------------------------------------------
(* What a step has to leave alone for the parts of the invariant that are    *)
(* about the items, the futures and the threads.                             *)
LEMMA ItemsFrame ==
  ASSUME PendingIsHeldOnce, UNCHANGED <<queue, outcome, item>>
  PROVE  PendingIsHeldOnce'
  BY DEF PendingIsHeldOnce, InQueue

LEMMA OutcomeFrame ==
  ASSUME OutcomeIsTruthful, UNCHANGED <<outcome, attempts, degraded, applied>>
  PROVE  OutcomeIsTruthful'
  BY DEF OutcomeIsTruthful

LEMMA FuturesFrame ==
  ASSUME FuturesMatchCallers, UNCHANGED <<caller, outcome, attempts>>
  PROVE  FuturesMatchCallers'
  BY DEF FuturesMatchCallers

LEMMA HandsFrame ==
  ASSUME HandsMatchWorkers, UNCHANGED <<worker, item>>
  PROVE  HandsMatchWorkers'
  BY DEF HandsMatchWorkers

LEMMA ThreadsFrame ==
  ASSUME ThreadsMatchControl, UNCHANGED <<running, worker, control, starts, abandoned>>
  PROVE  ThreadsMatchControl'
  BY DEF ThreadsMatchControl, Alive

-----------------------------------------------------------------------------
(* submit() up to the put only moves its caller.                             *)
LEMMA ChecksKeep ==
  ASSUME IInv, NEW t \in Tasks, CheckDegraded(t) \/ CheckRunning(t)
  PROVE  IInv'
<1> USE DEF CheckDegraded, CheckRunning
<1>1. TypeOK'
  BY DEF IInv, TypeOK
<1>2. FuturesMatchCallers'
  BY DEF IInv, TypeOK, FuturesMatchCallers
<1>3. HandsMatchWorkers' /\ ThreadsMatchControl'
  BY HandsFrame, ThreadsFrame DEF IInv
<1>4. PendingIsHeldOnce' /\ OutcomeIsTruthful'
  BY ItemsFrame, OutcomeFrame DEF IInv
<1>5. QED BY <1>1, <1>2, <1>3, <1>4 DEF IInv

(* The put gives the task its future and one place in the queue.             *)
LEMMA PutKeeps ==
  ASSUME IInv, NEW t \in Tasks, Put(t)
  PROVE  IInv'
<1> USE Constants
<1>1. /\ queue' \in Seq(Tasks \cup {Poison}) /\ DOMAIN queue' = 1..(Len(queue) + 1)
      /\ \A i \in 1..Len(queue) : queue'[i] = queue[i]
      /\ queue'[Len(queue) + 1] = t
      /\ Len(queue) \in Nat /\ DOMAIN queue = 1..Len(queue)
  <2>1. /\ queue \in Seq(Tasks \cup {Poison}) /\ t \in Tasks \cup {Poison}
        /\ queue' = PutLast(queue, t)
    BY DEF Put, IInv, TypeOK
  <2>2. QED BY <2>1 DEF PutLast
<1>2. outcome[t] = "none"
  BY DEF IInv, FuturesMatchCallers, Put
<1>3. TypeOK'
  BY <1>1 DEF IInv, TypeOK, Put
<1>4. FuturesMatchCallers'
  BY <1>2 DEF IInv, TypeOK, FuturesMatchCallers, Put
<1>5. HandsMatchWorkers' /\ ThreadsMatchControl'
  BY HandsFrame, ThreadsFrame DEF IInv, Put
<1>6. PendingIsHeldOnce'
  <2>1. ~InQueue(t) /\ \A w \in Workers : item[w] # t
    BY <1>2 DEF IInv, PendingIsHeldOnce
  <2>2. \A s \in Tasks : InQueue(s)' <=> InQueue(s) \/ s = t
    BY <1>1 DEF InQueue
  <2>3. outcome' = [outcome EXCEPT ![t] = "pending"] /\ item' = item
    BY DEF Put
  <2>4. \A s \in Tasks :
          outcome'[s] = "pending" <=> (InQueue(s)' \/ \E w \in Workers : item'[w] = s)
    BY <2>1, <2>2, <2>3 DEF IInv, TypeOK, PendingIsHeldOnce
  <2>5. \A w \in Workers : item'[w] # NoTask =>
          ~InQueue(item[w])' /\ \A v \in Workers : item'[v] = item'[w] => v = w
    BY <2>1, <2>2, <2>3 DEF IInv, TypeOK, PendingIsHeldOnce
  <2>6. \A i, j \in DOMAIN queue' : queue'[i] = queue'[j] /\ queue'[i] # Poison => i = j
    BY <1>1, <2>1 DEF IInv, PendingIsHeldOnce, InQueue
  <2>7. QED BY <2>3, <2>4, <2>5, <2>6 DEF PendingIsHeldOnce, InQueue
<1>7. OutcomeIsTruthful'
  BY <1>2 DEF IInv, TypeOK, OutcomeIsTruthful, Put
<1>8. QED BY <1>3, <1>4, <1>5, <1>6, <1>7 DEF IInv

-----------------------------------------------------------------------------
(* start() starts the next thread while none is alive, unless a join has     *)
(* timed out.                                                                *)
LEMMA StartKeeps ==
  ASSUME IInv, Start
  PROVE  IInv'
<1> USE Constants DEF Start
<1>1. TypeOK'
  BY DEF IInv, TypeOK
<1>2. FuturesMatchCallers' /\ PendingIsHeldOnce' /\ OutcomeIsTruthful'
  BY FuturesFrame, ItemsFrame, OutcomeFrame DEF IInv
<1>3. HandsMatchWorkers'
  BY DEF IInv, TypeOK, HandsMatchWorkers, ThreadsMatchControl
<1>4. ThreadsMatchControl'
  BY DEF IInv, TypeOK, ThreadsMatchControl, Alive
<1>5. QED BY <1>1, <1>2, <1>3, <1>4 DEF IInv

(* stop() clears the flag and later forgets the thread, which has ended or   *)
(* is abandoned.                                                             *)
LEMMA StopKeeps ==
  ASSUME IInv, StopClearRunning \/ StopJoin \/ StopJoinTimesOut
  PROVE  IInv'
<1> USE DEF StopClearRunning, StopJoin, StopJoinTimesOut, JoinReturns
<1>1. TypeOK'
  BY DEF IInv, TypeOK
<1>2. FuturesMatchCallers' /\ PendingIsHeldOnce' /\ OutcomeIsTruthful' /\ HandsMatchWorkers'
  BY FuturesFrame, ItemsFrame, OutcomeFrame, HandsFrame DEF IInv
<1>3. ThreadsMatchControl'
  BY Constants DEF IInv, TypeOK, ThreadsMatchControl, Alive
<1>4. QED BY <1>1, <1>2, <1>3 DEF IInv

(* The poison item is nobody's write.                                        *)
LEMMA PoisonKeeps ==
  ASSUME IInv, StopPutPoison
  PROVE  IInv'
<1> USE Constants
<1>1. /\ queue' \in Seq(Tasks \cup {Poison}) /\ DOMAIN queue' = 1..(Len(queue) + 1)
      /\ \A i \in 1..Len(queue) : queue'[i] = queue[i]
      /\ queue'[Len(queue) + 1] = Poison
      /\ Len(queue) \in Nat /\ DOMAIN queue = 1..Len(queue)
  <2>1. /\ queue \in Seq(Tasks \cup {Poison}) /\ Poison \in Tasks \cup {Poison}
        /\ queue' = PutLast(queue, Poison)
    BY DEF StopPutPoison, IInv, TypeOK
  <2>2. QED BY <2>1 DEF PutLast
<1>2. TypeOK'
  BY <1>1 DEF IInv, TypeOK, StopPutPoison
<1>3. FuturesMatchCallers' /\ OutcomeIsTruthful' /\ HandsMatchWorkers'
  BY FuturesFrame, OutcomeFrame, HandsFrame DEF IInv, StopPutPoison
<1>4. ThreadsMatchControl'
  BY DEF IInv, TypeOK, ThreadsMatchControl, Alive, StopPutPoison
<1>5. PendingIsHeldOnce'
  <2>1. \A s \in Tasks : InQueue(s)' <=> InQueue(s)
    BY <1>1 DEF InQueue
  <2>2. outcome' = outcome /\ item' = item
    BY DEF StopPutPoison
  <2>3. \A i, j \in DOMAIN queue' : queue'[i] = queue'[j] /\ queue'[i] # Poison => i = j
    BY <1>1 DEF IInv, PendingIsHeldOnce
  <2>4. \A w \in Workers : item'[w] # NoTask =>
          ~InQueue(item[w])' /\ \A v \in Workers : item'[v] = item'[w] => v = w
    BY <2>1, <2>2 DEF IInv, TypeOK, PendingIsHeldOnce
  <2>5. \A s \in Tasks :
          outcome'[s] = "pending" <=> (InQueue(s)' \/ \E w \in Workers : item'[w] = s)
    BY <2>1, <2>2 DEF IInv, PendingIsHeldOnce
  <2>6. QED BY <2>2, <2>3, <2>4, <2>5 DEF PendingIsHeldOnce, InQueue
<1>6. QED BY <1>2, <1>3, <1>4, <1>5 DEF IInv

-----------------------------------------------------------------------------
(* The reads of the loop condition move the worker, and a thread that ends   *)
(* is not alive any more.                                                    *)
LEMMA ReadsKeep ==
  ASSUME IInv, NEW w \in Workers, ReadRunning(w) \/ ReadEmpty(w)
  PROVE  IInv'
<1> USE DEF ReadRunning, ReadEmpty
<1>1. TypeOK'
  BY DEF IInv, TypeOK
<1>2. FuturesMatchCallers' /\ PendingIsHeldOnce' /\ OutcomeIsTruthful'
  BY FuturesFrame, ItemsFrame, OutcomeFrame DEF IInv
<1>3. HandsMatchWorkers'
  BY DEF IInv, TypeOK, HandsMatchWorkers
<1>4. ThreadsMatchControl'
  BY DEF IInv, TypeOK, ThreadsMatchControl, Alive
<1>5. QED BY <1>1, <1>2, <1>3, <1>4 DEF IInv

(* The get moves the oldest item from the queue into one hand; None is       *)
(* dropped.                                                                  *)
LEMMA GetKeeps ==
  ASSUME IInv, NEW w \in Workers, Get(w)
  PROVE  IInv'
<1> USE Constants
<1>1. /\ queue' \in Seq(Tasks \cup {Poison}) /\ DOMAIN queue' = 1..(Len(queue) - 1)
      /\ \A i \in 1..(Len(queue) - 1) : queue'[i] = queue[i + 1]
      /\ Head(queue) \in Tasks \cup {Poison} /\ Head(queue) = queue[1]
      /\ Len(queue) \in Nat \ {0} /\ DOMAIN queue = 1..Len(queue)
  <2>1. /\ queue \in Seq(Tasks \cup {Poison}) /\ queue # <<>>
        /\ queue' = TakeOne(queue)
    BY DEF Get, IInv, TypeOK
  <2>2. QED BY <2>1, TakeOneShifts
<1>2. item[w] = NoTask
  BY DEF IInv, HandsMatchWorkers, Get
<1>3. TypeOK'
  BY <1>1, ZenonT(40) DEF IInv, TypeOK, Get
<1>4. FuturesMatchCallers' /\ OutcomeIsTruthful'
  BY FuturesFrame, OutcomeFrame DEF IInv, Get
<1>5. HandsMatchWorkers'
  BY <1>1, <1>2 DEF IInv, TypeOK, HandsMatchWorkers, Get
<1>6. ThreadsMatchControl'
  BY DEF IInv, TypeOK, ThreadsMatchControl, Alive, Get
<1>7. PendingIsHeldOnce'
  <2>1. \A s \in Tasks : InQueue(s)' <=> InQueue(s) /\ s # queue[1]
    <3>1. \A i \in 2..Len(queue) : queue[i] # queue[1] \/ queue[i] = Poison
      BY <1>1 DEF IInv, PendingIsHeldOnce
    <3>2. \A i \in 2..Len(queue) : i - 1 \in DOMAIN queue' /\ queue'[i - 1] = queue[i]
      BY <1>1
    <3>3. \A i \in DOMAIN queue' : i + 1 \in 2..Len(queue) /\ queue'[i] = queue[i + 1]
      BY <1>1
    <3>4. QED BY <1>1, <3>1, <3>2, <3>3, SMTT(30) DEF InQueue
  <2>2. \A i, j \in DOMAIN queue' : queue'[i] = queue'[j] /\ queue'[i] # Poison => i = j
    <3> SUFFICES ASSUME NEW i \in DOMAIN queue', NEW j \in DOMAIN queue',
                        queue'[i] = queue'[j], queue'[i] # Poison
                 PROVE  i = j
      OBVIOUS
    <3>1. /\ i + 1 \in DOMAIN queue /\ j + 1 \in DOMAIN queue
          /\ queue[i + 1] = queue[j + 1] /\ queue[i + 1] # Poison
      BY <1>1
    <3>2. i + 1 = j + 1
      BY <3>1 DEF IInv, PendingIsHeldOnce
    <3>3. QED BY <1>1, <3>2
  <2>3. CASE queue[1] = Poison
    <3>1. outcome' = outcome /\ item' = item
      BY <1>1, <2>3 DEF Get
    <3>2. \A s \in Tasks : s # queue[1]
      BY <2>3
    <3>3. \A s \in Tasks : InQueue(s)' <=> InQueue(s)
      BY <2>1, <3>2
    <3>4. \A s \in Tasks :
            outcome'[s] = "pending" <=> (InQueue(s)' \/ \E v \in Workers : item'[v] = s)
      BY <3>1, <3>3 DEF IInv, PendingIsHeldOnce
    <3>5. \A v \in Workers : item'[v] # NoTask =>
            ~InQueue(item[v])' /\ \A u \in Workers : item'[u] = item'[v] => u = v
      <4> SUFFICES ASSUME NEW v \in Workers, item'[v] # NoTask
                   PROVE  ~InQueue(item[v])' /\ \A u \in Workers : item'[u] = item'[v] => u = v
        OBVIOUS
      <4>1. PICK s \in Tasks : s = item[v] /\ s = item'[v]
        BY <3>1 DEF IInv, TypeOK
      <4>2. ~InQueue(s) /\ \A u \in Workers : item[u] = s => u = v
        BY <3>1, <4>1 DEF IInv, PendingIsHeldOnce
      <4>3. ~InQueue(s)'
        BY <3>3, <4>2
      <4>4. ~InQueue(item[v])'
        BY <4>1, <4>3 DEF InQueue
      <4>5. QED BY <3>1, <4>1, <4>2, <4>4
    <3>6. QED BY <2>2, <3>4, <3>5 DEF PendingIsHeldOnce
  <2>4. CASE queue[1] # Poison
    <3>1. outcome' = outcome /\ item' = [item EXCEPT ![w] = queue[1]]
      BY <1>1, <2>4 DEF Get
    <3>2. queue[1] \in Tasks /\ InQueue(queue[1])
      BY <1>1, <2>4 DEF InQueue
    <3>3. \A v \in Workers : item[v] # queue[1]
      BY <3>2 DEF IInv, PendingIsHeldOnce
    <3>4. \A s \in Tasks :
            outcome'[s] = "pending" <=> (InQueue(s)' \/ \E v \in Workers : item'[v] = s)
      BY <1>2, <2>1, <3>1, <3>2 DEF IInv, TypeOK, PendingIsHeldOnce
    <3>5. \A v \in Workers : item'[v] # NoTask =>
            ~InQueue(item[v])' /\ \A u \in Workers : item'[u] = item'[v] => u = v
      BY <2>1, <3>1, <3>2, <3>3, SMTT(30) DEF IInv, TypeOK, PendingIsHeldOnce
    <3>6. QED BY <2>2, <3>4, <3>5 DEF PendingIsHeldOnce
  <2>5. QED BY <2>3, <2>4
<1>8. QED BY <1>3, <1>4, <1>5, <1>6, <1>7 DEF IInv

-----------------------------------------------------------------------------
(* A task that leaves the hand of its worker leaves it for good: it is in no *)
(* queue and in no other hand, and the future tells what became of it.       *)
LEMMA SettledItem ==
  ASSUME IInv, NEW w \in Workers, worker[w] = "execute",
         NEW result \in {"result", "exception"},
         outcome' = [outcome EXCEPT ![item[w]] = result],
         item' = [item EXCEPT ![w] = NoTask], queue' = queue
  PROVE  PendingIsHeldOnce'
<1> USE Constants
<1>1. item[w] \in Tasks /\ ~InQueue(item[w])
  BY DEF IInv, TypeOK, HandsMatchWorkers, PendingIsHeldOnce
<1>2. \A v \in Workers : item[v] = item[w] => v = w
  BY <1>1 DEF IInv, PendingIsHeldOnce
<1>3. \A t \in Tasks : InQueue(t)' <=> InQueue(t)
  BY DEF InQueue
<1>4. \A t \in Tasks :
        outcome'[t] = "pending" <=> (InQueue(t)' \/ \E v \in Workers : item'[v] = t)
  BY <1>1, <1>2, <1>3 DEF IInv, TypeOK, PendingIsHeldOnce
<1>5. \A v \in Workers : item'[v] # NoTask =>
        ~InQueue(item[v])' /\ \A u \in Workers : item'[u] = item'[v] => u = v
  BY <1>3 DEF IInv, TypeOK, PendingIsHeldOnce
<1>6. \A i, j \in DOMAIN queue' : queue'[i] = queue'[j] /\ queue'[i] # Poison => i = j
  BY DEF IInv, PendingIsHeldOnce
<1>7. QED BY <1>4, <1>5, <1>6 DEF PendingIsHeldOnce

(* A worker executes an unsettled task that has an attempt left.             *)
LEMMA ExecutedIsPending ==
  ASSUME IInv, NEW w \in Workers, worker[w] = "execute"
  PROVE  /\ item[w] \in Tasks /\ outcome[item[w]] = "pending"
         /\ attempts[item[w]] \in 0..MaxRetries /\ attempts[item[w]] < MaxRetries
<1>1. item[w] \in Tasks
  BY DEF IInv, TypeOK, HandsMatchWorkers
<1>2. outcome[item[w]] = "pending"
  BY <1>1 DEF IInv, PendingIsHeldOnce
<1>3. QED BY <1>1, <1>2 DEF IInv, TypeOK, FuturesMatchCallers

(* A commit settles the task with its result.                                *)
LEMMA CommitKeeps ==
  ASSUME IInv, NEW w \in Workers, AttemptCommits(w)
  PROVE  IInv'
<1> USE Constants DEF AttemptCommits
<1>1. /\ item[w] \in Tasks /\ outcome[item[w]] = "pending"
      /\ attempts[item[w]] \in 0..MaxRetries /\ attempts[item[w]] < MaxRetries
  BY ExecutedIsPending
<1>3. TypeOK'
  BY <1>1 DEF IInv, TypeOK
<1>4. FuturesMatchCallers'
  BY <1>1 DEF IInv, TypeOK, FuturesMatchCallers
<1>5. HandsMatchWorkers'
  BY DEF IInv, TypeOK, HandsMatchWorkers
<1>6. ThreadsMatchControl'
  BY DEF IInv, TypeOK, ThreadsMatchControl, Alive
<1>7. PendingIsHeldOnce'
  BY SettledItem
<1>8. OutcomeIsTruthful'
  <2>1. \A t \in Tasks : outcome'[t] = IF t = item[w] THEN "result" ELSE outcome[t]
    BY DEF IInv, TypeOK
  <2>2. \A t \in Tasks : t # item[w] => attempts'[t] = attempts[t]
    BY DEF IInv, TypeOK
  <2>3. \A t \in Tasks :
          (\E i \in DOMAIN applied' : applied'[i] = t)
            <=> (t = item[w] \/ \E i \in DOMAIN applied : applied[i] = t)
    <3>1. applied \in Seq(Tasks) /\ applied' = Append(applied, item[w])
      BY DEF IInv, TypeOK
    <3>2. QED BY <1>1, <3>1, AppliedGrows
  <2>4. degraded' = degraded
    OBVIOUS
  <2>5. \A t \in Tasks : outcome'[t] = "result" <=> \E i \in DOMAIN applied' : applied'[i] = t
    BY <2>1, <2>3 DEF IInv, OutcomeIsTruthful
  <2>6. \A t \in Tasks : outcome'[t] = "exception" => attempts'[t] = MaxRetries /\ degraded'
    BY <2>1, <2>2, <2>4 DEF IInv, OutcomeIsTruthful
  <2>7. degraded' => \E t \in Tasks : outcome'[t] = "exception"
    BY <1>1, <2>1, <2>4 DEF IInv, OutcomeIsTruthful
  <2>8. QED BY <2>5, <2>6, <2>7 DEF OutcomeIsTruthful
<1>9. QED BY <1>3, <1>4, <1>5, <1>6, <1>7, <1>8 DEF IInv

(* A rollback leaves the task in the hand of its worker, or, when it was the *)
(* last attempt, settles it with the exception and degrades the queue.       *)
LEMMA RollbackKeeps ==
  ASSUME IInv, NEW w \in Workers, AttemptFails(w)
  PROVE  IInv'
<1> USE Constants DEF AttemptFails, GivesUp
<1>1. /\ worker[w] = "execute" /\ item[w] \in Tasks /\ outcome[item[w]] = "pending"
      /\ attempts[item[w]] \in 0..MaxRetries /\ attempts[item[w]] < MaxRetries
  BY ExecutedIsPending
<1>2. \A t \in Tasks : attempts'[t] = IF t = item[w] THEN attempts[t] + 1 ELSE attempts[t]
  BY DEF IInv, TypeOK
<1>3. CASE attempts[item[w]] + 1 >= MaxRetries
  <2> /\ degraded' = TRUE
      /\ outcome' = [outcome EXCEPT ![item[w]] = "exception"]
      /\ worker' = [worker EXCEPT ![w] = "readRunning"]
      /\ item' = [item EXCEPT ![w] = NoTask]
    BY <1>3
  <2>1. TypeOK'
    <3>1. attempts' \in [Tasks -> 0..MaxRetries]
      BY <1>1, <1>2 DEF IInv, TypeOK
    <3>2. degraded' \in BOOLEAN
      OBVIOUS
    <3>3. QED BY <1>1, <3>1, <3>2 DEF IInv, TypeOK
  <2>2. FuturesMatchCallers'
    BY <1>1, <1>2 DEF IInv, TypeOK, FuturesMatchCallers
  <2>3. HandsMatchWorkers'
    BY DEF IInv, TypeOK, HandsMatchWorkers
  <2>4. ThreadsMatchControl'
    BY DEF IInv, TypeOK, ThreadsMatchControl, Alive
  <2>5. PendingIsHeldOnce'
    BY <1>3, SettledItem
  <2>6. OutcomeIsTruthful'
    <3>1. \A t \in Tasks : outcome'[t] = IF t = item[w] THEN "exception" ELSE outcome[t]
      BY <1>3 DEF IInv, TypeOK
    <3>2. attempts'[item[w]] = MaxRetries
      BY <1>1, <1>2, <1>3
    <3>3. degraded' = TRUE /\ applied' = applied
      BY <1>3
    <3>4. QED BY <1>1, <1>2, <3>1, <3>2, <3>3 DEF IInv, OutcomeIsTruthful
  <2>7. QED BY <2>1, <2>2, <2>3, <2>4, <2>5, <2>6 DEF IInv
<1>4. CASE ~(attempts[item[w]] + 1 >= MaxRetries)
  <2>1. TypeOK'
    BY <1>1, <1>4 DEF IInv, TypeOK
  <2>2. FuturesMatchCallers'
    BY <1>1, <1>2, <1>4 DEF IInv, TypeOK, FuturesMatchCallers
  <2>3. HandsMatchWorkers' /\ ThreadsMatchControl' /\ PendingIsHeldOnce'
    BY <1>4, HandsFrame, ThreadsFrame, ItemsFrame DEF IInv
  <2>4. OutcomeIsTruthful'
    BY <1>1, <1>2, <1>4 DEF IInv, OutcomeIsTruthful
  <2>5. QED BY <2>1, <2>2, <2>3, <2>4 DEF IInv
<1>5. QED BY <1>3, <1>4

-----------------------------------------------------------------------------
(* Every step keeps the invariant.                                           *)
LEMMA NextKeeps == IInv /\ [Next]_vars => IInv'
<1> SUFFICES ASSUME IInv, [Next]_vars PROVE IInv'
  OBVIOUS
<1>1. ASSUME NEW t \in Tasks, CallerStep(t) PROVE IInv'
  BY <1>1, ChecksKeep, PutKeeps DEF CallerStep
<1>2. CASE ControlStep
  BY <1>2, StartKeeps, StopKeeps, PoisonKeeps DEF ControlStep
<1>3. ASSUME NEW w \in Workers, WorkerStep(w) PROVE IInv'
  BY <1>3, ReadsKeep, GetKeeps, CommitKeeps, RollbackKeeps DEF WorkerStep
<1>4. CASE UNCHANGED vars
  <2>1. TypeOK'
    BY <1>4 DEF IInv, TypeOK, vars
  <2>2. QED
    BY <1>4, <2>1, FuturesFrame, HandsFrame, ThreadsFrame, ItemsFrame, OutcomeFrame
       DEF IInv, vars
<1>5. QED BY <1>1, <1>2, <1>3, <1>4 DEF Next

LEMMA Invariant == Spec => []IInv
  BY InitHolds, NextKeeps, PTL DEF Spec

(* The variables of the queue and its threads keep their types; above all no *)
(* write is attempted more than MaxRetries times (_execute_item).            *)
THEOREM TypeCorrect == Spec => []TypeOK
<1>1. IInv => TypeOK
  BY DEF IInv
<1>2. QED BY Invariant, <1>1, PTL

(* No accepted write is lost, put twice or executed by two workers.          *)
THEOREM WritesAreHeldOnce == Spec => []PendingIsHeldOnce
<1>1. IInv => PendingIsHeldOnce
  BY DEF IInv
<1>2. QED BY Invariant, <1>1, PTL

(* What the future of a write says is what became of the write.              *)
THEOREM FuturesAreTruthful == Spec => []OutcomeIsTruthful
<1>1. IInv => OutcomeIsTruthful
  BY DEF IInv
<1>2. QED BY Invariant, <1>1, PTL

(* As long as no join has timed out one worker at most is alive, however     *)
(* often the queue is stopped and started.                                   *)
THEOREM WriterIsSingle == Spec => []SingleWriter
<1>1. IInv => SingleWriter
  BY DEF IInv, ThreadsMatchControl, SingleWriter
<1>2. QED BY Invariant, <1>1, PTL

-----------------------------------------------------------------------------
(***************************************************************************)
(* The refinement of SerialWriter.                                         *)
(***************************************************************************)
(* A step that accepts nothing and creates no future keeps the record of     *)
(* what was accepted.                                                        *)
LEMMA AcceptedFrame ==
  ASSUME TypeOK, AcceptedOnce, accepted' = accepted,
         \A t \in Tasks : outcome'[t] = "none" <=> outcome[t] = "none"
  PROVE  AcceptedOnce'
<1>1. \A i \in DOMAIN accepted : accepted[i] \in Tasks
  BY DEF TypeOK
<1>2. QED BY <1>1 DEF AcceptedOnce

(* A step that neither puts nor takes an item keeps the order, as long as no *)
(* worker gets an item and no timed out join is forgotten.                   *)
LEMMA OrderFrame ==
  ASSUME QueueKeepsOrder, UNCHANGED <<queue, accepted>>, abandoned => abandoned',
         \A w \in Workers : item'[w] \in {item[w], NoTask}
  PROVE  QueueKeepsOrder'
  BY DEF QueueKeepsOrder, Before

(* The put accepts a task that was not accepted before, behind all others.   *)
LEMMA PutKeepsOrder ==
  ASSUME IInv, OrderInv, NEW t \in Tasks, Put(t)
  PROVE  OrderInv'
<1> USE Constants
<1>1. /\ DOMAIN queue' = 1..(Len(queue) + 1)
      /\ \A i \in 1..Len(queue) : queue'[i] = queue[i]
      /\ queue'[Len(queue) + 1] = t
      /\ Len(queue) \in Nat /\ DOMAIN queue = 1..Len(queue)
  <2>1. queue \in Seq(Tasks \cup {Poison}) /\ queue' = PutLast(queue, t)
    BY DEF Put, IInv, TypeOK
  <2>2. QED BY <2>1 DEF PutLast
<1>2. /\ DOMAIN accepted' = 1..(Len(accepted) + 1)
      /\ \A i \in 1..Len(accepted) : accepted'[i] = accepted[i]
      /\ accepted'[Len(accepted) + 1] = t
      /\ Len(accepted) \in Nat /\ DOMAIN accepted = 1..Len(accepted)
      /\ \A i \in 1..Len(accepted) : accepted[i] \in Tasks
  BY DEF Put, IInv, TypeOK
<1>3. \A i \in DOMAIN accepted' :
        i = Len(accepted) + 1 \/ (i \in DOMAIN accepted /\ accepted'[i] = accepted[i])
  <2>1. \A i \in 1..(Len(accepted) + 1) : i = Len(accepted) + 1 \/ i \in 1..Len(accepted)
    BY <1>2
  <2>2. QED BY <1>2, <2>1
<1>4. outcome[t] = "none" /\ \A s \in Tasks : outcome'[s] = IF s = t THEN "pending" ELSE outcome[s]
  BY DEF IInv, TypeOK, FuturesMatchCallers, Put
<1>5. \A i \in DOMAIN accepted : accepted[i] # t
  BY <1>4 DEF OrderInv, AcceptedOnce
<1>6. \A i \in DOMAIN queue : queue[i] # t
  BY <1>4 DEF IInv, PendingIsHeldOnce, InQueue
<1>7. \A w \in Workers : item[w] # t
  BY <1>4 DEF IInv, PendingIsHeldOnce
<1>8. AcceptedOnce'
  <2>1. \A i \in DOMAIN accepted' : outcome'[accepted'[i]] # "none"
    BY <1>2, <1>3, <1>4 DEF OrderInv, AcceptedOnce
  <2>2. \A s \in Tasks : outcome'[s] # "none" => \E i \in DOMAIN accepted' : accepted'[i] = s
    <3>1. Len(accepted) + 1 \in DOMAIN accepted' /\ \A i \in DOMAIN accepted : i \in DOMAIN accepted'
      BY <1>2
    <3>2. QED BY <1>2, <1>4, <3>1 DEF OrderInv, AcceptedOnce
  <2>3. \A i, j \in DOMAIN accepted' : accepted'[i] = accepted'[j] => i = j
    BY <1>2, <1>3, <1>5 DEF OrderInv, AcceptedOnce
  <2>4. QED BY <2>1, <2>2, <2>3 DEF AcceptedOnce
<1>9. ASSUME NEW r, NEW s, r # t, Before(r, s) \/ s = t
      PROVE  Before(r, s)'
  BY <1>2, <1>3, <1>5, <1>9 DEF Before
<1>10. \A i \in DOMAIN queue' :
         (i = Len(queue) + 1 /\ queue'[i] = t) \/ (i \in DOMAIN queue /\ queue'[i] = queue[i])
  <2>1. \A i \in 1..(Len(queue) + 1) : i = Len(queue) + 1 \/ i \in 1..Len(queue)
    BY <1>1
  <2>2. QED BY <1>1, <2>1
<1>11. QueueKeepsOrder'
  <2>1. ASSUME NEW i \in DOMAIN queue', NEW j \in DOMAIN queue',
               i < j, queue'[i] # Poison, queue'[j] # Poison
        PROVE  Before(queue[i], queue[j])'
    <3>1. i \in DOMAIN queue /\ queue'[i] = queue[i] /\ queue[i] # t
      BY <1>1, <1>6, <2>1
    <3>2. queue'[j] = t \/ Before(queue[i], queue'[j])
      BY <1>10, <2>1, <3>1 DEF OrderInv, QueueKeepsOrder
    <3>3. QED BY <1>9, <3>1, <3>2
  <2>2. ASSUME ~abandoned', NEW w \in Workers, NEW i \in DOMAIN queue',
               item'[w] # NoTask, queue'[i] # Poison
        PROVE  Before(item[w], queue[i])'
    <3>1. item'[w] = item[w] /\ item[w] # t /\ ~abandoned
      BY <1>7, <2>2 DEF Put
    <3>2. queue'[i] = t \/ Before(item[w], queue'[i])
      BY <1>10, <2>2, <3>1 DEF OrderInv, QueueKeepsOrder
    <3>3. QED BY <1>9, <3>1, <3>2
  <2>3. QED BY <2>1, <2>2 DEF QueueKeepsOrder
<1>12. QED BY <1>8, <1>11 DEF OrderInv

(* The poison item has no place in the order.                                *)
LEMMA PoisonKeepsOrder ==
  ASSUME IInv, OrderInv, StopPutPoison
  PROVE  OrderInv'
<1>1. AcceptedOnce'
  BY AcceptedFrame DEF IInv, OrderInv, StopPutPoison
<1>2. \A i \in DOMAIN queue' :
        queue'[i] = Poison \/ (i \in DOMAIN queue /\ queue'[i] = queue[i])
  <2>1. /\ DOMAIN queue' = 1..(Len(queue) + 1)
        /\ \A i \in 1..Len(queue) : queue'[i] = queue[i]
        /\ queue'[Len(queue) + 1] = Poison
        /\ Len(queue) \in Nat /\ DOMAIN queue = 1..Len(queue)
    <3>1. queue \in Seq(Tasks \cup {Poison}) /\ queue' = PutLast(queue, Poison)
      BY DEF StopPutPoison, IInv, TypeOK
    <3>2. QED BY <3>1 DEF PutLast
  <2>2. \A i \in 1..(Len(queue) + 1) : i = Len(queue) + 1 \/ i \in 1..Len(queue)
    BY <2>1
  <2>3. QED BY <2>1, <2>2
<1>3. QueueKeepsOrder'
  BY <1>2 DEF OrderInv, QueueKeepsOrder, Before, StopPutPoison
<1>4. QED BY <1>1, <1>3 DEF OrderInv

(* What the worker takes was accepted before all that it leaves; unless a    *)
(* join has timed out no other worker has an item in hand.                   *)
LEMMA GetKeepsOrder ==
  ASSUME IInv, OrderInv, NEW w \in Workers, Get(w)
  PROVE  OrderInv'
<1>1. AcceptedOnce'
  BY AcceptedFrame DEF IInv, OrderInv, Get
<1>2. /\ DOMAIN queue' = 1..(Len(queue) - 1)
      /\ \A i \in 1..(Len(queue) - 1) : queue'[i] = queue[i + 1]
      /\ Head(queue) = queue[1]
      /\ Len(queue) \in Nat \ {0} /\ DOMAIN queue = 1..Len(queue)
  <2>1. queue \in Seq(Tasks \cup {Poison}) /\ queue # <<>> /\ queue' = TakeOne(queue)
    BY DEF Get, IInv, TypeOK
  <2>2. QED BY <2>1, TakeOneShifts
<1>3. \A i \in DOMAIN queue' :
        i \in Nat \ {0} /\ 1 \in DOMAIN queue /\ i + 1 \in DOMAIN queue /\ queue'[i] = queue[i + 1]
  BY <1>2
<1>4. \A r, s : Before(r, s)' <=> Before(r, s)
  BY DEF Before, Get
<1>5. ASSUME NEW i \in DOMAIN queue', NEW j \in DOMAIN queue',
             i < j, queue'[i] # Poison, queue'[j] # Poison
      PROVE  Before(queue[i], queue[j])'
  <2>1. i + 1 < j + 1 /\ queue[i + 1] # Poison /\ queue[j + 1] # Poison
    BY <1>3, <1>5
  <2>2. Before(queue[i + 1], queue[j + 1])
    BY <1>3, <2>1 DEF OrderInv, QueueKeepsOrder
  <2>3. QED BY <1>3, <1>4, <2>2
<1>6. ASSUME ~abandoned', NEW v \in Workers, NEW i \in DOMAIN queue',
             item'[v] # NoTask, queue'[i] # Poison
      PROVE  Before(item[v], queue[i])'
  <2>1. ~abandoned
    BY <1>6 DEF Get
  <2>2. v # w => item[v] = NoTask
    BY <2>1 DEF IInv, ThreadsMatchControl, HandsMatchWorkers, Alive, Get
  <2>3. item[w] = NoTask
    BY DEF IInv, HandsMatchWorkers, Get
  <2>4. queue[1] # Poison /\ v = w /\ item'[w] = queue[1]
    BY <1>2, <1>6, <2>2, <2>3 DEF Get, IInv, TypeOK
  <2>5. 1 < i + 1 /\ queue[i + 1] # Poison
    BY <1>3, <1>6
  <2>6. Before(queue[1], queue[i + 1])
    BY <1>3, <2>4, <2>5 DEF OrderInv, QueueKeepsOrder
  <2>7. QED BY <1>3, <1>4, <2>4, <2>6
<1>7. QueueKeepsOrder'
  BY <1>5, <1>6 DEF QueueKeepsOrder
<1>8. QED BY <1>1, <1>7 DEF OrderInv

(* Every step keeps the order of the queue.                                  *)
LEMMA NextKeepsOrder == IInv /\ OrderInv /\ [Next]_vars => OrderInv'
<1> SUFFICES ASSUME IInv, OrderInv, [Next]_vars PROVE OrderInv'
  OBVIOUS
<1> USE AcceptedFrame, OrderFrame DEF OrderInv
<1> TypeOK
  BY DEF IInv
<1>1. ASSUME NEW t \in Tasks, CallerStep(t) PROVE OrderInv'
  <2>1. CASE CheckDegraded(t) \/ CheckRunning(t)
    BY <2>1 DEF CheckDegraded, CheckRunning
  <2>2. QED BY <1>1, <2>1, PutKeepsOrder DEF CallerStep
<1>2. CASE ControlStep
  <2>1. CASE Start \/ StopClearRunning \/ StopJoin \/ StopJoinTimesOut
    BY <2>1 DEF Start, StopClearRunning, StopJoin, StopJoinTimesOut
  <2>2. QED BY <1>2, <2>1, PoisonKeepsOrder DEF ControlStep
<1>3. ASSUME NEW w \in Workers, WorkerStep(w) PROVE OrderInv'
  <2>1. CASE ReadRunning(w) \/ ReadEmpty(w)
    BY <2>1 DEF ReadRunning, ReadEmpty
  <2>2. CASE AttemptCommits(w) \/ AttemptFails(w)
    <3>1. item[w] \in Tasks /\ outcome[item[w]] = "pending"
      BY <2>2, ExecutedIsPending DEF AttemptCommits, AttemptFails
    <3>2. \A t \in Tasks : outcome'[t] = "none" <=> outcome[t] = "none"
      BY <2>2, <3>1 DEF TypeOK, AttemptCommits, AttemptFails
    <3>3. /\ UNCHANGED <<queue, accepted, abandoned>>
          /\ \A v \in Workers : item'[v] \in {item[v], NoTask}
      BY <2>2 DEF TypeOK, AttemptCommits, AttemptFails
    <3>4. QED BY <3>2, <3>3
  <2>3. QED BY <1>3, <2>1, <2>2, GetKeepsOrder DEF WorkerStep
<1>4. CASE UNCHANGED vars
  BY <1>4 DEF vars
<1>5. QED BY <1>1, <1>2, <1>3, <1>4 DEF Next

-----------------------------------------------------------------------------
(* The task a worker executes may be settled: unless a join has timed out it *)
(* is the oldest unsettled one, since the others are still in the queue.     *)
LEMMA ExecutedMaySettle ==
  ASSUME IInv, OrderInv, NEW w \in Workers, worker[w] = "execute"
  PROVE  Abstract!MaySettle(item[w])
<1>1. item[w] \in Tasks /\ outcome[item[w]] = "pending"
  BY ExecutedIsPending
<1>2. ASSUME ~abandoned
      PROVE  Abstract!IsNext(item[w])
  <2>1. PICK i \in DOMAIN accepted : accepted[i] = item[w]
    BY <1>1 DEF OrderInv, AcceptedOnce
  <2>2. /\ DOMAIN accepted = 1..Len(accepted) /\ Len(accepted) \in Nat
        /\ \A j \in 1..Len(accepted) : accepted[j] \in Tasks
    BY DEF IInv, TypeOK
  <2>3. ASSUME NEW j \in 1..(i - 1), outcome[accepted[j]] = "pending"
        PROVE  FALSE
    <3>1. j \in DOMAIN accepted /\ accepted[j] \in Tasks /\ j < i
      BY <2>1, <2>2
    <3>2. accepted[j] # item[w]
      BY <2>1, <3>1 DEF OrderInv, AcceptedOnce
    <3>3. \A v \in Workers : item[v] # accepted[j]
      <4>1. \A v \in Workers : v # w => item[v] = NoTask
        BY <1>2 DEF IInv, ThreadsMatchControl, HandsMatchWorkers, Alive
      <4>2. accepted[j] # NoTask
        BY <3>1, Constants
      <4>3. QED BY <3>2, <4>1, <4>2
    <3>4. PICK k \in DOMAIN queue : queue[k] = accepted[j]
      BY <2>3, <3>1, <3>3 DEF IInv, PendingIsHeldOnce, InQueue
    <3>5. Before(item[w], queue[k])
      <4>1. item[w] # NoTask /\ queue[k] # Poison
        BY <1>1, <3>1, <3>4, Constants
      <4>2. QED BY <1>2, <4>1 DEF OrderInv, QueueKeepsOrder
    <3>6. i < j
      BY <2>1, <3>1, <3>4, <3>5 DEF Before
    <3>7. i \in Nat /\ j \in Nat
      BY <2>1, <2>2, <3>1
    <3>8. QED BY <3>1, <3>6, <3>7
  <2>4. QED BY <2>1, <2>3 DEF Abstract!IsNext
<1>3. QED BY <1>1, <1>2 DEF Abstract!MaySettle

(* Step simulation: a put is an acceptance, a commit an application, the     *)
(* last rollback a rejection, a timed out join an abandonment, and every     *)
(* other step is invisible.                                                  *)
LEMMA StepSimulation ==
  IInv /\ OrderInv /\ [Next]_vars => [Abstract!Next]_(Abstract!vars)
<1> SUFFICES ASSUME IInv, OrderInv, [Next]_vars
             PROVE  [Abstract!Next]_(Abstract!vars)
  OBVIOUS
<1> USE DEF Abstract!Next, Abstract!vars
<1>1. ASSUME NEW t \in Tasks, Put(t)
      PROVE  Abstract!Accept(t)
  BY <1>1 DEF Put, Abstract!Accept, IInv, FuturesMatchCallers
<1>2. ASSUME NEW w \in Workers, AttemptCommits(w)
      PROVE  \E t \in Tasks : Abstract!Apply(t)
  <2>1. item[w] \in Tasks /\ Abstract!MaySettle(item[w])
    BY <1>2, ExecutedIsPending, ExecutedMaySettle DEF AttemptCommits
  <2>2. Abstract!Apply(item[w])
    BY <1>2, <2>1 DEF AttemptCommits, Abstract!Apply
  <2>3. QED BY <2>1, <2>2
<1>3. ASSUME NEW w \in Workers, AttemptFails(w)
      PROVE  (\E t \in Tasks : Abstract!Reject(t)) \/ UNCHANGED Abstract!vars
  <2>1. item[w] \in Tasks /\ Abstract!MaySettle(item[w])
    BY <1>3, ExecutedIsPending, ExecutedMaySettle DEF AttemptFails
  <2>2. CASE GivesUp(attempts[item[w]] + 1)
    <3>1. Abstract!Reject(item[w])
      BY <1>3, <2>1, <2>2 DEF AttemptFails, Abstract!Reject
    <3>2. QED BY <2>1, <3>1
  <2>3. CASE ~GivesUp(attempts[item[w]] + 1)
    BY <1>3, <2>3 DEF AttemptFails
  <2>4. QED BY <2>2, <2>3
<1>4. CASE StopJoinTimesOut
  BY <1>4 DEF StopJoinTimesOut, Abstract!Abandon
<1>5. CASE Start \/ StopClearRunning \/ StopPutPoison \/ StopJoin
  BY <1>5 DEF Start, StopClearRunning, StopPutPoison, StopJoin
<1>6. ASSUME NEW t \in Tasks, CheckDegraded(t) \/ CheckRunning(t)
      PROVE  UNCHANGED Abstract!vars
  BY <1>6 DEF CheckDegraded, CheckRunning
<1>7. ASSUME NEW w \in Workers, ReadRunning(w) \/ ReadEmpty(w) \/ Get(w)
      PROVE  UNCHANGED Abstract!vars
  BY <1>7 DEF ReadRunning, ReadEmpty, Get
<1>8. CASE UNCHANGED vars
  BY <1>8 DEF vars
<1>9. QED
  BY <1>1, <1>2, <1>3, <1>4, <1>5, <1>6, <1>7, <1>8
     DEF Next, CallerStep, ControlStep, WorkerStep

(* The queue implements the serial writer: whatever is submitted, stopped    *)
(* and started, in whatever interleaving, writes are settled once, truly,    *)
(* and in the order they were accepted as long as no join has timed out.     *)
THEOREM QueueIsSerialWriter == Spec => ImplementsSerialWriter
<1>1. Init => Abstract!Init /\ OrderInv
  BY DEF Init, Abstract!Init, OrderInv, AcceptedOnce, QueueKeepsOrder
<1>2. QED
  BY Invariant, NextKeepsOrder, StepSimulation, <1>1, PTL
     DEF Spec, ImplementsSerialWriter, Abstract!Spec
=============================================================================
