---------------------------- MODULE SerialWriter ----------------------------
(***************************************************************************)
(* What the single writer queue promises to the components that write      *)
(* through it (execution/writer_queue.py): a write that was accepted is    *)
(* settled at most once, a write that settles with a result has been       *)
(* applied to the database and one that settles with an error has not, and *)
(* as long as no stop() has abandoned a worker, writes are settled one at  *)
(* a time in the order they were accepted.                                 *)
(***************************************************************************)
EXTENDS Naturals, Sequences

CONSTANT Tasks   \* the write tasks

VARIABLES accepted,   \* the tasks accepted so far, in the order of acceptance
          outcome,    \* what the caller's future holds
          applied,    \* the tasks whose transaction is committed, in commit order
          abandoned   \* has a stop() returned while its worker went on?

vars == <<accepted, outcome, applied, abandoned>>

Init ==
  /\ accepted = <<>> /\ applied = <<>>
  /\ outcome = [t \in Tasks |-> "none"]
  /\ abandoned = FALSE

Accept(t) ==
  /\ outcome[t] = "none"
  /\ accepted' = Append(accepted, t)
  /\ outcome' = [outcome EXCEPT ![t] = "pending"]
  /\ UNCHANGED <<applied, abandoned>>

\* Is t the oldest of the unsettled tasks?
IsNext(t) ==
  \E i \in DOMAIN accepted :
    /\ accepted[i] = t
    /\ \A j \in 1..(i - 1) : outcome[accepted[j]] # "pending"

MaySettle(t) == outcome[t] = "pending" /\ (IsNext(t) \/ abandoned)

\* The task is committed and its caller gets the result.
Apply(t) ==
  /\ MaySettle(t)
  /\ outcome' = [outcome EXCEPT ![t] = "result"]
  /\ applied' = Append(applied, t)
  /\ UNCHANGED <<accepted, abandoned>>

\* The task is given up and its caller gets the exception.
Reject(t) ==
  /\ MaySettle(t)
  /\ outcome' = [outcome EXCEPT ![t] = "exception"]
  /\ UNCHANGED <<accepted, applied, abandoned>>

Abandon == abandoned' = TRUE /\ UNCHANGED <<accepted, outcome, applied>>

Next == (\E t \in Tasks : Accept(t) \/ Apply(t) \/ Reject(t)) \/ Abandon

Spec == Init /\ [][Next]_vars
=============================================================================
