----------------------------- MODULE RateLimiter -----------------------------
(***************************************************************************)
(* RateLimiter.acquire() of execution/kis_api.py.  Every request of every   *)
(* job passes it before it is sent.  The time stamps of the last second    *)
(* are kept in a list under a lock; a call that finds the list full sleeps *)
(* without the lock and looks again.                                       *)
(*                                                                         *)
(* Time is the age of each stamp in ticks; a sleep may end late, but never *)
(* early.  A call is granted once.                                         *)
(***************************************************************************)
EXTENDS Integers, FiniteSets

CONSTANTS
  Calls,      \* the calls of acquire()
  RateLimit,  \* self._rate_limit
  Second      \* one second, in ticks

ASSUME RateLimiterAssumption ==
  /\ IsFiniteSet(Calls)
  /\ RateLimit \in Nat \ {0}
  /\ Second \in Nat \ {0}

VARIABLES
  phase,      \* of each call: about to take the lock, sleeping, returned
  stamps,     \* the calls whose time stamp is in self._timestamps
  age,        \* the ticks since a call was granted, up to Second
  sleeping    \* the ticks that are left of a call's sleep

limiterVars == <<phase, stamps, age, sleeping>>

LimiterInit ==
  /\ phase = [k \in Calls |-> "asking"]
  /\ stamps = {}
  /\ age = [k \in Calls |-> 0]
  /\ sleeping = [k \in Calls |-> 0]

-----------------------------------------------------------------------------
\* The stamps that survive the filter at the head of the loop.
RecentAndOlder == {k \in stamps : age[k] <= Second}           \* mutant
Recent == {k \in stamps : age[k] < Second}

HasRoomForOneMore == Cardinality(Recent) <= RateLimit         \* mutant
HasRoom == Cardinality(Recent) < RateLimit

Grant(k) ==
  /\ phase[k] = "asking" /\ HasRoom
  /\ phase' = [phase EXCEPT ![k] = "granted"]
  /\ stamps' = Recent \cup {k}
  /\ age' = [age EXCEPT ![k] = 0]
  /\ UNCHANGED sleeping

\* sleep_for is what the oldest stamp lacks to a second.
Sleep(k) ==
  /\ phase[k] = "asking" /\ ~HasRoom
  /\ phase' = [phase EXCEPT ![k] = "asleep"]
  /\ stamps' = Recent
  /\ \E l \in Recent :
       /\ \A m \in Recent : age[m] <= age[l]
       /\ sleeping' = [sleeping EXCEPT ![k] = Second - age[l]]
  /\ UNCHANGED age

Wake(k) ==
  /\ phase[k] = "asleep" /\ sleeping[k] = 0
  /\ phase' = [phase EXCEPT ![k] = "asking"]
  /\ UNCHANGED <<stamps, age, sleeping>>

\* A call that is granted and whose stamp counts for the last second.
Young(k) == phase[k] = "granted" /\ age[k] < Second

\* time.monotonic() advances, as long as somebody can tell.
Tick ==
  /\ \E k \in Calls : Young(k) \/ sleeping[k] > 0
  /\ age' = [k \in Calls |-> IF Young(k) THEN age[k] + 1 ELSE age[k]]
  /\ sleeping' = [k \in Calls |-> IF sleeping[k] > 0 THEN sleeping[k] - 1 ELSE 0]
  /\ UNCHANGED <<phase, stamps>>

Acquire(k) == Grant(k) \/ Sleep(k) \/ Wake(k)

LimiterNext == Tick \/ \E k \in Calls : Acquire(k)

LimiterSpec == LimiterInit /\ [][LimiterNext]_limiterVars

-----------------------------------------------------------------------------
(* No window of a second sees more than RateLimit calls return from          *)
(* acquire(), however many jobs ask and sleep at the same time: the calls    *)
(* are counted by their own ages, not by the list that acquire() keeps.      *)
RateKept == Cardinality({k \in Calls : Young(k)}) <= RateLimit
=============================================================================
