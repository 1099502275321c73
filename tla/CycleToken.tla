----------------------------- MODULE CycleToken -----------------------------
(***************************************************************************)
(* main.py, build_strategy_cycle_runner(): the access token of a strategy  *)
(* cycle.  run_cycle() keeps it in cycle_access_token, a variable of the   *)
(* closure that every cycle job shares; the data loaders take it from      *)
(* there and fall back to TokenManager.get_valid_token(), the order path   *)
(* takes it as an argument.  Cycle jobs of different strategies run at the *)
(* same time, and the token job replaces the token at any moment.          *)
(***************************************************************************)
EXTENDS Integers

CONSTANTS
  Cycles,      \* the strategy cycle jobs
  MaxTokens    \* bound: the tokens the broker issues

ASSUME CycleTokenAssumption == MaxTokens \in Nat

NoToken == 0
Tokens == 1..MaxTokens
TokenOrNone == Tokens \cup {NoToken}

VARIABLES
  shared,      \* cycle_access_token
  stored,      \* TokenManager._tokens[env]
  expired,     \* stored.is_expired()
  issued,      \* the tokens issued so far
  pc,          \* program counter of each cycle job
  own,         \* the token get_valid_token() returned to run_cycle()
  argument,    \* access_token, the argument of execute_cycle()
  used,        \* history: the tokens the calls of the cycle carried
  alone        \* history: has the cycle had no other one beside it?

vars == <<shared, stored, expired, issued, pc, own, argument, used, alone>>

Init ==
  /\ shared = NoToken
  /\ stored = NoToken /\ expired = FALSE /\ issued = 0
  /\ pc = [c \in Cycles |-> "idle"]
  /\ own = [c \in Cycles |-> NoToken]
  /\ argument = [c \in Cycles |-> NoToken]
  /\ used = [c \in Cycles |-> {}]
  /\ alone = [c \in Cycles |-> TRUE]

Goto(c, from, to) == pc[c] = from /\ pc' = [pc EXCEPT ![c] = to]

-----------------------------------------------------------------------------
(***************************************************************************)
(* TokenManager                                                            *)
(***************************************************************************)
IsValid == stored # NoToken /\ ~expired

\* refresh_token(): a new token is kept before its metadata are written.
Refresh ==
  /\ issued < MaxTokens
  /\ issued' = issued + 1 /\ stored' = issued + 1 /\ expired' = FALSE

\* get_valid_token(): the token t is returned.
GetValidToken(t) ==
  \/ IsValid /\ t = stored /\ UNCHANGED <<stored, expired, issued>>
  \/ ~IsValid /\ Refresh /\ t = issued + 1

\* get_valid_token() raises: the broker refuses, or the metadata write fails
\* after the token was kept.
GetTokenFails == ~IsValid /\ (Refresh \/ UNCHANGED <<stored, expired, issued>>)

TokenJob ==
  /\ Refresh
  /\ UNCHANGED <<shared, pc, own, argument, used, alone>>

Expire ==
  /\ IsValid /\ expired' = TRUE
  /\ UNCHANGED <<shared, stored, issued, pc, own, argument, used, alone>>

-----------------------------------------------------------------------------
(***************************************************************************)
(* run_cycle()                                                             *)
(***************************************************************************)
CycleGetsToken(c) ==
  /\ Goto(c, "idle", "assign")
  /\ \E t \in TokenOrNone : GetValidToken(t) /\ own' = [own EXCEPT ![c] = t]
  /\ used' = [used EXCEPT ![c] = {}]
  /\ alone' = [d \in Cycles |-> IF d = c THEN \A e \in Cycles : pc[e] = "idle"
                                ELSE alone[d] /\ pc[d] = "idle"]
  /\ UNCHANGED <<shared, argument>>

CycleGetsNone(c) ==
  /\ pc[c] = "idle" /\ GetTokenFails
  /\ UNCHANGED <<shared, pc, own, argument, used, alone>>

AssignToken(c) ==
  /\ Goto(c, "assign", "call")
  /\ shared' = own[c]
  /\ UNCHANGED <<stored, expired, issued, own, argument, used, alone>>

\* execute_cycle(access_token=cycle_access_token) reads the variable again.
CallExecuteCycle(c) ==
  /\ Goto(c, "call", "run")
  /\ argument' = [argument EXCEPT ![c] = shared]
  /\ UNCHANGED <<shared, stored, expired, issued, own, used, alone>>

\* current_cycle_access_token(): cash and price history.
ManagerFirst(t) ==                                            \* mutant
  IF IsValid THEN t = stored /\ UNCHANGED <<stored, expired, issued>>
  ELSE t = shared /\ shared # NoToken /\ UNCHANGED <<stored, expired, issued>>
CurrentToken(t) ==
  IF shared # NoToken THEN t = shared /\ UNCHANGED <<stored, expired, issued>>
  ELSE GetValidToken(t)

LoadData(c) ==
  /\ pc[c] = "run"
  /\ \E t \in TokenOrNone : CurrentToken(t) /\ used' = [used EXCEPT ![c] = @ \cup {t}]
  /\ UNCHANGED <<shared, pc, own, argument, alone>>

\* place_order(): the request carries the argument, or none.
SubmitOrder(c) ==
  /\ pc[c] = "run"
  /\ used' = [used EXCEPT ![c] = @ \cup {argument[c]}]
  /\ UNCHANGED <<shared, stored, expired, issued, pc, own, argument, alone>>

\* finally: cycle_access_token = None
KeepShared == UNCHANGED shared                                \* mutant
ClearShared == shared' = NoToken

EndCycle(c) ==
  /\ Goto(c, "run", "idle")
  /\ ClearShared
  /\ own' = [own EXCEPT ![c] = NoToken]
  /\ argument' = [argument EXCEPT ![c] = NoToken]
  /\ used' = [used EXCEPT ![c] = {}] /\ alone' = [alone EXCEPT ![c] = TRUE]
  /\ UNCHANGED <<stored, expired, issued>>

CycleStep(c) ==
  \/ CycleGetsToken(c) \/ CycleGetsNone(c)
  \/ AssignToken(c) \/ CallExecuteCycle(c)
  \/ LoadData(c) \/ SubmitOrder(c)
  \/ EndCycle(c)

Next == TokenJob \/ Expire \/ \E c \in Cycles : CycleStep(c)

Spec == Init /\ [][Next]_vars

-----------------------------------------------------------------------------
(* No token is left in the closure for a later cycle, however the cycles     *)
(* overlap: while none of them is past the assignment the variable is None,  *)
(* so a cycle never starts on the token of one that is over.                 *)
TokenDoesNotOutliveCycles ==
  (\A c \in Cycles : pc[c] \in {"idle", "assign"}) => shared = NoToken

(* Every call of a cycle that runs alone carries the token the cycle got at  *)
(* its start, though the token job may replace it and it may expire          *)
(* meanwhile (current_cycle_access_token, the argument of execute_cycle).    *)
CycleUsesOneToken ==
  \A c \in Cycles : pc[c] = "run" /\ alone[c] => used[c] \subseteq {own[c]}
=============================================================================
