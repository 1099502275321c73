------------------------- MODULE CycleInputsProofs -------------------------
(***************************************************************************)
(* For any tickers, any length of the session and any cycles: what a cycle *)
(* decides on.  The token's part of a step is a step of CycleToken, so its *)
(* theorems carry over; on top of it three invariants, for the histories   *)
(* of the trend strategy, the exits of the intraday one and the bars that  *)
(* their cache keeps.                                                      *)
(***************************************************************************)
EXTENDS CycleInputs, FiniteSetTheorems, TLAPS

-----------------------------------------------------------------------------
(***************************************************************************)
(* The token: the one left in the closure does not outlive the cycles, and *)
(* a cycle that has no other one beside it makes all its calls with the    *)
(* token it got at its start.                                              *)
(***************************************************************************)
TokenTypes ==
  /\ shared \in TokenOrNone
  /\ stored \in TokenOrNone /\ expired \in BOOLEAN /\ issued \in 0..MaxTokens
  /\ pc \in [Cycles -> {"idle", "assign", "call", "run"}]
  /\ own \in [Cycles -> TokenOrNone] /\ argument \in [Cycles -> TokenOrNone]
  /\ used \in [Cycles -> SUBSET TokenOrNone]
  /\ alone \in [Cycles -> BOOLEAN]

\* A cycle that has begun holds a token and has used nothing before it runs.
CyclesHoldTokens ==
  \A c \in Cycles : pc[c] # "idle" =>
    own[c] # NoToken /\ (pc[c] # "run" => used[c] = {})

\* While a cycle is alone no other one has begun, so the variable and the
\* argument of the call have the token it assigned.
AloneMeansAlone ==
  \A c \in Cycles : pc[c] # "idle" /\ alone[c] =>
    /\ \A d \in Cycles : pc[d] # "idle" => d = c
    /\ pc[c] \in {"call", "run"} => shared = own[c]
    /\ pc[c] = "run" => argument[c] = own[c]

TokenInv ==
  /\ TokenTypes /\ CyclesHoldTokens /\ AloneMeansAlone
  /\ TokenDoesNotOutliveCycles /\ CycleUsesOneToken

(* No cycle has begun and no token is known.                                 *)
LEMMA TokenStarts == Init => TokenInv
<1> SUFFICES ASSUME Init PROVE TokenInv
  OBVIOUS
<1> USE CycleTokenAssumption DEF CycleTokenAssumption, Init
<1>1. TokenTypes
  <2>1. expired \in BOOLEAN /\ alone \in [Cycles -> BOOLEAN]
    OBVIOUS
  <2>2. QED BY <2>1 DEF TokenTypes, TokenOrNone
<1>2. CyclesHoldTokens /\ AloneMeansAlone
  BY DEF CyclesHoldTokens, AloneMeansAlone
<1>3. TokenDoesNotOutliveCycles /\ CycleUsesOneToken
  BY DEF TokenDoesNotOutliveCycles, CycleUsesOneToken
<1>4. QED BY <1>1, <1>2, <1>3 DEF TokenInv

-----------------------------------------------------------------------------
(* The token manager only ever stores tokens that were issued.               *)
LEMMA RefreshTypes ==
  ASSUME TokenTypes, Refresh
  PROVE  /\ stored' \in Tokens /\ expired' \in BOOLEAN /\ issued' \in 0..MaxTokens
         /\ issued + 1 \in Tokens
<1>1. expired' \in BOOLEAN
  BY DEF Refresh
<1>2. stored' \in Tokens /\ issued' \in 0..MaxTokens /\ issued + 1 \in Tokens
  BY CycleTokenAssumption DEF CycleTokenAssumption, TokenTypes, Refresh, Tokens
<1>3. QED BY <1>1, <1>2

LEMMA NoTokenIsNone == NoToken \notin Tokens /\ Tokens \subseteq TokenOrNone
  BY DEF NoToken, Tokens, TokenOrNone

(* get_valid_token() returns a token and leaves one behind.                  *)
LEMMA ManagerTypes ==
  ASSUME TokenTypes
  PROVE  /\ \A t \in TokenOrNone : GetValidToken(t) =>
              /\ t # NoToken
              /\ stored' \in TokenOrNone /\ expired' \in BOOLEAN /\ issued' \in 0..MaxTokens
         /\ GetTokenFails =>
              stored' \in TokenOrNone /\ expired' \in BOOLEAN /\ issued' \in 0..MaxTokens
<1>1. CASE Refresh
  BY <1>1, RefreshTypes, NoTokenIsNone DEF GetValidToken, IsValid, TokenTypes
<1>2. CASE UNCHANGED <<stored, expired, issued>>
  BY <1>2, RefreshTypes, NoTokenIsNone DEF GetValidToken, IsValid, TokenTypes
<1>3. QED BY <1>1, <1>2 DEF GetValidToken, GetTokenFails

(* What the token manager does alone is no concern of the cycles.            *)
LEMMA ManagerFrame ==
  ASSUME TokenInv, stored' \in TokenOrNone, expired' \in BOOLEAN, issued' \in 0..MaxTokens,
         UNCHANGED <<shared, pc, own, argument, used, alone>>
  PROVE  TokenInv'
<1>1. TokenTypes'
  BY DEF TokenInv, TokenTypes
<1>2. QED
  BY <1>1 DEF TokenInv, CyclesHoldTokens, AloneMeansAlone, TokenDoesNotOutliveCycles,
     CycleUsesOneToken

(* A cycle that begins while another one is at work is not alone, and        *)
(* neither is that one any more.                                             *)
LEMMA GetKeepsTokens ==
  ASSUME TokenInv, NEW c \in Cycles, CycleGetsToken(c)
  PROVE  TokenInv'
<1>1. PICK t \in TokenOrNone : GetValidToken(t) /\ own' = [own EXCEPT ![c] = t]
  BY DEF CycleGetsToken
<1>2. t # NoToken /\ stored' \in TokenOrNone /\ expired' \in BOOLEAN /\ issued' \in 0..MaxTokens
  BY <1>1, ManagerTypes DEF TokenInv
<1>3. /\ pc[c] = "idle" /\ pc' = [pc EXCEPT ![c] = "assign"]
      /\ used' = [used EXCEPT ![c] = {}] /\ shared' = shared /\ argument' = argument
      /\ alone' \in [Cycles -> BOOLEAN]
      /\ alone'[c] <=> \A e \in Cycles : pc[e] = "idle"
      /\ \A d \in Cycles : d # c => (alone'[d] <=> alone[d] /\ pc[d] = "idle")
  <2>1. alone' = [d \in Cycles |-> IF d = c THEN \A e \in Cycles : pc[e] = "idle"
                                   ELSE alone[d] /\ pc[d] = "idle"]
    BY DEF CycleGetsToken
  <2>2. \A d \in Cycles : alone'[d] = IF d = c THEN \A e \in Cycles : pc[e] = "idle"
                                      ELSE alone[d] /\ pc[d] = "idle"
    BY <2>1
  <2>3. alone' \in [Cycles -> BOOLEAN]
    BY <2>1, Zenon
  <2>4. QED BY <2>2, <2>3 DEF CycleGetsToken, Goto
<1>4. TokenTypes'
  BY <1>1, <1>2, <1>3 DEF TokenInv, TokenTypes
<1>5. CyclesHoldTokens'
  BY <1>1, <1>2, <1>3 DEF TokenInv, TokenTypes, CyclesHoldTokens
<1>6. AloneMeansAlone'
  BY <1>1, <1>3 DEF TokenInv, TokenTypes, AloneMeansAlone
<1>7. TokenDoesNotOutliveCycles' /\ CycleUsesOneToken'
  BY <1>1, <1>3 DEF TokenInv, TokenTypes, TokenDoesNotOutliveCycles, CycleUsesOneToken
<1>8. QED BY <1>4, <1>5, <1>6, <1>7 DEF TokenInv

(* The assignment and the call move the token of a cycle that is alone from  *)
(* its variable to the closure and from there to the argument.               *)
LEMMA AssignKeepsTokens ==
  ASSUME TokenInv, NEW c \in Cycles, AssignToken(c) \/ CallExecuteCycle(c)
  PROVE  TokenInv'
<1> USE DEF AssignToken, CallExecuteCycle, Goto
<1>1. TokenTypes'
  BY DEF TokenInv, TokenTypes
<1>2. CyclesHoldTokens'
  BY DEF TokenInv, TokenTypes, CyclesHoldTokens
<1>3. AloneMeansAlone'
  BY DEF TokenInv, TokenTypes, AloneMeansAlone
<1>4. TokenDoesNotOutliveCycles' /\ CycleUsesOneToken'
  BY DEF TokenInv, TokenTypes, CyclesHoldTokens, TokenDoesNotOutliveCycles, CycleUsesOneToken
<1>5. QED BY <1>1, <1>2, <1>3, <1>4 DEF TokenInv

(* A load takes the token of the closure, which a cycle that is alone has    *)
(* assigned; only an overlapping cycle can make it ask the manager.          *)
LEMMA LoadKeepsTokens ==
  ASSUME TokenInv, NEW c \in Cycles, LoadData(c)
  PROVE  TokenInv'
<1>1. PICK t \in TokenOrNone : CurrentToken(t) /\ used' = [used EXCEPT ![c] = @ \cup {t}]
  BY DEF LoadData
<1>2. pc[c] = "run" /\ UNCHANGED <<shared, pc, own, argument, alone>>
  BY DEF LoadData
<1>3. stored' \in TokenOrNone /\ expired' \in BOOLEAN /\ issued' \in 0..MaxTokens
  BY <1>1, ManagerTypes DEF TokenInv, TokenTypes, CurrentToken
<1>4. alone[c] => t = own[c]
  BY <1>1, <1>2 DEF TokenInv, CyclesHoldTokens, AloneMeansAlone, CurrentToken
<1>5. TokenTypes'
  BY <1>1, <1>2, <1>3 DEF TokenInv, TokenTypes
<1>6. CyclesHoldTokens' /\ AloneMeansAlone' /\ TokenDoesNotOutliveCycles'
  BY <1>1, <1>2
     DEF TokenInv, TokenTypes, CyclesHoldTokens, AloneMeansAlone, TokenDoesNotOutliveCycles
<1>7. CycleUsesOneToken'
  BY <1>1, <1>2, <1>4 DEF TokenInv, TokenTypes, CycleUsesOneToken
<1>8. QED BY <1>5, <1>6, <1>7 DEF TokenInv

(* An order carries the argument.                                            *)
LEMMA SubmitKeepsTokens ==
  ASSUME TokenInv, NEW c \in Cycles, SubmitOrder(c)
  PROVE  TokenInv'
<1> USE DEF SubmitOrder
<1>1. TokenTypes'
  BY DEF TokenInv, TokenTypes
<1>2. CyclesHoldTokens' /\ AloneMeansAlone' /\ TokenDoesNotOutliveCycles'
  BY DEF TokenInv, TokenTypes, CyclesHoldTokens, AloneMeansAlone, TokenDoesNotOutliveCycles
<1>3. CycleUsesOneToken'
  BY DEF TokenInv, TokenTypes, AloneMeansAlone, CycleUsesOneToken
<1>4. QED BY <1>1, <1>2, <1>3 DEF TokenInv

(* The end of a cycle clears the closure; another cycle that it robs of its  *)
(* token was not alone.                                                      *)
LEMMA EndKeepsTokens ==
  ASSUME TokenInv, NEW c \in Cycles, EndCycle(c)
  PROVE  TokenInv'
<1> USE DEF EndCycle, ClearShared, Goto
<1>1. TokenTypes'
  BY DEF TokenInv, TokenTypes, TokenOrNone
<1>2. CyclesHoldTokens'
  BY DEF TokenInv, TokenTypes, CyclesHoldTokens
<1>3. AloneMeansAlone'
  BY DEF TokenInv, TokenTypes, AloneMeansAlone
<1>4. TokenDoesNotOutliveCycles' /\ CycleUsesOneToken'
  BY DEF TokenInv, TokenTypes, TokenDoesNotOutliveCycles, CycleUsesOneToken
<1>5. QED BY <1>1, <1>2, <1>3, <1>4 DEF TokenInv

-----------------------------------------------------------------------------
LEMMA TokenStepKeeps == TokenInv /\ [Next]_vars => TokenInv'
<1> SUFFICES ASSUME TokenInv, [Next]_vars PROVE TokenInv'
  OBVIOUS
<1>1. ASSUME NEW c \in Cycles, CycleStep(c)
      PROVE  TokenInv'
  <2>1. CASE CycleGetsNone(c)
    BY <2>1, ManagerTypes, ManagerFrame DEF CycleGetsNone, TokenInv
  <2>2. QED
    BY <1>1, <2>1, GetKeepsTokens, AssignKeepsTokens, LoadKeepsTokens, SubmitKeepsTokens,
       EndKeepsTokens DEF CycleStep
<1>2. CASE TokenJob
  BY <1>2, RefreshTypes, NoTokenIsNone, ManagerFrame DEF TokenJob, TokenInv
<1>3. CASE Expire
  BY <1>3, ManagerFrame DEF Expire, TokenInv, TokenTypes
<1>4. CASE UNCHANGED vars
  BY <1>4, ManagerFrame DEF vars, TokenInv, TokenTypes
<1>5. QED BY <1>1, <1>2, <1>3, <1>4 DEF Next

LEMMA TokenInvariant == Spec => []TokenInv
  BY TokenStarts, TokenStepKeeps, PTL DEF Spec

(* However many cycles overlap, none starts on a token that an earlier one   *)
(* left in the closure (build_strategy_cycle_runner).                        *)
THEOREM NoTokenOutlivesCycles == Spec => []TokenDoesNotOutliveCycles
<1>1. TokenInv => TokenDoesNotOutliveCycles
  BY DEF TokenInv
<1>2. QED BY TokenInvariant, <1>1, PTL

(* A cycle without another one beside it uses one token from its start to    *)
(* its end, whatever the token job does.                                     *)
THEOREM LoneCycleUsesOneToken == Spec => []CycleUsesOneToken
<1>1. TokenInv => CycleUsesOneToken
  BY DEF TokenInv
<1>2. QED BY TokenInvariant, <1>1, PTL

-----------------------------------------------------------------------------
(***************************************************************************)
(* The inputs.                                                             *)
(***************************************************************************)
(* The loads, orders and jobs of a cycle with inputs take and drop the token *)
(* as CycleToken says.                                                       *)
LEMMA InputsTakeTokens == [InputsNext]_<<vars, inputVars>> => [Next]_vars
<1> SUFFICES ASSUME [InputsNext]_<<vars, inputVars>> PROVE [Next]_vars
  OBVIOUS
<1>1. ASSUME NEW c \in Loading, NoCall \/ TakesToken(c) \/ TokenRaises(c)
      PROVE  [Next]_vars
  <2>1. c \in Cycles
    BY CycleInputsAssumption DEF CycleInputsAssumption
  <2>2. CASE TakesToken(c)
    BY <2>1, <2>2 DEF TakesToken, CycleStep, Next
  <2>3. CASE TokenRaises(c)
    BY <2>3 DEF TokenRaises, GetTokenFails, TokenJob, Next, vars
  <2>4. QED BY <1>1, <2>2, <2>3 DEF NoCall
<1>2. ASSUME NEW c \in Loading, InputStep(c)
      PROVE  [Next]_vars
  <2>1. c \in Cycles
    BY CycleInputsAssumption DEF CycleInputsAssumption
  <2>2. CASE Fires(c) \/ DoesNotFire(c) \/ TakesItsToken(c) \/ Submits(c) \/ Ends(c)
    BY <2>1, <2>2 DEF Fires, DoesNotFire, TakesItsToken, Submits, Ends, CycleStep, Next
  <2>3. CASE LoadCash(c)
    BY <2>3, <1>1 DEF LoadCash
  <2>4. CASE GenerateIntraday(c)
    BY <2>4, <1>1 DEF GenerateIntraday, GetIntradayBars, IntradayBarsRaise
  <2>5. CASE GenerateTrend(c)
    BY <2>5, <1>1 DEF GenerateTrend, GetPriceHistory, PriceHistoryRaises
  <2>6. CASE LoadPriceContext(c)
    BY <2>6, <1>1 DEF LoadPriceContext, GetPriceHistory, PriceHistoryRaises
  <2>7. ASSUME NEW t \in Tickers, CheckExit(c, t)
        PROVE  [Next]_vars
    BY <2>7, <1>1 DEF CheckExit, IntradayExit, TrendExit, GetIntradayBars, IntradayBarsRaise
  <2>8. CASE ExitsChecked(c)
    BY <2>8 DEF ExitsChecked
  <2>9. QED BY <1>2, <2>2, <2>3, <2>4, <2>5, <2>6, <2>7, <2>8 DEF InputStep
<1>3. ASSUME NEW c \in Cycles \ Loading, CycleStep(c)
      PROVE  [Next]_vars
  BY <1>3 DEF Next
<1>4. CASE TokenJob \/ Expire
  BY <1>4 DEF Next
<1>5. CASE Tick
  BY <1>5 DEF Tick
<1>6. CASE UNCHANGED <<vars, inputVars>>
  BY <1>6
<1>7. QED BY <1>2, <1>3, <1>4, <1>5, <1>6 DEF InputsNext

(* A cycle with inputs is a cycle: the bounds on its loads only choose among  *)
(* the steps that CycleToken has.                                            *)
THEOREM InputsRefineTokens == InputsSpec => Spec
<1>1. InputsInit => Init
  BY DEF InputsInit
<1>2. QED BY <1>1, InputsTakeTokens, PTL DEF InputsSpec, Spec

LEMMA InputsKeepTokens == InputsSpec => []TokenInv
  BY InputsRefineTokens, TokenInvariant, PTL

-----------------------------------------------------------------------------
(***************************************************************************)
(* The invariants.                                                         *)
(***************************************************************************)
InputTypes ==
  /\ now \in Nat /\ now <= LastTick
  /\ asOf \in [Loading -> Nat] /\ \A c \in Loading : asOf[c] <= now
  /\ strategy \in [Loading -> {Intraday, Trend}]
  /\ stage \in [Loading -> {"idle", "cash", "signals", "context", "exits", "orders", "failed"}]
  /\ DOMAIN entries = Loading /\ DOMAIN context = Loading /\ DOMAIN daily = Loading
  /\ \A c \in Loading : \A t \in DOMAIN daily[c] : daily[c][t].lookback \in Nat
  /\ held \in [Loading -> SUBSET Tickers] /\ unchecked \in [Loading -> SUBSET Tickers]
  /\ exits \in [Loading -> SUBSET Tickers]

\* What an earlier cycle decided is gone when the next one decides.
StagesFollowControl ==
  \A c \in Loading :
    /\ pc[c] = "idle" => stage[c] = "idle"
    /\ stage[c] \in {"idle", "cash", "signals"} => DOMAIN entries[c] = {}
    /\ stage[c] \in {"idle", "cash", "signals", "context"} => DOMAIN context[c] = {}

\* The history that gave a trend signal stays in the cache while the cycle
\* lasts, with as many days as any of its later loads asks for.
SignalsStayCached ==
  \A c \in Loading : strategy[c] = Trend => \A t \in DOMAIN entries[c] :
    /\ t \in Tickers \cap DOMAIN daily[c] /\ daily[c][t].at = entries[c][t]
    /\ daily[c][t].lookback >= ContextLookback

\* Of the positions of a forced cycle, those that were looked at exit.
CheckedPositionsExit ==
  \A c \in Loading : stage[c] = "exits" =>
    /\ unchecked[c] \subseteq held[c]
    /\ strategy[c] = Intraday /\ MinuteOf(asOf[c]) >= ForceExitTime =>
         held[c] \ unchecked[c] \subseteq exits[c]

\* Bars of today that end with a minute, closed before it.
ClosedBefore(bars, minute) ==
  \A b \in bars :
    /\ b.minute \in 0..minute /\ b = [minute |-> b.minute, final |-> b.final]
    /\ b.minute < minute => b.final = TRUE

\* What the cache keeps under a minute was closed in that minute.
CacheIsClosed ==
  /\ \A t \in Tickers : traded[t] \in SUBSET Nat
  /\ \A t \in Tickers : \A k \in DOMAIN minutely[t] : ClosedBefore(minutely[t][k], k)

-----------------------------------------------------------------------------
(***************************************************************************)
(* Steps of the token alone.                                               *)
(***************************************************************************)
TokenOnly ==
  \/ \E c \in Loading : DoesNotFire(c) \/ TakesItsToken(c) \/ Submits(c)
  \/ \E c \in Cycles \ Loading : CycleStep(c) /\ UNCHANGED inputVars
  \/ (TokenJob \/ Expire) /\ UNCHANGED inputVars
  \/ UNCHANGED <<vars, inputVars>>

InputsStep(c) ==
  \/ Fires(c) \/ LoadCash(c) \/ GenerateIntraday(c) \/ GenerateTrend(c) \/ LoadPriceContext(c)
  \/ (\E t \in Tickers : CheckExit(c, t)) \/ ExitsChecked(c) \/ Ends(c)

LEMMA KindsOfSteps ==
  [InputsNext]_<<vars, inputVars>> => TokenOnly \/ Tick \/ \E c \in Loading : InputsStep(c)
<1> SUFFICES ASSUME [InputsNext]_<<vars, inputVars>>
             PROVE  TokenOnly \/ Tick \/ \E c \in Loading : InputsStep(c)
  OBVIOUS
<1>1. ASSUME NEW c \in Loading, InputStep(c)
      PROVE  TokenOnly \/ InputsStep(c)
  BY <1>1 DEF InputStep, InputsStep, TokenOnly
<1>2. QED BY <1>1 DEF InputsNext, TokenOnly

(* They leave the inputs alone and end no cycle that has inputs.             *)
LEMMA TokenOnlyFrame ==
  ASSUME TokenInv, TokenOnly
  PROVE  UNCHANGED inputVars /\ \A c \in Loading : pc'[c] = "idle" => pc[c] = "idle"
<1> USE CycleInputsAssumption DEF CycleInputsAssumption
<1>1. ASSUME NEW c \in Loading, DoesNotFire(c) \/ TakesItsToken(c) \/ Submits(c)
      PROVE  UNCHANGED inputVars /\ \A d \in Loading : pc'[d] = "idle" => pc[d] = "idle"
  BY <1>1 DEF DoesNotFire, TakesItsToken, Submits, CycleGetsNone, AssignToken, CallExecuteCycle,
     SubmitOrder, Goto, TokenInv, TokenTypes
<1>2. ASSUME NEW c \in Cycles \ Loading, CycleStep(c), UNCHANGED inputVars
      PROVE  \A d \in Loading : pc'[d] = "idle" => pc[d] = "idle"
  BY <1>2 DEF CycleStep, CycleGetsToken, CycleGetsNone, AssignToken, CallExecuteCycle, LoadData,
     SubmitOrder, EndCycle, Goto, TokenInv, TokenTypes
<1>3. ASSUME TokenJob \/ Expire \/ UNCHANGED <<vars, inputVars>>
      PROVE  \A d \in Loading : pc'[d] = "idle" => pc[d] = "idle"
  BY <1>3 DEF TokenJob, Expire, vars
<1>4. QED BY <1>1, <1>2, <1>3 DEF TokenOnly

(* No load or decision moves the control of a cycle.                         *)
LEMMA InputsFrame ==
  ASSUME NEW c \in Loading, InputsStep(c), ~Fires(c), ~Ends(c)
  PROVE  pc' = pc /\ pc[c] = "run"
<1>1. (NoCall \/ TakesToken(c) \/ TokenRaises(c)) => pc' = pc
  BY DEF NoCall, vars, TakesToken, TokenRaises, LoadData
<1>2. CASE LoadCash(c)
  BY <1>1, <1>2 DEF LoadCash, InStage
<1>3. CASE GenerateIntraday(c)
  BY <1>1, <1>3 DEF GenerateIntraday, GetIntradayBars, IntradayBarsRaise, InStage
<1>4. CASE GenerateTrend(c)
  BY <1>1, <1>4 DEF GenerateTrend, GetPriceHistory, PriceHistoryRaises, InStage
<1>5. CASE LoadPriceContext(c)
  BY <1>1, <1>5 DEF LoadPriceContext, GetPriceHistory, PriceHistoryRaises, InStage
<1>6. CASE \E t \in Tickers : CheckExit(c, t)
  BY <1>1, <1>6 DEF CheckExit, IntradayExit, TrendExit, GetIntradayBars, IntradayBarsRaise, InStage
<1>7. CASE ExitsChecked(c)
  BY <1>7 DEF ExitsChecked, InStage, vars
<1>8. QED BY <1>2, <1>3, <1>4, <1>5, <1>6, <1>7 DEF InputsStep

-----------------------------------------------------------------------------
(***************************************************************************)
(* The types.                                                              *)
(***************************************************************************)
LEMMA KeptTypes ==
  ASSUME InputTypes, NEW c \in Loading, NEW tickers, NEW lookback \in Nat, NEW got,
         GetPriceHistory(c, tickers, lookback, got)
  PROVE  /\ DOMAIN daily' = Loading
         /\ \A d \in Loading : \A t \in DOMAIN daily'[d] : daily'[d][t].lookback \in Nat
<1>1. daily' = [daily EXCEPT ![c] = Kept(c, got, lookback)]
  BY DEF GetPriceHistory
<1>2. \A t \in DOMAIN Kept(c, got, lookback) : Kept(c, got, lookback)[t].lookback \in Nat
  BY DEF Kept, InputTypes
<1>3. QED BY <1>1, <1>2 DEF InputTypes

LEMMA InputTypesStep ==
  ASSUME TokenInv, InputTypes, [InputsNext]_<<vars, inputVars>>
  PROVE  InputTypes'
<1> USE CycleInputsAssumption DEF CycleInputsAssumption
<1>1. CASE TokenOnly
  BY <1>1, TokenOnlyFrame DEF inputVars, InputTypes
<1>2. CASE Tick
  BY <1>2 DEF Tick, InputTypes
<1>3. ASSUME NEW c \in Loading, InputsStep(c)
      PROVE  InputTypes'
  <2>1. CASE Fires(c)
    BY <2>1 DEF Fires, Enter, InputTypes
  <2>2. CASE LoadCash(c)
    BY <2>2 DEF LoadCash, Enter, InputTypes
  <2>3. CASE GenerateIntraday(c)
    <3>1. DOMAIN entries' = Loading
      BY <2>3 DEF GenerateIntraday, IntradaySignals, InputTypes
    <3>2. stage' \in [Loading -> {"idle", "cash", "signals", "context", "exits", "orders", "failed"}]
      BY <2>3 DEF GenerateIntraday, IntradayBarsRaise, Enter, Fails, InputTypes
    <3>3. QED BY <2>3, <3>1, <3>2 DEF GenerateIntraday, InputTypes
  <2>4. CASE GenerateTrend(c)
    <3>1. /\ DOMAIN daily' = Loading
          /\ \A d \in Loading : \A t \in DOMAIN daily'[d] : daily'[d][t].lookback \in Nat
      <4>1. TrendLookback \in Nat
        OBVIOUS
      <4>2. QED BY <2>4, <4>1, KeptTypes DEF GenerateTrend, PriceHistoryRaises, InputTypes
    <3>2. DOMAIN entries' = Loading
      BY <2>4 DEF GenerateTrend, TrendSignals, InputTypes
    <3>3. stage' \in [Loading -> {"idle", "cash", "signals", "context", "exits", "orders", "failed"}]
      BY <2>4 DEF GenerateTrend, PriceHistoryRaises, Enter, Fails, InputTypes
    <3>4. QED BY <2>4, <3>1, <3>2, <3>3 DEF GenerateTrend, InputTypes
  <2>5. CASE LoadPriceContext(c)
    <3>1. /\ DOMAIN daily' = Loading
          /\ \A d \in Loading : \A t \in DOMAIN daily'[d] : daily'[d][t].lookback \in Nat
      <4>1. ContextLookback \in Nat
        OBVIOUS
      <4>2. QED BY <2>5, <4>1, KeptTypes DEF LoadPriceContext, PriceHistoryRaises, InputTypes
    <3>2. DOMAIN context' = Loading /\ unchecked' \in [Loading -> SUBSET Tickers]
      BY <2>5 DEF LoadPriceContext, InputTypes
    <3>3. stage' \in [Loading -> {"idle", "cash", "signals", "context", "exits", "orders", "failed"}]
      BY <2>5 DEF LoadPriceContext, PriceHistoryRaises, Enter, Fails, InputTypes
    <3>4. QED BY <2>5, <3>1, <3>2, <3>3 DEF LoadPriceContext, InputTypes
  <2>6. ASSUME NEW t \in Tickers, CheckExit(c, t)
        PROVE  InputTypes'
    <3>1. exits' \in [Loading -> SUBSET Tickers]
      BY <2>6 DEF CheckExit, IntradayExit, TrendExit, Exits, InputTypes
    <3>2. stage' \in [Loading -> {"idle", "cash", "signals", "context", "exits", "orders", "failed"}]
      BY <2>6 DEF CheckExit, IntradayExit, TrendExit, IntradayBarsRaise, Enter, Fails, InputTypes
    <3>3. QED BY <2>6, <3>1, <3>2 DEF CheckExit, InputTypes
  <2>7. CASE ExitsChecked(c)
    BY <2>7 DEF ExitsChecked, Enter, InputTypes
  <2>8. CASE Ends(c)
    BY <2>8, SMTT(30) DEF Ends, Enter, InputTypes, NoneOf
  <2>9. QED BY <1>3, <2>1, <2>2, <2>3, <2>4, <2>5, <2>6, <2>7, <2>8 DEF InputsStep
<1>4. QED BY <1>1, <1>2, <1>3, KindsOfSteps

-----------------------------------------------------------------------------
(***************************************************************************)
(* One history per cycle.                                                  *)
(***************************************************************************)
LEMMA StagesStep ==
  ASSUME TokenInv, InputTypes, StagesFollowControl, [InputsNext]_<<vars, inputVars>>
  PROVE  StagesFollowControl'
<1> USE CycleInputsAssumption DEF CycleInputsAssumption
<1>1. CASE TokenOnly
  BY <1>1, TokenOnlyFrame DEF inputVars, StagesFollowControl
<1>2. CASE Tick
  BY <1>2 DEF Tick, vars, StagesFollowControl
<1>3. ASSUME NEW c \in Loading, InputsStep(c)
      PROVE  StagesFollowControl'
  <2>1. CASE Fires(c)
    BY <2>1 DEF Fires, CycleGetsToken, Goto, Enter, TokenInv, TokenTypes, InputTypes,
       StagesFollowControl
  <2>2. CASE Ends(c)
    BY <2>2 DEF Ends, EndCycle, Goto, Enter, TokenInv, TokenTypes, InputTypes, NoneOf,
       StagesFollowControl
  <2> SUFFICES ASSUME ~Fires(c), ~Ends(c)
               PROVE  StagesFollowControl'
    BY <2>1, <2>2
  <2>3. pc' = pc /\ pc[c] = "run"
    BY <1>3, InputsFrame
  <2>4. CASE LoadCash(c)
    BY <2>3, <2>4 DEF LoadCash, InStage, Enter, InputTypes, StagesFollowControl
  <2>5. CASE GenerateIntraday(c)
    BY <2>3, <2>5 DEF GenerateIntraday, IntradaySignals, IntradayBarsRaise, InStage, Enter, Fails,
       InputTypes, StagesFollowControl
  <2>6. CASE GenerateTrend(c)
    BY <2>3, <2>6 DEF GenerateTrend, TrendSignals, PriceHistoryRaises, InStage, Enter, Fails,
       InputTypes, StagesFollowControl
  <2>7. CASE LoadPriceContext(c)
    BY <2>3, <2>7 DEF LoadPriceContext, PriceHistoryRaises, InStage, Enter, Fails, InputTypes,
       StagesFollowControl
  <2>8. ASSUME NEW t \in Tickers, CheckExit(c, t)
        PROVE  StagesFollowControl'
    BY <2>3, <2>8 DEF CheckExit, IntradayExit, TrendExit, IntradayBarsRaise, InStage, Fails, Enter,
       InputTypes, StagesFollowControl
  <2>9. CASE ExitsChecked(c)
    BY <2>3, <2>9 DEF ExitsChecked, InStage, Enter, InputTypes, StagesFollowControl
  <2>10. QED BY <1>3, <2>4, <2>5, <2>6, <2>7, <2>8, <2>9 DEF InputsStep
<1>4. QED BY <1>1, <1>2, <1>3, KindsOfSteps

HistoryInv == StagesFollowControl /\ SignalsStayCached /\ OneHistoryPerCycle

(* A load keeps the histories that answer for its tickers, and returns them. *)
LEMMA CacheAnswers ==
  ASSUME NEW c \in Loading, NEW tickers, NEW lookback, NEW got,
         GetPriceHistory(c, tickers, lookback, got), DOMAIN daily = Loading
  PROVE  /\ \A d \in Loading : d # c => daily'[d] = daily[d]
         /\ \A t \in Cached(c, tickers, lookback) :
              /\ t \in DOMAIN daily'[c] /\ daily'[c][t] = daily[c][t]
              /\ t \in DOMAIN Histories(c, tickers, lookback, got)
              /\ Histories(c, tickers, lookback, got)[t] = daily[c][t].at
         /\ \A t \in DOMAIN Histories(c, tickers, lookback, got) :
              t \in DOMAIN daily'[c] /\ Histories(c, tickers, lookback, got)[t] = daily'[c][t].at
         /\ \A t \in DOMAIN Histories(c, tickers, lookback, got) :
              t \in Cached(c, tickers, lookback) \/ daily'[c][t].lookback = lookback
<1> USE DEF GetPriceHistory
<1>1. daily'[c] = Kept(c, got, lookback) /\ \A d \in Loading : d # c => daily'[d] = daily[d]
  OBVIOUS
<1>2. got \cap Cached(c, tickers, lookback) = {} /\ Cached(c, tickers, lookback) \subseteq DOMAIN daily[c]
  BY DEF Cached
<1>3. /\ DOMAIN Kept(c, got, lookback) = got \cup DOMAIN daily[c]
      /\ \A t \in got : Kept(c, got, lookback)[t] = [at |-> now, lookback |-> lookback]
      /\ \A t \in DOMAIN daily[c] \ got : Kept(c, got, lookback)[t] = daily[c][t]
  BY DEF Kept
<1>4. /\ DOMAIN Histories(c, tickers, lookback, got) = Cached(c, tickers, lookback) \cup got
      /\ \A t \in got : Histories(c, tickers, lookback, got)[t] = now
      /\ \A t \in Cached(c, tickers, lookback) \ got :
           Histories(c, tickers, lookback, got)[t] = daily[c][t].at
  BY DEF Histories
<1>5. QED BY <1>1, <1>2, <1>3, <1>4

LEMMA HistoryStep ==
  ASSUME TokenInv, InputTypes, HistoryInv, [InputsNext]_<<vars, inputVars>>
  PROVE  HistoryInv'
<1> USE CycleInputsAssumption DEF CycleInputsAssumption
<1> SUFFICES SignalsStayCached' /\ OneHistoryPerCycle'
  BY StagesStep DEF HistoryInv
<1>1. CASE TokenOnly \/ Tick
  BY <1>1, TokenOnlyFrame DEF Tick, inputVars, HistoryInv, SignalsStayCached, OneHistoryPerCycle
<1>2. ASSUME NEW c \in Loading, InputsStep(c)
      PROVE  SignalsStayCached' /\ OneHistoryPerCycle'
  <2>1. CASE Fires(c)
    <3>1. DOMAIN entries[c] = {}
      BY <2>1 DEF Fires, CycleGetsToken, Goto, HistoryInv, StagesFollowControl
    <3>2. QED
      BY <2>1, <3>1 DEF Fires, InputTypes, HistoryInv, SignalsStayCached, OneHistoryPerCycle
  <2>2. CASE Ends(c)
    BY <2>2, SMTT(30) DEF Ends, NoneOf, InputTypes, HistoryInv, SignalsStayCached, OneHistoryPerCycle
  <2>3. CASE GenerateIntraday(c)
    BY <2>3 DEF GenerateIntraday, IntradaySignals, InputTypes, Intraday, Trend, HistoryInv,
       SignalsStayCached, OneHistoryPerCycle
  <2>4. CASE GenerateTrend(c)
    <3>1. DOMAIN context[c] = {} /\ DOMAIN entries[c] = {}
      BY <2>4 DEF GenerateTrend, InStage, HistoryInv, StagesFollowControl
    <3>2. CASE PriceHistoryRaises(c, Tickers, TrendLookback) /\ UNCHANGED entries
      BY <2>4, <3>2 DEF GenerateTrend, PriceHistoryRaises, HistoryInv, SignalsStayCached,
         OneHistoryPerCycle
    <3>3. ASSUME NEW got \in SUBSET Tickers,
                 GetPriceHistory(c, Tickers, TrendLookback, got),
                 TrendSignals(c, Histories(c, Tickers, TrendLookback, got))
          PROVE  SignalsStayCached' /\ OneHistoryPerCycle'
      <4> DEFINE histories == Histories(c, Tickers, TrendLookback, got)
      <4>1. PICK chosen \in SUBSET DOMAIN histories :
              entries' = [entries EXCEPT ![c] = [t \in chosen |-> histories[t]]]
        BY <3>3 DEF TrendSignals
      <4>2. \A t \in DOMAIN histories :
              /\ t \in Tickers \cap DOMAIN daily'[c] /\ histories[t] = daily'[c][t].at
              /\ daily'[c][t].lookback >= TrendLookback
        <5>1. DOMAIN histories \subseteq Tickers
          BY DEF Histories, Cached
        <5>2. \A t \in DOMAIN histories :
                t \in DOMAIN daily'[c] /\ histories[t] = daily'[c][t].at
          BY <3>3, CacheAnswers DEF InputTypes
        <5>3. \A t \in DOMAIN histories : daily'[c][t].lookback >= TrendLookback
          <6>1. \A t \in Cached(c, Tickers, TrendLookback) : daily'[c][t].lookback >= TrendLookback
            BY <3>3, CacheAnswers DEF InputTypes, Cached
          <6>2. QED BY <3>3, <6>1, CacheAnswers DEF InputTypes
        <5>4. QED BY <5>1, <5>2, <5>3
      <4>3. DOMAIN entries'[c] = chosen /\ \A t \in chosen : entries'[c][t] = histories[t]
        BY <4>1 DEF InputTypes
      <4>4. \A t \in DOMAIN entries'[c] :
              /\ t \in Tickers \cap DOMAIN daily'[c] /\ daily'[c][t].at = entries'[c][t]
              /\ daily'[c][t].lookback >= ContextLookback
        <5>1. \A t \in DOMAIN entries'[c] : daily'[c][t].lookback \in Nat
          BY <4>2, <4>3, InputTypesStep, <3>3, KeptTypes DEF InputTypes
        <5>2. QED BY <4>2, <4>3, <5>1
      <4>5. \A d \in Loading : d # c => daily'[d] = daily[d] /\ entries'[d] = entries[d]
        BY <3>3, <4>1, CacheAnswers DEF InputTypes
      <4>6. context' = context /\ strategy' = strategy
        BY <2>4 DEF GenerateTrend
      <4>7. SignalsStayCached'
        BY <4>4, <4>5, <4>6 DEF HistoryInv, SignalsStayCached
      <4>8. QED BY <3>1, <4>5, <4>6, <4>7 DEF HistoryInv, OneHistoryPerCycle
    <3>4. QED BY <2>4, <3>2, <3>3 DEF GenerateTrend
  <2>5. CASE LoadPriceContext(c)
    <3>1. CASE PriceHistoryRaises(c, Tickers, ContextLookback) /\ UNCHANGED <<context, unchecked>>
      BY <2>5, <3>1 DEF LoadPriceContext, PriceHistoryRaises, HistoryInv, SignalsStayCached,
         OneHistoryPerCycle
    <3>2. ASSUME NEW got \in SUBSET Tickers,
                 GetPriceHistory(c, Tickers, ContextLookback, got),
                 context' = [context EXCEPT ![c] = Histories(c, Tickers, ContextLookback, got)]
          PROVE  SignalsStayCached' /\ OneHistoryPerCycle'
      <4>1. entries' = entries /\ strategy' = strategy
        BY <2>5 DEF LoadPriceContext
      <4>2. strategy[c] = Trend => DOMAIN entries[c] \subseteq Cached(c, Tickers, ContextLookback)
        BY DEF HistoryInv, SignalsStayCached, Cached
      <4>3. \A d \in Loading : d # c => daily'[d] = daily[d] /\ context'[d] = context[d]
        BY <3>2, CacheAnswers DEF InputTypes
      <4>4. context'[c] = Histories(c, Tickers, ContextLookback, got)
        BY <3>2 DEF InputTypes
      <4>5. \A t \in Cached(c, Tickers, ContextLookback) :
              /\ t \in DOMAIN daily'[c] /\ daily'[c][t] = daily[c][t]
              /\ context'[c][t] = daily[c][t].at
        BY <3>2, <4>4, CacheAnswers DEF InputTypes
      <4>6. SignalsStayCached'
        BY <4>1, <4>2, <4>3, <4>5 DEF HistoryInv, SignalsStayCached
      <4>7. OneHistoryPerCycle'
        BY <4>1, <4>2, <4>3, <4>5 DEF HistoryInv, SignalsStayCached, OneHistoryPerCycle
      <4>8. QED BY <4>6, <4>7
    <3>3. QED BY <2>5, <3>1, <3>2 DEF LoadPriceContext
  <2>6. CASE LoadCash(c) \/ ExitsChecked(c) \/ \E t \in Tickers : CheckExit(c, t)
    BY <2>6 DEF LoadCash, ExitsChecked, CheckExit, HistoryInv, SignalsStayCached, OneHistoryPerCycle
  <2>7. QED BY <1>2, <2>1, <2>2, <2>3, <2>4, <2>5, <2>6 DEF InputsStep
<1>3. QED BY <1>1, <1>2, KindsOfSteps

-----------------------------------------------------------------------------
(***************************************************************************)
(* The exits.                                                              *)
(***************************************************************************)
ExitInv == CheckedPositionsExit /\ ForcedExitsAreSignalled

LEMMA MinutesPass ==
  ASSUME NEW a \in Nat, NEW b \in Nat, a <= b
  PROVE  /\ MinuteOf(a) \in Nat /\ MinuteOf(b) \in Nat /\ MinuteOf(a) <= MinuteOf(b)
         /\ MinuteOf(a) * Ticks <= a /\ a < (MinuteOf(a) + 1) * Ticks
  BY CycleInputsAssumption DEF CycleInputsAssumption, MinuteOf

(* Only the cycle itself looks at its positions; from the force exit time on *)
(* every look is an exit, whatever the loads do.                             *)
LEMMA ExitStep ==
  ASSUME TokenInv, InputTypes, ExitInv, [InputsNext]_<<vars, inputVars>>
  PROVE  ExitInv'
<1> USE CycleInputsAssumption DEF CycleInputsAssumption
<1>1. CASE TokenOnly \/ Tick
  BY <1>1, TokenOnlyFrame DEF Tick, inputVars, ExitInv, CheckedPositionsExit, ForcedExitsAreSignalled,
     MinuteOf
<1>2. ASSUME NEW c \in Loading, InputsStep(c)
      PROVE  ExitInv'
  <2>1. ASSUME \A d \in Loading : d # c =>
                 /\ stage'[d] = stage[d] /\ strategy'[d] = strategy[d] /\ asOf'[d] = asOf[d]
                 /\ held'[d] = held[d] /\ unchecked'[d] = unchecked[d] /\ exits'[d] = exits[d],
               stage'[c] \notin {"exits", "orders"}
        PROVE  ExitInv'
    BY <2>1 DEF ExitInv, CheckedPositionsExit, ForcedExitsAreSignalled, MinuteOf
  <2>2. CASE Fires(c) \/ Ends(c) \/ LoadCash(c)
    BY <2>1, <2>2 DEF Fires, Ends, LoadCash, Enter, InputTypes
  <2>3. CASE GenerateIntraday(c) \/ GenerateTrend(c)
    BY <2>1, <2>3 DEF GenerateIntraday, GenerateTrend, IntradayBarsRaise, PriceHistoryRaises,
       Enter, Fails, InputTypes
  <2>4. CASE LoadPriceContext(c)
    <3>1. CASE Fails(c)
      BY <2>1, <2>4, <3>1 DEF LoadPriceContext, PriceHistoryRaises, Enter, Fails, InputTypes
    <3>2. ASSUME Enter(c, "exits"), unchecked' = [unchecked EXCEPT ![c] = held[c]]
          PROVE  ExitInv'
      BY <2>4, <3>2 DEF LoadPriceContext, Enter, InputTypes, ExitInv, CheckedPositionsExit,
         ForcedExitsAreSignalled, MinuteOf
    <3>3. QED BY <2>4, <3>1, <3>2 DEF LoadPriceContext, PriceHistoryRaises
  <2>5. ASSUME NEW t \in Tickers, CheckExit(c, t)
        PROVE  ExitInv'
    <3>1. /\ stage[c] = "exits" /\ t \in unchecked[c]
          /\ unchecked' = [unchecked EXCEPT ![c] = @ \ {t}]
          /\ UNCHANGED <<asOf, strategy, held>>
      BY <2>5 DEF CheckExit, InStage
    <3>2. t \in held[c]
      BY <3>1 DEF ExitInv, CheckedPositionsExit
    <3>3. CASE Fails(c)
      <4>1. exits' = exits
        BY <2>5, <3>2, <3>3 DEF CheckExit, HasPrice, IntradayExit, TrendExit, Fails, Enter,
           IntradayBarsRaise, InputTypes, InStage
      <4>2. QED BY <2>1, <3>1, <3>3, <4>1 DEF Enter, Fails, InputTypes
    <3>4. ASSUME UNCHANGED stage, NEW broken \in BOOLEAN, Exits(c, t, broken),
                 strategy[c] = Intraday /\ MinuteOf(asOf[c]) >= ForceExitTime => broken
          PROVE  ExitInv'
      <4>1. \A d \in Loading : exits'[d] = IF d = c /\ broken THEN exits[d] \cup {t} ELSE exits[d]
        BY <3>4 DEF Exits, InputTypes
      <4>2. \A d \in Loading : unchecked'[d] = IF d = c THEN unchecked[d] \ {t} ELSE unchecked[d]
        BY <3>1 DEF InputTypes
      <4>3. CheckedPositionsExit'
        <5>1. ASSUME NEW d \in Loading, stage[d] = "exits"
              PROVE  unchecked'[d] \subseteq held[d]
          BY <4>2, <5>1 DEF ExitInv, CheckedPositionsExit
        <5>2. ASSUME NEW d \in Loading, stage[d] = "exits", strategy[d] = Intraday,
                     MinuteOf(asOf[d]) >= ForceExitTime
              PROVE  held[d] \ unchecked'[d] \subseteq exits'[d]
          <6>1. held[d] \ unchecked[d] \subseteq exits[d]
            BY <5>2 DEF ExitInv, CheckedPositionsExit
          <6>2. d = c => broken
            BY <3>4, <5>2
          <6>3. QED BY <4>1, <4>2, <6>1, <6>2
        <5>3. QED BY <3>1, <3>4, <5>1, <5>2 DEF CheckedPositionsExit, MinuteOf
      <4>4. ForcedExitsAreSignalled'
        BY <3>1, <3>4, <4>1 DEF ExitInv, ForcedExitsAreSignalled, MinuteOf
      <4>5. QED BY <4>3, <4>4 DEF ExitInv
    <3>5. MinuteOf(asOf[c]) <= MinuteOf(now) /\ MinuteOf(asOf[c]) \in Nat /\ MinuteOf(now) \in Nat
      BY MinutesPass DEF InputTypes
    <3>6. CASE strategy[c] = Intraday
      <4>1. IntradayExit(c, t)
        BY <2>5, <3>2, <3>6 DEF CheckExit, HasPrice
      <4>2. CASE MinuteOf(now) >= ForceExitTime
        <5>1. UNCHANGED stage /\ Exits(c, t, TRUE)
          <6>1. ~(MinuteOf(now) < ForceExitTime)
            BY <3>5, <4>2
          <6>2. QED BY <4>1, <6>1, Zenon DEF IntradayExit
        <5>2. TRUE \in BOOLEAN
          OBVIOUS
        <5>3. QED BY <3>4, <5>1, <5>2, Zenon
      <4>3. CASE MinuteOf(now) < ForceExitTime
        <5>1. ~(MinuteOf(asOf[c]) >= ForceExitTime)
          BY <3>5, <4>3
        <5>2. Fails(c) \/ (UNCHANGED stage /\ \E broken \in BOOLEAN : Exits(c, t, broken))
          <6>1. \A bars : {FALSE, HasOpeningRange(bars)} \subseteq BOOLEAN
            BY DEF HasOpeningRange
          <6>2. QED BY <4>1, <4>3, <6>1 DEF IntradayExit, IntradayBarsRaise
        <5>3. QED BY <3>3, <3>4, <5>1, <5>2
      <4>4. QED BY <3>5, <4>2, <4>3
    <3>7. CASE strategy[c] # Intraday
      <4>1. TrendExit(c, t)
        BY <2>5, <3>2, <3>7 DEF CheckExit, HasPrice
      <4>2. QED BY <3>3, <3>4, <3>7, <4>1 DEF TrendExit
    <3>8. QED BY <3>6, <3>7
  <2>6. CASE ExitsChecked(c)
    BY <2>6 DEF ExitsChecked, InStage, Enter, InputTypes, ExitInv, CheckedPositionsExit,
       ForcedExitsAreSignalled, MinuteOf
  <2>7. QED BY <1>2, <2>2, <2>3, <2>4, <2>5, <2>6 DEF InputsStep
<1>3. QED BY <1>1, <1>2, KindsOfSteps

-----------------------------------------------------------------------------
(***************************************************************************)
(* The bars.                                                               *)
(***************************************************************************)
BarsInv == CacheIsClosed /\ DecisionsOnTodaysBars

LEMMA ProductOrder ==
  ASSUME NEW m \in Int, NEW n \in Int, NEW k \in Nat \ {0}
  PROVE  /\ m * k <= n * k => m <= n
         /\ m * k < n * k => m < n
  OBVIOUS

(* No bar of the day before lies in the window that a moment of the session  *)
(* looks back over.                                                          *)
LEMMA WindowIsToday ==
  ASSUME NEW at \in Nat, at <= LastTick, NEW m \in Yesterday
  PROVE  ~InWindow(m, at)
<1> USE CycleInputsAssumption DEF CycleInputsAssumption
<1>1. /\ MinuteOf(at) \in Nat /\ MinuteOf(at) <= MinuteOf(LastTick) /\ MinuteOf(LastTick) \in Nat
      /\ MinuteOf(at) * Ticks <= at
  BY MinutesPass
<1>2. m \in Int /\ m <= MinuteOf(LastTick) - DayLength
  BY <1>1 DEF Yesterday, DayLength
<1>3. MinuteOf(LastTick) + OpeningMinutes + 1 < DayLength
  BY DEF MinuteOf
<1>4. SUFFICES ASSUME m * Ticks >= at - Lookback(at) * Ticks
               PROVE  FALSE
  BY DEF InWindow
<1>5. Lookback(at) \in Nat /\ (Lookback(at) = MinuteOf(at) + 1 \/ Lookback(at) = OpeningMinutes + 1)
  BY <1>1 DEF Lookback
<1>6. (0 - Lookback(at)) * Ticks <= m * Ticks
  BY <1>1, <1>2, <1>4, <1>5
<1>7. 0 - Lookback(at) <= m
  BY <1>2, <1>5, <1>6, ProductOrder
<1>8. CASE Lookback(at) = OpeningMinutes + 1
  BY <1>1, <1>2, <1>3, <1>7, <1>8 DEF DayLength
<1>9. CASE Lookback(at) = MinuteOf(at) + 1
  <2>1. (0 - 1) * Ticks <= m * Ticks
    BY <1>1, <1>2, <1>4, <1>9
  <2>2. 0 - 1 <= m
    BY <1>2, <2>1, ProductOrder
  <2>3. QED BY <1>1, <1>2, <1>3, <2>2 DEF DayLength
<1>10. QED BY <1>5, <1>8, <1>9

(* What a loader reads off a new answer was closed in the minute it is       *)
(* asked in.                                                                 *)
LEMMA AnswersAreClosed ==
  ASSUME NEW t \in Tickers, traded[t] \in SUBSET Nat, InputTypes, NEW at \in Nat, at <= now,
         NEW bars, bars = {} \/ bars \in Rows(t, at)
  PROVE  ClosedBefore(ReadAt(bars, at), MinuteOf(at))
<1> USE CycleInputsAssumption DEF CycleInputsAssumption
<1>1. SUFFICES ASSUME NEW b \in ReadAt(bars, at)
               PROVE  /\ b.minute \in 0..MinuteOf(at)
                      /\ b = [minute |-> b.minute, final |-> b.final]
                      /\ b.minute < MinuteOf(at) => b.final = TRUE
  BY DEF ClosedBefore
<1>2. b \in bars /\ InWindow(b.minute, at)
  BY DEF ReadAt
<1>3. PICK m \in traded[t] \cup Yesterday : b = [minute |-> m, final |-> m < MinuteOf(now)]
  BY <1>2 DEF Rows
<1>4. b.minute = m /\ b = [minute |-> b.minute, final |-> b.final] /\ b.final = (m < MinuteOf(now))
  BY <1>3
<1>5. at <= LastTick
  BY DEF InputTypes
<1>6. m \in Nat
  BY <1>2, <1>3, <1>4, <1>5, WindowIsToday
<1>7. /\ MinuteOf(at) \in Nat /\ MinuteOf(now) \in Nat /\ MinuteOf(at) <= MinuteOf(now)
      /\ at < (MinuteOf(at) + 1) * Ticks
  BY MinutesPass DEF InputTypes
<1>8. m <= MinuteOf(at)
  <2>1. m * Ticks <= at
    BY <1>2, <1>4 DEF InWindow
  <2>2. m * Ticks < (MinuteOf(at) + 1) * Ticks
    BY <1>6, <1>7, <2>1
  <2>3. m < MinuteOf(at) + 1
    BY <1>6, <1>7, <2>2, ProductOrder
  <2>4. QED BY <1>6, <1>7, <2>3
<1>9. m < MinuteOf(at) => b.final = TRUE
  <2>1. m < MinuteOf(at) => m < MinuteOf(now)
    BY <1>6, <1>7
  <2>2. QED BY <1>4, <2>1, Zenon
<1>10. QED BY <1>4, <1>6, <1>7, <1>8, <1>9

(* What get_intraday_bars() returns at a moment, from the cache or from the   *)
(* broker, was closed in its minute, and so is what it leaves in the cache.   *)
LEMMA CacheStaysClosed ==
  ASSUME CacheIsClosed, InputTypes, NEW c \in Loading, NEW tickers \in SUBSET Tickers,
         NEW at \in Nat, at <= now, NEW answer \in Answers(tickers, at),
         GetIntradayBars(c, tickers, at, answer), traded' = traded
  PROVE  /\ CacheIsClosed'
         /\ \A t \in tickers : ClosedBefore(BarsOf(t, at, answer[t]), MinuteOf(at))
<1>1. \A t \in tickers : answer[t] = {} \/ answer[t] \in Rows(t, at)
  BY DEF Answers
<1>2. \A t \in tickers : ClosedBefore(ReadAt(answer[t], at), MinuteOf(at))
  BY <1>1, AnswersAreClosed DEF CacheIsClosed
<1>3. ASSUME NEW t \in tickers, InCache(t, at)
      PROVE  ClosedBefore(ReadAt(minutely[t][MinuteKey(at)], at), MinuteOf(at))
  BY <1>3 DEF InCache, MinuteKey, CacheIsClosed, ClosedBefore, ReadAt
<1>4. ASSUME NEW t \in Tickers, NEW k \in DOMAIN minutely'[t]
      PROVE  ClosedBefore(minutely'[t][k], k)
  <2>1. minutely'[t] = IF t \notin tickers \/ InCache(t, at) \/ ReadAt(answer[t], at) = {}
                       THEN minutely[t] ELSE WithAnswer(t, at, ReadAt(answer[t], at))
    BY DEF GetIntradayBars, Cache
  <2>2. CASE minutely'[t] = minutely[t]
    BY <1>4, <2>2 DEF CacheIsClosed
  <2>3. CASE t \in tickers /\ minutely'[t] = WithAnswer(t, at, ReadAt(answer[t], at))
    <3>1. k \in DOMAIN minutely[t] \cup {MinuteKey(at)}
      BY <1>4, <2>3 DEF WithAnswer
    <3>2. minutely'[t][k] = IF k = MinuteKey(at) THEN ReadAt(answer[t], at) ELSE minutely[t][k]
      BY <2>3, <3>1 DEF WithAnswer
    <3>3. CASE k = MinuteKey(at)
      BY <1>2, <2>3, <3>2, <3>3 DEF MinuteKey
    <3>4. CASE k # MinuteKey(at)
      BY <3>1, <3>2, <3>4 DEF CacheIsClosed
    <3>5. QED BY <3>3, <3>4
  <2>4. QED BY <2>1, <2>2, <2>3
<1>5. CacheIsClosed'
  <2>1. \A t \in Tickers : traded'[t] \in SUBSET Nat
    BY DEF CacheIsClosed
  <2>2. QED BY <2>1, <1>4 DEF CacheIsClosed, ClosedBefore
<1>6. QED BY <1>2, <1>3, <1>5 DEF BarsOf

(* An opening range that has as many bars as minutes misses none of them:    *)
(* its bars are of today and of different minutes.                           *)
LEMMA OpeningRangeIsWhole ==
  ASSUME NEW bars, NEW k \in Nat, OpeningMinutes <= k, k < DayLength,
         ClosedBefore(bars, k), HasOpeningRange(bars)
  PROVE  \A m \in 0..OpeningMinutes - 1 : [minute |-> m, final |-> TRUE] \in bars
<1> USE CycleInputsAssumption DEF CycleInputsAssumption
<1> DEFINE minutes == 0..OpeningMinutes - 1
           Bar(m) == [minute |-> m, final |-> TRUE]
           whole == {Bar(m) : m \in minutes}
           f == [m \in minutes |-> Bar(m)]
<1>1. IsFiniteSet(minutes) /\ Cardinality(minutes) = OpeningMinutes
  <2>1. OpeningMinutes - 1 \in Int /\ 0 \in Int
    OBVIOUS
  <2>2. /\ IsFiniteSet(minutes)
        /\ Cardinality(minutes) = IF 0 > OpeningMinutes - 1 THEN 0 ELSE (OpeningMinutes - 1) - 0 + 1
    BY <2>1, FS_Interval, Zenon
  <2>3. (IF 0 > OpeningMinutes - 1 THEN 0 ELSE (OpeningMinutes - 1) - 0 + 1) = OpeningMinutes
    OBVIOUS
  <2> HIDE DEF minutes
  <2>4. QED BY <2>2, <2>3
<1>2. IsFiniteSet(whole) /\ Cardinality(whole) <= OpeningMinutes
  <2>1. f \in Surjection(minutes, whole)
    BY DEF Surjection
  <2>2. IsFiniteSet(whole) /\ Cardinality(whole) <= Cardinality(minutes)
    BY <1>1, <2>1, FS_Surjection
  <2>3. QED BY <1>1, <2>2
<1>3. OpeningBars(bars) \in SUBSET whole
  <2>1. SUFFICES ASSUME NEW b \in bars, b.minute % DayLength < OpeningMinutes
                 PROVE  b \in whole
    BY DEF OpeningBars
  <2>2. /\ b.minute \in 0..k /\ b = [minute |-> b.minute, final |-> b.final]
        /\ b.minute < k => b.final = TRUE
    BY DEF ClosedBefore
  <2>3. b.minute \in minutes /\ b.minute < k
    BY <2>1, <2>2 DEF DayLength
  <2>4. b = Bar(b.minute)
    BY <2>2, <2>3
  <2>5. QED BY <2>3, <2>4
<1>4. Cardinality(OpeningBars(bars)) >= OpeningMinutes
  BY DEF HasOpeningRange
<1>5. /\ Cardinality(OpeningBars(bars)) \in Nat /\ Cardinality(whole) \in Nat
      /\ Cardinality(OpeningBars(bars)) <= Cardinality(whole)
      /\ Cardinality(whole) = Cardinality(OpeningBars(bars)) => whole = OpeningBars(bars)
  BY <1>2, <1>3, FS_Subset, FS_CardinalityType
<1>6. whole = OpeningBars(bars)
  BY <1>2, <1>4, <1>5
<1>7. QED BY <1>6 DEF OpeningBars

LEMMA BarsStep ==
  ASSUME TokenInv, InputTypes, BarsInv, [InputsNext]_<<vars, inputVars>>
  PROVE  BarsInv'
<1> USE CycleInputsAssumption DEF CycleInputsAssumption
<1>1. ASSUME UNCHANGED <<traded, minutely>>
      PROVE  CacheIsClosed'
  BY <1>1 DEF BarsInv, CacheIsClosed, ClosedBefore
<1>2. ASSUME basis' \in {basis, {}}
      PROVE  DecisionsOnTodaysBars'
  BY <1>2 DEF BarsInv, DecisionsOnTodaysBars, MinuteOf
<1>3. CASE TokenOnly
  BY <1>1, <1>2, <1>3, TokenOnlyFrame DEF inputVars, BarsInv
<1>4. CASE Tick
  <2>1. now' \in Nat /\ MinuteOf(now') \in Nat
    <3>1. now' \in Nat /\ now' <= now'
      BY <1>4 DEF Tick, InputTypes
    <3>2. QED BY <3>1, MinutesPass
  <2>2. minutely' = minutely /\ basis' = basis
    BY <1>4 DEF Tick
  <2>3. \A t \in Tickers : traded'[t] \in SUBSET Nat
    BY <1>4, <2>1 DEF Tick, BarsInv, CacheIsClosed
  <2>4. QED BY <1>2, <2>2, <2>3 DEF BarsInv, CacheIsClosed, ClosedBefore
<1>5. ASSUME NEW c \in Loading, InputsStep(c)
      PROVE  BarsInv'
  <2>1. CASE Fires(c) \/ LoadCash(c) \/ GenerateTrend(c) \/ LoadPriceContext(c)
               \/ ExitsChecked(c) \/ Ends(c)
    BY <1>1, <1>2, <2>1 DEF Fires, LoadCash, GenerateTrend, LoadPriceContext, ExitsChecked, Ends,
       BarsInv
  <2>2. CASE GenerateIntraday(c)
    <3>1. traded' = traded
      BY <2>2 DEF GenerateIntraday
    <3>2. CASE UNCHANGED <<minutely, basis>>
      BY <1>1, <1>2, <3>1, <3>2 DEF BarsInv
    <3>3. ASSUME EntryWindowOpen(asOf[c]), NEW answer \in Answers(Tickers, asOf[c]),
                 GetIntradayBars(c, Tickers, asOf[c], answer), IntradaySignals(c, answer)
          PROVE  BarsInv'
      <4> DEFINE Bars(t) == BarsOf(t, asOf[c], answer[t])
      <4>1. asOf[c] \in Nat /\ asOf[c] <= now /\ asOf[c] <= LastTick
        BY DEF InputTypes
      <4>2. CacheIsClosed' /\ \A t \in Tickers : ClosedBefore(Bars(t), MinuteOf(asOf[c]))
        BY <3>1, <3>3, <4>1, CacheStaysClosed DEF BarsInv
      <4>3. /\ MinuteOf(asOf[c]) \in Nat /\ OpeningMinutes <= MinuteOf(asOf[c])
            /\ MinuteOf(asOf[c]) < DayLength
        <5>1. /\ MinuteOf(asOf[c]) \in Nat /\ MinuteOf(LastTick) \in Nat
              /\ MinuteOf(asOf[c]) <= MinuteOf(LastTick)
          BY <4>1, MinutesPass
        <5>2. NoEntryBefore <= MinuteOf(asOf[c])
          BY <3>3 DEF EntryWindowOpen
        <5>3. MinuteOf(LastTick) < DayLength
          BY <5>1 DEF MinuteOf, DayLength
        <5>4. QED BY <5>1, <5>2, <5>3 DEF DayLength
      <4>4. ASSUME NEW d \in basis'
            PROVE  /\ \A b \in d.bars : b.minute >= 0 /\ (b.minute < MinuteOf(d.asked) => b.final)
                   /\ d.entry => \A m \in 0..OpeningMinutes - 1 :
                                   [minute |-> m, final |-> TRUE] \in d.bars
        <5>1. PICK t \in Tickers :
                /\ HasOpeningRange(Bars(t))
                /\ d = [Read(Bars(t), asOf[c]) EXCEPT !.entry = TRUE]
          BY <3>3, <4>4 DEF IntradaySignals
        <5>2. d.bars = Bars(t) /\ d.asked = asOf[c]
          BY <5>1 DEF Read
        <5>3. ClosedBefore(d.bars, MinuteOf(asOf[c]))
          BY <4>2, <5>2
        <5>4. \A b \in d.bars : b.minute >= 0 /\ (b.minute < MinuteOf(d.asked) => b.final)
          BY <5>2, <5>3 DEF ClosedBefore
        <5>5. \A m \in 0..OpeningMinutes - 1 : [minute |-> m, final |-> TRUE] \in d.bars
          BY <4>3, <5>1, <5>2, <5>3, OpeningRangeIsWhole
        <5>6. QED BY <5>4, <5>5
      <4>5. QED BY <4>2, <4>4 DEF BarsInv, DecisionsOnTodaysBars, MinuteOf
    <3>4. QED BY <2>2, <3>2, <3>3 DEF GenerateIntraday, IntradayBarsRaise
  <2>3. ASSUME NEW t \in Tickers, CheckExit(c, t)
        PROVE  BarsInv'
    <3>1. traded' = traded
      BY <2>3 DEF CheckExit
    <3>2. CASE UNCHANGED <<minutely, basis>>
      BY <1>1, <1>2, <3>1, <3>2 DEF BarsInv
    <3>3. ASSUME NEW answer \in Answers({t}, now), GetIntradayBars(c, {t}, now, answer),
                 basis' = {Read(BarsOf(t, now, answer[t]), now)}
          PROVE  BarsInv'
      <4>1. now \in Nat /\ now <= now /\ {t} \in SUBSET Tickers
        BY DEF InputTypes
      <4>2. CacheIsClosed' /\ ClosedBefore(BarsOf(t, now, answer[t]), MinuteOf(now))
        BY <3>1, <3>3, <4>1, CacheStaysClosed DEF BarsInv
      <4>3. ASSUME NEW d \in basis'
            PROVE  /\ \A b \in d.bars : b.minute >= 0 /\ (b.minute < MinuteOf(d.asked) => b.final)
                   /\ ~d.entry
        BY <3>3, <4>1, <4>2, <4>3, MinutesPass DEF Read, ClosedBefore
      <4>4. QED BY <4>2, <4>3 DEF BarsInv, DecisionsOnTodaysBars, MinuteOf
    <3>4. QED BY <2>3, <3>2, <3>3 DEF CheckExit, IntradayExit, TrendExit, IntradayBarsRaise
  <2>4. QED BY <1>5, <2>1, <2>2, <2>3 DEF InputsStep
<1>6. QED BY <1>3, <1>4, <1>5, KindsOfSteps

-----------------------------------------------------------------------------
InputsInv == InputTypes /\ HistoryInv /\ ExitInv /\ BarsInv

LEMMA InputsStart == InputsInit => InputsInv
<1> SUFFICES ASSUME InputsInit PROVE InputsInv
  OBVIOUS
<1> USE CycleInputsAssumption DEF CycleInputsAssumption, InputsInit
<1>1. InputTypes
  BY DEF InputTypes, NoneOf
<1>2. HistoryInv
  BY DEF HistoryInv, StagesFollowControl, SignalsStayCached, OneHistoryPerCycle, NoneOf
<1>3. ExitInv
  BY DEF ExitInv, CheckedPositionsExit, ForcedExitsAreSignalled
<1>4. BarsInv
  BY DEF BarsInv, CacheIsClosed, DecisionsOnTodaysBars, ClosedBefore, NoneOf
<1>5. QED BY <1>1, <1>2, <1>3, <1>4 DEF InputsInv

LEMMA InputsInvariant == InputsSpec => []InputsInv
<1>1. TokenInv /\ InputsInv /\ [InputsNext]_<<vars, inputVars>> => InputsInv'
  BY InputTypesStep, HistoryStep, ExitStep, BarsStep DEF InputsInv
<1>2. QED BY InputsStart, InputsKeepTokens, <1>1, PTL DEF InputsSpec

(* In every cycle with inputs, overlapped by others or not, one token makes   *)
(* the calls of a cycle that is alone, and none is left behind.              *)
THEOREM InputsUseOneToken == InputsSpec => [](TokenDoesNotOutliveCycles /\ CycleUsesOneToken)
<1>1. TokenInv => TokenDoesNotOutliveCycles /\ CycleUsesOneToken
  BY DEF TokenInv
<1>2. QED BY InputsKeepTokens, <1>1, PTL

(* A trend signal is priced on the history that gave it (get_price_history): *)
(* the later load asks for no more days, so the cache answers it.            *)
THEOREM SignalsArePricedOnTheirHistory == InputsSpec => []OneHistoryPerCycle
<1>1. InputsInv => OneHistoryPerCycle
  BY DEF InputsInv, HistoryInv
<1>2. QED BY InputsInvariant, <1>1, PTL

(* From the force exit time on no failing load keeps an intraday position out *)
(* of the exit signals (_build_exit_signals, get_exit_signal).               *)
THEOREM ForcedExitsSurviveLoads == InputsSpec => []ForcedExitsAreSignalled
<1>1. InputsInv => ForcedExitsAreSignalled
  BY DEF InputsInv, ExitInv
<1>2. QED BY InputsInvariant, <1>1, PTL

(* No decision rests on a bar of another day, on one that the cache kept     *)
(* before its minute was over, or on an opening range with a minute missing  *)
(* (get_intraday_bars, calculate_opening_range).                             *)
THEOREM DecisionsRestOnTodaysBars == InputsSpec => []DecisionsOnTodaysBars
<1>1. InputsInv => DecisionsOnTodaysBars
  BY DEF InputsInv, BarsInv
<1>2. QED BY InputsInvariant, <1>1, PTL
=============================================================================
