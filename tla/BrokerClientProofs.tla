------------------------- MODULE BrokerClientProofs -------------------------
(***************************************************************************)
(* For any operations, attempts and answers of the broker: every request   *)
(* passes the rate limiter, so the rate is kept, and what a caller is told *)
(* of its operation agrees with the broker.                                *)
(***************************************************************************)
EXTENDS BrokerClient, FiniteSetTheorems, TLAPS

-----------------------------------------------------------------------------
(***************************************************************************)
(* The limiter: for any number of calls and any limit a second never sees  *)
(* more calls return from acquire() than the limit allows.                 *)
(***************************************************************************)
LimiterTypes ==
  /\ phase \in [Calls -> {"asking", "asleep", "granted"}]
  /\ stamps \in SUBSET Calls
  /\ age \in [Calls -> 0..Second]
  /\ sleeping \in [Calls -> 0..Second]

\* The list may be out of date, but it has the stamp of every call that was
\* granted in the last second, and never more stamps than the limit.
ListIsComplete ==
  /\ \A k \in Calls : Young(k) => k \in stamps
  /\ Cardinality(stamps) <= RateLimit

LimiterInv == LimiterTypes /\ ListIsComplete

(* Any part of the list is finite and not longer than the list.              *)
LEMMA PartOfStamps ==
  ASSUME LimiterTypes, NEW part \in SUBSET stamps
  PROVE  /\ IsFiniteSet(part) /\ Cardinality(part) \in Nat
         /\ Cardinality(stamps) \in Nat
         /\ Cardinality(part) <= Cardinality(stamps)
<1>1. IsFiniteSet(stamps)
  BY RateLimiterAssumption, FS_Subset DEF RateLimiterAssumption, LimiterTypes
<1>2. IsFiniteSet(part) /\ Cardinality(part) <= Cardinality(stamps)
  BY <1>1, FS_Subset
<1>3. QED BY <1>1, <1>2, FS_CardinalityType

(* Nothing is granted and the list is empty.                                 *)
LEMMA LimiterStarts == LimiterInit => LimiterInv
<1> SUFFICES ASSUME LimiterInit PROVE LimiterInv
  OBVIOUS
<1>1. Cardinality(stamps) = 0
  BY FS_EmptySet DEF LimiterInit
<1>2. QED
  BY <1>1, RateLimiterAssumption
     DEF RateLimiterAssumption, LimiterInit, LimiterInv, LimiterTypes, ListIsComplete, Young

(* A grant adds one stamp to a filtered list that had room for it.           *)
LEMMA GrantKeeps ==
  ASSUME LimiterInv, NEW k \in Calls, Grant(k)
  PROVE  LimiterInv'
<1> USE RateLimiterAssumption DEF RateLimiterAssumption
<1>1. LimiterTypes'
  BY DEF LimiterInv, LimiterTypes, Grant, Recent
<1>2. Cardinality(stamps') <= RateLimit
  <2>1. IsFiniteSet(Recent) /\ Cardinality(Recent) \in Nat
    BY PartOfStamps DEF LimiterInv, Recent
  <2>2. Cardinality(Recent \cup {k}) <= Cardinality(Recent) + 1
    <3>1. Cardinality(Recent \cup {k})
            = IF k \in Recent THEN Cardinality(Recent) ELSE Cardinality(Recent) + 1
      BY <2>1, FS_AddElement, Zenon
    <3>2. QED BY <2>1, <3>1
  <2>3. QED
    BY <2>1, <2>2, FS_AddElement, FS_CardinalityType DEF Grant, HasRoom
<1>3. \A l \in Calls : Young(l)' => l \in stamps'
  BY DEF LimiterInv, LimiterTypes, ListIsComplete, Young, Recent, Grant
<1>4. QED BY <1>1, <1>2, <1>3 DEF LimiterInv, ListIsComplete

(* A call that goes to sleep leaves the filtered list behind.                *)
LEMMA SleepKeeps ==
  ASSUME LimiterInv, NEW k \in Calls, Sleep(k)
  PROVE  LimiterInv'
<1> USE RateLimiterAssumption DEF RateLimiterAssumption
<1>1. PICK l \in Recent : sleeping' = [sleeping EXCEPT ![k] = Second - age[l]]
  BY DEF Sleep
<1>2. Second - age[l] \in 0..Second
  BY <1>1 DEF LimiterInv, LimiterTypes, Recent
<1>3. LimiterTypes'
  BY <1>1, <1>2 DEF LimiterInv, LimiterTypes, Sleep, Recent
<1>4. Cardinality(stamps') <= RateLimit
  <2>1. /\ Cardinality(Recent) \in Nat /\ Cardinality(stamps) \in Nat
        /\ Cardinality(Recent) <= Cardinality(stamps)
    BY PartOfStamps DEF LimiterInv, Recent
  <2>2. stamps' = Recent /\ Cardinality(stamps) <= RateLimit
    BY DEF Sleep, LimiterInv, ListIsComplete
  <2>3. QED BY <2>1, <2>2
<1>5. \A m \in Calls : Young(m)' => m \in stamps'
  BY DEF LimiterInv, LimiterTypes, ListIsComplete, Young, Recent, Sleep
<1>6. QED BY <1>3, <1>4, <1>5 DEF LimiterInv, ListIsComplete

(* Waking up and the passing of time make no call young.                     *)
LEMMA WakeKeeps ==
  ASSUME LimiterInv, NEW k \in Calls, Wake(k)
  PROVE  LimiterInv'
  BY DEF LimiterInv, LimiterTypes, ListIsComplete, Young, Wake

LEMMA TickKeeps ==
  ASSUME LimiterInv, Tick
  PROVE  LimiterInv'
<1>1. LimiterTypes'
  BY RateLimiterAssumption DEF RateLimiterAssumption, LimiterInv, LimiterTypes, Tick, Young
<1>2. ListIsComplete'
  BY RateLimiterAssumption
     DEF RateLimiterAssumption, LimiterInv, LimiterTypes, ListIsComplete, Tick, Young
<1>3. QED BY <1>1, <1>2 DEF LimiterInv

LEMMA LimiterKeeps == LimiterInv /\ [LimiterNext]_limiterVars => LimiterInv'
<1> SUFFICES ASSUME LimiterInv, [LimiterNext]_limiterVars PROVE LimiterInv'
  OBVIOUS
<1>1. CASE UNCHANGED limiterVars
  BY <1>1 DEF limiterVars, LimiterInv, LimiterTypes, ListIsComplete, Young
<1>2. QED
  BY <1>1, GrantKeeps, SleepKeeps, WakeKeeps, TickKeeps DEF LimiterNext, Acquire

(* The calls of the last second are among the stamps, of which there are no  *)
(* more than the limit.                                                      *)
LEMMA ListKeepsRate == LimiterInv => RateKept
<1> SUFFICES ASSUME LimiterInv PROVE RateKept
  OBVIOUS
<1>1. {k \in Calls : Young(k)} \in SUBSET stamps
  BY DEF LimiterInv, ListIsComplete
<1>2. /\ Cardinality({k \in Calls : Young(k)}) \in Nat /\ Cardinality(stamps) \in Nat
      /\ Cardinality({k \in Calls : Young(k)}) <= Cardinality(stamps)
  BY <1>1, PartOfStamps DEF LimiterInv
<1>3. Cardinality(stamps) <= RateLimit
  BY DEF LimiterInv, ListIsComplete
<1>4. QED BY <1>2, <1>3, RateLimiterAssumption DEF RateLimiterAssumption, RateKept

(* However many jobs ask, sleep and wake late, no window of a second sees    *)
(* more than RateLimit grants (RateLimiter.acquire).                         *)
THEOREM LimiterKeepsRate == LimiterSpec => []RateKept
  BY LimiterStarts, LimiterKeeps, ListKeepsRate, PTL DEF LimiterSpec

-----------------------------------------------------------------------------
(***************************************************************************)
(* The client.                                                             *)
(***************************************************************************)
ClientTypes ==
  /\ vts \in BOOLEAN
  /\ pc \in [Operations -> Legs \cup {"done"}]
  /\ attempt \in [Operations -> Attempts]
  /\ outcome \in [Operations ->
       {None, "failed", "held", "raised", "validated", "submitted", "cancelled", "returned"}]
  /\ answers \in [Operations -> SUBSET Telling]
  /\ misread \in SUBSET Operations

\* An operation has an outcome when it is over.
OutcomeMeansDone == \A o \in Operations : pc[o] # "done" => outcome[o] = None

\* A submission that may yet fail, or has, is at the broker only if one of its
\* attempts got a server error or an answer without a code.
UnansweredIsNotBooked ==
  \A o \in Submits :
    outcome[o] \in {None, "failed"} /\ answers[o] \cap {"server", "noCode"} = {} =>
      \A n \in Attempts : <<o, n>> \notin open

\* An order to cancel is closed either unclearly or by the answer reported.
ClosedIsAnswered ==
  \A o \in Cancels :
    ToCancel(o) \notin open => outcome[o] = "cancelled" \/ answers[o] \cap Unclear # {}

ClientInv ==
  /\ ClientTypes /\ OutcomeMeansDone
  /\ UnansweredIsNotBooked /\ ClosedIsAnswered
  /\ InquiryIsTruthful /\ CancelIsTruthful

-----------------------------------------------------------------------------
(* The constants, one by one.                                                *)
LEMMA ClientConstants ==
  /\ MaxAttempts \in Nat /\ 1 \in Attempts /\ 0 \notin Attempts
  /\ Calls = Operations \X Attempts \X Legs
  /\ Submits \cap Cancels = {} /\ Submits \cap Inquiries = {}
  /\ Cancels \cap Inquiries = {}
  BY BrokerClientAssumption DEF BrokerClientAssumption, Attempts

(***************************************************************************)
(* The rate limiter: no step of the client does anything to its state that *)
(* acquire() or the clock does not do.                                     *)
(***************************************************************************)
LEMMA RequestsAreCalls ==
  ASSUME ClientTypes, NEW o \in Operations, pc[o] \in Legs
  PROVE  Request(o) \in Calls
  BY ClientConstants DEF ClientTypes, Request

LEMMA StepsUseLimiter ==
  ClientTypes /\ [Next]_vars => [LimiterNext]_limiterVars
<1> SUFFICES ASSUME ClientTypes, [Next]_vars PROVE [LimiterNext]_limiterVars
  OBVIOUS
<1>1. ASSUME NEW o \in Operations, OperationStep(o)
      PROVE  [LimiterNext]_limiterVars
  <2>1. CASE WaitForLimiter(o)
    BY <2>1, RequestsAreCalls DEF WaitForLimiter, LimiterNext
  <2>2. CASE PayloadIncomplete(o) \/ AnswerHash(o) \/ NoToken(o)
    BY <2>2 DEF PayloadIncomplete, AnswerHash, NoToken
  <2>3. CASE AnswerSubmit(o) \/ AnswerCancel(o) \/ AnswerInquiry(o)
    BY <2>3 DEF AnswerSubmit, AnswerCancel, AnswerInquiry
  <2>4. QED BY <1>1, <2>1, <2>2, <2>3 DEF OperationStep
<1>2. CASE TimePasses
  BY <1>2 DEF TimePasses, LimiterNext
<1>3. CASE UNCHANGED vars
  BY <1>3 DEF vars
<1>4. QED BY <1>1, <1>2, <1>3 DEF Next

-----------------------------------------------------------------------------
(***************************************************************************)
(* The answers.                                                            *)
(***************************************************************************)
(* Every operation is at its beginning or has nothing to do, and the broker  *)
(* has the orders to cancel.                                                 *)
LEMMA ClientStarts == Init => ClientInv
<1> SUFFICES ASSUME Init PROVE ClientInv
  OBVIOUS
<1> USE ClientConstants DEF Init
<1>1. ClientTypes
  BY DEF ClientTypes, FirstLeg, Legs, Telling, None
<1>2. OutcomeMeansDone
  BY DEF OutcomeMeansDone
<1>3. UnansweredIsNotBooked
  BY DEF UnansweredIsNotBooked
<1>4. \A o \in Cancels : ToCancel(o) \in open
  BY DEF ToCancel
<1>5. ClosedIsAnswered /\ CancelIsTruthful
  BY <1>4 DEF ClosedIsAnswered, CancelIsTruthful, Operations, None
<1>6. InquiryIsTruthful
  BY DEF InquiryIsTruthful
<1>7. QED BY <1>1, <1>2, <1>3, <1>5, <1>6 DEF ClientInv

(* A step that moves an operation, or ends it without an answer, keeps the   *)
(* invariant; a submission may only fail if the broker has not booked it.    *)
LEMMA SilentStep ==
  ASSUME ClientInv, NEW o \in Operations, pc[o] # "done",
         NEW to \in Legs \cup {"done"}, pc' = [pc EXCEPT ![o] = to],
         \/ outcome' = outcome
         \/ /\ to = "done" /\ o \in Submits
            /\ \E r \in {"failed", "validated"} : outcome' = [outcome EXCEPT ![o] = r]
         \/ to = "done" /\ o \notin Submits /\ outcome' = [outcome EXCEPT ![o] = "raised"],
         UNCHANGED <<vts, attempt, open, answers, misread>>
  PROVE  ClientInv'
<1> USE ClientConstants
<1>1. ClientTypes'
  BY DEF ClientInv, ClientTypes, None
<1>2. OutcomeMeansDone'
  BY DEF ClientInv, ClientTypes, OutcomeMeansDone
<1>3. UnansweredIsNotBooked'
  BY DEF ClientInv, ClientTypes, OutcomeMeansDone, UnansweredIsNotBooked, Operations
<1>4. outcome[o] = None
  BY DEF ClientInv, OutcomeMeansDone
<1>5. \A p \in Cancels :
        /\ ToCancel(p)' = ToCancel(p)
        /\ outcome'[p] = "cancelled" <=> outcome[p] = "cancelled"
        /\ outcome'[p] = "raised" => outcome[p] \in {None, "raised"}
  BY <1>4 DEF ClientInv, ClientTypes, ToCancel, Operations, None
<1>6. ClosedIsAnswered'
  BY <1>5 DEF ClientInv, ClosedIsAnswered
<1>7. CancelIsTruthful'
  BY <1>5 DEF ClientInv, ClosedIsAnswered, CancelIsTruthful, None
<1>8. InquiryIsTruthful'
  BY DEF ClientInv, InquiryIsTruthful
<1>9. QED BY <1>1, <1>2, <1>3, <1>6, <1>7, <1>8 DEF ClientInv

(* The steps before the request itself.                                      *)
LEMMA BeforeRequestKeeps ==
  ASSUME ClientInv, NEW o \in Operations,
         PayloadIncomplete(o) \/ WaitForLimiter(o) \/ AnswerHash(o) \/ NoToken(o)
  PROVE  ClientInv'
<1>1. CASE PayloadIncomplete(o)
  BY <1>1, SilentStep DEF PayloadIncomplete, End, Goto
<1>2. CASE WaitForLimiter(o)
  BY <1>2 DEF WaitForLimiter, clientVars, ClientInv, ClientTypes, OutcomeMeansDone,
     UnansweredIsNotBooked, ClosedIsAnswered, InquiryIsTruthful, CancelIsTruthful, ToCancel
<1>3. CASE AnswerHash(o)
  BY <1>3, SilentStep DEF AnswerHash, Granted, End, Goto, Legs
<1>4. CASE NoToken(o)
  BY <1>4, SilentStep DEF NoToken, Granted, End, Goto
<1>5. QED BY <1>1, <1>2, <1>3, <1>4

(* What an answer leaves behind in the operation that got it.                *)
LEMMA AnswerLeaves ==
  ASSUME ClientInv, NEW o \in Operations, NEW a \in Answers, Answered(o, a)
  PROVE  /\ pc[o] = "main" /\ outcome[o] = None
         /\ answers' \in [Operations -> SUBSET Telling]
         /\ \A p \in Operations : answers[p] \subseteq answers'[p]
         /\ a \in Telling => a \in answers'[o]
         /\ \A p \in Operations : p # o => answers'[p] = answers[p]
  BY DEF ClientInv, ClientTypes, OutcomeMeansDone, Answered, Granted

(* The ways on after an answer: the next attempt, or the end.                *)
LEMMA WayOn ==
  ASSUME ClientInv, NEW o \in Operations,
         NEW r \in {"failed", "held", "raised", "validated", "submitted", "cancelled", "returned"},
         TryAgain(o) \/ GiveUp(o, r)
  PROVE  /\ pc' \in [Operations -> Legs \cup {"done"}]
         /\ attempt' \in [Operations -> Attempts]
         /\ outcome' = outcome \/ (outcome' = [outcome EXCEPT ![o] = r] /\ pc'[o] = "done")
         /\ \A p \in Operations : p # o => pc'[p] = pc[p]
<1>1. CASE TryAgain(o)
  BY <1>1, ClientConstants
     DEF ClientInv, ClientTypes, TryAgain, MoreAttempts, Goto, FirstLeg, Legs, Attempts
<1>2. CASE GiveUp(o, r)
  BY <1>2 DEF ClientInv, ClientTypes, GiveUp, End, Goto
<1>3. QED BY <1>1, <1>2

(* The answer to a submission: one that fails was answered by a server error *)
(* or without a code in some attempt, or the broker has booked none of them. *)
LEMMA AnswerSubmitKeeps ==
  ASSUME ClientInv, NEW o \in Operations, AnswerSubmit(o)
  PROVE  ClientInv'
<1> USE ClientConstants
<1>1. PICK a \in Answers \ {"unsupported"} :
        /\ Answered(o, a) /\ BrokerBooks(o, a)
        /\ \/ Accepted(a) /\ GiveUp(o, "submitted")
           \/ NotAccepted(a) /\ SubmitNotAccepted(o)
           \/ Escapes(a) /\ GiveUp(o, "validated")
           \/ RaisesBrokerError(a) /\ ClassifiedRetryable(a) /\ TryAgain(o)
           \/ /\ RaisesBrokerError(a) /\ ~(ClassifiedRetryable(a) /\ MoreAttempts(o))
              /\ GiveUp(o, "failed")
  BY DEF AnswerSubmit
<1>2. /\ pc[o] = "main" /\ outcome[o] = None
      /\ answers' \in [Operations -> SUBSET Telling]
      /\ \A p \in Operations : answers[p] \subseteq answers'[p]
      /\ a \in Telling => a \in answers'[o]
      /\ \A p \in Operations : p # o => answers'[p] = answers[p]
  BY <1>1, AnswerLeaves
<1>3. PICK r \in {"submitted", "validated", "failed", "held"} : TryAgain(o) \/ GiveUp(o, r)
  BY <1>1 DEF SubmitNotAccepted
<1>4. /\ pc' \in [Operations -> Legs \cup {"done"}]
      /\ attempt' \in [Operations -> Attempts]
      /\ outcome' = outcome \/ (outcome' = [outcome EXCEPT ![o] = r] /\ pc'[o] = "done")
      /\ \A p \in Operations : p # o => pc'[p] = pc[p]
  BY <1>3, WayOn
<1>5. vts' = vts /\ misread' = misread /\ o \in Submits
  BY DEF AnswerSubmit
<1>6. ClientTypes'
  BY <1>2, <1>4, <1>5 DEF ClientInv, ClientTypes, None
<1>7. OutcomeMeansDone'
  BY <1>2, <1>4 DEF ClientInv, ClientTypes, OutcomeMeansDone
<1>8. \A p \in Operations : p # o => outcome'[p] = outcome[p]
  BY <1>4 DEF ClientInv, ClientTypes
<1>9. open' = open \/ open' = open \cup {<<o, attempt[o]>>}
  BY <1>1 DEF BrokerBooks, Submission
<1>10. UnansweredIsNotBooked'
  <2>1. ASSUME NEW p \in Submits, p # o,
               outcome'[p] \in {None, "failed"}, answers'[p] \cap {"server", "noCode"} = {}, NEW n \in Attempts
        PROVE  <<p, n>> \notin open'
    BY <1>2, <1>8, <1>9, <2>1 DEF ClientInv, UnansweredIsNotBooked, Operations
  <2>2. ASSUME outcome'[o] \in {None, "failed"}, answers'[o] \cap {"server", "noCode"} = {}, NEW n \in Attempts
        PROVE  <<o, n>> \notin open'
    <3>1. <<o, n>> \notin open
      BY <1>2, <1>5, <2>2 DEF ClientInv, UnansweredIsNotBooked, Operations
    <3>2. a \notin {"server", "noCode"}
      BY <1>2, <2>2 DEF Telling, Unclear
    <3>3. a \notin Accepts \cup Unclear
      <4>1. GiveUp(o, "submitted") => outcome'[o] = "submitted"
        BY DEF ClientInv, ClientTypes, GiveUp, End
      <4>2. GiveUp(o, "validated") => outcome'[o] = "validated"
        BY DEF ClientInv, ClientTypes, GiveUp, End
      <4>3. RaisesBrokerError(a)
        BY <1>1, <2>2, <3>2, <4>1, <4>2 DEF None, NotAccepted
      <4>4. QED
        BY <3>2, <4>3 DEF RaisesBrokerError, Accepts, Unclear
    <3>4. QED BY <1>1, <3>1, <3>3 DEF BrokerBooks
  <2>3. QED BY <2>1, <2>2 DEF UnansweredIsNotBooked
<1>11. \A p \in Cancels : /\ p \in Operations /\ p # o
                          /\ ToCancel(p)' = ToCancel(p)
                          /\ ToCancel(p) \in open' <=> ToCancel(p) \in open
  BY <1>5, <1>9 DEF ToCancel, Operations
<1>12. ClosedIsAnswered' /\ CancelIsTruthful'
  BY <1>2, <1>8, <1>11 DEF ClientInv, ClosedIsAnswered, CancelIsTruthful
<1>13. InquiryIsTruthful'
  BY <1>2, <1>5 DEF ClientInv, ClientTypes, InquiryIsTruthful
<1>14. QED BY <1>6, <1>7, <1>10, <1>12, <1>13 DEF ClientInv

(* The answer to a cancel: only a clear one is reported as done, and an      *)
(* unclear one is remembered.                                                *)
LEMMA AnswerCancelKeeps ==
  ASSUME ClientInv, NEW o \in Operations, AnswerCancel(o)
  PROVE  ClientInv'
<1> USE ClientConstants
<1>1. PICK a \in Answers \ {"unsupported"} :
        /\ Answered(o, a) /\ BrokerCancels(o, a)
        /\ \/ Accepted(a) /\ GiveUp(o, "cancelled")
           \/ NotAccepted(a) /\ TryAgain(o)
           \/ RaisesBrokerError(a) /\ IsRetryable(a) /\ TryAgain(o)
           \/ /\ \/ Escapes(a) \/ NotAccepted(a)
                 \/ RaisesBrokerError(a) /\ ~(IsRetryable(a) /\ MoreAttempts(o))
              /\ GiveUp(o, "raised")
  BY DEF AnswerCancel
<1>2. /\ pc[o] = "main" /\ outcome[o] = None
      /\ answers' \in [Operations -> SUBSET Telling]
      /\ \A p \in Operations : answers[p] \subseteq answers'[p]
      /\ a \in Telling => a \in answers'[o]
      /\ \A p \in Operations : p # o => answers'[p] = answers[p]
  BY <1>1, AnswerLeaves
<1>3. PICK r \in {"cancelled", "raised"} :
        (TryAgain(o) \/ GiveUp(o, r)) /\ (GiveUp(o, "cancelled") => a \in Accepts)
  <2>1. GiveUp(o, "cancelled") => outcome'[o] = "cancelled"
    BY DEF ClientInv, ClientTypes, GiveUp, End
  <2>2. TryAgain(o) => outcome'[o] = None
    BY <1>2 DEF TryAgain
  <2>3. GiveUp(o, "raised") => outcome'[o] = "raised"
    BY DEF ClientInv, ClientTypes, GiveUp, End
  <2>4. Accepted(a) => a \in Accepts
    BY DEF Accepted
  <2>5. QED BY <1>1, <2>1, <2>2, <2>3, <2>4 DEF None
<1>4. /\ pc' \in [Operations -> Legs \cup {"done"}]
      /\ attempt' \in [Operations -> Attempts]
      /\ outcome' = outcome \/ (outcome' = [outcome EXCEPT ![o] = r] /\ pc'[o] = "done")
      /\ \A p \in Operations : p # o => pc'[p] = pc[p]
  BY <1>3, WayOn
<1>5. vts' = vts /\ misread' = misread /\ o \in Cancels
  BY DEF AnswerCancel
<1>6. ClientTypes'
  BY <1>2, <1>4, <1>5 DEF ClientInv, ClientTypes, None
<1>7. OutcomeMeansDone'
  BY <1>2, <1>4 DEF ClientInv, ClientTypes, OutcomeMeansDone
<1>8. \A p \in Operations : p # o => outcome'[p] = outcome[p]
  BY <1>4 DEF ClientInv, ClientTypes
<1>9. open' = open \/ (open' = open \ {ToCancel(o)} /\ a \in Accepts \cup Unclear)
  BY <1>1 DEF BrokerCancels
<1>10. UnansweredIsNotBooked'
  BY <1>2, <1>5, <1>8, <1>9 DEF ClientInv, UnansweredIsNotBooked, Operations
<1>11. \A p \in Cancels : ToCancel(p)' = ToCancel(p)
  BY DEF ToCancel
<1>12. \A p \in Cancels : p # o =>
         /\ p \in Operations
         /\ ToCancel(p) \in open' <=> ToCancel(p) \in open
  BY <1>9 DEF ToCancel, Operations
<1>13. outcome'[o] = "cancelled" => ToCancel(o) \notin open'
  <2>1. outcome'[o] = "cancelled" => GiveUp(o, "cancelled")
    BY <1>1, <1>2 DEF ClientInv, ClientTypes, GiveUp, End, TryAgain, None
  <2>2. a \in Accepts => ToCancel(o) \notin open'
    BY <1>1 DEF BrokerCancels
  <2>3. QED BY <1>3, <2>1, <2>2
<1>14. ToCancel(o) \notin open' => outcome'[o] = "cancelled" \/ answers'[o] \cap Unclear # {}
  <2>1. CASE open' = open
    BY <1>2, <1>5, <2>1 DEF ClientInv, ClosedIsAnswered, None
  <2>2. CASE a \in Unclear
    BY <1>2, <2>2 DEF Telling
  <2>3. CASE a \in Accepts
    <3>1. Accepted(a) /\ ~RaisesBrokerError(a) /\ ~Escapes(a) /\ ~NotAccepted(a)
      BY <2>3 DEF Accepted, RaisesBrokerError, Escapes, NotAccepted, Accepts
    <3>2. GiveUp(o, "cancelled")
      BY <1>1, <3>1
    <3>3. QED BY <3>2 DEF ClientInv, ClientTypes, GiveUp, End
  <2>4. QED BY <1>9, <2>1, <2>2, <2>3
<1>15. ClosedIsAnswered'
  BY <1>2, <1>8, <1>11, <1>12, <1>14 DEF ClientInv, ClosedIsAnswered
<1>16. CancelIsTruthful'
  BY <1>2, <1>8, <1>11, <1>12, <1>13, <1>14 DEF ClientInv, CancelIsTruthful
<1>17. InquiryIsTruthful'
  BY <1>2, <1>5 DEF ClientInv, ClientTypes, InquiryIsTruthful
<1>18. QED BY <1>6, <1>7, <1>10, <1>15, <1>16, <1>17 DEF ClientInv

(* The answer to an inquiry: it is misread only where the environment does   *)
(* not offer it, or where the answer has no code.                            *)
LEMMA AnswerInquiryKeeps ==
  ASSUME ClientInv, NEW o \in Operations, AnswerInquiry(o)
  PROVE  ClientInv'
<1> USE ClientConstants
<1>1. PICK a \in Answers :
        /\ Answered(o, a)
        /\ \/ ReturnOpenOrders(o, open)
           \/ IsUnsupported(a) /\ ReturnOpenOrders(o, {})
           \/ NotAccepted(a) /\ \E list \in {open, {}} : ReturnOpenOrders(o, list)
           \/ (TryAgain(o) \/ GiveUp(o, "raised")) /\ UNCHANGED misread
  BY DEF AnswerInquiry
<1>2. /\ pc[o] = "main" /\ outcome[o] = None
      /\ answers' \in [Operations -> SUBSET Telling]
      /\ \A p \in Operations : answers[p] \subseteq answers'[p]
      /\ a \in Telling => a \in answers'[o]
      /\ \A p \in Operations : p # o => answers'[p] = answers[p]
  BY <1>1, AnswerLeaves
<1>3. PICK r \in {"returned", "raised"} : TryAgain(o) \/ GiveUp(o, r)
  BY <1>1 DEF ReturnOpenOrders
<1>4. /\ pc' \in [Operations -> Legs \cup {"done"}]
      /\ attempt' \in [Operations -> Attempts]
      /\ outcome' = outcome \/ (outcome' = [outcome EXCEPT ![o] = r] /\ pc'[o] = "done")
      /\ \A p \in Operations : p # o => pc'[p] = pc[p]
  BY <1>3, WayOn
<1>5. vts' = vts /\ open' = open /\ o \in Inquiries
  BY DEF AnswerInquiry
<1>6. misread' = misread \/ (misread' = misread \cup {o} /\ (IsUnsupported(a) \/ NotAccepted(a)))
  BY <1>1 DEF ReturnOpenOrders
<1>7. ClientTypes'
  BY <1>2, <1>4, <1>5, <1>6 DEF ClientInv, ClientTypes, None
<1>8. OutcomeMeansDone'
  BY <1>2, <1>4 DEF ClientInv, ClientTypes, OutcomeMeansDone
<1>9. \A p \in Submits \cup Cancels :
        p \in Operations /\ outcome'[p] = outcome[p] /\ answers'[p] = answers[p]
  BY <1>2, <1>4, <1>5 DEF ClientInv, ClientTypes, Operations
<1>10. UnansweredIsNotBooked'
  BY <1>5, <1>9 DEF ClientInv, UnansweredIsNotBooked
<1>11. ClosedIsAnswered' /\ CancelIsTruthful'
  BY <1>5, <1>9 DEF ClientInv, ClosedIsAnswered, CancelIsTruthful, ToCancel
<1>12. InquiryIsTruthful'
  BY <1>2, <1>5, <1>6 DEF ClientInv, ClientTypes, InquiryIsTruthful, IsUnsupported, NotAccepted, Telling, Unclear
<1>13. QED BY <1>7, <1>8, <1>10, <1>11, <1>12 DEF ClientInv

-----------------------------------------------------------------------------
LEMMA ClientKeeps == ClientInv /\ [Next]_vars => ClientInv'
<1> SUFFICES ASSUME ClientInv, [Next]_vars PROVE ClientInv'
  OBVIOUS
<1>1. ASSUME NEW o \in Operations, OperationStep(o)
      PROVE  ClientInv'
  BY <1>1, BeforeRequestKeeps, AnswerSubmitKeeps, AnswerCancelKeeps, AnswerInquiryKeeps
     DEF OperationStep
<1>2. CASE UNCHANGED clientVars
  BY <1>2 DEF clientVars, ClientInv, ClientTypes, OutcomeMeansDone,
     UnansweredIsNotBooked, ClosedIsAnswered, InquiryIsTruthful, CancelIsTruthful, ToCancel
<1>3. QED BY <1>1, <1>2 DEF Next, TimePasses, vars

LEMMA ClientInvariant == Spec => []ClientInv
  BY ClientStarts, ClientKeeps, PTL DEF Spec

(* Seen through the limiter alone, the client is some pattern of calls of    *)
(* acquire().                                                                *)
THEOREM ClientUsesLimiter == Spec => LimiterSpec
<1>1. Init => LimiterInit
  BY DEF Init
<1>2. ClientInv => ClientTypes
  BY DEF ClientInv
<1>3. QED
  BY ClientInvariant, StepsUseLimiter, <1>1, <1>2, PTL DEF Spec, LimiterSpec

(* The rate is kept by all submissions, cancels and inquiries together,      *)
(* their hash keys and repetitions included (request).                       *)
THEOREM ClientKeepsRate == Spec => []RateKept
  BY ClientUsesLimiter, LimiterKeepsRate, PTL

(* A failed submission is not at the broker unless a server error or an      *)
(* answer without a code hid it, an inquiry that is misread got such an      *)
(* answer or asked where it is not offered, and a cancel that is reported    *)
(* done is done.                                                             *)
THEOREM CallersAreToldTheTruth == Spec => []AnswersAreTruthful
<1>1. ClientInv => FailedIsNotBooked
  BY DEF ClientInv, UnansweredIsNotBooked, FailedIsNotBooked
<1>2. ClientInv => AnswersAreTruthful
  BY <1>1 DEF ClientInv, AnswersAreTruthful
<1>3. QED BY ClientInvariant, <1>2, PTL
=============================================================================
