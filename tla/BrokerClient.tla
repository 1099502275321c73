---------------------------- MODULE BrokerClient ----------------------------
(***************************************************************************)
(* The requests of execution/kis_api.py and the loops that repeat them:     *)
(* place_order() of the order manager around submit_order(), and            *)
(* _cancel_order_with_retry() and _call_broker_poll_with_retry() of the     *)
(* runtime around cancel_order() and list_open_orders().  Every request     *)
(* passes the rate limiter first; submit and cancel ask for a hash key      *)
(* before the order itself is sent.                                        *)
(*                                                                         *)
(* The broker is external: what it did and what it answers is a choice.    *)
(* Answers with an HTTP error, with an error code, without any code and    *)
(* answers that never arrive are told apart, since each takes its own way  *)
(* through the code.                                                       *)
(***************************************************************************)
EXTENDS RateLimiter

CONSTANTS
  Submits,      \* the calls of place_order(), each with an order of its own
  Cancels,      \* the calls of _cancel_order_with_retry(), each with an open order
  Inquiries,    \* the calls of list_open_orders() by the poll
  MaxAttempts,  \* attempts of each loop
  MaxBusy       \* bound: the operations at work at the same time

Operations == Submits \cup Cancels \cup Inquiries
Attempts == 1..MaxAttempts
Legs == {"hash", "main"}

ASSUME BrokerClientAssumption ==
  /\ MaxAttempts \in Nat \ {0} /\ MaxBusy \in Nat
  /\ Calls = Operations \X Attempts \X Legs
  /\ Submits \cap Cancels = {} /\ Submits \cap Inquiries = {}
  /\ Cancels \cap Inquiries = {}

VARIABLES
  vts,          \* is settings.env the simulated environment?
  hasToken,     \* does the cycle have an access token?
  pc,           \* program counter of each operation
  attempt,      \* the attempt of its loop
  outcome,      \* what came of it
  blocked,      \* OrderManager.trading_blocked
  open,         \* broker: the open orders, submissions and orders to cancel
  answers,      \* history: the telling answers to the requests of each operation
  misread       \* history: the inquiries that returned other open orders than
                \* the broker had when it answered

clientVars == <<vts, hasToken, pc, attempt, outcome, blocked, open, answers, misread>>
vars == <<limiterVars, clientVars>>

None == "none"

\* submit_order() and cancel_order() begin with the hash key.
FirstLeg(o) == IF o \in Inquiries THEN "main" ELSE "hash"

Submission(o) == <<o, attempt[o]>>
ToCancel(o) == <<o, 0>>

Init ==
  /\ LimiterInit
  /\ vts \in BOOLEAN
  /\ hasToken \in BOOLEAN
  /\ \E busy \in SUBSET Operations :
       /\ Cardinality(busy) <= MaxBusy
       /\ pc = [o \in Operations |-> IF o \in busy THEN FirstLeg(o) ELSE "done"]
  /\ attempt = [o \in Operations |-> 1]
  /\ outcome = [o \in Operations |-> None]
  /\ blocked = FALSE
  /\ open = {<<o, 0>> : o \in Cancels}
  /\ answers = [o \in Operations |-> {}]
  /\ misread = {}

-----------------------------------------------------------------------------
(***************************************************************************)
(* Answers and exceptions                                                  *)
(***************************************************************************)
Answers == {"ok", "okNumber",                  \* rt_cd "0", and 0 as a number
            "refused", "throttled", "badToken", "unsupported",  \* other rt_cd
            "noCode",                          \* HTTP 200 without rt_cd
            "server", "client",                \* HTTP 408..504, other HTTP errors
            "lost"}                            \* no answer, or not a JSON object

\* The broker does what it was asked; it may have done so although the answer
\* does not say it; the other answers mean that it has not.
Accepts == {"ok", "okNumber"}
Unclear == {"server", "noCode", "lost"}

Telling == Unclear \cup {"badToken", "unsupported"}

\* request() raises BrokerApiError ...
RaisesBrokerError(a) == a \notin {"ok", "okNumber", "noCode", "lost"}
\* ... or lets the exception of requests or of the JSON parser through.
Escapes(a) == a = "lost"
\* An answer without rt_cd passes; normalize_order_result() has it not accepted.
Accepted(a) == a \in Accepts
NotAccepted(a) == a = "noCode"

\* is_retryable_broker_error(): by status code or by the words of the message.
IsRetryable(a) == a \in {"server", "throttled"}

\* classify_submit_exception(): by status code alone.
ClassifiedRetryable(a) == a = "server"

\* _is_vts_domestic_open_orders_unsupported()
AnyErrorIsUnsupported(a) == RaisesBrokerError(a) /\ ~IsRetryable(a)  \* mutant
IsUnsupported(a) == vts /\ a = "unsupported"

-----------------------------------------------------------------------------
Goto(o, from, to) == pc[o] = from /\ pc' = [pc EXCEPT ![o] = to]

End(o, from, result) ==
  /\ Goto(o, from, "done")
  /\ outcome' = [outcome EXCEPT ![o] = result]

Request(o) == <<o, attempt[o], pc[o]>>

\* A payload that lacks a field raises BrokerApiError before any request; no
\* loop tries it again.
PayloadIncomplete(o) ==
  /\ End(o, "hash", IF o \in Submits THEN "failed" ELSE "raised")
  /\ attempt[o] = 1 /\ phase[Request(o)] = "asking"
  /\ UNCHANGED <<limiterVars, vts, hasToken, attempt, blocked, open, answers, misread>>

\* request() waits for the limiter before it looks at anything.
WaitForLimiter(o) ==
  /\ pc[o] \in Legs
  /\ Acquire(Request(o))
  /\ UNCHANGED clientVars

Granted(o, leg) == pc[o] = leg /\ phase[<<o, attempt[o], leg>>] = "granted"

\* request_hashkey(): without a token the request is made all the same, and a
\* BrokerApiError only means that the order goes without a hash.
AnswerHash(o) ==
  /\ Granted(o, "hash")
  /\ \E a \in Answers :
       \/ ~Escapes(a) /\ Goto(o, "hash", "main") /\ UNCHANGED outcome
       \/ Escapes(a) /\ End(o, "hash", IF o \in Submits THEN "validated" ELSE "raised")
  /\ UNCHANGED <<limiterVars, vts, hasToken, attempt, blocked, open, answers, misread>>

\* AuthenticationError; only the token of a cycle may be missing, the other
\* jobs get theirs from get_valid_token(), which returns one or raises.
NoToken(o) ==
  /\ Granted(o, "main") /\ o \in Submits /\ ~hasToken
  /\ End(o, "main", "failed")
  /\ blocked' = TRUE
  /\ UNCHANGED <<limiterVars, vts, hasToken, attempt, open, answers, misread>>

Answered(o, a) ==
  /\ Granted(o, "main") /\ (o \in Submits => hasToken)
  /\ answers' = [answers EXCEPT ![o] = @ \cup ({a} \cap Telling)]

\* The next attempt, as long as the loop has one left.
MoreAttempts(o) == attempt[o] < MaxAttempts

TryAgain(o) ==
  /\ MoreAttempts(o)
  /\ Goto(o, "main", FirstLeg(o))
  /\ attempt' = [attempt EXCEPT ![o] = @ + 1]
  /\ UNCHANGED outcome

GiveUp(o, result) == End(o, "main", result) /\ UNCHANGED attempt

-----------------------------------------------------------------------------
\* classify_submit_result() goes by the words of an answer that is not accepted:
\* it is worth another attempt, or refused, of which the words of authentication
\* block trading, or the order is held until somebody reconciles it.
SubmitNotAccepted(o) ==
  \/ TryAgain(o) /\ UNCHANGED blocked
  \/ GiveUp(o, "failed") /\ blocked' \in {blocked, TRUE}
  \/ GiveUp(o, "held") /\ blocked' = TRUE

\* place_order(): the answer to a submission.
BrokerBooks(o, a) ==
  \/ a \in Accepts \cup Unclear /\ open' = open \cup {Submission(o)}
  \/ a \notin Accepts /\ UNCHANGED open

AnswerSubmit(o) ==
  /\ o \in Submits
  /\ \E a \in Answers \ {"unsupported"} :
       /\ Answered(o, a) /\ BrokerBooks(o, a)
       /\ \/ Accepted(a) /\ GiveUp(o, "submitted") /\ UNCHANGED blocked
          \/ NotAccepted(a) /\ SubmitNotAccepted(o)
          \/ Escapes(a) /\ GiveUp(o, "validated") /\ UNCHANGED blocked
          \/ RaisesBrokerError(a) /\ ClassifiedRetryable(a) /\ TryAgain(o) /\ UNCHANGED blocked
          \/ /\ RaisesBrokerError(a) /\ ~(ClassifiedRetryable(a) /\ MoreAttempts(o))
             /\ GiveUp(o, "failed") /\ UNCHANGED blocked
  /\ UNCHANGED <<limiterVars, vts, hasToken, misread>>

\* _cancel_order_with_retry(): an order that is closed cannot be cancelled again.
BrokerCancels(o, a) ==
  \/ /\ ToCancel(o) \in open /\ a \in Accepts \cup Unclear
     /\ open' = open \ {ToCancel(o)}
  \/ a \notin Accepts /\ UNCHANGED open

AnswerCancel(o) ==
  /\ o \in Cancels
  /\ \E a \in Answers \ {"unsupported"} :
       /\ Answered(o, a) /\ BrokerCancels(o, a)
       /\ \/ Accepted(a) /\ GiveUp(o, "cancelled")
          \/ NotAccepted(a) /\ TryAgain(o)       \* _is_retryable_broker_result()
          \/ RaisesBrokerError(a) /\ IsRetryable(a) /\ TryAgain(o)
          \/ /\ \/ Escapes(a) \/ NotAccepted(a)
                \/ RaisesBrokerError(a) /\ ~(IsRetryable(a) /\ MoreAttempts(o))
             /\ GiveUp(o, "raised")
  /\ UNCHANGED <<limiterVars, vts, hasToken, blocked, misread>>

\* _call_broker_poll_with_retry(list_open_orders): an answer without the list is
\* read as one with an empty list.
ReturnOpenOrders(o, list) ==
  /\ GiveUp(o, "returned")
  /\ misread' = IF list = open THEN misread ELSE misread \cup {o}

AnswerInquiry(o) ==
  /\ o \in Inquiries
  /\ \E a \in {b \in Answers : b = "unsupported" => vts} :
       /\ Answered(o, a)
       /\ \/ Accepted(a) /\ ReturnOpenOrders(o, open)
          \/ NotAccepted(a) /\ \E list \in {open, {}} : ReturnOpenOrders(o, list)
          \/ IsUnsupported(a) /\ ReturnOpenOrders(o, {})
          \/ /\ RaisesBrokerError(a) /\ ~IsUnsupported(a) /\ IsRetryable(a)
             /\ TryAgain(o) /\ UNCHANGED misread
          \/ /\ \/ Escapes(a)
                \/ RaisesBrokerError(a) /\ ~IsUnsupported(a) /\ ~(IsRetryable(a) /\ MoreAttempts(o))
             /\ GiveUp(o, "raised") /\ UNCHANGED misread
  /\ UNCHANGED <<limiterVars, vts, hasToken, blocked, open>>

-----------------------------------------------------------------------------
OperationStep(o) ==
  \/ PayloadIncomplete(o) \/ WaitForLimiter(o)
  \/ AnswerHash(o) \/ NoToken(o)
  \/ AnswerSubmit(o) \/ AnswerCancel(o) \/ AnswerInquiry(o)

TimePasses == Tick /\ UNCHANGED clientVars

Next == TimePasses \/ \E o \in Operations : OperationStep(o)

Spec == Init /\ [][Next]_vars

\* A request has a timeout and each job a thread of its own.
FairSpec == Spec /\ WF_vars(TimePasses) /\ \A o \in Operations : WF_vars(OperationStep(o))

-----------------------------------------------------------------------------
Orders == (Submits \X Attempts) \cup {<<o, 0>> : o \in Cancels}

(* An order that place_order() records as failed is not at the broker, unless *)
(* one of its attempts was answered by a server error or without a code:      *)
(* whatever else request() raises was really refused, and what the broker     *)
(* accepted is never mistaken for an error (request,                          *)
(* classify_submit_exception, classify_submit_result).                        *)
FailedIsNotBooked ==
  \A o \in Submits :
    outcome[o] = "failed" /\ answers[o] \cap {"server", "noCode"} = {} =>
      \A n \in Attempts : <<o, n>> \notin open

(* An inquiry that returns has the open orders the broker had when it         *)
(* answered: no error is read as "no open orders", with two exceptions: the   *)
(* simulated environment does not offer the inquiry, and an answer without a  *)
(* code may lack the list (list_open_orders, normalize_open_orders).          *)
InquiryIsTruthful ==
  \A o \in misread : "noCode" \in answers[o] \/ (vts /\ "unsupported" \in answers[o])

(* A cancel that is reported as done has closed the order, whichever of its   *)
(* attempts did it, and one that closes an order and does not say so was      *)
(* answered unclearly at least once (_cancel_order_with_retry).               *)
CancelIsTruthful ==
  \A o \in Cancels :
    /\ outcome[o] = "cancelled" => ToCancel(o) \notin open
    /\ outcome[o] = "raised" /\ ToCancel(o) \notin open => answers[o] \cap Unclear # {}

(* What its caller is told of an operation agrees with the broker.           *)
AnswersAreTruthful == FailedIsNotBooked /\ InquiryIsTruthful /\ CancelIsTruthful

(* Every operation ends, whatever the broker answers: the loops are bounded,  *)
(* and the limiter gives each request its turn in the end.                    *)
OperationsEnd == <>(\A o \in Operations : pc[o] = "done")
=============================================================================
