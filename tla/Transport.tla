------------------------------- MODULE Transport ------------------------------
(***************************************************************************)
(* The HTTP transport: concurrent sends that share one circuit breaker and *)
(* one rate limiter.  A caller's send works through a stack of segments of *)
(* its batch: the whole batch at first, and its two halves whenever the    *)
(* collector answers 413.  Each segment gets retry_attempts + 1 attempts.  *)
(*                                                                         *)
(* A send is one of the public operations: "batch" (send_events and        *)
(* send_metrics), "status" (send_status) or "rules" (fetch_dynamic_rules,  *)
(* which goes through _get_with_retry).                                    *)
(***************************************************************************)
EXTENDS Integers, Sequences, FiniteSetsExt, Functions

CONSTANTS
  Callers,
  Kinds,          \* the operations that each caller performs
  MaxBatch,       \* largest batch
  RetryAttempts,  \* config.retry_attempts
  MaxDelay,       \* cap of calculate_backoff_delay
  RetryAfters,    \* values a 429 response carries in Retry-After
  MaxRetryAfter,  \* _MAX_RETRY_AFTER_SECONDS
  MaxCalls, Window,                                   \* RateLimiter
  FailureThreshold, RecoveryTimeout, MaxCount, Never  \* CircuitBreaker

ASSUME KindAssumption ==
  Kinds \in [Callers -> (SUBSET {"batch", "status", "rules"}) \ {{}}]
ASSUME RetryAssumption == /\ RetryAttempts \in Nat
                          /\ MaxDelay \in Nat /\ MaxRetryAfter \in Nat
                          /\ RetryAfters \subseteq Nat
ASSUME BatchAssumption == MaxBatch \in Nat \ {0}
ASSUME LimiterAssumption == MaxCalls \in Nat \ {0} /\ Window \in Nat \ {0}
ASSUME BreakerAssumption ==
  /\ FailureThreshold \in Nat \ {0} /\ RecoveryTimeout \in Nat
  /\ MaxCount \in Nat /\ MaxCount >= FailureThreshold
  /\ Never \notin Int

VARIABLES
  todo,       \* segments <<first, last>> still to be sent, the next one first
  attempt,    \* attempt of _send_with_retry on the first of them
  ok          \* what the segments sent so far returned, combined with "and"

VARIABLES calls, wait, granted, fresh                  \* RateLimiter
VARIABLES state, failureCount, sinceFailure, inCall    \* CircuitBreaker

(* The current, or else the latest, send of each caller, and its history.  *)
VARIABLES
  kind,       \* which operation it is
  size,       \* items in its batch
  settled,    \* items the collector acknowledged or rejected for good
  requests,   \* HTTP requests it made
  starved     \* callers denied the last attempt on a segment, before any trouble

(* History: some request failed for a passing reason, or a caller was      *)
(* cancelled.                                                              *)
VARIABLE trouble

Limiter == INSTANCE RateLimiter
Breaker == INSTANCE CircuitBreaker

sendVars    == <<todo, attempt, ok>>
operation   == <<kind, size, starved>>
limiterVars == <<calls, wait, granted, fresh>>
breakerVars == <<state, failureCount, sinceFailure, inCall>>
history     == <<operation, settled, requests, trouble>>
vars == <<sendVars, limiterVars, breakerVars, history>>

Sending(s) == todo[s] # <<>>
Segment(s) == Head(todo[s])[1] .. Head(todo[s])[2]

HalvesOverlap(g) ==   \* mutant: both halves hold the middle item
  LET mid == (g[1] + g[2]) \div 2 IN << <<g[1], mid>>, <<mid, g[2]>> >>
HalvesDropLast(g) ==  \* mutant: the second half ends one item early
  LET mid == g[1] + ((g[2] - g[1] + 1) \div 2) - 1
  IN << <<g[1], mid>>, <<mid + 1, Max({mid + 1, g[2] - 1})>> >>
Halves(g) ==          \* items[:midpoint], items[midpoint:]
  LET mid == g[1] + ((g[2] - g[1] + 1) \div 2) - 1
  IN << <<g[1], mid>>, <<mid + 1, g[2]>> >>

Backoff(n) == Min({2^n, MaxDelay})   \* calculate_backoff_delay(attempt)
-----------------------------------------------------------------------------
Init ==
  /\ Limiter!Init
  /\ Breaker!Init
  /\ kind = [s \in Callers |-> CHOOSE k \in Kinds[s] : TRUE]
  /\ todo = [s \in Callers |-> <<>>]
  /\ attempt = [s \in Callers |-> 0]
  /\ ok = [s \in Callers |-> TRUE]
  /\ size = [s \in Callers |-> 0]
  /\ settled = [s \in Callers |-> {}]
  /\ requests = [s \in Callers |-> 0]
  /\ starved = {}
  /\ trouble = FALSE

(* send_events(events), send_metrics(metrics), send_status(status),        *)
(* fetch_dynamic_rules(); an empty batch returns True at once.             *)
Send(s, k, n) ==
  /\ ~Sending(s)
  /\ k # "batch" => n = 1
  /\ kind' = [kind EXCEPT ![s] = k]
  /\ todo' = [todo EXCEPT ![s] = << <<1, n>> >>]
  /\ attempt' = [attempt EXCEPT ![s] = 0]
  /\ ok' = [ok EXCEPT ![s] = TRUE]
  /\ size' = [size EXCEPT ![s] = n]
  /\ settled' = [settled EXCEPT ![s] = {}]
  /\ requests' = [requests EXCEPT ![s] = 0]
  /\ starved' = starved \ {s}
  /\ UNCHANGED <<limiterVars, breakerVars, trouble>>

(* The segment is done with result r; _send_with_retry begins with the     *)
(* next one, or the send returns.                                          *)
Return(s, r) ==
  /\ todo' = [todo EXCEPT ![s] = Tail(@)]
  /\ attempt' = [attempt EXCEPT ![s] = 0]
  /\ ok' = [ok EXCEPT ![s] = @ /\ r]

(* The attempt failed; the caller sleeps before the next one, if any.      *)
Retry(s, delay) ==
  /\ attempt' = [attempt EXCEPT ![s] = @ + 1]
  /\ wait' = [wait EXCEPT ![s] = IF attempt[s] < RetryAttempts THEN delay ELSE 0]
  /\ UNCHANGED <<todo, ok>>

Ready(s) == Sending(s) /\ s \notin inCall /\ wait[s] = 0
TryingOnceMore(s) == Ready(s) /\ attempt[s] <= RetryAttempts + 1   \* mutant
Trying(s) == Ready(s) /\ attempt[s] <= RetryAttempts

ThrottledFree(s) ==     \* mutant: a denial takes no attempt
  /\ Trying(s)
  /\ Limiter!Deny(s)
  /\ UNCHANGED <<sendVars, breakerVars, history>>

(* The limiter denies: the denial takes an attempt, the last one too.      *)
Throttled(s) ==
  /\ Trying(s)
  /\ Limiter!Deny(s)
  /\ attempt' = [attempt EXCEPT ![s] = @ + 1]
  /\ starved' = IF attempt[s] < RetryAttempts \/ trouble THEN starved ELSE starved \cup {s}
  /\ UNCHANGED <<todo, ok, breakerVars, kind, size, settled, requests, trouble>>

RequestUnguarded(s) ==  \* mutant: the breaker is not asked
  /\ Trying(s)
  /\ Limiter!Grant(s)
  /\ Breaker!AdmitAlways(s)
  /\ requests' = [requests EXCEPT ![s] = @ + 1]
  /\ UNCHANGED <<sendVars, operation, settled, trouble>>

Request(s) ==
  /\ Trying(s)
  /\ Limiter!Grant(s)
  /\ Breaker!StartCall(s)
  /\ requests' = [requests EXCEPT ![s] = @ + 1]
  /\ UNCHANGED <<sendVars, operation, settled, trouble>>

(* The breaker is open: the grant of the limiter is used up all the same.  *)
Refused(s) ==
  /\ Trying(s)
  /\ Limiter!Admit
  /\ Breaker!Refused
  /\ Retry(s, Backoff(attempt[s]))
  /\ UNCHANGED <<breakerVars, history>>

Exhausted(s) ==
  /\ Ready(s)
  /\ attempt[s] > RetryAttempts
  /\ Return(s, FALSE)
  /\ UNCHANGED <<limiterVars, breakerVars, history>>
-----------------------------------------------------------------------------
(* The outcomes of a request (_handle_response, _evaluate_send_result).    *)

Settle(s) == settled' = [settled EXCEPT ![s] = @ \cup Segment(s)]

Accepted(s) ==    \* 200 or 201
  /\ Breaker!CallSucceeded(s)
  /\ Return(s, TRUE)
  /\ Settle(s)
  /\ UNCHANGED <<limiterVars, operation, requests, trouble>>

Partial(s) ==     \* 200 with success=False or errors
  /\ kind[s] # "rules"
  /\ Breaker!CallSucceeded(s)
  /\ Return(s, FALSE)
  /\ trouble' = TRUE
  /\ UNCHANGED <<limiterVars, operation, settled, requests>>

Unusable(s) ==    \* no verdict: unparsable 200, other 4xx; no sleep
  /\ Breaker!CallSucceeded(s)
  /\ Retry(s, 0)
  /\ trouble' = TRUE
  /\ UNCHANGED <<calls, granted, fresh, operation, settled, requests>>

TooMany(s, r) ==  \* 429
  /\ Breaker!CallFailed(s)
  /\ Retry(s, Min({r, MaxRetryAfter}))
  /\ trouble' = TRUE
  /\ UNCHANGED <<calls, granted, fresh, operation, settled, requests>>

Failed(s) ==      \* 5xx, 401, 403, timeout, connection lost
  /\ Breaker!CallFailed(s)
  /\ Retry(s, Backoff(attempt[s]))
  /\ trouble' = TRUE
  /\ UNCHANGED <<calls, granted, fresh, operation, settled, requests>>

(* What the operations make of a permanent rejection: batches are dropped, *)
(* a status is given up, a fetch of the rules is retried all the same.     *)
GiveUp(s) ==
  \/ /\ kind[s] = "batch"
     /\ Return(s, TRUE)
     /\ Settle(s)
     /\ UNCHANGED wait
  \/ /\ kind[s] = "status"
     /\ Return(s, FALSE)
     /\ UNCHANGED <<settled, wait>>
  \/ /\ kind[s] = "rules"
     /\ Retry(s, Backoff(attempt[s]))
     /\ UNCHANGED settled

RejectedTrips(s) ==   \* mutant: the breaker counts it
  /\ Breaker!CallFailed(s)
  /\ GiveUp(s)
  /\ UNCHANGED <<calls, granted, fresh, operation, requests, trouble>>

Rejected(s) ==    \* 400, 404, 422
  /\ Breaker!CallNeutral(s)
  /\ GiveUp(s)
  /\ UNCHANGED <<calls, granted, fresh, operation, requests, trouble>>

Splits(s) == kind[s] = "batch" /\ Cardinality(Segment(s)) > 1

TooLargeAgain(s) ==   \* mutant: a single item is sent again
  /\ Breaker!CallNeutral(s)
  /\ todo' = [todo EXCEPT ![s] = IF Splits(s) THEN Halves(Head(@)) \o Tail(@) ELSE @]
  /\ attempt' = [attempt EXCEPT ![s] = 0]
  /\ UNCHANGED <<ok, settled, limiterVars, operation, requests, trouble>>

TooLarge(s) ==    \* 413
  /\ Breaker!CallNeutral(s)
  /\ \/ /\ Splits(s)
        /\ todo' = [todo EXCEPT ![s] = Halves(Head(@)) \o Tail(@)]
        /\ attempt' = [attempt EXCEPT ![s] = 0]
        /\ UNCHANGED <<ok, settled, wait>>
     \/ ~Splits(s) /\ GiveUp(s)
  /\ UNCHANGED <<calls, granted, fresh, operation, requests, trouble>>

(* The caller is cancelled: CancelledError passes the breaker uncounted.   *)
Cancelled(s) ==
  /\ Sending(s)
  /\ IF s \in inCall THEN Breaker!CallNeutral(s) ELSE UNCHANGED breakerVars
  /\ todo' = [todo EXCEPT ![s] = <<>>]
  /\ attempt' = [attempt EXCEPT ![s] = 0]
  /\ ok' = [ok EXCEPT ![s] = FALSE]
  /\ wait' = [wait EXCEPT ![s] = 0]
  /\ fresh' = fresh \ {s}
  /\ trouble' = TRUE
  /\ UNCHANGED <<calls, granted, operation, settled, requests>>

Tick ==
  /\ Limiter!Elapse
  /\ Breaker!Tick
  /\ UNCHANGED <<sendVars, operation, settled, requests, trouble>>
-----------------------------------------------------------------------------
Reply(s) ==
  \/ Accepted(s) \/ Partial(s) \/ Unusable(s) \/ Failed(s)
  \/ Rejected(s) \/ TooLarge(s) \/ \E r \in RetryAfters : TooMany(s, r)

Step(s) == Throttled(s) \/ Request(s) \/ Refused(s) \/ Exhausted(s) \/ Reply(s)

Next ==
  \/ Tick
  \/ \E s \in Callers :
       \/ \E k \in Kinds[s], n \in 1 .. MaxBatch : Send(s, k, n)
       \/ Step(s) \/ Cancelled(s)

Spec == Init /\ [][Next]_vars
-----------------------------------------------------------------------------
TypeOK ==
  /\ Limiter!TypeOK
  /\ Breaker!TypeOK
  /\ kind \in [Callers -> {"batch", "status", "rules"}]
  /\ todo \in [Callers -> Seq((1 .. MaxBatch) \X (1 .. MaxBatch))]
  /\ attempt \in [Callers -> 0 .. RetryAttempts + 1]
  /\ ok \in [Callers -> BOOLEAN]
  /\ size \in [Callers -> 0 .. MaxBatch]
  /\ settled \in [Callers -> SUBSET (1 .. MaxBatch)]
  /\ requests \in [Callers -> Nat]
  /\ starved \subseteq Callers
  /\ trouble \in BOOLEAN

Returned(s) == ~Sending(s) /\ kind[s] = "batch"

(* True means that the caller may delete the Redis records: every item of  *)
(* the batch was acknowledged by the collector or rejected for good,       *)
(* whatever halves the batch was cut into and however they fared           *)
(* (send_events' docstring, _transport_send.py:35-42).                     *)
TrueMeansSettled == \A s \in Callers : Returned(s) /\ ok[s] => settled[s] = 1 .. size[s]

(* False is for passing failures, cancellations, and denials by the        *)
(* agent's own limiter of this very send.  While no request fails in       *)
(* passing and nobody is cancelled, a batch comes back only if the limiter *)
(* denied every attempt on one of its segments (which its own halves or    *)
(* another task's requests may bring on), and never because of a           *)
(* rejection: those open the circuit for nobody (CHANGELOG.md:210-211).    *)
FalseMeansTrouble ==
  \A s \in Callers : Returned(s) /\ ~ok[s] => trouble \/ s \in starved

(* An item that was acknowledged is not sent again by the same send: the   *)
(* halves of a split never overlap.                                        *)
SentOnce ==
  [][\A s \in Callers : Request(s) => Segment(s) \cap settled[s] = {}]_vars

(* A send makes at most retry_attempts + 1 requests for each of the at     *)
(* most 2n - 1 segments that a batch of n items can be split into.         *)
FewRequests ==
  \A s \in Callers : requests[s] <= (2 * size[s] - 1) * (RetryAttempts + 1)
                       \/ size[s] = 0

(* What the properties above rest on.  The segments still to be sent lie   *)
(* end to end and reach to the end of the batch; what was settled lies     *)
(* before them, without a gap as long as the send may return True.         *)
Chain ==
  \A s \in Callers : \A n \in 1 .. Len(todo[s]) :
    /\ todo[s][n][1] <= todo[s][n][2]
    /\ todo[s][n][1] + (Len(todo[s]) - n) <= size[s]
    /\ todo[s][n][2] = IF n = Len(todo[s]) THEN size[s] ELSE todo[s][n + 1][1] - 1

Done(s) == IF Sending(s) THEN Head(todo[s])[1] - 1 ELSE size[s]
Progress ==
  \A s \in Callers : /\ settled[s] \subseteq 1 .. Done(s)
                     /\ ok[s] => settled[s] = 1 .. Done(s)

(* A request belongs to an attempt of a send, and whoever is in a request  *)
(* has been granted one since it was last denied.                          *)
InFlight ==
  \A s \in inCall : Sending(s) /\ attempt[s] <= RetryAttempts /\ s \notin fresh

(* Every segment sent so far, or put aside by a split, has used up at most *)
(* its own attempts.                                                       *)
Budget ==
  \A s \in Callers : Sending(s) =>
    requests[s] <= (2 * Done(s) + Len(todo[s]) - 1) * (RetryAttempts + 1)
                   + attempt[s] + (IF s \in inCall THEN 1 ELSE 0)

(* Without a passing failure the circuit stays closed, and only denials    *)
(* use up the attempts of a batch.                                         *)
Untroubled ==
  ~trouble => /\ state = "CLOSED"
              /\ \A s \in Callers \ starved : kind[s] = "batch" =>
                   ok[s] /\ attempt[s] <= RetryAttempts

LimiterInv == Limiter!OldestFirst /\ Limiter!GrantsKept /\ Limiter!SleepsLongEnough

IInv == /\ TypeOK
        /\ Chain /\ Progress /\ InFlight /\ Budget /\ FewRequests /\ Untroubled
        /\ LimiterInv

(* The callers use the breaker as its own specification says, so what is   *)
(* proved of the breaker holds in the transport.                           *)
BreakerSpec == Breaker!Spec

(* No window of time_window seconds sees more than max_calls grants, the   *)
(* ones that are spent on an open breaker included.                        *)
WindowBound == Limiter!WindowBound

(* A caller that was denied and slept for get_retry_after is admitted when *)
(* it wakes unless somebody else was granted meanwhile: no attempt of its  *)
(* retry loop is wasted on sleeping too short.                             *)
RetryAfterSuffices == Limiter!RetryAfterSuffices
-----------------------------------------------------------------------------
(* Fairness: time passes, sleepers wake, and every request ends.           *)
FairSpec == Spec /\ WF_vars(Tick) /\ \A s \in Callers : WF_vars(Step(s))

(* A bound on the steps that a send still takes: each segment that may     *)
(* still come has its attempts, two steps each, and is given up in two.    *)
Left(s) ==
  IF Sending(s)
  THEN 2 * ((2 * (size[s] - Done(s)) - Len(todo[s])) * (RetryAttempts + 2)
              - attempt[s])
         - (IF s \in inCall THEN 1 ELSE 0)
  ELSE 0

(* What lets every send return: each step of its caller (an answer, a      *)
(* denial, a refusal, a split, the end of a segment) brings it nearer to   *)
(* its end, and nothing that the others do moves it away (_transport_send. *)
(* py:121-124, 197-236).                                                   *)
RunsDown ==
  [][\A s \in Callers : Sending(s) =>
       IF Step(s) THEN Left(s)' \in 0 .. Left(s) - 1
                  ELSE Left(s)' \in {0, Left(s)}]_vars

(* Every send returns, whatever the collector answers.                     *)
SendReturns == \A s \in Callers : []<>~Sending(s)
=============================================================================
