---------------------------- MODULE CircuitBreaker ----------------------------
(***************************************************************************)
(* utils.CircuitBreaker, shared by every request of one agent.  A call     *)
(* looks at the state before it awaits the request and reports the outcome *)
(* afterwards, so any number of calls may be in flight while the state     *)
(* changes under them.                                                     *)
(*                                                                         *)
(* Time is the age of the last failure: the code compares                  *)
(* time.time() - last_failure_time with recovery_timeout and uses neither  *)
(* for anything else, so ages past the timeout need not be told apart.     *)
(***************************************************************************)
EXTENDS Integers, FiniteSets

CONSTANTS
  Callers,            \* tasks that issue requests
  FailureThreshold,   \* failure_threshold
  RecoveryTimeout,    \* recovery_timeout
  MaxCount,           \* bound of the model: failure_count is capped there
  Never               \* last_failure_time is None

ASSUME ThresholdAssumption == FailureThreshold \in Nat \ {0}
ASSUME TimeoutAssumption == RecoveryTimeout \in Nat
ASSUME MaxCountAssumption == MaxCount \in Nat /\ MaxCount >= FailureThreshold
ASSUME NeverAssumption == Never \notin Int

VARIABLES
  state,          \* "CLOSED", "OPEN" or "HALF_OPEN"
  failureCount,
  sinceFailure,   \* time.time() - last_failure_time
  inCall          \* callers whose request is in flight

vars == <<state, failureCount, sinceFailure, inCall>>

RecoveryElapsed == sinceFailure # Never /\ sinceFailure > RecoveryTimeout

(* call() raises "Circuit breaker is OPEN" and changes nothing.            *)
Refused == state = "OPEN" /\ ~RecoveryElapsed
-----------------------------------------------------------------------------
Init ==
  /\ state = "CLOSED"
  /\ failureCount = 0
  /\ sinceFailure = Never
  /\ inCall = {}

AdmitAlways(c) ==     \* mutant: OPEN does not refuse
  /\ c \notin inCall
  /\ inCall' = inCall \cup {c}
  /\ state' = IF state = "OPEN" THEN "HALF_OPEN" ELSE state
  /\ UNCHANGED <<failureCount, sinceFailure>>

StartCall(c) ==
  /\ c \notin inCall
  /\ ~Refused
  /\ inCall' = inCall \cup {c}
  /\ state' = IF state = "OPEN" THEN "HALF_OPEN" ELSE state
  /\ UNCHANGED <<failureCount, sinceFailure>>

CallSucceeded(c) ==   \* _on_success
  /\ c \in inCall
  /\ inCall' = inCall \ {c}
  /\ state' = "CLOSED"
  /\ failureCount' = 0
  /\ UNCHANGED sinceFailure

FailedHalfOpen(c) ==  \* mutant: only a closed circuit opens
  /\ c \in inCall
  /\ inCall' = inCall \ {c}
  /\ failureCount' = IF failureCount < MaxCount THEN failureCount + 1
                     ELSE failureCount
  /\ sinceFailure' = 0
  /\ state' = IF state = "CLOSED" /\ failureCount' >= FailureThreshold
                THEN "OPEN" ELSE state

FailedUntimed(c) ==   \* mutant: last_failure_time is not set
  /\ c \in inCall
  /\ inCall' = inCall \ {c}
  /\ failureCount' = IF failureCount < MaxCount THEN failureCount + 1
                     ELSE failureCount
  /\ state' = IF failureCount' >= FailureThreshold THEN "OPEN" ELSE state
  /\ UNCHANGED sinceFailure

CallFailed(c) ==      \* _on_failure
  /\ c \in inCall
  /\ inCall' = inCall \ {c}
  /\ failureCount' = IF failureCount < MaxCount THEN failureCount + 1
                     ELSE failureCount
  /\ sinceFailure' = 0
  /\ state' = IF failureCount' >= FailureThreshold THEN "OPEN" ELSE state

CallNeutral(c) ==     \* PermanentClientError, or the task was cancelled
  /\ c \in inCall
  /\ inCall' = inCall \ {c}
  /\ UNCHANGED <<state, failureCount, sinceFailure>>

Tick ==
  /\ sinceFailure' = IF sinceFailure = Never \/ RecoveryElapsed
                       THEN sinceFailure ELSE sinceFailure + 1
  /\ UNCHANGED <<state, failureCount, inCall>>

CallEnds(c) == CallSucceeded(c) \/ CallFailed(c) \/ CallNeutral(c)

Next == Tick \/ \E c \in Callers : StartCall(c) \/ CallEnds(c)

Spec == Init /\ [][Next]_vars
-----------------------------------------------------------------------------
TypeOK ==
  /\ state \in {"CLOSED", "OPEN", "HALF_OPEN"}
  /\ failureCount \in 0 .. MaxCount
  /\ sinceFailure \in {Never} \cup (0 .. RecoveryTimeout + 1)
  /\ inCall \subseteq Callers

(* The circuit is closed exactly while fewer than FailureThreshold         *)
(* failures were reported in a row, in whatever order the calls in flight  *)
(* report; and a half-open circuit has seen no failure for longer than     *)
(* RecoveryTimeout, so a late failure of an old call reopens it at once.   *)
CountDecides ==
  /\ (state = "CLOSED") = (failureCount < FailureThreshold)
  /\ state # "CLOSED" => sinceFailure # Never
  /\ state = "HALF_OPEN" => RecoveryElapsed

IInv == TypeOK /\ CountDecides

(* Fail fast: after FailureThreshold failures without a success between    *)
(* them no request starts until RecoveryTimeout has passed since the       *)
(* latest failure, also when that failure was reported by a call that had  *)
(* been admitted before the circuit opened.                                *)
FailFast ==
  [][\A c \in Callers : c \in inCall' \ inCall =>
       failureCount < FailureThreshold \/ RecoveryElapsed]_vars

(* The part of Reopens that needs no fairness: while the circuit is open   *)
(* nobody joins the calls in flight, and the recovery period starts anew   *)
(* only at the price of one of them, so it is put off finitely often.      *)
OpeningRunsOut ==
  [][state = "OPEN" /\ state' = "OPEN" =>
       /\ inCall' \subseteq inCall
       /\ sinceFailure' >= sinceFailure \/ inCall' # inCall]_vars
-----------------------------------------------------------------------------
(* Fairness: time passes, every task of the agent keeps issuing requests   *)
(* (its loop sleeps and tries again), and httpx's timeout ends every one.  *)
Fairness ==
  /\ WF_vars(Tick)
  /\ \A c \in Callers : WF_vars(StartCall(c)) /\ WF_vars(CallEnds(c))

FairSpec == Spec /\ Fairness

(* An open circuit does not stay open: requests are tried again, even if   *)
(* the calls that were in flight when it opened fail late and extend the   *)
(* recovery period.                                                        *)
Reopens == []<>(state # "OPEN")
=============================================================================
