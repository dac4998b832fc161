------------------------- MODULE CircuitBreakerProofs -------------------------
(***************************************************************************)
(* The circuit breaker keeps its count and its state in step, and fails    *)
(* fast, for any number of callers, any threshold and any timeout.         *)
(***************************************************************************)
EXTENDS CircuitBreaker, TLAPS

LEMMA InitInv == Init => IInv
<1>. USE ThresholdAssumption, TimeoutAssumption, MaxCountAssumption
<1>. QED  BY DEF Init, IInv, TypeOK, CountDecides, RecoveryElapsed

(* A call that starts moves the state at most from OPEN to HALF_OPEN, and  *)
(* only when the recovery period of the latest failure is over.            *)
LEMMA StartInv ==
  ASSUME IInv, NEW c \in Callers, StartCall(c)
  PROVE  IInv'
<1>. USE DEF IInv, StartCall
<1>1. TypeOK'
  BY DEF TypeOK
<1>2. CountDecides'
  <2>1. CASE state = "OPEN"
    <3>1. RecoveryElapsed
      BY <2>1 DEF Refused
    <3>. QED  BY <2>1, <3>1 DEF CountDecides, RecoveryElapsed
  <2>2. CASE state # "OPEN"
    BY <2>2 DEF CountDecides, RecoveryElapsed
  <2>. QED  BY <2>1, <2>2
<1>. QED  BY <1>1, <1>2

LEMMA EndInv ==
  ASSUME IInv, NEW c \in Callers, CallEnds(c)
  PROVE  IInv'
<1>. USE ThresholdAssumption, TimeoutAssumption, MaxCountAssumption DEF IInv
<1>1. CASE CallSucceeded(c)
  <2>1. TypeOK'
    BY <1>1 DEF TypeOK, CallSucceeded
  <2>2. CountDecides'
    BY <1>1 DEF CountDecides, CallSucceeded
  <2>. QED  BY <2>1, <2>2
<1>2. CASE CallFailed(c)
  <2>1. TypeOK'
    BY <1>2 DEF TypeOK, CallFailed
  <2>2. failureCount' >= FailureThreshold => state' = "OPEN"
    BY <1>2 DEF CallFailed
  <2>3. failureCount' < FailureThreshold => state' = "CLOSED"
    BY <1>2 DEF TypeOK, CountDecides, CallFailed
  <2>4. sinceFailure' # Never
    BY <1>2, NeverAssumption DEF CallFailed
  <2>. QED  BY <2>1, <2>2, <2>3, <2>4 DEF TypeOK, CountDecides
<1>3. CASE CallNeutral(c)
  BY <1>3 DEF TypeOK, CountDecides, CallNeutral, RecoveryElapsed
<1>. QED  BY <1>1, <1>2, <1>3 DEF CallEnds

(* Time only ages the last failure, so a recovery that has elapsed stays   *)
(* elapsed.                                                                *)
LEMMA TickInv ==
  ASSUME IInv, Tick
  PROVE  IInv'
<1>. USE TimeoutAssumption, NeverAssumption DEF IInv, Tick
<1>1. TypeOK'
  BY DEF TypeOK, RecoveryElapsed
<1>2. RecoveryElapsed => RecoveryElapsed'
  BY DEF RecoveryElapsed
<1>3. sinceFailure # Never => sinceFailure' # Never
  BY DEF TypeOK, RecoveryElapsed
<1>. QED  BY <1>1, <1>2, <1>3 DEF CountDecides

LEMMA StepInv == IInv /\ [Next]_vars => IInv'
<1>. SUFFICES ASSUME IInv, [Next]_vars
              PROVE  IInv'
  OBVIOUS
<1>1. CASE Next
  BY <1>1, StartInv, EndInv, TickInv DEF Next
<1>2. CASE UNCHANGED vars
  BY <1>2 DEF vars, IInv, TypeOK, CountDecides, RecoveryElapsed
<1>. QED  BY <1>1, <1>2

(* The circuit is closed exactly while fewer than FailureThreshold         *)
(* failures were reported in a row, and half open only after a whole       *)
(* recovery period without one (CircuitBreaker.call, _on_failure).         *)
THEOREM BreakerInvariance == Spec => []IInv
BY InitInv, StepInv, PTL DEF Spec

(* No request starts after FailureThreshold failures in a row before       *)
(* RecoveryTimeout has passed since the latest (CircuitBreaker.call).      *)
THEOREM FailsFast == Spec => FailFast
<1>1. ASSUME IInv, [Next]_vars
      PROVE  [\A c \in Callers : c \in inCall' \ inCall =>
                failureCount < FailureThreshold \/ RecoveryElapsed]_vars
  <2>. SUFFICES ASSUME Next, NEW c \in Callers, c \in inCall' \ inCall
                PROVE  failureCount < FailureThreshold \/ RecoveryElapsed
    BY <1>1
  <2>1. StartCall(c)
    BY DEF Next, Tick, StartCall, CallEnds, CallSucceeded, CallFailed,
           CallNeutral
  <2>2. CASE state = "CLOSED"
    BY <1>1, <2>2 DEF IInv, CountDecides
  <2>3. CASE state # "CLOSED"
    BY <1>1, <2>1, <2>3 DEF IInv, TypeOK, CountDecides, StartCall, Refused
  <2>. QED  BY <2>2, <2>3
<1>. QED  BY <1>1, BreakerInvariance, PTL DEF Spec, FailFast

(* An open circuit is kept open only by failures of calls that were in     *)
(* flight when it opened, each once (CircuitBreaker.call, _on_failure).    *)
THEOREM OpenEnds == Spec => OpeningRunsOut
<1>1. ASSUME IInv, [Next]_vars
      PROVE  [state = "OPEN" /\ state' = "OPEN" =>
                /\ inCall' \subseteq inCall
                /\ sinceFailure' >= sinceFailure \/ inCall' # inCall]_vars
  <2>. SUFFICES ASSUME Next, state = "OPEN", state' = "OPEN"
                PROVE  /\ inCall' \subseteq inCall
                       /\ sinceFailure' >= sinceFailure \/ inCall' # inCall
    BY <1>1
  <2>1. sinceFailure \in Int
    BY <1>1, TimeoutAssumption DEF IInv, TypeOK, CountDecides
  <2>2. CASE Tick
    BY <2>1, <2>2 DEF Tick
  <2>3. ASSUME NEW c \in Callers, StartCall(c)
        PROVE  FALSE
    BY <2>3 DEF StartCall
  <2>4. ASSUME NEW c \in Callers, CallEnds(c)
        PROVE  inCall' \subseteq inCall /\ inCall' # inCall
    BY <2>4 DEF CallEnds, CallSucceeded, CallFailed, CallNeutral
  <2>. QED  BY <2>2, <2>3, <2>4 DEF Next
<1>. QED  BY <1>1, BreakerInvariance, PTL DEF Spec, OpeningRunsOut
=============================================================================
