---------------------------- MODULE LifecycleProofs ----------------------------
(***************************************************************************)
(* The safety properties of Lifecycle, for any number of flushes, of       *)
(* calls of the application and of overlapping starts, and any cap.        *)
(***************************************************************************)
EXTENDS Lifecycle, FiniteSetTheorems, TLAPS

USE ConcurrencyAssumption, OverlappingAssumption, TasksAssumption, FlushersAssumption
    DEF Stops
-----------------------------------------------------------------------------
Loopwise == CancelledAlive /\ LoopsOwned /\ RunningFlushes

(* What is awaited stays so: nobody who is awaited ends unseen, loses its  *)
(* cancellation, or begins anew.                                           *)
LEMMA AwaitedStays ==
  ASSUME AwaitedEnd,
         \A s \in Callers : awaiting'[s] \subseteq awaiting[s],
         inflight' \subseteq inflight,
         \A x \in Tasks : Alive(x) => pc'[x] # "off",
         cancelled \subseteq cancelled',
         TypeOK
  PROVE  AwaitedEnd'
<1>1. \A w \in inflight : w \in Tasks
  BY DEF TypeOK, Tasks
<1>2. \A s \in Callers : \A x \in awaiting[s] : x \in Tasks
  BY DEF TypeOK
<1> QED
  BY <1>1, <1>2 DEF AwaitedEnd, Alive

LEMMA InitIInv == Init => IInv
<1> SUFFICES ASSUME Init PROVE IInv
  OBVIOUS
<1>1. TypeOK
  BY DEF Init, TypeOK
<1>2. Sending = {}
  BY DEF Init, Sending
<1>3. IsFiniteSet(holders) /\ Cardinality(holders) = 0
  BY FS_EmptySet DEF Init
<1>4. PermitsHeld
  BY <1>2, <1>3 DEF PermitsHeld
<1>5. CancelledAlive /\ LoopsOwned /\ RunningFlushes
  BY DEF Init, CancelledAlive, LoopsOwned, RunningFlushes, Alive, Tasks, Loops
<1>6. SemaphoreOwned /\ StrayClosed /\ ClientClosed
  BY <1>2 DEF Init, SemaphoreOwned, StrayClosed, Flushing, ClientClosed
<1>7. AwaitedEnd
  BY DEF Init, AwaitedEnd
<1> QED
  BY <1>1, <1>4, <1>5, <1>6, <1>7 DEF IInv
-----------------------------------------------------------------------------
(* Permits: what a step may do to the set of their holders. *)
LEMMA PermitFact ==
  ASSUME IsFiniteSet(holders), Cardinality(holders) <= MaxConcurrent,
         \/ holders' = {}
         \/ \E x : holders' = holders \ {x}
         \/ \E x : Cardinality(holders) < MaxConcurrent /\ holders' = holders \cup {x}
         \/ holders' = holders
  PROVE  IsFiniteSet(holders') /\ Cardinality(holders') <= MaxConcurrent
<1>0. Cardinality(holders) \in Nat
  BY FS_CardinalityType
<1>1. CASE holders' = {}
  BY <1>1, FS_EmptySet
<1>2. CASE \E x : holders' = holders \ {x}
  <2>1. IsFiniteSet(holders') /\ Cardinality(holders') <= Cardinality(holders)
    BY <1>2, FS_Subset
  <2>2. Cardinality(holders') \in Nat
    BY <2>1, FS_CardinalityType
  <2> QED
    BY <1>0, <2>1, <2>2
<1>3. CASE \E x : Cardinality(holders) < MaxConcurrent /\ holders' = holders \cup {x}
  <2>1. PICK x : Cardinality(holders) < MaxConcurrent /\ holders' = holders \cup {x}
    BY <1>3
  <2>2. /\ IsFiniteSet(holders')
        /\ Cardinality(holders') = Cardinality(holders) \/ Cardinality(holders') = Cardinality(holders) + 1
    BY <2>1, FS_AddElement
  <2> QED
    BY <1>0, <2>1, <2>2
<1>4. CASE holders' = holders
  BY <1>4
<1> QED
  BY <1>1, <1>2, <1>3, <1>4
-----------------------------------------------------------------------------
LEMMA StepStart ==
  ASSUME IInv, NEW x \in FlushLoops, Start(x)
  PROVE  IInv'
<1>1. x \in Tasks /\ "auto" \in Tasks /\ x # "auto" /\ pc[x] = "off"
  BY DEF Start, Alive, Tasks, Loops
<1>2. Sending' = Sending
  BY <1>1 DEF Start, StartAutoFlush, Sending, Alive, IInv, TypeOK
<1>3. TypeOK'
  <2>1. pc' \in [Tasks -> {"off", "ready", "sending"}]
    BY <1>1 DEF IInv, TypeOK, Start, StartAutoFlush
  <2>2. holders' \subseteq Tasks \ FlushLoops /\ leftover' \subseteq Tasks /\ semaphore' \in BOOLEAN
    BY DEF IInv, TypeOK, Start, StartAutoFlush, permitVars
  <2>3. running' \in BOOLEAN /\ current' \subseteq FlushLoops /\ open' \in BOOLEAN /\ strayed' \in BOOLEAN
    BY DEF Start
  <2> QED
    BY <2>1, <2>2, <2>3 DEF IInv, TypeOK, Start, flushVars, callVars
<1>4. Loopwise'
  <2>1. x \notin cancelled
    BY <1>1 DEF IInv, CancelledAlive, Alive
  <2>2. \A y \in Tasks : Alive(y) => pc'[y] # "off"
    BY <1>1 DEF IInv, TypeOK, Start, StartAutoFlush, Alive
  <2>3. pc'[x] # "off"
    BY <1>1 DEF IInv, TypeOK, Start, StartAutoFlush, Alive
  <2>4. \A y \in FlushLoops : pc'[y] # "off" => y = x \/ Alive(y)
    BY <1>1 DEF IInv, TypeOK, Start, StartAutoFlush, Alive, Tasks, Loops
  <2>5. CancelledAlive'
    BY <2>2 DEF IInv, TypeOK, CancelledAlive, Alive, Start, Loops, Tasks
  <2>6. LoopsOwned'
    BY <2>4 DEF IInv, LoopsOwned, Alive, Start
  <2> QED
    BY <2>1, <2>3, <2>5, <2>6 DEF Loopwise, RunningFlushes, Alive, Start
<1>5. SemaphoreOwned'
  BY DEF SemaphoreOwned, Start
<1>6. PermitsHeld'
  <2>1. holders' = {} \/ holders' = holders
    BY DEF Start, StartAutoFlush, permitVars
  <2>2. Sending' \ (FlushLoops \cup leftover') \subseteq holders'
    BY <1>2 DEF IInv, PermitsHeld, Start, StartAutoFlush, permitVars
  <2> QED
    BY <2>1, <2>2, PermitFact DEF IInv, PermitsHeld
<1>7. StrayClosed' /\ ClientClosed'
  BY DEF StrayClosed, Flushing, ClientClosed, Start
<1>8. AwaitedEnd'
  <2>1. \A y \in Tasks : Alive(y) => pc'[y] # "off"
    BY <1>1 DEF IInv, TypeOK, Start, StartAutoFlush, Alive
  <2> QED
    BY <2>1, AwaitedStays DEF IInv, Start, callVars
<1> QED
  BY <1>3, <1>4, <1>5, <1>6, <1>7, <1>8 DEF IInv, Loopwise

LEMMA StepReport == IInv /\ Report => IInv'
<1> SUFFICES ASSUME IInv, Report PROVE IInv'
  OBVIOUS
<1>1. \A y \in Tasks : pc'[y] = pc[y] \/ (y \in Workers /\ pc[y] = "off" /\ pc'[y] = "ready")
  BY DEF Report, IInv, TypeOK, Alive, Tasks
<1>2. Sending' = Sending
  BY <1>1 DEF Sending
<1>3. \A y \in Loops : pc'[y] = pc[y]
  BY <1>1 DEF Loops, Tasks
<1>4. TypeOK'
  BY DEF Report, IInv, TypeOK, clientVars, permitVars, callVars, history, Tasks
<1>5. Loopwise'
  BY <1>3 DEF IInv, TypeOK, Loopwise, CancelledAlive, LoopsOwned, RunningFlushes,
     Alive, Report, clientVars, Loops
<1>6. SemaphoreOwned' /\ PermitsHeld' /\ StrayClosed' /\ ClientClosed'
  BY <1>2 DEF IInv, SemaphoreOwned, Winding, PermitsHeld, StrayClosed, Flushing, ClientClosed,
     Stopped, Report, clientVars, permitVars, callVars, history
<1>7. AwaitedEnd'
  <2>1. \A w \in inflight' : pc'[w] # "off"
    BY <1>1 DEF Report, IInv, TypeOK, AwaitedEnd, Alive, Tasks
  <2>2. \A s \in Callers : \A x \in awaiting[s] : x \in Tasks
    BY DEF IInv, TypeOK
  <2> QED
    BY <1>1, <2>1, <2>2 DEF Report, IInv, AwaitedEnd, Alive, callVars
<1> QED
  BY <1>4, <1>5, <1>6, <1>7 DEF IInv, Loopwise
-----------------------------------------------------------------------------
(* Who ends leaves everyone's list. *)
LEMMA StillAwaited ==
  ASSUME TypeOK, AwaitedEnd, NEW x \in Tasks, Leave(x),
         \A y \in Tasks : y # x => pc'[y] = pc[y],
         cancelled \ {x} \subseteq cancelled'
  PROVE  AwaitedEnd'
<1>1. \A w \in inflight : w \in Tasks
  BY DEF TypeOK, Tasks
<1>2. \A s \in Callers : awaiting[s] \subseteq Tasks /\ awaiting'[s] = awaiting[s] \ {x}
  BY DEF TypeOK, Leave
<1>3. \A w \in inflight' : Alive(w)'
  BY <1>1 DEF AwaitedEnd, Leave, Alive
<1>4. \A s \in Callers : \A y \in awaiting'[s] :
        Alive(y)' /\ (y \in Workers \/ y \in cancelled')
  BY <1>2 DEF AwaitedEnd, Alive
<1> QED
  BY <1>3, <1>4 DEF AwaitedEnd

(* The turns of a task that begin no request. *)
LEMMA RestFact ==
  ASSUME IInv, NEW x \in Tasks, Alive(x), Rest(x), x \notin cancelled
  PROVE  /\ pc' \in [Tasks -> {"off", "ready", "sending"}]
         /\ inflight' \subseteq Workers
         /\ awaiting' \in [Callers -> SUBSET Tasks]
         /\ leftover' = leftover \ {x} /\ holders' = holders \ {x}
         /\ Sending' = Sending \ {x}
         /\ \A y \in Loops : Alive(y) <=> pc'[y] # "off"
<1>1. CASE x \in Loops
  <2>1. pc' = [pc EXCEPT ![x] = "ready"] /\ UNCHANGED <<inflight, awaiting>>
    BY <1>1 DEF Rest
  <2>2. /\ pc' \in [Tasks -> {"off", "ready", "sending"}] /\ pc'[x] = "ready"
        /\ \A y \in Tasks : y # x => pc'[y] = pc[y]
    BY <2>1 DEF IInv, TypeOK
  <2>3. Sending' = Sending \ {x}
    BY <2>2 DEF Sending
  <2> QED
    BY <1>1, <2>1, <2>2, <2>3 DEF IInv, TypeOK, Rest, Alive, Tasks
<1>2. CASE x \notin Loops
  <2>1. pc' = [pc EXCEPT ![x] = "off"] /\ Leave(x)
    BY <1>2 DEF Rest
  <2>2. awaiting' \in [Callers -> SUBSET Tasks]
    BY <2>1 DEF IInv, TypeOK, Leave
  <2>3. pc' \in [Tasks -> {"off", "ready", "sending"}] /\ \A y \in Tasks : y # x => pc'[y] = pc[y]
    BY <2>1 DEF IInv, TypeOK
  <2>4. Sending' = Sending \ {x}
    BY <2>1, <2>3 DEF IInv, TypeOK, Sending
  <2> QED
    BY <1>2, <2>1, <2>2, <2>3, <2>4 DEF IInv, TypeOK, Leave, Alive, Tasks
<1> QED
  BY <1>1, <1>2

LEMMA StepRest ==
  ASSUME IInv, NEW x \in Tasks, Alive(x), Rest(x), x \notin cancelled,
         UNCHANGED <<clientVars, open, cancelled, semaphore, calling, strayed>>,
         full' \in BOOLEAN, backingOff' \in BOOLEAN
  PROVE  IInv'
<1>1. TypeOK'
  BY RestFact DEF IInv, TypeOK, clientVars
<1>2. Loopwise'
  BY RestFact DEF IInv, TypeOK, Loopwise, CancelledAlive, LoopsOwned, RunningFlushes,
     Alive, clientVars, Loops
<1>3. PermitsHeld'
  BY RestFact, PermitFact DEF IInv, PermitsHeld
<1>4. SemaphoreOwned' /\ StrayClosed' /\ ClientClosed'
  BY RestFact DEF IInv, SemaphoreOwned, Winding, StrayClosed, Flushing, ClientClosed, Stopped,
     clientVars
<1>5. AwaitedEnd'
  <2>1. CASE x \in Loops
    <3>1. \A y \in Tasks : Alive(y) => pc'[y] # "off"
      BY <2>1 DEF IInv, TypeOK, Rest, Alive, Loops, Tasks
    <3> QED
      BY <2>1, <3>1, AwaitedStays DEF IInv, Rest, Loops, Tasks, TasksAssumption
  <2>2. CASE x \notin Loops
    <3>1. \A y \in Tasks : y # x => pc'[y] = pc[y]
      BY <2>2 DEF IInv, TypeOK, Rest
    <3>2. Leave(x)
      BY <2>2 DEF Rest
    <3> QED
      BY <3>1, <3>2, StillAwaited DEF IInv
  <2> QED
    BY <2>1, <2>2
<1> QED
  BY <1>1, <1>2, <1>3, <1>4, <1>5 DEF IInv, Loopwise

LEMMA StepDie ==
  ASSUME IInv, NEW x \in Tasks, Die(x)
  PROVE  IInv'
<1>1. /\ Sending' = Sending \ {x} /\ holders' = holders \ {x}
      /\ leftover' = leftover \ {x} /\ cancelled' = cancelled \ {x}
  BY DEF IInv, TypeOK, Die, Leave, Sending
<1>2. \A y \in Tasks : y # x => pc'[y] = pc[y]
  BY DEF IInv, TypeOK, Die
<1>3. TypeOK'
  BY DEF IInv, TypeOK, Die, Leave, clientVars, flushVars
<1>4. Loopwise'
  BY <1>1, <1>2 DEF IInv, TypeOK, Loopwise, CancelledAlive, LoopsOwned, RunningFlushes,
     Alive, Die, clientVars, Loops, Tasks
<1>5. PermitsHeld'
  BY <1>1, PermitFact DEF IInv, PermitsHeld
<1>6. SemaphoreOwned' /\ StrayClosed' /\ ClientClosed'
  BY <1>1 DEF IInv, SemaphoreOwned, Winding, StrayClosed, Flushing, ClientClosed, Stopped,
     Die, clientVars
<1>7. AwaitedEnd'
  BY <1>1, <1>2, StillAwaited DEF IInv, Die
<1> QED
  BY <1>3, <1>4, <1>5, <1>6, <1>7 DEF IInv, Loopwise

(* Who begins to flush: only somebody of a running agent, or of one that   *)
(* is being stopped.                                                       *)
LEMMA BeginFact ==
  ASSUME IInv, NEW x \in Tasks, Begin(x)
  PROVE  running \/ ~Stopped
<1>1. CASE x \in FlushLoops
  BY <1>1 DEF IInv, LoopsOwned, Begin, Alive
<1>2. CASE x \notin FlushLoops
  <2>1. running \/ Winding # {}
    BY <1>2 DEF Begin, Admitted, IInv, SemaphoreOwned
  <2> QED
    BY <2>1 DEF Winding, Stopped
<1> QED
  BY <1>1, <1>2

LEMMA StepBegin ==
  ASSUME IInv, NEW x \in Tasks, Begin(x)
  PROVE  IInv'
<1>1. /\ Sending' = Sending \cup {x}
      /\ \A y \in Tasks : Alive(y) <=> pc'[y] # "off"
  BY DEF IInv, TypeOK, Begin, Sending, Alive
<1>2. TypeOK'
  BY DEF IInv, TypeOK, Begin, clientVars, callVars, history, Tasks
<1>3. Loopwise'
  BY <1>1 DEF IInv, TypeOK, Loopwise, CancelledAlive, LoopsOwned, RunningFlushes,
     Alive, Begin, clientVars, Loops, Tasks
<1>4. PermitsHeld'
  <2>1. IsFiniteSet(holders') /\ Cardinality(holders') <= MaxConcurrent
    <3>1. \/ holders' = holders
          \/ Cardinality(holders) < MaxConcurrent /\ holders' = holders \cup {x}
      BY DEF Begin, Admitted
    <3> QED
      BY <3>1, PermitFact DEF IInv, PermitsHeld
  <2> QED
    BY <1>1, <2>1 DEF IInv, PermitsHeld, Begin, history
<1>5. SemaphoreOwned' /\ StrayClosed' /\ ClientClosed'
  BY BeginFact DEF IInv, SemaphoreOwned, Winding, StrayClosed, Flushing, ClientClosed, Stopped,
     Begin, clientVars, callVars, history
<1>6. AwaitedEnd'
  BY <1>1, AwaitedStays DEF IInv, Begin, callVars
<1> QED
  BY <1>2, <1>3, <1>4, <1>5, <1>6 DEF IInv, Loopwise

(* Steps that change neither tasks nor permits nor stops. *)
LEMMA StepQuietly ==
  ASSUME IInv,
         UNCHANGED <<clientVars, pc, cancelled, inflight, permitVars, callVars, history>>,
         full' \in BOOLEAN, backingOff' \in BOOLEAN,
         \/ open' = open
         \/ open' = TRUE /\ ~open /\ (Sending # {} \/ Flushing # {} \/ ~Stopped)
  PROVE  IInv'
<1> USE DEF clientVars, permitVars, callVars, history
<1>1. TypeOK'
  BY DEF IInv, TypeOK
<1>2. Loopwise'
  BY DEF IInv, Loopwise, CancelledAlive, LoopsOwned, RunningFlushes, Alive
<1>3. SemaphoreOwned' /\ PermitsHeld'
  BY DEF IInv, SemaphoreOwned, Winding, PermitsHeld, Sending
<1>4. Sending' = Sending /\ Stopped' = Stopped /\ Flushing' = Flushing
  BY DEF Sending, Stopped, Flushing
<1>5. StrayClosed' /\ ClientClosed'
  BY <1>4 DEF IInv, TypeOK, StrayClosed, Flushing, ClientClosed
<1>6. AwaitedEnd'
  BY AwaitedStays DEF IInv, Alive
<1> QED
  BY <1>1, <1>2, <1>3, <1>5, <1>6 DEF IInv, Loopwise

LEMMA StepTurn ==
  ASSUME IInv, NEW x \in Tasks, Turn(x)
  PROVE  IInv'
<1>1. CASE Begin(x)
  BY <1>1, StepBegin
<1>2. CASE Pass(x)
  BY <1>2, StepRest DEF Pass, Alive, IInv, TypeOK, flushVars
<1>3. CASE Sent(x)
  BY <1>3, StepRest DEF Sent, Alive, IInv, TypeOK
<1>4. CASE Retry(x)
  BY <1>4, StepQuietly DEF Retry, IInv, TypeOK, flushVars, Sending
<1>5. CASE Failed(x)
  BY <1>5, StepRest DEF Failed, Alive, IInv, TypeOK
<1>6. CASE Die(x)
  BY <1>6, StepDie
<1> QED
  BY <1>1, <1>2, <1>3, <1>4, <1>5, <1>6 DEF Turn
-----------------------------------------------------------------------------
(* stop(). *)

LEMMA CancelFact ==
  ASSUME IInv, NEW s \in Callers, NEW S \in SUBSET Loops, Cancel(s, S),
         UNCHANGED <<pc, inflight>>
  PROVE  AwaitedEnd'
<1>1. \A x \in awaiting'[s] : Alive(x) /\ x \in cancelled'
  BY DEF IInv, TypeOK, Cancel
<1>2. \A r \in Callers : r # s => awaiting'[r] = awaiting[r]
  BY DEF IInv, TypeOK, Cancel
<1>3. cancelled \subseteq cancelled'
  BY DEF Cancel
<1> QED
  BY <1>1, <1>2, <1>3 DEF IInv, AwaitedEnd, Alive

LEMMA StepStop ==
  ASSUME IInv, NEW s \in Callers, Stop(s)
  PROVE  IInv'
<1>1. /\ cancelled' = cancelled \cup {x \in current : Alive(x)}
      /\ calling'[s] = "loops" /\ \A r \in Callers : r # s => calling'[r] = calling[r]
  BY DEF IInv, TypeOK, Stop, Cancel
<1>2. TypeOK'
  BY DEF IInv, TypeOK, Stop, Cancel, flushVars, permitVars, history, Loops, Tasks
<1>3. Loopwise'
  BY <1>1 DEF IInv, TypeOK, Loopwise, CancelledAlive, LoopsOwned, RunningFlushes, Alive, Stop
<1>4. SemaphoreOwned' /\ ClientClosed'
  BY <1>1 DEF SemaphoreOwned, Winding, ClientClosed, Stopped
<1>5. PermitsHeld' /\ StrayClosed'
  BY DEF IInv, PermitsHeld, StrayClosed, Flushing, Sending, Stop, permitVars, history
<1>6. AwaitedEnd'
  BY CancelFact DEF IInv, TypeOK, Stop, Loops
<1> QED
  BY <1>2, <1>3, <1>4, <1>5, <1>6 DEF IInv, Loopwise

LEMMA StepLoopsEnded ==
  ASSUME IInv, NEW s \in Callers, LoopsEnded(s)
  PROVE  IInv'
<1>1. /\ cancelled' = cancelled \cup {x \in {"auto"} : Alive(x)}
      /\ calling'[s] = "auto" /\ \A r \in Callers : r # s => calling'[r] = calling[r]
  BY DEF IInv, TypeOK, LoopsEnded, Cancel
<1>2. TypeOK'
  BY DEF IInv, TypeOK, LoopsEnded, Cancel, clientVars, flushVars, permitVars, history, Loops, Tasks
<1>3. Loopwise'
  BY <1>1 DEF IInv, TypeOK, Loopwise, CancelledAlive, LoopsOwned, RunningFlushes, Alive,
     LoopsEnded, clientVars
<1>4. SemaphoreOwned' /\ ClientClosed'
  BY <1>1 DEF SemaphoreOwned, Winding, ClientClosed, Stopped
<1>5. PermitsHeld' /\ StrayClosed'
  BY DEF IInv, PermitsHeld, StrayClosed, Flushing, Sending, LoopsEnded, permitVars, history
<1>6. AwaitedEnd'
  BY CancelFact DEF LoopsEnded, Loops
<1> QED
  BY <1>2, <1>3, <1>4, <1>5, <1>6 DEF IInv, Loopwise

(* The semaphore is dropped: what is still sending is left over. *)
LEMMA StepQuiet ==
  ASSUME IInv, NEW s \in Callers, Quiet(s), calling[s] \in Stops,
         UNCHANGED <<clientVars, backingOff, pc, cancelled, awaiting, strayed>>
  PROVE  IInv'
<1>1. /\ calling' \in [Callers -> Stops \cup {"idle", "flushing"}]
      /\ calling'[s] \in Stops /\ calling[s] \in Stops
      /\ \A r \in Callers : r # s => calling'[r] = calling[r]
  <2>1. calling[s] \in Stops
    OBVIOUS
  <2> QED
    BY <2>1 DEF IInv, TypeOK, Quiet, FinalGate
<1>2. full' \in BOOLEAN /\ open' \in BOOLEAN /\ (open => open')
  BY DEF IInv, TypeOK, Quiet, FinalGate
<1>3. leftover' = leftover \cup (Sending \ FlushLoops) /\ Sending' = Sending
  BY DEF Quiet, FinalGate, Sending
<1>4. TypeOK'
  BY <1>1, <1>2, <1>3 DEF IInv, TypeOK, Quiet, clientVars, Sending
<1>5. Loopwise'
  BY DEF IInv, Loopwise, CancelledAlive, LoopsOwned, RunningFlushes, Alive, clientVars
<1>6. PermitsHeld'
  <2>1. IsFiniteSet(holders') /\ Cardinality(holders') <= MaxConcurrent
    BY PermitFact DEF IInv, PermitsHeld, Quiet
  <2> QED
    BY <1>3, <2>1 DEF PermitsHeld
<1>7. SemaphoreOwned' /\ StrayClosed' /\ ClientClosed'
  BY <1>1, <1>2, <1>3 DEF IInv, SemaphoreOwned, StrayClosed, Flushing, ClientClosed, Stopped, Quiet
<1>8. AwaitedEnd'
  BY AwaitedStays DEF IInv, Quiet, Alive
<1> QED
  BY <1>4, <1>5, <1>6, <1>7, <1>8 DEF IInv, Loopwise

(* stop() goes on without dropping the semaphore or returning. *)
LEMMA StepGather ==
  ASSUME IInv, NEW s \in Callers, Gather(s)
  PROVE  IInv'
<1>1. CASE inflight = {} /\ Quiet(s) /\ UNCHANGED awaiting
  BY <1>1, StepQuiet DEF Gather
<1>2. CASE /\ calling' = [calling EXCEPT ![s] = "gather"]
           /\ awaiting' = [awaiting EXCEPT ![s] = inflight]
           /\ UNCHANGED <<full, open, inflight, permitVars, leftover>>
  <2>1. calling'[s] = "gather" /\ \A r \in Callers : r # s => calling'[r] = calling[r]
    BY <1>2 DEF IInv, TypeOK
  <2>2. TypeOK'
    BY <1>2 DEF IInv, TypeOK, Gather, clientVars, permitVars, Tasks
  <2>3. Loopwise'
    BY DEF IInv, Loopwise, CancelledAlive, LoopsOwned, RunningFlushes, Alive, Gather, clientVars
  <2>4. SemaphoreOwned' /\ ClientClosed'
    BY <2>1 DEF SemaphoreOwned, Winding, ClientClosed, Stopped
  <2>5. PermitsHeld' /\ StrayClosed'
    BY <1>2 DEF IInv, PermitsHeld, StrayClosed, Flushing, Sending, Gather, permitVars
  <2>6. AwaitedEnd'
    BY <1>2 DEF IInv, TypeOK, AwaitedEnd, Gather, Alive
  <2> QED
    BY <2>2, <2>3, <2>4, <2>5, <2>6 DEF IInv, Loopwise
<1> QED
  BY <1>1, <1>2 DEF Gather

LEMMA StepFinalFlush ==
  ASSUME IInv, NEW s \in Callers, NEW sent \in BOOLEAN, FinalFlush(s, sent)
  PROVE  IInv'
<1>1. /\ calling'[s] = "close" /\ \A r \in Callers : r # s => calling'[r] = calling[r]
      /\ calling[s] = "sending"
  BY DEF IInv, TypeOK, FinalFlush
<1>2. TypeOK'
  BY DEF IInv, TypeOK, FinalFlush, clientVars, permitVars, history
<1>3. Loopwise'
  BY DEF IInv, Loopwise, CancelledAlive, LoopsOwned, RunningFlushes, Alive, FinalFlush, clientVars
<1>4. SemaphoreOwned' /\ ClientClosed'
  BY <1>1 DEF IInv, SemaphoreOwned, Winding, ClientClosed, Stopped, FinalFlush, clientVars, permitVars
<1>5. PermitsHeld' /\ StrayClosed'
  BY DEF IInv, PermitsHeld, StrayClosed, Flushing, Sending, FinalFlush, permitVars, history
<1>6. AwaitedEnd'
  BY AwaitedStays DEF IInv, FinalFlush, Alive
<1> QED
  BY <1>2, <1>3, <1>4, <1>5, <1>6 DEF IInv, Loopwise

LEMMA StepClose ==
  ASSUME IInv, NEW s \in Callers, Close(s)
  PROVE  IInv'
<1>1. /\ calling'[s] = "idle" /\ \A r \in Callers : r # s => calling'[r] = calling[r]
      /\ calling[s] = "close"
  BY DEF IInv, TypeOK, Close
<1>2. TypeOK'
  BY DEF IInv, TypeOK, Close, clientVars, flushVars, permitVars
<1>3. Loopwise'
  BY DEF IInv, Loopwise, CancelledAlive, LoopsOwned, RunningFlushes, Alive, Close, clientVars
<1>4. SemaphoreOwned'
  BY <1>1 DEF IInv, SemaphoreOwned, Winding, Close, clientVars, permitVars
<1>5. PermitsHeld' /\ StrayClosed' /\ ClientClosed'
  <2>1. Sending' = Sending /\ Flushing' \subseteq Flushing
    BY <1>1 DEF Sending, Flushing, Close
  <2> QED
    BY <2>1 DEF IInv, PermitsHeld, StrayClosed, ClientClosed, Close, permitVars
<1>6. AwaitedEnd'
  BY AwaitedStays DEF IInv, Close, Alive
<1> QED
  BY <1>2, <1>3, <1>4, <1>5, <1>6 DEF IInv, Loopwise

-----------------------------------------------------------------------------
(* The application's other calls. *)
LEMMA StepAsk == IInv /\ Ask => IInv'
<1> SUFFICES ASSUME IInv, Ask PROVE IInv'
  OBVIOUS
<1> USE DEF Ask, clientVars, flushVars, permitVars, callVars
<1>1. TypeOK'
  BY DEF IInv, TypeOK
<1>2. Loopwise'
  BY DEF IInv, Loopwise, CancelledAlive, LoopsOwned, RunningFlushes, Alive
<1>3. SemaphoreOwned' /\ PermitsHeld'
  BY DEF IInv, SemaphoreOwned, Winding, PermitsHeld, Sending
<1>4. StrayClosed' /\ ClientClosed'
  BY DEF IInv, StrayClosed, Flushing, ClientClosed, Late, Stopped
<1>5. AwaitedEnd'
  BY AwaitedStays DEF IInv, Alive
<1> QED
  BY <1>1, <1>2, <1>3, <1>4, <1>5 DEF IInv, Loopwise

LEMMA StepFlush ==
  ASSUME IInv, NEW s \in Callers, Flush(s)
  PROVE  IInv'
<1> USE DEF clientVars, permitVars
<1>1. /\ calling'[s] = "flushing" /\ calling[s] = "idle"
      /\ \A r \in Callers : r # s => calling'[r] = calling[r]
  BY DEF IInv, TypeOK, Flush
<1>2. TypeOK'
  BY DEF IInv, TypeOK, Flush
<1>3. Loopwise'
  BY DEF IInv, Loopwise, CancelledAlive, LoopsOwned, RunningFlushes, Alive, Flush
<1>4. SemaphoreOwned' /\ PermitsHeld'
  BY <1>1 DEF IInv, SemaphoreOwned, Winding, PermitsHeld, Sending, Flush
<1>5. Stopped' = Stopped
  BY <1>1 DEF Stopped
<1>6. StrayClosed' /\ ClientClosed'
  BY <1>5 DEF StrayClosed, Flushing, ClientClosed, Late, Flush
<1>7. AwaitedEnd'
  BY AwaitedStays DEF IInv, Flush, Alive
<1> QED
  BY <1>2, <1>3, <1>4, <1>6, <1>7 DEF IInv, Loopwise

LEMMA StepFlushed ==
  ASSUME IInv, NEW s \in Callers, NEW sent \in BOOLEAN, Flushed(s, sent)
  PROVE  IInv'
<1> USE DEF clientVars, permitVars, history
<1>1. /\ calling'[s] = "idle" /\ calling[s] = "flushing"
      /\ \A r \in Callers : r # s => calling'[r] = calling[r]
  BY DEF IInv, TypeOK, Flushed
<1>2. TypeOK'
  BY DEF IInv, TypeOK, Flushed
<1>3. Loopwise'
  BY DEF IInv, Loopwise, CancelledAlive, LoopsOwned, RunningFlushes, Alive, Flushed
<1>4. SemaphoreOwned' /\ PermitsHeld'
  BY <1>1 DEF IInv, SemaphoreOwned, Winding, PermitsHeld, Sending, Flushed
<1>5. Stopped' = Stopped /\ Sending' = Sending /\ Flushing' \subseteq Flushing
  BY <1>1 DEF Stopped, Sending, Flushing, Flushed
<1>6. StrayClosed' /\ ClientClosed'
  BY <1>5 DEF IInv, StrayClosed, Flushing, ClientClosed, Flushed
<1>7. AwaitedEnd'
  BY AwaitedStays DEF IInv, Flushed, Alive
<1> QED
  BY <1>2, <1>3, <1>4, <1>6, <1>7 DEF IInv, Loopwise

LEMMA StepRetryCall ==
  ASSUME IInv, NEW s \in Callers, RetryCall(s)
  PROVE  IInv'
<1>1. Flushing # {} \/ ~Stopped
  BY DEF RetryCall, Flushing, Stopped
<1> QED
  BY <1>1, StepQuietly DEF RetryCall, IInv, TypeOK, flushVars
-----------------------------------------------------------------------------
LEMMA StepNext == IInv /\ [Next]_vars => IInv'
<1> SUFFICES ASSUME IInv, [Next]_vars PROVE IInv'
  OBVIOUS
<1>1. CASE UNCHANGED vars
  BY <1>1 DEF vars, IInv, TypeOK, CancelledAlive, LoopsOwned, RunningFlushes, SemaphoreOwned,
     Winding, PermitsHeld, StrayClosed, Flushing, ClientClosed, Stopped, Sending, Alive, AwaitedEnd,
     clientVars, flushVars, permitVars, callVars, history
<1>2. CASE BackoffEnds
  BY <1>2, StepQuietly DEF BackoffEnds, IInv, TypeOK
<1>3. CASE Ask
  BY <1>3, StepAsk
<1>4. ASSUME NEW s \in Callers, Flush(s) \/ Calling(s) PROVE IInv'
  BY <1>4, StepFlush, StepFlushed, StepRetryCall DEF Calling
<1>5. ASSUME NEW s \in Callers, Stopping(s) PROVE IInv'
  <2>1. CASE Gathered(s)
    BY <2>1, StepQuiet DEF Gathered
  <2>2. CASE FinalFlush(s, TRUE) \/ FinalFlush(s, FALSE)
    BY <2>2, StepFinalFlush
  <2> QED
    BY <1>5, <2>1, <2>2, StepLoopsEnded, StepGather, StepClose DEF Stopping
<1> QED
  BY <1>1, <1>2, <1>3, <1>4, <1>5, StepStart, StepStop, StepReport, StepTurn DEF Next

(* Types, permits, loops and the client, in every reachable state. *)
THEOREM LifecycleInvariance == Spec => []IInv
  BY InitIInv, StepNext, PTL DEF Spec

(* Every variable keeps its type, whatever starts, stops and flushes       *)
(* overlap (start_auto_flush, stop_auto_flush, _auto_flush_loop).          *)
THEOREM TypeCorrect == Spec => []TypeOK
<1>1. IInv => TypeOK
  BY DEF IInv
<1> QED
  BY LifecycleInvariance, <1>1, PTL

(* stop() waits only for tasks that are alive and will end: watermark      *)
(* flushes, or loops that are cancelled and cannot be started anew         *)
(* (stop, stop_auto_flush, start_auto_flush).                              *)
THEOREM NobodyAwaitedInVain == Spec => []AwaitedEnd
<1>1. IInv => AwaitedEnd
  BY DEF IInv
<1> QED
  BY LifecycleInvariance, <1>1, PTL

(* At most max_concurrent_flushes flushes of the current semaphore send    *)
(* at the same time (_flush_if_needed).                                    *)
THEOREM CapHolds == Spec => []CapRespected
<1>1. IInv => CapRespected
  <2> SUFFICES ASSUME IInv PROVE CapRespected
    OBVIOUS
  <2>1. Cardinality(Sending \ (FlushLoops \cup leftover)) <= Cardinality(holders)
    BY FS_Subset DEF IInv, PermitsHeld
  <2>2. /\ Cardinality(holders) \in Nat
        /\ Cardinality(Sending \ (FlushLoops \cup leftover)) \in Nat
    BY FS_Subset, FS_CardinalityType DEF IInv, PermitsHeld
  <2> QED
    BY <2>1, <2>2 DEF IInv, PermitsHeld, CapRespected
<1> QED
  BY LifecycleInvariance, <1>1, PTL

(* An agent that says it is running has a flush loop that nobody has       *)
(* cancelled (start, stop).                                                *)
THEOREM LoopRuns == Spec => []RunningFlushes
<1>1. IInv => RunningFlushes
  BY DEF IInv
<1> QED
  BY LifecycleInvariance, <1>1, PTL

(* An agent that was stopped holds no open client, unless it was closed    *)
(* under a flush or the application has made a request since (stop, close, *)
(* _ensure_client_for_current_process).                                    *)
THEOREM StoppedIsClosed == Spec => []ClientClosed
<1>1. IInv => ClientClosed
  BY DEF IInv
<1> QED
  BY LifecycleInvariance, <1>1, PTL

(* After the last stop() has returned no task begins to flush (add_event's *)
(* watermark flushes find no semaphore, the loops are gone).               *)
THEOREM NothingLate == Spec => NoLateFlush
<1>1. IInv /\ [Next]_vars =>
        [\A x \in Tasks : pc[x] # "sending" /\ pc'[x] = "sending" =>
           running \/ ~Stopped]_vars
  <2> SUFFICES ASSUME IInv, Next, NEW y \in Tasks, pc[y] # "sending", pc'[y] = "sending"
               PROVE  running \/ ~Stopped
    OBVIOUS
  <2>1. \E x \in Tasks : Begin(x)
    BY DEF IInv, TypeOK, Next, Start, StartAutoFlush, Stop, Stopping, LoopsEnded, Gather,
       Gathered, FinalFlush, Close, Report, BackoffEnds, Turn, Pass, Sent, Retry, Failed,
       Die, Rest, Ask, Flush, Calling, Flushed, RetryCall
  <2> QED
    BY <2>1, BeginFact
<1> QED
  BY LifecycleInvariance, <1>1, PTL DEF Spec, NoLateFlush

(* stop() goes through its waits in order, and each of them can only grow  *)
(* shorter (stop, stop_auto_flush).                                        *)
THEOREM StopsShrink == Spec => StopsRunDown
<1> DEFINE Nearer(s) ==
      \/ <<calling[s], calling'[s]>> \in Onward
      \/ calling'[s] = calling[s] /\ awaiting'[s] \subseteq awaiting[s]
<1>1. IInv /\ [Next]_vars => [\A s \in Callers : calling[s] \in Stops => Nearer(s)]_vars
  <2> SUFFICES ASSUME IInv, Next, NEW s \in Callers, calling[s] \in Stops
               PROVE  Nearer(s)
    OBVIOUS
  <2>1. CASE calling'[s] = calling[s] /\ awaiting'[s] \subseteq awaiting[s]
    BY <2>1
  <2>2. ASSUME NEW x \in FlushLoops, Start(x) PROVE Nearer(s)
    BY <2>2 DEF Start, callVars
  <2>3. ASSUME NEW r \in Callers, Stop(r) \/ Stopping(r) PROVE Nearer(s)
    <3>1. CASE r # s
      <4>1. calling'[s] = calling[s]
        BY <2>3, <3>1 DEF IInv, TypeOK, Stop, Stopping, LoopsEnded, Gather, Gathered, Quiet,
           FinalGate, FinalFlush, Close
      <4>2. awaiting'[s] = awaiting[s]
        BY <2>3, <3>1 DEF IInv, TypeOK, Stop, Stopping, LoopsEnded, Cancel, Gather, Gathered,
           FinalFlush, Close
      <4> QED
        BY <4>1, <4>2
    <3>2. CASE r = s
      <4>1. <<calling[s], calling'[s]>> \in Onward
        BY <2>3, <3>2 DEF IInv, TypeOK, Onward, Stop, Stopping, LoopsEnded, Gather, Gathered,
           Quiet, FinalGate, FinalFlush, Close
      <4> QED
        BY <4>1
    <3> QED
      BY <3>1, <3>2
  <2>4. CASE Ask \/ Report \/ BackoffEnds
    BY <2>4 DEF Ask, Report, BackoffEnds, callVars
  <2>5. ASSUME NEW x \in Tasks, Turn(x) PROVE Nearer(s)
    <3>1. calling'[s] = calling[s]
      BY <2>5 DEF Turn, Begin, Pass, Sent, Retry, Failed, Die, callVars
    <3>2. awaiting'[s] \subseteq awaiting[s]
      BY <2>5 DEF IInv, TypeOK, Turn, Begin, Pass, Sent, Retry, Failed, Die, Rest, Leave,
         callVars
    <3> QED
      BY <3>1, <3>2
  <2>6. ASSUME NEW r \in Callers, Flush(r) \/ Calling(r) PROVE Nearer(s)
    <3>1. calling'[s] = calling[s] /\ awaiting' = awaiting
      BY <2>6 DEF IInv, TypeOK, Flush, Calling, Flushed, RetryCall, callVars
    <3> QED
      BY <3>1
  <2> QED
    BY <2>2, <2>3, <2>4, <2>5, <2>6 DEF Next
<1> QED
  BY LifecycleInvariance, <1>1, PTL DEF Spec, StopsRunDown
=============================================================================
