--------------------------- MODULE SyncHandlerProofs ---------------------------
(***************************************************************************)
(* OneLoop and NobodyStranded of SyncHandler, for any number of threads.   *)
(***************************************************************************)
EXTENDS SyncHandler, FiniteSetTheorems, TLAPS

USE NoLoopAssumption
-----------------------------------------------------------------------------
(* A thread that is past the middle of the constructor finds a loop in     *)
(* _loop.                                                                  *)
MadeOne == \A t \in Threads : pc[t] \notin {"new", "checked"} => loop # NoLoop

(* Without a race one thread at most is past the check, before there is a  *)
(* loop, and the loop that it makes stays the only one.                    *)
OneMaker ==
  ~raced => /\ \A t, u \in Checked : t = u
            /\ Checked # {} => loop = NoLoop
            /\ served \subseteq {loop} \ {NoLoop}

(* Until it is stopped, the loop of a process runs or is about to run.     *)
LoopServed ==
  /\ ~stopped => ending = {}
  /\ Calm /\ loop # NoLoop => loop \in served \/ \E u \in Threads : pc[u] = "made"

(* A call is handed to the handler's loop and, without a race, stays there. *)
Handed ==
  \A t \in Threads : Waiting(t) =>
    coroutine[t] \in {"given", "done"} /\ (Calm => of[t] = loop)

IInv == TypeOK /\ MadeOne /\ OneMaker /\ LoopServed /\ Handed

LEMMA InitIInv == Init => IInv
  BY DEF Init, IInv, TypeOK, Kinds, MadeOne, OneMaker, Checked, LoopServed, Handed, Waiting

LEMMA StepConstruct ==
  ASSUME IInv, NEW t \in Threads, Construct(t)
  PROVE  IInv'
<1>1. TypeOK'
  BY DEF IInv, TypeOK, Construct, loopVars
<1>2. MadeOne'
  BY DEF IInv, TypeOK, MadeOne, Construct, loopVars
<1>3. OneMaker'
  <2>1. CASE loop # NoLoop
    <3>1. Checked' = Checked
      BY <2>1 DEF IInv, TypeOK, Construct, Checked
    <3> QED
      BY <2>1, <3>1 DEF IInv, OneMaker, Construct, loopVars
  <2>2. CASE loop = NoLoop
    <3>1. Checked' = Checked \cup {t} /\ raced' = (raced \/ Checked # {})
      BY <2>2 DEF IInv, TypeOK, Construct, Checked
    <3> QED
      BY <2>2, <3>1 DEF IInv, OneMaker, Construct, loopVars
  <2> QED
    BY <2>1, <2>2
<1>4. LoopServed' /\ Handed'
  <2>1. \A u \in Threads : pc'[u] = pc[u] \/ (u = t /\ pc[u] = "new" /\ pc'[u] \in {"out", "checked"})
    BY DEF IInv, TypeOK, Construct
  <2>2. Calm' => Calm
    BY DEF IInv, TypeOK, Construct, Calm
  <2> QED
    BY <2>1, <2>2 DEF IInv, LoopServed, Handed, Waiting, Kinds, Construct, loopVars
<1> QED
  BY <1>1, <1>2, <1>3, <1>4 DEF IInv

LEMMA StepMakeLoop ==
  ASSUME IInv, NEW t \in Threads, MakeLoop(t)
  PROVE  IInv'
<1>1. TypeOK'
  BY DEF IInv, TypeOK, MakeLoop, history
<1>2. MadeOne'
  BY DEF IInv, TypeOK, MadeOne, MakeLoop
<1>3. Checked' = Checked \ {t} /\ t \in Checked
  BY DEF IInv, TypeOK, MakeLoop, Checked
<1>4. OneMaker'
  BY <1>3 DEF IInv, OneMaker, MakeLoop, history
<1>5. pc'[t] = "made" /\ \A u \in Threads : u # t => pc'[u] = pc[u]
  BY DEF IInv, TypeOK, MakeLoop
<1>6. LoopServed'
  BY <1>5 DEF IInv, LoopServed, MakeLoop, history
<1>7. Handed'
  <2>1. ASSUME NEW u \in Threads, Waiting(u), Calm PROVE FALSE
    BY <1>3, <2>1 DEF IInv, MadeOne, OneMaker, Calm, Waiting, Kinds
  <2> QED
    BY <1>5, <2>1 DEF IInv, Handed, Waiting, Kinds, Calm, MakeLoop, history
<1> QED
  BY <1>1, <1>2, <1>4, <1>6, <1>7 DEF IInv

LEMMA StepRunLoop ==
  ASSUME IInv, NEW t \in Threads, RunLoop(t)
  PROVE  IInv'
<1>1. loop \in Threads /\ loop # NoLoop
  BY DEF IInv, TypeOK, MadeOne, RunLoop
<1>2. TypeOK'
  BY <1>1 DEF IInv, TypeOK, RunLoop, history
<1>3. Checked' = Checked
  BY DEF IInv, TypeOK, RunLoop, Checked
<1>4. MadeOne' /\ OneMaker'
  BY <1>1, <1>3 DEF IInv, TypeOK, MadeOne, OneMaker, RunLoop, history
<1>5. \A u \in Threads : pc'[u] = IF u = t THEN "out" ELSE pc[u]
  BY DEF IInv, TypeOK, RunLoop
<1>6. LoopServed'
  BY <1>1 DEF IInv, LoopServed, Calm, RunLoop, history
<1>7. Handed'
  BY <1>5 DEF IInv, Handed, Waiting, Kinds, Calm, RunLoop, history
<1> QED
  BY <1>2, <1>4, <1>6, <1>7 DEF IInv

(* Calls and what becomes of them. *)
LEMMA StepCall ==
  ASSUME IInv, NEW t \in Threads,
         \/ \E kind \in Kinds : Call(t, kind)
         \/ Turn(t) \/ Return(t) \/ Join(t) \/ EndLoop(t)
  PROVE  IInv'
<1>1. TypeOK'
  <2>1. CASE \E kind \in Kinds : Call(t, kind)
    BY <2>1 DEF IInv, TypeOK, Call, loopVars, history
  <2>2. CASE Turn(t)
    BY <2>2 DEF IInv, TypeOK, Turn, loopVars, history
  <2>3. CASE Return(t)
    <3>1. loop \in Threads
      BY <2>3 DEF IInv, TypeOK, MadeOne, Return, Waiting, Kinds
    <3> QED
      BY <2>3, <3>1 DEF IInv, TypeOK, Return
  <2>4. CASE Join(t)
    BY <2>4 DEF IInv, TypeOK, Join, loopVars, history
  <2>5. CASE EndLoop(t)
    BY <2>5 DEF IInv, TypeOK, EndLoop, callVars, history
  <2> QED
    BY <2>1, <2>2, <2>3, <2>4, <2>5
<1>2. Checked' = Checked /\ \A u \in Threads : pc'[u] \notin {"new", "checked"} => pc[u] \notin {"new", "checked"}
  BY DEF IInv, TypeOK, Checked, Kinds, Call, Turn, Return, Join, EndLoop, Waiting, loopVars, callVars
<1>3. loop' = loop /\ served' \subseteq served /\ raced' = raced
  BY DEF Call, Turn, Return, Join, EndLoop, loopVars, history
<1>4. MadeOne' /\ OneMaker'
  BY <1>2, <1>3 DEF IInv, MadeOne, OneMaker
<1>5. LoopServed'
  <2>1. (Calm' => Calm) /\ (~stopped' => ~stopped /\ ending' \subseteq ending)
    BY DEF IInv, TypeOK, Calm, Call, Turn, Return, Join, EndLoop, loopVars, history
  <2>2. \A u \in Threads : pc[u] = "made" => pc'[u] = "made"
    BY DEF IInv, TypeOK, Call, Turn, Return, Join, EndLoop, callVars, Waiting, Kinds
  <2>3. Calm => served' = served
    BY DEF IInv, LoopServed, Calm, Call, Turn, Return, Join, EndLoop, loopVars
  <2> QED
    BY <1>3, <2>1, <2>2, <2>3 DEF IInv, LoopServed
<1>6. Handed'
  <2>1. Calm' => Calm
    BY DEF IInv, TypeOK, Calm, Call, Turn, Return, Join, EndLoop, loopVars, history
  <2>2. \A u \in Threads : u # t =>
          pc'[u] = pc[u] /\ of'[u] = of[u] /\ coroutine'[u] = coroutine[u]
    BY DEF IInv, TypeOK, Call, Turn, Return, Join, EndLoop, callVars
  <2>3. Waiting(t)' => coroutine'[t] \in {"given", "done"} /\ (Calm => of'[t] = loop)
    BY DEF IInv, TypeOK, Handed, Waiting, Kinds, Call, Turn, Return, Join, EndLoop, callVars
  <2> QED
    BY <1>3, <2>1, <2>2, <2>3 DEF IInv, Handed, Waiting
<1> QED
  BY <1>1, <1>4, <1>5, <1>6 DEF IInv

LEMMA StepFork ==
  ASSUME IInv, NEW t \in Threads, Fork(t)
  PROVE  IInv'
<1>1. \A u \in Threads : pc'[u] \in {"new", "out"}
  BY DEF Fork
<1>2. TypeOK'
  BY <1>1 DEF IInv, TypeOK, Fork
<1>3. Checked' = {}
  BY <1>1 DEF Checked
<1>4. MadeOne' /\ OneMaker'
  BY <1>1, <1>3 DEF IInv, TypeOK, MadeOne, OneMaker, Fork
<1>5. LoopServed' /\ Handed'
  BY <1>1 DEF LoopServed, Handed, Waiting, Kinds, Calm, Fork
<1> QED
  BY <1>2, <1>4, <1>5 DEF IInv

(* Who is where in the constructor, and whose loop runs the calls, in      *)
(* every reachable state.                                                  *)
THEOREM SyncInvariance == Spec => []IInv
<1>1. IInv /\ [Next]_vars => IInv'
  <2> SUFFICES ASSUME IInv, [Next]_vars PROVE IInv'
    OBVIOUS
  <2>1. CASE UNCHANGED vars
    BY <2>1 DEF vars, loopVars, callVars, history, IInv, TypeOK, MadeOne, OneMaker,
       Checked, LoopServed, Handed, Waiting, Calm
  <2> QED
    BY <2>1, StepConstruct, StepMakeLoop, StepRunLoop, StepCall, StepFork DEF Next, Step
<1> QED
  BY InitIInv, <1>1, PTL DEF Spec

(* One loop runs the handler's coroutines, unless two threads were in the  *)
(* constructor at once (SyncGuardAgentHandler.__init__).                   *)
THEOREM SingleLoop == Spec => []OneLoop
<1>1. IInv => OneLoop
  <2> SUFFICES ASSUME IInv, ~raced PROVE Cardinality(served) <= 1
    BY DEF OneLoop
  <2>1. served \subseteq {loop}
    BY DEF IInv, OneMaker
  <2>2. IsFiniteSet({loop}) /\ Cardinality({loop}) = 1
    BY FS_Singleton
  <2> QED
    BY <2>1, <2>2, FS_Subset
<1> QED
  BY SyncInvariance, <1>1, PTL

(* Whoever waits for a call is served by a loop that runs or is about to,  *)
(* and that nobody ends, unless the agent was stopped, the constructor     *)
(* raced or the process is a fork's child (_run, __init__, stop).          *)
THEOREM CallersServed == Spec => []NobodyStranded
<1>1. IInv => NobodyStranded
  <2> SUFFICES ASSUME IInv, Calm, NEW t \in Threads, Waiting(t), coroutine[t] # "done"
               PROVE  /\ coroutine[t] = "given" /\ of[t] = loop
                      /\ \/ loop \in served \ ending
                         \/ \E u \in Threads : pc[u] = "made"
    BY DEF NobodyStranded
  <2>1. coroutine[t] = "given" /\ of[t] = loop
    BY DEF IInv, Handed
  <2>2. loop # NoLoop
    BY DEF IInv, MadeOne, Waiting, Kinds
  <2>3. ending = {}
    BY DEF IInv, LoopServed, Calm
  <2> QED
    BY <2>1, <2>2, <2>3 DEF IInv, LoopServed
<1> QED
  BY SyncInvariance, <1>1, PTL
=============================================================================
