----------------------------- MODULE SyncHandler ------------------------------
(***************************************************************************)
(* SyncGuardAgentHandler: the agent for threads.  The constructor makes an *)
(* event loop and a thread that runs it; every call hands a coroutine to   *)
(* the loop and waits for its result without a timeout; stop() runs the    *)
(* inner stop() like any other call and then ends the loop.                *)
(*                                                                         *)
(* One process is followed; when it forks, the child is followed.  A loop  *)
(* is named after the thread whose constructor made it.                    *)
(***************************************************************************)
EXTENDS Integers, FiniteSets

CONSTANTS
  Threads,      \* of the application
  NoLoop,       \* no loop
  Forking       \* the process may fork

ASSUME NoLoopAssumption == NoLoop \notin Threads
ASSUME ForkingAssumption == Forking \in BOOLEAN

Kinds == {"call", "stop"}     \* start() and the others wait for a result, too

VARIABLES
  loop,         \* the handler's _loop
  served,       \* loops that a thread runs
  ending,       \* loops with loop.stop among their callbacks
  pc,           \* "new": has no handler; in the constructor: "checked",
                \* "made" a loop; "out"; waits for a call of that kind; "join"
  of,           \* the loop a call was handed to
  coroutine     \* of a call: "none", "given" to the loop, or "done"

(* History, for the properties only. *)
VARIABLES
  raced,        \* two threads were in the constructor at once
  forked,       \* the process is a child
  stopped       \* a stop() has asked its loop to end

loopVars == <<loop, served, ending>>
callVars == <<pc, of, coroutine>>
history  == <<raced, forked, stopped>>
vars == <<loopVars, callVars, history>>

Waiting(t) == pc[t] \in Kinds
Checked == {t \in Threads : pc[t] = "checked"}
-----------------------------------------------------------------------------
Init ==
  /\ loop = NoLoop /\ served = {} /\ ending = {}
  /\ pc = [t \in Threads |-> "new"]
  /\ of = [t \in Threads |-> NoLoop]
  /\ coroutine = [t \in Threads |-> "none"]
  /\ raced = FALSE /\ forked = FALSE /\ stopped = FALSE

(* The constructor; __init__ runs again for every caller of the factory.   *)
ConstructAlways(t) ==   \* mutant: an existing _loop is not looked at
  /\ pc[t] = "new"
  /\ pc' = [pc EXCEPT ![t] = "checked"]
  /\ raced' = (raced \/ Checked # {})
  /\ UNCHANGED <<loopVars, of, coroutine, forked, stopped>>

Construct(t) ==         \* hasattr(self, "_loop")
  /\ pc[t] = "new"
  /\ IF loop # NoLoop
       THEN pc' = [pc EXCEPT ![t] = "out"] /\ UNCHANGED raced
       ELSE /\ pc' = [pc EXCEPT ![t] = "checked"]
            /\ raced' = (raced \/ Checked # {})
  /\ UNCHANGED <<loopVars, of, coroutine, forked, stopped>>

MakeLoop(t) ==          \* the inner handler is one for all; _loop is set
  /\ pc[t] = "checked"
  /\ loop' = t
  /\ pc' = [pc EXCEPT ![t] = "made"]
  /\ UNCHANGED <<served, ending, of, coroutine, history>>

(* The new thread runs what is _loop now; a loop that runs already is left *)
(* alone and the thread ends with an error.                                *)
RunLoop(t) ==
  /\ pc[t] = "made"
  /\ served' = served \cup {loop}
  /\ pc' = [pc EXCEPT ![t] = "out"]
  /\ UNCHANGED <<loop, ending, of, coroutine, history>>
-----------------------------------------------------------------------------
CallStopFirst(t, kind) ==   \* mutant: stop() ends the loop before it waits
  /\ pc[t] = "out"
  /\ pc' = [pc EXCEPT ![t] = kind]
  /\ of' = [of EXCEPT ![t] = loop]
  /\ coroutine' = [coroutine EXCEPT ![t] = "given"]
  /\ ending' = IF kind = "stop" THEN ending \cup {loop} ELSE ending
  /\ UNCHANGED <<loop, served, history>>

Call(t, kind) ==        \* run_coroutine_threadsafe
  /\ pc[t] = "out"
  /\ pc' = [pc EXCEPT ![t] = kind]
  /\ of' = [of EXCEPT ![t] = loop]
  /\ coroutine' = [coroutine EXCEPT ![t] = "given"]
  /\ UNCHANGED <<loopVars, history>>

(* The event loop brings a coroutine to its end, in any number of turns.   *)
Turn(t) ==
  /\ of[t] \in served
  /\ coroutine[t] = "given"
  /\ coroutine' = [coroutine EXCEPT ![t] = "done"]
  /\ UNCHANGED <<loopVars, pc, of, history>>

(* The result is there; stop() goes on to end the loop.                    *)
Return(t) ==
  /\ Waiting(t)
  /\ coroutine[t] = "done"
  /\ coroutine' = [coroutine EXCEPT ![t] = "none"]
  /\ of' = [of EXCEPT ![t] = NoLoop]
  /\ IF pc[t] = "stop"
       THEN /\ pc' = [pc EXCEPT ![t] = "join"]
            /\ ending' = ending \cup {loop}
            /\ stopped' = TRUE
       ELSE /\ pc' = [pc EXCEPT ![t] = "out"]
            /\ UNCHANGED <<ending, stopped>>
  /\ UNCHANGED <<loop, served, raced, forked>>

(* thread.join(timeout=5) is over, with or without the thread.             *)
Join(t) ==
  /\ pc[t] = "join"
  /\ pc' = [pc EXCEPT ![t] = "out"]
  /\ UNCHANGED <<loopVars, of, coroutine, history>>

(* loop.stop: coroutines that are not done stay where they are.            *)
EndLoop(l) ==
  /\ l \in served \cap ending
  /\ served' = served \ {l}
  /\ ending' = ending \ {l}
  /\ UNCHANGED <<loop, callVars, history>>

(* t forks; the child has no other thread, but all of the handler's state. *)
Fork(t) ==
  /\ Forking /\ ~forked
  /\ pc[t] \in {"new", "out"}
  /\ forked' = TRUE
  /\ served' = {} /\ ending' = {}
  /\ pc' = [u \in Threads |-> IF u = t THEN pc[t] ELSE "new"]
  /\ of' = [u \in Threads |-> NoLoop]
  /\ coroutine' = [u \in Threads |-> "none"]
  /\ UNCHANGED <<loop, raced, stopped>>

Step(t) == Construct(t) \/ MakeLoop(t) \/ RunLoop(t) \/ Return(t) \/ Join(t)

Next ==
  \/ \E t \in Threads : \/ Step(t) \/ Turn(t) \/ EndLoop(t) \/ Fork(t)
                        \/ \E kind \in Kinds : Call(t, kind)

Spec == Init /\ [][Next]_vars

(* Threads and loops that run get their turns, and a coroutine ends.       *)
FairSpec ==
  /\ Spec
  /\ \A t \in Threads : WF_vars(Step(t)) /\ WF_vars(Turn(t)) /\ WF_vars(EndLoop(t))
-----------------------------------------------------------------------------
TypeOK ==
  /\ loop \in Threads \cup {NoLoop}
  /\ served \subseteq Threads /\ ending \subseteq Threads
  /\ pc \in [Threads -> {"new", "checked", "made", "out", "join"} \cup Kinds]
  /\ of \in [Threads -> Threads \cup {NoLoop}]
  /\ coroutine \in [Threads -> {"none", "given", "done"}]
  /\ {raced, forked, stopped} \subseteq BOOLEAN

(* The inner handler's tasks never end up on two running loops, unless two *)
(* threads were in the constructor at once: __init__ has no lock.          *)
OneLoop == Cardinality(served) <= 1 \/ raced

(* Every call returns, even one that is made before the loop's thread has  *)
(* started, unless the agent has been stopped, the constructor raced or    *)
(* the process is a fork's child: in these cases a call may wait for ever. *)
Calm == ~(raced \/ forked \/ stopped)
Answered == \A t \in Threads : []<>~(Waiting(t) /\ Calm)

(* In the same cases no call gets lost: a caller who waits has its result  *)
(* or has handed its coroutine to the loop that is the handler's now, and  *)
(* a thread runs that loop, with nobody about to end it, or the thread     *)
(* that will run it is about to start.                                     *)
NobodyStranded ==
  Calm => \A t \in Threads : Waiting(t) =>
            \/ coroutine[t] = "done"
            \/ /\ coroutine[t] = "given" /\ of[t] = loop
               /\ \/ loop \in served \ ending
                  \/ \E u \in Threads : pc[u] = "made"

(* Of the threads that call stop() on a loop that runs one gets its result *)
(* before the loop ends.                                                   *)
StopReturns ==
  Calm /\ (\E t \in Threads : pc[t] = "stop")
    ~> raced \/ forked \/ \E t \in Threads : pc[t] = "join"
=============================================================================
