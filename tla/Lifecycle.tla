------------------------------ MODULE Lifecycle -------------------------------
(***************************************************************************)
(* Start and stop of an agent: the client's flush loop, the buffer's auto  *)
(* flush loop, the watermark flushes that add_event spawns, the semaphore  *)
(* that caps them, the transport's HTTP client, and stop(), which winds    *)
(* them down one after the other while all of them and add_event keep      *)
(* running.                                                                *)
(*                                                                         *)
(* Several tasks may call stop(), and start() may be called while one of   *)
(* them still waits.  The application may also call flush_buffer() and     *)
(* get_dynamic_rules() whenever it likes.  One lane of the buffer is kept, *)
(* and only whether it holds items; of the send backoff only whether it is *)
(* pending.                                                                *)
(***************************************************************************)
EXTENDS Integers, FiniteSets

CONSTANTS
  Workers,        \* watermark flush tasks that can exist at the same time
  Callers,        \* tasks of the application, which call stop()
  Flushers,       \* the ones among them that call flush_buffer(), too
  FlushLoops,     \* flush loops of the client that can exist at the same time
  MaxConcurrent,  \* config.max_concurrent_flushes
  Overlapping     \* start() may be called while a stop() is under way

ASSUME ConcurrencyAssumption == MaxConcurrent \in Nat \ {0}
ASSUME FlushersAssumption == Flushers \subseteq Callers
ASSUME OverlappingAssumption == Overlapping \in BOOLEAN
ASSUME TasksAssumption == /\ Workers \cap FlushLoops = {}
                          /\ "auto" \notin Workers \cup FlushLoops

Loops == FlushLoops \cup {"auto"}
Tasks == Loops \cup Workers

VARIABLES
  running,      \* the client's _running
  current,      \* the client's _flush_task, as a set of at most one loop
  full,         \* the buffer holds items
  backingOff,   \* time.time() < _events_retry_after
  open,         \* the transport has a client and it is not closed
  pc,           \* "off": no such task, or done; "ready": new or sleeping
  cancelled,    \* tasks whose cancellation is under way
  inflight,     \* _inflight_flush_tasks
  semaphore,    \* _flush_semaphore is not None
  holders,      \* tasks that hold a permit of the current semaphore
  calling,      \* where each of the application's calls is
  awaiting      \* the tasks that a stop() waits for

(* History, for the properties only. *)
VARIABLES
  leftover,     \* flushes that go on when their semaphore is dropped or replaced
  strayed       \* since the latest start: the last close() came under a flush, or
                \* the application made a request after the last stop() returned

clientVars == <<running, current>>
flushVars  == <<full, backingOff>>
permitVars == <<semaphore, holders>>
callVars   == <<calling, awaiting>>
history    == <<leftover, strayed>>
vars == <<clientVars, flushVars, open, pc, cancelled, inflight, permitVars,
          callVars, history>>

Alive(x) == pc[x] # "off"
Sending == {x \in Tasks : pc[x] = "sending"}
Stops == {"loops", "auto", "gather", "sending", "close"}   \* within stop()
Stopped == \A s \in Callers : calling[s] \notin Stops
Flushing == {s \in Callers : calling[s] = "flushing"}      \* within flush_buffer()
-----------------------------------------------------------------------------
Init ==
  /\ running = FALSE /\ current = {}
  /\ full = FALSE /\ backingOff = FALSE
  /\ open = FALSE
  /\ pc = [x \in Tasks |-> "off"]
  /\ cancelled = {} /\ inflight = {}
  /\ semaphore = FALSE /\ holders = {}
  /\ calling = [s \in Callers |-> "idle"]
  /\ awaiting = [s \in Callers |-> {}]
  /\ leftover = {} /\ strayed = FALSE

(* start_auto_flush.  It returns at once while an auto flush loop is       *)
(* alive, be it one that stop() has just cancelled.                        *)
StartAutoFlush(x) ==
  \/ /\ Alive("auto")
     /\ pc' = [pc EXCEPT ![x] = "ready"]
     /\ UNCHANGED <<permitVars, leftover>>
  \/ /\ ~Alive("auto")
     /\ pc' = [pc EXCEPT ![x] = "ready", !["auto"] = "ready"]
     /\ semaphore' = TRUE
     /\ holders' = {}
     /\ leftover' = leftover \cup holders

(* start(), which does not suspend; x is the new flush loop.  A start      *)
(* whose transport fails to initialise is a stop.                          *)
Start(x) ==
  /\ ~running
  /\ Overlapping \/ Stopped
  /\ ~Alive(x)
  /\ running' = TRUE
  /\ current' = {x}
  /\ open' = TRUE
  /\ StartAutoFlush(x)
  /\ strayed' = FALSE
  /\ UNCHANGED <<flushVars, cancelled, inflight, callVars>>

(* add_event; at the watermark it spawns a flush, running or not.          *)
Report ==
  /\ full' = TRUE
  /\ \/ UNCHANGED <<pc, inflight>>
     \/ \E w \in Workers :
          /\ ~Alive(w)
          /\ pc' = [pc EXCEPT ![w] = "ready"]
          /\ inflight' = inflight \cup {w}
  /\ UNCHANGED <<clientVars, backingOff, open, cancelled, permitVars, callVars,
                 history>>
-----------------------------------------------------------------------------
(* What else the application calls, running or not.  Every attempt of a    *)
(* request opens the client if there is none                               *)
(* (_ensure_client_for_current_process).                                   *)

Late == ~running /\ Stopped

(* An attempt of a request that is no flush: get_dynamic_rules(), or the   *)
(* status loop or the rules loop, which stop() ends with the flush loop.   *)
Ask ==
  /\ open' = TRUE
  /\ strayed' = (strayed \/ Late)
  /\ UNCHANGED <<clientVars, flushVars, pc, cancelled, inflight, permitVars,
                 callVars, leftover>>

Flush(s) ==             \* flush_buffer(), with something to send
  /\ s \in Flushers /\ calling[s] = "idle"
  /\ full /\ ~backingOff
  /\ full' = FALSE
  /\ calling' = [calling EXCEPT ![s] = "flushing"]
  /\ open' = TRUE
  /\ strayed' = (strayed \/ Late)
  /\ UNCHANGED <<clientVars, backingOff, pc, cancelled, inflight, permitVars,
                 awaiting, leftover>>

Flushed(s, sent) ==     \* it returns, or is cancelled, which is a failure
  /\ calling[s] = "flushing"
  /\ calling' = [calling EXCEPT ![s] = "idle"]
  /\ full' = IF sent THEN full ELSE TRUE
  /\ backingOff' = ~sent
  /\ UNCHANGED <<clientVars, open, pc, cancelled, inflight, permitVars, awaiting,
                 history>>

RetryCall(s) ==         \* as Retry, below
  /\ calling[s] \in {"flushing", "sending"}
  /\ ~open
  /\ open' = TRUE
  /\ UNCHANGED <<clientVars, flushVars, pc, cancelled, inflight, permitVars,
                 callVars, history>>
-----------------------------------------------------------------------------
(* Turns of the tasks.                                                     *)

(* A task that is over is out of every set; its done callback takes it out *)
(* of inflight and those who await it go on.                               *)
Leave(x) ==
  /\ inflight' = inflight \ {x}
  /\ holders' = holders \ {x}
  /\ awaiting' = [s \in Callers |-> awaiting[s] \ {x}]
  /\ leftover' = leftover \ {x}

(* A loop sleeps again, another task is over; a permit is given back.      *)
Rest(x) ==
  \/ /\ x \in Loops
     /\ pc' = [pc EXCEPT ![x] = "ready"]
     /\ holders' = holders \ {x}
     /\ leftover' = leftover \ {x}
     /\ UNCHANGED <<inflight, awaiting>>
  \/ /\ x \notin Loops
     /\ pc' = [pc EXCEPT ![x] = "off"]
     /\ Leave(x)

(* The gate of _flush_if_needed, which the flush loop does not go through. *)
AdmittedAlways(x) ==    \* mutant: the permits are not counted
  x \in FlushLoops \/ semaphore
Admitted(x) ==
  x \in FlushLoops \/ (semaphore /\ Cardinality(holders) < MaxConcurrent)

Begin(x) ==             \* flush_buffer starts to send
  /\ pc[x] = "ready" /\ x \notin cancelled
  /\ Admitted(x)
  /\ full /\ ~backingOff
  /\ full' = FALSE
  /\ open' = TRUE       \* _ensure_client_for_current_process
  /\ pc' = [pc EXCEPT ![x] = "sending"]
  /\ holders' = IF x \in FlushLoops THEN holders ELSE holders \cup {x}
  /\ UNCHANGED <<clientVars, backingOff, cancelled, inflight, semaphore,
                 callVars, history>>

(* Below the watermark, not admitted, empty or backing off.                *)
Pass(x) ==
  /\ pc[x] = "ready" /\ x \notin cancelled
  /\ x \in FlushLoops => ~full \/ backingOff
  /\ Rest(x)
  /\ UNCHANGED <<clientVars, flushVars, open, cancelled, semaphore, calling,
                 strayed>>

Sent(x) ==
  /\ pc[x] = "sending" /\ x \notin cancelled
  /\ backingOff' = FALSE
  /\ Rest(x)
  /\ UNCHANGED <<clientVars, full, open, cancelled, semaphore, calling, strayed>>

(* The client was closed under the request, which fails; the next attempt  *)
(* of the same send opens another one.                                     *)
Retry(x) ==
  /\ pc[x] = "sending"
  /\ ~open
  /\ open' = TRUE
  /\ UNCHANGED <<clientVars, flushVars, pc, cancelled, inflight, permitVars,
                 callVars, history>>

Failed(x) ==            \* requeued
  /\ pc[x] = "sending" /\ x \notin cancelled
  /\ full' = TRUE
  /\ backingOff' = TRUE
  /\ Rest(x)
  /\ UNCHANGED <<clientVars, open, cancelled, semaphore, calling, strayed>>

(* CancelledError reaches a loop where it is suspended; a send is requeued *)
(* and counted as a failure before the loop ends.                          *)
Die(x) ==
  /\ x \in cancelled
  /\ cancelled' = cancelled \ {x}
  /\ IF pc[x] = "sending" THEN full' = TRUE /\ backingOff' = TRUE
                          ELSE UNCHANGED flushVars
  /\ pc' = [pc EXCEPT ![x] = "off"]
  /\ Leave(x)
  /\ UNCHANGED <<clientVars, open, semaphore, calling, strayed>>

BackoffEnds ==
  /\ backingOff
  /\ backingOff' = FALSE
  /\ UNCHANGED <<clientVars, full, open, pc, cancelled, inflight, permitVars,
                 callVars, history>>
-----------------------------------------------------------------------------
(* stop().  It cancels and awaits the loops of the client (of which the    *)
(* flush loop is kept), then stop_auto_flush does the same with the auto   *)
(* flush loop, then waits for the watermark flushes that it finds.         *)

CancelAll(s, S) ==      \* mutant: cancels the watermark flushes, too
  /\ cancelled' = cancelled \cup inflight \cup S
  /\ awaiting' = [awaiting EXCEPT ![s] = S]
Cancel(s, S) ==         \* the ones that are not done
  LET live == {x \in S : Alive(x)}
  IN /\ cancelled' = cancelled \cup live
     /\ awaiting' = [awaiting EXCEPT ![s] = live]

StopLate(s) ==          \* mutant: _running is still set while stop() waits
  /\ calling[s] = "idle"
  /\ calling' = [calling EXCEPT ![s] = "loops"]
  /\ Cancel(s, current)
  /\ UNCHANGED <<clientVars, flushVars, open, pc, inflight, permitVars, history>>

Stop(s) ==
  /\ calling[s] = "idle"
  /\ calling' = [calling EXCEPT ![s] = "loops"]
  /\ running' = FALSE
  /\ Cancel(s, current)
  /\ UNCHANGED <<current, flushVars, open, pc, inflight, permitVars, history>>

LoopsEnded(s) ==
  /\ calling[s] = "loops"
  /\ awaiting[s] = {}
  /\ calling' = [calling EXCEPT ![s] = "auto"]
  /\ Cancel(s, {"auto"})
  /\ UNCHANGED <<clientVars, flushVars, open, pc, inflight, permitVars, history>>

(* stop_auto_flush returns and the final flush_buffer looks at the backoff *)
(* and at the buffer, all without suspending.                              *)
FinalGate(s) ==
  /\ leftover' = leftover \cup (Sending \ FlushLoops)
  /\ IF full /\ ~backingOff
       THEN /\ full' = FALSE /\ open' = TRUE
            /\ calling' = [calling EXCEPT ![s] = "sending"]
       ELSE /\ UNCHANGED <<full, open>>
            /\ calling' = [calling EXCEPT ![s] = "close"]

QuietKeeps(s) ==        \* mutant: the semaphore stays
  /\ inflight' = {} /\ holders' = {}
  /\ FinalGate(s)
  /\ UNCHANGED semaphore

Quiet(s) ==
  /\ inflight' = {} /\ holders' = {}
  /\ semaphore' = FALSE
  /\ FinalGate(s)

Gather(s) ==
  /\ calling[s] = "auto"
  /\ awaiting[s] = {}
  /\ \/ /\ inflight = {}
        /\ Quiet(s)
        /\ UNCHANGED awaiting
     \/ /\ inflight # {}
        /\ calling' = [calling EXCEPT ![s] = "gather"]
        /\ awaiting' = [awaiting EXCEPT ![s] = inflight]
        /\ UNCHANGED <<full, open, inflight, permitVars, leftover>>
  /\ UNCHANGED <<clientVars, backingOff, pc, cancelled, strayed>>

GatheredAll(s) ==       \* mutant: waits for later flushes too
  /\ calling[s] = "gather"
  /\ inflight = {}
  /\ Quiet(s)
  /\ UNCHANGED <<clientVars, backingOff, pc, cancelled, awaiting, strayed>>

Gathered(s) ==
  /\ calling[s] = "gather"
  /\ awaiting[s] = {}
  /\ Quiet(s)
  /\ UNCHANGED <<clientVars, backingOff, pc, cancelled, awaiting, strayed>>

FinalFlush(s, sent) ==
  /\ calling[s] = "sending"
  /\ calling' = [calling EXCEPT ![s] = "close"]
  /\ full' = IF sent THEN full ELSE TRUE
  /\ backingOff' = ~sent
  /\ UNCHANGED <<clientVars, open, pc, cancelled, inflight, permitVars, awaiting,
                 history>>

CloseIfRunning(s) ==    \* mutant: asks _running, which stop() has cleared
  /\ calling[s] = "close"
  /\ calling' = [calling EXCEPT ![s] = "idle"]
  /\ open' = IF running THEN FALSE ELSE open
  /\ strayed' = (Sending # {} \/ Flushing # {})
  /\ UNCHANGED <<clientVars, flushVars, pc, cancelled, inflight, permitVars,
                 awaiting, leftover>>

Close(s) ==             \* transport.close(), and stop() returns
  /\ calling[s] = "close"
  /\ calling' = [calling EXCEPT ![s] = "idle"]
  /\ open' = FALSE
  /\ strayed' = (Sending # {} \/ Flushing # {})
  /\ UNCHANGED <<clientVars, flushVars, pc, cancelled, inflight, permitVars,
                 awaiting, leftover>>

Stopping(s) == LoopsEnded(s) \/ Gather(s) \/ Gathered(s) \/ FinalFlush(s, TRUE)
               \/ FinalFlush(s, FALSE) \/ Close(s)

Calling(s) == Flushed(s, TRUE) \/ Flushed(s, FALSE) \/ RetryCall(s)

Turn(x) == Begin(x) \/ Pass(x) \/ Sent(x) \/ Retry(x) \/ Failed(x) \/ Die(x)

Next ==
  \/ \E x \in FlushLoops : Start(x)
  \/ \E s \in Callers : Stop(s) \/ Stopping(s) \/ Flush(s) \/ Calling(s)
  \/ Ask \/ Report \/ BackoffEnds
  \/ \E x \in Tasks : Turn(x)

Spec == Init /\ [][Next]_vars
-----------------------------------------------------------------------------
TypeOK ==
  /\ running \in BOOLEAN /\ current \subseteq FlushLoops
  /\ full \in BOOLEAN /\ backingOff \in BOOLEAN /\ open \in BOOLEAN
  /\ pc \in [Tasks -> {"off", "ready", "sending"}]
  /\ cancelled \subseteq Loops /\ inflight \subseteq Workers
  /\ semaphore \in BOOLEAN /\ holders \subseteq Tasks \ FlushLoops
  /\ calling \in [Callers -> Stops \cup {"idle", "flushing"}]
  /\ awaiting \in [Callers -> SUBSET Tasks]
  /\ leftover \subseteq Tasks /\ strayed \in BOOLEAN

(* Of the flushes that go through the semaphore at most MaxConcurrent are  *)
(* sending, through any number of stops and starts; what a stop or an      *)
(* overlapping start left behind belongs to an earlier semaphore.          *)
CapRespected ==
  Cardinality(Sending \ (FlushLoops \cup leftover)) <= MaxConcurrent

(* An agent that says it is running flushes: its flush loop is alive and   *)
(* nobody has cancelled it, even if it was started while stop() was still  *)
(* waiting for the previous loop.                                          *)
RunningFlushes ==
  running => \E x \in current : Alive(x) /\ x \notin cancelled

(* An agent that was stopped holds no open HTTP client, unless the client  *)
(* was closed under a flush (one that stop() left behind, or one that the  *)
(* application had called for), which opens another one, or the            *)
(* application has made a request of its own since the last stop()         *)
(* returned.                                                               *)
ClientClosed == open /\ ~running /\ Stopped => strayed

(* Once every stop() has returned no task of the agent begins a flush      *)
(* until it is started again, however many events are still reported.  A   *)
(* flush that stop() left behind goes on, to its other lane, too, and      *)
(* flush_buffer() called by the application is the application's.          *)
NoLateFlush ==
  [][\A x \in Tasks : pc[x] # "sending" /\ pc'[x] = "sending" =>
       running \/ ~Stopped]_vars

(* CHANGELOG.md:337: "`EventBuffer.stop_auto_flush()` now awaits in-flight *)
(* watermark-triggered flushes before returning, eliminating data loss on  *)
(* shutdown".                                                              *)
StopAwaitsFlushes == leftover = {}
(* The inductive invariant of the proofs: what makes the properties above  *)
(* hold, and stop() return.                                                *)

(* A cancellation is under way only to a task that is alive. *)
CancelledAlive == \A x \in cancelled : Alive(x)

(* A flush loop that is alive is the one of a running agent or is about to *)
(* end.                                                                    *)
LoopsOwned ==
  \A x \in FlushLoops : Alive(x) => x \in cancelled \/ (running /\ x \in current)

(* The semaphore goes before the stop() that drops it has returned. *)
Winding == {s \in Callers : calling[s] \in {"loops", "auto", "gather"}}
SemaphoreOwned == semaphore => running \/ Winding # {}

(* A flush that is sending holds a permit, unless its semaphore is gone. *)
PermitsHeld ==
  /\ IsFiniteSet(holders) /\ Cardinality(holders) <= MaxConcurrent
  /\ Sending \ (FlushLoops \cup leftover) \subseteq holders

(* Only close() takes the client away from a request. *)
StrayClosed == (Sending # {} \/ Flushing # {}) /\ ~open => strayed

(* stop() waits for nobody who might not end: what it awaits is alive, and *)
(* is a watermark flush, which ends by itself, or a loop that has been     *)
(* cancelled and cannot be started again before it is gone.                *)
AwaitedEnd ==
  /\ \A w \in inflight : Alive(w)
  /\ \A s \in Callers : \A x \in awaiting[s] :
       Alive(x) /\ (x \in Workers \/ x \in cancelled)

(* Types, permits, loops, the client and the tasks that a stop() awaits    *)
(* fit together through any overlap of starts and stops.                   *)
IInv == /\ TypeOK
        /\ CancelledAlive /\ LoopsOwned /\ RunningFlushes
        /\ SemaphoreOwned /\ PermitsHeld
        /\ StrayClosed /\ ClientClosed
        /\ AwaitedEnd

(* stop() gets nearer its return in every step that concerns it, whatever  *)
(* is reported, started or stopped meanwhile: it goes on to its next wait, *)
(* or it waits for fewer tasks than before and never for another one.      *)
Onward == {<<"loops", "auto">>, <<"auto", "gather">>, <<"auto", "sending">>,
           <<"auto", "close">>, <<"gather", "sending">>, <<"gather", "close">>,
           <<"sending", "close">>, <<"close", "idle">>}
StopsRunDown ==
  [][\A s \in Callers : calling[s] \in Stops =>
       \/ <<calling[s], calling'[s]>> \in Onward
       \/ calling'[s] = calling[s] /\ awaiting'[s] \subseteq awaiting[s]]_vars
-----------------------------------------------------------------------------
(* Fairness: every task gets its turns, and every request ends, since its  *)
(* attempts are bounded and each has a timeout.  Nothing is assumed of     *)
(* the order of turns, nor that a flush begins.                            *)
FairSpec ==
  /\ Spec
  /\ \A s \in Callers : WF_vars(Stopping(s))
  /\ \A x \in Tasks : WF_vars(Pass(x) \/ Sent(x) \/ Failed(x) \/ Die(x))

(* stop() returns although add_event may keep spawning flushes and the     *)
(* agent may be started again meanwhile.                                   *)
StopReturns == \A s \in Callers : []<>(calling[s] \notin Stops)
=============================================================================
