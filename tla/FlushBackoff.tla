----------------------------- MODULE FlushBackoff -----------------------------
(***************************************************************************)
(* flush_buffer of the client: several tasks (the flush loop, the auto     *)
(* flush, watermark flushes, callers of the public method) flush the event *)
(* lane and then the metric lane, and share one failure streak and one     *)
(* retry-after time per lane.  What becomes of the items is EventBuffer's; *)
(* here a lane either holds items or not.                                  *)
(*                                                                         *)
(* retry_after is kept as the time that is left, and a streak beyond       *)
(* MaxStreak counts as MaxStreak.                                          *)
(***************************************************************************)
EXTENDS Integers, FiniteSetsExt

CONSTANTS
  Flushers,
  FlushInterval,  \* config.flush_interval
  MaxBackoff,     \* _PARTIAL_FAILURE_MAX_BACKOFF_SECONDS
  MaxExponent,    \* largest n for which float(2**n) does not overflow: 1023
  MaxStreak       \* bound of the model

ASSUME IntervalAssumption == FlushInterval \in Nat \ {0}
ASSUME BackoffAssumption == MaxBackoff \in Nat /\ MaxBackoff >= FlushInterval
ASSUME ExponentAssumption == MaxExponent \in Nat /\ MaxStreak \in Nat \ {0}

Lanes == {"events", "metrics"}

VARIABLES
  full,       \* the lane's buffer is not empty
  streak,     \* _events_failure_streak, _metrics_failure_streak
  backoff,    \* seconds until _events_retry_after, _metrics_retry_after
  pc, lane    \* where a flush is, and on which lane

(* Environment: the collector accepts the lane from now on.                *)
VARIABLE up

vars == <<full, streak, backoff, pc, lane, up>>

(* Flush tasks are cancelled when the agent stops, not for ever: here, not *)
(* after a lane has come up.                                               *)
Stopping == \A l \in Lanes : ~up[l]

Overflows(n) == n > MaxExponent     \* float(2**n) raises OverflowError

DelayUncapped(n) == FlushInterval * 2^n     \* mutant: no max_delay
Delay(n) == Min({FlushInterval * 2^n, MaxBackoff})  \* calculate_backoff_delay

(* Counting a longer streak as MaxStreak loses nothing: the next failure    *)
(* overflows in both.                                                      *)
ASSUME StreakAssumption == MaxStreak > MaxExponent
-----------------------------------------------------------------------------
Init ==
  /\ full = [l \in Lanes |-> FALSE]
  /\ streak = [l \in Lanes |-> 0]
  /\ backoff = [l \in Lanes |-> 0]
  /\ pc = [f \in Flushers |-> "idle"]
  /\ lane = [f \in Flushers |-> "events"]
  /\ up = [l \in Lanes |-> FALSE]

Flush(f) ==           \* flush_buffer is called
  /\ pc[f] = "idle"
  /\ pc' = [pc EXCEPT ![f] = "gate"]
  /\ UNCHANGED <<full, streak, backoff, lane, up>>

(* The lane is done; the metrics follow the events.                        *)
NextLane(f) ==
  /\ pc' = [pc EXCEPT ![f] = IF lane[f] = "events" THEN "gate" ELSE "idle"]
  /\ lane' = [lane EXCEPT ![f] = IF @ = "events" THEN "metrics" ELSE "events"]

(* An exception leaves _flush_events or _flush_metrics: the flush is over. *)
Abort(f) ==
  /\ pc' = [pc EXCEPT ![f] = "idle"]
  /\ lane' = [lane EXCEPT ![f] = "events"]

SkipExtends(f) ==     \* mutant: a skipped lane is penalised again
  /\ pc[f] = "gate"
  /\ backoff[lane[f]] > 0 \/ ~full[lane[f]]
  /\ NextLane(f)
  /\ backoff' = [backoff EXCEPT ![lane[f]] =
                   IF @ > 0 THEN Delay(streak[lane[f]] - 1) ELSE 0]
  /\ UNCHANGED <<full, streak, up>>

Skip(f) ==            \* still backing off, or nothing to send
  /\ pc[f] = "gate"
  /\ backoff[lane[f]] > 0 \/ ~full[lane[f]]
  /\ NextLane(f)
  /\ UNCHANGED <<full, streak, backoff, up>>

Drain(f) ==           \* flush_events_with_keys
  /\ pc[f] = "gate"
  /\ backoff[lane[f]] = 0
  /\ full[lane[f]]
  /\ full' = [full EXCEPT ![lane[f]] = FALSE]
  /\ pc' = [pc EXCEPT ![f] = "sending"]
  /\ UNCHANGED <<streak, backoff, lane, up>>

Sent(f) ==            \* send returned True; the keys are confirmed next
  /\ pc[f] = "sending"
  /\ pc' = [pc EXCEPT ![f] = "confirming"]
  /\ UNCHANGED <<full, streak, backoff, lane, up>>

ForgiveHalf(f) ==     \* mutant: the retry-after time stays
  /\ pc[f] = "confirming"
  /\ streak' = [streak EXCEPT ![lane[f]] = 0]
  /\ NextLane(f)
  /\ UNCHANGED <<full, backoff, up>>

Forgive(f) ==         \* confirmed: the streak ends
  /\ pc[f] = "confirming"
  /\ streak' = [streak EXCEPT ![lane[f]] = 0]
  /\ backoff' = [backoff EXCEPT ![lane[f]] = 0]
  /\ NextLane(f)
  /\ UNCHANGED <<full, up>>

(* send returned False ("failed"), raised or was cancelled ("raised"): the *)
(* batch is back in the buffer, and evicted keys are being confirmed,      *)
(* before the failure is counted.                                          *)
Requeue(f) ==
  /\ pc[f] = "sending"
  /\ ~up[lane[f]]
  /\ full' = [full EXCEPT ![lane[f]] = TRUE]
  /\ \/ pc' = [pc EXCEPT ![f] = "failed"]
     \/ Stopping /\ pc' = [pc EXCEPT ![f] = "raised"]
  /\ UNCHANGED <<streak, backoff, lane, up>>

(* The failure is counted.  When the exponent is too large the exception   *)
(* comes after the streak has grown and before retry_after is set.         *)
Penalise(f) ==
  LET l == lane[f] IN
  /\ pc[f] \in {"failed", "raised"}
  /\ streak' = [streak EXCEPT ![l] = Min({@ + 1, MaxStreak})]
  /\ IF Overflows(streak[l])
       THEN Abort(f) /\ UNCHANGED backoff
       ELSE /\ backoff' = [backoff EXCEPT ![l] = Delay(streak[l])]
            /\ IF pc[f] = "raised" THEN Abort(f) ELSE NextLane(f)
  /\ UNCHANGED <<full, up>>

(* A cancellation while evicted keys are confirmed leaves the failure      *)
(* uncounted; one while delivered keys are confirmed leaves the streak.    *)
Cancelled(f) ==
  /\ pc[f] \in {"failed", "raised", "confirming"}
  /\ Stopping
  /\ Abort(f)
  /\ UNCHANGED <<full, streak, backoff, up>>

Report(l) ==          \* add_event, add_metric
  /\ full' = [full EXCEPT ![l] = TRUE]
  /\ UNCHANGED <<streak, backoff, pc, lane, up>>

Tick ==
  /\ backoff' = [l \in Lanes |-> IF backoff[l] > 0 THEN backoff[l] - 1 ELSE 0]
  /\ UNCHANGED <<full, streak, pc, lane, up>>

ComeUp(l) ==
  /\ up' = [up EXCEPT ![l] = TRUE]
  /\ UNCHANGED <<full, streak, backoff, pc, lane>>

Work(f) ==
  \/ Flush(f) \/ Skip(f) \/ Drain(f) \/ Sent(f) \/ Forgive(f)
  \/ Requeue(f) \/ Penalise(f)

Next ==
  \/ Tick
  \/ \E l \in Lanes : Report(l) \/ ComeUp(l)
  \/ \E f \in Flushers : Work(f) \/ Cancelled(f)

Spec == Init /\ [][Next]_vars
-----------------------------------------------------------------------------
TypeOK ==
  /\ full \in [Lanes -> BOOLEAN]
  /\ streak \in [Lanes -> 0 .. MaxStreak]
  /\ backoff \in [Lanes -> 0 .. MaxBackoff]
  /\ pc \in [Flushers -> {"idle", "gate", "sending", "confirming", "failed",
                          "raised"}]
  /\ lane \in [Flushers -> Lanes]
  /\ up \in [Lanes -> BOOLEAN]

(* However the outcomes of concurrent flushes interleave, a lane without a *)
(* failure streak does not back off, and one with a streak backs off no    *)
(* longer than that streak calls for.                                      *)
BackoffFitsStreak ==
  \A l \in Lanes : backoff[l] <= IF streak[l] = 0 THEN 0
                                 ELSE Delay(streak[l] - 1)

(* CHANGELOG.md:237: the handler "backs off the next attempt with          *)
(* `calculate_backoff_delay` (capped at 5 minutes)": a failure that was    *)
(* counted puts the next attempt off by at least a flush interval.         *)
FailureBacksOff ==
  [][\A f \in Flushers :
       Penalise(f) => backoff'[lane[f]] >= FlushInterval]_vars

(* The part of Drained that needs no fairness: once the collector accepts  *)
(* a lane, its backoff only runs down but for the flushes that had failed  *)
(* already and have not been counted, each of which puts it off once.      *)
Failing(l) == {f \in Flushers : pc[f] \in {"failed", "raised"} /\ lane[f] = l}
PenaltiesRunOut ==
  [][\A l \in Lanes : up[l] =>
       /\ Failing(l)' \subseteq Failing(l)
       /\ backoff'[l] <= backoff[l] \/ Failing(l)' # Failing(l)]_vars
-----------------------------------------------------------------------------
(* Fairness: time passes, the flush loops go round, every await returns.   *)
FairSpec ==
  Spec /\ WF_vars(Tick) /\ \A f \in Flushers : WF_vars(Work(f))

(* Once the collector accepts a lane again, what waits in it is sent: the  *)
(* events after any streak of failures, the metrics even if the events     *)
(* keep failing, as long as the streak of the events does not overflow     *)
(* (past the 1024th failure in a row every further one ends flush_buffer   *)
(* before it comes to the metrics, _client_flush.py:47-50).                *)
Drained ==
  \A l \in Lanes :
    up[l] /\ full[l] ~>
      ~full[l] \/ (l = "metrics" /\ Overflows(streak["events"]))
=============================================================================
