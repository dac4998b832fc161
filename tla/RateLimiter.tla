----------------------------- MODULE RateLimiter ------------------------------
(***************************************************************************)
(* utils.RateLimiter, a sliding window shared by every request of one      *)
(* agent, with the callers that a denial puts to sleep for get_retry_after *)
(* seconds (transport: _send_with_retry, _get_with_retry).                 *)
(*                                                                         *)
(* A call time is kept as its age, now - call_time: acquire compares ages  *)
(* with time_window and get_retry_after subtracts the largest one from it, *)
(* so ages past the window need not be told apart.                         *)
(***************************************************************************)
EXTENDS Integers, Sequences, FiniteSetsExt, Functions

CONSTANTS
  Callers,    \* tasks that issue requests
  MaxCalls,   \* max_calls
  Window      \* time_window

VARIABLES
  calls,      \* self.calls, as ages, in the order they were appended
  wait        \* seconds each caller still sleeps

(* History, for the properties only. *)
VARIABLES
  granted,    \* every grant of the last Window seconds, as ages
  fresh       \* callers that were denied, none being granted since

vars == <<calls, wait, granted, fresh>>

(* The calls that are younger than w.  They are kept oldest first, so what *)
(* the comprehension in acquire leaves out is a prefix of the list.        *)
Newer(s, w) ==
  LET expired == CHOOSE k \in 0 .. Len(s) :
                   \A n \in 1 .. Len(s) : n <= k <=> s[n] >= w
  IN SubSeq(s, expired + 1, Len(s))

LiveShort(s) == Newer(s, Window - 1)   \* mutant: off by one
Live(s) == Newer(s, Window)

ShortSleep(s) ==    \* mutant: rounded down
  IF s = <<>> THEN 0 ELSE Max({0, Window - Max(Range(s)) - 1})
RetryAfter(s) ==    \* get_retry_after
  IF s = <<>> THEN 0 ELSE Max({0, Window - Max(Range(s))})
-----------------------------------------------------------------------------
Init ==
  /\ calls = <<>>
  /\ wait = [c \in Callers |-> 0]
  /\ granted = <<>>
  /\ fresh = {}

Admit ==            \* acquire returns True
  /\ Len(Live(calls)) < MaxCalls
  /\ calls' = Append(Live(calls), 0)
  /\ granted' = Append(granted, 0)
  /\ fresh' = {}

Grant(c) == wait[c] = 0 /\ Admit /\ UNCHANGED wait

Deny(c) ==          \* acquire returns False, and the caller sleeps
  /\ wait[c] = 0
  /\ Len(Live(calls)) >= MaxCalls
  /\ calls' = Live(calls)
  /\ wait' = [wait EXCEPT ![c] = RetryAfter(calls')]
  /\ fresh' = fresh \cup {c}
  /\ UNCHANGED granted

Older(s) ==
  [n \in 1 .. Len(s) |-> IF s[n] < Window THEN s[n] + 1 ELSE s[n]]

Elapse ==           \* a second passes, for the limiter and for the sleepers
  /\ calls' = Older(calls)
  /\ wait' = [c \in Callers |-> IF wait[c] > 0 THEN wait[c] - 1 ELSE 0]
  /\ granted' = Newer(Older(granted), Window)
  /\ UNCHANGED fresh
-----------------------------------------------------------------------------
TypeOK ==
  /\ calls \in Seq(0 .. Window) /\ Len(calls) <= MaxCalls
  /\ wait \in [Callers -> Nat]
  /\ granted \in Seq(0 .. Window - 1)
  /\ fresh \subseteq Callers

(* Never more than MaxCalls grants within any Window seconds, whoever got  *)
(* them and however often the list was filtered in between.                *)
WindowBound == Len(granted) <= MaxCalls

(* What the bound rests on: the list is oldest first, the grants of the    *)
(* last Window seconds are its newest, and nobody whom a denial put to     *)
(* sleep wakes before the oldest call has left the window.                 *)
OldestFirst == \A m, n \in 1 .. Len(calls) : m <= n => calls[m] >= calls[n]
GrantsKept ==
  LET older == Len(calls) - Len(granted)
  IN older >= 0 /\ \A n \in 1 .. Len(granted) : granted[n] = calls[n + older]
SleepsLongEnough == \A c \in fresh : calls # <<>> /\ calls[1] + wait[c] >= Window

(* A caller that was denied and slept for get_retry_after is admitted when *)
(* it wakes unless somebody else was granted meanwhile.                    *)
RetryAfterSuffices ==
  \A c \in fresh : wait[c] = 0 => Len(Live(calls)) < MaxCalls
=============================================================================
