----------------------------- MODULE DurableQueue -----------------------------
(***************************************************************************)
(* What the event buffer promises, without deque, key map, lock, Redis     *)
(* calls or coroutines.  A copy is an object in memory that carries an     *)
(* item; an item may come back as another copy after a restart.            *)
(*                                                                         *)
(* The promise: copies leave memory only in the ways listed here; a record *)
(* is removed only when its item is over; draining takes the whole queue;  *)
(* and a batch that comes back comes back whole, at the expense of newer   *)
(* items if need be, never of its own.                                     *)
(***************************************************************************)
CONSTANT Copy     \* the set of copies: records with an item and an identity

VARIABLES
  queued,   \* copies that wait
  taken,    \* copies that are being sent
  stored,   \* items with a durable record
  over      \* items delivered, handed over, counted as dropped, or whose
            \* record was erased, by flush_events before it hands them over

vars == <<queued, taken, stored, over>>

ItemOf(S) == {c.item : c \in S}
Fresh(c)  == \A d \in queued \cup taken : c.id # d.id
Single(S) == \A c, d \in S : c = d

Init == queued = {} /\ taken = {} /\ stored = {} /\ over = {}
-----------------------------------------------------------------------------
(* A new copy arrives; at most one leaves for it, and is over.  The record *)
(* of an item that is over may go at the same time.                        *)
Report(c) ==
  /\ c \in queued' /\ Fresh(c)
  /\ \E out \in SUBSET queued :
       /\ Single(out)
       /\ queued' = (queued \ out) \cup {c}
       /\ over' = over \cup ItemOf(out)
  /\ stored' \subseteq stored /\ stored \ stored' \subseteq over
  /\ UNCHANGED taken

Condemn(c) ==       \* c will leave for the copy that is arriving
  /\ c \in queued
  /\ over' = over \cup {c.item}
  /\ UNCHANGED <<queued, taken, stored>>

Store(i) ==
  /\ i \in ItemOf(queued)
  /\ stored' = stored \cup {i}
  /\ UNCHANGED <<queued, taken, over>>

Remove(i) ==
  /\ i \in over
  /\ stored' = stored \ {i}
  /\ UNCHANGED <<queued, taken, over>>

(* By clear_buffer, by its ttl, or by flush_events, which deletes a record *)
(* before it delivers: of what is taken, a crash then loses the item.      *)
Erase(i) ==
  /\ stored' = stored \ {i}
  /\ over' = over \cup {i}
  /\ UNCHANGED <<queued, taken>>
-----------------------------------------------------------------------------
Take ==
  /\ queued # {}
  /\ taken' = taken \cup queued
  /\ queued' = {}
  /\ UNCHANGED <<stored, over>>

Deliver(S) ==
  /\ S \subseteq taken
  /\ taken' = taken \ S
  /\ over' = over \cup ItemOf(S)
  /\ UNCHANGED <<queued, stored>>

Return(S, out) ==   \* out is what no longer fits
  /\ S \subseteq taken /\ out \subseteq queued
  /\ taken' = taken \ S
  /\ queued' = (queued \ out) \cup S
  /\ over' = over \cup ItemOf(out)
  /\ UNCHANGED stored

Abandon(S) ==       \* a cancelled requeue or flush_events
  /\ S \subseteq taken
  /\ taken' = taken \ S
  /\ UNCHANGED <<queued, stored, over>>

Empty ==            \* cleared, or drained by flush_events without records
  /\ queued' = {}
  /\ over' = over \cup ItemOf(queued)
  /\ UNCHANGED <<taken, stored>>
-----------------------------------------------------------------------------
Restore(c) ==       \* loaded from its record; out leaves memory uncounted
  /\ c.item \in stored
  /\ c \in queued' /\ Fresh(c)
  /\ \E out \in SUBSET queued : Single(out) /\ queued' = (queued \ out) \cup {c}
  /\ UNCHANGED <<taken, stored, over>>

Crash ==
  /\ queued' = {} /\ taken' = {}
  /\ UNCHANGED <<stored, over>>

Next ==
  \/ \E S \in SUBSET taken :
       \/ Deliver(S) \/ Abandon(S)
       \/ \E out \in SUBSET queued : Return(S, out)
  \/ Take \/ Empty \/ Crash
  \/ \E i \in ItemOf(Copy) : Store(i) \/ Remove(i) \/ Erase(i)
  \/ \E c \in Copy : Report(c) \/ Restore(c) \/ Condemn(c)

Spec == Init /\ [][Next]_vars
=============================================================================
