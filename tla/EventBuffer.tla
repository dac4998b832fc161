----------------------------- MODULE EventBuffer -----------------------------
(***************************************************************************)
(* One lane, events or metrics, of guard_agent's EventBuffer: the          *)
(* bounded deque, the map from object identity to Redis key, the Redis     *)
(* records, the condition's lock, and the four kinds of coroutine that     *)
(* touch them: writers (add_event), callers that drain a batch and later   *)
(* confirm or requeue it, the start-up load, and clear_buffer.             *)
(*                                                                         *)
(* Every suspension point (await) of a coroutine is a state of that        *)
(* coroutine; what it does between two awaits is one action.               *)
(*                                                                         *)
(* An item stands for one SecurityEvent and for the unique Redis key it is *)
(* persisted under.  The Python object that carries an item is a separate  *)
(* thing: it is known by its id(), ids are reused as soon as an object is  *)
(* dropped, and a restart reloads an item as a new object.                 *)
(***************************************************************************)
EXTENDS Integers, Sequences, FiniteSets

CONSTANTS
  Items,      \* events that are ever reported
  Ids,        \* values of CPython's id()
  Callers,    \* tasks that drain the buffer: flush loops, watermark flushes
  Capacity,   \* config.buffer_size
  Policies,   \* overflow policies the agent may be configured with
  Nil,        \* no key (the "" of flush_events_with_keys), no object
  Lane,       \* "events" or "metrics", which differ in when they are loaded
  Reinit,     \* initialize_redis may be called again while attached
  Free,       \* the lock of the condition is not held
  Loader      \* the lock is held by _load_from_redis

ASSUME CapacityAssumption == Capacity \in Nat \ {0}
ASSUME PolicyAssumption == Policies \subseteq {"drop", "block", "raise"}
ASSUME LaneAssumption == Lane \in {"events", "metrics"}
ASSUME ReinitAssumption == Reinit \in BOOLEAN
ASSUME IdsAssumption == Ids # {}
ASSUME DistinctAssumption ==
  /\ Nil \notin Items \cup Ids
  /\ Free \notin Items
  /\ Loader \notin Items
  /\ Free # Loader

VARIABLES
  policy,     \* config.buffer_overflow_policy of this process
  attached,   \* redis_handler is not None
  buffer,     \* event_buffer: deque of objects, oldest first
  keys,       \* _event_redis_keys: id() -> key
  lock,       \* holder of the event condition's lock
  redis,      \* records under agent_events:*
  wpc,        \* state of the add_event call that reports an item
  wid,        \* id() of the object whose record add_event is writing
  wkey,       \* key of the evicted item whose record add_event is deleting
  lpc, ltodo, \* _load_from_redis and the keys it still has to read
  cpc, ctodo, \* clear_buffer and the keys it still has to delete
  fpc,        \* state of a caller's drain / confirm / requeue handshake
  batch,      \* the drained (object, key) pairs a caller holds
  ftodo       \* keys a caller is deleting: confirmed or evicted ones

(* History: what became of each item, for the properties only. *)
VARIABLES
  recorded,   \* a Redis record was written for it
  settled,    \* its batch was accepted by the backend or handed over, or it
              \* was evicted and counted in events_dropped
  erased,     \* wiped by clear_buffer, or its record reached its ttl or was
              \* deleted by a flush_events that still held the item
  forgotten   \* memory let go of it uncounted: crash, load eviction, cancel

bufVars    == <<buffer, keys>>
writerVars == <<wpc, wid, wkey>>
loadVars   == <<attached, lpc, ltodo>>
clearVars  == <<cpc, ctodo>>
callerVars == <<fpc, batch, ftodo>>
history    == <<recorded, settled, erased, forgotten>>
vars == <<policy, bufVars, lock, redis, writerVars, loadVars, clearVars,
          callerVars, history>>

Obj   == [item : Items, id : Ids]
Entry == [item : Items, id : Ids, key : Items \cup {Nil}]

ItemsOf(s) == {s[n].item : n \in 1 .. Len(s)}
IdsOf(s)   == {s[n].id : n \in 1 .. Len(s)}
KeysOf(s)  == {s[n].key : n \in 1 .. Len(s)} \ {Nil}

BufferFull == Len(buffer) >= Capacity

(* Identities of the objects that are alive: those the buffer or a batch   *)
(* refers to.  CPython may give any other identity to a new object.        *)
LiveIds == IdsOf(buffer) \cup UNION {IdsOf(batch[f]) : f \in Callers}
FreeIds == Ids \ LiveIds

(* deque(maxlen=Capacity): append discards from the left, and appendleft   *)
(* from the right, when the deque is full.                                 *)
PushUnbounded(s, o) == Append(s, o)   \* mutant: no maxlen
PushRight(s, o) == Append(IF Len(s) >= Capacity THEN Tail(s) ELSE s, o)
PushBehind(b, s) ==                   \* mutant: requeued behind newer ones
  IF Len(b) + Len(s) > Capacity THEN SubSeq(s \o b, 1, Capacity) ELSE s \o b
PushLeftNewest(b, s) ==               \* mutant: evicts from the wrong end
  IF Len(b) + Len(s) > Capacity
    THEN SubSeq(b \o s, Len(b) + Len(s) - Capacity + 1, Len(b) + Len(s))
    ELSE b \o s
PushLeftAll(b, s) ==
  IF Len(b) + Len(s) > Capacity THEN SubSeq(b \o s, 1, Capacity) ELSE b \o s
OverflowUncounted(b, s) == <<>>       \* mutant: the deque evicts silently
Overflow(b, s) == SubSeq(b \o s, Capacity + 1, Len(b) + Len(s))

Objects(b) == [n \in 1 .. Len(b) |-> [item |-> b[n].item, id |-> b[n].id]]
WithKeys(s) ==
  [n \in 1 .. Len(s) |->
     [item |-> s[n].item, id |-> s[n].id, key |-> keys[s[n].id]]]

NoKeys == [d \in Ids |-> Nil]
ForgetNothing(ds) == keys   \* mutant: the popped objects keep their keys
Forget(ds) == [d \in Ids |-> IF d \in ds THEN Nil ELSE keys[d]]

(* One iteration of confirm_event_redis_keys: the delete takes effect or   *)
(* raises and is swallowed.                                                *)
DeleteRecord(k) == redis' \in {redis, redis \ {k}}
-----------------------------------------------------------------------------
Init ==
  /\ policy \in Policies
  /\ attached = FALSE
  /\ buffer = <<>>
  /\ keys = NoKeys
  /\ lock = Free
  /\ redis = {}
  /\ wpc = [i \in Items |-> "new"]
  /\ wid = [i \in Items |-> Nil]
  /\ wkey = [i \in Items |-> Nil]
  /\ lpc = "idle" /\ ltodo = {}
  /\ cpc = "idle" /\ ctodo = {}
  /\ fpc = [f \in Callers |-> "idle"]
  /\ batch = [f \in Callers |-> <<>>]
  /\ ftodo = [f \in Callers |-> {}]
  /\ recorded = {} /\ settled = {}
  /\ erased = {} /\ forgotten = {}
-----------------------------------------------------------------------------
(* add_event.  A writer holds the lock from the moment it is granted until *)
(* it returns, except inside condition.wait(); it suspends only in a Redis *)
(* call, so without Redis the whole call is one step.  A waiting writer    *)
(* looks again when it is notified and at the latest every 0.5 s, so it    *)
(* may resume whenever the lock is free.                                   *)

ArrivingUnlocked(i) == wpc[i] \in {"new", "waiting"}        \* mutant: no lock
ArrivingOnce(i) == wpc[i] = "new" /\ lock = Free  \* mutant: never re-checks
Arriving(i) == wpc[i] \in {"new", "waiting"} /\ lock = Free

(* The new object is appended; with Redis attached the writer then         *)
(* suspends in set_key, still holding the lock.                            *)
AppendAndPersist(i) ==
  \E d \in FreeIds :
    /\ buffer' = PushRight(buffer, [item |-> i, id |-> d])
    /\ IF attached
         THEN /\ wpc' = [wpc EXCEPT ![i] = "persisting"]
              /\ wid' = [wid EXCEPT ![i] = d]
              /\ lock' = i
         ELSE /\ wpc' = [wpc EXCEPT ![i] = "in"]
              /\ wid' = wid
              /\ lock' = Free

AddAppend(i) ==
  /\ Arriving(i)
  /\ ~BufferFull
  /\ AppendAndPersist(i)
  /\ UNCHANGED <<policy, keys, redis, wkey, loadVars, clearVars, callerVars,
                 history>>

AddReject(i) ==   \* policy "raise": BufferFullError
  /\ Arriving(i)
  /\ BufferFull
  /\ policy = "raise"
  /\ wpc' = [wpc EXCEPT ![i] = "out"]
  /\ UNCHANGED <<policy, bufVars, lock, redis, wid, wkey, loadVars, clearVars,
                 callerVars, history>>

AddWait(i) ==     \* policy "block": condition.wait()
  /\ Arriving(i)
  /\ wpc[i] = "new"
  /\ BufferFull
  /\ policy = "block"
  /\ wpc' = [wpc EXCEPT ![i] = "waiting"]
  /\ UNCHANGED <<policy, bufVars, lock, redis, wid, wkey, loadVars, clearVars,
                 callerVars, history>>

WaitCancelled(i) ==
  /\ wpc[i] = "waiting"
  /\ wpc' = [wpc EXCEPT ![i] = "out"]
  /\ UNCHANGED <<policy, bufVars, lock, redis, wid, wkey, loadVars, clearVars,
                 callerVars, history>>

(* policy "drop": the oldest object is counted and its key forgotten; when *)
(* it has one the writer first deletes its record.                         *)
AddEvict(i) ==
  /\ Arriving(i)
  /\ BufferFull
  /\ policy = "drop"
  /\ LET oldest == Head(buffer)
         k == keys[oldest.id]
     IN /\ settled' = settled \cup {oldest.item}
        /\ keys' = [keys EXCEPT ![oldest.id] = Nil]
        /\ \/ /\ k = Nil
              /\ AppendAndPersist(i)
              /\ wkey' = wkey
           \/ /\ k # Nil
              /\ wpc' = [wpc EXCEPT ![i] = "evicting"]
              /\ wkey' = [wkey EXCEPT ![i] = k]
              /\ lock' = i
              /\ UNCHANGED <<buffer, wid>>
  /\ UNCHANGED <<policy, redis, loadVars, clearVars, callerVars, recorded,
                 erased, forgotten>>

EvictDone(i) ==
  /\ wpc[i] = "evicting"
  /\ DeleteRecord(wkey[i])
  /\ wkey' = [wkey EXCEPT ![i] = Nil]
  /\ AppendAndPersist(i)
  /\ UNCHANGED <<policy, keys, loadVars, clearVars, callerVars, history>>

EvictCancelled(i) ==
  /\ wpc[i] = "evicting"
  /\ DeleteRecord(wkey[i])
  /\ wkey' = [wkey EXCEPT ![i] = Nil]
  /\ wpc' = [wpc EXCEPT ![i] = "out"]
  /\ lock' = Free
  /\ UNCHANGED <<policy, bufVars, wid, loadVars, clearVars, callerVars,
                 history>>

(* set_key returns, raises or is cancelled: whether the record was written *)
(* and whether the writer learns its key are independent, because set_key  *)
(* may raise after storing and may return without having stored.           *)
PersistDone(i) ==
  /\ wpc[i] = "persisting"
  /\ \E stored, tracked \in BOOLEAN :
       /\ redis' = IF stored THEN redis \cup {i} ELSE redis
       /\ recorded' = IF stored THEN recorded \cup {i} ELSE recorded
       /\ keys' = IF tracked THEN [keys EXCEPT ![wid[i]] = i] ELSE keys
  /\ wpc' = [wpc EXCEPT ![i] = "in"]
  /\ wid' = [wid EXCEPT ![i] = Nil]
  /\ lock' = Free
  /\ UNCHANGED <<policy, buffer, wkey, loadVars, clearVars, callerVars,
                 settled, erased, forgotten>>
-----------------------------------------------------------------------------
(* initialize_redis: attach the handler, then load the records of the      *)
(* events, then those of the metrics, each as a new object and under the   *)
(* lock of their own lane.  Without a handler nobody suspends while        *)
(* holding the lock, so for the events attaching and taking the lock is    *)
(* one step.  The metrics are attached with them and wait for their turn,  *)
(* while add_metric writes records that their load will find.  Agents call *)
(* it once, at start-up; nothing in the code refuses a second call, which  *)
(* Reinit admits.                                                          *)

Initializing ==
  /\ lpc = "idle" \/ (Reinit /\ lpc = "done")
  /\ attached' = TRUE
  /\ UNCHANGED <<policy, bufVars, redis, ltodo, writerVars, clearVars,
                 callerVars, history>>

InitializeEvents ==
  /\ Lane = "events"
  /\ Initializing
  /\ lock = Free
  /\ lpc' = "scan"
  /\ lock' = Loader

InitializeMetrics ==
  /\ Lane = "metrics"
  /\ Initializing
  /\ lpc' = "pending"
  /\ lock' = lock

LoadMetrics ==    \* the events are loaded
  /\ lpc = "pending"
  /\ lock = Free
  /\ lpc' = "scan"
  /\ lock' = Loader
  /\ UNCHANGED <<policy, attached, bufVars, redis, ltodo, writerVars, clearVars,
                 callerVars, history>>

LoadScan ==
  /\ lpc = "scan"
  /\ lpc' = "loading"
  /\ ltodo' = redis
  /\ UNCHANGED <<policy, attached, bufVars, lock, redis, writerVars, clearVars,
                 callerVars, history>>

(* The object the deque discards to make room loses its key but not its    *)
(* record, and is not counted.                                             *)
LoadOne(k) ==
  /\ lpc = "loading"
  /\ k \in ltodo \cap redis
  /\ ltodo' = ltodo \ {k}
  /\ \E d \in FreeIds :
       /\ buffer' = PushRight(buffer, [item |-> k, id |-> d])
       /\ IF BufferFull
            THEN LET oldest == Head(buffer)
                 IN /\ keys' = [keys EXCEPT ![oldest.id] = Nil, ![d] = k]
                    /\ forgotten' = forgotten \cup {oldest.item}
            ELSE /\ keys' = [keys EXCEPT ![d] = k]
                 /\ forgotten' = forgotten
  /\ UNCHANGED <<policy, attached, lpc, lock, redis, writerVars, clearVars,
                 callerVars, recorded, settled, erased>>

LoadSkip(k) ==    \* get_key found nothing or raised, or the data is unusable
  /\ lpc = "loading"
  /\ k \in ltodo
  /\ ltodo' = ltodo \ {k}
  /\ UNCHANGED <<policy, attached, bufVars, lpc, lock, redis, writerVars,
                 clearVars, callerVars, history>>

LoadDropped ==    \* keys() of the events raised, or cancelled: no metrics
  /\ lpc = "pending"
  /\ lpc' = "done"
  /\ UNCHANGED <<policy, attached, bufVars, lock, redis, ltodo, writerVars,
                 clearVars, callerVars, history>>

(* All keys read; or keys() raised; or the task was cancelled.             *)
LoadEnd ==
  /\ lpc \in {"scan", "loading"}
  /\ lpc' = "done"
  /\ ltodo' = {}
  /\ lock' = Free
  /\ UNCHANGED <<policy, attached, bufVars, redis, writerVars, clearVars,
                 callerVars, history>>
-----------------------------------------------------------------------------
(* clear_buffer: memory under the lock, then the Redis records without it. *)

ClearMemory ==
  /\ cpc = "idle"
  /\ lock = Free
  /\ buffer' = <<>>
  /\ keys' = NoKeys
  /\ erased' = erased \cup ItemsOf(buffer)
  /\ cpc' = IF attached THEN "scan" ELSE "idle"
  /\ UNCHANGED <<policy, lock, redis, ctodo, writerVars, loadVars, callerVars,
                 recorded, settled, forgotten>>

ClearScan ==
  /\ cpc = "scan"
  /\ cpc' = "deleting"
  /\ ctodo' = redis
  /\ UNCHANGED <<policy, bufVars, lock, redis, writerVars, loadVars,
                 callerVars, history>>

ClearDelete(k) ==
  /\ cpc = "deleting"
  /\ k \in ctodo
  /\ redis' = redis \ {k}
  /\ erased' = erased \cup {k}
  /\ ctodo' = ctodo \ {k}
  /\ UNCHANGED <<policy, bufVars, lock, cpc, writerVars, loadVars, callerVars,
                 recorded, settled, forgotten>>

ClearEnd ==       \* all deleted, or a Redis call raised, or cancelled
  /\ cpc \in {"scan", "deleting"}
  /\ cpc' = "idle"
  /\ ctodo' = {}
  /\ UNCHANGED <<policy, bufVars, lock, redis, writerVars, loadVars,
                 callerVars, history>>
-----------------------------------------------------------------------------
(* The handshake of a caller: drain a batch with its keys, send it, then   *)
(* confirm the keys or requeue the batch.  The objects of a batch count as *)
(* alive until the caller will not touch the buffer for them again.        *)

DrainCopies(f) ==     \* mutant: the deque is copied but not cleared
  /\ fpc[f] = "idle" /\ lock = Free /\ buffer # <<>>
  /\ batch' = [batch EXCEPT ![f] = WithKeys(buffer)]
  /\ fpc' = [fpc EXCEPT ![f] = "sending"]
  /\ UNCHANGED <<policy, bufVars, lock, redis, writerVars, loadVars, clearVars,
                 ftodo, history>>

DrainWithKeys(f) ==   \* flush_events_with_keys
  /\ fpc[f] = "idle"
  /\ lock = Free
  /\ buffer # <<>>
  /\ batch' = [batch EXCEPT ![f] = WithKeys(buffer)]
  /\ keys' = Forget(IdsOf(buffer))
  /\ buffer' = <<>>
  /\ fpc' = [fpc EXCEPT ![f] = "sending"]
  /\ UNCHANGED <<policy, lock, redis, writerVars, loadVars, clearVars, ftodo,
                 history>>

StartConfirmAll(f, ks) ==   \* mutant: deletes by prefix, not by key
  /\ fpc' = [fpc EXCEPT ![f] = IF redis # {} THEN "confirming" ELSE "idle"]
  /\ ftodo' = [ftodo EXCEPT ![f] = redis]

(* confirm_event_redis_keys starts; it returns at once when no handler is  *)
(* attached or every key is empty.                                         *)
StartConfirm(f, ks) ==
  IF attached /\ ks # {}
    THEN /\ fpc' = [fpc EXCEPT ![f] = "confirming"]
         /\ ftodo' = [ftodo EXCEPT ![f] = ks]
    ELSE /\ fpc' = [fpc EXCEPT ![f] = "idle"]
         /\ ftodo' = ftodo

Delivered(f) ==
  /\ fpc[f] = "sending"
  /\ settled' = settled \cup ItemsOf(batch[f])
  /\ StartConfirm(f, KeysOf(batch[f]))
  /\ batch' = [batch EXCEPT ![f] = <<>>]
  /\ UNCHANGED <<policy, bufVars, lock, redis, writerVars, loadVars, clearVars,
                 recorded, erased, forgotten>>

Undelivered(f) ==     \* send returned False, raised, or was cancelled
  /\ fpc[f] = "sending"
  /\ fpc' = [fpc EXCEPT ![f] = "requeue"]
  /\ UNCHANGED <<policy, bufVars, lock, redis, writerVars, loadVars, clearVars,
                 batch, ftodo, history>>

(* requeue_events_in_memory: the whole batch goes back to the front, in    *)
(* order, in one step; what no longer fits leaves at the tail, is counted, *)
(* and its records are then deleted (in the code, newest first).           *)
Requeue(f) ==
  LET b == batch[f]
      evicted == Overflow(b, buffer)
  IN
  /\ fpc[f] = "requeue"
  /\ lock = Free
  /\ buffer' = PushLeftAll(Objects(b), buffer)
  /\ keys' = [d \in Ids |->
               IF d \in IdsOf(evicted) THEN Nil
               ELSE IF \E n \in 1 .. Len(b) : b[n].id = d /\ b[n].key # Nil
                 THEN b[CHOOSE n \in 1 .. Len(b) : b[n].id = d].key
                 ELSE keys[d]]
  /\ settled' = settled \cup ItemsOf(evicted)
  /\ StartConfirm(f, KeysOf(WithKeys(evicted)))
  /\ batch' = [batch EXCEPT ![f] = <<>>]
  /\ UNCHANGED <<policy, lock, redis, writerVars, loadVars, clearVars,
                 recorded, erased, forgotten>>

(* A cancellation that arrives while the caller waits for the lock.        *)
RequeueCancelled(f) ==
  /\ fpc[f] = "requeue"
  /\ lock # Free
  /\ fpc' = [fpc EXCEPT ![f] = "idle"]
  /\ forgotten' = forgotten \cup ItemsOf(batch[f])
  /\ batch' = [batch EXCEPT ![f] = <<>>]
  /\ UNCHANGED <<policy, bufVars, lock, redis, writerVars, loadVars, clearVars,
                 ftodo, recorded, settled, erased>>

ConfirmOne(f, k) ==
  /\ fpc[f] = "confirming"
  /\ k \in ftodo[f]
  /\ DeleteRecord(k)
  /\ ftodo' = [ftodo EXCEPT ![f] = @ \ {k}]
  /\ fpc' = [fpc EXCEPT ![f] = IF ftodo[f] = {k} THEN "idle" ELSE @]
  /\ UNCHANGED <<policy, bufVars, lock, writerVars, loadVars, clearVars, batch,
                 history>>

ConfirmCancelled(f) ==
  /\ fpc[f] = "confirming"
  /\ fpc' = [fpc EXCEPT ![f] = "idle"]
  /\ ftodo' = [ftodo EXCEPT ![f] = {}]
  /\ UNCHANGED <<policy, bufVars, lock, redis, writerVars, loadVars, clearVars,
                 batch, history>>

(* flush_events: drains, deletes the records one by one, and only then     *)
(* returns the batch.  Until it does it alone has the items, with or       *)
(* without a record, and a cancellation or a crash loses them.             *)
Draining(f) ==
  /\ fpc[f] = "idle"
  /\ lock = Free
  /\ buffer # <<>>
  /\ keys' = Forget(IdsOf(buffer))
  /\ buffer' = <<>>
  /\ UNCHANGED <<policy, lock, redis, writerVars, loadVars, clearVars, recorded,
                 erased, forgotten>>

Unrecorded == ~attached \/ KeysOf(WithKeys(buffer)) = {}

DrainAtOnce(f) ==     \* there is no record to delete
  /\ Unrecorded
  /\ Draining(f)
  /\ settled' = settled \cup ItemsOf(buffer)
  /\ UNCHANGED callerVars

DrainLegacy(f) ==
  /\ ~Unrecorded
  /\ Draining(f)
  /\ batch' = [batch EXCEPT ![f] = WithKeys(buffer)]
  /\ ftodo' = [ftodo EXCEPT ![f] = KeysOf(WithKeys(buffer))]
  /\ fpc' = [fpc EXCEPT ![f] = "handing"]
  /\ UNCHANGED settled

SurrenderOne(f, k) ==     \* the delete takes effect or raises
  /\ fpc[f] = "handing"
  /\ k \in ftodo[f]
  /\ DeleteRecord(k)
  /\ ftodo' = [ftodo EXCEPT ![f] = @ \ {k}]
  /\ erased' = erased \cup ((redis \ redis') \cap ItemsOf(batch[f]))
  /\ UNCHANGED <<policy, bufVars, lock, writerVars, loadVars, clearVars, fpc,
                 batch, recorded, settled, forgotten>>

HandOver(f) ==
  /\ fpc[f] = "handing"
  /\ ftodo[f] = {}
  /\ settled' = settled \cup ItemsOf(batch[f])
  /\ fpc' = [fpc EXCEPT ![f] = "idle"]
  /\ batch' = [batch EXCEPT ![f] = <<>>]
  /\ UNCHANGED <<policy, bufVars, lock, redis, writerVars, loadVars, clearVars,
                 ftodo, recorded, erased, forgotten>>

HandOverCancelled(f) ==
  /\ fpc[f] = "handing"
  /\ forgotten' = forgotten \cup ItemsOf(batch[f])
  /\ fpc' = [fpc EXCEPT ![f] = "idle"]
  /\ batch' = [batch EXCEPT ![f] = <<>>]
  /\ ftodo' = [ftodo EXCEPT ![f] = {}]
  /\ UNCHANGED <<policy, bufVars, lock, redis, writerVars, loadVars, clearVars,
                 recorded, settled, erased>>
-----------------------------------------------------------------------------
(* The environment.                                                        *)

Expire(k) ==      \* ttl=3600
  /\ k \in redis
  /\ redis' = redis \ {k}
  /\ erased' = erased \cup {k}
  /\ UNCHANGED <<policy, bufVars, lock, writerVars, loadVars, clearVars,
                 callerVars, recorded, settled, forgotten>>

InMemory == ItemsOf(buffer) \cup UNION {ItemsOf(batch[f]) : f \in Callers}

(* The process dies and a new one starts: a fresh EventBuffer, perhaps with*)
(* another configuration, the records of the old one still in Redis.  A    *)
(* call that was under way is not made again; an item not yet reported     *)
(* still may be.                                                           *)
Crash ==
  /\ policy' \in Policies
  /\ attached' = FALSE
  /\ buffer' = <<>>
  /\ keys' = NoKeys
  /\ lock' = Free
  /\ wpc' = [i \in Items |->
              CASE wpc[i] = "persisting" -> "in"
                [] wpc[i] \in {"waiting", "evicting"} -> "out"
                [] OTHER -> wpc[i]]
  /\ wid' = [i \in Items |-> Nil]
  /\ wkey' = [i \in Items |-> Nil]
  /\ lpc' = "idle" /\ ltodo' = {}
  /\ cpc' = "idle" /\ ctodo' = {}
  /\ fpc' = [f \in Callers |-> "idle"]
  /\ batch' = [f \in Callers |-> <<>>]
  /\ ftodo' = [f \in Callers |-> {}]
  /\ forgotten' = forgotten \cup InMemory
  /\ UNCHANGED <<redis, recorded, settled, erased>>
-----------------------------------------------------------------------------
Writer(i) ==
  \/ AddAppend(i) \/ AddReject(i) \/ AddWait(i) \/ WaitCancelled(i)
  \/ AddEvict(i) \/ EvictDone(i) \/ EvictCancelled(i) \/ PersistDone(i)

Load == InitializeEvents \/ InitializeMetrics \/ LoadMetrics \/ LoadDropped
        \/ LoadScan \/ LoadEnd
        \/ \E k \in Items : LoadOne(k) \/ LoadSkip(k)

Clear == ClearMemory \/ ClearScan \/ ClearEnd
         \/ \E k \in Items : ClearDelete(k)

Caller(f) ==
  \/ DrainWithKeys(f) \/ Delivered(f) \/ Undelivered(f)
  \/ Requeue(f) \/ RequeueCancelled(f)
  \/ (\E k \in Items : ConfirmOne(f, k)) \/ ConfirmCancelled(f)
  \/ DrainAtOnce(f) \/ DrainLegacy(f)
  \/ (\E k \in Items : SurrenderOne(f, k)) \/ HandOver(f) \/ HandOverCancelled(f)

Next ==
  \/ \E i \in Items : Writer(i) \/ Expire(i)
  \/ Load
  \/ Clear
  \/ \E f \in Callers : Caller(f)
  \/ Crash

Spec == Init /\ [][Next]_vars
-----------------------------------------------------------------------------
TypeOK ==
  /\ policy \in Policies
  /\ attached \in BOOLEAN
  /\ buffer \in Seq(Obj) /\ Len(buffer) <= Capacity
  /\ keys \in [Ids -> Items \cup {Nil}]
  /\ lock \in Items \cup {Free, Loader}
  /\ redis \subseteq Items
  /\ wpc \in [Items -> {"new", "waiting", "evicting", "persisting", "in", "out"}]
  /\ wid \in [Items -> Ids \cup {Nil}]
  /\ wkey \in [Items -> Items \cup {Nil}]
  /\ lpc \in {"idle", "pending", "scan", "loading", "done"} /\ ltodo \subseteq Items
  /\ cpc \in {"idle", "scan", "deleting"} /\ ctodo \subseteq Items
  /\ fpc \in [Callers -> {"idle", "sending", "requeue", "confirming", "handing"}]
  /\ batch \in [Callers -> Seq(Entry)]
  /\ ftodo \in [Callers -> SUBSET Items]
  /\ recorded \subseteq Items /\ settled \subseteq Items
  /\ erased \subseteq Items
  /\ forgotten \subseteq Items

(* The key map speaks only of objects that are in the buffer, and gives    *)
(* each the key of its own record: no key is inherited through a reused    *)
(* id(), none is left behind by an eviction, a drain or a clear.           *)
KeyMapExact ==
  \A d \in Ids : keys[d] # Nil =>
    \E n \in 1 .. Len(buffer) : buffer[n] = [item |-> keys[d], id |-> d]

(* At-least-once across restarts: a record that was written stays in Redis *)
(* until the item was accepted by the backend or counted as dropped, or    *)
(* the record was cleared or reached its ttl.  A crash, a cancellation or  *)
(* a failed send at any await leaves it there, with one exception, which   *)
(* is in erased too: flush_events deletes the records of its batch before  *)
(* it returns the batch, and if it is interrupted there they are lost.     *)
Durable == recorded \ (settled \cup erased) \subseteq redis

(* The facts KeyMapExact and Durable rest on, which no step may break:     *)
(* the lock has the holder the coroutines' states say; live objects have   *)
(* distinct ids; the object whose record is being written is still in the  *)
(* buffer, and the one being evicted is still its first and has no key; a  *)
(* batch carries only its own items' keys; and every delete that is still  *)
(* to be sent is of an item that is settled or, in flush_events, of the    *)
(* batch itself.                                                           *)
LockOK ==
  /\ \A i \in Items : wpc[i] \in {"evicting", "persisting"} => lock = i
  /\ lpc \in {"scan", "loading"} => lock = Loader

UniqueIds ==
  /\ \A m, n \in 1 .. Len(buffer) : buffer[m].id = buffer[n].id => m = n
  /\ \A f \in Callers : \A m, n \in 1 .. Len(batch[f]) :
       batch[f][m].id = batch[f][n].id => m = n
  /\ \A f \in Callers : \A m \in 1 .. Len(batch[f]), n \in 1 .. Len(buffer) :
       batch[f][m].id # buffer[n].id
  /\ \A f, g \in Callers :
       \A m \in 1 .. Len(batch[f]), n \in 1 .. Len(batch[g]) :
         batch[f][m].id = batch[g][n].id => f = g

WriterObj ==
  \A i \in Items :
    /\ wpc[i] = "persisting" =>
         \E n \in 1 .. Len(buffer) : buffer[n] = [item |-> i, id |-> wid[i]]
    /\ wpc[i] = "evicting" => Len(buffer) > 0 /\ keys[buffer[1].id] = Nil

BatchKeys ==
  \A f \in Callers : \A n \in 1 .. Len(batch[f]) :
    batch[f][n].key \in {Nil, batch[f][n].item}

PendingDeletes ==
  /\ \A i \in Items : wpc[i] = "evicting" => wkey[i] \in settled
  /\ \A f \in Callers :
       ftodo[f] \subseteq IF fpc[f] = "handing" THEN ItemsOf(batch[f])
                          ELSE settled

(* A writer that suspends while it evicts has counted the object that is   *)
(* about to go; and a caller that is not sending holds no batch.           *)
EvictCounted == \A i \in Items : wpc[i] = "evicting" => buffer[1].item \in settled
NothingHeld ==
  \A f \in Callers : fpc[f] \in {"idle", "confirming"} => Len(batch[f]) = 0

(* Batches are never longer than the buffer they were drained from.        *)
TypeInv == TypeOK /\ \A f \in Callers : Len(batch[f]) <= Capacity

(* What is in memory, as objects.                                          *)
Copies(s) == {[item |-> s[n].item, id |-> s[n].id] : n \in 1 .. Len(s)}
Taken == UNION {Copies(batch[f]) : f \in Callers}
Live  == Copies(buffer) \cup Taken

(* Why the start-up load cannot duplicate an event, when it runs once:     *)
(* what was reported before it has no record, since there was no Redis,    *)
(* and nothing is recorded while it runs, since it holds the lock.  Of a   *)
(* metric that was reported before the metrics' turn the second is false,  *)
(* and its load makes a second object of it.                               *)
LoadedOnce == Lane = "events" /\ ~Reinit
Once ==
  /\ \A c, d \in Live : c.item = d.item => c = d
  /\ \A c \in Live : wpc[c.item] \in {"persisting", "in"}
  /\ \A i \in redis : wpc[i] = "in"
  /\ attached = (lpc # "idle") /\ lpc # "pending"
  /\ \A i \in Items : wpc[i] = "persisting" => lpc = "done"
  /\ lpc \in {"idle", "scan"} => \A c \in Live : c.item \notin redis
  /\ lpc = "loading" => \A c \in Live : c.item \notin redis \cap ltodo

(* However often Redis is attached, an item exists twice only if a record  *)
(* of it was written: a load is all that makes a second object, and the    *)
(* records it reads are of items whose add_event is over.                  *)
TwinsRecorded ==
  \A c, d \in Live : c.item = d.item => c = d \/ c.item \in recorded
RecordsOver ==
  /\ redis \subseteq recorded
  /\ \A i \in recorded : wpc[i] = "in"
  /\ \A c \in Live : wpc[c.item] \in {"persisting", "in"}

(* All of these together: in every reachable state the lock, identities,   *)
(* keys, batches, pending deletes and records fit together.                *)
IInv == /\ TypeInv
        /\ LockOK /\ UniqueIds /\ WriterObj /\ KeyMapExact
        /\ BatchKeys /\ PendingDeletes /\ Durable
        /\ EvictCounted /\ NothingHeld
        /\ TwinsRecorded /\ RecordsOver
        /\ LoadedOnce => Once

(* Nothing that was accepted disappears unaccounted: it is in the buffer,  *)
(* in a batch some caller holds or in Redis, or it was settled, cleared,   *)
(* or lost in one of the ways the code admits: a crash, an eviction by the *)
(* start-up load, a cancelled requeue or a cancelled flush_events.         *)
Accounted ==
  \A i \in Items : wpc[i] \in {"persisting", "in"} =>
    i \in InMemory \cup redis \cup settled \cup erased \cup forgotten

(* An agent that attaches Redis once never holds two live objects of the   *)
(* same event or with the same id(), wherever they are: the start-up load  *)
(* does not duplicate what is buffered or in flight.  It is not so of      *)
(* metrics.                                                                *)
NoTwin ==
  LET Places == {<<"buffer", n, buffer[n]>> : n \in 1 .. Len(buffer)}
                \cup UNION {{<<f, n, batch[f][n]>> : n \in 1 .. Len(batch[f])}
                              : f \in Callers}
  IN \A x, y \in Places :
       x[3].item = y[3].item \/ x[3].id = y[3].id => x = y

(* With one caller events are offered in the order of arrival: no step     *)
(* (append, drain, failed send, requeue, eviction) swaps two items that    *)
(* wait, and a newly arrived one goes behind those that stay.              *)
Line(f) == batch[f] \o buffer
Before(s, a, b) ==
  \E m, n \in 1 .. Len(s) : m < n /\ s[m].item = a /\ s[n].item = b
OrderKept ==
  [][\A f \in Callers : \A a, b \in Items :
       /\ Before(Line(f), a, b) => ~Before(Line(f)', b, a)
       /\ Before(Line(f)', a, b) /\ b \in ItemsOf(Line(f))
            => a \in ItemsOf(Line(f))]_vars

(* What the buffer promises is DurableQueue: the deque is its queue, the   *)
(* batches are what it has given out, Redis is its store.                  *)
Queue == INSTANCE DurableQueue WITH
  Copy   <- Obj,
  queued <- Copies(buffer),
  taken  <- Taken,
  stored <- redis,
  over   <- settled \cup erased

(* Whatever its coroutines do between their awaits, and whichever of them  *)
(* are cancelled or crash there, what can be seen of the buffer is a       *)
(* behaviour of that queue: every step of the code is one of its steps.    *)
QueueSpec == Queue!Spec
-----------------------------------------------------------------------------
(* Fairness: every Redis call and every send returns, the flush loop keeps *)
(* draining, and asyncio.Lock is granted in order, so that a coroutine     *)
(* which keeps being able to take the lock does take it.                   *)
Fairness ==
  /\ \A i \in Items :
       /\ SF_vars(AddAppend(i)) /\ WF_vars(EvictDone(i)) /\ WF_vars(PersistDone(i))
  /\ WF_vars(LoadScan) /\ WF_vars(LoadEnd)
  /\ \A f \in Callers :
       /\ SF_vars(DrainWithKeys(f)) /\ SF_vars(Requeue(f))
       /\ WF_vars(Delivered(f) \/ Undelivered(f))
       /\ WF_vars(\E k \in Items : ConfirmOne(f, k))
       /\ WF_vars((\E k \in Items : SurrenderOne(f, k)) \/ HandOver(f))

FairSpec == Spec /\ Fairness

(* Under the block policy a writer that waits for space gets in (or is     *)
(* cancelled), even if every send fails: each drain makes room and wakes   *)
(* it before the batch can come back.                                      *)
BlockedReturns == \A i \in Items : []<>(wpc[i] # "waiting")
=============================================================================
