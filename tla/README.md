# guard-agent in TLA+

`guard_agent` is the telemetry agent that fastapi-guard, flaskapi-guard and
djangoapi-guard embed in a web application.  It buffers security events and
metrics, ships them in batches to a collector over HTTP, reports its status and
fetches dynamic rules.  Everything runs as coroutines of one asyncio loop (a
background thread's loop under WSGI); Redis, when configured, makes the buffer
survive a restart.

This directory holds TLA+ modules of the agent, TLC configurations that check
them on small instances, and TLAPS proofs.  `PROJECT.json` maps each definition
to the source lines it models and lists runs, mutants, findings, hazards and
theorems.

    tlc -config EventBuffer_safety.cfg MCEventBuffer.tla
    tlapm EventBufferProofs.tla

## Inventory

| Component | State | Operations | Interacts with |
|---|---|---|---|
| Event and metric buffer (`buffer.py`, `_buffer_*.py`) | two bounded deques, a map id() -> Redis key and a condition (with its lock) per lane, the Redis records, drop counters | `add_*`, `flush_*_with_keys`, `confirm_*`, `requeue_*`, `flush_*`, `clear_buffer`, `initialize_redis` | called by ingestion, by the flush loops, by start-up |
| Auto-flush (`_buffer_lifecycle.py`) | `_running`, the loop task, the semaphore, the set of in-flight flush tasks | `start_auto_flush`, `stop_auto_flush`, `_flush_if_needed` | calls the client's `flush_buffer` |
| Client flush (`_client_flush.py`) | failure streak and retry-after per lane, sent and failed counters | `flush_buffer` | drains, confirms, requeues the buffer; calls the transport |
| Client loops (`client.py`, `_client_loops.py`) | `_running`, three tasks, cached rules, failure counters | `start`, `stop`, the flush, status and rules loops, `get_dynamic_rules`, the fork hook | everything |
| Transport (`transport.py`, `_transport_*.py`) | HTTP client and its pid, encryptor, counters | `send_events`, `send_metrics`, `send_status`, `fetch_dynamic_rules`, `initialize`, `close` | limiter, breaker, collector |
| Circuit breaker, rate limiter (`utils.py`) | state, failure count, last failure; call times | `call`; `acquire`, `get_retry_after` | shared by every request of the agent |
| Sync handler (`client.py`) | a loop thread, a singleton | every client operation as a blocking call | runs the client on its thread |
| Install identity (`install_id.py`) | a file | `resolve_install_id` | several processes |
| Ingestion, status, sanitiser, encryption, signing, models, logging | none or counters | pure data transformations and getters | - |

What is hard, and what makes each part correct:

- **Buffer.**  Writers, flushes, the load and `clear_buffer` suspend in Redis
  calls, some holding the lock and some not; keys are looked up by `id()`, which
  CPython reuses; tasks are cancelled at any await; the process may die.  Correct:
  a key never belongs to another item, a record is deleted only when its item is
  settled, nothing vanishes uncounted, order is kept, blocked writers get in.
- **Transport.**  A batch is cut in halves on 413, each half retried on its own;
  one Boolean must stand for all of it.  Correct: True only when every item is
  settled, False only after a passing failure, a bounded number of requests, and
  an answer in the end.
- **Breaker and limiter.**  Calls admitted earlier report late.  Correct: fail
  fast after the threshold, try again after the timeout, never more than the cap
  in a window, and a sleep that is long enough.
- **Client flush.**  Several flushes of a lane at once share streak and
  retry-after.  Correct: the backoff fits the streak; a lane recovers; lanes do
  not block each other.
- **Lifecycle.**  Events keep spawning flushes while `stop()` winds the agent
  down step by step.  Correct: the cap on concurrent flushes, no flush after
  `stop()`, `stop()` returns, what is buffered is sent.
- **Rules cache.**  The rules loop and the application fetch at the same time,
  take their time stamps before the answer and store after it.  Correct: rules are
  served only within their time to live, and the last rules win in the end.
- **Sync handler.**  Threads without a lock construct one handler and wait on its
  loop without a timeout.  Correct: no call is lost on a
  loop that nobody runs, and every call returns.
- **Processes.**  A child inherits buffer, client and task handles of the parent;
  processes share the install id file.  Correct: nothing of the parent's is used,
  no socket is shared, the processes go by one id.

## Modules

| Module | Models | Used by |
|---|---|---|
| `DurableQueue` | abstract: what the buffer promises | `EventBuffer` (INSTANCE, refinement) |
| `EventBuffer` | one lane of the buffer, its Redis records, all its callers | `MCEventBuffer`, `EventBufferProofs` |
| `CircuitBreaker` | `utils.CircuitBreaker` with concurrent callers | `Transport` (INSTANCE), `CircuitBreakerProofs` |
| `RateLimiter` | `utils.RateLimiter` and the sleep a denial costs | `Transport` (INSTANCE), `TransportProofs` |
| `Transport` | the sends, composed with one limiter and one breaker | `MCTransport`, `TransportProofs` |
| `FlushBackoff` | `flush_buffer`: two lanes, streaks, retry-after | `FlushBackoffProofs` |
| `Lifecycle` | `start`, `stop`, both flush loops, watermark flushes, the application's own requests, the HTTP client's life | `LifecycleProofs` |
| `RulesCache` | `get_dynamic_rules` with concurrent callers | `RulesCacheProofs` |
| `SyncHandler` | `SyncGuardAgentHandler`: threads, its loop, a fork | `SyncHandlerProofs` |
| `InstallId` | `resolve_install_id` in several processes | `Workers` (EXTENDS) |
| `Workers` | the handler in the processes of a forking server | `MCWorkers`, `WorkersProofs` |

One rule holds in the modules of coroutines: the agent is single-threaded asyncio
code, so what a coroutine does between two awaits is one action, and each await at
which other coroutines can matter is a value of a program counter.  In
`SyncHandler` and `InstallId` the actors are threads and processes, and an action
is what they do between two accesses to what they share.

### EventBuffer

One lane.  Events and metrics run the same code over separate state but for the
load at start-up, which has one lane's records after the other's: `Lane` says
which of the two a model is of.

- `buffer` is the deque, oldest first.  Its elements are *objects*: an item and
  the `id()` of the Python object that carries it.  `keys` is
  `_event_redis_keys`, a map from `id()` to Redis key.  An item doubles as its
  Redis key (the code draws a unique key per item); `redis` is the set of
  records.  Any identity no live object has can be given to a new object:
  `FreeIds`.
- `lock` is the condition's lock with its holder.  Without Redis nothing
  suspends while holding it, so those calls are single steps.
- `wpc[i]` is the `add_event` call that reports item `i`: "new", "waiting" (in
  `condition.wait`), "evicting" (deleting the evicted item's record),
  "persisting" (in `set_key`), "in" or "out".
- `fpc[f]` is a flush: `DrainWithKeys`, then `Delivered` or `Undelivered`, then
  `Requeue` and the deletes, one `ConfirmOne` per key.  `flush_events` (the older
  interface) drains (`DrainLegacy`), deletes the records of its batch while it is
  "handing", one `SurrenderOne` per key, and only then returns the events
  (`HandOver`); a cancellation before that loses them (`HandOverCancelled`).
- `initialize_redis` publishes the handler.  With the events it takes their lock in
  the same step and loads (`InitializeEvents`); the metrics have to wait until the
  load of the events is through: their load is "pending" (`InitializeMetrics`),
  `add_metric` goes on meanwhile and records what it adds, and then the load takes
  the lock (`LoadMetrics`) or never begins, since the load of the events failed
  (`LoadDropped`).  A load holds the lock over all its Redis calls (`LoadScan`,
  `LoadOne`, `LoadSkip`, `LoadEnd`).
- `clear_buffer` clears memory under the lock and deletes records without it.
- Each Redis call takes effect or not, independently of whether it returns or
  raises (`PersistDone`, `DeleteRecord`).  A cancellation is possible at every
  await (`WaitCancelled`, `EvictCancelled`, `RequeueCancelled`,
  `ConfirmCancelled`, and the "stored but not tracked" outcome of `PersistDone`).
- `policy` is the configured overflow policy; `Crash` starts a new process,
  perhaps with another policy, over the same Redis.
- `recorded`, `settled` (delivered, handed over, or counted as dropped), `erased`,
  `forgotten` are history: they appear in no guard.

`condition.wait` with its 0.5 s poll is an `AddAppend` that is enabled whenever
the lock is free and there is space.  The order in which `confirm` deletes keys
is left open.

`DurableQueue` says what all this amounts to: a set of waiting copies, a set of
copies given out, a store and a set of items that are over; a copy leaves only in
the ways its actions list.  The refinement mapping reads the deque as the queue, the
batches as what was given out, Redis as the store, and `settled` and `erased` as
what is over.  `Erase`, which takes a record from the store though its item was not
delivered, stands for what `clear_buffer` and the ttl do, and for `flush_events`,
whose records go before its events are handed over.  The detailed module takes
several steps where the queue takes one (an eviction is `Condemn`, then `Report`;
the deletes of a confirmed batch are `Remove` steps).

### CircuitBreaker and RateLimiter

The code compares *differences* of `time.time()` with a timeout, so both modules
keep ages: `sinceFailure` is the age of `last_failure_time`, saturated one past
the timeout, and `calls` the ages of the grants.  `failureCount` saturates at
`MaxCount`, above the threshold: the code only asks whether the threshold is
reached.  A call is `StartCall`, then `CallSucceeded`, `CallFailed` or
`CallNeutral` (a permanent rejection, or `CancelledError`), with any number of
calls in between.

### Transport

Each caller works through `todo`, a stack of segments of its batch; a 413 replaces
the first by its halves, which is the recursion of
`_split_or_drop_on_payload_too_large`.  `ok` is the "and" of what the segments
returned.  `Request`, `Throttled`, `Refused` and `Exhausted` are the ways through
one turn of `_send_with_retry` and `_get_with_retry`; the actions from `Accepted`
to `TooLarge` are the answers of the collector with what `_handle_response`,
`_evaluate_send_result` and the `except` clauses make of them.  `kind` tells
`send_events`/`send_metrics`, `send_status` and `fetch_dynamic_rules` apart.
The limiter's and the breaker's variables are this module's variables, and each
action is built from theirs.

### FlushBackoff

`full[l]` says whether lane `l` holds items (what becomes of them is
`EventBuffer`'s business), `streak` and `backoff` are the failure streak and the
time left until `retry_after`, `pc` and `lane` where each concurrent
`flush_buffer` is.  A send suspends between drain and outcome, and the outcome
suspends again (confirming keys) before it touches streak and retry-after, so
outcomes of two flushes can arrive in either order.  Only `CancelledError` leaves
`send_events` as an exception, so "raised" is possible only while the agent is
being stopped (`Stopping`).

### Lifecycle

`pc` of the flush loops, the auto flush loop and the watermark tasks, `inflight`
(`_inflight_flush_tasks`), `semaphore` and its `holders`, `open` (the transport
has a client), and for each task of the application where it is (`calling`) and what
it is `awaiting`.  `stop()` cancels and awaits the client's loops, then the auto flush
loop, gathers the in-flight flushes it finds, drops the semaphore, flushes once
more and closes the transport.  `start()` does not suspend and may come while a
`stop()` waits; it then keeps an auto flush task that is alive, though it may have
been cancelled (`StartAutoFlush`).  A flush whose client is closed under it opens
another one (`Retry`).  The application also calls what it likes, running or not:
`flush_buffer()` (`Flush`, `Flushed`, by the tasks in `Flushers`) and requests that
are no flush (`Ask`, one attempt of `get_dynamic_rules()`), and every attempt opens
the client if it is closed.  Of the client's three loops the flush loop is kept; the
status and rules loops end with it, and of this state their requests touch only the
client, which is `Ask`, too.  `leftover` and `strayed` are history.

### RulesCache

Rules are their version.  `ttl` and `outdated` are the collector's side: the time
to live of each version, and for how long it has been replaced.  `cached` and
`stampAge` are `_cached_rules` and the age of `_rules_last_update`; `startAge` is
the age of a call's `current_time`.  `Ask` takes the stamp, `Answer` is the
collector, `Store` stores with the stamp of the call.

### SyncHandler

`loop` is `_loop`, `served` the loops whose thread runs, `ending` those with
`loop.stop` among their callbacks.  A thread is in the constructor ("checked",
"made"), "out", waiting for a call of one of the `Kinds`, or in `thread.join`.
`Turn` is the loop finishing a coroutine; `EndLoop` leaves unfinished coroutines
where they are.  After `Fork` only the forking thread is left, and no loop runs.

### InstallId and Workers

`InstallId` follows `_read_install_id` and `_write_install_id` file operation by
file operation; `write_text` empties the file (`Open`) before it fills it
(`Write`).  `Workers` extends it by what a process holds of the agent: a record
with `_initialized`, `_owner_pid`, `_running`, the handles of the client's tasks and
of the buffer's ("own" or "inherited"), whose events the buffer holds, whose sockets
the client has, and the transport's `_pid`.  `Fork` hands all of it to the child, with
or without the two `os.register_at_fork` hooks; the hooks leave the buffer and its
task as they are, which only another construction replaces.

## Runs

| Run | Instance | Shows |
|---|---|---|
| `buffer_safety` | events: 3 items, 3 ids, 1 flush, capacity 2, policy "drop" | the inductive invariant `IInv` of the proofs; `KeyMapExact`, `Durable`, `Accounted`, `NoTwin`, `OrderKept` under every interleaving with load, clear, expiry, Redis failures, cancellations and crashes; `QueueSpec`: the buffer implements `DurableQueue` |
| `buffer_concurrent` | metrics: 2 items, 2 ids, 2 flushes, capacity 1, policy "block", Redis attached again at any time | `IInv` (twins come from records only) and `Accounted`, with twins of an item in two batches, and metrics recorded while their load is pending |
| `buffer_block` | events: 2 items, 1 flush, capacity 1, policies "block" and "raise" | `BlockedReturns`: a blocked writer gets in |
| `breaker` | 4 callers, threshold 3, timeout 3 s | `IInv`, `FailFast`, `Reopens` |
| `transport` | a batch of up to 3 items or a status report, and a rules fetch; 2 attempts per segment | `IInv` (segments, results and requests fit together; until something fails the circuit is closed and only denials use attempts up); what `send_events` returns is true of every item (`TrueMeansSettled`), nothing sent twice (`SentOnce`), every step of a send brings it nearer its end (`RunsDown`); `BreakerSpec` (refinement), `WindowBound`, `RetryAfterSuffices`, `FalseMeansTrouble` (False only after a passing failure, or because the agent's own limiter denied a last attempt), `SendReturns` |
| `flush` | 2 flushes, delays of 2, 4 and 5 s, then the overflow of the exponent, scaled from 1023 to 2 | `TypeOK`, `BackoffFitsStreak`, `Drained` |
| `flush_overflow` | the same exponent limit | finding: the failure after it sets no backoff |
| `lifecycle` | 2 watermark tasks, 2 tasks that call `stop()`, one of them `flush_buffer()`, too, 2 flush loops, semaphore of 1, overlapping starts, requests at any time | `IInv` (a stop awaits only tasks that end), `CapRespected`, `RunningFlushes`, `ClientClosed`, `NoLateFlush`, `StopReturns` |
| `lifecycle_awaits` | 2 watermark tasks, one `stop()`, semaphore of 1 | finding: `stop()` leaves a flush running |
| `rules` | 2 callers, times to live 0 and 2, 3 versions, ages up to 3 | `WithinTtl`, `Converges` |
| `sync` | 3 threads, at most one fork | `NobodyStranded` (no call is handed to a loop that nobody will run), `Answered`, `StopReturns` |
| `workers` | 3 processes, 2 ids | `TypeOK`, `Agreed`, `OwnAgent`, `SocketPrivate` |

Why the instances are large enough:

- *Buffer.*  The hazards need one object in the buffer, one in a batch and one
  arriving: `buffer_safety` has three ids, so that identities run out and are
  reused at once; in `buffer_concurrent` the two ids are those of two objects, in
  two batches or in a batch and the buffer, possibly twins.  With
  capacity 2 a drop happens with and without a survivor, a requeue evicts part of
  what arrived meanwhile, and order is observable.  Two concurrent batches with
  capacity 1 evict each other.  Items and ids are interchangeable, hence the
  symmetry; it is not used in the liveness run.  Each safety run has one policy:
  "drop", which evicts, with one flush, and "block", under which a writer waits while
  two flushes overlap.  "raise" only turns an item away and is in `buffer_block`.
  `buffer_safety` has the lane of the events, of which more is claimed, and
  `buffer_concurrent` that of the metrics, with the gap before their load.
  The proofs cover both lanes and all three policies, with any number of flushes.
- *Breaker.*  Threshold and timeout above 1 make counting and ageing visible;
  four callers are one more than the threshold, so that a call admitted before the
  circuit opened can report after it.  `MaxCount` is past the threshold.
- *Transport.*  Three items are the least that split unevenly and twice.  One
  request per window of 2 makes denials frequent and lets a request outlast the
  window, so that two are in flight at once; a retry delay as long as the window
  makes the sleepers overlap.  Larger caps are left to the proofs: with every
  attempt counted in `requests` they multiply the states, and the fair behaviours
  are searched on the same instance.  A threshold of 1 lets a single failure of
  either caller open the circuit between the attempts of the other; the breaker
  itself is checked with larger numbers in `breaker` and proved for all.
- *Flush.*  The delays reach the cap, and the next failure overflows the exponent:
  with an exponent limit of 2 the failure of a streak of 3 is what that of a streak
  of 1024 is in CPython, in both cases past the cap.  Further failures
  change nothing but the streak, which therefore saturates at `MaxStreak`.
- *Lifecycle.*  One more watermark task than permits, and a task that outlives a
  stop; two stops and a start between them make every pair of windings-down overlap,
  and a stop overlaps a `flush_buffer()` of the other task.  A third flush loop
  would need two starts within one turn of a loop.
- *Rules.*  With ages up to 3 a copy of ttl 2 is fresh, just expired and long
  expired; rules of ttl 0 are never served from the cache; three versions let an
  answer be overtaken by one of which the cache holds the successor.
- *Sync.*  Two threads that race (in the constructor or in `stop()`) and one that
  calls.
- *Workers.*  A parent, a child and a grandchild, or two children; two ids are
  enough for a disagreement.  Pids are not reused.

Deadlock checking is on but in two runs.  Elsewhere not everything may stop, since
events, calls and time always remain possible.  In `sync` the program really may
stop: when the loop has ended, every thread may wait for ever.  In `workers` all
processes may have ended.

## Fairness

- `EventBuffer!FairSpec`: Redis calls and sends return (weak fairness); the flush
  loop keeps draining and `asyncio.Lock` is handed out in order, so taking the
  lock is strongly fair.  No fairness for cancellations, failures or crashes, and
  none that sends ever succeed.
- `CircuitBreaker!FairSpec`: time passes, httpx's timeout ends every request, and
  the loops keep issuing requests.
- `Transport!FairSpec`: time passes and each caller takes its steps.  The collector
  answers somehow (httpx's timeout is the `Failed` answer); it need not ever accept.
- `FlushBackoff!FairSpec`: time passes, each flush task goes on and the loops go
  round.  `Drained` assumes that the collector accepts the lane again, `up[l]`,
  which is its hypothesis and not fairness.  The other lane may keep failing; only
  when the events have failed so often that the exponent overflows are the metrics
  not reached, and `Drained` excepts that.
- `Lifecycle!FairSpec`: every task and every `stop()` gets its turns and every request
  ends, since its attempts are bounded and each has a timeout; a new flush need never
  begin.
- `RulesCache!FairSpec`: time passes and the rules loop keeps asking; of its
  requests not all fail, so `Answer` and `Store` are strongly fair for the loop.
  `Converges` would be no promise of the agent if the collector never answered, and
  there is a rules loop only if `project_id` is set.
- `SyncHandler!FairSpec`: threads and running loops get their turns and a coroutine
  ends.  Each of them is bounded (see the other modules), but for a `send_event` that
  waits for room under the "block" policy while nobody flushes, before `start()`.

## Proofs

All constants are arbitrary, under the named assumptions of the modules
(`Capacity` positive, some id, `Free`, `Loader` and `Nil` distinct from items and
ids; every caller has an operation, batches, `MaxCalls` and `Window` positive;
threshold positive, `MaxCount` at least the threshold; delays natural numbers, and
`MaxStreak` greater than `MaxExponent`;
at least one permit, loops and watermark tasks distinct, `Flushers` among the
`Callers`; no time to live above
`MaxAge`; `NoLoop`, `NoProc` and `NoId` outside the sets they complete).  Every
invariant and every action property that a passing run checks is the statement of
a theorem, and so are both refinements.

`EventBufferProofs`: `TypeCorrect`, `Invariance`, `KeyMapCorrect`, `Durability`,
`NothingUnaccounted`, `NoTwinHeld`, `TwinsCameFromRecords`, `DeliveryInOrder` and
`ImplementsQueue`.
Neither `KeyMapExact` nor `Durable` nor `NoTwin` is inductive.

- `KeyMapExact` says that an entry of the key map names an object in the buffer
  and its own item.  A step that writes the map needs to know that the object it
  writes for is still there: `WriterObj` (the object being persisted is in the
  buffer, the one being evicted is first in it and has no key).  That holds because
  nobody drains or clears meanwhile: `LockOK`.  A requeue restores entries from a
  batch, so the batch carries only its own items' keys (`BatchKeys`), and no entry
  is overwritten because live objects differ in identity (`UniqueIds`).
- `Durable` says that a record is in Redis unless its item was settled or erased;
  `flush_events`, which deletes records before it hands its events over, erases
  them, and is the one way a crash or a cancellation loses what was recorded.
  Deletes are sent long after the decision, so `PendingDeletes` says that each
  delete still to be sent is of an item already settled, or of the batch that
  `flush_events` holds; `KeyMapExact` and `BatchKeys` are what makes the keys of a
  batch the keys of its items.
- `Accounted` follows an item from place to place.  An eviction that suspends in a
  Redis call has already counted its victim (`EvictCounted`), so the append
  that ends it loses nothing uncounted; and a caller that is not sending holds no
  batch (`NothingHeld`), so a drain overwrites none.
- `NoTwin` needs to know why the start-up load does not duplicate what is in memory:
  `Once`.  What was reported before the load has no record, since there was no
  Redis; while the load runs nobody records anything, since it holds the lock; and a
  key is read once.  `Once` holds of events in an agent that attaches Redis once;
  `NoTwinHeld` and `DeliveryInOrder` therefore assume `Lane = "events"` and `Reinit
  = FALSE`.  With a second attachment an item may come back as a second object, and
  of metrics what was recorded before their load took the lock, which
  `buffer_concurrent` admits; `TwinsCameFromRecords` says that only an item of which
  a record was written can.  For this `RecordsOver` is needed: the items of records
  are past their `add_event`, so that none of them is appended again.
- `OrderKept` is an action property.  `Follows(s, t)` says that `t` begins with
  elements of `s`, picked out by an increasing function, and that the items after
  those do not stand in `s`; since no item stands twice in a line (`NoTwin`), a
  line that follows another swaps nothing.  Each action that touches the line is
  shown to make it follow: an append with or without a discard, a drain, a
  requeue, a batch given up.  The theorem is for one caller, as the property is:
  with two, the older batch may come back behind the younger one.
- `ImplementsQueue` shows that every step is a step of `DurableQueue` or changes
  nothing of what it sees.  An eviction is `Condemn`, then `Report`; a requeue that
  overflows is one `Return` whose losses are over at once; the deletes of a
  confirmed batch are `Remove` steps, allowed because `PendingDeletes` says that what
  they delete is over.

`IInv` is the conjunction, with `TypeInv` (batches are never longer than the
capacity, so a requeue never evicts its own items).  The proof has a lemma per
operator on sequences (`PushRightFact`, `PushLeftFact`, `OverflowFact`, ...), one
per way memory changes as a set of objects (`AppendCopies`, `RequeueCopies`,
`LiveCaller`, ...), then a type lemma and a safety lemma per kind of coroutine with
one step per action.  The theorems hold with any number of concurrent flushes,
and but for the two named above of both lanes and with Redis attached any number of
times (`Reinit`), which TLC sees only on a small instance.

`TransportProofs`: `Invariance`, `TypeCorrect`, `TrueIsSafe`, `FalseIsPassing`,
`RequestsBounded`, `SendsRunDown`, `NoDuplicates`, `RateBounded`, `SleepSuffices`,
`ImplementsBreaker` and `RequestsFailFast`.  The inductive invariant `SInv` has
three parts.

- `SendInv` says `Good` of the values of each caller: its segments lie end to end and
  cover what is left (`Linked`), what was settled is a prefix of the batch that is
  whole while the result is True, and the requests made so far are paid for.
  Every segment has `K` attempts; n items are covered by at most 2n - 1 segments,
  the ones that were cut included, so that "segments spent so far" (`Spent`) plus
  the attempts of the present one bound the requests, and a 413 spends the segment
  it cuts.  The products are kept opaque (`Units`, `UnitsFact`).
- `WindowInv`: the limiter's list is oldest first, keeps every grant of the last
  window, and never outgrows the cap.  A sleeper that has just computed its delay
  (`fresh`) wakes no earlier than the oldest grant leaves the window.  The code
  rebuilds the list with a filter; on a list that is oldest first the filter drops a
  prefix, which is the form `Newer` has (a filter fold is out of the prover's reach),
  and the assertion `NewerIsTheFilter` lets TLC compare the two on all short lists.
- `BreakerInv`: while no request has failed in passing, the circuit is closed and
  only denials of the agent's own limiter use attempts up (`Untroubled`, `Calm`).
  Hence a batch comes back False only after such a failure or from a caller whose
  last attempt on a segment was denied (`starved`), which is `FalseMeansTrouble`.

`SendsRunDown` gives every send a number of steps that it still has at most
(`Left`): for each segment that may come, cuts included, two for each of its
attempts and a few around them.  A step of the send lowers it, whatever
the answer; a step of anybody else leaves it alone, and a cancellation ends it.

`RequestsFailFast` composes two results: the transport implements
`CircuitBreaker!Spec`, hence what is proved of the breaker holds in it.

`CircuitBreakerProofs`: `BreakerInvariance` (`IInv`: closed exactly while fewer
than a threshold of failures came in a row, and half open only when the recovery
period has passed) and `FailsFast`, an action property that follows from it: an
open circuit has at least a threshold of failures, and only a call that finds the
period elapsed leaves it.  `OpenEnds`: while it is open, the calls in flight only
get fewer, and each that fails puts the period off once.

`FlushBackoffProofs`: `TypeCorrect`, `BackoffCorrect` and `OverflowIsTheException`.
`BackoffFitsStreak` compares a backoff that was set in one failure with the streak
after later ones, so the proof needs that the delay grows with the streak. Powers of
two are the sizes of power sets (`PowerFact`), which gives that without an
induction.  `StreakAssumption` makes the saturated streak harmless: at it the power
overflows already.  What `Drained` says of the lanes past it is for TLC.
`OverflowIsTheException` is the counterpart of the finding `flush_overflow`: each
counted failure for which the power can be computed sets a backoff of at least a
flush interval and at most the cap.  `LaneRecovers`: once the collector accepts a
lane, the flushes that have failed and are not yet counted only get fewer, and
nothing else raises the backoff.

`LifecycleProofs`: `LifecycleInvariance`, `TypeCorrect`, `CapHolds`, `LoopRuns`,
`StoppedIsClosed`, `NothingLate`, `NobodyAwaitedInVain`, `StopsShrink`.  `CapRespected`,
`RunningFlushes`, `ClientClosed` and `NoLateFlush` are not inductive.  The cap needs
`PermitsHeld`:
whoever sends through the semaphore holds one of its permits or was left over by
an earlier one.  That
nobody begins late needs `SemaphoreOwned` (the semaphore is there only while the
agent runs or a `stop()` has not yet dropped it) and `LoopsOwned` (a flush loop
that is alive belongs to a running agent or has been cancelled).  `LoopRuns` needs
`CancelledAlive`, since otherwise a new loop could inherit an old cancellation.
`StoppedIsClosed` needs `StrayClosed` for the flush that reopens the client; what the
application requests after the last `stop()` sets `strayed` at once.
`AwaitedEnd` is why nobody is awaited in vain: a loop that was cancelled neither goes
on nor is started again before it is gone (`start_auto_flush` leaves it alone, and
the client makes a new flush loop), and whoever ends is taken off every list, so that
in each of its stages a `stop()` waits for ever fewer tasks (`StopsShrink`).

`RulesCacheProofs`: `ServedWithinTtl`.  The invariant says that no version has been
outdated for longer than the stamp it is stored with, or will be stored with, is
old; this is where it matters that the stamp is taken before the collector is
asked.  `StaleAnswersEnd`: while nothing new is published, the outdated answers that
are under way only get fewer, and only one of them can replace the latest rules.

`SyncHandlerProofs`: `SingleLoop` and `CallersServed`.  Without a race at most one
thread is past the check of `_loop`, and only before there is a loop (`OneMaker`).
Hence `_loop` does not change under a call that was handed to it (`Handed`), and until
the first `stop()` it runs, or the thread that made it is about to run it
(`LoopServed`).

`WorkersProofs`: `TypeCorrect`, `OwnState`, `OneIdentity`, `SocketsPrivate`, from
one invariant.  `OwnersKnown` says that owners and pids are of processes that exist
or existed, so that a new child never passes for the owner of what it inherits; this
is where "pids are not reused" is needed.  `ClientOwn` says whose sockets a client
with the process's own pid has, `EmptyWhileConstructed` that the constructor has
made a new buffer, and `OwnBuffer` that nobody's task is left in it.  `Undisturbed`
says that the file does not change under a process that found it settled, as long as
reading never fails.

Only model-checked: the liveness properties (`BlockedReturns`, `Reopens`,
`SendReturns`, `Drained`, `StopReturns`, `Converges`, `Answered`), since the prover
does not handle fairness and ENABLED, and the two findings.  What these properties
need besides fairness is proved where it can be said without it:

| Liveness | Theorem | What runs out |
|---|---|---|
| `SendReturns` | `SendsRunDown` | the steps a send still has |
| `Lifecycle!StopReturns` | `NobodyAwaitedInVain`, `StopsShrink` | the tasks a stop awaits, each of which ends |
| `Answered` | `CallersServed` | nothing: the loop that serves the call is there or about to run |
| `Reopens` | `OpenEnds` | the calls that can put the recovery off |
| `Drained` | `LaneRecovers` | the failures that can put the lane off |
| `Converges` | `StaleAnswersEnd` | the answers that can bring old rules back |

`RunsDown` is checked by `transport`, `AwaitedEnd` (in `IInv`) by `lifecycle` and
`NobodyStranded` by `sync`; TLC finds the others true, too, when `StopsRunDown`,
`OpeningRunsOut`, `PenaltiesRunOut` or `StaleRunsOut` is added to the configuration
of its module's run. `BlockedReturns` has no such half: a writer that waits may lose
the race for the room of a drain to another one any number of times, and only strong
fairness of the lock lets it in.

## Findings

- `flush_overflow`: `base_delay * (2**attempt)` raises OverflowError from the
  1025th consecutive failure; no backoff is set and the metrics are not reached.
- `lifecycle_awaits`: a flush spawned while `stop_auto_flush` gathers the earlier
  ones is not awaited and may send while the transport is being closed.

## What the models show without a run of their own

Buffer and flush:

- A metric that `add_metric` records between `buffer.py:50`, where the handler is
  published, and the load of the metrics, which comes after all Redis calls of the
  events' load (`_buffer_redis.py:97`), is loaded as a second object and sent twice
  (`InitializeMetrics`, `PersistDone`, `LoadOne`).  `_buffer_redis.py:89` and
  CHANGELOG.md:120 say that the locks rule this out, which holds of the events.
- `flush_events` deletes the records of its batch over several awaits and returns the
  events only then (`_buffer_queue.py:88`): a crash or a cancellation in between loses
  events nobody has received (`SurrenderOne`, `HandOverCancelled`; the exception in
  `Durable`).
- From the 1025th failure of the events in a row on, the overflow of `flush_overflow`
  ends `flush_buffer` before it comes to the metrics: they are not sent as long as the
  events keep failing (`_client_flush.py:47`; the exception in `Drained`).
- `requeue_events_in_memory` waits for the lock, which an `add_event` may hold
  across a Redis call; a flush task cancelled there loses the popped batch from
  memory (`_buffer_queue.py:141`, `RequeueCancelled`; with Redis its records survive
  until a restart).  CHANGELOG.md:119 says that a cancellation "never silently
  drops the batch".
- The start-up load evicts objects uncounted and leaves their records to the next
  restart (`LoadOne`).
- The final flush of `stop()` is subject to the send backoff, which `stop()` itself
  can trigger by cancelling a flush (`FinalGate`, `client.py:154`);
  `protocols.py:190` promises a flush of what is buffered.

Transport:

- A half-open circuit admits every waiting caller (`StartCall`).
- A 429 on the last attempt of one half does not delay the other half (`Retry`).
- A batch can come back False, and is requeued with a backoff, though the collector
  never failed: when requests of other tasks or the halves of a split take the
  limiter's slots, each denial uses an attempt up, and the last one ends the send
  (`Throttled`, `_transport_send.py:197`; `starved` in `FalseMeansTrouble`).
- A flush that outlives `stop()` reopens the HTTP client after `close()`, and
  nobody closes it again (`Retry`); so does a `get_dynamic_rules()` or
  `flush_buffer()` in flight at or made after `stop()` (`Ask`, `Flush`,
  `_transport_lifecycle.py:58`).  Both are the exceptions in `ClientClosed`.
- A failed rules fetch returns None although a copy is cached, and the `except`
  clause of `get_dynamic_rules` that returns the copy is not reached with
  `HTTPTransport`, which catches (`RulesCache!Fail`).  An older answer may replace a
  newer one until the next fetch (`Store`).

Threads and processes:

- A call of the sync handler that is made after, or overlaps with, the end of the
  loop blocks for ever, and so does any call in a forked child, which keeps `_loop`
  but not its thread (`client.py:198`); `protocols.py:178` says of such calls that
  they must not block or raise.  Hence the exceptions in `Answered`.
- Two threads in the constructor at once can make two loops (`client.py:181`):
  the exception `raced` in `NobodyStranded` and `Answered`.
- README.md:296 calls the sync and async handlers separate singletons; the sync
  handler's `_inner` is the async singleton, so that an application that uses both
  runs one handler on two loops.
- `start()` in a child that inherits a running handler and does not construct it
  again returns without starting anything (`Workers!Start`); `stop()` there awaits
  tasks of another loop and raises before it closes the client (`Stopped`).  The fork
  hook does not help: it drops the client's handles and leaves the buffer's, so that
  `stop()` raises all the same and `start()` keeps the dead flush loop.
- `install_id.py:23` makes the directory outside the `try`: an OSError there fails
  the construction (`MkdirFails`), where CHANGELOG.md:284 describes a fallback.
- A process that cannot read the id file replaces it (`ReadFails`, the exception
  `misread` in `Agreed`).  Two processes that find no file each write an id, and one
  goes on with an id that is not in the file; `Agreed` is about those that find the
  file settled (`settled`).

## Not modelled, and why

- Item contents: redaction, normalisation, size caps, serialisation, encryption,
  signing.  They are pure functions of a payload.
- The status loop (but for its requests), `get_status`, `get_stats` and
  `health_check`: they read counters and report.
- A system clock that is set back; the modules age times one second at a step.
- Two Redis clients sharing one key prefix: the records are one process's.
- The collector's own handling of duplicates.
- Protocol classes, models, logging, release scripts, examples, the shim.

## Plan

1. The status loop composed with the transport, if a property of it turns up that
   is more than the reading of counters.
2. Should the prover come to handle fairness, the liveness properties from the
   theorems of the table above.
