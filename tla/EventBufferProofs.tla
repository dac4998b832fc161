-------------------------- MODULE EventBufferProofs --------------------------
(***************************************************************************)
(* Proofs about EventBuffer for all sets of items, ids and callers, every  *)
(* capacity and every overflow policy: type correctness, KeyMapExact,      *)
(* Durable, Accounted, NoTwin, OrderKept, the refinement of DurableQueue.  *)
(***************************************************************************)
EXTENDS EventBuffer, TLAPS

USE CapacityAssumption
-----------------------------------------------------------------------------
(* The operators on sequences.                                             *)

(* The objects of a batch, position by position. *)
LEMMA ObjectsFact ==
  ASSUME NEW b \in Seq(Entry)
  PROVE  /\ Objects(b) \in Seq(Obj)
         /\ Len(Objects(b)) = Len(b)
         /\ \A n \in 1 .. Len(b) :
              Objects(b)[n] = [item |-> b[n].item, id |-> b[n].id]
<1>1. \A n \in 1 .. Len(b) : b[n] \in Entry
  OBVIOUS
<1>2. \A n \in 1 .. Len(b) : [item |-> b[n].item, id |-> b[n].id] \in Obj
  BY <1>1 DEF Entry, Obj
<1>3. Len(b) \in Nat
  OBVIOUS
<1>. QED  BY <1>2, <1>3 DEF Objects

(* A bounded append keeps the bound, ends with the new object and, before  *)
(* it, holds the old ones, shifted by one when the first was discarded.    *)
LEMMA PushRightFact ==
  ASSUME NEW s \in Seq(Obj), Len(s) <= Capacity, NEW o \in Obj
  PROVE  LET t == PushRight(s, o)
             x == IF Len(s) >= Capacity THEN 1 ELSE 0
         IN /\ t \in Seq(Obj)
            /\ Len(t) = Len(s) - x + 1
            /\ Len(t) <= Capacity
            /\ t[Len(t)] = o
            /\ \A n \in 1 .. Len(t) - 1 : t[n] = s[n + x]
<1>1. CASE Len(s) >= Capacity
  <2>1. s # <<>>
    BY <1>1
  <2>2. /\ Tail(s) \in Seq(Obj) /\ Len(Tail(s)) = Len(s) - 1
        /\ \A n \in 1 .. Len(s) - 1 : Tail(s)[n] = s[n + 1]
    BY <2>1
  <2>. QED  BY <1>1, <2>2 DEF PushRight
<1>2. CASE ~(Len(s) >= Capacity)
  BY <1>2 DEF PushRight
<1>. QED  BY <1>1, <1>2

(* A batch pushed to the front of a bounded deque: the batch comes first   *)
(* and whole, then as much of the deque as fits.                           *)
LEMMA PushLeftFact ==
  ASSUME NEW b \in Seq(Obj), NEW s \in Seq(Obj), Len(b) <= Capacity
  PROVE  LET t == PushLeftAll(b, s)
         IN /\ t \in Seq(Obj)
            /\ Len(t) <= Capacity
            /\ Len(b) <= Len(t) /\ Len(t) <= Len(b) + Len(s)
            /\ Len(t) < Capacity => Len(t) = Len(b) + Len(s)
            /\ \A n \in 1 .. Len(b) : t[n] = b[n]
            /\ \A n \in Len(b) + 1 .. Len(t) : t[n] = s[n - Len(b)]
<1>1. /\ b \o s \in Seq(Obj)
      /\ Len(b \o s) = Len(b) + Len(s)
      /\ \A n \in 1 .. Len(b) : (b \o s)[n] = b[n]
      /\ \A n \in Len(b) + 1 .. Len(b) + Len(s) : (b \o s)[n] = s[n - Len(b)]
  OBVIOUS
<1>. QED  BY <1>1 DEF PushLeftAll

(* What does not fit after the batch: the tail of the deque, nothing of    *)
(* the batch itself.                                                       *)
LEMMA OverflowFact ==
  ASSUME NEW b \in Seq(Entry), NEW s \in Seq(Obj), Len(b) <= Capacity
  PROVE  LET e == Overflow(b, s)
         IN /\ e \in Seq(Obj)
            /\ Len(b) + Len(s) > Capacity =>
                 Len(e) = Len(b) + Len(s) - Capacity
            /\ Len(b) + Len(s) <= Capacity => Len(e) = 0
            /\ \A n \in 1 .. Len(e) : /\ Capacity - Len(b) + n \in 1 .. Len(s)
                                      /\ e[n] = s[Capacity - Len(b) + n]
<1>1. /\ b \o s \in Seq(Entry \cup Obj)
      /\ Len(b \o s) = Len(b) + Len(s)
      /\ \A n \in Len(b) + 1 .. Len(b) + Len(s) : (b \o s)[n] = s[n - Len(b)]
  OBVIOUS
<1>2. Len(b) \in Nat /\ Len(s) \in Nat
  OBVIOUS
<1>3. CASE Len(b) + Len(s) > Capacity
  <2>1. /\ Len(Overflow(b, s)) = Len(b) + Len(s) - Capacity
        /\ Overflow(b, s) \in Seq(Entry \cup Obj)
        /\ \A n \in 1 .. Len(Overflow(b, s)) :
              Overflow(b, s)[n] = (b \o s)[Capacity + n]
    BY <1>1, <1>2, <1>3 DEF Overflow
  <2>2. \A n \in 1 .. Len(Overflow(b, s)) :
          /\ Capacity - Len(b) + n \in 1 .. Len(s)
          /\ Overflow(b, s)[n] = s[Capacity - Len(b) + n]
    <3>. SUFFICES ASSUME NEW n \in 1 .. Len(Overflow(b, s))
                  PROVE  /\ Capacity - Len(b) + n \in 1 .. Len(s)
                         /\ Overflow(b, s)[n] = s[Capacity - Len(b) + n]
      OBVIOUS
    <3>1. n \in Nat /\ 1 <= n /\ n <= Len(b) + Len(s) - Capacity
      BY <1>2, <2>1
    <3>2. Capacity + n \in Len(b) + 1 .. Len(b) + Len(s)
      BY <1>2, <3>1
    <3>3. Overflow(b, s)[n] = s[Capacity + n - Len(b)]
      <4>1. (b \o s)[Capacity + n] = s[Capacity + n - Len(b)]
        BY <1>1, <3>2
      <4>. QED  BY <2>1, <4>1
    <3>. QED  BY <1>2, <3>1, <3>3
  <2>3. \A n \in 1 .. Len(Overflow(b, s)) : Overflow(b, s)[n] \in Obj
    BY <2>2
  <2>4. Overflow(b, s) \in Seq(Obj)
    BY <2>1, <2>3
  <2>. QED  BY <1>3, <2>1, <2>2, <2>4
<1>4. CASE Len(b) + Len(s) <= Capacity
  <2>1. Overflow(b, s) = <<>>
    BY <1>1, <1>2, <1>4 DEF Overflow
  <2>. QED  BY <1>2, <1>4, <2>1
<1>. QED  BY <1>2, <1>3, <1>4

(* A drained batch: the objects in order, each with the key the map gives. *)
LEMMA WithKeysFact ==
  ASSUME NEW s \in Seq(Obj), keys \in [Ids -> Items \cup {Nil}]
  PROVE  /\ WithKeys(s) \in Seq(Entry)
         /\ Len(WithKeys(s)) = Len(s)
         /\ \A n \in 1 .. Len(s) :
              /\ WithKeys(s)[n].item = s[n].item
              /\ WithKeys(s)[n].id = s[n].id
              /\ WithKeys(s)[n].key = keys[s[n].id]
         /\ KeysOf(WithKeys(s)) \subseteq Items
<1>0. \A n \in 1 .. Len(s) : s[n] \in Obj
  OBVIOUS
<1>1. \A n \in 1 .. Len(s) : s[n].item \in Items /\ s[n].id \in Ids
  BY <1>0 DEF Obj
<1>2. \A n \in 1 .. Len(s) :
        [item |-> s[n].item, id |-> s[n].id, key |-> keys[s[n].id]] \in Entry
  BY <1>1 DEF Entry
<1>3. Len(s) \in Nat
  OBVIOUS
<1>4. /\ WithKeys(s) \in Seq(Entry)
      /\ Len(WithKeys(s)) = Len(s)
      /\ \A n \in 1 .. Len(s) :
           /\ WithKeys(s)[n].item = s[n].item
           /\ WithKeys(s)[n].id = s[n].id
           /\ WithKeys(s)[n].key = keys[s[n].id]
  BY <1>2, <1>3 DEF WithKeys
<1>. QED  BY <1>1, <1>4 DEF KeysOf

LEMMA ItemsOfFact ==
  /\ \A s \in Seq(Obj) : ItemsOf(s) \subseteq Items /\ IdsOf(s) \subseteq Ids
  /\ \A b \in Seq(Entry) : /\ ItemsOf(b) \subseteq Items
                           /\ IdsOf(b) \subseteq Ids
                           /\ KeysOf(b) \subseteq Items
<1>1. \A s \in Seq(Obj) : \A n \in 1 .. Len(s) : s[n] \in Obj
  OBVIOUS
<1>2. \A b \in Seq(Entry) : \A n \in 1 .. Len(b) : b[n] \in Entry
  OBVIOUS
<1>3. ASSUME NEW s \in Seq(Obj)
      PROVE  ItemsOf(s) \subseteq Items /\ IdsOf(s) \subseteq Ids
  BY <1>1 DEF ItemsOf, IdsOf, Obj
<1>4. ASSUME NEW b \in Seq(Entry)
      PROVE  ItemsOf(b) \subseteq Items /\ IdsOf(b) \subseteq Ids
  BY <1>2 DEF ItemsOf, IdsOf, Entry
<1>5. ASSUME NEW b \in Seq(Entry)
      PROVE  KeysOf(b) \subseteq Items
  BY <1>2 DEF KeysOf, Entry
<1>. QED  BY <1>3, <1>4, <1>5
-----------------------------------------------------------------------------
(* Type correctness.                                                       *)

LEMMA TypeInit == Init => TypeInv
<1>. SUFFICES ASSUME Init PROVE TypeInv
  OBVIOUS
<1>. USE DEF Init
<1>1. /\ buffer \in Seq(Obj) /\ Len(buffer) <= Capacity
      /\ batch \in [Callers -> Seq(Entry)]
      /\ \A f \in Callers : Len(batch[f]) <= Capacity
  OBVIOUS
<1>2. /\ keys \in [Ids -> Items \cup {Nil}]
      /\ wpc \in [Items -> {"new", "waiting", "evicting", "persisting",
                            "in", "out"}]
      /\ wid \in [Items -> Ids \cup {Nil}]
      /\ wkey \in [Items -> Items \cup {Nil}]
      /\ fpc \in [Callers -> {"idle", "sending", "requeue", "confirming", "handing"}]
      /\ ftodo \in [Callers -> SUBSET Items]
  BY DEF NoKeys
<1>3. /\ lock \in Items \cup {Free, Loader} /\ attached \in BOOLEAN
      /\ lpc \in {"idle", "pending", "scan", "loading", "done"}
      /\ cpc \in {"idle", "scan", "deleting"}
  OBVIOUS
<1>. QED  BY <1>1, <1>2, <1>3 DEF TypeInv, TypeOK

LEMMA TypeWriter ==
  ASSUME TypeInv, NEW i \in Items, Writer(i)
  PROVE  TypeInv'
<1>. USE DEF TypeInv, TypeOK, bufVars, writerVars, loadVars, clearVars,
             callerVars, history
<1>1. ASSUME AppendAndPersist(i)
      PROVE  /\ buffer' \in Seq(Obj) /\ Len(buffer') <= Capacity
             /\ wpc' \in [Items -> {"new", "waiting", "evicting", "persisting",
                                    "in", "out"}]
             /\ wid' \in [Items -> Ids \cup {Nil}]
             /\ lock' \in Items \cup {Free, Loader}
  <2>1. PICK d \in FreeIds : buffer' = PushRight(buffer, [item |-> i, id |-> d])
    BY <1>1 DEF AppendAndPersist
  <2>2. d \in Ids /\ [item |-> i, id |-> d] \in Obj
    BY DEF FreeIds, Obj
  <2>3. buffer' \in Seq(Obj) /\ Len(buffer') <= Capacity
    BY <2>1, <2>2, PushRightFact
  <2>4. /\ wpc' \in [Items -> {"new", "waiting", "evicting", "persisting",
                             "in", "out"}]
        /\ wid' \in [Items -> Ids \cup {Nil}]
        /\ lock' \in Items \cup {Free, Loader}
    <3>. PICK e \in FreeIds :
           IF attached
             THEN /\ wpc' = [wpc EXCEPT ![i] = "persisting"]
                  /\ wid' = [wid EXCEPT ![i] = e]
                  /\ lock' = i
             ELSE /\ wpc' = [wpc EXCEPT ![i] = "in"]
                  /\ wid' = wid
                  /\ lock' = Free
      BY <1>1 DEF AppendAndPersist
    <3>1. e \in Ids
      BY DEF FreeIds
    <3>2. CASE attached
      BY <3>1, <3>2
    <3>3. CASE ~attached
      BY <3>3
    <3>. QED  BY <3>2, <3>3
  <2>. QED  BY <2>3, <2>4
<1>2. BufferFull => Head(buffer) \in Obj
  BY DEF BufferFull
<1>3. CASE AddAppend(i)
  BY <1>1, <1>3 DEF AddAppend
<1>4. CASE AddReject(i)
  BY <1>4 DEF AddReject
<1>5. CASE AddWait(i)
  BY <1>5 DEF AddWait
<1>6. CASE WaitCancelled(i)
  BY <1>6 DEF WaitCancelled
<1>7. CASE AddEvict(i)
  <2>1. Head(buffer).id \in Ids /\ Head(buffer).item \in Items
    BY <1>2, <1>7 DEF AddEvict, Obj
  <2>2. keys' \in [Ids -> Items \cup {Nil}] /\ settled' \subseteq Items
    BY <1>7, <2>1 DEF AddEvict
  <2>3. CASE AppendAndPersist(i) /\ wkey' = wkey
    BY <1>1, <1>7, <2>2, <2>3 DEF AddEvict
  <2>4. CASE /\ keys[Head(buffer).id] # Nil
             /\ wpc' = [wpc EXCEPT ![i] = "evicting"]
             /\ wkey' = [wkey EXCEPT ![i] = keys[Head(buffer).id]]
             /\ lock' = i
             /\ UNCHANGED <<buffer, wid>>
    <3>1. wkey' \in [Items -> Items \cup {Nil}]
      BY <2>1, <2>4
    <3>. QED  BY <1>7, <2>2, <2>4, <3>1 DEF AddEvict
  <2>. QED  BY <1>7, <2>3, <2>4 DEF AddEvict
<1>8. CASE EvictDone(i)
  BY <1>1, <1>8 DEF EvictDone, DeleteRecord
<1>9. CASE EvictCancelled(i)
  BY <1>9 DEF EvictCancelled, DeleteRecord
<1>10. CASE PersistDone(i)
  BY <1>10 DEF PersistDone
<1>. QED  BY <1>3, <1>4, <1>5, <1>6, <1>7, <1>8, <1>9, <1>10 DEF Writer

LEMMA TypeLoad ==
  ASSUME TypeInv, Load
  PROVE  TypeInv'
<1>. USE DEF TypeInv, TypeOK, bufVars, writerVars, loadVars, clearVars,
             callerVars, history
<1>1. CASE InitializeEvents \/ InitializeMetrics \/ LoadMetrics \/ LoadDropped
  BY <1>1 DEF InitializeEvents, InitializeMetrics, LoadMetrics, LoadDropped,
              Initializing
<1>2. CASE LoadScan
  BY <1>2 DEF LoadScan
<1>3. CASE LoadEnd
  BY <1>3 DEF LoadEnd
<1>4. ASSUME NEW k \in Items, LoadOne(k)
      PROVE  TypeInv'
  <2>1. PICK d \in FreeIds :
          /\ buffer' = PushRight(buffer, [item |-> k, id |-> d])
          /\ IF BufferFull
               THEN /\ keys' = [keys EXCEPT ![Head(buffer).id] = Nil, ![d] = k]
                    /\ forgotten' = forgotten \cup {Head(buffer).item}
               ELSE /\ keys' = [keys EXCEPT ![d] = k]
                    /\ forgotten' = forgotten
    BY <1>4 DEF LoadOne
  <2>2. d \in Ids /\ [item |-> k, id |-> d] \in Obj
    BY DEF FreeIds, Obj
  <2>3. buffer' \in Seq(Obj) /\ Len(buffer') <= Capacity
    BY <2>1, <2>2, PushRightFact
  <2>4. BufferFull => Head(buffer).item \in Items
    <3>1. BufferFull => Head(buffer) \in Obj
      BY DEF BufferFull
    <3>. QED  BY <3>1 DEF Obj
  <2>5. keys' \in [Ids -> Items \cup {Nil}] /\ forgotten' \subseteq Items
    BY <2>1, <2>2, <2>4
  <2>. QED  BY <1>4, <2>3, <2>5 DEF LoadOne
<1>5. ASSUME NEW k \in Items, LoadSkip(k)
      PROVE  TypeInv'
  BY <1>5 DEF LoadSkip
<1>. QED  BY <1>1, <1>2, <1>3, <1>4, <1>5 DEF Load

LEMMA TypeClear ==
  ASSUME TypeInv, Clear
  PROVE  TypeInv'
<1>. USE DEF TypeInv, TypeOK, bufVars, writerVars, loadVars, clearVars,
             callerVars, history
<1>1. CASE ClearMemory
  <2>1. buffer' \in Seq(Obj) /\ Len(buffer') <= Capacity
    BY <1>1 DEF ClearMemory
  <2>2. erased' \subseteq Items
    BY <1>1, ItemsOfFact DEF ClearMemory
  <2>. QED  BY <1>1, <2>1, <2>2 DEF ClearMemory, NoKeys
<1>2. CASE ClearScan
  BY <1>2 DEF ClearScan
<1>3. CASE ClearEnd
  BY <1>3 DEF ClearEnd
<1>4. ASSUME NEW k \in Items, ClearDelete(k)
      PROVE  TypeInv'
  BY <1>4 DEF ClearDelete
<1>. QED  BY <1>1, <1>2, <1>3, <1>4 DEF Clear

LEMMA TypeCaller ==
  ASSUME TypeInv, NEW f \in Callers, Caller(f)
  PROVE  TypeInv'
<1>. USE DEF TypeInv, TypeOK, bufVars, writerVars, loadVars, clearVars,
             callerVars, history
<1>1. <<>> \in Seq(Obj) /\ <<>> \in Seq(Entry) /\ Len(<<>>) <= Capacity
  OBVIOUS
<1>2. ASSUME NEW ks \in SUBSET Items, StartConfirm(f, ks)
      PROVE  /\ fpc' \in [Callers -> {"idle", "sending", "requeue", "confirming", "handing"}]
             /\ ftodo' \in [Callers -> SUBSET Items]
  BY <1>2 DEF StartConfirm
<1>3. /\ batch[f] \in Seq(Entry)
      /\ ItemsOf(batch[f]) \subseteq Items /\ KeysOf(batch[f]) \subseteq Items
      /\ ItemsOf(buffer) \subseteq Items
      /\ KeysOf(WithKeys(buffer)) \subseteq Items
  BY ItemsOfFact, WithKeysFact
<1>4. ASSUME batch' = [batch EXCEPT ![f] = <<>>]
      PROVE  /\ batch' \in [Callers -> Seq(Entry)]
             /\ \A g \in Callers : Len(batch'[g]) <= Capacity
  BY <1>1, <1>4
<1>5. Forget(IdsOf(buffer)) \in [Ids -> Items \cup {Nil}]
  BY DEF Forget
<1>6. CASE DrainWithKeys(f)
  <2>1. WithKeys(buffer) \in Seq(Entry) /\ Len(WithKeys(buffer)) <= Capacity
    BY WithKeysFact
  <2>2. /\ batch' \in [Callers -> Seq(Entry)]
        /\ \A g \in Callers : Len(batch'[g]) <= Capacity
    BY <1>6, <2>1 DEF DrainWithKeys
  <2>. QED  BY <1>1, <1>5, <1>6, <2>2 DEF DrainWithKeys
<1>7. CASE Delivered(f)
  BY <1>2, <1>3, <1>4, <1>7 DEF Delivered
<1>8. CASE Undelivered(f)
  BY <1>8 DEF Undelivered
<1>9. CASE Requeue(f)
  <2>. DEFINE b == batch[f]
              e == Overflow(b, buffer)
  <2>1. /\ b \in Seq(Entry) /\ Len(b) <= Capacity
        /\ Objects(b) \in Seq(Obj) /\ Len(Objects(b)) = Len(b)
    BY <1>3, ObjectsFact
  <2>2. buffer' \in Seq(Obj) /\ Len(buffer') <= Capacity
    BY <1>9, <2>1, PushLeftFact DEF Requeue
  <2>3. /\ e \in Seq(Obj) /\ ItemsOf(e) \subseteq Items
        /\ KeysOf(WithKeys(e)) \subseteq Items
    BY <2>1, OverflowFact, ItemsOfFact, WithKeysFact
  <2>4. keys' \in [Ids -> Items \cup {Nil}]
    <3>1. \A n \in 1 .. Len(b) : b[n] \in Entry
      BY <2>1
    <3>2. \A n \in 1 .. Len(b) : b[n].key \in Items \cup {Nil}
      BY <3>1 DEF Entry
    <3>3. \A d \in Ids : (\E n \in 1 .. Len(b) : b[n].id = d /\ b[n].key # Nil)
            => b[CHOOSE n \in 1 .. Len(b) : b[n].id = d].key \in Items \cup {Nil}
      BY <3>2
    <3>4. keys' = [d \in Ids |->
                    IF d \in IdsOf(e) THEN Nil
                    ELSE IF \E n \in 1 .. Len(b) : b[n].id = d /\ b[n].key # Nil
                      THEN b[CHOOSE n \in 1 .. Len(b) : b[n].id = d].key
                      ELSE keys[d]]
      BY <1>9 DEF Requeue
    <3>. HIDE DEF b, e
    <3>. QED  BY <3>3, <3>4
  <2>5. /\ fpc' \in [Callers -> {"idle", "sending", "requeue", "confirming", "handing"}]
        /\ ftodo' \in [Callers -> SUBSET Items]
    BY <1>2, <1>9, <2>3 DEF Requeue
  <2>6. /\ batch' \in [Callers -> Seq(Entry)]
        /\ \A g \in Callers : Len(batch'[g]) <= Capacity
    BY <1>4, <1>9 DEF Requeue
  <2>7. settled' \subseteq Items
    BY <1>9, <2>3 DEF Requeue
  <2>8. UNCHANGED <<policy, lock, redis, writerVars, loadVars, clearVars,
                    recorded, erased, forgotten>>
    BY <1>9 DEF Requeue
  <2>. QED  BY <2>2, <2>4, <2>5, <2>6, <2>7, <2>8
<1>10. CASE RequeueCancelled(f)
  BY <1>3, <1>4, <1>10 DEF RequeueCancelled
<1>11. ASSUME NEW k \in Items, ConfirmOne(f, k)
       PROVE  TypeInv'
  BY <1>11 DEF ConfirmOne, DeleteRecord
<1>12. CASE ConfirmCancelled(f)
  BY <1>12 DEF ConfirmCancelled
<1>13. CASE DrainAtOnce(f)
  BY <1>1, <1>3, <1>5, <1>13 DEF DrainAtOnce, Draining
<1>14. CASE DrainLegacy(f)
  <2>1. WithKeys(buffer) \in Seq(Entry) /\ Len(WithKeys(buffer)) <= Capacity
    BY WithKeysFact
  <2>2. /\ batch' \in [Callers -> Seq(Entry)]
        /\ \A g \in Callers : Len(batch'[g]) <= Capacity
    BY <1>14, <2>1 DEF DrainLegacy
  <2>. QED  BY <1>1, <1>3, <1>5, <1>14, <2>2 DEF DrainLegacy, Draining
<1>15. ASSUME NEW k \in Items, SurrenderOne(f, k)
       PROVE  TypeInv'
  BY <1>3, <1>15 DEF SurrenderOne, DeleteRecord
<1>16. CASE HandOver(f)
  BY <1>3, <1>4, <1>16 DEF HandOver
<1>17. CASE HandOverCancelled(f)
  BY <1>3, <1>4, <1>17 DEF HandOverCancelled
<1>. QED  BY <1>6, <1>7, <1>8, <1>9, <1>10, <1>11, <1>12, <1>13, <1>14, <1>15,
             <1>16, <1>17 DEF Caller

LEMMA TypeCrash ==
  ASSUME TypeInv, Crash
  PROVE  TypeInv'
<1>. USE DEF TypeInv, TypeOK, Crash
<1>1. /\ buffer' \in Seq(Obj) /\ Len(buffer') <= Capacity
      /\ batch' \in [Callers -> Seq(Entry)]
      /\ \A f \in Callers : Len(batch'[f]) <= Capacity
  OBVIOUS
<1>2. forgotten' \subseteq Items
  BY ItemsOfFact DEF InMemory
<1>3. wpc' \in [Items -> {"new", "waiting", "evicting", "persisting", "in", "out"}]
  OBVIOUS
<1>4. /\ keys' \in [Ids -> Items \cup {Nil}]
      /\ wid' \in [Items -> Ids \cup {Nil}]
      /\ wkey' \in [Items -> Items \cup {Nil}]
      /\ fpc' \in [Callers -> {"idle", "sending", "requeue", "confirming", "handing"}]
      /\ ftodo' \in [Callers -> SUBSET Items]
  BY DEF NoKeys
<1>. QED  BY <1>1, <1>2, <1>3, <1>4

LEMMA TypeStep == TypeInv /\ [Next]_vars => TypeInv'
<1>. SUFFICES ASSUME TypeInv, [Next]_vars
              PROVE  TypeInv'
  OBVIOUS
<1>1. ASSUME NEW i \in Items, Expire(i)
      PROVE  TypeInv'
  BY <1>1 DEF TypeInv, TypeOK, Expire, bufVars, writerVars, loadVars, clearVars,
              callerVars
<1>2. CASE UNCHANGED vars
  BY <1>2 DEF TypeInv, TypeOK, vars, bufVars, writerVars, loadVars, clearVars,
              callerVars, history
<1>. QED  BY <1>1, <1>2, TypeWriter, TypeLoad, TypeClear, TypeCaller, TypeCrash
          DEF Next

(* Every variable has its type in every reachable state, and no batch is   *)
(* longer than the buffer's capacity.                                      *)
THEOREM TypeCorrect == Spec => []TypeInv
BY TypeInit, TypeStep, PTL DEF Spec
-----------------------------------------------------------------------------
(* The inductive invariant.  Its parts speak of three groups of variables; *)
(* a step that leaves a group alone keeps the parts about it.              *)

LEMMA Frame ==
  /\ UniqueIds /\ UNCHANGED <<buffer, batch>> => UniqueIds'
  /\ KeyMapExact /\ UNCHANGED bufVars => KeyMapExact'
  /\ BatchKeys /\ UNCHANGED batch => BatchKeys'
  /\ WriterObj /\ UNCHANGED <<buffer, keys, wpc, wid>> => WriterObj'
  /\ LockOK /\ UNCHANGED <<lock, wpc, lpc>> => LockOK'
  /\ PendingDeletes /\ UNCHANGED <<wpc, wkey, fpc, ftodo, batch, settled>>
       => PendingDeletes'
BY DEF UniqueIds, KeyMapExact, BatchKeys, WriterObj, LockOK, PendingDeletes,
       bufVars

(* The next three lemmas are about the live objects and the key map.       *)
Placed == UniqueIds /\ KeyMapExact /\ BatchKeys

(* Appending an object with a fresh identity, after the key of the one     *)
(* that is discarded was forgotten.                                        *)
LEMMA AppendPlaced ==
  ASSUME TypeInv, UniqueIds, BatchKeys,
         NEW i \in Items, NEW d \in FreeIds,
         buffer' = PushRight(buffer, [item |-> i, id |-> d]),
         batch' = batch,
         NEW km \in [Ids -> Items \cup {Nil}],
         \A c \in Ids : km[c] # Nil =>
           \E n \in 1 .. Len(buffer) : buffer[n] = [item |-> km[c], id |-> c],
         BufferFull => km[Head(buffer).id] = Nil,
         keys' = km \/ keys' = [km EXCEPT ![d] = i]
  PROVE  Placed' /\ \E n \in 1 .. Len(buffer') : buffer'[n] = [item |-> i, id |-> d]
<1>. DEFINE o == [item |-> i, id |-> d]
            x == IF Len(buffer) >= Capacity THEN 1 ELSE 0
<1>1. /\ buffer \in Seq(Obj) /\ Len(buffer) <= Capacity /\ o \in Obj
      /\ d \in Ids /\ Len(buffer) \in Nat
  BY DEF TypeInv, TypeOK, FreeIds, Obj
<1>2. /\ buffer' \in Seq(Obj)
      /\ Len(buffer') = Len(buffer) - x + 1
      /\ buffer'[Len(buffer')] = o
      /\ \A n \in 1 .. Len(buffer') - 1 : buffer'[n] = buffer[n + x]
  <2>. HIDE DEF o
  <2>1. buffer' = PushRight(buffer, o)
    BY DEF o
  <2>2. buffer' \in Seq(Obj) /\ Len(buffer') = Len(buffer) - x + 1
    BY <1>1, <2>1, PushRightFact
  <2>3. buffer'[Len(buffer')] = o
    BY <1>1, <2>1, PushRightFact
  <2>4. \A n \in 1 .. Len(buffer') - 1 : buffer'[n] = buffer[n + x]
    <3>1. \A n \in 1 .. Len(PushRight(buffer, o)) - 1 :
            PushRight(buffer, o)[n]
              = buffer[n + IF Len(buffer) >= Capacity THEN 1 ELSE 0]
      BY <1>1, PushRightFact
    <3>. QED  BY <2>1, <3>1
  <2>. QED  BY <2>2, <2>3, <2>4
<1>3. /\ \A n \in 1 .. Len(buffer) : buffer[n].id # d
      /\ \A f \in Callers : \A n \in 1 .. Len(batch[f]) : batch[f][n].id # d
  BY DEF FreeIds, LiveIds, IdsOf
<1>4. \A n \in 1 .. Len(buffer') :
        \/ n = Len(buffer') /\ buffer'[n] = o
        \/ n + x \in 1 .. Len(buffer) /\ buffer'[n] = buffer[n + x]
  BY <1>1, <1>2
<1>5. UniqueIds'
  <2>. HIDE DEF x
  <2>1. \A m, n \in 1 .. Len(buffer') : buffer'[m].id = buffer'[n].id => m = n
    <3>. SUFFICES ASSUME NEW m \in 1 .. Len(buffer'), NEW n \in 1 .. Len(buffer'),
                         buffer'[m].id = buffer'[n].id
                  PROVE  m = n
      OBVIOUS
    <3>1. CASE m = Len(buffer') \/ n = Len(buffer')
      <4>1. buffer'[m].id = d /\ buffer'[n].id = d
        BY <1>2, <3>1
      <4>2. \A p \in 1 .. Len(buffer) : buffer[p].id # d
        BY <1>3
      <4>. QED  BY <1>4, <4>1, <4>2
    <3>2. CASE m # Len(buffer') /\ n # Len(buffer')
      <4>1. m + x = n + x
        BY <1>4, <3>2 DEF UniqueIds
      <4>. QED  BY <4>1 DEF x
    <3>. QED  BY <3>1, <3>2
  <2>2. \A f \in Callers : \A m \in 1 .. Len(batch[f]), n \in 1 .. Len(buffer') :
          batch[f][m].id # buffer'[n].id
    BY <1>3, <1>4 DEF UniqueIds
  <2>. QED  BY <2>1, <2>2 DEF UniqueIds
<1>6. BatchKeys'
  BY DEF BatchKeys
<1>7. Len(buffer') \in 1 .. Len(buffer') /\ buffer'[Len(buffer')] = o
  BY <1>1, <1>2
<1>8. KeyMapExact'
  <2>. SUFFICES ASSUME NEW c \in Ids, keys'[c] # Nil
                PROVE  \E n \in 1 .. Len(buffer') :
                         buffer'[n] = [item |-> keys'[c], id |-> c]
    BY DEF KeyMapExact
  <2>1. CASE keys'[c] = km[c]
    <3>1. PICK n \in 1 .. Len(buffer) : buffer[n] = [item |-> km[c], id |-> c]
      BY <2>1
    <3>2. n - x \in 1 .. Len(buffer') - 1
      <4>1. CASE BufferFull
        <5>1. n # 1
          BY <1>1, <2>1, <3>1, <4>1 DEF BufferFull
        <5>. QED  BY <1>1, <1>2, <4>1, <5>1 DEF BufferFull
      <4>2. CASE ~BufferFull
        BY <1>1, <1>2, <4>2 DEF BufferFull
      <4>. QED  BY <4>1, <4>2
    <3>3. buffer'[n - x] = buffer[n]
      BY <1>1, <1>2, <3>2
    <3>4. n - x \in 1 .. Len(buffer')
      BY <1>1, <1>2, <3>2
    <3>. QED  BY <2>1, <3>1, <3>3, <3>4
  <2>2. CASE keys'[c] # km[c]
    <3>1. c = d /\ keys'[c] = i
      BY <1>1, <2>2
    <3>. QED  BY <1>7, <3>1
  <2>. QED  BY <2>1, <2>2
<1>. QED  BY <1>5, <1>6, <1>7, <1>8 DEF Placed

(* The map gives an object in the buffer no key, or its own item's.        *)
LEMMA OwnKey ==
  ASSUME TypeInv, UniqueIds, KeyMapExact, NEW n \in 1 .. Len(buffer)
  PROVE  keys[buffer[n].id] \in {Nil, buffer[n].item}
<1>1. buffer[n] \in Obj
  BY DEF TypeInv, TypeOK
<1>2. buffer[n].id \in Ids
  BY <1>1 DEF Obj
<1>3. SUFFICES ASSUME keys[buffer[n].id] # Nil
               PROVE  keys[buffer[n].id] = buffer[n].item
  OBVIOUS
<1>4. PICK p \in 1 .. Len(buffer) :
        buffer[p] = [item |-> keys[buffer[n].id], id |-> buffer[n].id]
  BY <1>2, <1>3 DEF KeyMapExact
<1>5. p = n
  BY <1>4 DEF UniqueIds
<1>. QED  BY <1>4, <1>5

(* Draining the buffer forgets the key of every object in it.              *)
LEMMA DrainKeys ==
  ASSUME KeyMapExact, keys' = Forget(IdsOf(buffer))
  PROVE  \A d \in Ids : keys'[d] = Nil
<1>. SUFFICES ASSUME NEW d \in Ids, keys[d] # Nil
              PROVE  d \in IdsOf(buffer)
  BY DEF Forget
<1>1. PICK n \in 1 .. Len(buffer) : buffer[n] = [item |-> keys[d], id |-> d]
  BY DEF KeyMapExact
<1>. QED  BY <1>1 DEF IdsOf

LEMMA DrainPlaced ==
  ASSUME TypeInv, Placed, NEW f \in Callers,
         keys' = Forget(IdsOf(buffer)), buffer' = <<>>,
         batch' = [batch EXCEPT ![f] = WithKeys(buffer)]
  PROVE  Placed'
<1>. DEFINE w == WithKeys(buffer)
<1>1. /\ buffer' = <<>> /\ batch' = [batch EXCEPT ![f] = w]
      /\ \A d \in Ids : keys'[d] = Nil
  BY DrainKeys DEF Placed
<1>2. /\ buffer \in Seq(Obj) /\ keys \in [Ids -> Items \cup {Nil}]
      /\ batch \in [Callers -> Seq(Entry)]
  BY DEF TypeInv, TypeOK
<1>3. /\ Len(w) = Len(buffer)
      /\ \A n \in 1 .. Len(buffer) : /\ w[n].item = buffer[n].item
                                     /\ w[n].id = buffer[n].id
                                     /\ w[n].key = keys[buffer[n].id]
  BY <1>2, WithKeysFact
<1>4. \A n \in 1 .. Len(buffer) : w[n].key \in {Nil, w[n].item}
  BY <1>3, OwnKey DEF Placed
<1>. HIDE DEF w
<1>5. /\ batch'[f] = w /\ Len(buffer') = 0
      /\ \A g \in Callers : g # f => batch'[g] = batch[g]
  BY <1>1, <1>2
<1>6. UniqueIds'
  <2>1. \A g \in Callers : \A m, n \in 1 .. Len(batch'[g]) :
          batch'[g][m].id = batch'[g][n].id => m = n
    BY <1>3, <1>5 DEF Placed, UniqueIds
  <2>2. \A g \in Callers : g # f =>
          \A m \in 1 .. Len(batch[g]), n \in 1 .. Len(w) :
            batch[g][m].id # w[n].id
    BY <1>3 DEF Placed, UniqueIds
  <2>3. \A g, h \in Callers :
          \A m \in 1 .. Len(batch'[g]), n \in 1 .. Len(batch'[h]) :
            batch'[g][m].id = batch'[h][n].id => g = h
    BY <1>5, <2>2 DEF Placed, UniqueIds
  <2>. QED  BY <1>5, <2>1, <2>3 DEF UniqueIds
<1>7. BatchKeys'
  BY <1>3, <1>4, <1>5 DEF Placed, BatchKeys
<1>8. KeyMapExact'
  BY <1>1 DEF KeyMapExact
<1>. QED  BY <1>6, <1>7, <1>8 DEF Placed

(* A caller that lets go of its batch.                                     *)
LEMMA ReleasePlaced ==
  ASSUME TypeInv, Placed, NEW f \in Callers,
         batch' = [batch EXCEPT ![f] = <<>>], UNCHANGED bufVars
  PROVE  Placed'
<1>1. /\ batch'[f] = <<>> /\ Len(batch'[f]) = 0 /\ buffer' = buffer
      /\ \A g \in Callers : g # f => batch'[g] = batch[g]
  BY DEF TypeInv, TypeOK, bufVars
<1>2. UniqueIds'
  BY <1>1 DEF Placed, UniqueIds
<1>3. BatchKeys'
  BY <1>1 DEF Placed, BatchKeys
<1>. QED  BY <1>2, <1>3, Frame DEF Placed

(* An emptied buffer with no keys left.                                    *)
LEMMA EmptyPlaced ==
  ASSUME Placed, buffer' = <<>>, \A d \in Ids : keys'[d] = Nil,
         UNCHANGED batch
  PROVE  Placed'
<1>1. Len(buffer') = 0
  OBVIOUS
<1>2. UniqueIds'
  BY <1>1 DEF Placed, UniqueIds
<1>3. KeyMapExact' /\ BatchKeys'
  BY Frame DEF Placed, KeyMapExact
<1>. QED  BY <1>2, <1>3 DEF Placed

(* A requeue: each object of the batch gets its key back, each evicted one *)
(* loses its key, and the keys to delete are those of evicted items.       *)
LEMMA RequeuePlaced ==
  ASSUME TypeInv, Placed, NEW f \in Callers, Requeue(f)
  PROVE  /\ Placed'
         /\ KeysOf(WithKeys(Overflow(batch[f], buffer))) \subseteq settled'
<1>. DEFINE b == batch[f]
            e == Overflow(b, buffer)
            s == Objects(b)
<1>1. /\ b \in Seq(Entry) /\ Len(b) <= Capacity /\ Len(b) \in Nat
      /\ buffer \in Seq(Obj) /\ Len(buffer) \in Nat
      /\ keys \in [Ids -> Items \cup {Nil}]
  BY DEF TypeInv, TypeOK
<1>2. /\ s \in Seq(Obj) /\ Len(s) = Len(b)
      /\ \A n \in 1 .. Len(b) : s[n] = [item |-> b[n].item, id |-> b[n].id]
  BY <1>1, ObjectsFact
<1>3. /\ buffer' = PushLeftAll(s, buffer)
      /\ batch' = [batch EXCEPT ![f] = <<>>]
      /\ settled' = settled \cup ItemsOf(e)
      /\ keys' = [d \in Ids |->
                   IF d \in IdsOf(e) THEN Nil
                   ELSE IF \E n \in 1 .. Len(b) : b[n].id = d /\ b[n].key # Nil
                     THEN b[CHOOSE n \in 1 .. Len(b) : b[n].id = d].key
                     ELSE keys[d]]
  BY DEF Requeue
<1>4. /\ e \in Seq(Obj) /\ Len(e) \in Nat
      /\ Len(b) + Len(buffer) > Capacity => Len(e) = Len(b) + Len(buffer) - Capacity
      /\ Len(b) + Len(buffer) <= Capacity => Len(e) = 0
      /\ \A n \in 1 .. Len(e) :
           /\ Capacity - Len(b) + n \in 1 .. Len(buffer)
           /\ e[n] = buffer[Capacity - Len(b) + n]
  <2>1. e \in Seq(Obj) /\ Len(e) \in Nat
    BY <1>1, OverflowFact
  <2>2. /\ Len(b) + Len(buffer) > Capacity =>
             Len(e) = Len(b) + Len(buffer) - Capacity
        /\ Len(b) + Len(buffer) <= Capacity => Len(e) = 0
    BY <1>1, OverflowFact
  <2>3. \A n \in 1 .. Len(Overflow(b, buffer)) :
           /\ Capacity - Len(b) + n \in 1 .. Len(buffer)
           /\ Overflow(b, buffer)[n] = buffer[Capacity - Len(b) + n]
    <3>. HIDE DEF b
    <3>. QED  BY <1>1, OverflowFact
  <2>. QED  BY <2>1, <2>2, <2>3
<1>. HIDE DEF s, e
<1>5. /\ buffer' \in Seq(Obj) /\ Len(buffer') \in Nat
      /\ Len(b) <= Len(buffer') /\ Len(buffer') <= Len(b) + Len(buffer)
      /\ Len(buffer') <= Capacity
      /\ Len(buffer') < Capacity => Len(buffer') = Len(b) + Len(buffer)
  BY <1>1, <1>2, <1>3, PushLeftFact
<1>6. \A n \in 1 .. Len(b) : buffer'[n] = [item |-> b[n].item, id |-> b[n].id]
  <2>1. \A n \in 1 .. Len(s) : PushLeftAll(s, buffer)[n] = s[n]
    BY <1>1, <1>2, PushLeftFact
  <2>. QED  BY <1>2, <1>3, <2>1
<1>7. \A n \in Len(b) + 1 .. Len(buffer') : buffer'[n] = buffer[n - Len(b)]
  <2>1. \A n \in Len(s) + 1 .. Len(PushLeftAll(s, buffer)) :
          PushLeftAll(s, buffer)[n] = buffer[n - Len(s)]
    BY <1>1, <1>2, PushLeftFact
  <2>. QED  BY <1>2, <1>3, <2>1
<1>. HIDE DEF b
<1>8. \A n \in 1 .. Len(buffer') :
        \/ n \in 1 .. Len(b) /\ buffer'[n].id = b[n].id
        \/ n - Len(b) \in 1 .. Len(buffer) /\ buffer'[n] = buffer[n - Len(b)]
  <2>. SUFFICES ASSUME NEW n \in 1 .. Len(buffer')
                PROVE  \/ n \in 1 .. Len(b) /\ buffer'[n].id = b[n].id
                       \/ /\ n - Len(b) \in 1 .. Len(buffer)
                          /\ buffer'[n] = buffer[n - Len(b)]
    OBVIOUS
  <2>1. CASE n <= Len(b)
    <3>1. n \in 1 .. Len(b)
      BY <1>1, <1>5, <2>1
    <3>2. buffer'[n] = [item |-> b[n].item, id |-> b[n].id]
      BY <1>6, <3>1
    <3>3. buffer'[n].id = b[n].id
      BY <3>2
    <3>. QED  BY <3>1, <3>3
  <2>2. CASE n > Len(b)
    <3>1. n \in Len(b) + 1 .. Len(buffer') /\ n - Len(b) \in 1 .. Len(buffer)
      BY <1>1, <1>5, <2>2
    <3>2. buffer'[n] = buffer[n - Len(b)]
      BY <1>7, <3>1
    <3>. QED  BY <3>1, <3>2
  <2>. QED  BY <1>1, <2>1, <2>2
<1>9. /\ \A m, n \in 1 .. Len(b) : b[m].id = b[n].id => m = n
      /\ \A m \in 1 .. Len(b), n \in 1 .. Len(buffer) : b[m].id # buffer[n].id
      /\ \A m, n \in 1 .. Len(buffer) : buffer[m].id = buffer[n].id => m = n
      /\ \A n \in 1 .. Len(b) : b[n].key \in {Nil, b[n].item}
  BY DEF b, Placed, UniqueIds, BatchKeys
<1>10. /\ batch'[f] = <<>> /\ Len(batch'[f]) = 0
       /\ \A g \in Callers : g # f => batch'[g] = batch[g]
  BY <1>3 DEF TypeInv, TypeOK
<1>11. UniqueIds'
  <2>1. \A m, n \in 1 .. Len(buffer') : buffer'[m].id = buffer'[n].id => m = n
    <3>. SUFFICES ASSUME NEW m \in 1 .. Len(buffer'), NEW n \in 1 .. Len(buffer'),
                         buffer'[m].id = buffer'[n].id
                  PROVE  m = n
      OBVIOUS
    <3>1. CASE m \in 1 .. Len(b) /\ buffer'[m].id = b[m].id
      <4>1. CASE n \in 1 .. Len(b) /\ buffer'[n].id = b[n].id
        BY <1>9, <3>1, <4>1
      <4>2. CASE /\ n - Len(b) \in 1 .. Len(buffer)
                 /\ buffer'[n] = buffer[n - Len(b)]
        <5>1. b[m].id = buffer[n - Len(b)].id
          BY <3>1, <4>2
        <5>. QED  BY <1>9, <3>1, <4>2, <5>1
      <4>. QED  BY <1>8, <4>1, <4>2
    <3>2. CASE /\ m - Len(b) \in 1 .. Len(buffer)
               /\ buffer'[m] = buffer[m - Len(b)]
      <4>1. CASE n \in 1 .. Len(b) /\ buffer'[n].id = b[n].id
        <5>1. b[n].id = buffer[m - Len(b)].id
          BY <3>2, <4>1
        <5>. QED  BY <1>9, <3>2, <4>1, <5>1
      <4>2. CASE /\ n - Len(b) \in 1 .. Len(buffer)
                 /\ buffer'[n] = buffer[n - Len(b)]
        <5>1. m - Len(b) = n - Len(b)
          BY <1>9, <3>2, <4>2
        <5>. QED  BY <1>1, <5>1
      <4>. QED  BY <1>8, <4>1, <4>2
    <3>. QED  BY <1>8, <3>1, <3>2
  <2>2. \A g \in Callers : g # f =>
          /\ \A m \in 1 .. Len(batch[g]), n \in 1 .. Len(b) :
               batch[g][m].id # b[n].id
          /\ \A m \in 1 .. Len(batch[g]), n \in 1 .. Len(buffer) :
               batch[g][m].id # buffer[n].id
    BY DEF b, Placed, UniqueIds
  <2>3. \A g \in Callers : \A m \in 1 .. Len(batch'[g]), n \in 1 .. Len(buffer') :
          batch'[g][m].id # buffer'[n].id
    <3>. SUFFICES ASSUME NEW g \in Callers, NEW m \in 1 .. Len(batch'[g]),
                         NEW n \in 1 .. Len(buffer')
                  PROVE  batch'[g][m].id # buffer'[n].id
      OBVIOUS
    <3>1. g # f /\ batch'[g] = batch[g]
      BY <1>10
    <3>2. CASE n \in 1 .. Len(b) /\ buffer'[n].id = b[n].id
      BY <2>2, <3>1, <3>2
    <3>3. CASE n - Len(b) \in 1 .. Len(buffer) /\ buffer'[n] = buffer[n - Len(b)]
      BY <2>2, <3>1, <3>3
    <3>. QED  BY <1>8, <3>2, <3>3
  <2>4. /\ \A g \in Callers : \A m, n \in 1 .. Len(batch'[g]) :
             batch'[g][m].id = batch'[g][n].id => m = n
        /\ \A g, h \in Callers :
             \A m \in 1 .. Len(batch'[g]), n \in 1 .. Len(batch'[h]) :
               batch'[g][m].id = batch'[h][n].id => g = h
    BY <1>10 DEF Placed, UniqueIds
  <2>. QED  BY <2>1, <2>3, <2>4 DEF UniqueIds
<1>12. BatchKeys'
  BY <1>10 DEF Placed, BatchKeys
<1>13. KeyMapExact'
  <2>. SUFFICES ASSUME NEW d \in Ids, keys'[d] # Nil
                PROVE  \E n \in 1 .. Len(buffer') :
                         buffer'[n] = [item |-> keys'[d], id |-> d]
    BY DEF KeyMapExact
  <2>1. d \notin IdsOf(e)
    BY <1>3
  <2>2. CASE \E n \in 1 .. Len(b) : b[n].id = d /\ b[n].key # Nil
    <3>1. PICK n \in 1 .. Len(b) : b[n].id = d /\ b[n].key # Nil
      BY <2>2
    <3>2. (CHOOSE p \in 1 .. Len(b) : b[p].id = d) = n
      BY <1>9, <3>1
    <3>3. keys'[d] = b[n].key
      BY <1>3, <2>1, <3>1, <3>2
    <3>4. b[n].key = b[n].item
      BY <1>9, <3>1
    <3>5. n \in 1 .. Len(buffer')
      BY <1>1, <1>5
    <3>. QED  BY <1>6, <3>1, <3>3, <3>4, <3>5
  <2>3. CASE ~(\E n \in 1 .. Len(b) : b[n].id = d /\ b[n].key # Nil)
    <3>1. keys'[d] = keys[d]
      BY <1>3, <2>1, <2>3
    <3>2. PICK n \in 1 .. Len(buffer) : buffer[n] = [item |-> keys[d], id |-> d]
      BY <3>1 DEF Placed, KeyMapExact
    <3>3. Len(b) + n <= Capacity
      <4>. SUFFICES ASSUME Len(b) + n > Capacity
                    PROVE  FALSE
        BY <1>1
      <4>1. Len(b) + n - Capacity \in 1 .. Len(e)
        BY <1>1, <1>4
      <4>2. e[Len(b) + n - Capacity] = buffer[n]
        BY <1>1, <1>4, <4>1
      <4>. QED  BY <2>1, <3>2, <4>1, <4>2 DEF IdsOf
    <3>4. Len(b) + n \in Len(b) + 1 .. Len(buffer')
      BY <1>1, <1>5, <3>3
    <3>5. buffer'[Len(b) + n] = buffer[n]
      BY <1>1, <1>7, <3>4
    <3>6. Len(b) + n \in 1 .. Len(buffer')
      BY <1>1, <3>4
    <3>. QED  BY <3>1, <3>2, <3>5, <3>6
  <2>. QED  BY <2>2, <2>3
<1>14. KeysOf(WithKeys(e)) \subseteq settled'
  <2>1. /\ Len(WithKeys(e)) = Len(e)
        /\ \A n \in 1 .. Len(e) : WithKeys(e)[n].key = keys[e[n].id]
    BY <1>1, <1>4, WithKeysFact
  <2>2. \A n \in 1 .. Len(e) : keys[e[n].id] \in {Nil, e[n].item}
    BY <1>4, OwnKey DEF Placed
  <2>3. \A n \in 1 .. Len(e) : e[n].item \in settled'
    BY <1>3 DEF ItemsOf
  <2>. QED  BY <2>1, <2>2, <2>3 DEF KeysOf
<1>. QED  BY <1>11, <1>12, <1>13, <1>14 DEF Placed, b, e
-----------------------------------------------------------------------------
(* The rest of the invariant: who holds the lock, what is being written,   *)
(* what is about to be deleted, and what must be in Redis.                 *)
Guarded == LockOK /\ WriterObj /\ PendingDeletes /\ Durable

(* While no writer holds the lock no record is being written.              *)
LEMMA NoneWriting ==
  ASSUME LockOK, lock = Free \/ lock = Loader
  PROVE  \A i \in Items : wpc[i] \notin {"evicting", "persisting"}
BY DistinctAssumption DEF LockOK

LEMMA SafeInit == Init => Placed /\ Guarded
<1>. SUFFICES ASSUME Init PROVE Placed /\ Guarded
  OBVIOUS
<1>1. /\ Len(buffer) = 0 /\ \A f \in Callers : Len(batch[f]) = 0
      /\ \A d \in Ids : keys[d] = Nil
  BY DEF Init, NoKeys
<1>2. Placed
  BY <1>1 DEF Placed, UniqueIds, KeyMapExact, BatchKeys
<1>3. Guarded
  BY DEF Init, Guarded, LockOK, WriterObj, PendingDeletes, Durable
<1>. QED  BY <1>2, <1>3

(* Appending with the lock: the new object is in the buffer while its      *)
(* record is written, and no other writer is at that point.                *)
LEMMA AppendGuarded ==
  ASSUME TypeInv, LockOK, NEW i \in Items, AppendAndPersist(i), UNCHANGED lpc,
         lpc \notin {"scan", "loading"},
         \A j \in Items : j # i => wpc[j] \notin {"evicting", "persisting"},
         \A d \in FreeIds :
            buffer' = PushRight(buffer, [item |-> i, id |-> d]) =>
              \E n \in 1 .. Len(buffer') : buffer'[n] = [item |-> i, id |-> d]
  PROVE  LockOK' /\ WriterObj'
<1>1. PICK d \in FreeIds :
        /\ buffer' = PushRight(buffer, [item |-> i, id |-> d])
        /\ IF attached
             THEN /\ wpc' = [wpc EXCEPT ![i] = "persisting"]
                  /\ wid' = [wid EXCEPT ![i] = d]
                  /\ lock' = i
             ELSE /\ wpc' = [wpc EXCEPT ![i] = "in"]
                  /\ wid' = wid
                  /\ lock' = Free
  BY DEF AppendAndPersist
<1>2. \E n \in 1 .. Len(buffer') : buffer'[n] = [item |-> i, id |-> d]
  BY <1>1
<1>3. \A j \in Items : j # i => wpc'[j] \notin {"evicting", "persisting"}
  BY <1>1 DEF TypeInv, TypeOK
<1>4. CASE attached
  <2>1. wid'[i] = d /\ lock' = i /\ wpc'[i] = "persisting"
    BY <1>1, <1>4 DEF TypeInv, TypeOK
  <2>. QED  BY <1>2, <1>3, <2>1 DEF LockOK, WriterObj
<1>5. CASE ~attached
  <2>1. wpc'[i] = "in"
    BY <1>1, <1>5 DEF TypeInv, TypeOK
  <2>. QED  BY <1>3, <2>1 DEF LockOK, WriterObj
<1>. QED  BY <1>4, <1>5

LEMMA SafeWriter ==
  ASSUME TypeInv, Placed, Guarded, NEW i \in Items, Writer(i)
  PROVE  Placed' /\ Guarded'
<1>. USE DEF bufVars, writerVars, loadVars, clearVars, callerVars, history
<1>0. /\ wpc \in [Items -> {"new", "waiting", "evicting", "persisting", "in", "out"}]
      /\ wid \in [Items -> Ids \cup {Nil}] /\ wkey \in [Items -> Items \cup {Nil}]
      /\ keys \in [Ids -> Items \cup {Nil}]
      /\ buffer \in Seq(Obj) /\ Len(buffer) <= Capacity /\ Len(buffer) \in Nat
  BY DEF TypeInv, TypeOK
<1>1. BufferFull => 1 \in 1 .. Len(buffer) /\ Head(buffer) = buffer[1]
  BY <1>0 DEF BufferFull
<1>2. ASSUME AppendAndPersist(i), UNCHANGED <<keys, batch>>,
             BufferFull => keys[Head(buffer).id] = Nil
      PROVE  Placed' /\ \A d \in FreeIds :
               buffer' = PushRight(buffer, [item |-> i, id |-> d]) =>
                 \E n \in 1 .. Len(buffer') : buffer'[n] = [item |-> i, id |-> d]
  <2>1. \A d \in FreeIds :
          buffer' = PushRight(buffer, [item |-> i, id |-> d]) =>
            /\ Placed'
            /\ \E n \in 1 .. Len(buffer') : buffer'[n] = [item |-> i, id |-> d]
    BY <1>0, <1>2, AppendPlaced DEF Placed, KeyMapExact
  <2>. QED  BY <1>2, <2>1 DEF AppendAndPersist
<1>3. CASE AddAppend(i)
  <2>1. Placed' /\ LockOK' /\ WriterObj'
    <3>1. lpc \notin {"scan", "loading"} /\ UNCHANGED <<lpc, keys, batch>>
      BY <1>3, DistinctAssumption DEF AddAppend, Arriving, Guarded, LockOK
    <3>2. \A j \in Items : wpc[j] \notin {"evicting", "persisting"}
      BY <1>3, NoneWriting DEF AddAppend, Arriving, Guarded
    <3>3. AppendAndPersist(i) /\ ~BufferFull
      BY <1>3 DEF AddAppend
    <3>. QED  BY <1>2, <3>1, <3>2, <3>3, AppendGuarded DEF Guarded
  <2>2. PendingDeletes'
    BY <1>0, <1>3 DEF AddAppend, AppendAndPersist, Guarded, PendingDeletes
  <2>3. Durable'
    BY <1>3 DEF AddAppend, Guarded, Durable
  <2>. QED  BY <2>1, <2>2, <2>3 DEF Guarded
<1>4. CASE AddReject(i) \/ AddWait(i) \/ WaitCancelled(i)
  <2>1. /\ UNCHANGED <<buffer, keys, batch, lock, lpc, wid, wkey, fpc, ftodo, history,
                       redis>>
        /\ wpc' \in {[wpc EXCEPT ![i] = "out"], [wpc EXCEPT ![i] = "waiting"]}
    BY <1>4 DEF AddReject, AddWait, WaitCancelled
  <2>2. Placed'
    BY <2>1, Frame DEF Placed
  <2>3. \A j \in Items : wpc'[j] \in {"evicting", "persisting"} => wpc'[j] = wpc[j]
    BY <1>0, <2>1
  <2>4. LockOK' /\ WriterObj' /\ PendingDeletes'
    BY <2>1, <2>3 DEF Guarded, LockOK, WriterObj, PendingDeletes
  <2>. QED  BY <2>1, <2>2, <2>4 DEF Guarded, Durable
<1>5. CASE AddEvict(i)
  <2>. DEFINE oldest == Head(buffer)
              km == [keys EXCEPT ![oldest.id] = Nil]
  <2>1. /\ oldest \in Obj /\ oldest = buffer[1] /\ 1 \in 1 .. Len(buffer)
        /\ oldest.id \in Ids
    <3>1. oldest = buffer[1] /\ 1 \in 1 .. Len(buffer)
      BY <1>1, <1>5 DEF AddEvict
    <3>2. oldest \in Obj
      BY <1>0, <3>1
    <3>. QED  BY <3>1, <3>2 DEF Obj
  <2>2. /\ settled' = settled \cup {oldest.item} /\ keys' = km
        /\ km \in [Ids -> Items \cup {Nil}] /\ km[oldest.id] = Nil
    BY <1>0, <1>5, <2>1 DEF AddEvict
  <2>3. \A c \in Ids : km[c] # Nil =>
          \E n \in 1 .. Len(buffer) : buffer[n] = [item |-> km[c], id |-> c]
    BY <1>0, <2>1 DEF Placed, KeyMapExact
  <2>4. /\ UNCHANGED <<lpc, batch, fpc, ftodo, redis, recorded, erased>>
        /\ lpc \notin {"scan", "loading"}
    BY <1>5, DistinctAssumption DEF AddEvict, Arriving, Guarded, LockOK
  <2>5. \A j \in Items : wpc[j] \notin {"evicting", "persisting"}
    BY <1>5, NoneWriting DEF AddEvict, Arriving, Guarded
  <2>6. Durable'
    BY <2>2, <2>4 DEF Guarded, Durable
  <2>7. CASE AppendAndPersist(i) /\ wkey' = wkey
    <3>1. \A d \in FreeIds :
            buffer' = PushRight(buffer, [item |-> i, id |-> d]) =>
              /\ Placed'
              /\ \E n \in 1 .. Len(buffer') : buffer'[n] = [item |-> i, id |-> d]
      <4>. HIDE DEF km
      <4>. QED  BY <2>2, <2>3, <2>4, AppendPlaced DEF Placed
    <3>2. Placed'
      BY <2>7, <3>1 DEF AppendAndPersist
    <3>3. LockOK' /\ WriterObj'
      BY <2>4, <2>5, <2>7, <3>1, AppendGuarded DEF Guarded
    <3>4. PendingDeletes'
      BY <1>0, <2>2, <2>4, <2>5, <2>7
         DEF AppendAndPersist, Guarded, PendingDeletes
    <3>. QED  BY <2>6, <3>2, <3>3, <3>4 DEF Guarded
  <2>8. CASE /\ keys[oldest.id] # Nil
             /\ wpc' = [wpc EXCEPT ![i] = "evicting"]
             /\ wkey' = [wkey EXCEPT ![i] = keys[oldest.id]]
             /\ lock' = i
             /\ UNCHANGED <<buffer, wid>>
    <3>1. keys[oldest.id] \in settled'
      BY <2>1, <2>2, <2>8, OwnKey DEF Placed
    <3>2. PendingDeletes'
      BY <1>0, <2>2, <2>4, <2>5, <2>8, <3>1 DEF Guarded, PendingDeletes
    <3>3. LockOK' /\ WriterObj'
      BY <1>0, <2>1, <2>2, <2>4, <2>5, <2>8 DEF Guarded, LockOK, WriterObj
    <3>4. Placed'
      BY <2>2, <2>3, <2>4, <2>8 DEF Placed, UniqueIds, BatchKeys, KeyMapExact
    <3>. QED  BY <2>6, <3>2, <3>3, <3>4 DEF Guarded
  <2>. QED  BY <1>5, <2>7, <2>8 DEF AddEvict
<1>6. CASE EvictDone(i)
  <2>1. /\ AppendAndPersist(i) /\ wpc[i] = "evicting" /\ lock = i
        /\ UNCHANGED <<lpc, keys, batch, fpc, ftodo, history>>
        /\ redis' \in {redis, redis \ {wkey[i]}}
        /\ wkey' = [wkey EXCEPT ![i] = Nil]
    BY <1>6 DEF EvictDone, DeleteRecord, Guarded, LockOK
  <2>2. /\ \A j \in Items : j # i => wpc[j] \notin {"evicting", "persisting"}
        /\ lpc \notin {"scan", "loading"}
    BY <2>1, DistinctAssumption DEF Guarded, LockOK
  <2>3. wkey[i] \in settled
    BY <2>1 DEF Guarded, PendingDeletes
  <2>4. Durable'
    BY <2>1, <2>3 DEF Guarded, Durable
  <2>5. PendingDeletes'
    BY <1>0, <2>1, <2>2 DEF AppendAndPersist, Guarded, PendingDeletes
  <2>6. BufferFull => keys[Head(buffer).id] = Nil
    BY <1>1, <2>1 DEF Guarded, WriterObj
  <2>7. Placed' /\ LockOK' /\ WriterObj'
    BY <1>2, <2>1, <2>2, <2>6, AppendGuarded DEF Guarded
  <2>. QED  BY <2>4, <2>5, <2>7 DEF Guarded
<1>7. CASE EvictCancelled(i)
  <2>1. /\ wpc[i] = "evicting" /\ lock = i
        /\ UNCHANGED <<lpc, buffer, keys, wid, batch, fpc, ftodo, history>>
        /\ redis' \in {redis, redis \ {wkey[i]}}
        /\ wkey' = [wkey EXCEPT ![i] = Nil]
        /\ wpc' = [wpc EXCEPT ![i] = "out"]
    BY <1>7 DEF EvictCancelled, DeleteRecord, Guarded, LockOK
  <2>2. /\ \A j \in Items : wpc'[j] \notin {"evicting", "persisting"}
        /\ lpc \notin {"scan", "loading"}
    BY <1>0, <2>1, DistinctAssumption DEF Guarded, LockOK
  <2>3. wkey[i] \in settled
    BY <2>1 DEF Guarded, PendingDeletes
  <2>4. Durable'
    BY <2>1, <2>3 DEF Guarded, Durable
  <2>5. LockOK' /\ WriterObj' /\ PendingDeletes'
    BY <2>1, <2>2 DEF Guarded, LockOK, WriterObj, PendingDeletes
  <2>6. Placed'
    BY <2>1, Frame DEF Placed
  <2>. QED  BY <2>4, <2>5, <2>6 DEF Guarded
<1>8. CASE PersistDone(i)
  <2>1. PICK stored, tracked \in BOOLEAN :
          /\ redis' = IF stored THEN redis \cup {i} ELSE redis
          /\ recorded' = IF stored THEN recorded \cup {i} ELSE recorded
          /\ keys' = IF tracked THEN [keys EXCEPT ![wid[i]] = i] ELSE keys
    BY <1>8 DEF PersistDone
  <2>2. /\ wpc[i] = "persisting" /\ lock = i
        /\ UNCHANGED <<lpc, buffer, wkey, batch, fpc, ftodo, settled, erased>>
        /\ wid' = [wid EXCEPT ![i] = Nil]
        /\ wpc' = [wpc EXCEPT ![i] = "in"]
    BY <1>8 DEF PersistDone, Guarded, LockOK
  <2>3. /\ \A j \in Items : wpc'[j] \notin {"evicting", "persisting"}
        /\ lpc \notin {"scan", "loading"}
    BY <1>0, <2>2, DistinctAssumption DEF Guarded, LockOK
  <2>4. Durable'
    BY <2>1, <2>2 DEF Guarded, Durable
  <2>5. LockOK' /\ WriterObj' /\ PendingDeletes'
    BY <2>2, <2>3 DEF Guarded, LockOK, WriterObj, PendingDeletes
  <2>6. \E n \in 1 .. Len(buffer) : buffer[n] = [item |-> i, id |-> wid[i]]
    BY <2>2 DEF Guarded, WriterObj
  <2>7. KeyMapExact'
    BY <1>0, <2>1, <2>2, <2>6 DEF Placed, KeyMapExact
  <2>. QED  BY <2>2, <2>4, <2>5, <2>7, Frame DEF Guarded, Placed
<1>. QED  BY <1>3, <1>4, <1>5, <1>6, <1>7, <1>8 DEF Writer

LEMMA SafeLoad ==
  ASSUME TypeInv, Placed, Guarded, Load
  PROVE  Placed' /\ Guarded'
<1>. USE DEF bufVars, writerVars, loadVars, clearVars, callerVars, history
<1>0. CASE InitializeMetrics \/ LoadDropped
  BY <1>0, Frame DEF InitializeMetrics, LoadDropped, Initializing, Guarded,
                     Placed, LockOK, Durable
<1>1. CASE InitializeEvents \/ LoadMetrics
  <2>1. \A i \in Items : wpc[i] \notin {"evicting", "persisting"}
    BY <1>1, NoneWriting DEF InitializeEvents, LoadMetrics, Guarded
  <2>. QED  BY <1>1, <2>1, Frame
            DEF InitializeEvents, LoadMetrics, Initializing, Guarded, Placed,
                LockOK, Durable
<1>2. CASE LoadScan
  BY <1>2, Frame DEF LoadScan, Guarded, Placed, LockOK, Durable
<1>3. CASE LoadEnd
  <2>1. \A i \in Items : wpc[i] \notin {"evicting", "persisting"}
    BY <1>3, NoneWriting DEF LoadEnd, Guarded, LockOK
  <2>. QED  BY <1>3, <2>1, Frame DEF LoadEnd, Guarded, Placed, LockOK, Durable
<1>4. ASSUME NEW k \in Items, LoadOne(k)
      PROVE  Placed' /\ Guarded'
  <2>1. PICK d \in FreeIds :
          /\ buffer' = PushRight(buffer, [item |-> k, id |-> d])
          /\ BufferFull => keys' = [keys EXCEPT ![Head(buffer).id] = Nil, ![d] = k]
          /\ ~BufferFull => keys' = [keys EXCEPT ![d] = k]
    BY <1>4 DEF LoadOne
  <2>2. /\ UNCHANGED <<batch, wpc, wid, wkey, lpc, lock, fpc, ftodo, redis,
                       recorded, settled, erased>>
        /\ lock = Loader
    BY <1>4 DEF LoadOne, Guarded, LockOK
  <2>. DEFINE km == IF BufferFull THEN [keys EXCEPT ![Head(buffer).id] = Nil]
                                  ELSE keys
  <2>3. /\ keys \in [Ids -> Items \cup {Nil}] /\ d \in Ids
        /\ buffer \in Seq(Obj) /\ Len(buffer) \in Nat
    BY DEF TypeInv, TypeOK, FreeIds
  <2>4. BufferFull => /\ 1 \in 1 .. Len(buffer) /\ Head(buffer) = buffer[1]
                      /\ Head(buffer).id \in Ids
    <3>1. ASSUME BufferFull
          PROVE  1 \in 1 .. Len(buffer) /\ Head(buffer) = buffer[1]
      BY <2>3, <3>1 DEF BufferFull
    <3>2. ASSUME BufferFull
          PROVE  buffer[1] \in Obj
      BY <2>3, <3>1, <3>2
    <3>. QED  BY <3>1, <3>2 DEF Obj
  <2>5. km \in [Ids -> Items \cup {Nil}] /\ keys' = [km EXCEPT ![d] = k]
    BY <2>1, <2>3, <2>4
  <2>6. \A c \in Ids : km[c] # Nil =>
          \E n \in 1 .. Len(buffer) : buffer[n] = [item |-> km[c], id |-> c]
    BY <2>3, <2>4 DEF Placed, KeyMapExact
  <2>7. BufferFull => km[Head(buffer).id] = Nil
    BY <2>3, <2>4
  <2>8. Placed'
    <3>. HIDE DEF km
    <3>. QED  BY <2>1, <2>2, <2>5, <2>6, <2>7, AppendPlaced DEF Placed
  <2>9. \A i \in Items : wpc[i] \notin {"evicting", "persisting"}
    BY <2>2, NoneWriting DEF Guarded
  <2>. QED  BY <2>2, <2>8, <2>9
            DEF Guarded, LockOK, WriterObj, PendingDeletes, Durable
<1>5. ASSUME NEW k \in Items, LoadSkip(k)
      PROVE  Placed' /\ Guarded'
  BY <1>5, Frame DEF LoadSkip, Guarded, Placed, Durable
<1>. QED  BY <1>0, <1>1, <1>2, <1>3, <1>4, <1>5 DEF Load

LEMMA SafeClear ==
  ASSUME TypeInv, Placed, Guarded, Clear
  PROVE  Placed' /\ Guarded'
<1>. USE DEF bufVars, writerVars, loadVars, clearVars, callerVars, history
<1>1. CASE ClearMemory
  <2>1. /\ \A i \in Items : wpc[i] \notin {"evicting", "persisting"}
        /\ \A d \in Ids : keys'[d] = Nil
    BY <1>1, NoneWriting DEF ClearMemory, Guarded, NoKeys
  <2>2. Placed'
    BY <1>1, <2>1, EmptyPlaced DEF ClearMemory
  <2>3. Durable'
    BY <1>1 DEF ClearMemory, Guarded, Durable
  <2>4. LockOK' /\ PendingDeletes'
    BY <1>1, Frame DEF ClearMemory, Guarded
  <2>. QED  BY <1>1, <2>1, <2>2, <2>3, <2>4 DEF ClearMemory, Guarded, WriterObj
<1>2. CASE ClearScan \/ ClearEnd
  BY <1>2, Frame DEF ClearScan, ClearEnd, Guarded, Placed, Durable
<1>3. ASSUME NEW k \in Items, ClearDelete(k)
      PROVE  Placed' /\ Guarded'
  BY <1>3, Frame DEF ClearDelete, Guarded, Placed, Durable
<1>. QED  BY <1>1, <1>2, <1>3 DEF Clear

(* A caller that moves on leaves the deletes of the others alone; its own  *)
(* are those of its batch in flush_events, else of settled items.          *)
LEMMA PendingCaller ==
  ASSUME TypeInv, PendingDeletes, NEW f \in Callers,
         \A g \in Callers : g # f => /\ fpc'[g] = fpc[g]
                                     /\ ftodo'[g] = ftodo[g]
                                     /\ batch'[g] = batch[g],
         ftodo'[f] \subseteq IF fpc'[f] = "handing" THEN ItemsOf(batch'[f])
                             ELSE settled',
         settled \subseteq settled',
         UNCHANGED <<wpc, wkey>>
  PROVE  PendingDeletes'
<1>1. ASSUME NEW g \in Callers
      PROVE  ftodo'[g] \subseteq IF fpc'[g] = "handing" THEN ItemsOf(batch'[g])
                                 ELSE settled'
  <2>1. CASE g = f
    BY <2>1
  <2>2. CASE g # f
    BY <2>2 DEF PendingDeletes
  <2>. QED  BY <2>1, <2>2
<1>2. \A i \in Items : wpc'[i] = "evicting" => wkey'[i] \in settled'
  BY DEF PendingDeletes
<1>. QED  BY <1>1, <1>2 DEF PendingDeletes

(* Keys that a caller starts to confirm are of settled items.              *)
LEMMA ConfirmGuarded ==
  ASSUME TypeInv, PendingDeletes, NEW f \in Callers, NEW ks, StartConfirm(f, ks),
         fpc[f] # "handing", batch' = [batch EXCEPT ![f] = <<>>],
         ks \subseteq settled', settled \subseteq settled',
         UNCHANGED <<wpc, wkey>>
  PROVE  PendingDeletes'
<1>1. /\ fpc'[f] \in {"confirming", "idle"}
      /\ ftodo'[f] \in {ks, ftodo[f]}
      /\ \A g \in Callers : g # f => /\ fpc'[g] = fpc[g]
                                     /\ ftodo'[g] = ftodo[g]
                                     /\ batch'[g] = batch[g]
  BY DEF TypeInv, TypeOK, StartConfirm
<1>2. ftodo[f] \subseteq settled
  BY DEF PendingDeletes
<1>3. ftodo'[f] \subseteq IF fpc'[f] = "handing" THEN ItemsOf(batch'[f])
                         ELSE settled'
  BY <1>1, <1>2
<1>. QED  BY <1>1, <1>3, PendingCaller

LEMMA SafeCaller ==
  ASSUME TypeInv, Placed, Guarded, NEW f \in Callers, Caller(f)
  PROVE  Placed' /\ Guarded'
<1>. USE DEF bufVars, writerVars, loadVars, clearVars, callerVars, history
<1>1. lock = Free => \A i \in Items : wpc[i] \notin {"evicting", "persisting"}
  BY NoneWriting DEF Guarded
<1>2. ASSUME lock = Free, UNCHANGED wpc
      PROVE  WriterObj'
  <2>1. \A i \in Items : wpc'[i] \notin {"evicting", "persisting"}
    BY <1>1, <1>2
  <2>. QED  BY <2>1 DEF WriterObj
<1>3. /\ batch[f] \in Seq(Entry)
      /\ KeysOf(batch[f]) \subseteq ItemsOf(batch[f])
  <2>1. \A n \in 1 .. Len(batch[f]) :
          batch[f][n].key \in {Nil, batch[f][n].item}
    BY DEF Placed, BatchKeys
  <2>. QED  BY <2>1 DEF TypeInv, TypeOK, KeysOf, ItemsOf
<1>0. /\ PendingDeletes
      /\ fpc[f] # "handing" => ftodo[f] \subseteq settled
      /\ fpc[f] = "handing" => ftodo[f] \subseteq ItemsOf(batch[f])
      /\ fpc \in [Callers -> {"idle", "sending", "requeue", "confirming", "handing"}]
      /\ ftodo \in [Callers -> SUBSET Items]
      /\ batch \in [Callers -> Seq(Entry)]
  BY DEF Guarded, PendingDeletes, TypeInv, TypeOK
<1>4. CASE DrainWithKeys(f)
  <2>1. Placed'
    BY <1>4, DrainPlaced DEF DrainWithKeys
  <2>2. /\ \A g \in Callers : g # f => /\ fpc'[g] = fpc[g]
                                       /\ ftodo'[g] = ftodo[g]
                                       /\ batch'[g] = batch[g]
        /\ fpc'[f] = "sending" /\ ftodo'[f] \subseteq settled'
        /\ UNCHANGED <<wpc, wkey, settled>>
    BY <1>0, <1>4 DEF DrainWithKeys
  <2>3. PendingDeletes'
    BY <1>0, <2>2, PendingCaller
  <2>. QED  BY <1>2, <1>4, <2>1, <2>3, Frame DEF DrainWithKeys, Guarded, Durable
<1>5. CASE Delivered(f)
  <2>1. Placed'
    BY <1>5, ReleasePlaced DEF Delivered
  <2>2. PendingDeletes'
    <3>1. KeysOf(batch[f]) \subseteq settled'
      BY <1>3, <1>5 DEF Delivered
    <3>. QED  BY <1>5, <3>1, ConfirmGuarded DEF Delivered, Guarded
  <2>3. Durable'
    BY <1>5 DEF Delivered, Guarded, Durable
  <2>. QED  BY <1>5, <2>1, <2>2, <2>3, Frame DEF Delivered, Guarded
<1>6. CASE Undelivered(f)
  <2>1. /\ \A g \in Callers : g # f => /\ fpc'[g] = fpc[g]
                                       /\ ftodo'[g] = ftodo[g]
                                       /\ batch'[g] = batch[g]
        /\ fpc'[f] = "requeue" /\ ftodo'[f] \subseteq settled'
        /\ UNCHANGED <<wpc, wkey, settled>>
    BY <1>0, <1>6 DEF Undelivered
  <2>2. PendingDeletes'
    BY <1>0, <2>1, PendingCaller
  <2>. QED  BY <1>6, <2>2, Frame DEF Undelivered, Guarded, Placed, Durable
<1>7. CASE Requeue(f)
  <2>1. /\ Placed'
        /\ KeysOf(WithKeys(Overflow(batch[f], buffer))) \subseteq settled'
    BY <1>7, RequeuePlaced
  <2>2. PendingDeletes'
    BY <1>7, <2>1, ConfirmGuarded DEF Requeue, Guarded
  <2>3. Durable'
    BY <1>7 DEF Requeue, Guarded, Durable
  <2>. QED  BY <1>2, <1>7, <2>1, <2>2, <2>3, Frame DEF Requeue, Guarded
<1>8. CASE RequeueCancelled(f)
  <2>1. Placed'
    BY <1>8, ReleasePlaced DEF RequeueCancelled
  <2>2. /\ \A g \in Callers : g # f => /\ fpc'[g] = fpc[g]
                                       /\ ftodo'[g] = ftodo[g]
                                       /\ batch'[g] = batch[g]
        /\ fpc'[f] = "idle" /\ ftodo'[f] \subseteq settled'
        /\ UNCHANGED <<wpc, wkey, settled>>
    BY <1>0, <1>8 DEF RequeueCancelled
  <2>3. PendingDeletes'
    BY <1>0, <2>2, PendingCaller
  <2>. QED  BY <1>8, <2>1, <2>3, Frame DEF RequeueCancelled, Guarded, Durable
<1>9. ASSUME NEW k \in Items, ConfirmOne(f, k)
      PROVE  Placed' /\ Guarded'
  <2>1. k \in settled
    BY <1>9 DEF ConfirmOne, Guarded, PendingDeletes
  <2>2. Durable'
    BY <1>9, <2>1 DEF ConfirmOne, DeleteRecord, Guarded, Durable
  <2>3. PendingDeletes'
    <3>1. /\ \A g \in Callers : g # f => /\ fpc'[g] = fpc[g]
                                         /\ ftodo'[g] = ftodo[g]
                                         /\ batch'[g] = batch[g]
          /\ fpc'[f] \in {"confirming", "idle"} /\ ftodo'[f] \subseteq settled'
          /\ UNCHANGED <<wpc, wkey, settled>>
      BY <1>0, <1>9 DEF ConfirmOne
    <3>. QED  BY <1>0, <3>1, PendingCaller
  <2>. QED  BY <1>9, <2>2, <2>3, Frame DEF ConfirmOne, Guarded, Placed
<1>10. CASE ConfirmCancelled(f)
  <2>1. PendingDeletes'
    <3>1. /\ \A g \in Callers : g # f => /\ fpc'[g] = fpc[g]
                                         /\ ftodo'[g] = ftodo[g]
                                         /\ batch'[g] = batch[g]
          /\ fpc'[f] = "idle" /\ ftodo'[f] \subseteq settled'
          /\ UNCHANGED <<wpc, wkey, settled>>
      BY <1>0, <1>10 DEF ConfirmCancelled
    <3>. QED  BY <1>0, <3>1, PendingCaller
  <2>. QED  BY <1>10, <2>1, Frame DEF ConfirmCancelled, Guarded, Placed, Durable
<1>11. CASE DrainAtOnce(f)
  <2>1. Placed'
    BY <1>11, DrainKeys, EmptyPlaced DEF DrainAtOnce, Draining, Placed
  <2>2. PendingDeletes'
    BY <1>0, <1>11 DEF DrainAtOnce, Draining, PendingDeletes
  <2>3. Durable'
    BY <1>11 DEF DrainAtOnce, Draining, Guarded, Durable
  <2>. QED  BY <1>2, <1>11, <2>1, <2>2, <2>3, Frame
            DEF DrainAtOnce, Draining, Guarded
<1>12. CASE DrainLegacy(f)
  <2>1. Placed'
    BY <1>12, DrainPlaced DEF DrainLegacy, Draining
  <2>2. /\ batch'[f] = WithKeys(buffer) /\ ftodo'[f] = KeysOf(batch'[f])
        /\ fpc'[f] = "handing"
        /\ \A g \in Callers : g # f => /\ fpc'[g] = fpc[g]
                                       /\ ftodo'[g] = ftodo[g]
                                       /\ batch'[g] = batch[g]
        /\ UNCHANGED <<wpc, wkey, settled>>
    BY <1>0, <1>12 DEF DrainLegacy, Draining
  <2>3. ftodo'[f] \subseteq ItemsOf(batch'[f])
    <3>1. \A n \in 1 .. Len(batch'[f]) : batch'[f][n].key \in {Nil, batch'[f][n].item}
      BY <2>1 DEF Placed, BatchKeys
    <3>. QED  BY <2>2, <3>1 DEF KeysOf, ItemsOf
  <2>4. PendingDeletes'
    BY <1>0, <2>2, <2>3, PendingCaller
  <2>5. Durable'
    BY <1>12 DEF DrainLegacy, Draining, Guarded, Durable
  <2>. QED  BY <1>2, <1>12, <2>1, <2>4, <2>5, Frame
            DEF DrainLegacy, Draining, Guarded
<1>13. ASSUME NEW k \in Items, SurrenderOne(f, k)
       PROVE  Placed' /\ Guarded'
  <2>1. k \in ItemsOf(batch[f])
    BY <1>0, <1>13 DEF SurrenderOne
  <2>2. Durable'
    BY <1>13, <2>1 DEF SurrenderOne, DeleteRecord, Guarded, Durable
  <2>3. PendingDeletes'
    <3>1. /\ \A g \in Callers : g # f => /\ fpc'[g] = fpc[g]
                                         /\ ftodo'[g] = ftodo[g]
                                         /\ batch'[g] = batch[g]
          /\ fpc'[f] = "handing" /\ ftodo'[f] \subseteq ItemsOf(batch'[f])
          /\ UNCHANGED <<wpc, wkey, settled>>
      BY <1>0, <1>13 DEF SurrenderOne
    <3>. QED  BY <1>0, <3>1, PendingCaller
  <2>. QED  BY <1>13, <2>2, <2>3, Frame DEF SurrenderOne, Guarded, Placed
<1>14. CASE HandOver(f)
  <2>1. Placed'
    BY <1>14, ReleasePlaced DEF HandOver
  <2>2. /\ \A g \in Callers : g # f => /\ fpc'[g] = fpc[g]
                                       /\ ftodo'[g] = ftodo[g]
                                       /\ batch'[g] = batch[g]
        /\ fpc'[f] = "idle" /\ ftodo'[f] = {} /\ settled \subseteq settled'
        /\ UNCHANGED <<wpc, wkey>>
    BY <1>0, <1>14 DEF HandOver
  <2>3. PendingDeletes'
    BY <1>0, <2>2, PendingCaller
  <2>4. Durable'
    BY <1>14 DEF HandOver, Guarded, Durable
  <2>. QED  BY <1>14, <2>1, <2>3, <2>4, Frame DEF HandOver, Guarded
<1>15. CASE HandOverCancelled(f)
  <2>1. Placed'
    BY <1>15, ReleasePlaced DEF HandOverCancelled
  <2>2. /\ \A g \in Callers : g # f => /\ fpc'[g] = fpc[g]
                                       /\ ftodo'[g] = ftodo[g]
                                       /\ batch'[g] = batch[g]
        /\ fpc'[f] = "idle" /\ ftodo'[f] = {}
        /\ UNCHANGED <<wpc, wkey, settled>>
    BY <1>0, <1>15 DEF HandOverCancelled
  <2>3. PendingDeletes'
    BY <1>0, <2>2, PendingCaller
  <2>. QED  BY <1>15, <2>1, <2>3, Frame DEF HandOverCancelled, Guarded, Durable
<1>. QED  BY <1>4, <1>5, <1>6, <1>7, <1>8, <1>9, <1>10, <1>11, <1>12, <1>13,
             <1>14, <1>15 DEF Caller

LEMMA SafeCrash ==
  ASSUME TypeInv, Placed, Guarded, Crash
  PROVE  Placed' /\ Guarded'
<1>1. /\ Len(buffer') = 0 /\ \A f \in Callers : Len(batch'[f]) = 0
      /\ \A d \in Ids : keys'[d] = Nil
  BY DEF Crash, NoKeys
<1>2. Placed'
  BY <1>1 DEF Placed, UniqueIds, KeyMapExact, BatchKeys
<1>3. \A i \in Items : wpc'[i] \notin {"evicting", "persisting"}
  <2>. SUFFICES ASSUME NEW i \in Items
                PROVE  wpc'[i] \notin {"evicting", "persisting"}
    OBVIOUS
  <2>1. wpc'[i] = CASE wpc[i] = "persisting" -> "in"
                    [] wpc[i] \in {"waiting", "evicting"} -> "out"
                    [] OTHER -> wpc[i]
    BY DEF Crash
  <2>. QED  BY <2>1
<1>4. lpc' = "idle" /\ \A f \in Callers : ftodo'[f] = {}
  BY DEF Crash
<1>5. Durable'
  BY DEF Crash, Guarded, Durable
<1>. QED  BY <1>2, <1>3, <1>4, <1>5
          DEF Guarded, LockOK, WriterObj, PendingDeletes

LEMMA SafeStep == TypeInv /\ Placed /\ Guarded /\ [Next]_vars => (Placed /\ Guarded)'
<1>. SUFFICES ASSUME TypeInv, Placed, Guarded, [Next]_vars
              PROVE  Placed' /\ Guarded'
  OBVIOUS
<1>1. ASSUME NEW i \in Items, Expire(i)
      PROVE  Placed' /\ Guarded'
  BY <1>1, Frame DEF Expire, Placed, Guarded, Durable, bufVars, writerVars,
     loadVars, clearVars, callerVars
<1>2. CASE UNCHANGED vars
  BY <1>2, Frame DEF Placed, Guarded, Durable, vars, bufVars, writerVars,
     loadVars, clearVars, callerVars, history
<1>. QED  BY <1>1, <1>2, SafeWriter, SafeLoad, SafeClear, SafeCaller, SafeCrash
          DEF Next
-----------------------------------------------------------------------------
(* What is in memory, as sets of objects.                                  *)

LEMMA ItemsOfCopies == \A s : ItemsOf(s) = {c.item : c \in Copies(s)}
<1>. TAKE s
<1>1. \A n \in 1 .. Len(s) :
        [item |-> s[n].item, id |-> s[n].id].item = s[n].item
  OBVIOUS
<1>. QED  BY <1>1 DEF ItemsOf, Copies

LEMMA CopiesFact ==
  /\ \A s \in Seq(Obj) : /\ Copies(s) = {s[n] : n \in 1 .. Len(s)}
                         /\ Copies(s) \subseteq Obj
  /\ \A b \in Seq(Entry) : /\ Copies(b) \subseteq Obj
                           /\ Copies(Objects(b)) = Copies(b)
<1>1. ASSUME NEW s \in Seq(Obj)
      PROVE  Copies(s) = {s[n] : n \in 1 .. Len(s)} /\ Copies(s) \subseteq Obj
  <2>1. \A n \in 1 .. Len(s) : s[n] \in Obj
    OBVIOUS
  <2>2. \A n \in 1 .. Len(s) : s[n] = [item |-> s[n].item, id |-> s[n].id]
    BY <2>1 DEF Obj
  <2>. QED  BY <2>1, <2>2 DEF Copies
<1>2. ASSUME NEW b \in Seq(Entry)
      PROVE  Copies(b) \subseteq Obj /\ Copies(Objects(b)) = Copies(b)
  <2>1. \A n \in 1 .. Len(b) : b[n] \in Entry
    OBVIOUS
  <2>2. \A n \in 1 .. Len(b) : [item |-> b[n].item, id |-> b[n].id] \in Obj
    BY <2>1 DEF Entry, Obj
  <2>3. /\ Len(Objects(b)) = Len(b)
        /\ \A n \in 1 .. Len(b) :
              Objects(b)[n] = [item |-> b[n].item, id |-> b[n].id]
    BY ObjectsFact
  <2>4. \A n \in 1 .. Len(b) : /\ Objects(b)[n].item = b[n].item
                               /\ Objects(b)[n].id = b[n].id
    <3>. TAKE n \in 1 .. Len(b)
    <3>1. Objects(b)[n] = [item |-> b[n].item, id |-> b[n].id]
      BY <2>3
    <3>. QED  BY <3>1
  <2>. QED  BY <2>2, <2>3, <2>4 DEF Copies
<1>. QED  BY <1>1, <1>2

(* Appending: one object comes, and the first one leaves a full buffer.    *)
Gone == IF BufferFull THEN {Head(buffer)} ELSE {}

LEMMA AppendCopies ==
  ASSUME TypeInv, UniqueIds, NEW i \in Items, NEW d \in FreeIds,
         buffer' = PushRight(buffer, [item |-> i, id |-> d])
  PROVE  /\ Gone \subseteq Copies(buffer)
         /\ Copies(buffer)' = (Copies(buffer) \ Gone) \cup {[item |-> i, id |-> d]}
         /\ BufferFull => Head(buffer) = buffer[1] /\ Head(buffer) \in Obj
<1>. DEFINE o == [item |-> i, id |-> d]
            x == IF Len(buffer) >= Capacity THEN 1 ELSE 0
<1>1. /\ buffer \in Seq(Obj) /\ Len(buffer) <= Capacity /\ o \in Obj
      /\ Len(buffer) \in Nat
  BY DEF TypeInv, TypeOK, FreeIds, Obj
<1>2. buffer' = PushRight(buffer, o)
  OBVIOUS
<1>. HIDE DEF o
<1>3. /\ buffer' \in Seq(Obj)
      /\ Len(buffer') = Len(buffer) - x + 1
      /\ buffer'[Len(buffer')] = o
      /\ \A n \in 1 .. Len(buffer') - 1 : buffer'[n] = buffer[n + x]
  <2>0. buffer' \in Seq(Obj) /\ Len(buffer') = Len(buffer) - x + 1
    BY <1>1, <1>2, PushRightFact
  <2>1. buffer'[Len(buffer')] = o
    BY <1>1, <1>2, PushRightFact
  <2>2. \A n \in 1 .. Len(PushRight(buffer, o)) - 1 :
          PushRight(buffer, o)[n]
            = buffer[n + IF Len(buffer) >= Capacity THEN 1 ELSE 0]
    BY <1>1, PushRightFact
  <2>. QED  BY <1>2, <2>0, <2>1, <2>2
<1>4. /\ Copies(buffer) = {buffer[n] : n \in 1 .. Len(buffer)}
      /\ Copies(buffer)' = {buffer'[n] : n \in 1 .. Len(buffer')}
  <2>1. Copies(buffer') = {buffer'[n] : n \in 1 .. Len(buffer')}
    BY <1>3, CopiesFact
  <2>. QED  BY <1>1, <2>1, CopiesFact
<1>5. BufferFull => /\ 1 \in 1 .. Len(buffer) /\ Head(buffer) = buffer[1]
                    /\ Head(buffer) \in Obj
  BY <1>1 DEF BufferFull
<1>6. Gone \subseteq Copies(buffer)
  BY <1>4, <1>5 DEF Gone
<1>7. \A n \in 1 .. Len(buffer) : n # 1 => buffer[n] # buffer[1]
  BY <1>1 DEF UniqueIds
<1>8. ASSUME NEW n \in 1 .. Len(buffer')
      PROVE  buffer'[n] \in (Copies(buffer) \ Gone) \cup {o}
  <2>1. CASE n = Len(buffer')
    BY <1>3, <2>1
  <2>2. CASE n # Len(buffer')
    <3>1. n + x \in 1 .. Len(buffer) /\ buffer'[n] = buffer[n + x]
      BY <1>1, <1>3, <2>2
    <3>2. BufferFull => n + x # 1
      BY <1>1 DEF BufferFull
    <3>3. BufferFull => buffer[n + x] # Head(buffer)
      BY <1>5, <1>7, <3>1, <3>2
    <3>. HIDE DEF x
    <3>. QED  BY <1>4, <3>1, <3>3 DEF Gone
  <2>. QED  BY <2>1, <2>2
<1>9. ASSUME NEW n \in 1 .. Len(buffer), buffer[n] \notin Gone
      PROVE  \E m \in 1 .. Len(buffer') : buffer'[m] = buffer[n]
  <2>1. BufferFull => n # 1
    BY <1>5, <1>9 DEF Gone
  <2>2. n - x \in 1 .. Len(buffer') - 1
    BY <1>1, <1>3, <2>1 DEF BufferFull
  <2>3. n - x \in 1 .. Len(buffer') /\ buffer'[n - x] = buffer[n]
    BY <1>1, <1>3, <2>2
  <2>. QED  BY <2>3
<1>10. Len(buffer') \in 1 .. Len(buffer') /\ buffer'[Len(buffer')] = o
  BY <1>1, <1>3
<1>11. Copies(buffer)' = (Copies(buffer) \ Gone) \cup {o}
  <2>1. Copies(buffer)' \subseteq (Copies(buffer) \ Gone) \cup {o}
    BY <1>4, <1>8
  <2>2. Copies(buffer) \ Gone \subseteq Copies(buffer)'
    BY <1>4, <1>9
  <2>3. o \in Copies(buffer)'
    BY <1>4, <1>10
  <2>. QED  BY <2>1, <2>2, <2>3
<1>. QED  BY <1>5, <1>6, <1>11 DEF o

LEMMA WithKeysCopies == TypeInv => Copies(WithKeys(buffer)) = Copies(buffer)
<1>. SUFFICES ASSUME TypeInv
              PROVE  Copies(WithKeys(buffer)) = Copies(buffer)
  OBVIOUS
<1>1. /\ Len(WithKeys(buffer)) = Len(buffer)
      /\ \A n \in 1 .. Len(buffer) : /\ WithKeys(buffer)[n].item = buffer[n].item
                                     /\ WithKeys(buffer)[n].id = buffer[n].id
  BY WithKeysFact DEF TypeInv, TypeOK
<1>. QED  BY <1>1 DEF Copies

(* A requeue: the batch comes back whole, in place of what no longer fits. *)
LEMMA RequeueCopies ==
  ASSUME TypeInv, UniqueIds, NEW f \in Callers,
         buffer' = PushLeftAll(Objects(batch[f]), buffer)
  PROVE  LET out == Copies(Overflow(batch[f], buffer))
         IN /\ out \subseteq Copies(buffer)
            /\ Copies(buffer)' = (Copies(buffer) \ out) \cup Copies(batch[f])
<1>. DEFINE b == batch[f]
            e == Overflow(b, buffer)
            s == Objects(b)
<1>1. /\ b \in Seq(Entry) /\ Len(b) <= Capacity /\ Len(b) \in Nat
      /\ buffer \in Seq(Obj) /\ Len(buffer) \in Nat /\ Len(buffer) <= Capacity
  BY DEF TypeInv, TypeOK
<1>2. /\ s \in Seq(Obj) /\ Len(s) = Len(b) /\ Copies(s) = Copies(b)
  BY <1>1, ObjectsFact, CopiesFact
<1>3. /\ e \in Seq(Obj) /\ Len(e) \in Nat
      /\ Len(b) + Len(buffer) > Capacity => Len(e) = Len(b) + Len(buffer) - Capacity
      /\ Len(b) + Len(buffer) <= Capacity => Len(e) = 0
      /\ \A n \in 1 .. Len(e) :
           /\ Capacity - Len(b) + n \in 1 .. Len(buffer)
           /\ e[n] = buffer[Capacity - Len(b) + n]
  <2>1. e \in Seq(Obj) /\ Len(e) \in Nat
    BY <1>1, OverflowFact
  <2>2. /\ Len(b) + Len(buffer) > Capacity =>
             Len(e) = Len(b) + Len(buffer) - Capacity
        /\ Len(b) + Len(buffer) <= Capacity => Len(e) = 0
    BY <1>1, OverflowFact
  <2>3. \A n \in 1 .. Len(Overflow(b, buffer)) :
           /\ Capacity - Len(b) + n \in 1 .. Len(buffer)
           /\ Overflow(b, buffer)[n] = buffer[Capacity - Len(b) + n]
    <3>. HIDE DEF b
    <3>. QED  BY <1>1, OverflowFact
  <2>. QED  BY <2>1, <2>2, <2>3
<1>. HIDE DEF s, e
<1>4. /\ buffer' \in Seq(Obj) /\ Len(buffer') \in Nat
      /\ Len(b) <= Len(buffer') /\ Len(buffer') <= Len(b) + Len(buffer)
      /\ Len(buffer') <= Capacity
      /\ Len(buffer') < Capacity => Len(buffer') = Len(b) + Len(buffer)
  <2>1. buffer' = PushLeftAll(s, buffer)
    BY DEF s
  <2>. QED  BY <1>1, <1>2, <2>1, PushLeftFact
<1>5. \A n \in 1 .. Len(b) : buffer'[n] = s[n]
  <2>1. \A n \in 1 .. Len(s) : PushLeftAll(s, buffer)[n] = s[n]
    BY <1>1, <1>2, PushLeftFact
  <2>. QED  BY <1>2, <2>1 DEF s
<1>6. \A n \in Len(b) + 1 .. Len(buffer') : buffer'[n] = buffer[n - Len(b)]
  <2>1. \A n \in Len(s) + 1 .. Len(PushLeftAll(s, buffer)) :
          PushLeftAll(s, buffer)[n] = buffer[n - Len(s)]
    BY <1>1, <1>2, PushLeftFact
  <2>. QED  BY <1>2, <2>1 DEF s
<1>7. /\ Copies(buffer) = {buffer[n] : n \in 1 .. Len(buffer)}
      /\ Copies(buffer)' = {buffer'[n] : n \in 1 .. Len(buffer')}
      /\ Copies(b) = {s[n] : n \in 1 .. Len(b)}
      /\ Copies(e) = {e[n] : n \in 1 .. Len(e)}
  <2>1. Copies(buffer') = {buffer'[n] : n \in 1 .. Len(buffer')}
    BY <1>4, CopiesFact
  <2>2. Copies(s) = {s[n] : n \in 1 .. Len(s)}
    BY <1>2, CopiesFact
  <2>. QED  BY <1>1, <1>2, <1>3, <2>1, <2>2, CopiesFact
<1>. HIDE DEF b
<1>8. \A m, n \in 1 .. Len(buffer) : m # n => buffer[m] # buffer[n]
  BY DEF UniqueIds
<1>9. Copies(e) \subseteq Copies(buffer)
  BY <1>3, <1>7
<1>10. ASSUME NEW n \in 1 .. Len(buffer')
       PROVE  buffer'[n] \in (Copies(buffer) \ Copies(e)) \cup Copies(b)
  <2>1. CASE n <= Len(b)
    <3>1. n \in 1 .. Len(b)
      BY <1>1, <2>1
    <3>. QED  BY <1>5, <1>7, <3>1
  <2>2. CASE n > Len(b)
    <3>1. n \in Len(b) + 1 .. Len(buffer') /\ n - Len(b) \in 1 .. Len(buffer)
      BY <1>1, <1>4, <2>2
    <3>2. buffer'[n] = buffer[n - Len(b)]
      BY <1>6, <3>1
    <3>3. ASSUME NEW m \in 1 .. Len(e)
          PROVE  e[m] # buffer[n - Len(b)]
      <4>1. /\ Capacity - Len(b) + m \in 1 .. Len(buffer)
            /\ e[m] = buffer[Capacity - Len(b) + m]
        BY <1>3
      <4>2. Capacity - Len(b) + m # n - Len(b)
        BY <1>1, <1>4
      <4>. QED  BY <1>8, <3>1, <4>1, <4>2
    <3>. QED  BY <1>7, <3>1, <3>2, <3>3
  <2>. QED  BY <1>1, <2>1, <2>2
<1>11. ASSUME NEW n \in 1 .. Len(buffer), buffer[n] \notin Copies(e)
       PROVE  buffer[n] \in Copies(buffer)'
  <2>1. Len(b) + n <= Capacity
    <3>. SUFFICES ASSUME Len(b) + n > Capacity
                  PROVE  FALSE
      BY <1>1
    <3>1. Len(b) + n - Capacity \in 1 .. Len(e)
      BY <1>1, <1>3
    <3>2. e[Len(b) + n - Capacity] = buffer[n]
      BY <1>1, <1>3, <3>1
    <3>. QED  BY <1>7, <1>11, <3>1, <3>2
  <2>2. Len(b) + n \in Len(b) + 1 .. Len(buffer')
    BY <1>1, <1>4, <2>1
  <2>3. buffer'[Len(b) + n] = buffer[n]
    BY <1>1, <1>6, <2>2
  <2>4. Len(b) + n \in 1 .. Len(buffer')
    BY <1>1, <2>2
  <2>. QED  BY <1>7, <2>3, <2>4
<1>12. Copies(b) \subseteq Copies(buffer)'
  <2>1. \A n \in 1 .. Len(b) : n \in 1 .. Len(buffer') /\ s[n] = buffer'[n]
    BY <1>1, <1>4, <1>5
  <2>. QED  BY <1>7, <2>1
<1>13. Copies(buffer)' = (Copies(buffer) \ Copies(e)) \cup Copies(b)
  <2>1. Copies(buffer)' \subseteq (Copies(buffer) \ Copies(e)) \cup Copies(b)
    BY <1>7, <1>10
  <2>2. Copies(buffer) \ Copies(e) \subseteq Copies(buffer)'
    BY <1>7, <1>11
  <2>. QED  BY <1>12, <2>1, <2>2
<1>. QED  BY <1>9, <1>13 DEF b, e

(* The batches: an empty one can be filled, and one can be let go of.      *)
LEMMA TakenFact ==
  ASSUME TypeInv, NEW f \in Callers, NEW w, batch' = [batch EXCEPT ![f] = w]
  PROVE  /\ Copies(batch[f]) \subseteq Taken
         /\ Len(batch[f]) = 0 => Taken' = Taken \cup Copies(w)
         /\ w = <<>> /\ UniqueIds => Taken' = Taken \ Copies(batch[f])
<1>1. /\ batch'[f] = w /\ Copies(<<>>) = {}
      /\ \A g \in Callers : g # f => batch'[g] = batch[g]
  BY DEF TypeInv, TypeOK, Copies
<1>2. Taken' = UNION {Copies(batch'[g]) : g \in Callers}
  BY DEF Taken, Copies
<1>3. Taken' = Copies(w) \cup UNION {Copies(batch[g]) : g \in Callers \ {f}}
  <2>1. ASSUME NEW c, c \in Taken'
        PROVE  c \in Copies(w) \cup UNION {Copies(batch[g]) : g \in Callers \ {f}}
    <3>1. PICK g \in Callers : c \in Copies(batch'[g])
      BY <1>2, <2>1
    <3>. QED  BY <1>1, <3>1
  <2>2. ASSUME NEW c,
               c \in Copies(w) \cup UNION {Copies(batch[g]) : g \in Callers \ {f}}
        PROVE  c \in Taken'
    <3>1. CASE c \in Copies(w)
      BY <1>1, <1>2, <3>1
    <3>2. ASSUME NEW g \in Callers \ {f}, c \in Copies(batch[g])
          PROVE  c \in Taken'
      <4>1. batch'[g] = batch[g]
        BY <1>1
      <4>. QED  BY <1>2, <3>2, <4>1
    <3>. QED  BY <2>2, <3>1, <3>2
  <2>. QED  BY <2>1, <2>2
<1>4. Taken = Copies(batch[f]) \cup UNION {Copies(batch[g]) : g \in Callers \ {f}}
  BY DEF Taken
<1>5. Len(batch[f]) = 0 => Copies(batch[f]) = {}
  BY DEF Copies
<1>6. ASSUME UniqueIds
      PROVE  \A g \in Callers \ {f} : Copies(batch[f]) \cap Copies(batch[g]) = {}
  <2>. SUFFICES ASSUME NEW g \in Callers \ {f},
                       NEW m \in 1 .. Len(batch[f]), NEW n \in 1 .. Len(batch[g]),
                       [item |-> batch[f][m].item, id |-> batch[f][m].id]
                         = [item |-> batch[g][n].item, id |-> batch[g][n].id]
                PROVE  FALSE
    BY DEF Copies
  <2>1. batch[f][m].id = batch[g][n].id
    OBVIOUS
  <2>. QED  BY <1>6, <2>1 DEF UniqueIds
<1>. QED  BY <1>1, <1>3, <1>4, <1>5, <1>6
-----------------------------------------------------------------------------
(* The last parts of the invariant: the writer that evicts, the callers    *)
(* that hold nothing, and the start-up load that runs once.                *)

Counted == EvictCounted /\ NothingHeld

LEMMA CountedStep ==
  TypeInv /\ LockOK /\ Counted /\ [Next]_vars => Counted'
<1>. SUFFICES ASSUME TypeInv, LockOK, Counted, [Next]_vars
              PROVE  Counted'
  OBVIOUS
<1>. USE DEF bufVars, writerVars, loadVars, clearVars, callerVars, history
<1>0. /\ wpc \in [Items -> {"new", "waiting", "evicting", "persisting", "in", "out"}]
      /\ fpc \in [Callers -> {"idle", "sending", "requeue", "confirming", "handing"}]
      /\ batch \in [Callers -> Seq(Entry)]
  BY DEF TypeInv, TypeOK
(* A step that changes the buffer begins or ends with no writer evicting.  *)
<1>1. ASSUME \A i \in Items : wpc'[i] # "evicting"
      PROVE  EvictCounted'
  BY <1>1 DEF EvictCounted
<1>2. ASSUME UNCHANGED buffer, settled \subseteq settled',
             \A i \in Items : wpc'[i] = "evicting" => wpc[i] = "evicting"
      PROVE  EvictCounted'
  BY <1>2 DEF Counted, EvictCounted
<1>3. ASSUME UNCHANGED <<fpc, batch>>
      PROVE  NothingHeld'
  BY <1>3 DEF Counted, NothingHeld
<1>4. lock = Free \/ lock = Loader => \A i \in Items : wpc[i] # "evicting"
  BY NoneWriting
<1>5. ASSUME NEW i \in Items, Writer(i)
      PROVE  Counted'
  <2>1. UNCHANGED <<fpc, batch>>
    BY <1>5 DEF Writer, AddAppend, AddReject, AddWait, WaitCancelled, AddEvict,
                EvictDone, EvictCancelled, PersistDone
  <2>. SUFFICES EvictCounted'
    BY <1>3, <2>1 DEF Counted
  <2>2. AppendAndPersist(i) => wpc'[i] # "evicting"
    BY <1>0 DEF AppendAndPersist
  <2>3. AppendAndPersist(i) => \A j \in Items : j # i => wpc'[j] = wpc[j]
    BY <1>0 DEF AppendAndPersist
  <2>4. CASE AddAppend(i)
    BY <1>1, <1>4, <2>2, <2>3, <2>4 DEF AddAppend, Arriving, EvictCounted
  <2>5. CASE AddReject(i) \/ AddWait(i) \/ WaitCancelled(i) \/ EvictCancelled(i)
             \/ PersistDone(i)
    <3>1. UNCHANGED <<buffer, settled>>
      BY <2>5 DEF AddReject, AddWait, WaitCancelled, EvictCancelled, PersistDone
    <3>2. \A j \in Items : wpc'[j] = "evicting" => wpc[j] = "evicting"
      BY <1>0, <2>5
         DEF AddReject, AddWait, WaitCancelled, EvictCancelled, PersistDone
    <3>. QED  BY <1>2, <3>1, <3>2
  <2>6. CASE AddEvict(i)
    <3>1. \A j \in Items : wpc[j] # "evicting"
      BY <1>4, <2>6 DEF AddEvict, Arriving
    <3>2. CASE AppendAndPersist(i)
      BY <1>1, <2>2, <2>3, <3>1, <3>2
    <3>3. CASE UNCHANGED buffer
      <4>1. /\ Head(buffer) = buffer[1] /\ settled' = settled \cup {Head(buffer).item}
        BY <2>6 DEF AddEvict, BufferFull, TypeInv, TypeOK
      <4>. QED  BY <3>3, <4>1 DEF EvictCounted
    <3>. QED  BY <2>6, <3>2, <3>3 DEF AddEvict
  <2>7. CASE EvictDone(i)
    <3>1. \A j \in Items : j # i => wpc[j] # "evicting"
      BY <2>7 DEF EvictDone, LockOK
    <3>. QED  BY <1>1, <2>2, <2>3, <2>7, <3>1 DEF EvictDone
  <2>. QED  BY <1>5, <2>4, <2>5, <2>6, <2>7 DEF Writer
<1>6. CASE Load
  <2>1. UNCHANGED <<fpc, batch, wpc, settled>>
    BY <1>6 DEF Load, InitializeEvents, InitializeMetrics, LoadMetrics,
                LoadDropped, Initializing, LoadScan, LoadOne, LoadSkip, LoadEnd
  <2>2. UNCHANGED buffer \/ lock = Loader
    BY <1>6 DEF Load, InitializeEvents, InitializeMetrics, LoadMetrics,
                LoadDropped, Initializing, LoadScan, LoadOne, LoadSkip, LoadEnd,
                LockOK
  <2>. QED  BY <1>1, <1>2, <1>3, <1>4, <2>1, <2>2 DEF Counted
<1>7. CASE Clear
  <2>1. UNCHANGED <<fpc, batch, wpc, settled>>
    BY <1>7 DEF Clear, ClearMemory, ClearScan, ClearDelete, ClearEnd
  <2>2. UNCHANGED buffer \/ lock = Free
    BY <1>7 DEF Clear, ClearMemory, ClearScan, ClearDelete, ClearEnd
  <2>. QED  BY <1>1, <1>2, <1>3, <1>4, <2>1, <2>2 DEF Counted
<1>8. ASSUME NEW f \in Callers, Caller(f)
      PROVE  Counted'
  <2>1. /\ UNCHANGED wpc /\ settled \subseteq settled'
        /\ UNCHANGED buffer \/ lock = Free
    BY <1>8 DEF Caller, DrainWithKeys, Delivered, Undelivered, Requeue,
       RequeueCancelled, ConfirmOne, ConfirmCancelled, DrainAtOnce, DrainLegacy,
       Draining, SurrenderOne, HandOver, HandOverCancelled
  <2>2. EvictCounted'
    BY <1>1, <1>2, <1>4, <2>1
  <2>3. \A g \in Callers : g # f => fpc'[g] = fpc[g] /\ batch'[g] = batch[g]
    BY <1>0, <1>8 DEF Caller, DrainWithKeys, Delivered, Undelivered, Requeue,
       RequeueCancelled, ConfirmOne, ConfirmCancelled, DrainAtOnce, DrainLegacy,
       Draining, SurrenderOne, HandOver, HandOverCancelled, StartConfirm
  <2>4. fpc'[f] \in {"idle", "confirming"} => Len(batch'[f]) = 0
    BY <1>0, <1>8 DEF Caller, DrainWithKeys, Delivered, Undelivered, Requeue,
       RequeueCancelled, ConfirmOne, ConfirmCancelled, DrainAtOnce, DrainLegacy,
       Draining, SurrenderOne, HandOver, HandOverCancelled, StartConfirm,
       Counted, NothingHeld
  <2>. QED  BY <2>2, <2>3, <2>4 DEF Counted, NothingHeld
<1>9. CASE Crash
  <2>1. \A f \in Callers : Len(batch'[f]) = 0
    BY <1>9 DEF Crash
  <2>2. \A i \in Items : wpc'[i] # "evicting"
    <3>. TAKE i \in Items
    <3>1. wpc'[i] = CASE wpc[i] = "persisting" -> "in"
                      [] wpc[i] \in {"waiting", "evicting"} -> "out"
                      [] OTHER -> wpc[i]
      BY <1>9 DEF Crash
    <3>. QED  BY <3>1
  <2>. QED  BY <1>1, <2>1, <2>2 DEF Counted, NothingHeld
<1>10. ASSUME NEW i \in Items, Expire(i)
       PROVE  Counted'
  BY <1>2, <1>3, <1>10 DEF Expire, Counted
<1>11. CASE UNCHANGED vars
  BY <1>2, <1>3, <1>11 DEF vars, Counted
<1>. QED  BY <1>5, <1>6, <1>7, <1>8, <1>9, <1>10, <1>11 DEF Next
-----------------------------------------------------------------------------
(* What appears in memory, and what leaves it.                             *)

LEMMA LiveFact ==
  /\ UNCHANGED <<buffer, batch>> => Live' = Live
  /\ InMemory = {c.item : c \in Live}
  /\ InMemory' = {c.item : c \in Live'}
<1>1. UNCHANGED <<buffer, batch>> => Live' = Live
  BY DEF Live, Taken, Copies
<1>2. InMemory = {c.item : c \in Live}
  <2>1. /\ ItemsOf(buffer) = {c.item : c \in Copies(buffer)}
        /\ \A f \in Callers : ItemsOf(batch[f]) = {c.item : c \in Copies(batch[f])}
    BY ItemsOfCopies
  <2>2. ASSUME NEW x \in InMemory PROVE \E c \in Live : x = c.item
    BY <2>1, <2>2 DEF InMemory, Live, Taken
  <2>3. ASSUME NEW c \in Live PROVE c.item \in InMemory
    BY <2>1, <2>3 DEF InMemory, Live, Taken
  <2>. QED  BY <2>2, <2>3
<1>3. InMemory' = {c.item : c \in Live'}
  <2>0. /\ InMemory' = ItemsOf(buffer') \cup UNION {ItemsOf(batch'[f]) : f \in Callers}
        /\ Live' = Copies(buffer') \cup UNION {Copies(batch'[f]) : f \in Callers}
    BY DEF InMemory, Live, Taken, ItemsOf, Copies
  <2>1. /\ ItemsOf(buffer') = {c.item : c \in Copies(buffer')}
        /\ \A f \in Callers : ItemsOf(batch'[f]) = {c.item : c \in Copies(batch'[f])}
    BY ItemsOfCopies
  <2>2. ASSUME NEW x \in InMemory' PROVE \E c \in Live' : x = c.item
    BY <2>0, <2>1, <2>2
  <2>3. ASSUME NEW c \in Live' PROVE c.item \in InMemory'
    BY <2>0, <2>1, <2>3
  <2>. QED  BY <2>2, <2>3
<1>. QED  BY <1>1, <1>2, <1>3

LEMMA LiveItems == TypeInv => \A c \in Live : c.item \in Items
<1>. SUFFICES ASSUME TypeInv PROVE \A c \in Live : c.item \in Items
  OBVIOUS
<1>1. buffer \in Seq(Obj) /\ \A f \in Callers : batch[f] \in Seq(Entry)
  BY DEF TypeInv, TypeOK
<1>2. Live \subseteq Obj
  BY <1>1, CopiesFact DEF Live, Taken
<1>. QED  BY <1>2 DEF Obj

LEMMA LiveAppend ==
  ASSUME TypeInv, UniqueIds, NEW i \in Items, NEW d \in FreeIds,
         buffer' = PushRight(buffer, [item |-> i, id |-> d]), UNCHANGED batch
  PROVE  /\ Live' \subseteq Live \cup {[item |-> i, id |-> d]}
         /\ Live \subseteq Live' \cup Gone
         /\ [item |-> i, id |-> d] \in Live'
<1>1. Copies(buffer)' = (Copies(buffer) \ Gone) \cup {[item |-> i, id |-> d]}
  BY AppendCopies
<1>2. Taken' = Taken
  BY DEF Taken, Copies
<1>3. Live' = Copies(buffer)' \cup Taken'
  BY DEF Live
<1>. QED  BY <1>1, <1>2, <1>3 DEF Live

LEMMA LiveCaller ==
  ASSUME TypeInv, UniqueIds, NothingHeld, NEW f \in Callers, Caller(f)
  PROVE  /\ Live' \subseteq Live
         /\ \A c \in Live : \/ c \in Live'
                            \/ c.item \in settled' \cup forgotten'
<1>. USE DEF bufVars, writerVars, loadVars, clearVars, callerVars, history
<1>0. Live' = Copies(buffer)' \cup Taken'
  BY DEF Live
<1>1. CASE DrainWithKeys(f) \/ DrainLegacy(f)
  <2>1. /\ Len(batch[f]) = 0 /\ Copies(buffer)' = {}
        /\ batch' = [batch EXCEPT ![f] = WithKeys(buffer)]
    BY <1>1 DEF DrainWithKeys, DrainLegacy, Draining, NothingHeld, Copies
  <2>2. Taken' = Taken \cup Copies(buffer)
    BY <2>1, TakenFact, WithKeysCopies
  <2>. QED  BY <1>0, <2>1, <2>2 DEF Live
<1>2. CASE Delivered(f) \/ RequeueCancelled(f) \/ HandOver(f)
           \/ HandOverCancelled(f)
  <2>1. Taken' = Taken \ Copies(batch[f])
    BY <1>2, TakenFact
       DEF Delivered, RequeueCancelled, HandOver, HandOverCancelled
  <2>2. Copies(buffer)' = Copies(buffer)
    BY <1>2 DEF Delivered, RequeueCancelled, HandOver, HandOverCancelled, Copies
  <2>3. \A c \in Copies(batch[f]) : c.item \in ItemsOf(batch[f])
    BY ItemsOfCopies
  <2>4. ItemsOf(batch[f]) \subseteq settled' \cup forgotten'
    BY <1>2 DEF Delivered, RequeueCancelled, HandOver, HandOverCancelled
  <2>. QED  BY <1>0, <2>1, <2>2, <2>3, <2>4 DEF Live
<1>3. CASE Undelivered(f) \/ ConfirmCancelled(f)
           \/ \E k \in Items : ConfirmOne(f, k) \/ SurrenderOne(f, k)
  BY <1>3, LiveFact DEF Undelivered, ConfirmOne, ConfirmCancelled, SurrenderOne
<1>4. CASE Requeue(f)
  <2>. DEFINE e == Overflow(batch[f], buffer)
  <2>1. /\ Copies(batch[f]) \subseteq Taken
        /\ Taken' = Taken \ Copies(batch[f])
    BY <1>4, TakenFact DEF Requeue
  <2>2. /\ Copies(e) \subseteq Copies(buffer)
        /\ Copies(buffer)' = (Copies(buffer) \ Copies(e)) \cup Copies(batch[f])
    BY <1>4, RequeueCopies DEF Requeue
  <2>3. settled' = settled \cup ItemsOf(e)
    BY <1>4 DEF Requeue
  <2>. HIDE DEF e
  <2>4. \A c \in Copies(e) : c.item \in ItemsOf(e)
    BY ItemsOfCopies
  <2>. QED  BY <1>0, <2>1, <2>2, <2>3, <2>4 DEF Live
<1>5. CASE DrainAtOnce(f)
  <2>1. Copies(buffer)' = {} /\ Taken' = Taken
    BY <1>5 DEF DrainAtOnce, Draining, Copies, Taken
  <2>2. \A c \in Copies(buffer) : c.item \in settled'
    BY <1>5, ItemsOfCopies DEF DrainAtOnce
  <2>. QED  BY <1>0, <2>1, <2>2 DEF Live
<1>. QED  BY <1>1, <1>2, <1>3, <1>4, <1>5 DEF Caller
-----------------------------------------------------------------------------
(* The start-up load that runs once.                                       *)

LEMMA OnceStep ==
  ASSUME LoadedOnce, TypeInv, LockOK, UniqueIds, NothingHeld, Once,
         [Next]_vars
  PROVE  Once'
<1>. USE DEF bufVars, writerVars, loadVars, clearVars, callerVars, history
<1>0. /\ wpc \in [Items -> {"new", "waiting", "evicting", "persisting", "in", "out"}]
      /\ redis \subseteq Items
  BY DEF TypeInv, TypeOK
<1>11. \A c \in Live : c.item \in Items
  BY LiveItems
(* What is in memory only shrinks, and no record is added.                 *)
<1>1. ASSUME Live' \subseteq Live, redis' \subseteq redis, ltodo' \subseteq ltodo,
             UNCHANGED <<attached, lpc>>,
             \A i \in Items : /\ wpc'[i] = "persisting" => wpc[i] = "persisting"
                              /\ wpc[i] = "persisting" =>
                                   wpc'[i] \in {"persisting", "in"}
                              /\ wpc[i] = "in" => wpc'[i] = "in"
      PROVE  Once'
  BY <1>0, <1>11, <1>1 DEF Once
<1>2. ASSUME UNCHANGED <<buffer, batch>>
      PROVE  Live' = Live
  BY <1>2, LiveFact
<1>3. ASSUME NEW i \in Items, AppendAndPersist(i), wpc[i] \in {"new", "waiting", "evicting"},
             UNCHANGED <<batch, attached, lpc, ltodo>>, redis' \subseteq redis,
             lock = Free \/ lock = i
      PROVE  Once'
  <2>1. PICK d \in FreeIds :
          /\ buffer' = PushRight(buffer, [item |-> i, id |-> d])
          /\ wpc' = [wpc EXCEPT ![i] = IF attached THEN "persisting" ELSE "in"]
    BY <1>3 DEF AppendAndPersist
  <2>. DEFINE o == [item |-> i, id |-> d]
  <2>2. Live' \subseteq Live \cup {o}
    BY <1>3, <2>1, LiveAppend
  <2>3. o.item = i
    OBVIOUS
  <2>. HIDE DEF o
  <2>4. \A c \in Live : c.item # i
    BY <1>3 DEF Once
  <2>5. i \notin redis
    BY <1>3 DEF Once
  <2>6. lpc \notin {"scan", "loading"}
    BY <1>3, DistinctAssumption DEF LockOK
  <2>7. lpc \in {"idle", "pending", "scan", "loading", "done"}
    BY DEF TypeInv, TypeOK
  <2>8. \A c, e \in Live' : c.item = e.item => c = e
    BY <2>2, <2>3, <2>4 DEF Once
  <2>9. \A c \in Live' : wpc'[c.item] \in {"persisting", "in"}
    BY <1>0, <1>11, <2>1, <2>2, <2>3 DEF Once
  <2>10. \A j \in redis' : wpc'[j] = "in"
    BY <1>0, <1>3, <2>1, <2>5 DEF Once
  <2>11. \A j \in Items : wpc'[j] = "persisting" => lpc' = "done"
    BY <1>0, <1>3, <2>1, <2>6, <2>7 DEF Once
  <2>12. /\ lpc' \in {"idle", "scan"} => \A c \in Live' : c.item \notin redis'
         /\ lpc' = "loading" => \A c \in Live' : c.item \notin redis' \cap ltodo'
    BY <1>3, <2>2, <2>3, <2>5, <2>6 DEF Once
  <2>. QED  BY <1>3, <2>8, <2>9, <2>10, <2>11, <2>12 DEF Once
<1>4. ASSUME NEW i \in Items, Writer(i)
      PROVE  Once'
  <2>1. CASE AddAppend(i)
    BY <1>3, <2>1 DEF AddAppend, Arriving
  <2>2. CASE AddReject(i) \/ AddWait(i) \/ WaitCancelled(i)
    <3>1. /\ UNCHANGED <<buffer, batch, redis, ltodo, attached, lpc>>
          /\ wpc[i] \in {"new", "waiting"}
          /\ \E w \in {"out", "waiting"} : wpc' = [wpc EXCEPT ![i] = w]
      BY <2>2 DEF AddReject, AddWait, WaitCancelled, Arriving
    <3>. QED  BY <1>0, <1>1, <1>2, <3>1
  <2>3. CASE AddEvict(i)
    <3>1. CASE AppendAndPersist(i)
      BY <1>3, <2>3, <3>1 DEF AddEvict, Arriving
    <3>2. CASE UNCHANGED buffer /\ wpc' = [wpc EXCEPT ![i] = "evicting"]
      BY <1>0, <1>1, <1>2, <2>3, <3>2 DEF AddEvict, Arriving
    <3>. QED  BY <2>3, <3>1, <3>2 DEF AddEvict
  <2>4. CASE EvictDone(i)
    <3>1. redis' \subseteq redis /\ lock = i
      BY <2>4 DEF EvictDone, DeleteRecord, LockOK
    <3>. QED  BY <1>3, <2>4, <3>1 DEF EvictDone
  <2>5. CASE EvictCancelled(i)
    <3>1. redis' \subseteq redis
      BY <2>5 DEF EvictCancelled, DeleteRecord
    <3>. QED  BY <1>0, <1>1, <1>2, <2>5, <3>1 DEF EvictCancelled
  <2>6. CASE PersistDone(i)
    <3>1. /\ Live' = Live /\ redis' \subseteq redis \cup {i}
          /\ UNCHANGED <<attached, lpc, ltodo>> /\ lpc = "done"
      BY <1>2, <2>6 DEF PersistDone, Once
    <3>2. /\ wpc' = [wpc EXCEPT ![i] = "in"]
          /\ wpc[i] = "persisting"
      BY <2>6 DEF PersistDone
    <3>. QED  BY <1>0, <1>11, <3>1, <3>2 DEF Once
  <2>. QED  BY <1>4, <2>1, <2>2, <2>3, <2>4, <2>5, <2>6 DEF Writer
<1>5. CASE Load
  <2>0. CASE InitializeMetrics \/ LoadMetrics \/ LoadDropped
    BY <2>0 DEF InitializeMetrics, LoadMetrics, LoadDropped, LoadedOnce, Once
  <2>1. CASE InitializeEvents
    <3>1. lpc = "idle" /\ \A i \in Items : wpc[i] # "persisting"
      BY <2>1, NoneWriting DEF InitializeEvents, Initializing, LoadedOnce
    <3>. QED  BY <1>2, <2>1, <3>1 DEF InitializeEvents, Initializing, Once
  <2>2. CASE LoadScan
    BY <1>2, <2>2 DEF LoadScan, Once
  <2>3. CASE LoadEnd
    BY <1>2, <2>3 DEF LoadEnd, Once
  <2>4. ASSUME NEW k \in Items, LoadSkip(k)
        PROVE  Once'
    BY <1>1, <1>2, <2>4 DEF LoadSkip
  <2>5. ASSUME NEW k \in Items, LoadOne(k)
        PROVE  Once'
    <3>1. PICK d \in FreeIds : buffer' = PushRight(buffer, [item |-> k, id |-> d])
      BY <2>5 DEF LoadOne
    <3>. DEFINE o == [item |-> k, id |-> d]
    <3>2. Live' \subseteq Live \cup {o}
      BY <2>5, <3>1, LiveAppend DEF LoadOne
    <3>3. o.item = k
      OBVIOUS
    <3>. HIDE DEF o
    <3>4. /\ k \in redis /\ k \in ltodo /\ ltodo' = ltodo \ {k} /\ lpc = "loading"
          /\ UNCHANGED <<redis, lpc, attached, wpc>>
      BY <2>5 DEF LoadOne
    <3>5. \A c \in Live : c.item # k
      BY <3>4 DEF Once
    <3>6. \A c, e \in Live' : c.item = e.item => c = e
      BY <3>2, <3>3, <3>5 DEF Once
    <3>7. \A c \in Live' : wpc'[c.item] \in {"persisting", "in"}
      BY <3>2, <3>3, <3>4 DEF Once
    <3>8. \A c \in Live' : c.item \notin redis' \cap ltodo'
      BY <3>2, <3>3, <3>4 DEF Once
    <3>. QED  BY <3>4, <3>6, <3>7, <3>8 DEF Once
  <2>. QED  BY <1>5, <2>0, <2>1, <2>2, <2>3, <2>4, <2>5 DEF Load
<1>6. CASE Clear
  <2>1. CASE ClearMemory
    <3>1. Live' \subseteq Live
      BY <2>1 DEF ClearMemory, Live, Taken, Copies
    <3>. QED  BY <1>1, <2>1, <3>1 DEF ClearMemory
  <2>2. CASE ClearScan \/ ClearEnd \/ \E k \in Items : ClearDelete(k)
    BY <1>1, <1>2, <2>2 DEF ClearScan, ClearEnd, ClearDelete
  <2>. QED  BY <1>6, <2>1, <2>2 DEF Clear
<1>7. ASSUME NEW f \in Callers, Caller(f)
      PROVE  Once'
  <2>1. Live' \subseteq Live
    BY <1>7, LiveCaller
  <2>2. UNCHANGED <<attached, lpc, ltodo, wpc>> /\ redis' \subseteq redis
    BY <1>7 DEF Caller, DrainWithKeys, Delivered, Undelivered, Requeue,
       RequeueCancelled, ConfirmOne, ConfirmCancelled, DrainAtOnce, DrainLegacy,
       Draining, SurrenderOne, HandOver, HandOverCancelled, DeleteRecord
  <2>. QED  BY <1>1, <2>1, <2>2
<1>8. CASE Crash
  <2>1. Live' = {}
    BY <1>8 DEF Crash, Live, Taken, Copies
  <2>2. \A i \in Items :
          wpc'[i] = CASE wpc[i] = "persisting" -> "in"
                      [] wpc[i] \in {"waiting", "evicting"} -> "out"
                      [] OTHER -> wpc[i]
    BY <1>8 DEF Crash
  <2>3. \A i \in Items : /\ wpc'[i] # "persisting"
                         /\ wpc[i] = "in" => wpc'[i] = "in"
    <3>. TAKE i \in Items
    <3>. QED  BY <2>2
  <2>4. attached' = (lpc' # "idle") /\ lpc' # "pending" /\ UNCHANGED redis
    BY <1>8 DEF Crash
  <2>. QED  BY <1>0, <2>1, <2>3, <2>4 DEF Once
<1>9. ASSUME NEW i \in Items, Expire(i)
      PROVE  Once'
  BY <1>1, <1>2, <1>9 DEF Expire
<1>10. CASE UNCHANGED vars
  BY <1>1, <1>2, <1>10 DEF vars
<1>. QED  BY <1>4, <1>5, <1>6, <1>7, <1>8, <1>9, <1>10 DEF Next

(* Records and what was loaded from them, however often that happens.      *)

Twins == TwinsRecorded /\ RecordsOver

LEMMA TwinsStep ==
  ASSUME TypeInv, UniqueIds, NothingHeld, Twins, [Next]_vars
  PROVE  Twins'
<1>. USE DEF bufVars, writerVars, loadVars, clearVars, callerVars, history
<1>0. /\ wpc \in [Items -> {"new", "waiting", "evicting", "persisting", "in", "out"}]
      /\ redis \subseteq Items /\ recorded \subseteq Items
  BY DEF TypeInv, TypeOK
<1>11. \A c \in Live : c.item \in Items
  BY LiveItems
(* What is in memory only shrinks, and no record is added.                 *)
<1>1. ASSUME Live' \subseteq Live, redis' \subseteq redis, UNCHANGED recorded,
             \A i \in Items : /\ wpc[i] = "persisting" =>
                                   wpc'[i] \in {"persisting", "in"}
                              /\ wpc[i] = "in" => wpc'[i] = "in"
      PROVE  Twins'
  BY <1>0, <1>11, <1>1 DEF Twins, TwinsRecorded, RecordsOver
<1>2. ASSUME UNCHANGED <<buffer, batch>>
      PROVE  Live' = Live
  BY <1>2, LiveFact
(* A new object of an item that no object carries yet.                     *)
<1>3. ASSUME NEW i \in Items, AppendAndPersist(i), wpc[i] \in {"new", "waiting", "evicting"},
             UNCHANGED <<batch, recorded>>, redis' \subseteq redis
      PROVE  Twins'
  <2>1. PICK d \in FreeIds :
          /\ buffer' = PushRight(buffer, [item |-> i, id |-> d])
          /\ wpc' = [wpc EXCEPT ![i] = IF attached THEN "persisting" ELSE "in"]
    BY <1>3 DEF AppendAndPersist
  <2>. DEFINE o == [item |-> i, id |-> d]
  <2>2. Live' \subseteq Live \cup {o}
    BY <1>3, <2>1, LiveAppend
  <2>3. o.item = i
    OBVIOUS
  <2>. HIDE DEF o
  <2>4. (\A c \in Live : c.item # i) /\ i \notin recorded
    BY <1>3 DEF Twins, RecordsOver
  <2>5. TwinsRecorded'
    BY <1>3, <2>2, <2>3, <2>4 DEF Twins, TwinsRecorded
  <2>6. RecordsOver'
    BY <1>0, <1>3, <1>11, <2>1, <2>2, <2>3, <2>4 DEF Twins, RecordsOver
  <2>. QED  BY <2>5, <2>6 DEF Twins
<1>4. ASSUME NEW i \in Items, Writer(i)
      PROVE  Twins'
  <2>1. CASE AddAppend(i)
    BY <1>3, <2>1 DEF AddAppend, Arriving
  <2>2. CASE AddReject(i) \/ AddWait(i) \/ WaitCancelled(i)
    <3>1. /\ UNCHANGED <<buffer, batch, redis, recorded>>
          /\ wpc[i] \in {"new", "waiting"}
          /\ \E w \in {"out", "waiting"} : wpc' = [wpc EXCEPT ![i] = w]
      BY <2>2 DEF AddReject, AddWait, WaitCancelled, Arriving
    <3>. QED  BY <1>0, <1>1, <1>2, <3>1
  <2>3. CASE AddEvict(i)
    <3>1. CASE AppendAndPersist(i)
      BY <1>3, <2>3, <3>1 DEF AddEvict, Arriving
    <3>2. CASE UNCHANGED buffer /\ wpc' = [wpc EXCEPT ![i] = "evicting"]
      BY <1>0, <1>1, <1>2, <2>3, <3>2 DEF AddEvict, Arriving
    <3>. QED  BY <2>3, <3>1, <3>2 DEF AddEvict
  <2>4. CASE EvictDone(i)
    <3>1. redis' \subseteq redis
      BY <2>4 DEF EvictDone, DeleteRecord
    <3>. QED  BY <1>3, <2>4, <3>1 DEF EvictDone
  <2>5. CASE EvictCancelled(i)
    <3>1. redis' \subseteq redis
      BY <2>5 DEF EvictCancelled, DeleteRecord
    <3>. QED  BY <1>0, <1>1, <1>2, <2>5, <3>1 DEF EvictCancelled
  <2>6. CASE PersistDone(i)
    <3>1. PICK stored \in BOOLEAN :
            /\ redis' = IF stored THEN redis \cup {i} ELSE redis
            /\ recorded' = IF stored THEN recorded \cup {i} ELSE recorded
      BY <2>6 DEF PersistDone
    <3>2. Live' = Live /\ wpc' = [wpc EXCEPT ![i] = "in"]
      BY <1>2, <2>6 DEF PersistDone
    <3>3. TwinsRecorded'
      BY <3>1, <3>2 DEF Twins, TwinsRecorded
    <3>4. RecordsOver'
      BY <1>0, <1>11, <3>1, <3>2 DEF Twins, RecordsOver
    <3>. QED  BY <3>3, <3>4 DEF Twins
  <2>. QED  BY <1>4, <2>1, <2>2, <2>3, <2>4, <2>5, <2>6 DEF Writer
<1>5. CASE Load
  <2>1. CASE \/ InitializeEvents \/ InitializeMetrics \/ LoadMetrics
             \/ LoadDropped \/ LoadScan \/ LoadEnd
             \/ \E k \in Items : LoadSkip(k)
    BY <1>1, <1>2, <2>1 DEF InitializeEvents, InitializeMetrics, LoadMetrics,
       LoadDropped, Initializing, LoadScan, LoadEnd, LoadSkip
  <2>2. ASSUME NEW k \in Items, LoadOne(k)
        PROVE  Twins'
    <3>1. PICK d \in FreeIds : buffer' = PushRight(buffer, [item |-> k, id |-> d])
      BY <2>2 DEF LoadOne
    <3>. DEFINE o == [item |-> k, id |-> d]
    <3>2. Live' \subseteq Live \cup {o}
      BY <2>2, <3>1, LiveAppend DEF LoadOne
    <3>3. o.item = k
      OBVIOUS
    <3>. HIDE DEF o
    <3>4. k \in recorded /\ UNCHANGED <<redis, recorded, wpc>>
      BY <2>2 DEF LoadOne, Twins, RecordsOver
    <3>. QED  BY <3>2, <3>3, <3>4 DEF Twins, TwinsRecorded, RecordsOver
  <2>. QED  BY <1>5, <2>1, <2>2 DEF Load
<1>6. CASE Clear
  <2>1. CASE ClearMemory
    <3>1. Live' \subseteq Live
      BY <2>1 DEF ClearMemory, Live, Taken, Copies
    <3>. QED  BY <1>1, <2>1, <3>1 DEF ClearMemory
  <2>2. CASE ClearScan \/ ClearEnd \/ \E k \in Items : ClearDelete(k)
    BY <1>1, <1>2, <2>2 DEF ClearScan, ClearEnd, ClearDelete
  <2>. QED  BY <1>6, <2>1, <2>2 DEF Clear
<1>7. ASSUME NEW f \in Callers, Caller(f)
      PROVE  Twins'
  <2>1. Live' \subseteq Live
    BY <1>7, LiveCaller
  <2>2. UNCHANGED <<recorded, wpc>> /\ redis' \subseteq redis
    BY <1>7 DEF Caller, DrainWithKeys, Delivered, Undelivered, Requeue,
       RequeueCancelled, ConfirmOne, ConfirmCancelled, DrainAtOnce, DrainLegacy,
       Draining, SurrenderOne, HandOver, HandOverCancelled, DeleteRecord
  <2>. QED  BY <1>1, <2>1, <2>2
<1>8. CASE Crash
  <2>1. Live' = {}
    BY <1>8 DEF Crash, Live, Taken, Copies
  <2>2. \A i \in Items :
          wpc'[i] = CASE wpc[i] = "persisting" -> "in"
                      [] wpc[i] \in {"waiting", "evicting"} -> "out"
                      [] OTHER -> wpc[i]
    BY <1>8 DEF Crash
  <2>3. \A i \in Items : wpc[i] = "in" => wpc'[i] = "in"
    <3>. TAKE i \in Items
    <3>. QED  BY <2>2
  <2>4. UNCHANGED <<redis, recorded>>
    BY <1>8 DEF Crash
  <2>. QED  BY <1>0, <2>1, <2>3, <2>4 DEF Twins, TwinsRecorded, RecordsOver
<1>9. ASSUME NEW i \in Items, Expire(i)
      PROVE  Twins'
  BY <1>1, <1>2, <1>9 DEF Expire
<1>10. CASE UNCHANGED vars
  BY <1>1, <1>2, <1>10 DEF vars
<1>. QED  BY <1>4, <1>5, <1>6, <1>7, <1>8, <1>9, <1>10 DEF Next

LEMMA TwinsInit == Init => Twins
<1>. SUFFICES ASSUME Init PROVE Twins
  OBVIOUS
<1>1. Live = {}
  BY DEF Init, Live, Taken, Copies
<1>. QED  BY <1>1 DEF Init, Twins, TwinsRecorded, RecordsOver

LEMMA OnceInit == Init => Once
<1>. SUFFICES ASSUME Init PROVE Once
  OBVIOUS
<1>1. Live = {}
  BY DEF Init, Live, Taken, Copies
<1>. QED  BY <1>1 DEF Init, Once
-----------------------------------------------------------------------------
(* The inductive invariant, of either lane: lock, identities, keys,        *)
(* batches, pending deletes and records of EventBuffer fit together, and,  *)
(* for events whose records are loaded once, no item has two objects.      *)
THEOREM Invariance == Spec => []IInv
<1>. DEFINE Core == TypeInv /\ Placed /\ Guarded /\ Counted /\ Twins
<1>1. Init => Core
  <2>1. Init => Counted
    BY DEF Init, Counted, EvictCounted, NothingHeld
  <2>. QED  BY <2>1, TypeInit, SafeInit, TwinsInit
<1>2. Core /\ [Next]_vars => Core'
  BY TypeStep, SafeStep, CountedStep, TwinsStep DEF Placed, Guarded, Counted
<1>3. Core => TypeInv /\ LockOK /\ UniqueIds /\ NothingHeld
  BY DEF Placed, Guarded, Counted
<1>4. Spec => []Core
  <2>. HIDE DEF Core
  <2>. QED  BY <1>1, <1>2, PTL DEF Spec
<1>5. Spec => [](LoadedOnce => Once)
  <2>1. Init => (LoadedOnce => Once)
    BY OnceInit
  <2>2. /\ TypeInv /\ LockOK /\ UniqueIds /\ NothingHeld
        /\ LoadedOnce => Once
        /\ [Next]_vars
        => (LoadedOnce => Once)'
    BY OnceStep DEF LoadedOnce
  <2>. HIDE DEF Core
  <2>. QED  BY <1>3, <1>4, <2>1, <2>2, PTL DEF Spec
<1>6. Core /\ (LoadedOnce => Once) => IInv
  BY DEF Placed, Guarded, Counted, Twins, IInv
<1>. HIDE DEF Core
<1>. QED  BY <1>4, <1>5, <1>6, PTL

(* No object ever carries a stale or foreign Redis key, although ids are   *)
(* reused: what the lock and the eager forgetting of keys are for.         *)
THEOREM KeyMapCorrect == Spec => []KeyMapExact
<1>1. IInv => KeyMapExact
  BY DEF IInv
<1>. QED  BY <1>1, Invariance, PTL

(* A record once written stays until its item is delivered, counted as     *)
(* dropped, cleared or expired, or flush_events deletes it while it holds  *)
(* the item (_buffer_queue.py:88-90), whatever is cancelled or crashes.    *)
THEOREM Durability == Spec => []Durable
<1>1. IInv => Durable
  BY DEF IInv
<1>. QED  BY <1>1, Invariance, PTL
-----------------------------------------------------------------------------
(* Where an item is, or what became of it.                                 *)
Where == InMemory \cup redis \cup settled \cup erased \cup forgotten

(* No step makes an item disappear from all of these at once.              *)
LEMMA NothingVanishes == IInv /\ [Next]_vars => Where \subseteq Where'
<1>. SUFFICES ASSUME IInv, [Next]_vars
              PROVE  Where \subseteq Where'
  OBVIOUS
<1>. USE DEF bufVars, writerVars, loadVars, clearVars, callerVars, history
<1>0. TypeInv /\ UniqueIds /\ NothingHeld
  BY DEF IInv
<1>. DEFINE Gains == settled \cup erased \cup forgotten
<1>1. ASSUME \A c \in Live : c \in Live' \/ c.item \in Gains',
             redis \ redis' \subseteq Gains', Gains \subseteq Gains'
      PROVE  Where \subseteq Where'
  <2>1. InMemory' = {c.item : c \in Live'}
    BY LiveFact
  <2>2. InMemory \subseteq InMemory' \cup Gains'
    BY <1>1, <2>1, LiveFact
  <2>3. redis \subseteq redis' \cup Gains'
    BY <1>1
  <2>4. Where = InMemory \cup redis \cup Gains
    BY DEF Where
  <2>5. Where' = InMemory' \cup redis' \cup Gains'
    BY DEF Where
  <2>. HIDE DEF Gains
  <2>. QED  BY <1>1, <2>2, <2>3, <2>4, <2>5
<1>2. ASSUME UNCHANGED <<buffer, batch>>,
             redis \ redis' \subseteq Gains', Gains \subseteq Gains'
      PROVE  Where \subseteq Where'
  BY <1>1, <1>2, LiveFact
<1>3. ASSUME NEW i \in Items, AppendAndPersist(i), UNCHANGED batch,
             BufferFull => buffer[1].item \in Gains',
             redis \ redis' \subseteq Gains', Gains \subseteq Gains'
      PROVE  Where \subseteq Where'
  <2>1. Live \subseteq Live' \cup Gone
    BY <1>0, <1>3, LiveAppend DEF AppendAndPersist
  <2>2. BufferFull => Head(buffer) = buffer[1]
    BY <1>0 DEF TypeInv, TypeOK, BufferFull
  <2>3. \A c \in Gone : c.item \in Gains'
    BY <1>3, <2>2 DEF Gone
  <2>. QED  BY <1>1, <1>3, <2>1, <2>3
<1>4. ASSUME NEW i \in Items, Writer(i)
      PROVE  Where \subseteq Where'
  <2>1. CASE AddAppend(i)
    BY <1>3, <2>1 DEF AddAppend
  <2>2. CASE AddReject(i) \/ AddWait(i) \/ WaitCancelled(i) \/ PersistDone(i)
    BY <1>2, <2>2 DEF AddReject, AddWait, WaitCancelled, PersistDone
  <2>3. CASE AddEvict(i)
    <3>1. BufferFull => Head(buffer) = buffer[1]
      BY <1>0 DEF TypeInv, TypeOK, BufferFull
    <3>2. BufferFull => buffer[1].item \in Gains'
      BY <2>3, <3>1 DEF AddEvict
    <3>3. CASE AppendAndPersist(i)
      BY <1>3, <2>3, <3>2, <3>3 DEF AddEvict
    <3>4. CASE UNCHANGED buffer
      BY <1>2, <2>3, <3>4 DEF AddEvict
    <3>. QED  BY <2>3, <3>3, <3>4 DEF AddEvict
  <2>4. CASE EvictDone(i)
    <3>1. buffer[1].item \in Gains' /\ wkey[i] \in Gains'
      BY <2>4 DEF EvictDone, IInv, EvictCounted, PendingDeletes
    <3>2. redis \ redis' \subseteq Gains'
      BY <2>4, <3>1 DEF EvictDone, DeleteRecord
    <3>. QED  BY <1>3, <2>4, <3>1, <3>2 DEF EvictDone
  <2>5. CASE EvictCancelled(i)
    <3>1. wkey[i] \in Gains'
      BY <2>5 DEF EvictCancelled, IInv, PendingDeletes
    <3>. QED  BY <1>2, <2>5, <3>1 DEF EvictCancelled, DeleteRecord
  <2>. QED  BY <1>4, <2>1, <2>2, <2>3, <2>4, <2>5 DEF Writer
<1>5. CASE Load
  <2>1. CASE \/ InitializeEvents \/ InitializeMetrics \/ LoadMetrics
             \/ LoadDropped \/ LoadScan \/ LoadEnd
             \/ \E k \in Items : LoadSkip(k)
    BY <1>2, <2>1 DEF InitializeEvents, InitializeMetrics, LoadMetrics,
       LoadDropped, Initializing, LoadScan, LoadEnd, LoadSkip
  <2>2. ASSUME NEW k \in Items, LoadOne(k)
        PROVE  Where \subseteq Where'
    <3>1. Live \subseteq Live' \cup Gone
      BY <1>0, <2>2, LiveAppend DEF LoadOne
    <3>2. \A c \in Gone : c.item \in Gains'
      BY <2>2 DEF LoadOne, Gone
    <3>. QED  BY <1>1, <2>2, <3>1, <3>2 DEF LoadOne
  <2>. QED  BY <1>5, <2>1, <2>2 DEF Load
<1>6. CASE Clear
  <2>1. CASE ClearMemory
    <3>1. Taken' = Taken
      BY <2>1 DEF ClearMemory, Taken, Copies
    <3>2. \A c \in Copies(buffer) : c.item \in Gains'
      BY <2>1, ItemsOfCopies DEF ClearMemory
    <3>. QED  BY <1>1, <2>1, <3>1, <3>2 DEF ClearMemory, Live
  <2>2. CASE ClearScan \/ ClearEnd \/ \E k \in Items : ClearDelete(k)
    BY <1>2, <2>2 DEF ClearScan, ClearEnd, ClearDelete
  <2>. QED  BY <1>6, <2>1, <2>2 DEF Clear
<1>7. ASSUME NEW f \in Callers, Caller(f)
      PROVE  Where \subseteq Where'
  <2>1. \A c \in Live : c \in Live' \/ c.item \in Gains'
    BY <1>0, <1>7, LiveCaller
  <2>2. Gains \subseteq Gains'
    BY <1>7 DEF Caller, DrainWithKeys, Delivered, Undelivered, Requeue,
       RequeueCancelled, ConfirmOne, ConfirmCancelled, DrainAtOnce, DrainLegacy,
       Draining, SurrenderOne, HandOver, HandOverCancelled
  <2>3. redis \ redis' \subseteq Gains'
    <3>1. ASSUME NEW k \in Items, SurrenderOne(f, k)
          PROVE  redis \ redis' \subseteq Gains'
      <4>1. k \in ItemsOf(batch[f])
        BY <3>1 DEF SurrenderOne, IInv, PendingDeletes
      <4>. QED  BY <3>1, <4>1 DEF SurrenderOne, DeleteRecord
    <3>2. ASSUME NEW k \in Items, ConfirmOne(f, k)
          PROVE  redis \ redis' \subseteq Gains'
      <4>1. k \in settled
        BY <3>2 DEF ConfirmOne, IInv, PendingDeletes
      <4>. QED  BY <3>2, <4>1 DEF ConfirmOne, DeleteRecord
    <3>. QED
      BY <1>7, <3>1, <3>2
         DEF Caller, DrainWithKeys, Delivered, Undelivered, Requeue,
             RequeueCancelled, ConfirmCancelled, DrainAtOnce, DrainLegacy,
             Draining, HandOver, HandOverCancelled
  <2>. QED  BY <1>1, <2>1, <2>2, <2>3
<1>8. CASE Crash
  BY <1>1, <1>8, LiveFact DEF Crash
<1>9. ASSUME NEW i \in Items, Expire(i)
      PROVE  Where \subseteq Where'
  BY <1>2, <1>9 DEF Expire
<1>10. CASE UNCHANGED vars
  BY <1>2, <1>10 DEF vars
<1>. QED  BY <1>4, <1>5, <1>6, <1>7, <1>8, <1>9, <1>10 DEF Next

LEMMA AccountedStep == IInv /\ Accounted /\ [Next]_vars => Accounted'
<1>. SUFFICES ASSUME IInv, Accounted, [Next]_vars,
                     NEW j \in Items, wpc'[j] \in {"persisting", "in"}
              PROVE  j \in Where'
  BY DEF Accounted, Where
<1>. USE DEF bufVars, writerVars, loadVars, clearVars, callerVars, history
<1>1. wpc \in [Items -> {"new", "waiting", "evicting", "persisting", "in", "out"}]
  BY DEF IInv, TypeInv, TypeOK
<1>2. CASE wpc[j] \in {"persisting", "in"}
  <2>1. j \in Where
    BY <1>2 DEF Accounted, Where
  <2>. QED  BY <2>1, NothingVanishes
<1>3. CASE wpc[j] \notin {"persisting", "in"}
  (* Only its own writer takes it in.                                      *)
  <2>1. CASE AppendAndPersist(j) /\ UNCHANGED batch
    <3>1. PICK d \in FreeIds : buffer' = PushRight(buffer, [item |-> j, id |-> d])
      BY <2>1 DEF AppendAndPersist
    <3>2. [item |-> j, id |-> d] \in Live'
      BY <2>1, <3>1, LiveAppend DEF IInv
    <3>3. InMemory' = {c.item : c \in Live'}
      BY LiveFact
    <3>4. [item |-> j, id |-> d].item = j
      OBVIOUS
    <3>5. j \in InMemory'
      BY <3>2, <3>3, <3>4
    <3>. QED  BY <3>5 DEF Where
  <2>2. ASSUME NEW i \in Items, Writer(i), i # j
        PROVE  wpc'[j] = wpc[j]
    BY <1>1, <2>2 DEF Writer, AddAppend, AddReject, AddWait, WaitCancelled,
       AddEvict, EvictDone, EvictCancelled, PersistDone, AppendAndPersist
  <2>3. CASE Writer(j)
    BY <1>1, <1>3, <2>1, <2>3 DEF Writer, AddAppend, AddReject, AddWait,
       WaitCancelled, AddEvict, EvictDone, EvictCancelled, PersistDone
  <2>4. CASE Crash
    <3>1. wpc'[j] = CASE wpc[j] = "persisting" -> "in"
                      [] wpc[j] \in {"waiting", "evicting"} -> "out"
                      [] OTHER -> wpc[j]
      BY <2>4 DEF Crash
    <3>2. wpc'[j] \notin {"persisting", "in"}
      BY <1>3, <3>1
    <3>. QED  BY <3>2
  <2>5. ASSUME \/ Load \/ Clear \/ UNCHANGED vars
               \/ \E f \in Callers : Caller(f)
               \/ \E i \in Items : Expire(i)
        PROVE  UNCHANGED wpc
    BY <2>5 DEF Load, InitializeEvents, InitializeMetrics, LoadMetrics,
       LoadDropped, Initializing, LoadScan, LoadOne, LoadSkip, LoadEnd, Clear,
       ClearMemory, ClearScan, ClearDelete, ClearEnd, Caller, DrainWithKeys,
       Delivered, Undelivered, Requeue, RequeueCancelled, ConfirmOne,
       ConfirmCancelled, DrainAtOnce, DrainLegacy, Draining, SurrenderOne,
       HandOver, HandOverCancelled, Expire, vars
  <2>. QED  BY <1>3, <2>2, <2>3, <2>4, <2>5 DEF Next
<1>. QED  BY <1>2, <1>3

(* Nothing that add_event accepted disappears unaccounted: it is in the    *)
(* buffer, in a caller's batch or in Redis, or it was delivered, counted as *)
(* dropped, cleared, expired, or lost in a way the code admits.            *)
THEOREM NothingUnaccounted == Spec => []Accounted
<1>1. Init => Accounted
  BY DEF Init, Accounted
<1>2. IInv /\ Accounted /\ [Next]_vars => Accounted'
  BY AccountedStep
<1>. QED  BY <1>1, <1>2, Invariance, PTL DEF Spec

(* Attached to Redis any number of times, the agent holds an item twice    *)
(* only if a record of it was written (initialize_redis,                   *)
(* _load_from_redis).                                                      *)
THEOREM TwinsCameFromRecords == Spec => []TwinsRecorded
<1>1. IInv => TwinsRecorded
  BY DEF IInv
<1>. QED  BY <1>1, Invariance, PTL

(* Two places hold one object only if they are the same place.             *)
LEMMA OnceNoTwin == UniqueIds /\ Once => NoTwin
<1>. SUFFICES ASSUME UniqueIds, Once PROVE NoTwin
  OBVIOUS
<1>. DEFINE InBuffer == {<<"buffer", n, buffer[n]>> : n \in 1 .. Len(buffer)}
            InBatch(f) == {<<f, n, batch[f][n]>> : n \in 1 .. Len(batch[f])}
            Places == InBuffer \cup UNION {InBatch(f) : f \in Callers}
<1>1. \A s, n : /\ [item |-> s[n].item, id |-> s[n].id].item = s[n].item
                /\ [item |-> s[n].item, id |-> s[n].id].id = s[n].id
  OBVIOUS
<1>2. \A x \in Places : \E c \in Live : c.item = x[3].item /\ c.id = x[3].id
  <2>1. ASSUME NEW n \in 1 .. Len(buffer)
        PROVE  \E c \in Live : c.item = buffer[n].item /\ c.id = buffer[n].id
    BY <1>1 DEF Live, Copies
  <2>2. ASSUME NEW f \in Callers, NEW n \in 1 .. Len(batch[f])
        PROVE  \E c \in Live : c.item = batch[f][n].item /\ c.id = batch[f][n].id
    <3>1. [item |-> batch[f][n].item, id |-> batch[f][n].id] \in Live
      BY DEF Live, Taken, Copies
    <3>. QED  BY <1>1, <3>1
  <2>. QED  BY <2>1, <2>2
<1>3. \A x, y \in Places : x[3].item = y[3].item => x[3].id = y[3].id
  BY <1>2 DEF Once
<1>4. \A x, y \in Places : x[3].id = y[3].id => x = y
  <2>. SUFFICES ASSUME NEW x \in Places, NEW y \in Places, x[3].id = y[3].id
                PROVE  x = y
    OBVIOUS
  <2>1. CASE x \in InBuffer /\ y \in InBuffer
    BY <2>1 DEF UniqueIds
  <2>2. ASSUME NEW f \in Callers, x \in InBatch(f), y \in InBuffer
        PROVE  FALSE
    BY <2>2 DEF UniqueIds
  <2>3. ASSUME NEW f \in Callers, y \in InBatch(f), x \in InBuffer
        PROVE  FALSE
    BY <2>3 DEF UniqueIds
  <2>4. ASSUME NEW f \in Callers, NEW g \in Callers, x \in InBatch(f),
               y \in InBatch(g)
        PROVE  x = y
    <3>1. f = g
      BY <2>4 DEF UniqueIds
    <3>. QED  BY <2>4, <3>1 DEF UniqueIds
  <2>. QED  BY <2>1, <2>2, <2>3, <2>4
<1>. QED  BY <1>3, <1>4 DEF NoTwin

(* In the lane of the events, an agent that attaches Redis once never      *)
(* holds an item twice, in the buffer or in flight, and never two live     *)
(* objects with one id() (initialize_redis, _load_from_redis).             *)
THEOREM NoTwinHeld ==
  ASSUME Lane = "events", Reinit = FALSE
  PROVE  Spec => []NoTwin
<1>1. IInv => NoTwin
  BY OnceNoTwin DEF IInv, LoadedOnce
<1>. QED  BY <1>1, Invariance, PTL
-----------------------------------------------------------------------------
(* Order of delivery, for one caller.  A line of items is followed by what *)
(* is left of it, in the same order, and then new ones.                    *)

Distinct(s) == \A m, n \in 1 .. Len(s) : s[m].item = s[n].item => m = n

(* The first q elements of t stand in s where h says, in the same order,   *)
(* and the items of the others do not stand in s.                          *)
Keeps(s, t, q, h) ==
  /\ \A m, n \in 1 .. q : m < n => h[m] < h[n]
  /\ \A n \in 1 .. q : t[n].item = s[h[n]].item
  /\ \A n \in q + 1 .. Len(t) : t[n].item \notin ItemsOf(s)

Follows(s, t) ==
  \E q \in 0 .. Len(t) : \E h \in [1 .. q -> 1 .. Len(s)] : Keeps(s, t, q, h)

LEMMA FollowsKeepsOrder ==
  ASSUME NEW s, NEW t, Len(s) \in Nat, Len(t) \in Nat, Distinct(s), Follows(s, t),
         NEW a, NEW b
  PROVE  /\ Before(s, a, b) => ~Before(t, b, a)
         /\ Before(t, a, b) /\ b \in ItemsOf(s) => a \in ItemsOf(s)
<1>. PICK q \in 0 .. Len(t) : \E h \in [1 .. q -> 1 .. Len(s)] : Keeps(s, t, q, h)
  BY DEF Follows
<1>. PICK h \in [1 .. q -> 1 .. Len(s)] : Keeps(s, t, q, h)
  OBVIOUS
<1>1. /\ \A m, n \in 1 .. q : m < n => h[m] < h[n]
      /\ \A n \in 1 .. q : t[n].item = s[h[n]].item
      /\ \A n \in q + 1 .. Len(t) : t[n].item \notin ItemsOf(s)
  BY DEF Keeps
<1>2. \A n \in 1 .. Len(s) : s[n].item \in ItemsOf(s)
  BY DEF ItemsOf
<1>3. ASSUME NEW n \in 1 .. Len(t), t[n].item \in ItemsOf(s)
      PROVE  n \in 1 .. q
  BY <1>1, <1>3
<1>4. ASSUME Before(s, a, b), Before(t, b, a)
      PROVE  FALSE
  <2>1. PICK m \in 1 .. Len(s), n \in 1 .. Len(s) :
               m < n /\ s[m].item = a /\ s[n].item = b
    BY <1>4 DEF Before
  <2>2. PICK k \in 1 .. Len(t), l \in 1 .. Len(t) :
               k < l /\ t[k].item = b /\ t[l].item = a
    BY <1>4 DEF Before
  <2>3. k \in 1 .. q /\ l \in 1 .. q
    BY <1>2, <1>3, <2>1, <2>2
  <2>4. h[k] \in 1 .. Len(s) /\ h[l] \in 1 .. Len(s) /\ h[k] < h[l]
    BY <1>1, <2>2, <2>3
  <2>5. s[h[k]].item = s[n].item /\ s[h[l]].item = s[m].item
    BY <1>1, <2>1, <2>2, <2>3
  <2>6. h[k] = n /\ h[l] = m
    BY <2>1, <2>4, <2>5 DEF Distinct
  <2>. QED  BY <2>1, <2>4, <2>6
<1>5. ASSUME Before(t, a, b), b \in ItemsOf(s)
      PROVE  a \in ItemsOf(s)
  <2>1. PICK k \in 1 .. Len(t), l \in 1 .. Len(t) :
               k < l /\ t[k].item = a /\ t[l].item = b
    BY <1>5 DEF Before
  <2>2. l \in 1 .. q
    BY <1>3, <1>5, <2>1
  <2>3. k \in 1 .. q
    BY <2>1, <2>2
  <2>4. h[k] \in 1 .. Len(s) /\ a = s[h[k]].item
    BY <1>1, <2>1, <2>3
  <2>. QED  BY <1>2, <2>4
<1>. QED  BY <1>4, <1>5

(* A line that loses what lies behind, or in front of, a part of it.       *)
LEMMA FollowsPart ==
  ASSUME NEW s, NEW t, NEW x \in Nat, Len(s) \in Nat, Len(t) \in Nat,
         Len(t) + x <= Len(s),
         \A n \in 1 .. Len(t) : t[n].item = s[n + x].item
  PROVE  Follows(s, t)
<1>. DEFINE h == [n \in 1 .. Len(t) |-> n + x]
<1>1. h \in [1 .. Len(t) -> 1 .. Len(s)] /\ Len(t) \in 0 .. Len(t)
  OBVIOUS
<1>2. \A n \in 1 .. Len(t) : h[n] = n + x
  OBVIOUS
<1>. HIDE DEF h
<1>3. \A m, n \in 1 .. Len(t) : m < n => h[m] < h[n]
  <2>1. \A m, n \in 1 .. Len(t) : m < n => m + x < n + x
    OBVIOUS
  <2>. QED  BY <1>2, <2>1
<1>4. \A n \in 1 .. Len(t) : t[n].item = s[h[n]].item
  BY <1>2
<1>5. \A n \in Len(t) + 1 .. Len(t) : t[n].item \notin ItemsOf(s)
  OBVIOUS
<1>. QED  BY <1>1, <1>3, <1>4, <1>5 DEF Follows, Keeps

LEMMA FollowsPrefix ==
  ASSUME NEW s, NEW t, Len(s) \in Nat, Len(t) \in Nat, Len(t) <= Len(s),
         \A n \in 1 .. Len(t) : t[n].item = s[n].item
  PROVE  Follows(s, t)
<1>. PICK x \in Nat : x = 0
  OBVIOUS
<1>1. Len(t) + x <= Len(s)
  OBVIOUS
<1>2. \A n \in 1 .. Len(t) : n + x = n
  OBVIOUS
<1>3. \A n \in 1 .. Len(t) : t[n].item = s[n + x].item
  BY <1>2
<1>. QED  BY <1>1, <1>3, FollowsPart

(* A line that loses at most one element and gets a new one at its end.    *)
LEMMA FollowsAppend ==
  ASSUME NEW s, NEW t, NEW p \in Nat, NEW x \in {0, 1}, Len(s) \in Nat,
         p + x <= Len(s), Len(t) = Len(s) - x + 1,
         \A n \in 1 .. p : t[n].item = s[n].item,
         \A n \in p + 1 .. Len(t) - 1 : t[n].item = s[n + x].item,
         t[Len(t)].item \notin ItemsOf(s)
  PROVE  Follows(s, t)
<1>. DEFINE q == Len(t) - 1
            h == [n \in 1 .. q |-> IF n <= p THEN n ELSE n + x]
<1>1. Len(t) \in Nat /\ q \in 0 .. Len(t) /\ q + x = Len(s)
  OBVIOUS
<1>2. h \in [1 .. q -> 1 .. Len(s)]
  BY <1>1
<1>3. \A n \in 1 .. q : h[n] = IF n <= p THEN n ELSE n + x
  OBVIOUS
<1>4. \A n \in 1 .. q : n <= p \/ n \in p + 1 .. Len(t) - 1
  BY <1>1
<1>. HIDE DEF h, q
<1>5. \A m, n \in 1 .. q : m < n => h[m] < h[n]
  BY <1>1, <1>3
<1>6. ASSUME NEW n \in 1 .. q PROVE t[n].item = s[h[n]].item
  <2>1. CASE n <= p
    <3>1. h[n] = n /\ n \in 1 .. p
      BY <1>3, <2>1
    <3>. QED  BY <3>1
  <2>2. CASE ~(n <= p)
    <3>1. h[n] = n + x
      BY <1>3, <2>2
    <3>2. n \in p + 1 .. Len(t) - 1
      BY <1>4, <2>2
    <3>. QED  BY <3>1, <3>2
  <2>. QED  BY <2>1, <2>2
<1>7. \A n \in q + 1 .. Len(t) : t[n].item \notin ItemsOf(s)
  BY <1>1 DEF q
<1>. QED  BY <1>1, <1>2, <1>5, <1>6, <1>7 DEF Follows, Keeps

(* The line of a caller: first its batch, then the buffer.                 *)
LEMMA LineFact ==
  ASSUME TypeInv, NEW f \in Callers
  PROVE  /\ Len(batch[f]) \in Nat /\ Len(buffer) \in Nat
         /\ Len(Line(f)) = Len(batch[f]) + Len(buffer)
         /\ \A n \in 1 .. Len(batch[f]) : Line(f)[n] = batch[f][n]
         /\ \A n \in Len(batch[f]) + 1 .. Len(batch[f]) + Len(buffer) :
              Line(f)[n] = buffer[n - Len(batch[f])]
<1>1. batch[f] \in Seq(Entry) /\ buffer \in Seq(Obj)
  BY DEF TypeInv, TypeOK
<1>2. batch[f] \in Seq(Entry \cup Obj) /\ buffer \in Seq(Entry \cup Obj)
  BY <1>1
<1>. QED  BY <1>2 DEF Line

LEMMA LineNext ==
  ASSUME TypeInv', NEW f \in Callers
  PROVE  /\ Len(batch'[f]) \in Nat /\ Len(buffer') \in Nat
         /\ Len(Line(f)') = Len(batch'[f]) + Len(buffer')
         /\ \A n \in 1 .. Len(batch'[f]) : Line(f)'[n] = batch'[f][n]
         /\ \A n \in Len(batch'[f]) + 1 .. Len(batch'[f]) + Len(buffer') :
              Line(f)'[n] = buffer'[n - Len(batch'[f])]
<1>1. batch'[f] \in Seq(Entry) /\ buffer' \in Seq(Obj)
  BY DEF TypeInv, TypeOK
<1>2. batch'[f] \in Seq(Entry \cup Obj) /\ buffer' \in Seq(Entry \cup Obj)
  BY <1>1
<1>3. Line(f)' = batch'[f] \o buffer'
  BY DEF Line
<1>. QED  BY <1>2, <1>3

(* No item stands in a line twice, and those that do are in memory.        *)
LEMMA LineDistinct ==
  ASSUME TypeInv, UniqueIds, Once, NEW f \in Callers
  PROVE  Distinct(Line(f)) /\ \A n \in 1 .. Len(Line(f)) :
           \E c \in Live : c.item = Line(f)[n].item /\ c.id = Line(f)[n].id
<1>. DEFINE p == Len(batch[f])
            l == Line(f)
<1>1. /\ p \in Nat /\ Len(buffer) \in Nat /\ Len(l) = p + Len(buffer)
      /\ \A n \in 1 .. p : l[n] = batch[f][n]
      /\ \A n \in p + 1 .. p + Len(buffer) : l[n] = buffer[n - p]
  BY LineFact
<1>. HIDE DEF l
<1>2. \A n \in 1 .. Len(l) : n \in 1 .. p \/ (n \in p + 1 .. p + Len(buffer) /\ n - p \in 1 .. Len(buffer))
  BY <1>1
<1>3. ASSUME NEW n \in 1 .. Len(l)
      PROVE  \E c \in Live : c.item = l[n].item /\ c.id = l[n].id
  <2>1. CASE n \in 1 .. p
    <3>1. [item |-> batch[f][n].item, id |-> batch[f][n].id] \in Live
      BY <2>1 DEF Live, Taken, Copies
    <3>. QED  BY <1>1, <2>1, <3>1
  <2>2. CASE n \in p + 1 .. p + Len(buffer) /\ n - p \in 1 .. Len(buffer)
    <3>1. [item |-> buffer[n - p].item, id |-> buffer[n - p].id] \in Live
      BY <2>2 DEF Live, Copies
    <3>. QED  BY <1>1, <2>2, <3>1
  <2>. QED  BY <1>2, <2>1, <2>2
<1>4. ASSUME NEW m \in 1 .. Len(l), NEW n \in 1 .. Len(l), l[m].id = l[n].id
      PROVE  m = n
  <2>1. CASE m \in 1 .. p /\ n \in 1 .. p
    BY <1>1, <1>4, <2>1 DEF UniqueIds
  <2>2. CASE m \in p + 1 .. p + Len(buffer) /\ n \in p + 1 .. p + Len(buffer)
    <3>1. m - p \in 1 .. Len(buffer) /\ n - p \in 1 .. Len(buffer)
      BY <1>1, <2>2
    <3>2. buffer[m - p].id = buffer[n - p].id
      BY <1>1, <1>4, <2>2
    <3>3. m - p = n - p
      BY <3>1, <3>2 DEF UniqueIds
    <3>. QED  BY <1>1, <3>3
  <2>3. CASE m \in 1 .. p /\ n \in p + 1 .. p + Len(buffer)
    <3>1. n - p \in 1 .. Len(buffer) /\ batch[f][m].id = buffer[n - p].id
      BY <1>1, <1>4, <2>3
    <3>. QED  BY <2>3, <3>1 DEF UniqueIds
  <2>4. CASE n \in 1 .. p /\ m \in p + 1 .. p + Len(buffer)
    <3>1. m - p \in 1 .. Len(buffer) /\ batch[f][n].id = buffer[m - p].id
      BY <1>1, <1>4, <2>4
    <3>. QED  BY <2>4, <3>1 DEF UniqueIds
  <2>. QED  BY <1>2, <2>1, <2>2, <2>3, <2>4
<1>5. Distinct(l)
  <2>. SUFFICES ASSUME NEW m \in 1 .. Len(l), NEW n \in 1 .. Len(l),
                       l[m].item = l[n].item
                PROVE  l[m].id = l[n].id
    BY <1>4 DEF Distinct
  <2>1. PICK c \in Live : c.item = l[m].item /\ c.id = l[m].id
    BY <1>3
  <2>2. PICK d \in Live : d.item = l[n].item /\ d.id = l[n].id
    BY <1>3
  <2>. QED  BY <2>1, <2>2 DEF Once
<1>. QED  BY <1>3, <1>5 DEF l

(* A step that appends an item which is not in memory.                     *)
LEMMA AppendFollows ==
  ASSUME TypeInv, TypeInv', NEW f \in Callers, NEW i \in Items, NEW d \in FreeIds,
         buffer' = PushRight(buffer, [item |-> i, id |-> d]), UNCHANGED batch,
         i \notin ItemsOf(Line(f))
  PROVE  Follows(Line(f), Line(f)')
<1>. DEFINE o == [item |-> i, id |-> d]
            x == IF Len(buffer) >= Capacity THEN 1 ELSE 0
            p == Len(batch[f])
            s == Line(f)
            t == Line(f)'
<1>1. /\ buffer \in Seq(Obj) /\ Len(buffer) <= Capacity /\ o \in Obj
  BY DEF TypeInv, TypeOK, FreeIds, Obj
<1>2. /\ Len(buffer') = Len(buffer) - x + 1
      /\ buffer'[Len(buffer')] = o
      /\ \A n \in 1 .. Len(buffer') - 1 : buffer'[n] = buffer[n + x]
  BY <1>1, PushRightFact
<1>3. /\ p \in Nat /\ Len(buffer) \in Nat /\ Len(s) = p + Len(buffer)
      /\ \A n \in 1 .. p : s[n] = batch[f][n]
      /\ \A n \in p + 1 .. p + Len(buffer) : s[n] = buffer[n - p]
  BY LineFact
<1>4. /\ Len(buffer') \in Nat /\ Len(t) = p + Len(buffer')
      /\ \A n \in 1 .. p : t[n] = batch[f][n]
      /\ \A n \in p + 1 .. p + Len(buffer') : t[n] = buffer'[n - p]
  BY LineNext
<1>5. x \in {0, 1} /\ x <= Len(buffer)
  BY <1>3
<1>6. o.item = i
  OBVIOUS
<1>. HIDE DEF s, t, o, x, p
<1>7. p + x <= Len(s) /\ Len(t) = Len(s) - x + 1 /\ Len(s) \in Nat
  BY <1>2, <1>3, <1>4, <1>5
<1>8. \A n \in 1 .. p : t[n].item = s[n].item
  BY <1>3, <1>4
<1>9. ASSUME NEW n \in p + 1 .. Len(t) - 1
      PROVE  t[n].item = s[n + x].item
  <2>1. /\ n \in p + 1 .. p + Len(buffer') /\ n - p \in 1 .. Len(buffer') - 1
        /\ n + x \in p + 1 .. p + Len(buffer)
        /\ (n + x) - p = (n - p) + x
    BY <1>2, <1>3, <1>4, <1>5
  <2>2. t[n] = buffer'[n - p]
    BY <1>4, <2>1
  <2>3. buffer'[n - p] = buffer[(n - p) + x]
    BY <1>2, <2>1
  <2>4. s[n + x] = buffer[(n + x) - p]
    BY <1>3, <2>1
  <2>. QED  BY <2>1, <2>2, <2>3, <2>4
<1>10. t[Len(t)].item = i
  <2>1. Len(buffer') \in Nat \ {0}
    BY <1>2, <1>3, <1>5
  <2>2. Len(t) \in p + 1 .. p + Len(buffer') /\ Len(t) - p = Len(buffer')
    BY <1>3, <1>4, <2>1
  <2>3. t[Len(t)] = buffer'[Len(t) - p]
    BY <1>4, <2>2
  <2>. QED  BY <1>2, <1>6, <2>2, <2>3
<1>11. t[Len(t)].item \notin ItemsOf(s)
  BY <1>10 DEF s
<1>12. Follows(s, t)
  <2>1. p \in Nat
    BY <1>3
  <2>2. \A n \in p + 1 .. Len(t) - 1 : t[n].item = s[n + x].item
    BY <1>9
  <2>. QED  BY <1>5, <1>7, <1>8, <1>11, <2>1, <2>2, FollowsAppend
<1>. QED  BY <1>12 DEF s, t

(* A step that leaves both alone, or empties the buffer.                   *)
LEMMA KeepFollows ==
  ASSUME TypeInv, TypeInv', NEW f \in Callers, UNCHANGED batch,
         buffer' = buffer \/ buffer' = <<>>
  PROVE  Follows(Line(f), Line(f)')
<1>. DEFINE p == Len(batch[f])
            s == Line(f)
            t == Line(f)'
<1>1. /\ p \in Nat /\ Len(buffer) \in Nat /\ Len(s) = p + Len(buffer)
      /\ \A n \in 1 .. p : s[n] = batch[f][n]
      /\ \A n \in p + 1 .. p + Len(buffer) : s[n] = buffer[n - p]
  BY LineFact
<1>2. /\ Len(buffer') \in Nat /\ Len(t) = p + Len(buffer')
      /\ \A n \in 1 .. p : t[n] = batch[f][n]
      /\ \A n \in p + 1 .. p + Len(buffer') : t[n] = buffer'[n - p]
  BY LineNext
<1>3. Len(buffer') <= Len(buffer) /\ (buffer' = buffer \/ Len(buffer') = 0)
  BY <1>1
<1>. HIDE DEF s, t, p
<1>4. \A n \in 1 .. Len(t) : t[n].item = s[n].item
  <2>. TAKE n \in 1 .. Len(t)
  <2>1. n \in 1 .. p \/ n \in p + 1 .. p + Len(buffer')
    BY <1>1, <1>2
  <2>. QED  BY <1>1, <1>2, <1>3, <2>1
<1>5. Follows(s, t)
  <2>1. Len(s) \in Nat /\ Len(t) \in Nat /\ Len(t) <= Len(s)
    BY <1>1, <1>2, <1>3
  <2>. QED  BY <1>4, <2>1, FollowsPrefix
<1>. QED  BY <1>5 DEF s, t
(* A batch that is given up leaves the buffer's part of the line.          *)
LEMMA GiveUpFollows ==
  ASSUME TypeInv, TypeInv', NEW f \in Callers, Len(batch'[f]) = 0,
         buffer' = buffer
  PROVE  Follows(Line(f), Line(f)')
<1>. DEFINE p == Len(batch[f])
            s == Line(f)
            t == Line(f)'
<1>1. /\ p \in Nat /\ Len(buffer) \in Nat /\ Len(s) = p + Len(buffer)
      /\ \A n \in p + 1 .. p + Len(buffer) : s[n] = buffer[n - p]
  BY LineFact
<1>2. /\ Len(t) = Len(batch'[f]) + Len(buffer')
      /\ \A n \in Len(batch'[f]) + 1 .. Len(batch'[f]) + Len(buffer') :
           t[n] = buffer'[n - Len(batch'[f])]
  BY LineNext
<1>. HIDE DEF s, t, p
<1>3. Len(t) = Len(buffer) /\ \A n \in 1 .. Len(buffer) : t[n] = buffer[n]
  <2>1. \A n \in 1 .. Len(buffer) : n - 0 = n /\ n \in 0 + 1 .. 0 + Len(buffer)
    BY <1>1
  <2>. QED  BY <1>1, <1>2, <2>1
<1>4. ASSUME NEW n \in 1 .. Len(t)
      PROVE  t[n].item = s[n + p].item
  <2>1. n + p \in p + 1 .. p + Len(buffer) /\ (n + p) - p = n
    BY <1>1, <1>3
  <2>. QED  BY <1>1, <1>3, <2>1
<1>5. Follows(s, t)
  <2>1. p \in Nat /\ Len(s) \in Nat /\ Len(t) \in Nat /\ Len(t) + p <= Len(s)
    BY <1>1, <1>3
  <2>2. \A n \in 1 .. Len(t) : t[n].item = s[n + p].item
    BY <1>4
  <2>. QED  BY <2>1, <2>2, FollowsPart
<1>. QED  BY <1>5 DEF s, t

(* What the buffer holds moves to the batch, in order.                     *)
LEMMA DrainFollows ==
  ASSUME TypeInv, TypeInv', NEW f \in Callers, Len(batch[f]) = 0,
         buffer' = <<>>, batch' = [batch EXCEPT ![f] = WithKeys(buffer)]
  PROVE  Follows(Line(f), Line(f)')
<1>. DEFINE s == Line(f)
            t == Line(f)'
<1>1. Len(batch[f]) = 0 /\ buffer' = <<>> /\ batch'[f] = WithKeys(buffer)
  BY DEF TypeInv, TypeOK
<1>2. buffer \in Seq(Obj) /\ keys \in [Ids -> Items \cup {Nil}] /\ Len(buffer) \in Nat
  BY DEF TypeInv, TypeOK
<1>3. /\ Len(WithKeys(buffer)) = Len(buffer)
      /\ \A n \in 1 .. Len(buffer) : WithKeys(buffer)[n].item = buffer[n].item
  BY <1>2, WithKeysFact
<1>4. Len(s) = Len(buffer) /\ \A n \in 1 .. Len(buffer) : s[n] = buffer[n]
  <2>1. \A n \in 1 .. Len(buffer) : n - 0 = n /\ n \in 0 + 1 .. 0 + Len(buffer)
    BY <1>2
  <2>2. /\ Len(s) = Len(batch[f]) + Len(buffer)
        /\ \A n \in Len(batch[f]) + 1 .. Len(batch[f]) + Len(buffer) :
             s[n] = buffer[n - Len(batch[f])]
    BY LineFact
  <2>. HIDE DEF s
  <2>. QED  BY <1>1, <1>2, <2>1, <2>2
<1>5. Len(t) = Len(buffer) /\ \A n \in 1 .. Len(buffer) : t[n] = WithKeys(buffer)[n]
  <2>1. /\ Len(t) = Len(batch'[f]) + Len(buffer')
        /\ \A n \in 1 .. Len(batch'[f]) : t[n] = batch'[f][n]
    BY LineNext
  <2>2. Len(buffer') = 0
    BY <1>1
  <2>. HIDE DEF t
  <2>. QED  BY <1>1, <1>2, <1>3, <2>1, <2>2
<1>. HIDE DEF s, t
<1>6. \A n \in 1 .. Len(t) : t[n].item = s[n].item
  BY <1>3, <1>4, <1>5
<1>7. Follows(s, t)
  BY <1>2, <1>4, <1>5, <1>6, FollowsPrefix
<1>. QED  BY <1>7 DEF s, t

(* The batch goes back in front of the buffer, in order, and what no       *)
(* longer fits leaves at the end of the line.                              *)
LEMMA RequeueFollows ==
  ASSUME TypeInv, TypeInv', NEW f \in Callers, Requeue(f)
  PROVE  Follows(Line(f), Line(f)')
<1>. DEFINE p == Len(batch[f])
            s == Line(f)
            t == Line(f)'
<1>1. /\ batch[f] \in Seq(Entry) /\ buffer \in Seq(Obj) /\ p <= Capacity
      /\ batch'[f] = <<>> /\ buffer' = PushLeftAll(Objects(batch[f]), buffer)
  BY DEF Requeue, TypeInv, TypeOK
<1>2. /\ Objects(batch[f]) \in Seq(Obj) /\ Len(Objects(batch[f])) = p
      /\ \A n \in 1 .. p :
           Objects(batch[f])[n] = [item |-> batch[f][n].item, id |-> batch[f][n].id]
  BY <1>1, ObjectsFact
<1>3. /\ buffer' \in Seq(Obj)
      /\ p <= Len(buffer') /\ Len(buffer') <= p + Len(buffer)
      /\ \A n \in 1 .. p : buffer'[n] = Objects(batch[f])[n]
      /\ \A n \in p + 1 .. Len(buffer') : buffer'[n] = buffer[n - p]
  BY <1>1, <1>2, PushLeftFact
<1>4. /\ p \in Nat /\ Len(buffer) \in Nat /\ Len(s) = p + Len(buffer)
      /\ \A n \in 1 .. p : s[n] = batch[f][n]
      /\ \A n \in p + 1 .. p + Len(buffer) : s[n] = buffer[n - p]
  BY LineFact
<1>5. Len(t) = Len(buffer') /\ \A n \in 1 .. Len(buffer') : t[n] = buffer'[n]
  <2>1. Len(buffer') \in Nat /\ Len(batch'[f]) = 0
    BY <1>1, <1>3
  <2>2. \A n \in 1 .. Len(buffer') : n - 0 = n /\ n \in 0 + 1 .. 0 + Len(buffer')
    BY <2>1
  <2>3. /\ Len(t) = Len(batch'[f]) + Len(buffer')
        /\ \A n \in Len(batch'[f]) + 1 .. Len(batch'[f]) + Len(buffer') :
             t[n] = buffer'[n - Len(batch'[f])]
    BY LineNext
  <2>. HIDE DEF t
  <2>. QED  BY <2>1, <2>2, <2>3
<1>6. Len(buffer') \in Nat
  BY <1>3
<1>. HIDE DEF s, t, p
<1>7. ASSUME NEW n \in 1 .. Len(t)
      PROVE  t[n].item = s[n].item
  <2>1. CASE n \in 1 .. p
    <3>1. t[n] = [item |-> batch[f][n].item, id |-> batch[f][n].id]
      BY <1>2, <1>3, <1>5, <1>7, <2>1
    <3>. QED  BY <1>4, <2>1, <3>1
  <2>2. CASE n \in p + 1 .. Len(buffer')
    <3>1. n \in p + 1 .. p + Len(buffer)
      BY <1>3, <1>4, <1>6, <2>2
    <3>. QED  BY <1>3, <1>4, <1>5, <2>2, <3>1
  <2>. QED  BY <1>4, <1>5, <1>6, <2>1, <2>2
<1>8. Follows(s, t)
  <2>1. Len(s) \in Nat /\ Len(t) \in Nat /\ Len(t) <= Len(s)
    BY <1>3, <1>4, <1>5, <1>6
  <2>. QED  BY <1>7, <2>1, FollowsPrefix
<1>. QED  BY <1>8 DEF s, t

(* With one caller, every step lets its line be followed by what is left.  *)
LEMMA OrderStep ==
  ASSUME IInv, Once, TypeInv', [Next]_vars, NEW f \in Callers,
         \A g \in Callers : g = f
  PROVE  Follows(Line(f), Line(f)')
<1>. USE DEF bufVars, writerVars, loadVars, clearVars, callerVars, history
<1>0. TypeInv /\ UniqueIds /\ NothingHeld
  BY DEF IInv
<1>1. ASSUME NEW i \in Items, i \in ItemsOf(Line(f))
      PROVE  \E c \in Live : c.item = i
  BY <1>0, <1>1, LineDistinct DEF ItemsOf
<1>2. ASSUME NEW i \in Items, AppendAndPersist(i), UNCHANGED batch,
             wpc[i] \notin {"persisting", "in"}
      PROVE  Follows(Line(f), Line(f)')
  <2>1. i \notin ItemsOf(Line(f))
    BY <1>1, <1>2 DEF Once
  <2>. QED  BY <1>0, <1>2, <2>1, AppendFollows DEF AppendAndPersist
<1>3. ASSUME NEW i \in Items, Writer(i)
      PROVE  Follows(Line(f), Line(f)')
  <2>1. CASE AppendAndPersist(i) /\ UNCHANGED batch /\ wpc[i] \notin {"persisting", "in"}
    BY <1>2, <2>1
  <2>2. CASE UNCHANGED <<buffer, batch>>
    BY <1>0, <2>2, KeepFollows
  <2>. QED  BY <1>3, <2>1, <2>2 DEF Writer, AddAppend, AddReject, AddWait,
       WaitCancelled, AddEvict, EvictDone, EvictCancelled, PersistDone, Arriving
<1>4. ASSUME NEW k \in Items, LoadOne(k)
      PROVE  Follows(Line(f), Line(f)')
  <2>1. k \notin ItemsOf(Line(f))
    BY <1>1, <1>4 DEF LoadOne, Once
  <2>2. \E d \in FreeIds : buffer' = PushRight(buffer, [item |-> k, id |-> d])
    BY <1>4 DEF LoadOne
  <2>3. UNCHANGED batch
    BY <1>4 DEF LoadOne
  <2>. QED  BY <1>0, <2>1, <2>2, <2>3, AppendFollows
<1>5. CASE Load
  <2>1. ASSUME \/ InitializeEvents \/ InitializeMetrics \/ LoadMetrics
               \/ LoadDropped \/ LoadScan \/ LoadEnd
               \/ \E k \in Items : LoadSkip(k)
        PROVE  UNCHANGED <<buffer, batch>>
    BY <2>1 DEF InitializeEvents, InitializeMetrics, LoadMetrics, LoadDropped,
                Initializing, LoadScan, LoadEnd, LoadSkip
  <2>. QED  BY <1>0, <1>4, <1>5, <2>1, KeepFollows DEF Load
<1>6. CASE Clear \/ UNCHANGED vars \/ \E i \in Items : Expire(i)
  <2>1. UNCHANGED batch /\ (buffer' = buffer \/ buffer' = <<>>)
    BY <1>6 DEF Clear, ClearMemory, ClearScan, ClearDelete, ClearEnd, Expire, vars
  <2>. QED  BY <1>0, <2>1, KeepFollows
<1>7. CASE Caller(f)
  <2>0. batch \in [Callers -> Seq(Entry)]
    BY <1>0 DEF TypeInv, TypeOK
  <2>1. CASE DrainWithKeys(f) \/ DrainLegacy(f)
    <3>1. /\ Len(batch[f]) = 0 /\ buffer' = <<>>
          /\ batch' = [batch EXCEPT ![f] = WithKeys(buffer)]
      BY <1>0, <2>1 DEF DrainWithKeys, DrainLegacy, Draining, NothingHeld
    <3>. QED  BY <1>0, <3>1, DrainFollows
  <2>2. CASE Delivered(f) \/ RequeueCancelled(f) \/ HandOver(f)
             \/ HandOverCancelled(f)
    <3>1. Len(batch'[f]) = 0 /\ buffer' = buffer
      BY <2>0, <2>2 DEF Delivered, RequeueCancelled, HandOver, HandOverCancelled
    <3>. QED  BY <1>0, <3>1, GiveUpFollows
  <2>3. CASE Requeue(f)
    BY <1>0, <2>3, RequeueFollows
  <2>4. CASE Undelivered(f) \/ ConfirmCancelled(f) \/ DrainAtOnce(f)
             \/ \E k \in Items : ConfirmOne(f, k) \/ SurrenderOne(f, k)
    <3>1. UNCHANGED batch /\ (buffer' = buffer \/ buffer' = <<>>)
      BY <2>4 DEF Undelivered, ConfirmOne, ConfirmCancelled, DrainAtOnce,
                  Draining, SurrenderOne
    <3>. QED  BY <1>0, <3>1, KeepFollows
  <2>. QED  BY <1>7, <2>1, <2>2, <2>3, <2>4 DEF Caller
<1>8. CASE Crash
  <2>1. Len(batch'[f]) = 0 /\ Len(buffer') = 0
    BY <1>8 DEF Crash
  <2>2. Len(Line(f)') = 0 /\ Len(Line(f)) \in Nat
    BY <1>0, <2>1, LineFact, LineNext
  <2>. QED  BY <2>2, FollowsPrefix
<1>. QED  BY <1>3, <1>5, <1>6, <1>7, <1>8 DEF Next

(* With one caller and one attachment of Redis, events are offered for     *)
(* delivery in the order of their arrival: no append, drain, failed send,  *)
(* requeue, eviction or load swaps two that wait (_buffer_queue.py).       *)
THEOREM DeliveryInOrder ==
  ASSUME Lane = "events", Reinit = FALSE, NEW c, Callers = {c}
  PROVE  Spec => OrderKept
<1>1. ASSUME IInv, IInv', [Next]_vars, NEW f \in Callers, NEW a \in Items, NEW b \in Items
      PROVE  /\ Before(Line(f), a, b) => ~Before(Line(f)', b, a)
             /\ Before(Line(f)', a, b) /\ b \in ItemsOf(Line(f))
                  => a \in ItemsOf(Line(f))
  <2>1. TypeInv /\ TypeInv' /\ UniqueIds /\ Once
    BY <1>1 DEF IInv, LoadedOnce
  <2>2. Follows(Line(f), Line(f)')
    BY <1>1, <2>1, OrderStep
  <2>3. Distinct(Line(f)) /\ Len(Line(f)) \in Nat /\ Len(Line(f)') \in Nat
    BY <2>1, LineDistinct, LineFact, LineNext
  <2>. QED  BY <2>2, <2>3, FollowsKeepsOrder
<1>2. IInv /\ IInv' /\ [Next]_vars =>
        [\A f \in Callers : \A a, b \in Items :
           /\ Before(Line(f), a, b) => ~Before(Line(f)', b, a)
           /\ Before(Line(f)', a, b) /\ b \in ItemsOf(Line(f))
                => a \in ItemsOf(Line(f))]_vars
  BY <1>1
<1>. QED  BY <1>2, Invariance, PTL DEF Spec, OrderKept
-----------------------------------------------------------------------------
(* Every step of the code is a step of DurableQueue, or none of its.       *)

Over == settled \cup erased

LEMMA Mapping ==
  /\ Queue!vars = <<Copies(buffer), Taken, redis, Over>>
  /\ \A s : Queue!ItemOf(Copies(s)) = ItemsOf(s)
  /\ Queue!ItemOf(Obj) = Items
<1>1. Queue!vars = <<Copies(buffer), Taken, redis, Over>>
  BY DEF Queue!vars, Over
<1>2. \A s : Queue!ItemOf(Copies(s)) = ItemsOf(s)
  BY ItemsOfCopies DEF Queue!ItemOf
<1>3. Queue!ItemOf(Obj) = Items
  <2>1. PICK d \in Ids : TRUE
    BY IdsAssumption
  <2>2. \A i \in Items : [item |-> i, id |-> d] \in Obj /\ [item |-> i, id |-> d].item = i
    BY DEF Obj
  <2>3. \A o \in Obj : o.item \in Items
    BY DEF Obj
  <2>. QED  BY <2>2, <2>3 DEF Queue!ItemOf
<1>. QED  BY <1>1, <1>2, <1>3

(* A step that moves no object and no record.                              *)
LEMMA Stutters ==
  UNCHANGED <<buffer, batch, redis, settled, erased>>
    => UNCHANGED Queue!vars
BY DEF Queue!vars, Copies, Taken

(* A deleted record is of an item that is over.                            *)
LEMMA RefineDelete ==
  ASSUME NEW k \in Items, k \in Over, DeleteRecord(k),
         UNCHANGED <<buffer, batch, settled, erased>>
  PROVE  [Queue!Next]_(Queue!vars)
<1>1. CASE redis' = redis
  BY <1>1, Stutters
<1>2. CASE redis' = redis \ {k}
  <2>1. Queue!Remove(k)
    BY <1>2 DEF Queue!Remove, Over, Copies, Taken
  <2>. QED  BY <2>1, Mapping DEF Queue!Next
<1>. QED  BY <1>1, <1>2 DEF DeleteRecord

LEMMA FreshCopy ==
  ASSUME NEW d \in FreeIds
  PROVE  \A c \in Copies(buffer) \cup Taken : c.id # d
<1>1. /\ \A n \in 1 .. Len(buffer) : buffer[n].id # d
      /\ \A f \in Callers : \A n \in 1 .. Len(batch[f]) : batch[f][n].id # d
  BY DEF FreeIds, LiveIds, IdsOf
<1>2. \A s, n : [item |-> s[n].item, id |-> s[n].id].id = s[n].id
  OBVIOUS
<1>. QED  BY <1>1, <1>2 DEF Copies, Taken

LEMMA RefineReport ==
  ASSUME TypeInv, UniqueIds, NEW i \in Items, AppendAndPersist(i),
         UNCHANGED batch, redis' \subseteq redis, redis \ redis' \subseteq Over,
         Over' = Over \cup {c.item : c \in Gone}
  PROVE  Queue!Next
<1>1. PICK d \in FreeIds : buffer' = PushRight(buffer, [item |-> i, id |-> d])
  BY DEF AppendAndPersist
<1>. DEFINE o == [item |-> i, id |-> d]
<1>2. /\ Gone \subseteq Copies(buffer)
      /\ Copies(buffer)' = (Copies(buffer) \ Gone) \cup {o}
  BY <1>1, AppendCopies
<1>3. o \in Obj /\ o.id = d
  BY DEF Obj, FreeIds
<1>4. \A c \in Copies(buffer) \cup Taken : o.id # c.id
  BY <1>3, FreshCopy
<1>. HIDE DEF o
<1>5. \A c, e \in Gone : c = e
  BY DEF Gone
<1>6. Taken' = Taken
  BY DEF Taken, Copies
<1>7. Queue!Report(o)
  BY <1>2, <1>4, <1>5, <1>6
     DEF Queue!Report, Queue!Fresh, Queue!Single, Queue!ItemOf, Over
<1>. QED  BY <1>3, <1>7 DEF Queue!Next

LEMMA RefineWriter ==
  ASSUME IInv, NEW i \in Items, Writer(i)
  PROVE  [Queue!Next]_(Queue!vars)
<1>. USE DEF bufVars, writerVars, loadVars, clearVars, callerVars, history
<1>0. TypeInv /\ UniqueIds
  BY DEF IInv
<1>1. CASE AddAppend(i)
  <2>1. Gone = {}
    BY <1>1 DEF AddAppend, Gone
  <2>2. Over' = Over \cup {c.item : c \in Gone}
    BY <1>1, <2>1 DEF AddAppend, Over
  <2>. QED  BY <1>0, <1>1, <2>2, RefineReport DEF AddAppend
<1>2. CASE AddReject(i) \/ AddWait(i) \/ WaitCancelled(i)
  BY <1>2, Stutters DEF AddReject, AddWait, WaitCancelled
<1>3. CASE AddEvict(i)
  <2>1. Gone = {Head(buffer)} /\ Over' = Over \cup {Head(buffer).item}
    BY <1>3 DEF AddEvict, Gone, Over
  <2>2. CASE AppendAndPersist(i)
    <3>1. Over' = Over \cup {c.item : c \in Gone}
      BY <2>1
    <3>. QED  BY <1>0, <1>3, <2>2, <3>1, RefineReport DEF AddEvict
  <2>3. CASE UNCHANGED buffer
    <3>1. Head(buffer) \in Copies(buffer) /\ Head(buffer) \in Obj
      <4>1. /\ 1 \in 1 .. Len(buffer) /\ buffer \in Seq(Obj)
            /\ Head(buffer) = buffer[1]
        BY <1>0, <1>3 DEF AddEvict, BufferFull, TypeInv, TypeOK
      <4>. QED  BY <4>1, CopiesFact
    <3>2. Queue!Condemn(Head(buffer))
      BY <1>3, <2>1, <2>3, <3>1 DEF AddEvict, Queue!Condemn, Over, Copies, Taken
    <3>. QED  BY <3>1, <3>2 DEF Queue!Next
  <2>. QED  BY <1>3, <2>2, <2>3 DEF AddEvict
<1>4. CASE EvictDone(i)
  <2>1. wkey[i] \in Over
    BY <1>4 DEF EvictDone, IInv, PendingDeletes, Over
  <2>2. Over' = Over \cup {c.item : c \in Gone}
    <3>1. BufferFull => Head(buffer) = buffer[1]
      BY <1>0 DEF BufferFull, TypeInv, TypeOK
    <3>2. \A c \in Gone : c.item \in Over
      BY <1>4, <3>1 DEF EvictDone, IInv, EvictCounted, Gone, Over
    <3>3. Over' = Over
      BY <1>4 DEF EvictDone, Over
    <3>. QED  BY <3>2, <3>3
  <2>3. AppendAndPersist(i) /\ UNCHANGED batch
    BY <1>4 DEF EvictDone
  <2>4. redis' \subseteq redis /\ redis \ redis' \subseteq Over
    BY <1>4, <2>1 DEF EvictDone, DeleteRecord
  <2>. QED  BY <1>0, <2>2, <2>3, <2>4, RefineReport
<1>5. CASE EvictCancelled(i)
  <2>1. wkey[i] \in Over /\ wkey[i] \in Items
    BY <1>0, <1>5
       DEF EvictCancelled, IInv, PendingDeletes, Over, TypeInv, TypeOK
  <2>. QED  BY <1>5, <2>1, RefineDelete DEF EvictCancelled
<1>6. CASE PersistDone(i)
  <2>1. UNCHANGED <<buffer, batch, settled, erased>>
    BY <1>6 DEF PersistDone
  <2>2. CASE redis' = redis
    BY <2>1, <2>2, Stutters
  <2>3. CASE redis' = redis \cup {i}
    <3>1. PICK n \in 1 .. Len(buffer) : buffer[n] = [item |-> i, id |-> wid[i]]
      BY <1>6 DEF PersistDone, IInv, WriterObj
    <3>2. i \in ItemsOf(buffer)
      BY <3>1 DEF ItemsOf
    <3>3. Queue!Store(i)
      BY <2>1, <2>3, <3>2, Mapping DEF Queue!Store, Copies, Taken
    <3>. QED  BY <3>3, Mapping DEF Queue!Next
  <2>. QED  BY <1>6, <2>2, <2>3 DEF PersistDone
<1>. QED  BY <1>1, <1>2, <1>3, <1>4, <1>5, <1>6 DEF Writer

LEMMA RefineLoad ==
  ASSUME IInv, Load
  PROVE  [Queue!Next]_(Queue!vars)
<1>. USE DEF bufVars, writerVars, loadVars, clearVars, callerVars, history
<1>1. CASE \/ InitializeEvents \/ InitializeMetrics \/ LoadMetrics
           \/ LoadDropped \/ LoadScan \/ LoadEnd
  BY <1>1, Stutters DEF InitializeEvents, InitializeMetrics, LoadMetrics,
     LoadDropped, Initializing, LoadScan, LoadEnd
<1>2. ASSUME NEW k \in Items, LoadSkip(k)
      PROVE  [Queue!Next]_(Queue!vars)
  BY <1>2, Stutters DEF LoadSkip
<1>3. ASSUME NEW k \in Items, LoadOne(k)
      PROVE  [Queue!Next]_(Queue!vars)
  <2>1. PICK d \in FreeIds : buffer' = PushRight(buffer, [item |-> k, id |-> d])
    BY <1>3 DEF LoadOne
  <2>. DEFINE o == [item |-> k, id |-> d]
  <2>2. /\ Gone \subseteq Copies(buffer)
        /\ Copies(buffer)' = (Copies(buffer) \ Gone) \cup {o}
    BY <2>1, AppendCopies DEF IInv
  <2>3. o \in Obj /\ o.id = d /\ o.item \in redis
    BY <1>3 DEF Obj, FreeIds, LoadOne
  <2>4. \A c \in Copies(buffer) \cup Taken : o.id # c.id
    BY <2>3, FreshCopy
  <2>. HIDE DEF o
  <2>5. \A c, e \in Gone : c = e
    BY DEF Gone
  <2>6. UNCHANGED <<Taken, redis, settled, erased>>
    BY <1>3 DEF LoadOne, Taken, Copies
  <2>7. Queue!Restore(o)
    BY <2>2, <2>3, <2>4, <2>5, <2>6 DEF Queue!Restore, Queue!Fresh, Queue!Single
  <2>. QED  BY <2>3, <2>7 DEF Queue!Next
<1>. QED  BY <1>1, <1>2, <1>3 DEF Load

(* A record goes, and its item is over.                                    *)
LEMMA RefineErase ==
  ASSUME NEW k \in Items, redis' = redis \ {k}, erased' = erased \cup {k},
         UNCHANGED <<buffer, batch, settled>>
  PROVE  Queue!Next
<1>1. Queue!Erase(k)
  BY DEF Queue!Erase, Copies, Taken
<1>. QED  BY <1>1, Mapping DEF Queue!Next

LEMMA RefineClear ==
  ASSUME IInv, Clear
  PROVE  [Queue!Next]_(Queue!vars)
<1>. USE DEF bufVars, writerVars, loadVars, clearVars, callerVars, history
<1>1. CASE ClearMemory
  <2>1. Copies(buffer)' = {}
    BY <1>1 DEF ClearMemory, Copies
  <2>2. Over' = Over \cup Queue!ItemOf(Copies(buffer))
    BY <1>1, Mapping DEF ClearMemory, Over
  <2>3. Queue!Empty
    BY <1>1, <2>1, <2>2 DEF ClearMemory, Queue!Empty, Over, Taken, Copies
  <2>. QED  BY <2>3 DEF Queue!Next
<1>2. CASE ClearScan \/ ClearEnd
  BY <1>2, Stutters DEF ClearScan, ClearEnd
<1>3. ASSUME NEW k \in Items, ClearDelete(k)
      PROVE  Queue!Next
  BY <1>3, RefineErase DEF ClearDelete
<1>. QED  BY <1>1, <1>2, <1>3 DEF Clear

LEMMA RefineCaller ==
  ASSUME IInv, NEW f \in Callers, Caller(f)
  PROVE  [Queue!Next]_(Queue!vars)
<1>. USE DEF bufVars, writerVars, loadVars, clearVars, callerVars, history
<1>0. TypeInv /\ UniqueIds
  BY DEF IInv
<1>1. CASE DrainWithKeys(f) \/ DrainLegacy(f)
  <2>1. /\ Len(batch[f]) = 0 /\ Copies(buffer)' = {}
        /\ batch' = [batch EXCEPT ![f] = WithKeys(buffer)]
    BY <1>1 DEF DrainWithKeys, DrainLegacy, Draining, IInv, NothingHeld, Copies
  <2>2. Taken' = Taken \cup Copies(buffer)
    BY <1>0, <2>1, TakenFact, WithKeysCopies
  <2>3. Copies(buffer) # {}
    <3>1. 1 \in 1 .. Len(buffer) /\ buffer \in Seq(Obj)
      BY <1>0, <1>1 DEF DrainWithKeys, DrainLegacy, Draining, TypeInv, TypeOK
    <3>. QED  BY <3>1 DEF Copies
  <2>4. Over' = Over /\ redis' = redis
    BY <1>1 DEF DrainWithKeys, DrainLegacy, Draining, Over
  <2>5. Queue!Take
    BY <2>1, <2>2, <2>3, <2>4 DEF Queue!Take, Over
  <2>. QED  BY <2>5 DEF Queue!Next
<1>2. CASE Delivered(f) \/ HandOver(f)
  <2>1. /\ Copies(batch[f]) \subseteq Taken
        /\ Taken' = Taken \ Copies(batch[f])
    BY <1>0, <1>2, TakenFact DEF Delivered, HandOver
  <2>2. Over' = Over \cup Queue!ItemOf(Copies(batch[f]))
    BY <1>2, Mapping DEF Delivered, HandOver, Over
  <2>3. Queue!Deliver(Copies(batch[f]))
    BY <1>2, <2>1, <2>2 DEF Delivered, HandOver, Queue!Deliver, Over, Copies
  <2>. QED  BY <2>1, <2>3 DEF Queue!Next
<1>3. CASE Undelivered(f) \/ ConfirmCancelled(f)
  BY <1>3, Stutters DEF Undelivered, ConfirmCancelled
<1>4. CASE Requeue(f)
  <2>. DEFINE out == Copies(Overflow(batch[f], buffer))
  <2>1. /\ Copies(batch[f]) \subseteq Taken
        /\ Taken' = Taken \ Copies(batch[f])
    BY <1>0, <1>4, TakenFact DEF Requeue
  <2>2. /\ out \subseteq Copies(buffer)
        /\ Copies(buffer)' = (Copies(buffer) \ out) \cup Copies(batch[f])
    BY <1>0, <1>4, RequeueCopies DEF Requeue
  <2>3. Over' = Over \cup Queue!ItemOf(out)
    BY <1>4, Mapping DEF Requeue, Over
  <2>. HIDE DEF out
  <2>4. Queue!Return(Copies(batch[f]), out)
    BY <1>4, <2>1, <2>2, <2>3 DEF Requeue, Queue!Return, Over
  <2>. QED  BY <2>1, <2>2, <2>4 DEF Queue!Next
<1>5. CASE RequeueCancelled(f) \/ HandOverCancelled(f)
  <2>1. /\ Copies(batch[f]) \subseteq Taken
        /\ Taken' = Taken \ Copies(batch[f])
    BY <1>0, <1>5, TakenFact DEF RequeueCancelled, HandOverCancelled
  <2>2. Queue!Abandon(Copies(batch[f]))
    BY <1>5, <2>1
       DEF RequeueCancelled, HandOverCancelled, Queue!Abandon, Copies
  <2>. QED  BY <2>1, <2>2 DEF Queue!Next
<1>6. ASSUME NEW k \in Items, ConfirmOne(f, k)
      PROVE  [Queue!Next]_(Queue!vars)
  <2>1. k \in Over
    BY <1>6 DEF ConfirmOne, IInv, PendingDeletes, Over
  <2>. QED  BY <1>6, <2>1, RefineDelete DEF ConfirmOne
<1>7. CASE DrainAtOnce(f)
  <2>1. Copies(buffer)' = {}
    BY <1>7 DEF DrainAtOnce, Draining, Copies
  <2>2. Over' = Over \cup Queue!ItemOf(Copies(buffer))
    BY <1>7, Mapping DEF DrainAtOnce, Draining, Over
  <2>3. Queue!Empty
    BY <1>7, <2>1, <2>2
       DEF DrainAtOnce, Draining, Queue!Empty, Over, Taken, Copies
  <2>. QED  BY <2>3 DEF Queue!Next
<1>8. ASSUME NEW k \in Items, SurrenderOne(f, k)
      PROVE  [Queue!Next]_(Queue!vars)
  <2>1. k \in ItemsOf(batch[f])
    BY <1>8 DEF SurrenderOne, IInv, PendingDeletes
  <2>2. CASE redis' = redis
    <3>1. UNCHANGED <<buffer, batch, settled, erased>>
      BY <1>8, <2>2 DEF SurrenderOne
    <3>. QED  BY <2>2, <3>1, Stutters
  <2>3. CASE redis' # redis
    <3>1. k \in redis /\ redis' = redis \ {k}
      BY <1>8, <2>3 DEF SurrenderOne, DeleteRecord
    <3>2. erased' = erased \cup {k}
      BY <1>8, <2>1, <3>1 DEF SurrenderOne
    <3>. QED  BY <1>8, <3>1, <3>2, RefineErase DEF SurrenderOne
  <2>. QED  BY <2>2, <2>3
<1>. QED  BY <1>1, <1>2, <1>3, <1>4, <1>5, <1>6, <1>7, <1>8 DEF Caller

LEMMA RefineStep == IInv /\ [Next]_vars => [Queue!Next]_(Queue!vars)
<1>. SUFFICES ASSUME IInv, [Next]_vars
              PROVE  [Queue!Next]_(Queue!vars)
  OBVIOUS
<1>1. ASSUME NEW k \in Items, Expire(k)
      PROVE  Queue!Next
  BY <1>1, RefineErase DEF Expire, bufVars, callerVars
<1>2. CASE Crash
  <2>1. Copies(buffer)' = {} /\ Taken' = {}
    BY <1>2 DEF Crash, Copies, Taken
  <2>2. Queue!Crash
    BY <1>2, <2>1 DEF Crash, Queue!Crash
  <2>. QED  BY <2>2 DEF Queue!Next
<1>3. CASE UNCHANGED vars
  BY <1>3, Stutters DEF vars, bufVars, callerVars, history
<1>. QED  BY <1>1, <1>2, <1>3, RefineWriter, RefineLoad, RefineClear, RefineCaller
          DEF Next

LEMMA RefineInit == Init => Queue!Init
BY DEF Init, Queue!Init, Copies, Taken

(* The buffer implements the durable queue it promises to be: whatever is  *)
(* interleaved, cancelled or crashes, every step of its coroutines is a    *)
(* step of DurableQueue or changes nothing that DurableQueue sees.         *)
THEOREM ImplementsQueue == Spec => QueueSpec
<1>1. Init => Queue!Init
  BY RefineInit
<1>2. IInv /\ [Next]_vars => [Queue!Next]_(Queue!vars)
  BY RefineStep
<1>. QED  BY <1>1, <1>2, Invariance, PTL DEF Spec, QueueSpec, Queue!Spec
=============================================================================
