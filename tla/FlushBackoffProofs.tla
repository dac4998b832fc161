------------------------- MODULE FlushBackoffProofs -------------------------
(***************************************************************************)
(* Proofs about FlushBackoff for any number of concurrent flushes, every   *)
(* flush interval and cap, and every exponent limit: the types, and that a *)
(* lane's backoff is never longer than its failure streak calls for.       *)
(***************************************************************************)
EXTENDS FlushBackoff, FiniteSetTheorems, TLAPS

-----------------------------------------------------------------------------
(* The delay.  Powers of two are the sizes of power sets, which gives their *)
(* monotonicity without an induction.                                      *)

LEMMA PowerFact ==
  /\ \A n \in Nat : 2^n \in Nat \ {0}
  /\ \A m, n \in Nat : m <= n => 2^m <= 2^n
<1>1. ASSUME NEW n \in Nat
      PROVE  /\ IsFiniteSet(SUBSET (1 .. n))
             /\ Cardinality(SUBSET (1 .. n)) = 2^n
  <2>1. IsFiniteSet(1 .. n) /\ Cardinality(1 .. n) = n
    BY FS_Interval
  <2>. QED  BY <2>1, FS_SUBSET
<1>2. ASSUME NEW n \in Nat PROVE 2^n \in Nat \ {0}
  <2>1. 2^n \in Nat
    BY <1>1, FS_CardinalityType
  <2>2. Cardinality(SUBSET (1 .. n)) # 0
    <3>1. {} \in SUBSET (1 .. n)
      OBVIOUS
    <3>. QED  BY <1>1, <3>1, FS_EmptySet
  <2>. QED  BY <1>1, <2>1, <2>2
<1>3. ASSUME NEW m \in Nat, NEW n \in Nat, m <= n PROVE 2^m <= 2^n
  <2>1. SUBSET (1 .. m) \in SUBSET (SUBSET (1 .. n))
    BY <1>3
  <2>2. Cardinality(SUBSET (1 .. m)) <= Cardinality(SUBSET (1 .. n))
    BY <1>1, <2>1, FS_Subset
  <2>. QED  BY <1>1, <2>2
<1>. QED  BY <1>2, <1>3

LEMMA MinFact ==
  ASSUME NEW a \in Int, NEW b \in Int
  PROVE  Min({a, b}) = IF a <= b THEN a ELSE b
<1>. DEFINE m == IF a <= b THEN a ELSE b
<1>1. m \in {a, b} /\ \A y \in {a, b} : m <= y
  OBVIOUS
<1>2. \A x \in {a, b} : (\A y \in {a, b} : x <= y) => x = m
  OBVIOUS
<1>. HIDE DEF m
<1>3. Min({a, b}) = m
  BY <1>1, <1>2 DEF Min
<1>. QED  BY <1>3 DEF m

(* A longer streak calls for no shorter a delay; none exceeds the cap, and *)
(* none is shorter than a flush interval; the cap stands for what is longer. *)
LEMMA DelayFact ==
  /\ \A n \in Nat : Delay(n) \in FlushInterval .. MaxBackoff
  /\ \A n \in Nat : FlushInterval * 2^n >= MaxBackoff => Delay(n) = MaxBackoff
  /\ \A m, n \in Nat : m <= n => Delay(m) <= Delay(n)
<1>. USE IntervalAssumption, BackoffAssumption
<1>1. \A a, b, c \in Nat : b <= c => a * b <= a * c
  OBVIOUS
<1>2. \A a \in Nat, b \in Nat \ {0} : a * b \in Nat /\ a <= a * b
  OBVIOUS
<1>3. ASSUME NEW n \in Nat
      PROVE  /\ FlushInterval * 2^n \in Nat /\ FlushInterval <= FlushInterval * 2^n
             /\ Delay(n) = IF FlushInterval * 2^n <= MaxBackoff
                             THEN FlushInterval * 2^n ELSE MaxBackoff
  <2>1. 2^n \in Nat \ {0}
    BY PowerFact
  <2>2. FlushInterval * 2^n \in Nat /\ FlushInterval <= FlushInterval * 2^n
    BY <1>2, <2>1
  <2>. QED  BY <2>2, MinFact DEF Delay
<1>4. ASSUME NEW m \in Nat, NEW n \in Nat, m <= n
      PROVE  Delay(m) <= Delay(n)
  <2>1. 2^m \in Nat /\ 2^n \in Nat /\ 2^m <= 2^n
    BY <1>4, PowerFact
  <2>2. FlushInterval * 2^m <= FlushInterval * 2^n
    BY <1>1, <2>1
  <2>. QED  BY <1>3, <2>2
<1>5. ASSUME NEW n \in Nat PROVE Delay(n) \in FlushInterval .. MaxBackoff
  BY <1>3
<1>6. ASSUME NEW n \in Nat, FlushInterval * 2^n >= MaxBackoff
      PROVE  Delay(n) = MaxBackoff
  BY <1>3, <1>6
<1>. QED  BY <1>4, <1>5, <1>6

(* What one more counted failure does to a streak.                         *)
LEMMA StreakFact ==
  ASSUME NEW n \in 0 .. MaxStreak
  PROVE  /\ Min({n + 1, MaxStreak}) \in 1 .. MaxStreak
         /\ n <= Min({n + 1, MaxStreak})
         /\ ~Overflows(n) => Delay(n) <= Delay(Min({n + 1, MaxStreak}) - 1)
<1>. USE ExponentAssumption, BackoffAssumption, IntervalAssumption
<1>1. Min({n + 1, MaxStreak}) = IF n + 1 <= MaxStreak THEN n + 1 ELSE MaxStreak
  BY MinFact
<1>2. n = MaxStreak => Overflows(n)
  BY StreakAssumption DEF Overflows
<1>3. ASSUME n + 1 <= MaxStreak PROVE Delay(n) <= Delay((n + 1) - 1)
  BY <1>3, DelayFact
<1>. QED  BY <1>1, <1>2, <1>3
-----------------------------------------------------------------------------
LEMMA TypeStep == TypeOK /\ [Next]_vars => TypeOK'
<1>. SUFFICES ASSUME TypeOK, [Next]_vars PROVE TypeOK'
  OBVIOUS
<1>. USE DEF TypeOK
<1>1. CASE Tick
  BY <1>1, BackoffAssumption DEF Tick
<1>2. ASSUME NEW l \in Lanes, Report(l) \/ ComeUp(l)
      PROVE  TypeOK'
  BY <1>2 DEF Report, ComeUp
<1>3. ASSUME NEW f \in Flushers, Work(f) \/ Cancelled(f)
      PROVE  TypeOK'
  <2>1. CASE Flush(f) \/ Drain(f) \/ Sent(f) \/ Requeue(f)
    BY <2>1 DEF Flush, Drain, Sent, Requeue
  <2>2. CASE Skip(f) \/ Cancelled(f)
    BY <2>2 DEF Skip, Cancelled, NextLane, Abort, Lanes
  <2>3. CASE Forgive(f)
    BY <2>3, ExponentAssumption, BackoffAssumption DEF Forgive, NextLane, Lanes
  <2>4. CASE Penalise(f)
    <3>1. streak[lane[f]] \in 0 .. MaxStreak /\ streak[lane[f]] \in Nat
      BY ExponentAssumption
    <3>2. streak' \in [Lanes -> 0 .. MaxStreak]
      BY <2>4, <3>1, StreakFact DEF Penalise
    <3>3. backoff' \in [Lanes -> 0 .. MaxBackoff]
      <4>1. Delay(streak[lane[f]]) \in 0 .. MaxBackoff
        BY <3>1, DelayFact, IntervalAssumption
      <4>. QED  BY <2>4, <4>1 DEF Penalise
    <3>. QED  BY <2>4, <3>2, <3>3 DEF Penalise, NextLane, Abort, Lanes
  <2>. QED  BY <1>3, <2>1, <2>2, <2>3, <2>4 DEF Work
<1>4. CASE UNCHANGED vars
  BY <1>4 DEF vars
<1>. QED  BY <1>1, <1>2, <1>3, <1>4 DEF Next

(* Every reachable state is well-typed: in particular no streak, however   *)
(* long, backs a lane off for more than the cap.                           *)
THEOREM TypeCorrect == Spec => []TypeOK
<1>1. Init => TypeOK
  BY ExponentAssumption, BackoffAssumption DEF Init, TypeOK, Lanes
<1>. QED  BY <1>1, TypeStep, PTL DEF Spec
-----------------------------------------------------------------------------
LEMMA BackoffStep ==
  TypeOK /\ BackoffFitsStreak /\ [Next]_vars => BackoffFitsStreak'
<1>. DEFINE Due(n) == IF n = 0 THEN 0 ELSE Delay(n - 1)
<1>. SUFFICES ASSUME TypeOK, BackoffFitsStreak, [Next]_vars,
                     NEW l \in Lanes
              PROVE  backoff'[l] <= Due(streak'[l])
  BY DEF BackoffFitsStreak
<1>1. /\ streak[l] \in 0 .. MaxStreak /\ streak[l] \in Nat
      /\ backoff[l] \in Nat /\ backoff[l] <= Due(streak[l])
  BY ExponentAssumption, BackoffAssumption DEF TypeOK, BackoffFitsStreak
<1>2. ASSUME NEW n \in Nat, NEW m \in Nat, n <= m
      PROVE  Due(n) \in Nat /\ Due(m) \in Nat /\ Due(n) <= Due(m)
  <2>1. \A k \in Nat : Delay(k) \in Nat
    BY DelayFact, IntervalAssumption, BackoffAssumption
  <2>2. n # 0 => Delay(n - 1) <= Delay(m - 1)
    BY <1>2, DelayFact
  <2>3. \A k \in Nat : k # 0 => Delay(k - 1) \in Nat
    BY <2>1
  <2>. QED  BY <1>2, <2>2, <2>3
<1>3. ASSUME UNCHANGED streak, backoff'[l] \in Nat, backoff'[l] <= backoff[l]
      PROVE  backoff'[l] <= Due(streak'[l])
  <2>1. Due(streak[l]) \in Nat
    BY <1>1, <1>2
  <2>. HIDE DEF Due
  <2>. QED  BY <1>1, <1>3, <2>1
<1>4. CASE Tick
  BY <1>1, <1>3, <1>4 DEF Tick
<1>5. CASE \/ \E k \in Lanes : Report(k) \/ ComeUp(k)
           \/ UNCHANGED vars
           \/ \E f \in Flushers : \/ Flush(f) \/ Drain(f) \/ Sent(f) \/ Requeue(f)
                                  \/ Skip(f) \/ Cancelled(f)
  BY <1>1, <1>3, <1>5 DEF Report, ComeUp, vars, Flush, Drain, Sent, Requeue, Skip,
     Cancelled
<1>6. ASSUME NEW f \in Flushers, Forgive(f)
      PROVE  backoff'[l] <= Due(streak'[l])
  <2>1. CASE l = lane[f]
    BY <1>6, <2>1 DEF Forgive, TypeOK
  <2>2. CASE l # lane[f]
    BY <1>1, <1>6, <2>2 DEF Forgive, TypeOK
  <2>. QED  BY <2>1, <2>2
(* The streak grows.  The backoff is either set from it, or, when the      *)
(* exponent overflows, stays what an earlier, shorter streak called for.   *)
<1>7. ASSUME NEW f \in Flushers, Penalise(f)
      PROVE  backoff'[l] <= Due(streak'[l])
  <2>1. CASE l # lane[f]
    BY <1>1, <1>7, <2>1 DEF Penalise, TypeOK
  <2>2. CASE l = lane[f]
    <3>. DEFINE more == Min({streak[l] + 1, MaxStreak})
    <3>1. /\ more \in 1 .. MaxStreak /\ streak[l] <= more
          /\ ~Overflows(streak[l]) => Delay(streak[l]) <= Delay(more - 1)
      BY <1>1, StreakFact
    <3>2. streak'[l] = more
      BY <1>7, <2>2 DEF Penalise, TypeOK
    <3>. HIDE DEF more
    <3>3. more \in Nat /\ more # 0
      BY <3>1
    <3>4. CASE Overflows(streak[l])
      <4>1. backoff'[l] = backoff[l]
        BY <1>7, <2>2, <3>4 DEF Penalise
      <4>2. Due(streak[l]) \in Nat /\ Due(more) \in Nat /\ Due(streak[l]) <= Due(more)
        BY <1>1, <1>2, <3>1, <3>3
      <4>. HIDE DEF Due
      <4>. QED  BY <1>1, <3>2, <4>1, <4>2
    <3>5. CASE ~Overflows(streak[l])
      <4>1. backoff'[l] = Delay(streak[l])
        BY <1>7, <2>2, <3>5 DEF Penalise, TypeOK
      <4>. QED  BY <3>1, <3>2, <3>3, <3>5, <4>1
    <3>. QED  BY <3>4, <3>5
  <2>. QED  BY <2>1, <2>2
<1>. QED  BY <1>4, <1>5, <1>6, <1>7 DEF Next, Work

(* However concurrent flushes interleave, a lane without a streak does not *)
(* back off, and one with a streak no longer than that streak calls for.   *)
THEOREM BackoffCorrect == Spec => []BackoffFitsStreak
<1>1. Init => BackoffFitsStreak
  BY DEF Init, BackoffFitsStreak
<1>. QED  BY <1>1, TypeCorrect, BackoffStep, PTL DEF Spec

(* The overflow is the only failure that sets no backoff: while the power  *)
(* can be computed, each counted failure puts the lane off by a flush      *)
(* interval at least and by the cap at most.                               *)
OtherFailuresBackOff ==
  [][\A f \in Flushers : Penalise(f) /\ ~Overflows(streak[lane[f]])
       => backoff'[lane[f]] \in FlushInterval .. MaxBackoff]_vars

THEOREM OverflowIsTheException == Spec => OtherFailuresBackOff
<1>1. TypeOK /\ [Next]_vars =>
        [\A f \in Flushers : Penalise(f) /\ ~Overflows(streak[lane[f]])
           => backoff'[lane[f]] \in FlushInterval .. MaxBackoff]_vars
  <2>. SUFFICES ASSUME TypeOK, NEW f \in Flushers, Penalise(f),
                       ~Overflows(streak[lane[f]])
                PROVE  backoff'[lane[f]] \in FlushInterval .. MaxBackoff
    OBVIOUS
  <2>1. Delay(streak[lane[f]]) \in FlushInterval .. MaxBackoff
    BY DelayFact, ExponentAssumption DEF TypeOK
  <2>2. backoff'[lane[f]] = Delay(streak[lane[f]])
    BY DEF Penalise, TypeOK
  <2>. QED  BY <2>1, <2>2
<1>. QED  BY <1>1, TypeCorrect, PTL DEF Spec, OtherFailuresBackOff

(* Once the collector accepts a lane, the lane is put off only by flushes  *)
(* that had failed before, each once (_flush_events, _flush_metrics).      *)
THEOREM LaneRecovers == Spec => PenaltiesRunOut
<1>. DEFINE Passes(l) == /\ Failing(l)' \subseteq Failing(l)
                         /\ backoff'[l] <= backoff[l] \/ Failing(l)' # Failing(l)
<1>1. TypeOK /\ [Next]_vars => [\A l \in Lanes : up[l] => Passes(l)]_vars
  <2>. SUFFICES ASSUME TypeOK, Next, NEW l \in Lanes, up[l]
                PROVE  Passes(l)
    OBVIOUS
  <2>1. backoff[l] \in Nat
    BY BackoffAssumption DEF TypeOK
  <2>2. CASE Tick
    BY <2>1, <2>2 DEF Tick, Failing
  <2>3. CASE \E k \in Lanes : Report(k) \/ ComeUp(k)
    BY <2>1, <2>3 DEF Report, ComeUp, Failing
  <2>4. ASSUME NEW f \in Flushers, Work(f) \/ Cancelled(f)
        PROVE  Passes(l)
    <3>1. \A g \in Flushers : g # f => pc'[g] = pc[g] /\ lane'[g] = lane[g]
      BY <2>4 DEF TypeOK, Work, Flush, Skip, Drain, Sent, Forgive, Requeue, Penalise,
         Cancelled, NextLane, Abort
    <3>2. f \in Failing(l)' => f \in Failing(l)
      BY <2>4 DEF TypeOK, Work, Flush, Skip, Drain, Sent, Forgive, Requeue, Penalise,
         Cancelled, NextLane, Abort, Failing
    <3>3. Failing(l)' \subseteq Failing(l)
      BY <3>1, <3>2 DEF Failing
    <3>4. CASE Penalise(f)
      <4>1. CASE lane[f] = l
        <5>1. f \in Failing(l) /\ f \notin Failing(l)'
          BY <3>4, <4>1 DEF TypeOK, Penalise, NextLane, Abort, Failing
        <5>. QED  BY <3>3, <5>1
      <4>2. CASE lane[f] # l
        BY <2>1, <3>3, <3>4, <4>2 DEF TypeOK, Penalise
      <4>. QED  BY <4>1, <4>2
    <3>5. CASE Forgive(f)
      <4>1. backoff'[l] \in {0, backoff[l]} /\ 0 <= backoff[l]
        BY <3>5, BackoffAssumption DEF TypeOK, Forgive
      <4>. QED  BY <2>1, <3>3, <4>1
    <3>6. CASE \/ Flush(f) \/ Skip(f) \/ Drain(f) \/ Sent(f) \/ Requeue(f)
               \/ Cancelled(f)
      <4>1. backoff' = backoff
        BY <3>6 DEF Flush, Skip, Drain, Sent, Requeue, Cancelled
      <4>. QED  BY <2>1, <3>3, <4>1
    <3>. QED  BY <2>4, <3>4, <3>5, <3>6 DEF Work
  <2>. QED  BY <2>2, <2>3, <2>4 DEF Next
<1>. QED  BY <1>1, TypeCorrect, PTL DEF Spec, PenaltiesRunOut
=============================================================================
