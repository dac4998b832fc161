---------------------------- MODULE RulesCacheProofs ---------------------------
(***************************************************************************)
(* Rules that get_dynamic_rules returns from its cache are never older     *)
(* than their time to live, for any number of concurrent calls, any        *)
(* delays, and any times to live.                                          *)
(***************************************************************************)
EXTENDS RulesCache, SequenceTheorems, TLAPS

(* No version can have been outdated for longer than the stamp it is       *)
(* stored with, or will be stored with, is old.                            *)
LatestInForce == Latest # 0 => outdated[Latest] = 0
CacheStamped  == cached # 0 => outdated[cached] <= stampAge
AnswerStamped ==
  \A c \in Callers : pc[c] = "answered" /\ answer[c] # 0 =>
                       outdated[answer[c]] <= startAge[c]

IInv == TypeOK /\ LatestInForce /\ CacheStamped /\ AnswerStamped

LEMMA OlderFact ==
  ASSUME NEW a \in 0..MaxAge, NEW b \in 0..MaxAge
  PROVE  Older(a) \in 0..MaxAge /\ (a <= b => Older(a) <= Older(b))
  BY AgeAssumption DEF Older

LEMMA Start == Init => IInv
  BY AgeAssumption, VersionAssumption DEF Init, IInv, TypeOK, LatestInForce, CacheStamped, AnswerStamped, Latest

LEMMA StepPublish == IInv /\ Publish => IInv'
<1> SUFFICES ASSUME IInv, Publish PROVE IInv'
  OBVIOUS
<1> USE AgeAssumption, VersionAssumption
<1>1. PICK t \in Ttls : ttl' = Append(ttl, t)
  BY DEF Publish
<1>2. /\ ttl \in Seq(Ttls) /\ outdated \in Seq(0..MaxAge) /\ Len(outdated) = Len(ttl)
      /\ Len(ttl) \in Nat
  BY DEF IInv, TypeOK, Latest
<1>3. /\ ttl' \in Seq(Ttls) /\ Len(ttl') = Len(ttl) + 1
      /\ outdated' \in Seq(0..MaxAge) /\ Len(outdated') = Len(ttl) + 1
  BY <1>1, <1>2 DEF Publish
<1>4. \A v \in 1..Len(ttl) : outdated'[v] = outdated[v]
  BY <1>2 DEF Publish
<1>5. outdated'[Len(ttl) + 1] = 0
  BY <1>2 DEF Publish
<1>6. TypeOK'
  BY <1>2, <1>3 DEF IInv, TypeOK, Publish, cacheVars, callVars, Latest
<1>7. LatestInForce'
  BY <1>3, <1>5 DEF LatestInForce, Latest
<1>8. CacheStamped'
  BY <1>2, <1>4 DEF IInv, TypeOK, CacheStamped, Publish, cacheVars, Latest
<1>9. AnswerStamped'
  BY <1>2, <1>4 DEF IInv, TypeOK, AnswerStamped, Publish, callVars, Latest
<1> QED
  BY <1>6, <1>7, <1>8, <1>9 DEF IInv

LEMMA StepTick == IInv /\ Tick => IInv'
<1> SUFFICES ASSUME IInv, Tick PROVE IInv'
  OBVIOUS
<1> USE AgeAssumption, VersionAssumption
<1>1. /\ ttl \in Seq(Ttls) /\ outdated \in Seq(0..MaxAge) /\ Len(outdated) = Len(ttl)
      /\ Len(ttl) \in Nat /\ DOMAIN outdated = 1..Len(ttl)
      /\ \A v \in 1..Len(ttl) : outdated[v] \in 0..MaxAge
  BY DEF IInv, TypeOK, Latest
<1>2. outdated' = [v \in 1..Len(ttl) |-> IF v < Len(ttl) THEN Older(outdated[v]) ELSE 0]
  BY <1>1 DEF Tick, Latest
<1>3. \A v \in 1..Len(ttl) : outdated'[v] \in 0..MaxAge /\ outdated'[v] <= Older(outdated[v])
  BY <1>1, <1>2, OlderFact
<1>4. outdated' \in Seq(0..MaxAge) /\ Len(outdated') = Len(ttl)
  <2>1. outdated' \in [1..Len(ttl) -> 0..MaxAge]
    BY <1>2, <1>3
  <2> QED
    BY <2>1, <1>1, SeqDef
<1>5. stampAge' \in 0..MaxAge /\ \A a \in 0..MaxAge : a <= stampAge => Older(a) <= stampAge'
  BY OlderFact DEF Tick, IInv, TypeOK
<1>6. startAge' \in [Callers -> 0..MaxAge]
  BY OlderFact DEF Tick, IInv, TypeOK
<1>7. \A c \in Callers : pc[c] # "idle" =>
        \A a \in 0..MaxAge : a <= startAge[c] => Older(a) <= startAge'[c]
  BY OlderFact DEF Tick, IInv, TypeOK
<1>8. TypeOK'
  <2>1. cached = 0 => stampAge' = MaxAge
    BY DEF Tick, Older, IInv, TypeOK
  <2> QED
    BY <1>1, <1>4, <1>5, <1>6, <2>1 DEF IInv, TypeOK, Tick, Latest
<1>9. LatestInForce'
  BY <1>1, <1>2 DEF LatestInForce, Tick, Latest
<1>10. CacheStamped'
  <2> SUFFICES ASSUME cached # 0 PROVE outdated'[cached] <= stampAge'
    BY DEF CacheStamped, Tick
  <2>1. cached \in 1..Len(ttl) /\ outdated[cached] <= stampAge
    BY <1>1 DEF IInv, TypeOK, CacheStamped, Latest
  <2>2. Older(outdated[cached]) <= stampAge'
    BY <2>1, <1>1, <1>5
  <2>3. Older(outdated[cached]) \in 0..MaxAge
    BY <2>1, <1>1, OlderFact
  <2> QED
    BY <2>1, <2>2, <2>3, <1>3, <1>5
<1>11. AnswerStamped'
  <2> SUFFICES ASSUME NEW c \in Callers, pc[c] = "answered", answer[c] # 0
               PROVE  outdated'[answer[c]] <= startAge'[c]
    BY DEF AnswerStamped, Tick
  <2>1. answer[c] \in 1..Len(ttl) /\ outdated[answer[c]] <= startAge[c]
    BY <1>1 DEF IInv, TypeOK, AnswerStamped, Latest
  <2>2. Older(outdated[answer[c]]) <= startAge'[c]
    BY <2>1, <1>1, <1>7
  <2>3. Older(outdated[answer[c]]) \in 0..MaxAge
    BY <2>1, <1>1, OlderFact
  <2> QED
    BY <2>1, <2>2, <2>3, <1>3, <1>6
<1> QED
  BY <1>8, <1>9, <1>10, <1>11 DEF IInv

LEMMA StepCall ==
  ASSUME IInv, NEW c \in Callers, Ask(c) \/ Answer(c) \/ Store(c) \/ Fail(c)
  PROVE  IInv'
<1> USE AgeAssumption, VersionAssumption
<1>1. CASE Ask(c)
  BY <1>1 DEF IInv, TypeOK, LatestInForce, CacheStamped, AnswerStamped, Latest, Ask, collectorVars, cacheVars
<1>2. CASE Answer(c)
  BY <1>2 DEF IInv, TypeOK, LatestInForce, CacheStamped, AnswerStamped, Latest, Answer, collectorVars, cacheVars
<1>3. CASE Store(c)
  <2>1. TypeOK'
    BY <1>3 DEF IInv, TypeOK, Latest, Store, Done, collectorVars, cacheVars
  <2>2. LatestInForce' /\ CacheStamped'
    BY <1>3 DEF IInv, TypeOK, LatestInForce, CacheStamped, AnswerStamped, Latest, Store, Done, collectorVars, cacheVars
  <2>3. AnswerStamped'
    BY <1>3 DEF IInv, TypeOK, AnswerStamped, Latest, Store, Done, collectorVars
  <2> QED
    BY <2>1, <2>2, <2>3 DEF IInv
<1>4. CASE Fail(c)
  BY <1>4 DEF IInv, TypeOK, LatestInForce, CacheStamped, AnswerStamped, Latest, Fail, Done, collectorVars, cacheVars
<1> QED
  BY <1>1, <1>2, <1>3, <1>4

(* The types and the ages of the stamps, in every reachable state.         *)
THEOREM RulesInvariance == Spec => []IInv
<1>1. IInv /\ [Next]_vars => IInv'
  <2> SUFFICES ASSUME IInv, [Next]_vars PROVE IInv'
    OBVIOUS
  <2>1. CASE UNCHANGED vars
    BY <2>1 DEF vars, collectorVars, cacheVars, callVars, IInv, TypeOK, LatestInForce,
                CacheStamped, AnswerStamped, Latest
  <2> QED
    BY <2>1, StepPublish, StepTick, StepCall DEF Next
<1> QED
  BY Start, <1>1, PTL DEF Spec

(* Rules returned from the cache were in force within the last ttl         *)
(* seconds (get_dynamic_rules).                                            *)
THEOREM ServedWithinTtl == Spec => []WithinTtl
<1>1. IInv => WithinTtl
  <2> SUFFICES ASSUME IInv, Usable PROVE outdated[cached] < ttl[cached]
    BY DEF WithinTtl
  <2>1. cached \in 1..Len(ttl) /\ Len(outdated) = Len(ttl)
    BY DEF IInv, TypeOK, Usable, Latest
  <2>2. ttl \in Seq(Ttls) /\ outdated \in Seq(0..MaxAge) /\ stampAge \in 0..MaxAge
    BY DEF IInv, TypeOK
  <2>3. ttl[cached] \in Ttls
    BY <2>1, <2>2, ElementOfSeq
  <2>5. outdated[cached] \in 0..MaxAge
    BY <2>1, <2>2, ElementOfSeq
  <2>4. /\ ttl[cached] \in 0..MaxAge /\ outdated[cached] \in 0..MaxAge
        /\ stampAge \in 0..MaxAge /\ MaxAge \in Nat
    <3>1. ttl[cached] \in 0..MaxAge
      BY <2>3, AgeAssumption
    <3> QED
      BY <2>2, <2>5, <3>1, AgeAssumption
  <2> QED
    BY <2>4 DEF IInv, CacheStamped, Usable
<1> QED
  BY RulesInvariance, <1>1, PTL

(* While nothing new is published, the latest rules are replaced only by   *)
(* answers that were outdated already, each once (get_dynamic_rules).      *)
THEOREM StaleAnswersEnd == Spec => StaleRunsOut
<1> DEFINE Fresher == /\ Stale' \subseteq Stale
                      /\ cached = Latest /\ cached' # Latest => Stale' # Stale
<1>1. IInv /\ [Next]_vars => [Latest' = Latest => Fresher]_vars
  <2> SUFFICES ASSUME IInv, Next, Latest' = Latest PROVE Fresher
    OBVIOUS
  <2>1. CASE Publish
    <3>1. PICK t \in Ttls : ttl' = Append(ttl, t)
      BY <2>1 DEF Publish
    <3>2. Len(ttl') = Len(ttl) + 1 /\ Len(ttl) \in Nat
      BY <3>1 DEF IInv, TypeOK
    <3> QED
      BY <3>2 DEF Latest
  <2>2. CASE Tick
    BY <2>2 DEF Tick, Stale
  <2>3. ASSUME NEW c \in Callers, Ask(c) \/ Answer(c) \/ Store(c) \/ Fail(c)
        PROVE  Fresher
    <3>1. \A d \in Callers : d # c => answer'[d] = answer[d]
      BY <2>3 DEF IInv, TypeOK, Ask, Answer, Store, Fail, Done
    <3>2. answer'[c] \in {answer[c], 0, Latest}
      BY <2>3 DEF IInv, TypeOK, Ask, Answer, Store, Fail, Done
    <3>3. Stale' \subseteq Stale
      BY <3>1, <3>2 DEF Stale
    <3>4. CASE Store(c) /\ cached = Latest /\ cached' # Latest
      <4>1. answer[c] \notin {0, Latest} /\ answer'[c] = 0
        BY <3>4 DEF IInv, TypeOK, Store, Done, cacheVars
      <4>2. c \in Stale /\ c \notin Stale'
        BY <4>1 DEF Stale
      <4> QED
        BY <3>3, <4>2
    <3>5. CASE Ask(c) \/ Answer(c) \/ Fail(c)
      BY <3>3, <3>5 DEF Ask, Answer, Fail, cacheVars
    <3> QED
      BY <2>3, <3>3, <3>4, <3>5
  <2> QED
    BY <2>1, <2>2, <2>3 DEF Next
<1> QED
  BY RulesInvariance, <1>1, PTL DEF Spec, StaleRunsOut
=============================================================================
