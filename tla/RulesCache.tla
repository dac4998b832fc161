------------------------------ MODULE RulesCache ------------------------------
(***************************************************************************)
(* get_dynamic_rules: the rules loop and any number of application calls   *)
(* share one cached copy of the rules, without a lock.  Each call takes    *)
(* its time stamp before it asks the collector and stores what it got      *)
(* after the answer, so that answers may be stored in any order while the  *)
(* collector goes on publishing.                                           *)
(*                                                                         *)
(* Rules are their version, 0 for none.  Time is kept as ages, capped at   *)
(* MaxAge; wall clock adjustments are left out.                            *)
(***************************************************************************)
EXTENDS Integers, Sequences

CONSTANTS
  Callers,      \* tasks that call get_dynamic_rules
  RulesLoop,    \* the one of them that does so forever
  Ttls,         \* DynamicRules.ttl of what the collector publishes
  MaxVersion,   \* bound: versions published
  MaxAge        \* bound: older than this is not told apart

ASSUME CallersAssumption == RulesLoop \in Callers
ASSUME VersionAssumption == MaxVersion \in Nat
ASSUME AgeAssumption == MaxAge \in Nat /\ Ttls \subseteq 0..MaxAge

VARIABLES
  ttl,          \* of each version the collector has published so far
  outdated,     \* for how long each version has been replaced by a newer one
  cached,       \* _cached_rules
  stampAge,     \* current time minus _rules_last_update
  pc,           \* "idle", "asking" the collector, or "answered"
  startAge,     \* current time minus the call's current_time
  answer        \* the version the collector answered with

collectorVars == <<ttl, outdated>>
cacheVars     == <<cached, stampAge>>
callVars      == <<pc, startAge, answer>>
vars == <<collectorVars, cacheVars, callVars>>

Latest == Len(ttl)
Older(age) == IF age < MaxAge THEN age + 1 ELSE MaxAge
-----------------------------------------------------------------------------
Init ==
  /\ ttl = << >> /\ outdated = << >>
  /\ cached = 0 /\ stampAge = MaxAge
  /\ pc = [c \in Callers |-> "idle"]
  /\ startAge = [c \in Callers |-> 0]
  /\ answer = [c \in Callers |-> 0]

Publish ==
  /\ Latest < MaxVersion
  /\ \E t \in Ttls : ttl' = Append(ttl, t)
  /\ outdated' = Append(outdated, 0)
  /\ UNCHANGED <<cacheVars, callVars>>

Tick ==
  /\ outdated' = [v \in DOMAIN outdated |->
                    IF v < Latest THEN Older(outdated[v]) ELSE 0]
  /\ stampAge' = Older(stampAge)
  /\ startAge' = [c \in Callers |->
                    IF pc[c] = "idle" THEN 0 ELSE Older(startAge[c])]
  /\ UNCHANGED <<ttl, cached, pc, answer>>

UsableForever ==        \* mutant: the age of the copy is not looked at
  cached # 0
Usable == cached # 0 /\ stampAge < ttl[cached]

(* A call that finds a usable copy returns it and changes nothing.         *)
Ask(c) ==
  /\ pc[c] = "idle"
  /\ ~Usable
  /\ pc' = [pc EXCEPT ![c] = "asking"]
  /\ startAge' = [startAge EXCEPT ![c] = 0]
  /\ UNCHANGED <<collectorVars, cacheVars, answer>>

Answer(c) ==            \* the collector answers; the answer is under way
  /\ pc[c] = "asking"
  /\ pc' = [pc EXCEPT ![c] = "answered"]
  /\ answer' = [answer EXCEPT ![c] = Latest]
  /\ UNCHANGED <<collectorVars, cacheVars, startAge>>

Done(c) ==
  /\ pc' = [pc EXCEPT ![c] = "idle"]
  /\ startAge' = [startAge EXCEPT ![c] = 0]
  /\ answer' = [answer EXCEPT ![c] = 0]

StoreNow(c) ==          \* mutant: stamped when the answer is stored
  /\ pc[c] = "answered"
  /\ IF answer[c] # 0 THEN cached' = answer[c] /\ stampAge' = 0
                      ELSE UNCHANGED cacheVars
  /\ Done(c)
  /\ UNCHANGED collectorVars

Store(c) ==
  /\ pc[c] = "answered"
  /\ IF answer[c] # 0 THEN cached' = answer[c] /\ stampAge' = startAge[c]
                      ELSE UNCHANGED cacheVars
  /\ Done(c)
  /\ UNCHANGED collectorVars

(* The attempts are used up, the answer is invalid, or the call is         *)
(* cancelled: the copy is kept, but not returned.                          *)
Fail(c) ==
  /\ pc[c] # "idle"
  /\ Done(c)
  /\ UNCHANGED <<collectorVars, cacheVars>>

Next ==
  \/ Publish \/ Tick
  \/ \E c \in Callers : Ask(c) \/ Answer(c) \/ Store(c) \/ Fail(c)

Spec == Init /\ [][Next]_vars

(* Time passes, the rules loop keeps asking, and of its calls not all fail. *)
FairSpec ==
  /\ Spec
  /\ WF_vars(Tick) /\ WF_vars(Ask(RulesLoop))
  /\ SF_vars(Answer(RulesLoop)) /\ SF_vars(Store(RulesLoop))
-----------------------------------------------------------------------------
TypeOK ==
  /\ ttl \in Seq(Ttls) /\ Latest <= MaxVersion
  /\ outdated \in Seq(0..MaxAge) /\ Len(outdated) = Latest
  /\ cached \in 0..Latest /\ stampAge \in 0..MaxAge
  /\ cached = 0 => stampAge = MaxAge
  /\ pc \in [Callers -> {"idle", "asking", "answered"}]
  /\ startAge \in [Callers -> 0..MaxAge]
  /\ answer \in [Callers -> 0..Latest]

(* Rules that a call returns from the cache were the collector's rules at  *)
(* some moment within the last ttl seconds: slow answers and answers that  *)
(* overtake each other do not stretch the time to live.                    *)
WithinTtl == Usable => outdated[cached] < ttl[cached]

(* The part of Converges that needs no fairness: while nothing new is      *)
(* published, no further answer can be outdated, and the latest rules are  *)
(* replaced only by one of the outdated answers, which is then used up.    *)
Stale == {c \in Callers : answer[c] \notin {0, Latest}}
StaleRunsOut ==
  [][Latest' = Latest =>
       /\ Stale' \subseteq Stale
       /\ cached = Latest /\ cached' # Latest => Stale' # Stale]_vars

(* Once the collector publishes no more, the agent ends up with the last   *)
(* rules and keeps them, though a late answer may bring older rules back   *)
(* for a while.                                                            *)
Converges == <>[](cached = Latest)
=============================================================================
