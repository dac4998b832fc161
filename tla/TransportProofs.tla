------------------------------ MODULE TransportProofs --------------------------
(***************************************************************************)
(* Proofs about the HTTP transport, for any set of callers, any mix of     *)
(* operations, any batch size, retry budget, window and threshold.         *)
(*                                                                         *)
(* The inductive invariant is split by the state it is about: what each    *)
(* caller's send has done so far (SendInv, one condition Good on the       *)
(* values of one caller), the limiter's list (WindowInv), and the breaker  *)
(* (BreakerInv).  Each part has one lemma per kind of step.                *)
(***************************************************************************)
EXTENDS Transport, FiniteSetTheorems, SequenceTheorems, TLAPS

-----------------------------------------------------------------------------
(* Arithmetic and lists.                                                   *)

(* The smaller of two numbers is a number.                                 *)
LEMMA MinFact ==
  ASSUME NEW a \in Nat, NEW b \in Nat
  PROVE  Min({a, b}) \in Nat
<1>1. \E x \in {a, b} : \A y \in {a, b} : x <= y
  OBVIOUS
<1>2. Min({a, b}) \in {a, b}
  BY <1>1 DEF Min
<1>. QED  BY <1>2

(* A power of two is the size of a power set, hence a natural number.      *)
LEMMA BackoffFact ==
  ASSUME NEW n \in Nat
  PROVE  Backoff(n) \in Nat
<1>1. IsFiniteSet(1 .. n) /\ Cardinality(1 .. n) = n
  BY FS_Interval
<1>2. 2^n \in Nat
  BY <1>1, FS_SUBSET, FS_CardinalityType
<1>. QED  BY <1>2, MinFact, RetryAssumption DEF Backoff

(* On a list that is oldest first, Newer drops a prefix.                   *)
LEMMA NewerFact ==
  ASSUME NEW s \in Seq(Nat), NEW w \in Nat,
         \A i, j \in 1 .. Len(s) : i <= j => s[i] >= s[j]
  PROVE  \E k \in 0 .. Len(s) :
           /\ Limiter!Newer(s, w) = SubSeq(s, k + 1, Len(s))
           /\ \A i \in 1 .. Len(s) : i <= k <=> s[i] >= w
<1>. DEFINE old == {n \in 1 .. Len(s) : s[n] >= w}
            c == Cardinality(old)
            Cut(k) == \A n \in 1 .. Len(s) : n <= k <=> s[n] >= w
            e == CHOOSE k \in 0 .. Len(s) : Cut(k)
<1>1. Len(s) \in Nat /\ \A i \in 1 .. Len(s) : s[i] \in Nat
  OBVIOUS
<1>2. \A i \in Nat : IsFiniteSet(1 .. i) /\ Cardinality(1 .. i) = i
  BY FS_Interval
<1>3. IsFiniteSet(old) /\ c \in Nat /\ c <= Len(s)
  <2>1. old \in SUBSET (1 .. Len(s))
    OBVIOUS
  <2>2. IsFiniteSet(1 .. Len(s)) /\ Cardinality(1 .. Len(s)) = Len(s)
    BY <1>1, <1>2
  <2>. HIDE DEF old
  <2>3. IsFiniteSet(old) /\ Cardinality(old) <= Cardinality(1 .. Len(s))
    BY <2>1, <2>2, FS_Subset
  <2>. QED  BY <2>2, <2>3, FS_CardinalityType
<1>4. ASSUME NEW j \in old PROVE j \in 1 .. c
  <2>1. (1 .. j) \in SUBSET old
    BY <1>1
  <2>2. j \in Nat /\ j >= 1
    BY <1>1
  <2>. HIDE DEF old
  <2>3. Cardinality(1 .. j) <= Cardinality(old) /\ Cardinality(1 .. j) = j
    BY <1>2, <1>3, <2>1, <2>2, FS_Subset
  <2>. QED  BY <1>3, <2>2, <2>3
<1>5. old = 1 .. c
  <2>. HIDE DEF old
  <2>1. old \in SUBSET (1 .. c) /\ Cardinality(1 .. c) = c /\ IsFiniteSet(1 .. c)
    BY <1>2, <1>3, <1>4
  <2>. QED  BY <1>3, <2>1, FS_Subset
<1>6. Cut(c)
  <2>1. \A i \in 1 .. Len(s) : i \in old <=> s[i] >= w
    OBVIOUS
  <2>. HIDE DEF old
  <2>. QED  BY <1>3, <1>5, <2>1
<1>7. e \in 0 .. Len(s) /\ Cut(e)
  <2>1. c \in 0 .. Len(s)
    BY <1>1, <1>3
  <2>. HIDE DEF Cut, c
  <2>. QED  BY <1>6, <2>1
<1>8. Limiter!Newer(s, w) = SubSeq(s, e + 1, Len(s))
  BY DEF Limiter!Newer
<1>. HIDE DEF e
<1>. QED  BY <1>7, <1>8

(* The two halves of a segment of several items lie end to end in it.      *)
LEMMA HalvesFact ==
  ASSUME NEW a \in Nat, NEW b \in Nat, a < b
  PROVE  \E m \in a .. b - 1 : Halves(<<a, b>>) = << <<a, m>>, <<m + 1, b>> >>
<1>. DEFINE mid == a + ((b - a + 1) \div 2) - 1
<1>1. mid \in a .. b - 1
  OBVIOUS
<1>2. Halves(<<a, b>>) = << <<a, mid>>, <<mid + 1, b>> >>
  BY DEF Halves
<1>. HIDE DEF mid
<1>. QED  BY <1>1, <1>2
-----------------------------------------------------------------------------
(* One caller's send, as a condition on its own values: what is left to    *)
(* send, the attempt, the result so far, the size, what was settled, the   *)
(* requests made, and how many of them (none or one) are in flight.        *)

Pairs == (1 .. MaxBatch) \X (1 .. MaxBatch)

(* The attempts of x segments.                                             *)
K == RetryAttempts + 1
Units(x) == x * K

(* The items done with, and the segments done with or put aside by a cut:  *)
(* b items are covered by at most 2b - 1 segments, whole ones and halves.  *)
Before(t, n) == IF t # <<>> THEN t[1][1] - 1 ELSE n
Spent(t, n) == 2 * Before(t, n) + Len(t) - 1

(* The segments lie end to end, and each leaves room for those after it.   *)
Linked(t, n) ==
  \A i \in 1 .. Len(t) : /\ t[i][1] <= t[i][2]
                         /\ t[i][1] + (Len(t) - i) <= n
                         /\ t[i][2] = IF i = Len(t) THEN n ELSE t[i + 1][1] - 1

(* The condition: types, the chain, what is settled, the request in flight *)
(* and the requests made.                                                  *)
Good(t, a, r, n, g, q, f) ==
  /\ /\ t \in Seq(Pairs) /\ a \in 0 .. RetryAttempts + 1 /\ r \in BOOLEAN
     /\ n \in 0 .. MaxBatch /\ g \subseteq 1 .. MaxBatch /\ q \in Nat
     /\ f \in {0, 1}
  /\ Linked(t, n)
  /\ g \subseteq 1 .. Before(t, n) /\ (r => g = 1 .. Before(t, n))
  /\ f = 1 => t # <<>> /\ a <= RetryAttempts
  /\ t # <<>> => q <= Units(Spent(t, n)) + (a + f)
  /\ q <= Units(2 * n - 1) \/ n = 0

(* What the proofs know of a unit, the attempts of one segment.            *)
LEMMA UnitsFact ==
  /\ K \in Nat \ {0} /\ Units(0) = 0
  /\ \A x \in Int : Units(x) \in Int /\ Units(x + 1) = Units(x) + K
  /\ \A x, y \in Int : x <= y => Units(x) <= Units(y)
<1>1. K \in Nat \ {0}
  BY RetryAssumption DEF K
<1>. QED  BY <1>1 DEF Units

(* A send begins.                                                          *)
LEMMA GoodStart ==
  ASSUME NEW n \in 1 .. MaxBatch
  PROVE  Good(<< <<1, n>> >>, 0, TRUE, n, {}, 0, 0)
<1>. DEFINE t == << <<1, n>> >>
<1>1. t \in Seq(Pairs) /\ Len(t) = 1 /\ t[1] = <<1, n>> /\ t # <<>>
  BY BatchAssumption DEF Pairs
<1>. HIDE DEF t
<1>2. Linked(t, n) /\ Before(t, n) = 0
  BY <1>1 DEF Linked, Before
<1>3. n \in Nat \ {0} /\ MaxBatch \in Nat /\ RetryAttempts \in Nat
  BY BatchAssumption, RetryAssumption
<1>4. 0 <= Units(Spent(t, n)) + (0 + 0)
  <2>1. Spent(t, n) = 0
    BY <1>1, <1>2 DEF Spent
  <2>2. Units(Spent(t, n)) = 0
    BY <2>1, UnitsFact
  <2>. QED  BY <2>2
<1>5. 0 <= Units(2 * n - 1)
  <2>1. 2 * n - 1 \in Int /\ 0 <= 2 * n - 1
    BY <1>3
  <2>. QED  BY <2>1, UnitsFact
<1>6. 1 .. 0 = {} /\ n \in 0 .. MaxBatch /\ 0 \in 0 .. RetryAttempts + 1
  BY <1>3
<1>7. Good(t, 0, TRUE, n, {}, 0, 0)
  BY <1>1, <1>2, <1>4, <1>5, <1>6 DEF Good
<1>. QED  BY <1>7 DEF t

(* The first segment: it begins where the settled ones end.                *)
LEMMA FirstFact ==
  ASSUME NEW t \in Seq(Pairs), NEW n \in 0 .. MaxBatch, Linked(t, n), t # <<>>
  PROVE  /\ Len(t) \in Nat \ {0} /\ Head(t) = t[1] /\ t[1] \in Pairs
         /\ t[1][1] \in 1 .. n /\ t[1][2] \in t[1][1] .. n
         /\ t[1] = <<t[1][1], t[1][2]>>
         /\ n \in Nat \ {0}
         /\ Len(t) <= n - t[1][1] + 1
         /\ Tail(t) \in Seq(Pairs) /\ Len(Tail(t)) = Len(t) - 1
         /\ \A i \in 1 .. Len(t) - 1 : Tail(t)[i] = t[i + 1]
         /\ Linked(Tail(t), n) /\ Before(Tail(t), n) = t[1][2]
<1>. DEFINE u == Tail(t)
            l == Len(t)
<1>1. /\ l \in Nat \ {0} /\ Head(t) = t[1]
      /\ \A i \in 1 .. l : t[i] \in Pairs
      /\ u \in Seq(Pairs) /\ Len(u) = l - 1
      /\ \A i \in 1 .. l - 1 : u[i] = t[i + 1]
  OBVIOUS
<1>2. \A i \in 1 .. l : /\ t[i][1] \in Nat \ {0} /\ t[i][2] \in Nat
                        /\ t[i] = <<t[i][1], t[i][2]>>
  BY <1>1, BatchAssumption DEF Pairs
<1>3. \A i \in 1 .. l : /\ t[i][1] <= t[i][2] /\ t[i][1] + (l - i) <= n
                        /\ t[i][2] = IF i = l THEN n ELSE t[i + 1][1] - 1
  BY DEF Linked
<1>. HIDE DEF u, l
<1>4. n \in Nat
  BY BatchAssumption
<1>5. Linked(u, n)
  <2>. SUFFICES ASSUME NEW i \in 1 .. l - 1
                PROVE  /\ u[i][1] <= u[i][2]
                       /\ u[i][1] + (l - 1 - i) <= n
                       /\ u[i][2] = IF i = l - 1 THEN n ELSE u[i + 1][1] - 1
    BY <1>1 DEF Linked
  <2>. DEFINE j == i + 1
  <2>1. j \in 1 .. l /\ j - 1 = i /\ u[i] = t[j]
    BY <1>1
  <2>2. i # l - 1 => u[i + 1] = t[j + 1]
    BY <1>1
  <2>3. /\ t[j][1] <= t[j][2] /\ t[j][1] + (l - j) <= n
        /\ t[j][2] = IF j = l THEN n ELSE t[j + 1][1] - 1
    BY <1>3, <2>1
  <2>4. l - j = l - 1 - i /\ (j = l <=> i = l - 1)
    BY <1>1
  <2>. HIDE DEF j
  <2>. QED  BY <2>1, <2>2, <2>3, <2>4
<1>6. 1 \in 1 .. l /\ (l # 1 => 2 \in 1 .. l /\ u[1] = t[2])
  BY <1>1
<1>7. /\ t[1][1] \in Nat \ {0} /\ t[1][2] \in Nat /\ t[1] = <<t[1][1], t[1][2]>>
      /\ t[1][1] <= t[1][2] /\ t[1][1] + (l - 1) <= n
      /\ t[1][2] = IF l = 1 THEN n ELSE t[2][1] - 1
  <2>1. 1 + 1 = 2
    OBVIOUS
  <2>. QED  BY <1>2, <1>3, <1>6, <2>1
<1>8. l # 1 => t[2][1] \in Nat /\ t[2][1] <= n
  <2>. SUFFICES ASSUME l # 1 PROVE t[2][1] \in Nat /\ t[2][1] <= n
    OBVIOUS
  <2>1. t[2][1] \in Nat /\ t[2][1] + (l - 2) <= n /\ l >= 2
    BY <1>1, <1>2, <1>3, <1>6
  <2>. QED  BY <1>1, <1>4, <2>1
<1>9. Before(u, n) = t[1][2]
  <2>1. CASE l = 1
    <3>1. u = <<>>
      BY <1>1, <2>1
    <3>. QED  BY <1>7, <2>1, <3>1 DEF Before
  <2>2. CASE l # 1
    <3>1. u # <<>>
      BY <1>1, <2>2
    <3>. QED  BY <1>6, <1>7, <2>2, <3>1 DEF Before
  <2>. QED  BY <2>1, <2>2
<1>10. t[1][1] \in 1 .. n /\ t[1][2] \in t[1][1] .. n /\ n \in Nat \ {0}
  BY <1>1, <1>4, <1>7, <1>8
<1>11. l <= n - t[1][1] + 1
  BY <1>1, <1>4, <1>7
<1>. QED  BY <1>1, <1>5, <1>6, <1>7, <1>9, <1>10, <1>11 DEF u, l

-----------------------------------------------------------------------------
(* What a send in progress looks like, as numbers.                         *)
LEMMA SendingFact ==
  ASSUME NEW t, NEW a, NEW r, NEW n, NEW g, NEW q, NEW f,
         Good(t, a, r, n, g, q, f), t # <<>>
  PROVE  /\ t \in Seq(Pairs) /\ Linked(t, n) /\ n \in 0 .. MaxBatch
         /\ MaxBatch \in Nat /\ n \in Nat \ {0} /\ n <= MaxBatch
         /\ q \in Nat /\ a \in Nat /\ f \in {0, 1}
         /\ a + f \in 0 .. K /\ K \in Nat \ {0}
         /\ q <= Units(Spent(t, n)) + (a + f)
         /\ Before(t, n) = t[1][1] - 1 /\ Before(t, n) \in 0 .. n - 1
         /\ Len(t) \in 1 .. n - Before(t, n)
         /\ Spent(t, n) = 2 * Before(t, n) + Len(t) - 1
         /\ Spent(t, n) \in 0 .. 2 * n - 2
         /\ Units(Spent(t, n)) \in Int
<1>1. /\ t \in Seq(Pairs) /\ n \in 0 .. MaxBatch /\ Linked(t, n) /\ q \in Nat
      /\ a \in 0 .. RetryAttempts + 1 /\ f \in {0, 1}
      /\ (f = 1 => a <= RetryAttempts)
      /\ q <= Units(Spent(t, n)) + (a + f)
  BY DEF Good
<1>2. /\ Len(t) \in Nat \ {0} /\ t[1][1] \in 1 .. n /\ n \in Nat \ {0}
      /\ Len(t) <= n - t[1][1] + 1
  BY <1>1, FirstFact
<1>3. Before(t, n) = t[1][1] - 1
  BY DEF Before
<1>4. Before(t, n) \in 0 .. n - 1 /\ Len(t) \in 1 .. n - Before(t, n)
  BY <1>2, <1>3
<1>5. Spent(t, n) = 2 * Before(t, n) + Len(t) - 1
  BY DEF Spent
<1>6. Spent(t, n) \in 0 .. 2 * n - 2
  BY <1>2, <1>4, <1>5
<1>7. MaxBatch \in Nat /\ n <= MaxBatch
  BY <1>1, BatchAssumption
<1>8. a \in Nat /\ a + f \in 0 .. K
  BY <1>1, RetryAssumption DEF K
<1>9. Units(Spent(t, n)) \in Int /\ K \in Nat \ {0}
  <2>1. Spent(t, n) \in Int
    BY <1>2, <1>6
  <2>. QED  BY <2>1, UnitsFact
<1>. QED  BY <1>1, <1>2, <1>3, <1>4, <1>5, <1>6, <1>7, <1>8, <1>9

(* A failed attempt.                                                       *)
LEMMA GoodRetry ==
  ASSUME NEW t, NEW a, NEW r, NEW n, NEW g, NEW q, NEW f,
         Good(t, a, r, n, g, q, f), t # <<>>, a <= RetryAttempts
  PROVE  Good(t, a + 1, r, n, g, q, 0)
<1>1. /\ q <= Units(Spent(t, n)) + (a + f) /\ Units(Spent(t, n)) \in Int
      /\ q \in Nat /\ a \in Nat /\ f \in {0, 1}
  BY SendingFact
<1>2. q <= Units(Spent(t, n)) + ((a + 1) + 0)
  BY <1>1
<1>3. a + 1 \in 0 .. RetryAttempts + 1
  BY <1>1, RetryAssumption
<1>. QED  BY <1>2, <1>3 DEF Good

(* An attempt makes its request.                                           *)
LEMMA GoodRequest ==
  ASSUME NEW t, NEW a, NEW r, NEW n, NEW g, NEW q,
         Good(t, a, r, n, g, q, 0), t # <<>>, a <= RetryAttempts
  PROVE  Good(t, a, r, n, g, q + 1, 1)
<1>. DEFINE x == Spent(t, n)
<1>1. /\ q <= Units(x) + (a + 0) /\ Units(x) \in Int /\ q \in Nat /\ a \in Nat
      /\ x \in 0 .. 2 * n - 2 /\ n \in Nat \ {0} /\ K \in Nat \ {0}
  BY SendingFact
<1>2. q + 1 \in Nat /\ q + 1 <= Units(x) + (a + 1)
  BY <1>1
<1>3. a + 1 <= K
  BY <1>1, RetryAssumption DEF K
<1>4. q + 1 <= Units(2 * n - 1)
  <2>1. x \in Int /\ x + 1 \in Int /\ 2 * n - 1 \in Int /\ x + 1 <= 2 * n - 1
    BY <1>1
  <2>2. /\ Units(x + 1) = Units(x) + K /\ Units(x + 1) <= Units(2 * n - 1)
        /\ Units(2 * n - 1) \in Int
    BY <2>1, UnitsFact
  <2>. QED  BY <1>1, <1>2, <1>3, <2>2
<1>. QED  BY <1>2, <1>4 DEF Good

(* The send is cancelled.                                                  *)
LEMMA GoodCancel ==
  ASSUME NEW t, NEW a, NEW r, NEW n, NEW g, NEW q, NEW f,
         Good(t, a, r, n, g, q, f)
  PROVE  Good(<<>>, 0, FALSE, n, g, q, 0)
<1>1. n \in Nat /\ Before(t, n) \in Int /\ Before(t, n) <= n
  <2>1. n \in Nat
    BY BatchAssumption DEF Good
  <2>2. CASE t = <<>>
    BY <2>1, <2>2 DEF Before
  <2>3. CASE t # <<>>
    <3>1. n \in Nat \ {0} /\ Before(t, n) \in 0 .. n - 1
      BY <2>3, SendingFact
    <3>. QED  BY <3>1
  <2>. QED  BY <2>1, <2>2, <2>3
<1>2. g \subseteq 1 .. n
  <2>1. g \subseteq 1 .. Before(t, n)
    BY DEF Good
  <2>. QED  BY <1>1, <2>1
<1>3. <<>> \in Seq(Pairs) /\ Len(<<>>) = 0 /\ Before(<<>>, n) = n
  BY DEF Before
<1>4. Linked(<<>>, n)
  BY <1>3 DEF Linked
<1>5. 0 \in 0 .. RetryAttempts + 1
  BY RetryAssumption
<1>6. n \in 0 .. MaxBatch /\ g \subseteq 1 .. MaxBatch /\ q \in Nat
      /\ (q <= Units(2 * n - 1) \/ n = 0)
  BY DEF Good
<1>. QED  BY <1>2, <1>3, <1>4, <1>5, <1>6 DEF Good

(* The attempts of a segment are used up when it is done with or cut, so   *)
(* one unit more covers the requests made so far.                          *)
LEMMA UnitUsed ==
  ASSUME NEW t, NEW a, NEW r, NEW n, NEW g, NEW q, NEW f,
         Good(t, a, r, n, g, q, f), t # <<>>,
         NEW z \in Int, Spent(t, n) + 1 <= z
  PROVE  q <= Units(z)
<1>. DEFINE x == Spent(t, n)
<1>1. /\ q <= Units(x) + (a + f) /\ Units(x) \in Int /\ q \in Nat
      /\ a + f \in 0 .. K /\ K \in Nat \ {0}
      /\ n \in Nat \ {0} /\ x \in 0 .. 2 * n - 2
  BY SendingFact
<1>2. x \in Int /\ x + 1 \in Int
  BY <1>1
<1>3. /\ Units(x + 1) = Units(x) + K /\ Units(x + 1) <= Units(z)
      /\ Units(z) \in Int
  BY <1>2, UnitsFact
<1>. HIDE DEF x
<1>. QED  BY <1>1, <1>3

(* A segment is done: if its result is True it was settled.                *)
LEMMA GoodReturn ==
  ASSUME NEW t, NEW a, NEW r, NEW n, NEW g, NEW q, NEW f,
         Good(t, a, r, n, g, q, f), t # <<>>,
         NEW v \in BOOLEAN, NEW h,
         h = g \cup (t[1][1] .. t[1][2]) \/ (h = g /\ ~v),
         NEW w \in BOOLEAN, w => r /\ v
  PROVE  Good(Tail(t), 0, w, n, h, q, 0)
<1>. DEFINE b == t[1][2]
            u == Tail(t)
<1>1. /\ t \in Seq(Pairs) /\ n \in 0 .. MaxBatch /\ Linked(t, n)
      /\ MaxBatch \in Nat /\ n \in Nat \ {0} /\ n <= MaxBatch /\ q \in Nat
      /\ Before(t, n) = t[1][1] - 1 /\ Before(t, n) \in 0 .. n - 1
      /\ Len(t) \in 1 .. n - Before(t, n)
      /\ Spent(t, n) = 2 * Before(t, n) + Len(t) - 1
      /\ Spent(t, n) \in 0 .. 2 * n - 2
  BY SendingFact
<1>2. /\ b \in t[1][1] .. n /\ t[1][1] \in 1 .. n
      /\ u \in Seq(Pairs) /\ Len(u) = Len(t) - 1
      /\ Linked(u, n) /\ Before(u, n) = b
  BY <1>1, FirstFact
<1>3. /\ g \subseteq 1 .. t[1][1] - 1 /\ (r => g = 1 .. t[1][1] - 1)
      /\ r \in BOOLEAN
  BY <1>1 DEF Good
<1>4. h = g \cup (t[1][1] .. b) \/ (h = g /\ ~v)
  OBVIOUS
<1>. HIDE DEF b, u
(* What is settled.                                                        *)
<1>. DEFINE c == t[1][1]
            l == Len(t)
            z == Spent(u, n)
            x == Spent(t, n)
<1>n. /\ c \in Nat \ {0} /\ b \in Nat /\ c <= b /\ b <= MaxBatch
      /\ MaxBatch \in Nat /\ l \in Nat \ {0} /\ n \in Nat \ {0}
      /\ x = 2 * (c - 1) + l - 1 /\ x <= 2 * n - 2
      /\ z = 2 * b + (l - 1) - 1
  <2>1. c \in Nat \ {0} /\ n \in Nat \ {0} /\ b \in c .. n /\ n <= MaxBatch
    <3>1. n \in Nat \ {0} /\ n <= MaxBatch
      BY <1>1
    <3>2. c \in 1 .. n /\ b \in c .. n
      BY <1>2
    <3>. HIDE DEF c
    <3>. QED  BY <3>1, <3>2
  <2>2. MaxBatch \in Nat
    BY <1>1
  <2>3. b \in Nat /\ c <= b /\ b <= MaxBatch
    <3>. HIDE DEF c
    <3>. QED  BY <2>1, <2>2
  <2>4. l \in Nat \ {0}
    BY <1>1
  <2>5. x = 2 * (c - 1) + l - 1
    BY <1>1
  <2>6. x <= 2 * n - 2
    BY <1>1
  <2>7. z = 2 * b + (l - 1) - 1
    BY <1>2 DEF Spent
  <2>. HIDE DEF c, l, x, z
  <2>. QED  BY <2>1, <2>2, <2>3, <2>4, <2>5, <2>6, <2>7
<1>5. /\ 1 .. b = (1 .. t[1][1] - 1) \cup (t[1][1] .. b)
      /\ 1 .. b \subseteq 1 .. MaxBatch
  <2>. HIDE DEF c
  <2>1. /\ 1 .. b = (1 .. c - 1) \cup (c .. b)
        /\ 1 .. b \subseteq 1 .. MaxBatch
    BY <1>n
  <2>. QED  BY <2>1 DEF c
<1>6. /\ h \subseteq 1 .. Before(u, n) /\ h \subseteq 1 .. MaxBatch
      /\ (w => h = 1 .. Before(u, n))
  BY <1>2, <1>3, <1>4, <1>5
(* The budget.                                                             *)
<1>7. u # <<>> => q <= Units(Spent(u, n)) + (0 + 0)
  <2>1. z \in Int /\ x + 1 <= z
    <3>. HIDE DEF c, l, x, z
    <3>. QED  BY <1>n
  <2>2. Spent(u, n) \in Int /\ Spent(t, n) + 1 <= Spent(u, n)
    BY <2>1
  <2>3. q <= Units(Spent(u, n))
    BY <2>2, UnitUsed
  <2>4. Units(Spent(u, n)) \in Int
    BY <2>2, UnitsFact
  <2>. QED  BY <2>3, <2>4
<1>8. q <= Units(2 * n - 1)
  <2>1. 2 * n - 1 \in Int /\ x + 1 <= 2 * n - 1
    <3>. HIDE DEF c, l, x, z
    <3>. QED  BY <1>n
  <2>. QED  BY <2>1, UnitUsed
<1>9. 0 \in 0 .. RetryAttempts + 1
  BY RetryAssumption
<1>10. Good(u, 0, w, n, h, q, 0)
  BY <1>1, <1>2, <1>6, <1>7, <1>8, <1>9 DEF Good
<1>. QED  BY <1>10 DEF u

(* The list of segments when the first is cut in two.                      *)
LEMMA CutFact ==
  ASSUME NEW t \in Seq(Pairs), t # <<>>, NEW x \in Pairs, NEW y \in Pairs
  PROVE  LET u == <<x, y>> \o Tail(t)
         IN /\ u \in Seq(Pairs) /\ Len(u) = Len(t) + 1
            /\ u[1] = x /\ u[2] = y
            /\ \A i \in 3 .. Len(t) + 1 : u[i] = t[i - 1]
<1>. DEFINE first == <<x, y>>
            v == Tail(t)
            l == Len(t)
            u == first \o v
<1>1. /\ l \in Nat \ {0} /\ v \in Seq(Pairs) /\ Len(v) = l - 1
      /\ \A i \in 1 .. l - 1 : v[i] = t[i + 1]
  OBVIOUS
<1>2. /\ first \in Seq(Pairs) /\ Len(first) = 2 /\ first[1] = x /\ first[2] = y
  OBVIOUS
<1>. HIDE DEF first, v, l
<1>3. /\ u \in Seq(Pairs) /\ Len(u) = 2 + (l - 1)
      /\ \A i \in 1 .. 2 + (l - 1) :
           u[i] = IF i <= 2 THEN first[i] ELSE v[i - 2]
  <2>1. /\ u \in Seq(Pairs) /\ Len(u) = Len(first) + Len(v)
        /\ \A i \in 1 .. Len(first) + Len(v) :
             u[i] = IF i <= Len(first) THEN first[i] ELSE v[i - Len(first)]
    BY <1>1, <1>2, ConcatProperties
  <2>. HIDE DEF u
  <2>. QED  BY <1>1, <1>2, <2>1
<1>. HIDE DEF u
<1>4. Len(u) = l + 1 /\ 2 + (l - 1) = l + 1
  BY <1>1, <1>3
<1>5. u[1] = x /\ u[2] = y
  <2>1. 1 \in 1 .. 2 + (l - 1) /\ 2 \in 1 .. 2 + (l - 1)
    BY <1>1
  <2>. QED  BY <1>2, <1>3, <2>1
<1>6. ASSUME NEW i \in 3 .. l + 1 PROVE u[i] = t[i - 1]
  <2>1. i \in 1 .. 2 + (l - 1) /\ ~(i <= 2) /\ i - 2 \in 1 .. l - 1
        /\ (i - 2) + 1 = i - 1
    BY <1>1
  <2>2. u[i] = v[i - 2]
    BY <1>3, <2>1
  <2>3. v[i - 2] = t[(i - 2) + 1]
    BY <1>1, <2>1
  <2>. QED  BY <2>1, <2>2, <2>3
<1>. QED  BY <1>3, <1>4, <1>5, <1>6 DEF u, first, v, l

(* A segment is cut in two.                                                *)
LEMMA GoodSplit ==
  ASSUME NEW t, NEW a, NEW r, NEW n, NEW g, NEW q, NEW f,
         Good(t, a, r, n, g, q, f), t # <<>>, t[1][1] < t[1][2]
  PROVE  Good(Halves(Head(t)) \o Tail(t), 0, r, n, g, q, 0)
<1>. DEFINE b == t[1][1]
            e == t[1][2]
            l == Len(t)
            u == Halves(Head(t)) \o Tail(t)
<1>1. /\ t \in Seq(Pairs) /\ n \in 0 .. MaxBatch /\ Linked(t, n)
      /\ MaxBatch \in Nat /\ n \in Nat \ {0} /\ n <= MaxBatch /\ q \in Nat
      /\ Before(t, n) = b - 1 /\ Before(t, n) \in 0 .. n - 1
      /\ l \in 1 .. n - Before(t, n)
      /\ Spent(t, n) = 2 * Before(t, n) + l - 1
      /\ Spent(t, n) \in 0 .. 2 * n - 2
  BY SendingFact
<1>2. /\ l \in Nat \ {0} /\ Head(t) = <<b, e>>
      /\ b \in 1 .. n /\ e \in b .. n /\ b < e
  BY <1>1, FirstFact
<1>3. \A i \in 1 .. l : /\ t[i][1] <= t[i][2] /\ t[i][1] + (l - i) <= n
                        /\ t[i][2] = IF i = l THEN n ELSE t[i + 1][1] - 1
                        /\ t[i][1] \in Int /\ t[i][2] \in Int
  <2>1. \A i \in 1 .. l : t[i] \in Pairs
    BY <1>1
  <2>2. \A p \in Pairs : p[1] \in Int /\ p[2] \in Int
    BY BatchAssumption DEF Pairs
  <2>3. \A i \in 1 .. l : t[i][1] \in Int /\ t[i][2] \in Int
    BY <2>1, <2>2
  <2>4. Linked(t, n)
    BY <1>1
  <2>. QED  BY <2>3, <2>4 DEF Linked
<1>4. e = (IF l = 1 THEN n ELSE t[2][1] - 1) /\ (l # 1 => t[2][1] + (l - 2) <= n /\ t[2][1] \in Int)
  <2>1. 1 \in 1 .. l /\ 1 + 1 = 2 /\ (l # 1 => 2 \in 1 .. l)
    <3>1. l \in Nat \ {0}
      BY <1>2
    <3>. HIDE DEF l
    <3>. QED  BY <3>1
  <2>. QED  BY <1>3, <2>1
<1>5. t \in Seq(Pairs) /\ t # <<>>
  BY <1>1
<1>6. \A x, y \in Pairs :
        LET w == <<x, y>> \o Tail(t)
        IN /\ w \in Seq(Pairs) /\ Len(w) = l + 1 /\ w[1] = x /\ w[2] = y
           /\ \A i \in 3 .. l + 1 : w[i] = t[i - 1]
  BY <1>5, CutFact
<1>7. Good(t, a, r, n, g, q, f) /\ t # <<>>
  OBVIOUS
<1>. HIDE DEF b, e, l
<1>8. PICK m \in b .. e - 1 : Halves(<<b, e>>) = << <<b, m>>, <<m + 1, e>> >>
  <2>1. b \in Nat /\ e \in Nat
    BY <1>1, <1>2
  <2>. QED  BY <1>2, <2>1, HalvesFact
<1>9. <<b, m>> \in Pairs /\ <<m + 1, e>> \in Pairs /\ m \in Int
  <2>1. /\ b \in 1 .. MaxBatch /\ m \in 1 .. MaxBatch /\ m + 1 \in 1 .. MaxBatch
        /\ e \in 1 .. MaxBatch
    BY <1>1, <1>2, <1>8
  <2>. QED  BY <2>1 DEF Pairs
<1>10. u = << <<b, m>>, <<m + 1, e>> >> \o Tail(t)
  BY <1>2, <1>8
<1>. HIDE DEF u
<1>11. /\ u \in Seq(Pairs) /\ Len(u) = l + 1
       /\ u[1] = <<b, m>> /\ u[2] = <<m + 1, e>>
       /\ \A i \in 3 .. l + 1 : u[i] = t[i - 1]
  BY <1>6, <1>9, <1>10
<1>12. u[1][1] = b /\ u[1][2] = m /\ u[2][1] = m + 1 /\ u[2][2] = e
  BY <1>11
(* The chain, with one segment more.                                       *)
<1>13. e + (l - 1) <= n
  BY <1>1, <1>2, <1>4
<1>14. Linked(u, n)
  <2>. SUFFICES ASSUME NEW i \in 1 .. Len(u)
                PROVE  /\ u[i][1] <= u[i][2] /\ u[i][1] + (Len(u) - i) <= n
                       /\ u[i][2] = IF i = Len(u) THEN n ELSE u[i + 1][1] - 1
    BY DEF Linked
  <2>. DEFINE Link(k) ==
                /\ u[i][1] <= u[i][2] /\ u[i][1] + (k - i) <= n
                /\ u[i][2] = IF i = k THEN n ELSE u[i + 1][1] - 1
  <2>0. /\ i \in 1 .. l + 1 /\ Len(u) = l + 1 /\ i \in Int /\ l \in Int
        /\ n \in Int /\ b \in Int /\ m \in Int /\ e \in Int
    BY <1>1, <1>2, <1>9, <1>11
  <2>1. ASSUME i = 1 PROVE Link(l + 1)
    <3>1. u[i][1] = b /\ u[i][2] = m /\ u[i + 1][1] = m + 1 /\ i # l + 1
      BY <1>2, <1>12, <2>1
    <3>2. b <= m /\ b + (l + 1 - 1) <= n /\ m = (m + 1) - 1
      BY <1>1, <1>2, <1>8, <1>9, <1>13
    <3>3. u[i][1] <= u[i][2] /\ u[i][1] + (l + 1 - i) <= n
      BY <2>1, <3>1, <3>2
    <3>4. u[i][2] = IF i = l + 1 THEN n ELSE u[i + 1][1] - 1
      BY <3>1, <3>2
    <3>. QED  BY <2>0, <3>3, <3>4
  <2>2. ASSUME i = 2 PROVE Link(l + 1)
    <3>1. u[i][1] = m + 1 /\ u[i][2] = e
      BY <1>12, <2>2
    <3>2. m + 1 <= e /\ (m + 1) + (l + 1 - 2) <= n
      BY <1>1, <1>2, <1>8, <1>9, <1>13
    <3>3. i = l + 1 <=> l = 1
      BY <1>2, <2>2
    <3>4. l # 1 => u[i + 1] = t[2]
      <4>1. l # 1 => 3 \in 3 .. l + 1 /\ 3 - 1 = 2 /\ i + 1 = 3
        BY <1>2, <2>2
      <4>. QED  BY <1>11, <4>1
    <3>5. u[i][1] <= u[i][2] /\ u[i][1] + (l + 1 - i) <= n
      BY <2>2, <3>1, <3>2
    <3>6. u[i][2] = IF i = l + 1 THEN n ELSE u[i + 1][1] - 1
      BY <1>4, <3>1, <3>3, <3>4
    <3>. QED  BY <2>0, <3>5, <3>6
  <2>3. ASSUME i \in 3 .. l + 1 PROVE Link(l + 1)
    <3>. DEFINE j == i - 1
    <3>1. u[i] = t[j] /\ j \in 1 .. l /\ l + 1 - i = l - j /\ (i = l + 1 <=> j = l)
      BY <1>2, <1>11, <2>3
    <3>2. i # l + 1 => u[i + 1] = t[j + 1]
      <4>1. i # l + 1 => i + 1 \in 3 .. l + 1 /\ (i + 1) - 1 = j + 1
        BY <1>2, <2>3
      <4>. QED  BY <1>11, <4>1
    <3>. HIDE DEF j
    <3>3. u[i][1] <= u[i][2] /\ u[i][1] + (l + 1 - i) <= n
      BY <1>3, <3>1
    <3>4. u[i][2] = IF i = l + 1 THEN n ELSE u[i + 1][1] - 1
      BY <1>3, <3>1, <3>2
    <3>. QED  BY <2>0, <3>3, <3>4
  <2>4. Link(l + 1)
    <3>. HIDE DEF Link
    <3>. QED  BY <1>2, <2>0, <2>1, <2>2, <2>3
  <2>5. Link(Len(u))
    <3>. HIDE DEF Link
    <3>. QED  BY <2>0, <2>4
  <2>. QED  BY <2>5
<1>15. u # <<>> /\ Before(u, n) = Before(t, n)
  <2>1. u # <<>>
    BY <1>2, <1>11
  <2>. QED  BY <1>1, <1>12, <2>1 DEF Before
<1>16. q <= Units(Spent(u, n)) + (0 + 0)
  <2>1. Spent(u, n) = 2 * Before(t, n) + (l + 1) - 1
    BY <1>11, <1>15 DEF Spent
  <2>2. Spent(u, n) \in Int /\ Spent(t, n) + 1 <= Spent(u, n)
    BY <1>1, <1>2, <2>1
  <2>3. q <= Units(Spent(u, n))
    BY <1>7, <2>2, UnitUsed
  <2>4. Units(Spent(u, n)) \in Int
    BY <2>2, UnitsFact
  <2>. QED  BY <2>3, <2>4
<1>17. /\ r \in BOOLEAN /\ g \subseteq 1 .. MaxBatch
       /\ g \subseteq 1 .. Before(u, n) /\ (r => g = 1 .. Before(u, n))
       /\ q <= Units(2 * n - 1) \/ n = 0
       /\ 0 \in 0 .. RetryAttempts + 1
  BY <1>7, <1>15, RetryAssumption DEF Good
<1>18. n \in 0 .. MaxBatch /\ q \in Nat /\ 0 \in {0, 1} /\ 0 # 1
  BY DEF Good
<1>19. Good(u, 0, r, n, g, q, 0)
  BY <1>11, <1>14, <1>15, <1>16, <1>17, <1>18, Zenon DEF Good
<1>. QED  BY <1>19 DEF u

-----------------------------------------------------------------------------
(* The limiter's lists: s is the list of calls, h the grants of the last   *)
(* Window seconds.                                                         *)

Sorted(s) == \A m, n \in 1 .. Len(s) : m <= n => s[m] >= s[n]
Kept(s, h) ==
  LET older == Len(s) - Len(h)
  IN older >= 0 /\ \A n \in 1 .. Len(h) : h[n] = s[n + older]

(* The limiter's constants.                                                *)
LEMMA WindowFact == MaxCalls \in Nat \ {0} /\ Window \in Nat \ {0}
BY LimiterAssumption

(* A list is a list over any set that holds its elements.                  *)
LEMMA SubtypeFact ==
  ASSUME NEW S, NEW T, NEW v \in Seq(S), \A i \in 1 .. Len(v) : v[i] \in T
  PROVE  v \in Seq(T)
<1>1. Len(v) \in Nat /\ v = [i \in 1 .. Len(v) |-> v[i]]
  OBVIOUS
<1>2. v \in [1 .. Len(v) -> T]
  BY <1>1, Zenon
<1>. QED  BY <1>1, <1>2

(* Newer keeps the end of a list that is oldest first.                     *)
LEMMA SuffixFact ==
  ASSUME NEW s \in Seq(0 .. Window), Sorted(s)
  PROVE  \E k \in 0 .. Len(s) :
           LET v == Limiter!Newer(s, Window)
           IN /\ v \in Seq(0 .. Window - 1) /\ Len(v) = Len(s) - k
              /\ \A i \in 1 .. Len(v) : v[i] = s[i + k]
              /\ \A i \in 1 .. k : s[i] >= Window
              /\ Sorted(v)
<1>1. s \in Seq(Nat) /\ Window \in Nat \ {0} /\ Len(s) \in Nat
      /\ \A i \in 1 .. Len(s) : s[i] \in 0 .. Window
  BY WindowFact
<1>2. \A i, j \in 1 .. Len(s) : i <= j => s[i] >= s[j]
  BY DEF Sorted
<1>3. PICK k \in 0 .. Len(s) :
           /\ Limiter!Newer(s, Window) = SubSeq(s, k + 1, Len(s))
           /\ \A i \in 1 .. Len(s) : i <= k <=> s[i] >= Window
  BY <1>1, <1>2, NewerFact
<1>. DEFINE v == SubSeq(s, k + 1, Len(s))
<1>4. /\ v \in Seq(0 .. Window) /\ Len(v) = Len(s) - k
      /\ \A i \in 1 .. Len(s) - k : v[i] = s[i + k]
  <2>1. k + 1 \in 1 .. Len(s) + 1 /\ Len(s) \in k .. Len(s)
    BY <1>1
  <2>2. v \in Seq(0 .. Window)
    BY <1>1, <2>1
  <2>3. Len(v) = Len(s) - k
    BY <1>1, <2>1
  <2>4. ASSUME NEW i \in 1 .. Len(s) - k PROVE v[i] = s[i + k]
    <3>1. v[i] = s[k + 1 + i - 1] /\ k + 1 + i - 1 = i + k
      BY <1>1, <2>1
    <3>. QED  BY <3>1
  <2>. QED  BY <2>2, <2>3, <2>4
<1>. HIDE DEF v
<1>5. ASSUME NEW i \in 1 .. Len(v)
      PROVE  v[i] \in 0 .. Window - 1 /\ i + k \in 1 .. Len(s) /\ v[i] = s[i + k]
  <2>1. i + k \in 1 .. Len(s) /\ ~(i + k <= k) /\ v[i] = s[i + k]
    BY <1>1, <1>4
  <2>2. ~(s[i + k] >= Window) /\ s[i + k] \in 0 .. Window
    BY <1>1, <1>3, <2>1
  <2>. QED  BY <1>1, <2>1, <2>2
<1>6. v \in Seq(0 .. Window - 1)
  <2>1. v \in Seq(0 .. Window)
    BY <1>4
  <2>2. \A i \in 1 .. Len(v) : v[i] \in 0 .. Window - 1
    BY <1>5
  <2>. QED  BY <2>1, <2>2, SubtypeFact
<1>7. Sorted(v)
  <2>. SUFFICES ASSUME NEW m \in 1 .. Len(v), NEW n \in 1 .. Len(v), m <= n
                PROVE  v[m] >= v[n]
    BY DEF Sorted
  <2>1. m + k \in 1 .. Len(s) /\ n + k \in 1 .. Len(s) /\ m + k <= n + k
        /\ v[m] = s[m + k] /\ v[n] = s[n + k]
    BY <1>1, <1>4, <1>5
  <2>. QED  BY <1>2, <2>1
<1>8. \A i \in 1 .. k : s[i] >= Window
  BY <1>1, <1>3
<1>9. Limiter!Newer(s, Window) = v
  BY <1>3 DEF v
<1>. QED  BY <1>4, <1>5, <1>6, <1>7, <1>8, <1>9

(* The same for the list that acquire keeps.                               *)
LEMMA LiveFact ==
  ASSUME NEW s \in Seq(0 .. Window), Sorted(s)
  PROVE  \E k \in 0 .. Len(s) :
           LET v == Limiter!Live(s)
           IN /\ v \in Seq(0 .. Window - 1) /\ Len(v) = Len(s) - k
              /\ \A i \in 1 .. Len(v) : v[i] = s[i + k]
              /\ \A i \in 1 .. k : s[i] >= Window
              /\ Sorted(v)
BY SuffixFact DEF Limiter!Live

(* What acquire drops from the list is no grant of the last Window seconds. *)
LEMMA KeptLive ==
  ASSUME NEW s \in Seq(0 .. Window), NEW h \in Seq(0 .. Window - 1),
         Sorted(s), Kept(s, h)
  PROVE  Kept(Limiter!Live(s), h)
<1>. DEFINE v == Limiter!Live(s)
            o == Len(s) - Len(h)
<1>1. PICK k \in 0 .. Len(s) :
              /\ v \in Seq(0 .. Window - 1) /\ Len(v) = Len(s) - k
              /\ \A i \in 1 .. Len(v) : v[i] = s[i + k]
              /\ \A i \in 1 .. k : s[i] >= Window
  BY LiveFact
<1>. HIDE DEF v
<1>2. /\ Len(s) \in Nat /\ Len(h) \in Nat /\ Window \in Nat \ {0}
      /\ \A i \in 1 .. Len(h) : h[i] \in 0 .. Window - 1
      /\ o >= 0 /\ \A n \in 1 .. Len(h) : h[n] = s[n + o]
  BY WindowFact DEF Kept
<1>3. o \in Nat /\ o = Len(s) - Len(h)
  BY <1>2
<1>. HIDE DEF o
<1>4. k <= o
  <2>. SUFFICES ASSUME k > o PROVE FALSE
    BY <1>3
  <2>1. k \in 1 .. k /\ k - o \in 1 .. Len(h) /\ (k - o) + o = k
    BY <1>2, <1>3
  <2>2. s[k] >= Window /\ h[k - o] = s[k] /\ h[k - o] \in 0 .. Window - 1
    BY <1>1, <1>2, <2>1
  <2>. QED  BY <1>2, <2>2
<1>5. Len(v) - Len(h) = o - k /\ o - k >= 0
  BY <1>1, <1>2, <1>3, <1>4
<1>6. ASSUME NEW n \in 1 .. Len(h) PROVE h[n] = v[n + (o - k)]
  <2>1. n + (o - k) \in 1 .. Len(v) /\ n + (o - k) + k = n + o
    BY <1>1, <1>2, <1>3, <1>4
  <2>. QED  BY <1>1, <1>2, <2>1
<1>7. Kept(v, h)
  BY <1>5, <1>6 DEF Kept
<1>. QED  BY <1>7 DEF v

(* A grant is appended to both lists.                                      *)
LEMMA AppendFact ==
  ASSUME NEW s \in Seq(0 .. Window - 1), NEW h \in Seq(0 .. Window - 1),
         Sorted(s), Kept(s, h)
  PROVE  /\ Append(s, 0) \in Seq(0 .. Window) /\ Len(Append(s, 0)) = Len(s) + 1
         /\ Append(h, 0) \in Seq(0 .. Window - 1)
         /\ Sorted(Append(s, 0)) /\ Kept(Append(s, 0), Append(h, 0))
<1>. DEFINE u == Append(s, 0)
            v == Append(h, 0)
<1>1. /\ Window \in Nat \ {0} /\ 0 \in 0 .. Window - 1
      /\ 0 .. Window - 1 \subseteq 0 .. Window
      /\ Len(s) \in Nat /\ Len(h) \in Nat
      /\ \A i \in 1 .. Len(s) : s[i] \in Nat
  BY WindowFact
<1>2. /\ u \in Seq(0 .. Window - 1) /\ Len(u) = Len(s) + 1 /\ u[Len(s) + 1] = 0
      /\ \A i \in 1 .. Len(s) : u[i] = s[i]
  BY <1>1
<1>3. /\ v \in Seq(0 .. Window - 1) /\ Len(v) = Len(h) + 1 /\ v[Len(h) + 1] = 0
      /\ \A i \in 1 .. Len(h) : v[i] = h[i]
  BY <1>1
<1>4. u \in Seq(0 .. Window)
  BY <1>1, <1>2
<1>. HIDE DEF u, v
<1>5. Sorted(u)
  <2>. SUFFICES ASSUME NEW m \in 1 .. Len(u), NEW n \in 1 .. Len(u), m <= n
                PROVE  u[m] >= u[n]
    BY DEF Sorted
  <2>1. CASE n = Len(s) + 1
    <3>1. u[n] = 0
      BY <1>2, <2>1
    <3>2. u[m] \in Nat
      BY <1>1, <1>2
    <3>. QED  BY <3>1, <3>2
  <2>2. CASE n # Len(s) + 1
    <3>1. m \in 1 .. Len(s) /\ n \in 1 .. Len(s)
      BY <1>1, <1>2, <2>2
    <3>2. s[m] >= s[n]
      BY <3>1 DEF Sorted
    <3>. QED  BY <1>2, <3>1, <3>2
  <2>. QED  BY <2>1, <2>2
<1>6. Kept(u, v)
  <2>. DEFINE o == Len(s) - Len(h)
  <2>1. o >= 0 /\ \A n \in 1 .. Len(h) : h[n] = s[n + o]
    BY DEF Kept
  <2>2. Len(u) - Len(v) = o /\ o \in Nat /\ (Len(h) + 1) + o = Len(s) + 1
    BY <1>1, <1>2, <1>3, <2>1
  <2>3. ASSUME NEW n \in 1 .. Len(h) PROVE n + o \in 1 .. Len(s)
    BY <1>1, <2>1
  <2>. HIDE DEF o
  <2>4. ASSUME NEW n \in 1 .. Len(h) + 1 PROVE v[n] = u[n + o]
    <3>1. CASE n = Len(h) + 1
      BY <1>2, <1>3, <2>2, <3>1
    <3>2. CASE n \in 1 .. Len(h)
      BY <1>2, <1>3, <2>1, <2>3, <3>2
    <3>. QED  BY <1>1, <3>1, <3>2
  <2>. QED  BY <1>3, <2>1, <2>2, <2>4 DEF Kept
<1>. QED  BY <1>2, <1>3, <1>4, <1>5, <1>6 DEF u, v

(* A second passes.                                                        *)
LEMMA OlderFact ==
  ASSUME NEW s \in Seq(0 .. Window), Sorted(s)
  PROVE  LET u == Limiter!Older(s)
         IN /\ u \in Seq(0 .. Window) /\ Len(u) = Len(s) /\ Sorted(u)
            /\ \A i \in 1 .. Len(s) :
                 u[i] = IF s[i] < Window THEN s[i] + 1 ELSE s[i]
<1>. DEFINE u == Limiter!Older(s)
            l == Len(s)
<1>1. /\ Window \in Nat \ {0} /\ l \in Nat
      /\ \A i \in 1 .. l : s[i] \in 0 .. Window
      /\ \A m, n \in 1 .. l : m <= n => s[m] >= s[n]
  BY WindowFact DEF Sorted
<1>2. u = [n \in 1 .. l |-> IF s[n] < Window THEN s[n] + 1 ELSE s[n]]
  BY DEF Limiter!Older
<1>. HIDE DEF u, l
<1>3. \A i \in 1 .. l : /\ u[i] = IF s[i] < Window THEN s[i] + 1 ELSE s[i]
                        /\ u[i] \in 0 .. Window
  BY <1>1, <1>2
<1>4. u \in [1 .. l -> 0 .. Window]
  BY <1>2, <1>3
<1>5. u \in Seq(0 .. Window) /\ Len(u) = l
  BY <1>1, <1>4
<1>6. \A m, n \in 1 .. l : m <= n => u[m] >= u[n]
  BY <1>1, <1>3
<1>7. Sorted(u)
  BY <1>5, <1>6 DEF Sorted
<1>. QED  BY <1>3, <1>5, <1>7 DEF u, l

(* The grants of the last Window seconds age with the calls.               *)
LEMMA KeptOlder ==
  ASSUME NEW s \in Seq(0 .. Window), NEW h \in Seq(0 .. Window - 1),
         Sorted(s), Kept(s, h)
  PROVE  LET v == Limiter!Newer(Limiter!Older(h), Window)
         IN v \in Seq(0 .. Window - 1) /\ Kept(Limiter!Older(s), v)
<1>. DEFINE u == Limiter!Older(s)
            w == Limiter!Older(h)
            v == Limiter!Newer(w, Window)
            o == Len(s) - Len(h)
<1>1. /\ Window \in Nat \ {0} /\ Len(s) \in Nat /\ Len(h) \in Nat
      /\ \A i \in 1 .. Len(s) : s[i] \in 0 .. Window
      /\ \A i \in 1 .. Len(h) : h[i] \in 0 .. Window - 1
  BY WindowFact
<1>2. o \in Nat /\ \A n \in 1 .. Len(h) : h[n] = s[n + o]
  BY <1>1 DEF Kept
<1>3. \A n \in 1 .. Len(h) : n + o \in 1 .. Len(s)
  BY <1>1, <1>2
<1>4. h \in Seq(0 .. Window)
  BY <1>1
<1>5. Sorted(h)
  <2>. SUFFICES ASSUME NEW m \in 1 .. Len(h), NEW n \in 1 .. Len(h), m <= n
                PROVE  h[m] >= h[n]
    BY DEF Sorted
  <2>1. m + o \in 1 .. Len(s) /\ n + o \in 1 .. Len(s) /\ m + o <= n + o
    BY <1>1, <1>2, <1>3
  <2>2. s[m + o] >= s[n + o]
    BY <2>1 DEF Sorted
  <2>. QED  BY <1>2, <2>2
<1>6. /\ Len(u) = Len(s)
      /\ \A i \in 1 .. Len(s) : u[i] = IF s[i] < Window THEN s[i] + 1 ELSE s[i]
  BY OlderFact
<1>7. /\ w \in Seq(0 .. Window) /\ Len(w) = Len(h) /\ Sorted(w)
      /\ \A i \in 1 .. Len(h) : w[i] = IF h[i] < Window THEN h[i] + 1 ELSE h[i]
  BY <1>4, <1>5, OlderFact
<1>. HIDE DEF w
<1>8. PICK k \in 0 .. Len(w) :
              /\ v \in Seq(0 .. Window - 1) /\ Len(v) = Len(w) - k
              /\ \A i \in 1 .. Len(v) : v[i] = w[i + k]
  BY <1>7, SuffixFact
<1>9. Len(u) - Len(v) = o + k /\ o + k >= 0
  BY <1>1, <1>2, <1>6, <1>7, <1>8
<1>. HIDE DEF u, v, o
<1>10. ASSUME NEW n \in 1 .. Len(v) PROVE v[n] = u[n + (o + k)]
  <2>1. n + k \in 1 .. Len(h) /\ (n + k) + o = n + (o + k)
    BY <1>1, <1>2, <1>7, <1>8
  <2>2. v[n] = w[n + k] /\ h[n + k] = s[(n + k) + o] /\ (n + k) + o \in 1 .. Len(s)
    BY <1>2, <1>3, <1>8, <2>1
  <2>3. w[n + k] = u[(n + k) + o]
    BY <1>6, <1>7, <2>1, <2>2
  <2>. QED  BY <2>1, <2>2, <2>3
<1>11. Kept(u, v)
  BY <1>9, <1>10 DEF Kept
<1>. QED  BY <1>8, <1>11 DEF u, v, w

(* A denied caller sleeps until the oldest call has left the window.       *)
LEMMA RetryAfterFact ==
  ASSUME NEW s \in Seq(0 .. Window), Sorted(s), s # <<>>
  PROVE  /\ Limiter!RetryAfter(s) \in Nat
         /\ s[1] + Limiter!RetryAfter(s) >= Window
<1>1. /\ Window \in Nat \ {0} /\ Len(s) \in Nat \ {0} /\ 1 \in 1 .. Len(s)
      /\ \A i \in 1 .. Len(s) : s[i] \in 0 .. Window /\ s[1] >= s[i]
  <2>1. /\ Window \in Nat \ {0} /\ Len(s) \in Nat \ {0} /\ 1 \in 1 .. Len(s)
        /\ \A i \in 1 .. Len(s) : s[i] \in 0 .. Window
    BY WindowFact
  <2>. QED  BY <2>1 DEF Sorted
<1>. DEFINE R == Limiter!Range(s)
<1>2. R = {s[i] : i \in 1 .. Len(s)}
  BY DEF Limiter!Range
<1>3. Limiter!Max(R) = s[1]
  <2>1. s[1] \in R /\ \A y \in R : y <= s[1]
    BY <1>1, <1>2
  <2>2. \A x \in R : x \in Int
    BY <1>1, <1>2
  <2>. HIDE DEF R
  <2>3. \E x \in R : \A y \in R : y <= x
    BY <2>1
  <2>4. Limiter!Max(R) \in R /\ \A y \in R : y <= Limiter!Max(R)
    BY <2>3 DEF Limiter!Max
  <2>. QED  BY <2>1, <2>2, <2>4
<1>4. s[1] \in 0 .. Window
  BY <1>1
<1>. DEFINE d == Window - s[1]
            D == {0, d}
<1>5. d \in Nat
  BY <1>1, <1>4
<1>6. Limiter!RetryAfter(s) = Limiter!Max(D)
  BY <1>3 DEF Limiter!RetryAfter
<1>7. Limiter!Max(D) \in D /\ \A y \in D : y <= Limiter!Max(D)
  <2>1. \E x \in D : \A y \in D : y <= x
    BY <1>5
  <2>. HIDE DEF D
  <2>. QED  BY <2>1 DEF Limiter!Max
<1>8. Limiter!Max(D) = d
  <2>. HIDE DEF d
  <2>. QED  BY <1>5, <1>7
<1>. QED  BY <1>1, <1>4, <1>6, <1>8

-----------------------------------------------------------------------------
(* The inductive invariant, in three parts: the sends, the limiter, and    *)
(* what the breaker says of them.                                          *)

Operations == {"batch", "status", "rules"}
Busy(s) == IF s \in inCall THEN 1 ELSE 0
Local(s) ==
  Good(todo[s], attempt[s], ok[s], size[s], settled[s], requests[s], Busy(s))

SendInv ==
  /\ kind \in [Callers -> Operations]
  /\ todo \in [Callers -> Seq(Pairs)]
  /\ attempt \in [Callers -> 0 .. RetryAttempts + 1]
  /\ ok \in [Callers -> BOOLEAN]
  /\ size \in [Callers -> 0 .. MaxBatch]
  /\ settled \in [Callers -> SUBSET (1 .. MaxBatch)]
  /\ requests \in [Callers -> Nat]
  /\ trouble \in BOOLEAN
  /\ inCall \subseteq Callers
  /\ \A s \in Callers : Local(s)

WindowInv ==
  /\ Limiter!TypeOK
  /\ Sorted(calls) /\ Kept(calls, granted)
  /\ Limiter!SleepsLongEnough
  /\ fresh \cap inCall = {}

BreakerInv == Breaker!TypeOK /\ Untroubled /\ starved \subseteq Callers

SInv == SendInv /\ WindowInv /\ BreakerInv

(* One caller moves, and is in a request afterwards (f = 1) or not.        *)
Moves(s, t, a, r, n, g, q) ==
  /\ todo' = [todo EXCEPT ![s] = t] /\ attempt' = [attempt EXCEPT ![s] = a]
  /\ ok' = [ok EXCEPT ![s] = r] /\ size' = [size EXCEPT ![s] = n]
  /\ settled' = [settled EXCEPT ![s] = g]
  /\ requests' = [requests EXCEPT ![s] = q]
Calls(s, f) ==
  /\ f = IF s \in inCall' THEN 1 ELSE 0
  /\ inCall' \subseteq Callers /\ inCall' \ {s} = inCall \ {s}

(* One caller moves: its own values are good, the others keep theirs.      *)
LEMMA LocalStep ==
  ASSUME SendInv, NEW s \in Callers,
         NEW t, NEW a, NEW r, NEW n, NEW g, NEW q, NEW f,
         Good(t, a, r, n, g, q, f),
         Moves(s, t, a, r, n, g, q), Calls(s, f), kind' \in [Callers -> Operations],
         trouble' \in BOOLEAN
  PROVE  SendInv'
<1>1. /\ t \in Seq(Pairs) /\ a \in 0 .. RetryAttempts + 1 /\ r \in BOOLEAN
      /\ n \in 0 .. MaxBatch /\ g \in SUBSET (1 .. MaxBatch) /\ q \in Nat
  BY DEF Good
<1>2. /\ todo' \in [Callers -> Seq(Pairs)]
      /\ attempt' \in [Callers -> 0 .. RetryAttempts + 1]
      /\ ok' \in [Callers -> BOOLEAN]
      /\ size' \in [Callers -> 0 .. MaxBatch]
      /\ settled' \in [Callers -> SUBSET (1 .. MaxBatch)]
      /\ requests' \in [Callers -> Nat]
  BY <1>1 DEF SendInv, Moves
<1>3. ASSUME NEW c \in Callers PROVE Local(c)'
  <2>1. CASE c = s
    <3>1. /\ todo'[s] = t /\ attempt'[s] = a /\ ok'[s] = r /\ size'[s] = n
          /\ settled'[s] = g /\ requests'[s] = q
      BY DEF SendInv, Moves
    <3>2. Busy(s)' = f
      BY DEF Busy, Calls
    <3>. QED  BY <2>1, <3>1, <3>2 DEF Local
  <2>2. CASE c # s
    <3>1. /\ todo'[c] = todo[c] /\ attempt'[c] = attempt[c] /\ ok'[c] = ok[c]
          /\ size'[c] = size[c] /\ settled'[c] = settled[c]
          /\ requests'[c] = requests[c]
      BY <2>2 DEF SendInv, Moves
    <3>2. Busy(c)' = Busy(c)
      BY <2>2 DEF Busy, Calls
    <3>3. Local(c)
      BY DEF SendInv
    <3>. QED  BY <3>1, <3>2, <3>3 DEF Local
  <2>. QED  BY <2>1, <2>2
<1>4. inCall' \subseteq Callers
  BY DEF Calls
<1>. QED  BY <1>2, <1>3, <1>4 DEF SendInv

(* The values of one caller.                                               *)
LEMMA Values ==
  ASSUME SendInv, NEW s \in Callers
  PROVE  /\ Good(todo[s], attempt[s], ok[s], size[s], settled[s], requests[s], Busy(s))
         /\ todo = [todo EXCEPT ![s] = todo[s]]
         /\ attempt = [attempt EXCEPT ![s] = attempt[s]]
         /\ ok = [ok EXCEPT ![s] = ok[s]]
         /\ size = [size EXCEPT ![s] = size[s]]
         /\ settled = [settled EXCEPT ![s] = settled[s]]
         /\ requests = [requests EXCEPT ![s] = requests[s]]
         /\ attempt[s] \in Nat /\ ok[s] \in BOOLEAN
         /\ kind[s] \in Operations
<1>1. Local(s)
  BY DEF SendInv
<1>2. /\ todo = [todo EXCEPT ![s] = todo[s]]
      /\ attempt = [attempt EXCEPT ![s] = attempt[s]]
      /\ ok = [ok EXCEPT ![s] = ok[s]]
      /\ size = [size EXCEPT ![s] = size[s]]
      /\ settled = [settled EXCEPT ![s] = settled[s]]
      /\ requests = [requests EXCEPT ![s] = requests[s]]
  BY DEF SendInv
<1>3. /\ attempt[s] \in Nat /\ ok[s] \in BOOLEAN
      /\ kind[s] \in Operations
  BY RetryAssumption DEF SendInv
<1>. QED  BY <1>1, <1>2, <1>3 DEF Local

(* Nobody moves.                                                           *)
LEMMA SendsIdle ==
  ASSUME SendInv, UNCHANGED <<sendVars, operation, settled, requests, inCall>>,
         trouble' \in BOOLEAN
  PROVE  SendInv'
<1>1. /\ todo' = todo /\ attempt' = attempt /\ ok' = ok /\ size' = size
      /\ settled' = settled /\ requests' = requests /\ kind' = kind
      /\ inCall' = inCall
  BY DEF sendVars, operation
<1>2. \A c \in Callers : Local(c)'
  BY <1>1 DEF SendInv, Local, Busy
<1>. QED  BY <1>1, <1>2 DEF SendInv

(* The caller's attempt failed, with or without a request.                 *)
LEMMA SendRetry ==
  ASSUME SendInv, NEW s \in Callers, Sending(s), attempt[s] <= RetryAttempts,
         attempt' = [attempt EXCEPT ![s] = @ + 1],
         UNCHANGED <<todo, ok, kind, size, settled, requests>>,
         inCall' = inCall \ {s}, trouble' \in BOOLEAN
  PROVE  SendInv'
<1>. DEFINE a == attempt[s] + 1
<1>1. /\ Good(todo[s], a, ok[s], size[s], settled[s], requests[s], 0)
  BY Values, GoodRetry DEF Sending
<1>2. Moves(s, todo[s], a, ok[s], size[s], settled[s], requests[s]) /\ kind' = kind
  <2>1. /\ todo' = todo /\ ok' = ok /\ size' = size /\ settled' = settled
        /\ requests' = requests /\ kind' = kind
    OBVIOUS
  <2>2. attempt' = [attempt EXCEPT ![s] = a]
    OBVIOUS
  <2>. QED  BY <2>1, <2>2, Values DEF Moves
<1>3. Calls(s, 0) /\ kind' \in [Callers -> Operations]
  BY <1>2 DEF SendInv, Calls
<1>. HIDE DEF a
<1>. QED  BY <1>1, <1>2, <1>3, LocalStep

(* A segment is done.                                                      *)
LEMMA SendReturn ==
  ASSUME SendInv, NEW s \in Callers, Sending(s), NEW v \in BOOLEAN,
         Return(s, v), Settle(s) \/ (settled' = settled /\ ~v),
         UNCHANGED <<operation, requests>>,
         inCall' = inCall \ {s}, trouble' \in BOOLEAN
  PROVE  SendInv'
<1>. DEFINE t == Tail(todo[s])
            r == (ok[s] /\ v)
<1>1. PICK h : /\ h = settled[s] \cup (todo[s][1][1] .. todo[s][1][2])
                    \/ (h = settled[s] /\ ~v)
               /\ settled' = [settled EXCEPT ![s] = h]
  <2>1. Segment(s) = todo[s][1][1] .. todo[s][1][2]
    BY DEF Segment
  <2>2. CASE Settle(s)
    BY <2>1, <2>2 DEF Settle
  <2>3. CASE settled' = settled /\ ~v
    BY <2>3, Values
  <2>. QED  BY <2>2, <2>3
<1>2. r \in BOOLEAN /\ (r => ok[s] /\ v)
  OBVIOUS
<1>3. Good(t, 0, r, size[s], h, requests[s], 0)
  <2>1. Good(todo[s], attempt[s], ok[s], size[s], settled[s], requests[s], Busy(s))
    BY Values
  <2>2. todo[s] # <<>>
    BY DEF Sending
  <2>. HIDE DEF r
  <2>. QED  BY <1>1, <1>2, <2>1, <2>2, GoodReturn
<1>4. Moves(s, t, 0, r, size[s], h, requests[s]) /\ kind' = kind
  <2>1. size' = size /\ requests' = requests /\ kind' = kind
    BY DEF operation
  <2>2. /\ todo' = [todo EXCEPT ![s] = t] /\ attempt' = [attempt EXCEPT ![s] = 0]
        /\ ok' = [ok EXCEPT ![s] = r]
    BY DEF Return
  <2>. HIDE DEF t, r
  <2>. QED  BY <1>1, <2>1, <2>2, Values DEF Moves
<1>5. Calls(s, 0) /\ kind' \in [Callers -> Operations]
  BY <1>4 DEF SendInv, Calls
<1>. HIDE DEF t, r
<1>. QED  BY <1>3, <1>4, <1>5, LocalStep

-----------------------------------------------------------------------------
(* A caller in a request has an attempt under way.                         *)
LEMMA InCallFact ==
  ASSUME SendInv, NEW s \in inCall
  PROVE  s \in Callers /\ Sending(s) /\ attempt[s] <= RetryAttempts
<1>1. s \in Callers /\ Busy(s) = 1
  BY DEF SendInv, Busy
<1>2. Good(todo[s], attempt[s], ok[s], size[s], settled[s], requests[s], 1)
  BY <1>1, Values
<1>. QED  BY <1>1, <1>2 DEF Good, Sending

(* A caller begins a send.                                                 *)
LEMMA SendStart ==
  ASSUME SendInv, NEW s \in Callers, NEW k \in Kinds[s], NEW n \in 1 .. MaxBatch,
         Send(s, k, n)
  PROVE  SendInv'
<1>. DEFINE t == << <<1, n>> >>
<1>1. Good(t, 0, TRUE, n, {}, 0, 0)
  BY GoodStart
<1>. HIDE DEF t
<1>2. Moves(s, t, 0, TRUE, n, {}, 0)
  BY DEF Send, Moves, t
<1>3. s \notin inCall
  BY InCallFact DEF Send
<1>4. Calls(s, 0)
  BY <1>3 DEF Send, Calls, breakerVars, SendInv
<1>5. k \in Operations
  BY KindAssumption DEF Operations
<1>6. kind' \in [Callers -> Operations] /\ trouble' \in BOOLEAN
  BY <1>5 DEF Send, SendInv
<1>. QED  BY <1>1, <1>2, <1>4, <1>6, LocalStep

(* A granted and admitted attempt makes its request.                       *)
LEMMA SendRequest ==
  ASSUME SendInv, NEW s \in Callers, Request(s)
  PROVE  SendInv'
<1>1. /\ Sending(s) /\ s \notin inCall /\ attempt[s] <= RetryAttempts
      /\ requests' = [requests EXCEPT ![s] = requests[s] + 1]
      /\ inCall' = inCall \cup {s}
      /\ todo' = todo /\ attempt' = attempt /\ ok' = ok /\ kind' = kind
      /\ size' = size /\ settled' = settled /\ trouble' = trouble
  BY DEF Request, Trying, Ready, Breaker!StartCall, sendVars, operation
<1>2. Good(todo[s], attempt[s], ok[s], size[s], settled[s], requests[s], 0)
  <2>1. Busy(s) = 0
    BY <1>1 DEF Busy
  <2>. QED  BY <2>1, Values
<1>3. Good(todo[s], attempt[s], ok[s], size[s], settled[s], requests[s] + 1, 1)
  BY <1>1, <1>2, GoodRequest DEF Sending
<1>4. Moves(s, todo[s], attempt[s], ok[s], size[s], settled[s], requests[s] + 1)
  BY <1>1, Values DEF Moves
<1>5. Calls(s, 1)
  BY <1>1 DEF Calls, SendInv
<1>6. kind' \in [Callers -> Operations] /\ trouble' \in BOOLEAN
  BY <1>1 DEF SendInv
<1>. QED  BY <1>3, <1>4, <1>5, <1>6, LocalStep

(* A segment that is cut holds more than one item.                         *)
LEMMA SplitsFact ==
  ASSUME SendInv, NEW s \in Callers, Sending(s), Splits(s)
  PROVE  todo[s][1][1] < todo[s][1][2]
<1>. DEFINE b == todo[s][1][1]
            e == todo[s][1][2]
<1>1. todo[s] \in Seq(Pairs) /\ todo[s] # <<>>
  BY DEF SendInv, Sending
<1>2. todo[s][1] \in Pairs
  BY <1>1
<1>3. b \in Int /\ e \in Int
  BY <1>2, BatchAssumption DEF Pairs
<1>4. Segment(s) = b .. e
  BY <1>1 DEF Segment
<1>. HIDE DEF b, e
<1>5. Cardinality(b .. e) > 1
  BY <1>4 DEF Splits
<1>6. Cardinality(b .. e) = IF b > e THEN 0 ELSE e - b + 1
  BY <1>3, FS_Interval
<1>7. b < e
  BY <1>3, <1>5, <1>6
<1>. QED  BY <1>7 DEF b, e

(* A segment of several items is too large and is cut in two.              *)
LEMMA SendSplit ==
  ASSUME SendInv, NEW s \in inCall, Splits(s), inCall' = inCall \ {s},
         todo' = [todo EXCEPT ![s] = Halves(Head(@)) \o Tail(@)],
         attempt' = [attempt EXCEPT ![s] = 0],
         UNCHANGED <<ok, operation, settled, requests, trouble>>
  PROVE  SendInv'
<1>. DEFINE t == Halves(Head(todo[s])) \o Tail(todo[s])
<1>1. /\ s \in Callers /\ Sending(s)
      /\ Good(todo[s], attempt[s], ok[s], size[s], settled[s], requests[s], Busy(s))
  BY InCallFact, Values
<1>2. todo[s][1][1] < todo[s][1][2]
  BY <1>1, SplitsFact
<1>3. Good(t, 0, ok[s], size[s], settled[s], requests[s], 0)
  BY <1>1, <1>2, GoodSplit DEF Sending
<1>4. Moves(s, t, 0, ok[s], size[s], settled[s], requests[s]) /\ kind' = kind
  <2>1. todo' = [todo EXCEPT ![s] = t]
    OBVIOUS
  <2>. HIDE DEF t
  <2>. QED  BY <1>1, <2>1, Values DEF Moves, operation
<1>5. Calls(s, 0)
  BY DEF Calls, SendInv
<1>6. kind' \in [Callers -> Operations] /\ trouble' \in BOOLEAN
  BY <1>4 DEF SendInv
<1>. HIDE DEF t
<1>. QED  BY <1>1, <1>3, <1>4, <1>5, <1>6, LocalStep

(* The caller is cancelled, in a request or between two.                   *)
LEMMA SendCancel ==
  ASSUME SendInv, NEW s \in Callers, Cancelled(s)
  PROVE  SendInv'
<1>1. /\ todo' = [todo EXCEPT ![s] = <<>>] /\ attempt' = [attempt EXCEPT ![s] = 0]
      /\ ok' = [ok EXCEPT ![s] = FALSE] /\ kind' = kind /\ size' = size
      /\ settled' = settled /\ requests' = requests /\ trouble' = TRUE
      /\ inCall' = inCall \ {s}
  BY DEF Cancelled, operation, Breaker!CallNeutral, breakerVars
<1>2. Good(<<>>, 0, FALSE, size[s], settled[s], requests[s], 0)
  BY Values, GoodCancel
<1>3. Moves(s, <<>>, 0, FALSE, size[s], settled[s], requests[s])
  BY <1>1, Values DEF Moves
<1>4. Calls(s, 0)
  BY <1>1 DEF Calls, SendInv
<1>5. kind' \in [Callers -> Operations] /\ trouble' \in BOOLEAN
  BY <1>1 DEF SendInv
<1>. QED  BY <1>2, <1>3, <1>4, <1>5, LocalStep

(* What is made of a permanent rejection.                                  *)
LEMMA SendGiveUp ==
  ASSUME SendInv, NEW s \in inCall, GiveUp(s), inCall' = inCall \ {s},
         UNCHANGED <<operation, requests, trouble>>
  PROVE  SendInv'
<1>1. s \in Callers /\ Sending(s) /\ attempt[s] <= RetryAttempts
  BY InCallFact
<1>2. trouble' \in BOOLEAN
  BY DEF SendInv
<1>3. CASE Return(s, TRUE) /\ Settle(s)
  BY <1>1, <1>2, <1>3, SendReturn
<1>4. CASE Return(s, FALSE) /\ UNCHANGED settled
  BY <1>1, <1>2, <1>4, SendReturn
<1>5. CASE Retry(s, Backoff(attempt[s])) /\ UNCHANGED settled
  BY <1>1, <1>2, <1>5, SendRetry DEF Retry, operation
<1>. QED  BY <1>3, <1>4, <1>5 DEF GiveUp

(* A request ends.                                                         *)
LEMMA SendReply ==
  ASSUME SendInv, NEW s \in Callers, Reply(s)
  PROVE  SendInv'
<1>1. s \in inCall /\ inCall' = inCall \ {s}
  BY DEF Reply, Accepted, Partial, Unusable, TooMany, Failed, Rejected, TooLarge,
         Breaker!CallSucceeded, Breaker!CallFailed, Breaker!CallNeutral
<1>2. Sending(s) /\ attempt[s] <= RetryAttempts
  BY <1>1, InCallFact
<1>3. trouble \in BOOLEAN /\ TRUE \in BOOLEAN /\ FALSE \in BOOLEAN
  BY DEF SendInv
<1>4. CASE Accepted(s)
  BY <1>1, <1>2, <1>3, <1>4, SendReturn DEF Accepted
<1>5. CASE Partial(s)
  BY <1>1, <1>2, <1>3, <1>5, SendReturn DEF Partial
<1>6. CASE Unusable(s)
  BY <1>1, <1>2, <1>3, <1>6, SendRetry DEF Unusable, Retry, operation
<1>7. CASE Failed(s)
  BY <1>1, <1>2, <1>3, <1>7, SendRetry DEF Failed, Retry, operation
<1>8. CASE Rejected(s)
  BY <1>1, <1>8, SendGiveUp DEF Rejected
<1>9. CASE TooLarge(s)
  BY <1>1, <1>9, SendGiveUp, SendSplit DEF TooLarge
<1>10. ASSUME NEW r \in RetryAfters, TooMany(s, r) PROVE SendInv'
  BY <1>1, <1>2, <1>3, <1>10, SendRetry DEF TooMany, Retry, operation
<1>. QED  BY <1>4, <1>5, <1>6, <1>7, <1>8, <1>9, <1>10 DEF Reply

(* Every step keeps every send good.                                       *)
LEMMA SendStep ==
  ASSUME SendInv, [Next]_vars
  PROVE  SendInv'
<1>1. CASE UNCHANGED vars \/ Tick
  <2>1. /\ UNCHANGED <<sendVars, operation, settled, requests, inCall>>
        /\ trouble' = trouble
    BY <1>1 DEF vars, Tick, Breaker!Tick, history, breakerVars
  <2>. QED  BY <2>1, SendsIdle DEF SendInv
<1>2. ASSUME NEW s \in Callers, NEW k \in Kinds[s], NEW n \in 1 .. MaxBatch,
             Send(s, k, n)
      PROVE  SendInv'
  BY <1>2, SendStart
<1>3. ASSUME NEW s \in Callers, Throttled(s)
      PROVE  SendInv'
  <2>1. /\ Sending(s) /\ attempt[s] <= RetryAttempts
        /\ attempt' = [attempt EXCEPT ![s] = @ + 1]
        /\ UNCHANGED <<todo, ok, kind, size, settled, requests>>
        /\ inCall' = inCall \ {s} /\ trouble' = trouble
    BY <1>3 DEF Throttled, Trying, Ready, breakerVars
  <2>. QED  BY <2>1, SendRetry DEF SendInv
<1>4. ASSUME NEW s \in Callers, Request(s)
      PROVE  SendInv'
  BY <1>4, SendRequest
<1>5. ASSUME NEW s \in Callers, Refused(s)
      PROVE  SendInv'
  <2>1. /\ Sending(s) /\ attempt[s] <= RetryAttempts
        /\ attempt' = [attempt EXCEPT ![s] = @ + 1]
        /\ UNCHANGED <<todo, ok, kind, size, settled, requests>>
        /\ inCall' = inCall \ {s} /\ trouble' = trouble
    BY <1>5 DEF Refused, Trying, Ready, Retry, breakerVars, history, operation
  <2>. QED  BY <2>1, SendRetry DEF SendInv
<1>6. ASSUME NEW s \in Callers, Exhausted(s)
      PROVE  SendInv'
  <2>1. /\ Sending(s) /\ Return(s, FALSE) /\ UNCHANGED settled
        /\ UNCHANGED <<operation, requests>>
        /\ inCall' = inCall \ {s} /\ trouble' = trouble
    BY <1>6 DEF Exhausted, Ready, breakerVars, history
  <2>. QED  BY <2>1, SendReturn DEF SendInv
<1>7. ASSUME NEW s \in Callers, Reply(s)
      PROVE  SendInv'
  BY <1>7, SendReply
<1>8. ASSUME NEW s \in Callers, Cancelled(s)
      PROVE  SendInv'
  BY <1>8, SendCancel
<1>. QED  BY <1>1, <1>2, <1>3, <1>4, <1>5, <1>6, <1>7, <1>8 DEF Next, Step

-----------------------------------------------------------------------------
(* The limiter.                                                            *)

(* The parts of WindowInv.                                                 *)
LEMMA WindowTypes ==
  ASSUME WindowInv
  PROVE  /\ calls \in Seq(0 .. Window) /\ Len(calls) <= MaxCalls
         /\ wait \in [Callers -> Nat] /\ granted \in Seq(0 .. Window - 1)
         /\ fresh \subseteq Callers /\ fresh \cap inCall = {}
         /\ Sorted(calls) /\ Kept(calls, granted)
         /\ \A c \in fresh : calls # <<>> /\ calls[1] + wait[c] >= Window
BY DEF WindowInv, Limiter!TypeOK, Limiter!SleepsLongEnough

(* No call is made or forgotten, and whoever was denied sleeps as long.    *)
LEMMA WindowIdle ==
  ASSUME WindowInv, UNCHANGED <<calls, granted>>,
         fresh' \subseteq fresh, fresh' \cap inCall' = {},
         wait' \in [Callers -> Nat], \A c \in fresh' : wait'[c] = wait[c]
  PROVE  WindowInv'
<1>1. Limiter!TypeOK'
  BY DEF WindowInv, Limiter!TypeOK
<1>2. Sorted(calls)' /\ Kept(calls, granted)'
  BY DEF WindowInv
<1>3. Limiter!SleepsLongEnough'
  BY DEF WindowInv, Limiter!SleepsLongEnough
<1>. QED  BY <1>1, <1>2, <1>3 DEF WindowInv

(* A call is admitted.                                                     *)
LEMMA WindowAdmit ==
  ASSUME WindowInv, Limiter!Admit, wait' \in [Callers -> Nat]
  PROVE  WindowInv'
<1>. DEFINE v == Limiter!Live(calls)
<1>1. /\ calls \in Seq(0 .. Window) /\ granted \in Seq(0 .. Window - 1)
      /\ Sorted(calls) /\ Kept(calls, granted)
  BY WindowTypes
<1>2. v \in Seq(0 .. Window - 1) /\ Sorted(v)
  BY <1>1, LiveFact
<1>3. Kept(v, granted)
  BY <1>1, KeptLive
<1>4. /\ Len(v) < MaxCalls /\ calls' = Append(v, 0)
      /\ granted' = Append(granted, 0) /\ fresh' = {}
  BY DEF Limiter!Admit
<1>5. Len(v) \in Nat
  BY <1>2
<1>. HIDE DEF v
<1>6. /\ calls' \in Seq(0 .. Window) /\ Len(calls') = Len(v) + 1
      /\ granted' \in Seq(0 .. Window - 1)
      /\ Sorted(calls') /\ Kept(calls', granted')
  BY <1>1, <1>2, <1>3, <1>4, AppendFact
<1>7. Len(calls') <= MaxCalls
  BY <1>4, <1>5, <1>6, WindowFact
<1>8. Limiter!TypeOK'
  BY <1>4, <1>6, <1>7 DEF Limiter!TypeOK
<1>9. Limiter!SleepsLongEnough'
  BY <1>4 DEF Limiter!SleepsLongEnough
<1>. QED  BY <1>4, <1>6, <1>8, <1>9 DEF WindowInv

(* The limiter denies only when no call has left the window, so those who  *)
(* sleep already are not misled by the list getting shorter.               *)
LEMMA WindowDeny ==
  ASSUME WindowInv, NEW s \in Callers, Limiter!Deny(s), s \notin inCall,
         inCall' = inCall
  PROVE  WindowInv'
<1>. DEFINE v == Limiter!Live(calls)
<1>1. /\ calls \in Seq(0 .. Window) /\ granted \in Seq(0 .. Window - 1)
      /\ Sorted(calls) /\ Kept(calls, granted) /\ Len(calls) <= MaxCalls
      /\ Len(calls) \in Nat /\ wait \in [Callers -> Nat] /\ fresh \subseteq Callers
      /\ \A c \in fresh : calls[1] + wait[c] >= Window
      /\ fresh \cap inCall = {}
  BY WindowTypes
<1>2. PICK k \in 0 .. Len(calls) :
        /\ v \in Seq(0 .. Window - 1) /\ Len(v) = Len(calls) - k
        /\ \A i \in 1 .. Len(v) : v[i] = calls[i + k]
  BY <1>1, LiveFact
<1>3. /\ Len(v) >= MaxCalls /\ calls' = v /\ fresh' = fresh \cup {s}
      /\ wait' = [wait EXCEPT ![s] = Limiter!RetryAfter(calls')]
      /\ granted' = granted
  BY DEF Limiter!Deny
<1>4. v \in Seq(0 .. Window)
  BY <1>2, SubtypeFact, WindowFact
<1>. HIDE DEF v
<1>5. k = 0 /\ Len(v) = Len(calls)
  BY <1>1, <1>2, <1>3, WindowFact
<1>6. v = calls
  <2>1. \A i \in 1 .. Len(v) : v[i] = calls[i]
    BY <1>1, <1>2, <1>5
  <2>. QED  BY <1>1, <1>4, <1>5, <2>1, SeqEqual
<1>7. calls # <<>>
  BY <1>1, <1>3, <1>5, WindowFact
<1>8. /\ Limiter!RetryAfter(calls) \in Nat
      /\ calls[1] + Limiter!RetryAfter(calls) >= Window
  BY <1>1, <1>7, RetryAfterFact
<1>9. wait' \in [Callers -> Nat]
  BY <1>1, <1>3, <1>6, <1>8
<1>10. \A c \in fresh' : calls'[1] + wait'[c] >= Window
  BY <1>1, <1>3, <1>6, <1>8
<1>11. Limiter!TypeOK'
  BY <1>1, <1>3, <1>6, <1>9 DEF Limiter!TypeOK
<1>12. Limiter!SleepsLongEnough'
  BY <1>3, <1>6, <1>7, <1>10 DEF Limiter!SleepsLongEnough
<1>13. Sorted(calls') /\ Kept(calls', granted') /\ fresh' \cap inCall' = {}
  BY <1>1, <1>3, <1>6
<1>. QED  BY <1>11, <1>12, <1>13 DEF WindowInv

(* A second passes for the list and for the sleepers.                      *)
LEMMA WindowElapse ==
  ASSUME WindowInv, Limiter!Elapse, inCall' = inCall
  PROVE  WindowInv'
<1>1. /\ calls \in Seq(0 .. Window) /\ granted \in Seq(0 .. Window - 1)
      /\ Sorted(calls) /\ Kept(calls, granted) /\ Len(calls) <= MaxCalls
      /\ wait \in [Callers -> Nat] /\ fresh \subseteq Callers
      /\ \A c \in fresh : calls # <<>> /\ calls[1] + wait[c] >= Window
      /\ fresh \cap inCall = {}
  BY WindowTypes
<1>2. /\ calls' = Limiter!Older(calls)
      /\ wait' = [c \in Callers |-> IF wait[c] > 0 THEN wait[c] - 1 ELSE 0]
      /\ granted' = Limiter!Newer(Limiter!Older(granted), Window)
      /\ fresh' = fresh
  BY DEF Limiter!Elapse
<1>3. /\ calls' \in Seq(0 .. Window) /\ Len(calls') = Len(calls)
      /\ Sorted(calls')
      /\ \A i \in 1 .. Len(calls) :
           calls'[i] = IF calls[i] < Window THEN calls[i] + 1 ELSE calls[i]
  BY <1>1, <1>2, OlderFact
<1>4. granted' \in Seq(0 .. Window - 1) /\ Kept(calls', granted')
  BY <1>1, <1>2, KeptOlder
<1>5. wait' \in [Callers -> Nat]
  BY <1>1, <1>2
<1>6. ASSUME NEW c \in fresh
      PROVE  calls' # <<>> /\ calls'[1] + wait'[c] >= Window
  <2>1. 1 \in 1 .. Len(calls) /\ calls[1] \in 0 .. Window /\ Len(calls) \in Nat \ {0}
    <3>1. calls \in Seq(0 .. Window) /\ calls # <<>>
      BY <1>1
    <3>2. Len(calls) \in Nat \ {0}
      BY <3>1, EmptySeq
    <3>3. 1 \in 1 .. Len(calls)
      BY <3>2
    <3>. QED  BY <3>1, <3>2, <3>3, ElementOfSeq
  <2>2. calls' # <<>>
    BY <1>3, <2>1
  <2>3. calls'[1] = IF calls[1] < Window THEN calls[1] + 1 ELSE calls[1]
    BY <1>3, <2>1
  <2>4. wait[c] \in Nat /\ wait'[c] = IF wait[c] > 0 THEN wait[c] - 1 ELSE 0
    BY <1>1, <1>2
  <2>5. calls[1] + wait[c] >= Window
    BY <1>1
  <2>6. calls'[1] + wait'[c] >= Window
    BY <2>1, <2>3, <2>4, <2>5, WindowFact
  <2>. QED  BY <2>2, <2>6
<1>7. Limiter!TypeOK'
  BY <1>1, <1>2, <1>3, <1>4, <1>5 DEF Limiter!TypeOK
<1>8. Limiter!SleepsLongEnough'
  BY <1>2, <1>6 DEF Limiter!SleepsLongEnough
<1>. QED  BY <1>1, <1>2, <1>3, <1>4, <1>7, <1>8 DEF WindowInv

(* Whoever has an attempt end with a request was not denied since.         *)
LEMMA WindowRetry ==
  ASSUME WindowInv, SendInv, NEW s \in inCall, NEW d \in Nat, Retry(s, d),
         UNCHANGED <<calls, granted, fresh>>, inCall' = inCall \ {s}
  PROVE  WindowInv'
<1>1. /\ s \in Callers /\ s \notin fresh /\ wait \in [Callers -> Nat]
      /\ fresh \subseteq Callers /\ fresh \cap inCall = {}
  BY WindowTypes DEF SendInv
<1>2. wait' \in [Callers -> Nat] /\ \A c \in fresh : wait'[c] = wait[c]
  BY <1>1 DEF Retry
<1>. QED  BY <1>1, <1>2, WindowIdle

(* The limiter is not touched.                                             *)
LEMMA WindowSame ==
  ASSUME WindowInv, UNCHANGED limiterVars, inCall' \subseteq inCall
  PROVE  WindowInv'
<1>1. /\ calls' = calls /\ granted' = granted /\ fresh' = fresh /\ wait' = wait
  BY DEF limiterVars
<1>2. wait \in [Callers -> Nat] /\ fresh \cap inCall = {}
  BY WindowTypes
<1>. QED  BY <1>1, <1>2, WindowIdle

(* A permanent rejection, and what the operation makes of it.              *)
LEMMA WindowGiveUp ==
  ASSUME WindowInv, SendInv, NEW s \in inCall, GiveUp(s),
         UNCHANGED <<calls, granted, fresh>>, inCall' = inCall \ {s}
  PROVE  WindowInv'
<1>1. s \in Callers /\ attempt[s] \in Nat
  BY Values DEF SendInv
<1>2. CASE UNCHANGED wait
  BY <1>2, WindowSame DEF limiterVars
<1>3. CASE Retry(s, Backoff(attempt[s]))
  <2>1. Backoff(attempt[s]) \in Nat
    BY <1>1, BackoffFact
  <2>. QED  BY <1>3, <2>1, WindowRetry
<1>. QED  BY <1>2, <1>3 DEF GiveUp

(* A request ends.                                                         *)
LEMMA WindowReply ==
  ASSUME WindowInv, SendInv, NEW s \in Callers, Reply(s)
  PROVE  WindowInv'
<1>1. s \in inCall /\ inCall' = inCall \ {s}
  BY DEF Reply, Accepted, Partial, Unusable, TooMany, Failed, Rejected, TooLarge,
         Breaker!CallSucceeded, Breaker!CallFailed, Breaker!CallNeutral
<1>2. CASE Accepted(s) \/ Partial(s)
  <2>1. UNCHANGED limiterVars
    BY <1>2 DEF Accepted, Partial
  <2>. QED  BY <1>1, <2>1, WindowSame
<1>3. CASE Unusable(s)
  <2>1. UNCHANGED <<calls, granted, fresh>> /\ Retry(s, 0)
    BY <1>3 DEF Unusable
  <2>. QED  BY <1>1, <2>1, WindowRetry
<1>4. CASE Failed(s)
  <2>1. UNCHANGED <<calls, granted, fresh>> /\ Retry(s, Backoff(attempt[s]))
    BY <1>4 DEF Failed
  <2>2. Backoff(attempt[s]) \in Nat
    BY Values, BackoffFact
  <2>. QED  BY <1>1, <2>1, <2>2, WindowRetry
<1>5. CASE Rejected(s)
  <2>1. UNCHANGED <<calls, granted, fresh>> /\ GiveUp(s)
    BY <1>5 DEF Rejected
  <2>. QED  BY <1>1, <2>1, WindowGiveUp
<1>6. CASE TooLarge(s)
  <2>1. UNCHANGED <<calls, granted, fresh>> /\ (UNCHANGED wait \/ GiveUp(s))
    BY <1>6 DEF TooLarge
  <2>. QED  BY <1>1, <2>1, WindowGiveUp, WindowSame DEF limiterVars
<1>7. ASSUME NEW r \in RetryAfters, TooMany(s, r) PROVE WindowInv'
  <2>1. UNCHANGED <<calls, granted, fresh>> /\ Retry(s, Min({r, MaxRetryAfter}))
    BY <1>7 DEF TooMany
  <2>2. Min({r, MaxRetryAfter}) \in Nat
    BY RetryAssumption, MinFact
  <2>. QED  BY <1>1, <2>1, <2>2, WindowRetry
<1>. QED  BY <1>2, <1>3, <1>4, <1>5, <1>6, <1>7 DEF Reply

(* Every step keeps the limiter's part.                                    *)
LEMMA WindowStep ==
  ASSUME WindowInv, SendInv, [Next]_vars
  PROVE  WindowInv'
<1>1. CASE UNCHANGED vars
  <2>1. UNCHANGED limiterVars /\ inCall' = inCall
    BY <1>1 DEF vars, breakerVars
  <2>. QED  BY <2>1, WindowSame
<1>2. CASE Tick
  <2>1. Limiter!Elapse /\ inCall' = inCall
    BY <1>2 DEF Tick, Breaker!Tick
  <2>. QED  BY <2>1, WindowElapse
<1>3. ASSUME NEW s \in Callers, NEW k \in Kinds[s], NEW n \in 1 .. MaxBatch,
             Send(s, k, n)
      PROVE  WindowInv'
  <2>1. UNCHANGED limiterVars /\ inCall' = inCall
    BY <1>3 DEF Send, breakerVars
  <2>. QED  BY <2>1, WindowSame
<1>4. ASSUME NEW s \in Callers, Throttled(s)
      PROVE  WindowInv'
  <2>1. Limiter!Deny(s) /\ s \notin inCall /\ inCall' = inCall
    BY <1>4 DEF Throttled, Trying, Ready, breakerVars
  <2>. QED  BY <2>1, WindowDeny
<1>5. ASSUME NEW s \in Callers, Request(s)
      PROVE  WindowInv'
  <2>1. Limiter!Admit /\ wait' = wait
    BY <1>5 DEF Request, Limiter!Grant
  <2>. QED  BY <2>1, WindowTypes, WindowAdmit
<1>6. ASSUME NEW s \in Callers, Refused(s)
      PROVE  WindowInv'
  <2>1. Limiter!Admit /\ Retry(s, Backoff(attempt[s]))
    BY <1>6 DEF Refused
  <2>2. Backoff(attempt[s]) \in Nat
    BY Values, BackoffFact
  <2>3. wait' \in [Callers -> Nat]
    BY <2>1, <2>2, WindowTypes DEF Retry
  <2>. QED  BY <2>1, <2>3, WindowAdmit
<1>7. ASSUME NEW s \in Callers, Exhausted(s)
      PROVE  WindowInv'
  <2>1. UNCHANGED limiterVars /\ inCall' = inCall
    BY <1>7 DEF Exhausted, breakerVars
  <2>. QED  BY <2>1, WindowSame
<1>8. ASSUME NEW s \in Callers, Reply(s)
      PROVE  WindowInv'
  BY <1>8, WindowReply
<1>9. ASSUME NEW s \in Callers, Cancelled(s)
      PROVE  WindowInv'
  <2>1. /\ UNCHANGED <<calls, granted>> /\ wait' = [wait EXCEPT ![s] = 0]
        /\ fresh' = fresh \ {s} /\ inCall' = inCall \ {s}
    BY <1>9 DEF Cancelled, Breaker!CallNeutral, breakerVars
  <2>2. wait \in [Callers -> Nat] /\ fresh \cap inCall = {} /\ fresh \subseteq Callers
    BY WindowTypes
  <2>3. wait' \in [Callers -> Nat] /\ \A c \in fresh' : wait'[c] = wait[c]
    BY <2>1, <2>2
  <2>. QED  BY <2>1, <2>2, <2>3, WindowIdle
<1>. QED  BY <1>1, <1>2, <1>3, <1>4, <1>5, <1>6, <1>7, <1>8, <1>9 DEF Next, Step

-----------------------------------------------------------------------------
(* The breaker.                                                            *)

(* Every step of the breaker keeps its types.                              *)
LEMMA BreakerTypes ==
  ASSUME Breaker!TypeOK, [Breaker!Next]_(Breaker!vars)
  PROVE  Breaker!TypeOK'
<1>1. /\ FailureThreshold \in Nat \ {0} /\ RecoveryTimeout \in Nat
      /\ MaxCount \in Nat /\ Never \notin Int
  BY BreakerAssumption
<1>2. CASE UNCHANGED Breaker!vars
  BY <1>2 DEF Breaker!TypeOK, Breaker!vars
<1>3. CASE Breaker!Tick
  <2>1. sinceFailure \in {Never} \cup (0 .. RecoveryTimeout + 1)
    BY DEF Breaker!TypeOK
  <2>2. sinceFailure' = IF sinceFailure = Never \/ sinceFailure > RecoveryTimeout
                          THEN sinceFailure ELSE sinceFailure + 1
    BY <1>3 DEF Breaker!Tick, Breaker!RecoveryElapsed
  <2>3. sinceFailure' \in {Never} \cup (0 .. RecoveryTimeout + 1)
    BY <1>1, <2>1, <2>2
  <2>. QED  BY <1>3, <2>3 DEF Breaker!Tick, Breaker!TypeOK
<1>4. ASSUME NEW c \in Callers, Breaker!StartCall(c)
      PROVE  Breaker!TypeOK'
  BY <1>4 DEF Breaker!StartCall, Breaker!TypeOK
<1>5. ASSUME NEW c \in Callers, Breaker!CallSucceeded(c)
      PROVE  Breaker!TypeOK'
  BY <1>1, <1>5 DEF Breaker!CallSucceeded, Breaker!TypeOK
<1>6. ASSUME NEW c \in Callers, Breaker!CallFailed(c)
      PROVE  Breaker!TypeOK'
  BY <1>1, <1>6 DEF Breaker!CallFailed, Breaker!TypeOK
<1>7. ASSUME NEW c \in Callers, Breaker!CallNeutral(c)
      PROVE  Breaker!TypeOK'
  BY <1>7 DEF Breaker!CallNeutral, Breaker!TypeOK
<1>. QED  BY <1>2, <1>3, <1>4, <1>5, <1>6, <1>7 DEF Breaker!Next, Breaker!CallEnds

(* The callers use the breaker as its specification says.                  *)
LEMMA BreakerStep ==
  ASSUME [Next]_vars
  PROVE  [Breaker!Next]_(Breaker!vars)
<1>1. CASE UNCHANGED vars
  BY <1>1 DEF vars, breakerVars, Breaker!vars
<1>2. CASE Tick
  BY <1>2 DEF Tick, Breaker!Next
<1>3. ASSUME NEW s \in Callers, NEW k \in Kinds[s], NEW n \in 1 .. MaxBatch,
             Send(s, k, n)
      PROVE  UNCHANGED Breaker!vars
  BY <1>3 DEF Send, breakerVars, Breaker!vars
<1>4. ASSUME NEW s \in Callers, Throttled(s) \/ Refused(s) \/ Exhausted(s)
      PROVE  UNCHANGED Breaker!vars
  BY <1>4 DEF Throttled, Refused, Exhausted, breakerVars, Breaker!vars
<1>5. ASSUME NEW s \in Callers, Request(s)
      PROVE  Breaker!Next
  BY <1>5 DEF Request, Breaker!Next
<1>6. ASSUME NEW s \in Callers, Reply(s)
      PROVE  Breaker!Next
  <2>1. Breaker!CallSucceeded(s) \/ Breaker!CallFailed(s) \/ Breaker!CallNeutral(s)
    BY <1>6 DEF Reply, Accepted, Partial, Unusable, TooMany, Failed, Rejected, TooLarge
  <2>. QED  BY <2>1 DEF Breaker!Next, Breaker!CallEnds
<1>7. ASSUME NEW s \in Callers, Cancelled(s)
      PROVE  [Breaker!Next]_(Breaker!vars)
  <2>1. Breaker!CallNeutral(s) \/ UNCHANGED breakerVars
    BY <1>7 DEF Cancelled
  <2>. QED  BY <2>1 DEF Breaker!Next, Breaker!CallEnds, breakerVars, Breaker!vars
<1>. QED  BY <1>1, <1>2, <1>3, <1>4, <1>5, <1>6, <1>7 DEF Next, Step

(* While nothing has failed in passing the circuit is closed, so only the  *)
(* limiter uses up attempts of a batch, and none of its segments is given  *)
(* up but for a denial of the last one.                                    *)
Calm(s) == kind[s] = "batch" =>
             s \in starved \/ (ok[s] /\ attempt[s] <= RetryAttempts)

(* One caller moves, and is calm afterwards.                               *)
LEMMA CalmStep ==
  ASSUME Untroubled, SendInv, NEW s \in Callers,
         trouble' = trouble, kind' = kind, ~trouble => state' = "CLOSED",
         ~trouble => Calm(s)', starved \subseteq starved',
         \A c \in Callers \ {s} : ok'[c] = ok[c] /\ attempt'[c] = attempt[c]
  PROVE  Untroubled'
BY DEF Untroubled, Calm

(* A segment is done, with True.                                           *)
LEMMA CalmReturn ==
  ASSUME Untroubled, SendInv, NEW s \in Callers, Return(s, TRUE),
         trouble' = trouble, UNCHANGED operation, ~trouble => state' = "CLOSED"
  PROVE  Untroubled'
<1>1. /\ ok'[s] = (ok[s] /\ TRUE) /\ attempt'[s] = 0
      /\ \A c \in Callers \ {s} : ok'[c] = ok[c] /\ attempt'[c] = attempt[c]
  BY DEF Return, SendInv
<1>2. kind' = kind /\ starved' = starved
  BY DEF operation
<1>3. attempt'[s] <= RetryAttempts
  BY <1>1, RetryAssumption
<1>4. ~trouble => Calm(s)
  BY DEF Untroubled, Calm
<1>5. ~trouble => Calm(s)'
  BY <1>1, <1>2, <1>3, <1>4, Zenon DEF Calm
<1>. QED  BY <1>1, <1>2, <1>5, CalmStep

(* An operation other than a batch, or a batch that was denied before.     *)
LEMMA CalmOther ==
  ASSUME Untroubled, SendInv, NEW s \in Callers, kind[s] # "batch" \/ s \in starved,
         Return(s, FALSE) \/ (attempt' = [attempt EXCEPT ![s] = @ + 1] /\ ok' = ok),
         trouble' = trouble, UNCHANGED operation, ~trouble => state' = "CLOSED"
  PROVE  Untroubled'
<1>1. \A c \in Callers \ {s} : ok'[c] = ok[c] /\ attempt'[c] = attempt[c]
  BY DEF Return, SendInv
<1>2. kind' = kind /\ starved' = starved
  BY DEF operation
<1>3. Calm(s)'
  BY <1>2 DEF Calm
<1>. QED  BY <1>1, <1>2, <1>3, CalmStep

(* A permanent rejection is no trouble.                                    *)
LEMMA CalmGiveUp ==
  ASSUME Untroubled, SendInv, NEW s \in Callers, GiveUp(s),
         trouble' = trouble, UNCHANGED operation, ~trouble => state' = "CLOSED"
  PROVE  Untroubled'
<1>1. CASE Return(s, TRUE)
  BY <1>1, CalmReturn
<1>2. CASE kind[s] = "status" /\ Return(s, FALSE)
  BY <1>2, CalmOther
<1>3. CASE kind[s] = "rules" /\ Retry(s, Backoff(attempt[s]))
  <2>1. attempt' = [attempt EXCEPT ![s] = @ + 1] /\ ok' = ok
    BY <1>3 DEF Retry
  <2>. QED  BY <1>3, <2>1, CalmOther
<1>. QED  BY <1>1, <1>2, <1>3 DEF GiveUp

(* A request ends.                                                         *)
LEMMA CalmReply ==
  ASSUME Untroubled, SendInv, NEW s \in Callers, Reply(s)
  PROVE  Untroubled'
<1>1. CASE trouble'
  BY <1>1 DEF Untroubled
<1>2. CASE Accepted(s)
  <2>1. /\ Return(s, TRUE) /\ trouble' = trouble /\ UNCHANGED operation
        /\ state' = "CLOSED"
    BY <1>2 DEF Accepted, Breaker!CallSucceeded
  <2>. QED  BY <2>1, CalmReturn
<1>3. CASE Rejected(s)
  <2>1. /\ GiveUp(s) /\ trouble' = trouble /\ UNCHANGED operation
        /\ state' = state
    BY <1>3 DEF Rejected, Breaker!CallNeutral
  <2>2. ~trouble => state' = "CLOSED"
    BY <2>1 DEF Untroubled
  <2>. QED  BY <2>1, <2>2, CalmGiveUp
<1>4. CASE TooLarge(s)
  <2>1. /\ trouble' = trouble /\ UNCHANGED operation /\ state' = state
        /\ GiveUp(s) \/ (attempt' = [attempt EXCEPT ![s] = 0] /\ ok' = ok)
    BY <1>4 DEF TooLarge, Breaker!CallNeutral
  <2>2. ~trouble => state' = "CLOSED"
    BY <2>1 DEF Untroubled
  <2>3. CASE GiveUp(s)
    BY <2>1, <2>2, <2>3, CalmGiveUp
  <2>4. CASE attempt' = [attempt EXCEPT ![s] = 0] /\ ok' = ok
    <3>1. /\ attempt'[s] = 0 /\ ok'[s] = ok[s]
          /\ \A c \in Callers \ {s} : ok'[c] = ok[c] /\ attempt'[c] = attempt[c]
      BY <2>4 DEF SendInv
    <3>2. kind' = kind /\ starved' = starved
      BY <2>1 DEF operation
    <3>3. attempt'[s] <= RetryAttempts
      BY <3>1, RetryAssumption
    <3>4. ~trouble => Calm(s)
      BY DEF Untroubled, Calm
    <3>5. ~trouble => Calm(s)'
      BY <3>1, <3>2, <3>3, <3>4 DEF Calm
    <3>. QED  BY <2>1, <2>2, <3>1, <3>2, <3>5, CalmStep
  <2>. QED  BY <2>1, <2>3, <2>4
<1>5. Accepted(s) \/ Rejected(s) \/ TooLarge(s) \/ trouble'
  BY DEF Reply, Partial, Unusable, Failed, TooMany
<1>. QED  BY <1>1, <1>2, <1>3, <1>4, <1>5

(* A denial takes an attempt, and is remembered when it was the last one.  *)
LEMMA CalmDenied ==
  ASSUME Untroubled, SendInv, NEW s \in Callers, Throttled(s)
  PROVE  Untroubled'
<1>1. CASE trouble
  BY <1>1 DEF Throttled, Untroubled
<1>2. CASE ~trouble
  <2>1. /\ trouble' = trouble /\ kind' = kind /\ state' = state /\ ok' = ok
        /\ attempt' = [attempt EXCEPT ![s] = @ + 1]
        /\ starved' = IF attempt[s] < RetryAttempts THEN starved
                      ELSE starved \cup {s}
    BY <1>2 DEF Throttled, breakerVars
  <2>2. /\ attempt'[s] = attempt[s] + 1 /\ attempt[s] \in 0 .. RetryAttempts + 1
        /\ \A c \in Callers \ {s} : attempt'[c] = attempt[c]
    BY <2>1 DEF SendInv
  <2>3. attempt[s] < RetryAttempts => attempt'[s] <= RetryAttempts
    BY <2>2, RetryAssumption
  <2>4. Calm(s)
    BY <1>2 DEF Untroubled, Calm
  <2>5. Calm(s)'
    BY <2>1, <2>3, <2>4 DEF Calm
  <2>6. state' = "CLOSED"
    BY <1>2, <2>1 DEF Untroubled
  <2>. QED  BY <2>1, <2>2, <2>5, <2>6, CalmStep
<1>. QED  BY <1>1, <1>2

(* Every step keeps the callers calm.                                      *)
LEMMA CalmNext ==
  ASSUME Untroubled, SendInv, [Next]_vars
  PROVE  Untroubled'
<1>1. CASE UNCHANGED vars \/ Tick
  BY <1>1 DEF Untroubled, vars, sendVars, breakerVars, history, operation,
              Tick, Breaker!Tick
<1>2. ASSUME NEW s \in Callers, NEW k \in Kinds[s], NEW n \in 1 .. MaxBatch,
             Send(s, k, n)
      PROVE  Untroubled'
  <2>1. /\ trouble' = trouble /\ state' = state /\ starved' = starved \ {s}
        /\ attempt'[s] = 0 /\ ok'[s] = TRUE
        /\ \A c \in Callers \ {s} :
             ok'[c] = ok[c] /\ attempt'[c] = attempt[c] /\ kind'[c] = kind[c]
    BY <1>2 DEF Send, breakerVars, SendInv
  <2>. QED  BY <2>1, RetryAssumption DEF Untroubled
<1>3. ASSUME NEW s \in Callers, Throttled(s)
      PROVE  Untroubled'
  BY <1>3, CalmDenied
<1>4. ASSUME NEW s \in Callers, Cancelled(s)
      PROVE  Untroubled'
  BY <1>4 DEF Cancelled, Untroubled
<1>5. ASSUME NEW s \in Callers, Request(s)
      PROVE  Untroubled'
  BY <1>5 DEF Request, Breaker!StartCall, sendVars, operation, Untroubled
<1>6. ASSUME NEW s \in Callers, Refused(s)
      PROVE  Untroubled'
  <2>1. state = "OPEN" /\ trouble' = trouble
    BY <1>6 DEF Refused, Breaker!Refused, history
  <2>. QED  BY <2>1 DEF Untroubled
<1>7. ASSUME NEW s \in Callers, Exhausted(s)
      PROVE  Untroubled'
  <2>1. /\ attempt[s] > RetryAttempts /\ Return(s, FALSE)
        /\ trouble' = trouble /\ UNCHANGED operation /\ state' = state
    BY <1>7 DEF Exhausted, history, breakerVars
  <2>2. CASE trouble
    BY <2>1, <2>2 DEF Untroubled
  <2>3. CASE ~trouble
    <3>1. attempt[s] \in 0 .. RetryAttempts + 1
      BY DEF SendInv
    <3>2. ~(attempt[s] <= RetryAttempts)
      BY <2>1, <3>1, RetryAssumption
    <3>3. (kind[s] # "batch" \/ s \in starved) /\ state' = "CLOSED"
      BY <2>1, <2>3, <3>2 DEF Untroubled
    <3>. QED  BY <2>1, <3>3, CalmOther
  <2>. QED  BY <2>2, <2>3
<1>8. ASSUME NEW s \in Callers, Reply(s)
      PROVE  Untroubled'
  BY <1>8, CalmReply
<1>. QED  BY <1>1, <1>2, <1>3, <1>4, <1>5, <1>6, <1>7, <1>8 DEF Next, Step

(* Only callers are denied.                                                *)
LEMMA StarvedStep ==
  ASSUME starved \subseteq Callers, [Next]_vars
  PROVE  starved' \subseteq Callers
<1>. USE DEF history, operation
<1>1. CASE UNCHANGED vars \/ Tick
  BY <1>1 DEF vars, Tick
<1>2. ASSUME NEW s \in Callers, NEW k \in Kinds[s], NEW n \in 1 .. MaxBatch,
             Send(s, k, n)
      PROVE  starved' \subseteq Callers
  BY <1>2 DEF Send
<1>3. ASSUME NEW s \in Callers, Throttled(s)
      PROVE  starved' \subseteq Callers
  BY <1>3 DEF Throttled
<1>4. ASSUME NEW s \in Callers,
             Cancelled(s) \/ Request(s) \/ Refused(s) \/ Exhausted(s)
      PROVE  starved' \subseteq Callers
  BY <1>4 DEF Cancelled, Request, Refused, Exhausted
<1>5. ASSUME NEW s \in Callers, Reply(s)
      PROVE  starved' \subseteq Callers
  BY <1>5 DEF Reply, Accepted, Partial, Unusable, Failed, Rejected, TooLarge, TooMany
<1>. QED  BY <1>1, <1>2, <1>3, <1>4, <1>5 DEF Next, Step

-----------------------------------------------------------------------------
(* The way of a send to its end.                                           *)

(* How far a send still is from its end, as a number: each segment that    *)
(* may still come counts for Turns(1), one more than its attempts.         *)
Turns(x) == x * (RetryAttempts + 2)
Fuel(t, n, a, f) ==
  IF t # <<>> THEN 2 * (Turns(2 * n - 1 - Spent(t, n)) - a) - f ELSE 0

LEMMA TurnsFact ==
  /\ Turns(0) = 0
  /\ \A x \in Int : Turns(x) \in Int /\ Turns(x + 1) = Turns(x) + RetryAttempts + 2
  /\ \A x, y \in Int : x <= y => Turns(x) <= Turns(y)
  BY RetryAssumption DEF Turns

(* A send in progress is not at its end yet.                               *)
LEMMA FuelFact ==
  ASSUME NEW t, NEW a, NEW r, NEW n, NEW g, NEW q, NEW f,
         Good(t, a, r, n, g, q, f), t # <<>>
  PROVE  /\ 2 * ((2 * (n - (Head(t)[1] - 1)) - Len(t)) * (RetryAttempts + 2) - a) - f
              = Fuel(t, n, a, f)
         /\ Fuel(t, n, a, f) \in Nat \ {0}
<1>. DEFINE x == Spent(t, n)
            y == 2 * n - 1 - x
            b == Before(t, n)
<1>1. /\ n \in Nat \ {0} /\ f \in {0, 1} /\ b \in Int
      /\ Len(t) \in Int /\ x = 2 * b + Len(t) - 1 /\ x \in 0 .. 2 * n - 2
  BY SendingFact
<1>2. a \in 0 .. RetryAttempts + 1 /\ RetryAttempts \in Nat /\ (f = 1 => a <= RetryAttempts)
  BY RetryAssumption DEF Good
<1>3. Head(t)[1] - 1 = b
  <2>1. t \in Seq(Pairs) /\ b = t[1][1] - 1
    BY SendingFact
  <2>2. Head(t) = t[1]
    BY <2>1
  <2>. QED  BY <2>1, <2>2
<1>. HIDE DEF x, b
<1>4. 2 * (n - b) - Len(t) = y
  BY <1>1
<1>5. y \in Int /\ y - 1 \in Int /\ 0 <= y - 1 /\ (y - 1) + 1 = y
  BY <1>1
<1>. HIDE DEF y
<1>6. Turns(y) \in Int /\ Turns(y) >= RetryAttempts + 2
  <2>. DEFINE w == y - 1
  <2>1. w \in Int /\ 0 <= w /\ w + 1 = y
    BY <1>5 DEF w
  <2>. HIDE DEF w
  <2>2. Turns(w + 1) = Turns(w) + RetryAttempts + 2 /\ Turns(w) \in Int
    BY <2>1, TurnsFact
  <2>3. Turns(0) <= Turns(w) /\ Turns(0) = 0
    BY <2>1, TurnsFact
  <2>. QED  BY <1>2, <2>1, <2>2, <2>3
<1>7. Fuel(t, n, a, f) = 2 * (Turns(y) - a) - f
  BY DEF Fuel, x, y
<1>8. Turns(y) = (2 * (n - (Head(t)[1] - 1)) - Len(t)) * (RetryAttempts + 2)
  BY <1>3, <1>4 DEF Turns
<1>9. 2 * (Turns(y) - a) - f \in Nat \ {0}
  <2>. DEFINE v == Turns(y)
  <2>1. v \in Int /\ v >= RetryAttempts + 2
    BY <1>6
  <2>. HIDE DEF v
  <2>2. 2 * (v - a) - f \in Nat \ {0}
    BY <1>1, <1>2, <2>1
  <2>. QED  BY <2>2 DEF v
<1>. QED  BY <1>7, <1>8, <1>9

(* An attempt that failed, and a request that is made, bring it nearer.    *)
LEMMA FuelRetry ==
  ASSUME NEW t, NEW a, NEW r, NEW n, NEW g, NEW q, NEW f,
         Good(t, a, r, n, g, q, f), t # <<>>, a <= RetryAttempts
  PROVE  /\ Fuel(t, n, a + 1, 0) \in 0 .. Fuel(t, n, a, f) - 1
         /\ f = 0 => Fuel(t, n, a, 1) \in 0 .. Fuel(t, n, a, f) - 1
<1>. DEFINE v == Turns(2 * n - 1 - Spent(t, n))
<1>1. a \in Nat /\ f \in {0, 1} /\ Spent(t, n) \in 0 .. 2 * n - 2 /\ n \in Nat
  BY SendingFact
<1>2. v \in Int
  <2>1. 2 * n - 1 - Spent(t, n) \in Int
    BY <1>1
  <2>. QED  BY <2>1, TurnsFact
<1>3. Good(t, a + 1, r, n, g, q, 0)
  BY GoodRetry
<1>4. f = 0 => Good(t, a, r, n, g, q + 1, 1)
  BY GoodRequest
<1>5. Fuel(t, n, a + 1, 0) \in Nat /\ Fuel(t, n, a, f) \in Nat
  BY <1>3, FuelFact
<1>6. f = 0 => Fuel(t, n, a, 1) \in Nat
  BY <1>4, FuelFact
<1>7. /\ Fuel(t, n, a + 1, 0) = 2 * (v - (a + 1)) - 0
      /\ Fuel(t, n, a, f) = 2 * (v - a) - f /\ Fuel(t, n, a, 1) = 2 * (v - a) - 1
  BY DEF Fuel
<1>. HIDE DEF v
<1>. QED  BY <1>1, <1>2, <1>5, <1>6, <1>7

(* So does the end of a segment, or its cut.                               *)
LEMMA FuelAdvance ==
  ASSUME NEW t, NEW a, NEW r, NEW n, NEW g, NEW q, NEW f,
         Good(t, a, r, n, g, q, f), t # <<>>,
         NEW u, NEW w, NEW h, NEW p, Good(u, 0, w, n, h, p, 0),
         u # <<>> => Spent(t, n) + 1 <= Spent(u, n)
  PROVE  Fuel(u, n, 0, 0) \in 0 .. Fuel(t, n, a, f) - 1
<1>1. Fuel(t, n, a, f) \in Nat \ {0}
  BY FuelFact
<1>2. CASE u = <<>>
  BY <1>1, <1>2 DEF Fuel
<1>3. CASE u # <<>>
  <2>. DEFINE y == 2 * n - 1 - Spent(t, n)
              z == 2 * n - 1 - Spent(u, n)
  <2>1. /\ n \in Nat \ {0} /\ a \in Nat /\ f \in {0, 1} /\ Spent(t, n) \in 0 .. 2 * n - 2
    BY SendingFact
  <2>2. Spent(u, n) \in 0 .. 2 * n - 2
    BY <1>3, SendingFact
  <2>3. y \in Int /\ z \in Int /\ z + 1 \in Int /\ z + 1 <= y
    BY <1>3, <2>1, <2>2
  <2>4. a \in 0 .. RetryAttempts + 1 /\ RetryAttempts \in Nat /\ (f = 1 => a <= RetryAttempts)
    BY RetryAssumption DEF Good
  <2>5. Fuel(u, n, 0, 0) \in Nat
    BY <1>3, FuelFact
  <2>6. /\ Fuel(t, n, a, f) = 2 * (Turns(y) - a) - f
        /\ Fuel(u, n, 0, 0) = 2 * (Turns(z) - 0) - 0
    BY <1>3 DEF Fuel
  <2>. HIDE DEF y, z
  <2>7. Turns(z) + RetryAttempts + 2 <= Turns(y) /\ Turns(y) \in Int /\ Turns(z) \in Int
    <3>1. Turns(z + 1) = Turns(z) + RetryAttempts + 2 /\ Turns(z + 1) <= Turns(y)
      BY <2>3, TurnsFact
    <3>. QED  BY <2>3, <3>1, TurnsFact
  <2>8. 2 * (Turns(z) - 0) - 0 <= 2 * (Turns(y) - a) - f - 1
    BY <2>1, <2>4, <2>7
  <2>. QED  BY <1>1, <2>5, <2>6, <2>8
<1>. QED  BY <1>2, <1>3

(* The segments left when the first is done with, and when it is cut.      *)
LEMMA SpentReturn ==
  ASSUME NEW t, NEW a, NEW r, NEW n, NEW g, NEW q, NEW f,
         Good(t, a, r, n, g, q, f), t # <<>>
  PROVE  Spent(t, n) + 1 <= Spent(Tail(t), n)
<1>. DEFINE b == t[1][1]
            e == t[1][2]
<1>1. /\ t \in Seq(Pairs) /\ n \in 0 .. MaxBatch /\ Linked(t, n)
      /\ n \in Nat \ {0} /\ Before(t, n) = b - 1
      /\ Spent(t, n) = 2 * Before(t, n) + Len(t) - 1
  BY SendingFact
<1>2. /\ b \in 1 .. n /\ e \in b .. n /\ Len(Tail(t)) = Len(t) - 1
      /\ Before(Tail(t), n) = e /\ Len(t) \in Nat
  BY <1>1, FirstFact
<1>3. Spent(Tail(t), n) = 2 * e + (Len(t) - 1) - 1
  BY <1>2 DEF Spent
<1>. HIDE DEF b, e
<1>. QED  BY <1>1, <1>2, <1>3

LEMMA SpentSplit ==
  ASSUME NEW t, NEW a, NEW r, NEW n, NEW g, NEW q, NEW f,
         Good(t, a, r, n, g, q, f), t # <<>>, t[1][1] < t[1][2]
  PROVE  Spent(t, n) + 1 <= Spent(Halves(Head(t)) \o Tail(t), n)
<1>. DEFINE b == t[1][1]
            e == t[1][2]
            u == Halves(Head(t)) \o Tail(t)
<1>1. /\ t \in Seq(Pairs) /\ n \in 0 .. MaxBatch /\ Linked(t, n)
      /\ MaxBatch \in Nat /\ n <= MaxBatch
      /\ n \in Nat \ {0} /\ Before(t, n) = b - 1
      /\ Spent(t, n) = 2 * Before(t, n) + Len(t) - 1
  BY SendingFact
<1>2. /\ b \in 1 .. n /\ e \in b .. n /\ Head(t) = <<b, e>> /\ Len(t) \in Nat \ {0}
      /\ b < e
  BY <1>1, FirstFact
<1>3. PICK m \in b .. e - 1 : Halves(<<b, e>>) = << <<b, m>>, <<m + 1, e>> >>
  <2>. HIDE DEF b, e
  <2>1. b \in Nat /\ e \in Nat
    BY <1>1, <1>2
  <2>. QED  BY <1>2, <2>1, HalvesFact
<1>4. <<b, m>> \in Pairs /\ <<m + 1, e>> \in Pairs
  <2>. HIDE DEF b, e
  <2>. QED  BY <1>1, <1>2, <1>3 DEF Pairs
<1>5. u = << <<b, m>>, <<m + 1, e>> >> \o Tail(t)
  BY <1>2, <1>3
<1>6. Len(u) = Len(t) + 1 /\ u[1] = <<b, m>>
  BY <1>1, <1>4, <1>5, CutFact
<1>7. u # <<>> /\ Before(u, n) = b - 1
  <2>1. u[1][1] = b
    BY <1>6
  <2>2. u # <<>>
    <3>1. Len(u) # 0
      BY <1>2, <1>6
    <3>. HIDE DEF u
    <3>. QED  BY <3>1
  <2>. HIDE DEF u, b
  <2>. QED  BY <2>1, <2>2 DEF Before
<1>8. Spent(u, n) = 2 * (b - 1) + (Len(t) + 1) - 1
  BY <1>6, <1>7 DEF Spent
<1>9. b \in Int /\ Len(t) \in Int
  <2>. HIDE DEF b
  <2>. QED  BY <1>2
<1>. HIDE DEF b, u
<1>10. Spent(t, n) + 1 <= Spent(u, n)
  BY <1>1, <1>8, <1>9
<1>. QED  BY <1>10 DEF u

(* Left, as the model defines it, is that number.                          *)
Written(t, n, a, f) ==
  IF t # <<>>
  THEN 2 * ((2 * (n - (Head(t)[1] - 1)) - Len(t)) * (RetryAttempts + 2) - a) - f
  ELSE 0
LEMMA LeftIs ==
  ASSUME SendInv, SendInv', NEW s \in Callers
  PROVE  /\ Left(s) = Fuel(todo[s], size[s], attempt[s], Busy(s))
         /\ Left(s)' = Fuel(todo'[s], size'[s], attempt'[s], Busy(s)')
<1>1. ASSUME NEW t, NEW a, NEW r, NEW n, NEW g, NEW q, NEW f,
             Good(t, a, r, n, g, q, f)
      PROVE  Written(t, n, a, f) = Fuel(t, n, a, f)
  <2>1. CASE t # <<>>
    BY <1>1, <2>1, FuelFact DEF Written
  <2>2. CASE t = <<>>
    BY <2>2 DEF Fuel, Written
  <2>. QED  BY <2>1, <2>2
<1>2. Local(s) /\ Local(s)'
  BY DEF SendInv
<1>3. Left(s) = Written(todo[s], size[s], attempt[s], Busy(s))
  BY DEF Left, Done, Sending, Busy, Written
<1>4. Left(s)' = Written(todo'[s], size'[s], attempt'[s], Busy(s)')
  BY DEF Left, Done, Sending, Busy, Written
<1>. QED  BY <1>1, <1>2, <1>3, <1>4 DEF Local

(* What a step of a caller does to its own send: an attempt fails, a       *)
(* request is made, the segment ends, or it is cut.                        *)
Retried(s) ==
  /\ attempt[s] <= RetryAttempts /\ s \notin inCall'
  /\ todo'[s] = todo[s] /\ size'[s] = size[s] /\ attempt'[s] = attempt[s] + 1
Asked(s) ==
  /\ attempt[s] <= RetryAttempts /\ s \notin inCall /\ s \in inCall'
  /\ todo'[s] = todo[s] /\ size'[s] = size[s] /\ attempt'[s] = attempt[s]
Ended(s) ==
  /\ s \notin inCall' /\ size'[s] = size[s] /\ attempt'[s] = 0
  /\ \/ todo'[s] = Tail(todo[s])
     \/ /\ todo[s][1][1] < todo[s][1][2]
        /\ todo'[s] = Halves(Head(todo[s])) \o Tail(todo[s])

(* Each of them brings it nearer to its end.                               *)
LEMMA LeftStep ==
  ASSUME SendInv, SendInv', NEW s \in Callers, Sending(s),
         Retried(s) \/ Asked(s) \/ Ended(s)
  PROVE  Left(s)' \in 0 .. Left(s) - 1
<1>. DEFINE t == todo[s]
            a == attempt[s]
            n == size[s]
            f == Busy(s)
            u == todo'[s]
            q == requests'[s]
<1>1. Local(s) /\ Local(s)'
  BY DEF SendInv
<1>2. Good(t, a, ok[s], n, settled[s], requests[s], f) /\ t # <<>>
  BY <1>1 DEF Local, Sending
<1>3. Good(u, attempt'[s], ok'[s], size'[s], settled'[s], q, Busy(s)')
  BY <1>1 DEF Local
<1>4. Left(s) = Fuel(t, n, a, f) /\ Left(s)' = Fuel(u, size'[s], attempt'[s], Busy(s)')
  BY LeftIs
<1>5. /\ s \in inCall => f = 1
      /\ s \notin inCall => f = 0
      /\ s \in inCall' => Busy(s)' = 1
      /\ s \notin inCall' => Busy(s)' = 0
  BY DEF Busy
<1>6. CASE Retried(s)
  <2>1. a <= RetryAttempts /\ Left(s)' = Fuel(t, n, a + 1, 0)
    BY <1>4, <1>5, <1>6 DEF Retried
  <2>. HIDE DEF t, a, n, f
  <2>. QED  BY <1>2, <1>4, <2>1, FuelRetry
<1>7. CASE Asked(s)
  <2>1. a <= RetryAttempts /\ f = 0 /\ Left(s)' = Fuel(t, n, a, 1)
    BY <1>4, <1>5, <1>7 DEF Asked
  <2>. HIDE DEF t, a, n, f
  <2>. QED  BY <1>2, <1>4, <2>1, FuelRetry
<1>8. CASE Ended(s)
  <2>1. Left(s)' = Fuel(u, n, 0, 0) /\ Good(u, 0, ok'[s], n, settled'[s], q, 0)
    BY <1>3, <1>4, <1>5, <1>8 DEF Ended
  <2>2. u = Tail(t) \/ (t[1][1] < t[1][2] /\ u = Halves(Head(t)) \o Tail(t))
    BY <1>8 DEF Ended
  <2>. HIDE DEF t, a, n, f, u, q
  <2>3. Spent(t, n) + 1 <= Spent(u, n)
    BY <1>2, <2>2, SpentReturn, SpentSplit
  <2>. QED  BY <1>2, <1>4, <2>1, <2>3, FuelAdvance
<1>. QED  BY <1>6, <1>7, <1>8

(* A send in progress before and after the end of a segment.               *)
LEMMA ReturnEnds ==
  ASSUME SendInv, NEW s \in Callers, NEW v, Return(s, v), size' = size, s \notin inCall'
  PROVE  Ended(s)
  BY DEF Return, Ended, SendInv

LEMMA RetryRetried ==
  ASSUME SendInv, NEW s \in Callers, attempt[s] <= RetryAttempts,
         attempt' = [attempt EXCEPT ![s] = @ + 1],
         todo' = todo, size' = size, s \notin inCall'
  PROVE  Retried(s)
  BY DEF Retried, SendInv

(* Every step of a caller is one of them.                                  *)
LEMMA StepMoves ==
  ASSUME SendInv, NEW s \in Callers, Step(s)
  PROVE  Sending(s) /\ (Retried(s) \/ Asked(s) \/ Ended(s))
<1>. USE DEF operation, history
<1>1. CASE Throttled(s)
  <2>1. /\ Sending(s) /\ attempt[s] <= RetryAttempts
        /\ attempt' = [attempt EXCEPT ![s] = @ + 1]
        /\ todo' = todo /\ size' = size /\ s \notin inCall'
    BY <1>1 DEF Throttled, Trying, Ready, breakerVars
  <2>. QED  BY <2>1, RetryRetried
<1>2. CASE Refused(s)
  <2>1. /\ Sending(s) /\ attempt[s] <= RetryAttempts
        /\ attempt' = [attempt EXCEPT ![s] = @ + 1]
        /\ todo' = todo /\ size' = size /\ s \notin inCall'
    BY <1>2 DEF Refused, Trying, Ready, Retry, breakerVars
  <2>. QED  BY <2>1, RetryRetried
<1>3. CASE Request(s)
  BY <1>3 DEF Request, Trying, Ready, Breaker!StartCall, sendVars, Asked
<1>4. CASE Exhausted(s)
  BY <1>4, ReturnEnds DEF Exhausted, Ready, breakerVars
<1>5. CASE Reply(s)
  <2>1. s \in inCall /\ inCall' = inCall \ {s}
    BY <1>5 DEF Reply, Accepted, Partial, Unusable, TooMany, Failed, Rejected, TooLarge,
           Breaker!CallSucceeded, Breaker!CallFailed, Breaker!CallNeutral
  <2>2. Sending(s) /\ attempt[s] <= RetryAttempts
    BY <2>1, InCallFact
  <2>3. size' = size
    BY <1>5 DEF Reply, Accepted, Partial, Unusable, TooMany, Failed, Rejected, TooLarge
  <2>4. GiveUp(s) => Retried(s) \/ Ended(s)
    BY <2>1, <2>2, <2>3, ReturnEnds, RetryRetried DEF GiveUp, Retry
  <2>5. CASE Accepted(s) \/ Partial(s)
    BY <2>1, <2>2, <2>3, <2>5, ReturnEnds DEF Accepted, Partial
  <2>6. CASE Unusable(s) \/ Failed(s) \/ \E r \in RetryAfters : TooMany(s, r)
    BY <2>1, <2>2, <2>3, <2>6, RetryRetried DEF Unusable, Failed, TooMany, Retry
  <2>7. CASE Rejected(s)
    BY <2>2, <2>4, <2>7 DEF Rejected
  <2>8. CASE TooLarge(s) /\ ~Splits(s)
    BY <2>2, <2>4, <2>8 DEF TooLarge
  <2>9. CASE TooLarge(s) /\ Splits(s)
    <3>1. /\ todo' = [todo EXCEPT ![s] = Halves(Head(@)) \o Tail(@)]
          /\ attempt' = [attempt EXCEPT ![s] = 0]
      BY <2>9 DEF TooLarge
    <3>2. todo'[s] = Halves(Head(todo[s])) \o Tail(todo[s]) /\ attempt'[s] = 0
      BY <3>1 DEF SendInv
    <3>3. todo[s][1][1] < todo[s][1][2]
      BY <2>2, <2>9, SplitsFact
    <3>. QED  BY <2>1, <2>2, <2>3, <3>2, <3>3 DEF Ended
  <2>. QED  BY <1>5, <2>5, <2>6, <2>7, <2>8, <2>9 DEF Reply
<1>. QED  BY <1>1, <1>2, <1>3, <1>4, <1>5 DEF Step

(* What another caller does leaves the send alone.                         *)
LEMMA OthersStay ==
  ASSUME SendInv, SendInv', NEW s \in Callers, NEW c \in Callers, c # s,
         Step(c) \/ Cancelled(c) \/ \E k \in Kinds[c], n \in 1 .. MaxBatch : Send(c, k, n)
  PROVE  Left(s)' = Left(s)
<1>1. /\ todo'[s] = todo[s] /\ size'[s] = size[s] /\ attempt'[s] = attempt[s]
      /\ s \in inCall' <=> s \in inCall
  <2>. USE DEF operation, history, sendVars, breakerVars, SendInv, Send, Cancelled, Step,
       Throttled, Refused, Request, Exhausted, Reply, Accepted, Partial, Unusable, Failed,
       Rejected, TooLarge, TooMany, GiveUp, Return, Retry, Breaker!StartCall,
       Breaker!CallSucceeded, Breaker!CallFailed, Breaker!CallNeutral
  <2>1. CASE \E k \in Kinds[c], n \in 1 .. MaxBatch : Send(c, k, n)
    BY <2>1
  <2>2. CASE Cancelled(c)
    BY <2>2
  <2>3. CASE Throttled(c) \/ Refused(c) \/ Request(c) \/ Exhausted(c)
    BY <2>3
  <2>4. CASE Reply(c)
    BY <2>4
  <2>. QED  BY <2>1, <2>2, <2>3, <2>4
<1>2. Busy(s)' = Busy(s)
  BY <1>1 DEF Busy
<1>. QED  BY <1>1, <1>2, LeftIs

-----------------------------------------------------------------------------
(* The theorems.                                                           *)

(* The initial states.                                                     *)
LEMMA InitOK ==
  ASSUME Init
  PROVE  SInv
<1>1. /\ todo = [s \in Callers |-> <<>>] /\ attempt = [s \in Callers |-> 0]
      /\ ok = [s \in Callers |-> TRUE] /\ size = [s \in Callers |-> 0]
      /\ settled = [s \in Callers |-> {}] /\ requests = [s \in Callers |-> 0]
      /\ starved = {}
      /\ trouble = FALSE /\ inCall = {} /\ fresh = {} /\ calls = <<>>
      /\ wait = [s \in Callers |-> 0] /\ granted = <<>>
      /\ state = "CLOSED" /\ failureCount = 0 /\ sinceFailure = Never
      /\ kind = [s \in Callers |-> CHOOSE k \in Kinds[s] : TRUE]
  BY DEF Init, Limiter!Init, Breaker!Init
<1>2. /\ MaxBatch \in Nat \ {0} /\ RetryAttempts \in Nat /\ MaxCalls \in Nat \ {0}
      /\ Window \in Nat \ {0}
  BY BatchAssumption, RetryAssumption, WindowFact
<1>3. kind \in [Callers -> Operations]
  <2>1. ASSUME NEW s \in Callers PROVE (CHOOSE k \in Kinds[s] : TRUE) \in Operations
    BY KindAssumption DEF Operations
  <2>. QED  BY <1>1, <2>1
<1>4. Good(<<>>, 0, TRUE, 0, {}, 0, 0)
  <2>1. <<>> \in Seq(Pairs) /\ Len(<<>>) = 0 /\ Before(<<>>, 0) = 0
    BY DEF Before
  <2>2. Linked(<<>>, 0)
    BY <2>1 DEF Linked
  <2>3. /\ 0 \in 0 .. RetryAttempts + 1 /\ 0 \in 0 .. MaxBatch /\ 1 .. 0 = {}
        /\ 0 \in Nat
    BY <1>2
  <2>. QED  BY <2>1, <2>2, <2>3 DEF Good
<1>5. ASSUME NEW s \in Callers PROVE Local(s)
  <2>1. /\ todo[s] = <<>> /\ attempt[s] = 0 /\ ok[s] = TRUE /\ size[s] = 0
        /\ settled[s] = {} /\ requests[s] = 0
    BY <1>1
  <2>2. Busy(s) = 0
    BY <1>1 DEF Busy
  <2>. QED  BY <1>4, <2>1, <2>2, Zenon DEF Local
<1>6. SendInv
  <2>1. /\ todo \in [Callers -> Seq(Pairs)]
        /\ attempt \in [Callers -> 0 .. RetryAttempts + 1]
        /\ ok \in [Callers -> BOOLEAN]
        /\ size \in [Callers -> 0 .. MaxBatch]
        /\ settled \in [Callers -> SUBSET (1 .. MaxBatch)]
        /\ requests \in [Callers -> Nat]
        /\ trouble \in BOOLEAN /\ inCall \subseteq Callers
    <3>1. /\ <<>> \in Seq(Pairs) /\ 0 \in 0 .. RetryAttempts + 1
          /\ 0 \in 0 .. MaxBatch /\ {} \in SUBSET (1 .. MaxBatch) /\ 0 \in Nat
      BY <1>2
    <3>. QED  BY <1>1, <3>1
  <2>. QED  BY <1>3, <1>5, <2>1 DEF SendInv
<1>7. WindowInv
  <2>1. calls \in Seq(0 .. Window) /\ granted \in Seq(0 .. Window - 1)
        /\ Len(calls) = 0 /\ Len(granted) = 0
    BY <1>1
  <2>2. wait \in [Callers -> Nat]
    BY <1>1
  <2>3. Limiter!TypeOK
    BY <1>1, <1>2, <2>1, <2>2 DEF Limiter!TypeOK
  <2>4. Sorted(calls) /\ Kept(calls, granted)
    BY <2>1 DEF Sorted, Kept
  <2>5. Limiter!SleepsLongEnough
    BY <1>1 DEF Limiter!SleepsLongEnough
  <2>. QED  BY <1>1, <2>3, <2>4, <2>5 DEF WindowInv
<1>8. BreakerInv
  <2>1. Breaker!TypeOK
    BY <1>1, BreakerAssumption DEF Breaker!TypeOK
  <2>2. Untroubled
    BY <1>1, <1>2 DEF Untroubled
  <2>. QED  BY <1>1, <2>1, <2>2 DEF BreakerInv
<1>. QED  BY <1>6, <1>7, <1>8 DEF SInv

(* Every step keeps the inductive invariant.                               *)
LEMMA StepOK ==
  ASSUME SInv, [Next]_vars
  PROVE  SInv'
<1>1. SendInv'
  BY SendStep DEF SInv
<1>2. WindowInv'
  BY WindowStep DEF SInv
<1>3. BreakerInv'
  BY BreakerStep, BreakerTypes, CalmNext, StarvedStep DEF SInv, BreakerInv
<1>. QED  BY <1>1, <1>2, <1>3 DEF SInv

(* Sends, limiter and breaker, in every reachable state.                   *)
LEMMA Inductive == Spec => []SInv
<1>. QED  BY InitOK, StepOK, PTL DEF Spec

(* A send in the words of the model's own invariants.                      *)
LEMMA LocalFacts ==
  ASSUME SendInv, NEW s \in Callers
  PROVE  /\ Linked(todo[s], size[s])
         /\ Done(s) = Before(todo[s], size[s])
         /\ settled[s] \subseteq 1 .. Done(s)
         /\ ok[s] => settled[s] = 1 .. Done(s)
         /\ Sending(s) => requests[s] <= (2 * Done(s) + Len(todo[s]) - 1)
                                         * (RetryAttempts + 1)
                            + attempt[s] + (IF s \in inCall THEN 1 ELSE 0)
         /\ \/ requests[s] <= (2 * size[s] - 1) * (RetryAttempts + 1)
            \/ size[s] = 0
<1>1. Good(todo[s], attempt[s], ok[s], size[s], settled[s], requests[s], Busy(s))
  BY Values
<1>2. todo[s] \in Seq(Pairs)
  BY <1>1 DEF Good
<1>3. Done(s) = Before(todo[s], size[s])
  BY <1>2 DEF Done, Before, Sending
<1>4. /\ settled[s] \subseteq 1 .. Done(s)
      /\ ok[s] => settled[s] = 1 .. Done(s)
      /\ Linked(todo[s], size[s])
  BY <1>1, <1>3 DEF Good
<1>5. Sending(s) => requests[s] <= (2 * Done(s) + Len(todo[s]) - 1)
                                         * (RetryAttempts + 1)
                            + attempt[s] + (IF s \in inCall THEN 1 ELSE 0)
  <2>. SUFFICES ASSUME todo[s] # <<>>
                PROVE  requests[s] <= (2 * Done(s) + Len(todo[s]) - 1)
                                         * (RetryAttempts + 1)
                            + attempt[s] + (IF s \in inCall THEN 1 ELSE 0)
    BY DEF Sending
  <2>1. /\ requests[s] <= Units(Spent(todo[s], size[s])) + (attempt[s] + Busy(s))
        /\ Spent(todo[s], size[s]) = 2 * Done(s) + Len(todo[s]) - 1
        /\ Units(Spent(todo[s], size[s])) \in Int
        /\ attempt[s] \in Int /\ Busy(s) \in Int /\ requests[s] \in Int
    <3>. DEFINE t == todo[s]
                n == size[s]
                a == attempt[s]
                q == requests[s]
                f == Busy(s)
    <3>. HIDE DEF t, n, a, q, f
    <3>1. Good(t, a, ok[s], n, settled[s], q, f) /\ t # <<>> /\ Done(s) = Before(t, n)
      BY <1>1, <1>3 DEF t, n, a, q, f
    <3>2. /\ q <= Units(Spent(t, n)) + (a + f) /\ q \in Int /\ a \in Int /\ f \in Int
          /\ Spent(t, n) = 2 * Before(t, n) + Len(t) - 1
          /\ Units(Spent(t, n)) \in Int
      BY <3>1, SendingFact
    <3>. QED  BY <3>1, <3>2 DEF t, n, a, q, f
  <2>. DEFINE x == 2 * Done(s) + Len(todo[s]) - 1
              y == x * (RetryAttempts + 1)
  <2>2. Units(Spent(todo[s], size[s])) = y
    BY <2>1 DEF Units, K
  <2>3. Busy(s) = IF s \in inCall THEN 1 ELSE 0
    BY DEF Busy
  <2>. HIDE DEF y
  <2>4. requests[s] <= y + attempt[s] + Busy(s)
    BY <2>1, <2>2
  <2>. QED  BY <2>3, <2>4 DEF y
<1>6. \/ requests[s] <= (2 * size[s] - 1) * (RetryAttempts + 1)
      \/ size[s] = 0
  <2>1. requests[s] <= Units(2 * size[s] - 1) \/ size[s] = 0
    BY <1>1 DEF Good
  <2>. QED  BY <2>1 DEF Units, K
<1>. QED  BY <1>3, <1>4, <1>5, <1>6

(* The inductive invariant says all that the run checks.                   *)
LEMMA Meaning ==
  ASSUME SInv
  PROVE  IInv
<1>1. TypeOK
  <2>1. Limiter!TypeOK /\ Breaker!TypeOK /\ starved \subseteq Callers
    BY DEF SInv, WindowInv, BreakerInv
  <2>. QED  BY <2>1 DEF SInv, SendInv, TypeOK, Pairs, Operations
<1>2. Chain
  BY LocalFacts DEF SInv, Chain, Linked
<1>3. Progress
  BY LocalFacts DEF SInv, Progress
<1>4. InFlight
  <2>1. fresh \cap inCall = {}
    BY WindowTypes DEF SInv
  <2>. QED  BY <2>1, InCallFact DEF SInv, InFlight
<1>5. Budget
  BY LocalFacts DEF SInv, Budget
<1>6. FewRequests
  BY LocalFacts DEF SInv, FewRequests
<1>7. Untroubled
  BY DEF SInv, BreakerInv
<1>8. LimiterInv
  BY DEF SInv, WindowInv, LimiterInv, Limiter!OldestFirst, Limiter!GrantsKept,
         Sorted, Kept
<1>. QED  BY <1>1, <1>2, <1>3, <1>4, <1>5, <1>6, <1>7, <1>8 DEF IInv

(* Segments, results, attempts, requests, the limiter's list and the state *)
(* of the circuit fit together in every reachable state.                   *)
THEOREM Invariance == Spec => []IInv
<1>. QED  BY Inductive, Meaning, PTL

(* Every variable keeps its type; the limiter's list never outgrows        *)
(* max_calls (acquire).                                                    *)
THEOREM TypeCorrect == Spec => []TypeOK
<1>1. IInv => TypeOK
  BY DEF IInv
<1>. QED  BY <1>1, Invariance, PTL

(* When send_events returns True every item of the batch was acknowledged  *)
(* or rejected for good, however it was split (send_events,                *)
(* _split_or_drop_on_payload_too_large).                                   *)
THEOREM TrueIsSafe == Spec => []TrueMeansSettled
<1>1. IInv => TrueMeansSettled
  <2>. SUFFICES ASSUME IInv, NEW s \in Callers, Returned(s), ok[s]
                PROVE  settled[s] = 1 .. size[s]
    BY DEF TrueMeansSettled
  <2>1. Done(s) = size[s]
    BY DEF Returned, Done
  <2>2. Progress
    BY DEF IInv
  <2>3. settled[s] = 1 .. Done(s)
    BY <2>2, Zenon DEF Progress
  <2>. QED  BY <2>1, <2>3
<1>. QED  BY <1>1, Invariance, PTL

(* A batch comes back False only after a passing failure of some request   *)
(* or a cancellation, or when the limiter denied the last attempt on one   *)
(* of its own segments; rejections never open the circuit                  *)
(* (_send_with_retry, CircuitBreaker.call).                                *)
THEOREM FalseIsPassing == Spec => []FalseMeansTrouble
<1>1. IInv => FalseMeansTrouble
  BY DEF IInv, Untroubled, FalseMeansTrouble, Returned
<1>. QED  BY <1>1, Invariance, PTL

(* A send of n items makes at most (2n - 1)(retry_attempts + 1) requests,  *)
(* whatever mixture of 413, failures and denials it meets.                 *)
THEOREM RequestsBounded == Spec => []FewRequests
<1>1. IInv => FewRequests
  BY DEF IInv
<1>. QED  BY <1>1, Invariance, PTL

(* Each step of a send brings it nearer to its end, and nobody else moves  *)
(* it away.                                                                *)
THEOREM SendsRunDown == Spec => RunsDown
<1>1. ASSUME SInv, SInv', [Next]_vars, NEW s \in Callers, Sending(s)
      PROVE  IF Step(s) THEN Left(s)' \in 0 .. Left(s) - 1
                        ELSE Left(s)' \in {0, Left(s)}
  <2>1. SendInv /\ SendInv'
    BY <1>1 DEF SInv
  <2>2. CASE Step(s)
    BY <1>1, <2>1, <2>2, StepMoves, LeftStep
  <2>3. CASE ~Step(s)
    <3>1. CASE UNCHANGED vars \/ Tick
      <4>1. todo' = todo /\ size' = size /\ attempt' = attempt /\ inCall' = inCall
        BY <3>1 DEF vars, Tick, Breaker!Tick, sendVars, operation, history, breakerVars
      <4>2. Busy(s)' = Busy(s)
        BY <4>1 DEF Busy
      <4>3. Left(s)' = Left(s)
        BY <2>1, <4>1, <4>2, LeftIs
      <4>. QED  BY <2>3, <4>3
    <3>2. CASE Cancelled(s)
      <4>1. todo'[s] = <<>>
        BY <2>1, <3>2 DEF Cancelled, SendInv
      <4>2. Left(s)' = 0
        BY <4>1 DEF Left, Sending
      <4>. QED  BY <2>3, <4>2
    <3>3. ASSUME NEW c \in Callers, c # s,
                 Step(c) \/ Cancelled(c) \/ \E k \in Kinds[c], n \in 1 .. MaxBatch : Send(c, k, n)
          PROVE  Left(s)' = Left(s)
      BY <2>1, <3>3, OthersStay
    <3>4. ~ \E k \in Kinds[s], n \in 1 .. MaxBatch : Send(s, k, n)
      BY <1>1 DEF Send
    <3>. QED  BY <1>1, <2>3, <3>1, <3>2, <3>3, <3>4 DEF Next
  <2>. QED  BY <2>2, <2>3
<1>2. SInv /\ SInv' /\ [Next]_vars =>
        [\A s \in Callers : Sending(s) =>
           IF Step(s) THEN Left(s)' \in 0 .. Left(s) - 1
                      ELSE Left(s)' \in {0, Left(s)}]_vars
  BY <1>1
<1>. QED  BY <1>2, Inductive, PTL DEF Spec, RunsDown

(* No send repeats an item that the collector has acknowledged: the        *)
(* segments still to be sent lie behind everything that was settled.       *)
THEOREM NoDuplicates == Spec => SentOnce
<1>1. ASSUME SInv, NEW s \in Callers, Request(s)
      PROVE  Segment(s) \cap settled[s] = {}
  <2>1. todo[s] # <<>> /\ todo[s] \in Seq(Pairs) /\ Sending(s)
    BY <1>1 DEF Request, Trying, Ready, Sending, SInv, SendInv
  <2>2. settled[s] \subseteq 1 .. Done(s) /\ Done(s) = Head(todo[s])[1] - 1
    BY <1>1, <2>1, LocalFacts DEF SInv, Done
  <2>3. Head(todo[s]) \in Pairs
    BY <2>1
  <2>. DEFINE b == Head(todo[s])[1]
              e == Head(todo[s])[2]
  <2>4. b \in Int /\ e \in Int
    BY <2>3, BatchAssumption DEF Pairs
  <2>5. Segment(s) = b .. e
    BY DEF Segment
  <2>. HIDE DEF b, e
  <2>6. (b .. e) \cap (1 .. b - 1) = {}
    BY <2>4
  <2>7. settled[s] \subseteq 1 .. b - 1
    BY <2>2 DEF b
  <2>. QED  BY <2>5, <2>6, <2>7
<1>2. SInv /\ [Next]_vars =>
        [\A s \in Callers : Request(s) => Segment(s) \cap settled[s] = {}]_vars
  BY <1>1
<1>. QED  BY <1>2, Inductive, PTL DEF Spec, SentOnce

(* Never more than max_calls grants in any time_window seconds (acquire).  *)
THEOREM RateBounded == Spec => []WindowBound
<1>1. ASSUME SInv PROVE WindowBound
  <2>1. /\ calls \in Seq(0 .. Window) /\ granted \in Seq(0 .. Window - 1)
        /\ Len(calls) <= MaxCalls /\ Kept(calls, granted)
    BY <1>1, WindowTypes DEF SInv
  <2>2. Len(calls) \in Nat /\ Len(granted) \in Nat /\ Len(granted) <= Len(calls)
    BY <2>1 DEF Kept
  <2>3. Len(granted) <= MaxCalls
    BY <2>1, <2>2, WindowFact
  <2>. QED  BY <2>3 DEF WindowBound, Limiter!WindowBound
<1>. QED  BY <1>1, Inductive, PTL

(* Whoever was denied and slept for get_retry_after finds room when it     *)
(* wakes, unless somebody else was granted meanwhile.                      *)
THEOREM SleepSuffices == Spec => []RetryAfterSuffices
<1>1. ASSUME SInv, NEW c \in fresh, wait[c] = 0
      PROVE  Len(Limiter!Live(calls)) < MaxCalls
  <2>1. /\ calls \in Seq(0 .. Window) /\ Len(calls) <= MaxCalls /\ Sorted(calls)
        /\ calls # <<>> /\ calls[1] + wait[c] >= Window
    BY <1>1, WindowTypes DEF SInv
  <2>2. Len(calls) \in Nat \ {0}
    BY <2>1, EmptySeq
  <2>3. 1 \in 1 .. Len(calls)
    BY <2>2
  <2>4. calls[1] \in 0 .. Window
    BY <2>1, <2>3, ElementOfSeq
  <2>5. calls[1] >= Window
    BY <1>1, <2>1, <2>4, WindowFact
  <2>. DEFINE v == Limiter!Live(calls)
  <2>6. PICK k \in 0 .. Len(calls) :
              /\ v \in Seq(0 .. Window - 1) /\ Len(v) = Len(calls) - k
              /\ \A i \in 1 .. Len(v) : v[i] = calls[i + k]
    BY <2>1, LiveFact
  <2>. HIDE DEF v
  <2>7. k # 0
    <3>. SUFFICES ASSUME k = 0 PROVE FALSE
      OBVIOUS
    <3>1. Len(v) = Len(calls) /\ 1 \in 1 .. Len(v) /\ 1 + k = 1
      BY <2>2, <2>6
    <3>2. v[1] = calls[1]
      BY <2>6, <3>1
    <3>3. v[1] \in 0 .. Window - 1
      BY <2>6, <3>1, ElementOfSeq
    <3>. QED  BY <2>5, <3>2, <3>3, WindowFact
  <2>8. Len(v) < MaxCalls
    BY <2>1, <2>2, <2>6, <2>7, WindowFact
  <2>. QED  BY <2>8 DEF v
<1>2. SInv => RetryAfterSuffices
  BY <1>1 DEF RetryAfterSuffices, Limiter!RetryAfterSuffices
<1>. QED  BY <1>2, Inductive, PTL

(* The transport's use of the circuit breaker is a behaviour of the        *)
(* breaker's own specification: each call ends in exactly one of success,  *)
(* failure or neutral, and starts only when the breaker lets it.           *)
THEOREM ImplementsBreaker == Spec => BreakerSpec
<1>1. Init => Breaker!Init
  BY DEF Init
<1>2. [Next]_vars => [Breaker!Next]_(Breaker!vars)
  BY BreakerStep
<1>. QED  BY <1>1, <1>2, PTL DEF Spec, BreakerSpec, Breaker!Spec

(* The results about the breaker, for the variables of this module.        *)
Circuit == INSTANCE CircuitBreakerProofs

(* So what is proved of the breaker holds in the transport: after a        *)
(* threshold of passing failures in a row, of whichever callers, no        *)
(* request leaves until recovery_timeout has passed since the latest.      *)
THEOREM RequestsFailFast == Spec => Breaker!FailFast
<1>1. Breaker!Init => Circuit!Init
  BY DEF Breaker!Init, Circuit!Init
<1>. USE DEF Breaker!vars, Circuit!vars, Breaker!RecoveryElapsed,
             Circuit!RecoveryElapsed, Breaker!Refused, Circuit!Refused
<1>2. [Breaker!Next]_(Breaker!vars) => [Circuit!Next]_(Circuit!vars)
  BY DEF Breaker!Next, Breaker!StartCall, Breaker!CallEnds, Breaker!CallSucceeded,
         Breaker!CallFailed, Breaker!CallNeutral, Breaker!Tick,
         Circuit!Next, Circuit!StartCall, Circuit!CallEnds, Circuit!CallSucceeded,
         Circuit!CallFailed, Circuit!CallNeutral, Circuit!Tick
<1>3. Circuit!Spec => Circuit!FailFast
  BY Circuit!FailsFast, BreakerAssumption
<1>. QED  BY <1>1, <1>2, <1>3, ImplementsBreaker, PTL
          DEF BreakerSpec, Breaker!Spec, Circuit!Spec, Breaker!FailFast,
              Circuit!FailFast
=============================================================================
