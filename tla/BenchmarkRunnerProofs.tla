----------------------- MODULE BenchmarkRunnerProofs -----------------------
(***************************************************************************)
(* Proofs about BenchmarkRunner, for any number of runs and any latencies. *)
(***************************************************************************)
EXTENDS BenchmarkRunner, FiniteSetTheorems, TLAPS

-----------------------------------------------------------------------------
(* Arithmetic. *)

LEMMA Division ==
  ASSUME NEW a \in Nat
  PROVE  /\ a \div 100 \in Nat /\ a % 100 \in 0..99
         /\ a = 100 * (a \div 100) + (a % 100)
  OBVIOUS

LEMMA Products ==
  ASSUME NEW a \in Int, NEW b \in Int, NEW c \in Int
  PROVE  /\ a * b \in Int /\ a * b = b * a
         /\ a <= b /\ 0 <= c => a * c <= b * c /\ c * a <= c * b
         /\ (a + b) * c = a * c + b * c
         /\ (a - b) * c = a * c - b * c
         /\ c * (a + b) = c * a + c * b
         /\ c * (a - b) = c * a - c * b
  OBVIOUS

\* A weighted mean of two numbers lies between them.
LEMMA Between ==
  ASSUME NEW a \in Nat, NEW b \in Nat, a <= b, NEW w \in 0..100
  PROVE  /\ a * (100 - w) + b * w \in Nat
         /\ 100 * a <= a * (100 - w) + b * w
         /\ a * (100 - w) + b * w <= 100 * b
         /\ \A u \in 0..100 : u <= w => a * (100 - u) + b * u <= a * (100 - w) + b * w
<1>1. a * (100 - w) = 100 * a - a * w /\ a * w \in Int /\ b * w \in Int
  BY Products
<1>2. a * w <= b * w /\ (b - a) * w = b * w - a * w
  BY Products
<1>3. (b - a) * w <= (b - a) * 100
  BY Products
<1>4. 0 <= a * w
  <2>1. 0 * w <= a * w
    BY Products
  <2>2. QED
    BY <2>1
<1>5. ASSUME NEW u \in 0..100, u <= w
      PROVE  a * (100 - u) + b * u <= a * (100 - w) + b * w
  <2>1. a * (100 - u) = 100 * a - a * u /\ a * u \in Int /\ b * u \in Int
    BY Products
  <2>2. (b - a) * u <= (b - a) * w /\ (b - a) * u = b * u - a * u
    BY <1>5, Products
  <2>3. QED
    BY <1>1, <1>2, <2>1, <2>2
<1>6. a * (100 - w) + b * w \in Nat /\ 100 * a <= a * (100 - w) + b * w
  BY <1>1, <1>2, <1>4
<1>7. a * (100 - w) + b * w <= 100 * b
  BY <1>1, <1>2, <1>3
<1>8. QED
  BY <1>5, <1>6, <1>7

-----------------------------------------------------------------------------
(* Percentiles of an ascending sequence. *)

Ascends(s) == \A i, j \in DOMAIN s : i <= j => s[i] <= s[j]

\* Of several samples the percentile is a weighted mean of two neighbours.
LEMMA Neighbours ==
  ASSUME NEW s \in Seq(Nat), Ascends(s), Len(s) > 1, NEW p \in 1..99
  PROVE  \E l \in 0..(Len(s) - 2), f \in 0..99 :
           /\ l = (p * (Len(s) - 1)) \div 100 /\ f = (p * (Len(s) - 1)) % 100
           /\ p * (Len(s) - 1) = 100 * l + f
           /\ s[l + 1] \in Nat /\ s[l + 2] \in Nat /\ s[l + 1] <= s[l + 2]
           /\ Percentile(s, p) = s[l + 1] * (100 - f) + s[l + 2] * f
           /\ Percentile(s, p) \in Nat
           /\ 100 * s[l + 1] <= Percentile(s, p) /\ Percentile(s, p) <= 100 * s[l + 2]
<1> DEFINE n == Len(s) - 1
           r == p * n
           l == r \div 100
           f == r % 100
<1>1. n \in Nat /\ n >= 1 /\ r \in Nat /\ r < 100 * n
  <2>1. r \in Int /\ p * n <= 99 * n /\ 0 * n <= p * n
    BY Products
  <2>2. QED
    BY <2>1
<1>2. l \in Nat /\ f \in 0..99 /\ r = 100 * l + f
  <2> HIDE DEF r
  <2>1. QED
    BY <1>1, Division
<1> HIDE DEF l, f, r
<1>3. l \in 0..(Len(s) - 2)
  BY <1>1, <1>2
<1>4. l + 1 \in DOMAIN s /\ l + 2 \in DOMAIN s /\ l + 1 <= l + 2
  BY <1>3
<1>5. s[l + 1] \in Nat /\ s[l + 2] \in Nat /\ s[l + 1] <= s[l + 2]
  BY <1>4 DEF Ascends
<1>6. Percentile(s, p) = s[l + 1] * (100 - f) + s[l + 2] * f
  <2> DEFINE u == IF f = 0 THEN l ELSE l + 1
  <2>1. Len(s) \in Nat /\ Len(s) > 1
    BY <1>1
  <2>2. /\ Len(s) # 0 /\ Len(s) # 1
        /\ ~(l >= Len(s)) /\ ~(l + 1 >= Len(s))
    <3> DEFINE m == Len(s)
    <3> HIDE DEF m
    <3>1. m \in Nat /\ m > 1 /\ l \in 0..(m - 2)
      BY <1>3, <2>1 DEF m
    <3>2. m # 0 /\ m # 1 /\ ~(l >= m) /\ ~(l + 1 >= m)
      BY <3>1
    <3>3. QED
      BY <3>2 DEF m
  <2>3. Percentile(s, p) = s[l + 1] * (100 - f) + s[u + 1] * f
    BY <2>2 DEF Percentile, l, f, r
  <2>4. CASE f = 0
    <3>1. s[u + 1] * f = 0 /\ s[l + 2] * f = 0
      BY <1>5, <2>4
    <3>2. QED
      BY <2>3, <3>1
  <2>5. CASE f # 0
    <3>1. u + 1 = l + 2
      BY <1>2, <2>5
    <3>2. QED
      BY <2>3, <3>1
  <2>6. QED
    BY <2>4, <2>5
<1>7. /\ Percentile(s, p) \in Nat
      /\ 100 * s[l + 1] <= Percentile(s, p) /\ Percentile(s, p) <= 100 * s[l + 2]
  <2> DEFINE a == s[l + 1]
             b == s[l + 2]
  <2>1. a \in Nat /\ b \in Nat /\ a <= b /\ f \in 0..100
    BY <1>2, <1>5
  <2>2. Percentile(s, p) = a * (100 - f) + b * f
    BY <1>6
  <2> HIDE DEF a, b
  <2>3. Percentile(s, p) \in Nat /\ 100 * a <= Percentile(s, p) /\ Percentile(s, p) <= 100 * b
    BY <2>1, <2>2, Between
  <2>4. QED
    BY <2>3 DEF a, b
<1>8. QED
  <2>1. p * (Len(s) - 1) = r
    BY DEF r
  <2>2. l = (p * (Len(s) - 1)) \div 100 /\ f = (p * (Len(s) - 1)) % 100
    BY DEF l, f, r
  <2>3. p * (Len(s) - 1) = 100 * l + f /\ f \in 0..99
    BY <1>2, <2>1
  <2>4. QED
    BY <1>3, <1>5, <1>6, <1>7, <2>2, <2>3, Zenon

\* The percentile lies between the least and the greatest sample, the samples
\* below it and those not above it reach as far as its rank says.
LEMMA PercentileDivides ==
  ASSUME NEW s \in Seq(Nat), Ascends(s), Len(s) > 0, NEW p \in 1..99
  PROVE  /\ Percentile(s, p) \in Nat
         /\ 100 * s[1] <= Percentile(s, p) /\ Percentile(s, p) <= 100 * s[Len(s)]
         /\ \E m \in Nat :
              /\ 100 * (m - 1) < p * (Len(s) - 1)
              /\ \A k \in DOMAIN s : 100 * s[k] < Percentile(s, p) => k <= m
         /\ \E m \in DOMAIN s :
              /\ p * (Len(s) - 1) < 100 * m
              /\ \A k \in 1..m : 100 * s[k] <= Percentile(s, p)
<1> DEFINE v == Percentile(s, p)
           r == p * (Len(s) - 1)
<1>1. Len(s) \in Nat /\ DOMAIN s = 1..Len(s) /\ \A k \in DOMAIN s : s[k] \in Nat
  OBVIOUS
<1>2. CASE Len(s) = 1
  <2>1. v = 100 * s[1] /\ r = 0 /\ DOMAIN s = 1..1 /\ s[1] \in Nat
    <3>1. Len(s) # 0 /\ Len(s) = 1
      BY <1>2
    <3>2. v = 100 * s[1]
      BY <3>1 DEF Percentile
    <3>3. r = 0
      BY <1>2
    <3>4. QED
      BY <1>1, <1>2, <3>2, <3>3
  <2> HIDE DEF v, r
  <2>2. 100 * (0 - 1) < r /\ \A k \in DOMAIN s : 100 * s[k] < v => k <= 0
    BY <2>1
  <2>3. r < 100 * 1 /\ \A k \in 1..1 : 100 * s[k] <= v
    BY <2>1
  <2>4. 1 \in DOMAIN s /\ v \in Nat /\ 100 * s[1] <= v /\ v <= 100 * s[Len(s)]
    BY <1>2, <2>1
  <2>5. QED
    BY <2>2, <2>3, <2>4 DEF v, r
<1>3. CASE Len(s) > 1
  <2>1. PICK l \in 0..(Len(s) - 2), f \in 0..99 :
          /\ r = 100 * l + f
          /\ s[l + 1] \in Nat /\ s[l + 2] \in Nat /\ s[l + 1] <= s[l + 2]
          /\ v = s[l + 1] * (100 - f) + s[l + 2] * f
          /\ v \in Nat /\ 100 * s[l + 1] <= v /\ v <= 100 * s[l + 2]
    BY <1>3, Neighbours, Zenon
  <2> HIDE DEF v, r
  <2>2. v \in Nat /\ 100 * s[l + 1] <= v /\ v <= 100 * s[l + 2]
    BY <2>1
  <2>3. /\ 1 \in DOMAIN s /\ l + 1 \in DOMAIN s /\ l + 2 \in DOMAIN s
        /\ Len(s) \in DOMAIN s
    BY <1>1, <1>3
  <2>4. 100 * s[1] <= v /\ v <= 100 * s[Len(s)]
    <3>1. s[1] <= s[l + 1] /\ s[l + 2] <= s[Len(s)]
      BY <1>1, <2>3 DEF Ascends
    <3>2. QED
      BY <1>1, <2>2, <2>3, <3>1
  <2>5. \A k \in 1..(l + 1) : 100 * s[k] <= v
    <3> SUFFICES ASSUME NEW k \in 1..(l + 1) PROVE 100 * s[k] <= v
      OBVIOUS
    <3>1. k \in DOMAIN s /\ s[k] <= s[l + 1]
      BY <1>1, <2>3 DEF Ascends
    <3>2. QED
      BY <1>1, <2>2, <2>3, <3>1
  <2>6. \E m \in Nat : /\ 100 * (m - 1) < r
                       /\ \A k \in DOMAIN s : 100 * s[k] < v => k <= m
    <3>1. CASE f = 0
      <4>1. v = 100 * s[l + 1] /\ r = 100 * l
        BY <2>1, <3>1
      <4>2. ASSUME NEW k \in DOMAIN s, 100 * s[k] < v PROVE k <= l
        <5> SUFFICES ASSUME k >= l + 1 PROVE FALSE
          BY <1>1
        <5>1. s[l + 1] <= s[k]
          BY <1>1, <2>3 DEF Ascends
        <5>2. QED
          BY <1>1, <2>3, <4>1, <4>2, <5>1
      <4>3. 100 * (l - 1) < r
        BY <4>1
      <4>4. QED
        BY <4>2, <4>3
    <3>2. CASE f > 0
      <4>1. ASSUME NEW k \in DOMAIN s, 100 * s[k] < v PROVE k <= l + 1
        <5> SUFFICES ASSUME k >= l + 2 PROVE FALSE
          BY <1>1
        <5>1. s[l + 2] <= s[k]
          BY <1>1, <2>3 DEF Ascends
        <5>2. QED
          BY <1>1, <2>2, <2>3, <4>1, <5>1
      <4>2. 100 * ((l + 1) - 1) < r
        BY <2>1, <3>2
      <4>3. l + 1 \in Nat
        OBVIOUS
      <4>4. QED
        BY <4>1, <4>2, <4>3
    <3>3. QED
      BY <3>1, <3>2
  <2>7. r < 100 * (l + 1)
    BY <2>1
  <2>8. QED
    BY <2>2, <2>3, <2>4, <2>5, <2>6, <2>7 DEF v, r
<1>4. QED
  BY <1>1, <1>2, <1>3

\* The percentiles are in order.
LEMMA PercentileOrder ==
  ASSUME NEW s \in Seq(Nat), Ascends(s), Len(s) > 0,
         NEW p \in 1..99, NEW q \in 1..99, p <= q
  PROVE  Percentile(s, p) <= Percentile(s, q)
<1>1. Len(s) \in Nat /\ DOMAIN s = 1..Len(s) /\ \A k \in DOMAIN s : s[k] \in Nat
  OBVIOUS
<1>2. CASE Len(s) = 1
  BY <1>1, <1>2 DEF Percentile
<1>3. CASE Len(s) > 1
  <2>1. PICK l \in 0..(Len(s) - 2), f \in 0..99 :
          /\ p * (Len(s) - 1) = 100 * l + f
          /\ s[l + 1] \in Nat /\ s[l + 2] \in Nat /\ s[l + 1] <= s[l + 2]
          /\ Percentile(s, p) = s[l + 1] * (100 - f) + s[l + 2] * f
          /\ Percentile(s, p) \in Nat
          /\ 100 * s[l + 1] <= Percentile(s, p) /\ Percentile(s, p) <= 100 * s[l + 2]
    BY <1>3, Neighbours, Zenon
  <2>2. PICK m \in 0..(Len(s) - 2), g \in 0..99 :
          /\ q * (Len(s) - 1) = 100 * m + g
          /\ s[m + 1] \in Nat /\ s[m + 2] \in Nat /\ s[m + 1] <= s[m + 2]
          /\ Percentile(s, q) = s[m + 1] * (100 - g) + s[m + 2] * g
          /\ Percentile(s, q) \in Nat
          /\ 100 * s[m + 1] <= Percentile(s, q) /\ Percentile(s, q) <= 100 * s[m + 2]
    BY <1>3, Neighbours, Zenon
  <2>3. 100 * l + f <= 100 * m + g
    <3> DEFINE n == Len(s) - 1
    <3>1. n \in Nat /\ p * n = 100 * l + f /\ q * n = 100 * m + g
      BY <1>1, <1>3, <2>1, <2>2
    <3> HIDE DEF n
    <3>2. p * n <= q * n
      BY <3>1, Products
    <3>3. QED
      BY <3>1, <3>2
  <2>4. CASE l = m
    <3> DEFINE a == s[l + 1]
               b == s[l + 2]
    <3>1. a \in Nat /\ b \in Nat /\ a <= b
      BY <2>1, Zenon
    <3>2. f \in 0..100 /\ g \in 0..100 /\ f <= g
      BY <2>3, <2>4
    <3>3. /\ Percentile(s, p) = a * (100 - f) + b * f
          /\ Percentile(s, q) = a * (100 - g) + b * g
      BY <2>1, <2>2, <2>4, Zenon
    <3> HIDE DEF a, b
    <3>4. a * (100 - f) + b * f <= a * (100 - g) + b * g
      BY <3>1, <3>2, Between
    <3>5. QED
      BY <3>3, <3>4
  <2>5. CASE l < m
    <3>1. s[l + 2] <= s[m + 1]
      BY <1>1, <1>3, <2>5 DEF Ascends
    <3> DEFINE c == s[l + 2]
               d == s[m + 1]
               a == 100 * c
               b == 100 * d
    <3>2. c \in Nat /\ d \in Nat /\ c <= d
      BY <2>1, <2>2, <3>1, Zenon
    <3> HIDE DEF c, d
    <3>3. a \in Nat /\ b \in Nat /\ a <= b
      BY <3>2
    <3>4. Percentile(s, p) <= a /\ b <= Percentile(s, q)
      BY <2>1, <2>2, Zenon DEF c, d
    <3>5. Percentile(s, p) \in Nat /\ Percentile(s, q) \in Nat
      BY <2>1, <2>2
    <3> HIDE DEF a, b
    <3>6. QED
      BY <3>3, <3>4, <3>5
  <2>6. QED
    BY <2>3, <2>4, <2>5
<1>4. QED
  BY <1>1, <1>2, <1>3

-----------------------------------------------------------------------------
(* Sorting. *)

LEMMA Interval ==
  ASSUME NEW n \in Nat
  PROVE  IsFiniteSet(1..n) /\ Cardinality(1..n) = n
<1>1. 1 \in Int /\ n \in Int
  OBVIOUS
<1>2. IsFiniteSet(1..n) /\ Cardinality(1..n) = IF 1 > n THEN 0 ELSE n - 1 + 1
  BY <1>1, FS_Interval
<1>3. QED
  BY <1>2

\* Sorting keeps how many samples lie in a set.
LEMMA SortedCounts ==
  ASSUME NEW q \in Seq(Nat), NEW s \in SortedSamples(q), NEW U
  PROVE  /\ IsFiniteSet({k \in DOMAIN s : s[k] \in U})
         /\ IsFiniteSet({k \in DOMAIN q : q[k] \in U})
         /\ Cardinality({k \in DOMAIN q : q[k] \in U}) =
              Cardinality({k \in DOMAIN s : s[k] \in U})
<1> DEFINE A == {k \in DOMAIN s : s[k] \in U}
           B == {k \in DOMAIN q : q[k] \in U}
<1>1. PICK b \in Bijection(DOMAIN q, DOMAIN q) : s = [k \in DOMAIN q |-> q[b[k]]]
  BY DEF SortedSamples
<1>2. /\ b \in [DOMAIN q -> DOMAIN q]
      /\ \A i, j \in DOMAIN q : b[i] = b[j] => i = j
      /\ \A j \in DOMAIN q : \E i \in DOMAIN q : b[i] = j
  BY DEF Bijection, Injection, Surjection, IsInjective
<1>3. DOMAIN s = DOMAIN q /\ \A k \in DOMAIN q : s[k] = q[b[k]]
  BY <1>1
<1> DEFINE g == [k \in A |-> b[k]]
<1>4. g \in Bijection(A, B)
  <2>1. g \in [A -> B]
    BY <1>2, <1>3
  <2>2. \A i, j \in A : g[i] = g[j] => i = j
    BY <1>2, <1>3
  <2>3. \A j \in B : \E i \in A : g[i] = j
    BY <1>2, <1>3
  <2> HIDE DEF g, A, B
  <2>4. DOMAIN g = A
    BY <2>1
  <2>5. QED
    BY <2>1, <2>2, <2>3, <2>4 DEF Bijection, Injection, Surjection, IsInjective
<1>5. IsFiniteSet(A) /\ IsFiniteSet(B)
  <2>1. Len(q) \in Nat /\ DOMAIN q = 1..Len(q)
    OBVIOUS
  <2>2. IsFiniteSet(DOMAIN q)
    BY <2>1, FS_Interval
  <2>3. QED
    BY <1>3, <2>2, FS_Subset
<1>6. Cardinality(B) = Cardinality(A)
  <2> HIDE DEF g, A, B
  <2>1. QED
    BY <1>4, <1>5, FS_Bijection DEF ExistsBijection
<1>7. QED
  BY <1>5, <1>6

\* What sorting leaves as it is, for one sample or more.
LEMMA SortedParts ==
  ASSUME NEW q \in Seq(Nat), NEW s \in SortedSamples(q)
  PROVE  /\ s \in Seq(Nat) /\ Len(s) = Len(q) /\ Ascends(s)
         /\ \A i \in DOMAIN s : \E k \in DOMAIN q : q[k] = s[i]
         /\ \A k \in DOMAIN q : \E i \in DOMAIN s : q[k] = s[i]
<1>1. PICK b \in Bijection(DOMAIN q, DOMAIN q) : s = [k \in DOMAIN q |-> q[b[k]]]
  BY DEF SortedSamples
<1>2. b \in [DOMAIN q -> DOMAIN q]
  BY DEF Bijection, Injection
<1>3. Len(q) \in Nat /\ DOMAIN q = 1..Len(q) /\ \A k \in DOMAIN q : q[k] \in Nat
  OBVIOUS
<1>4. s \in [1..Len(q) -> Nat]
  BY <1>1, <1>2, <1>3
<1>5. s \in Seq(Nat) /\ Len(s) = Len(q)
  BY <1>3, <1>4
<1>6. Ascends(s)
  BY DEF SortedSamples, Ascends
<1>7. \A i \in DOMAIN s : \E k \in DOMAIN q : q[k] = s[i]
  BY <1>1, <1>2
<1>8. \A k \in DOMAIN q : \E i \in DOMAIN s : q[k] = s[i]
  BY <1>1, <1>2 DEF Bijection, Surjection
<1>9. QED
  BY <1>5, <1>6, <1>7, <1>8

-----------------------------------------------------------------------------
(***************************************************************************)
(* The statistics.                                                         *)
(***************************************************************************)

BenchmarkTypes ==
  /\ step \in {"idle", "warmup", "measured", "done"}
  /\ measured_runs \in Nat
  /\ latencies \in Seq(Nat)

\* The statistics are those of the latencies, sorted.
Computed ==
  step = "done" =>
    /\ Len(latencies) = measured_runs
    /\ measured_runs > 0 => \E s \in SortedSamples(latencies) : statistics = Statistics(s)

IInv == BenchmarkTypes /\ Computed

THEOREM BenchmarkInvariance == BenchmarkSpec => []IInv
<1>1. BenchmarkInit => IInv
  BY DEF BenchmarkInit, IInv, BenchmarkTypes, Computed
<1>2. IInv /\ [BenchmarkNext]_benchmark => IInv'
  <2> SUFFICES ASSUME IInv, [BenchmarkNext]_benchmark PROVE IInv'
    OBVIOUS
  <2> USE DEF IInv, BenchmarkTypes, Computed
  <2>1. ASSUME NEW warmup \in 0..MaxRuns, NEW measured \in 0..MaxRuns,
               BenchmarkBegin(warmup, measured)
        PROVE  IInv'
    <3>1. measured \in Nat
      BY BenchmarkAssumption
    <3>2. QED
      BY <2>1, <3>1 DEF BenchmarkBegin
  <2>2. CASE WarmUp
    BY <2>2 DEF WarmUp
  <2>3. CASE MeasuredBegin
    BY <2>3 DEF MeasuredBegin
  <2>4. CASE CallThrows
    BY <2>4 DEF CallThrows
  <2>5. CASE Finish
    <3>1. PICK s \in SortedSamples(latencies) :
            statistics' = IF latencies = <<>> THEN NoStatistics ELSE Statistics(s)
      BY <2>5 DEF Finish
    <3>2. /\ step' = "done" /\ measured_runs' = measured_runs /\ latencies' = latencies
          /\ total_time' = total_time /\ Len(latencies) = measured_runs
      BY <2>5 DEF Finish
    <3>3. ASSUME measured_runs > 0 PROVE statistics' = Statistics(s)'
      <4>1. latencies # <<>>
        BY <3>2, <3>3
      <4>2. QED
        BY <3>1, <3>2, <4>1 DEF Statistics
    <3>4. QED
      BY <3>2, <3>3
  <2>6. ASSUME NEW source \in Durations, NEW ms \in Durations, Measure(source, ms)
        PROVE  IInv'
    <3>1. ms \in Nat
      BY BenchmarkAssumption
    <3>2. QED
      BY <2>6, <3>1 DEF Measure
  <2>7. CASE UNCHANGED benchmark
    BY <2>7 DEF benchmark, Statistics
  <2>8. QED
    BY <2>1, <2>2, <2>3, <2>4, <2>5, <2>6, <2>7 DEF BenchmarkNext
<1>3. QED
  BY <1>1, <1>2, PTL DEF BenchmarkSpec

\* A percentile of the sorted latencies divides the latencies in the order of the
\* calls.
LEMMA Divides ==
  ASSUME latencies \in Seq(Nat), Len(latencies) = measured_runs, measured_runs > 0,
         NEW s \in SortedSamples(latencies), NEW p \in 1..99
  PROVE  IsPercentile(Percentile(s, p), p)
<1> DEFINE v == Percentile(s, p)
           q == latencies
           r == p * (Len(s) - 1)
           BelowV == {k \in DOMAIN q : 100 * q[k] < v}
           NotAbove == {k \in DOMAIN q : 100 * q[k] <= v}
           SortedBelow == {k \in DOMAIN s : 100 * s[k] < v}
           SortedNotAbove == {k \in DOMAIN s : 100 * s[k] <= v}
<1>1. s \in Seq(Nat) /\ Len(s) = measured_runs /\ Ascends(s)
  BY SortedParts
<1>2. Len(s) \in Nat /\ Len(s) > 0 /\ DOMAIN s = 1..Len(s)
  BY <1>1
<1>3. PICK m \in Nat :
        100 * (m - 1) < r /\ \A k \in DOMAIN s : 100 * s[k] < v => k <= m
  BY <1>1, <1>2, PercentileDivides, Zenon
<1>4. PICK m2 \in DOMAIN s : r < 100 * m2 /\ \A k \in 1..m2 : 100 * s[k] <= v
  BY <1>1, <1>2, PercentileDivides, Zenon
<1>5. r \in Int
  <2>1. Len(s) - 1 \in Int
    BY <1>2
  <2>2. QED
    BY <2>1, Products
<1>6. /\ IsFiniteSet(SortedBelow) /\ Cardinality(BelowV) = Cardinality(SortedBelow)
      /\ IsFiniteSet(SortedNotAbove)
      /\ Cardinality(NotAbove) = Cardinality(SortedNotAbove)
  <2> HIDE DEF v
  <2> DEFINE U == {x \in Nat : 100 * x < v}
             W == {x \in Nat : 100 * x <= v}
  <2>1. /\ BelowV = {k \in DOMAIN q : q[k] \in U}
        /\ SortedBelow = {k \in DOMAIN s : s[k] \in U}
        /\ NotAbove = {k \in DOMAIN q : q[k] \in W}
        /\ SortedNotAbove = {k \in DOMAIN s : s[k] \in W}
    <3>1. /\ \A k \in DOMAIN q : q[k] \in Nat
          /\ \A k \in DOMAIN s : s[k] \in Nat
      BY <1>1
    <3>2. QED
      BY <3>1
  <2> HIDE DEF q
  <2>2. ASSUME NEW V
        PROVE  /\ IsFiniteSet({k \in DOMAIN s : s[k] \in V})
               /\ Cardinality({k \in DOMAIN q : q[k] \in V}) =
                    Cardinality({k \in DOMAIN s : s[k] \in V})
    <3>1. q \in Seq(Nat) /\ s \in SortedSamples(q)
      BY DEF q
    <3>2. QED
      BY <3>1, SortedCounts
  <2> HIDE DEF U, W, BelowV, NotAbove, SortedBelow, SortedNotAbove
  <2>3. IsFiniteSet(SortedBelow) /\ Cardinality(BelowV) = Cardinality(SortedBelow)
    BY <2>1, <2>2
  <2>4. IsFiniteSet(SortedNotAbove) /\ Cardinality(NotAbove) = Cardinality(SortedNotAbove)
    BY <2>1, <2>2
  <2>5. QED
    BY <2>3, <2>4
<1> HIDE DEF v, r, q, BelowV, NotAbove
<1>7. Cardinality(SortedBelow) \in Nat /\ Cardinality(SortedBelow) <= m
  <2>1. SortedBelow \subseteq 1..m
    BY <1>2, <1>3
  <2>2. IsFiniteSet(1..m) /\ Cardinality(1..m) = m
    BY Interval
  <2>3. QED
    BY <1>6, <2>1, <2>2, FS_Subset, FS_CardinalityType
<1>8. Cardinality(SortedNotAbove) \in Nat /\ m2 <= Cardinality(SortedNotAbove)
  <2>1. 1..m2 \subseteq SortedNotAbove
    BY <1>2, <1>4
  <2>2. Cardinality(1..m2) = m2
    BY <1>2, Interval
  <2>3. QED
    <3> HIDE DEF SortedNotAbove
    <3>1. Cardinality(1..m2) <= Cardinality(SortedNotAbove)
      BY <1>6, <2>1, FS_Subset
    <3>2. Cardinality(SortedNotAbove) \in Nat
      BY <1>6, FS_CardinalityType
    <3>3. QED
      BY <2>2, <3>1, <3>2
<1>9. /\ 100 * (Cardinality(BelowV) - 1) < r
      /\ r < 100 * Cardinality(NotAbove)
  BY <1>2, <1>3, <1>4, <1>5, <1>6, <1>7, <1>8
<1>10. QED
  BY <1>1, <1>9 DEF IsPercentile, r, v, q, BelowV, NotAbove

\* For any number of runs the statistics are of the measured runs: the extremes
\* are the least and the greatest sample, the percentiles are in order between them,
\* and each divides the latencies as its name says.
THEOREM StatisticsDivideHolds == BenchmarkSpec => []StatisticsDivide
<1>1. IInv => StatisticsDivide
  <2> SUFFICES ASSUME IInv, step = "done", measured_runs > 0
               PROVE  LET s == statistics IN
                      /\ \E k \in DOMAIN latencies : latencies[k] = s.min
                      /\ \E k \in DOMAIN latencies : latencies[k] = s.max
                      /\ \A k \in DOMAIN latencies :
                           s.min <= latencies[k] /\ latencies[k] <= s.max
                      /\ 100 * s.min <= s.p50 /\ s.p50 <= s.p90 /\ s.p90 <= s.p99
                      /\ s.p99 <= 100 * s.max
                      /\ IsPercentile(s.p50, 50) /\ IsPercentile(s.p90, 90)
                      /\ IsPercentile(s.p99, 99)
    BY DEF IInv, Computed, StatisticsDivide
  <2>1. latencies \in Seq(Nat) /\ Len(latencies) = measured_runs
    BY DEF IInv, BenchmarkTypes, Computed
  <2>2. PICK s \in SortedSamples(latencies) : statistics = Statistics(s)
    BY DEF IInv, Computed
  <2>3. /\ statistics.min = s[1] /\ statistics.max = s[Len(s)]
        /\ statistics.p50 = Percentile(s, 50) /\ statistics.p90 = Percentile(s, 90)
        /\ statistics.p99 = Percentile(s, 99)
    BY <2>2 DEF Statistics
  <2>4. s \in Seq(Nat) /\ Len(s) > 0 /\ Ascends(s)
    BY <2>1, SortedParts
  <2>5. /\ \E k \in DOMAIN latencies : latencies[k] = s[1]
        /\ \E k \in DOMAIN latencies : latencies[k] = s[Len(s)]
    <3>1. 1 \in DOMAIN s /\ Len(s) \in DOMAIN s
      BY <2>4
    <3>2. QED
      BY <2>1, <3>1, SortedParts
  <2>6. 50 \in 1..99 /\ 90 \in 1..99 /\ 99 \in 1..99 /\ 50 <= 90 /\ 90 <= 99
    OBVIOUS
  <2>7. 100 * s[1] <= Percentile(s, 50) /\ Percentile(s, 99) <= 100 * s[Len(s)]
    BY <2>4, <2>6, PercentileDivides, Zenon
  <2>8. Percentile(s, 50) <= Percentile(s, 90) /\ Percentile(s, 90) <= Percentile(s, 99)
    BY <2>4, <2>6, PercentileOrder, Zenon
  <2>9. /\ IsPercentile(Percentile(s, 50), 50) /\ IsPercentile(Percentile(s, 90), 90)
        /\ IsPercentile(Percentile(s, 99), 99)
    BY <2>1, <2>6, Divides, Zenon
  <2>10. ASSUME NEW k \in DOMAIN latencies
         PROVE  s[1] <= latencies[k] /\ latencies[k] <= s[Len(s)]
    <3>1. PICK i \in DOMAIN s : latencies[k] = s[i]
      BY <2>1, SortedParts
    <3>2. 1 \in DOMAIN s /\ Len(s) \in DOMAIN s /\ 1 <= i /\ i <= Len(s)
      BY <2>4
    <3>3. QED
      BY <2>4, <3>1, <3>2 DEF Ascends
  <2>11. QED
    BY <2>3, <2>5, <2>7, <2>8, <2>9, <2>10
<1>2. QED
  BY <1>1, BenchmarkInvariance, PTL

=============================================================================
