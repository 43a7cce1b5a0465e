----------------------------- MODULE StatsProofs ----------------------------
(***************************************************************************)
(* Proofs about Stats, for any number of buckets, samples and windows: the *)
(* percentile that a thread computes while another records lies between    *)
(* what the samples before and those after the call allow, it bounds the   *)
(* exact nearest-rank percentile if nothing was recorded meanwhile, and    *)
(* the sliding rate counts exactly the messages of the last windows.       *)
(***************************************************************************)
EXTENDS Stats, Arithmetic

-----------------------------------------------------------------------------
(* Percentiles as ranks.                                                   *)

\* The percentiles and the number of buckets are what they should be.
LEMMA Constants ==
    /\ kBuckets \in Nat \ {0} /\ kRing \in Nat \ {0} /\ WindowNs \in Nat \ {0}
    /\ Samples \subseteq Nat
    /\ \A p \in Percentiles : p.num \in Nat /\ p.den \in Nat \ {0} /\ p.num < p.den
BY StatsAssumption

\* A rank below the number of samples, and not below the nearest rank.
LEMMA TargetFacts ==
    ASSUME NEW p \in Percentiles, NEW n \in Nat \ {0}
    PROVE  /\ Target(p, n) \in Nat /\ Target(p, n) < n
           /\ CeilDiv(p.num * n, p.den) \in Nat
           /\ CeilDiv(p.num * n, p.den) <= Target(p, n) + 1
<1>1. PICK a \in Nat, d \in Nat \ {0} : a = p.num /\ d = p.den /\ a < d BY Constants
<1>2. a * n \in Nat OBVIOUS
<1>3. PICK t, r \in Nat : t = (a * n) \div d /\ r = (a * n) % d /\ a * n = d * t + r
  BY <1>2, Division
<1>4. r < d BY <1>2, <1>3
<1>5. a * n < d * n
  <2>1. d = a + 1 + (d - a - 1) /\ d - a - 1 \in Nat BY <1>1
  <2>2. PICK k \in Nat : d = a + 1 + k BY <2>1
  <2>3. d * n = a * n + n + k * n BY <2>2
  <2>4. k * n \in Nat /\ n > 0 OBVIOUS
  <2>5. QED BY <1>2, <2>3, <2>4
<1>6. t < n
  <2>1. SUFFICES ASSUME n <= t PROVE FALSE OBVIOUS
  <2>2. t = n + (t - n) /\ t - n \in Nat BY <2>1
  <2>3. PICK k \in Nat : t = n + k BY <2>2
  <2>4. d * t = d * n + d * k BY <2>3
  <2>5. d * k \in Nat /\ d * n \in Nat OBVIOUS
  <2>6. QED BY <1>2, <1>3, <1>5, <2>4, <2>5
<1>7. PICK c \in Nat : c = a * n + d - 1 BY <1>1, <1>2
<1>8. PICK u, q \in Nat : u = c \div d /\ q = c % d /\ c = d * u + q BY Division
<1>9. u <= t + 1
  <2>1. SUFFICES ASSUME t + 1 < u PROVE FALSE OBVIOUS
  <2>2. u = t + 2 + (u - t - 2) /\ u - t - 2 \in Nat BY <2>1
  <2>3. PICK k \in Nat : u = t + 2 + k BY <2>2
  <2>4. d * u = d * t + d + d + d * k BY <2>3
  <2>5. d * k \in Nat /\ d * t \in Nat OBVIOUS
  <2>6. QED BY <1>3, <1>4, <1>7, <1>8, <2>4, <2>5
<1>10. QED BY <1>1, <1>3, <1>6, <1>7, <1>8, <1>9 DEF Target, CeilDiv

-----------------------------------------------------------------------------
(* Buckets.                                                                *)

\* The bucket of a sample: one of them, the last that it reaches.
LEMMA BucketFacts ==
    ASSUME NEW v \in Nat
    PROVE  /\ Bucket(v) \in 0 .. kBuckets - 1
           /\ \A b \in 0 .. kBuckets - 1 : 2 ^ b <= v => b <= Bucket(v)
<1> DEFINE S == {0} \cup {b \in 0 .. kBuckets - 1 : 2 ^ b <= v}
<1>1. kBuckets - 1 \in Nat /\ S \in SUBSET (0 .. kBuckets - 1) BY Constants
<1>2. S \in SUBSET Nat /\ S # {} /\ \A x \in S : x <= kBuckets - 1 BY <1>1
<1>3. Bucket(v) = Max(S) BY DEF Bucket
<1> HIDE DEF S
<1>4. Max(S) \in S /\ \A y \in S : y <= Max(S) BY <1>1, <1>2, MaxFacts
<1>5. \A b \in 0 .. kBuckets - 1 : 2 ^ b <= v => b \in S BY DEF S
<1>6. QED BY <1>1, <1>3, <1>4, <1>5

\* A sample is below the upper end of its bucket, unless that is the last.
LEMMA BelowUpperBound ==
    ASSUME NEW v \in Nat, NEW i \in 0 .. kBuckets - 1, i # kBuckets - 1, Bucket(v) <= i
    PROVE  v < UpperBound(i)
<1>1. kBuckets \in Nat \ {0} BY Constants
<1>2. i + 1 \in 0 .. kBuckets - 1 BY <1>1
<1>3. 2 ^ (i + 1) \in Nat BY <1>1, <1>2, PowersOfTwo
<1>4. ~(2 ^ (i + 1) <= v) BY <1>1, <1>2, BucketFacts
<1>5. QED BY <1>3, <1>4 DEF UpperBound

\* The upper ends are naturals, and only the last one has no bound.
LEMMA UpperBoundFacts ==
    ASSUME NEW i \in 0 .. kBuckets - 1
    PROVE  UpperBound(i) \in Nat /\ (UpperBound(i) = Top <=> i = kBuckets - 1)
<1>1. kBuckets \in Nat \ {0} BY Constants
<1>2. i + 1 \in 0 .. kBuckets + 1 /\ kBuckets + 1 \in 0 .. kBuckets + 1 BY <1>1
<1>3. 2 ^ (i + 1) \in Nat /\ 2 ^ (kBuckets + 1) \in Nat BY <1>2, PowersOfTwo
<1>4. i + 1 < kBuckets + 1 BY <1>1
<1>5. 2 ^ (i + 1) < 2 ^ (kBuckets + 1) BY <1>2, <1>4, PowersOfTwo
<1>6. QED BY <1>3, <1>5 DEF UpperBound, Top

\* A sample with no bound of its own is in the last bucket.
LEMMA BelowTop ==
    ASSUME NEW v \in Nat
    PROVE  v < Top \/ Bucket(v) = kBuckets - 1
<1>1. kBuckets \in Nat \ {0} BY Constants
<1>2. kBuckets - 1 \in 0 .. kBuckets + 1 /\ kBuckets + 1 \in 0 .. kBuckets + 1 BY <1>1
<1>3. 2 ^ (kBuckets - 1) \in Nat /\ 2 ^ (kBuckets + 1) \in Nat BY <1>2, PowersOfTwo
<1>4. kBuckets - 1 < kBuckets + 1 BY <1>1
<1>5. 2 ^ (kBuckets - 1) < 2 ^ (kBuckets + 1) BY <1>2, <1>4, PowersOfTwo
<1>6. SUFFICES ASSUME ~(v < Top) PROVE Bucket(v) = kBuckets - 1 OBVIOUS
<1>7. 2 ^ (kBuckets - 1) <= v BY <1>3, <1>5, <1>6 DEF Top
<1>8. kBuckets - 1 \in 0 .. kBuckets - 1 BY <1>1
<1>9. kBuckets - 1 <= Bucket(v) /\ Bucket(v) \in 0 .. kBuckets - 1
  BY <1>7, <1>8, BucketFacts
<1>10. QED BY <1>1, <1>9

-----------------------------------------------------------------------------
(* Samples by bucket.                                                      *)

\* Which of the first c samples of s are in the buckets lo .. hi.
Span(s, c, lo, hi) == {k \in 1 .. c : lo <= Bucket(s[k]) /\ Bucket(s[k]) <= hi}

\* The first c of the samples s are latencies.
Counts(s, c) == s \in Seq(Samples) /\ c \in 0 .. Len(s)

\* Finitely many.
LEMMA SpanFinite ==
    ASSUME NEW s, NEW c, Counts(s, c), NEW lo, NEW hi
    PROVE  /\ IsFiniteSet(Span(s, c, lo, hi)) /\ Cardinality(Span(s, c, lo, hi)) \in Nat
           /\ Span(s, c, lo, hi) \subseteq 1 .. Len(s)
<1>1. c \in Nat /\ Len(s) \in Nat /\ c <= Len(s) BY DEF Counts
<1>2. IsFiniteSet(1 .. c) /\ Span(s, c, lo, hi) \in SUBSET (1 .. c)
  BY <1>1, FS_Interval DEF Span
<1>3. IsFiniteSet(Span(s, c, lo, hi)) BY <1>2, FS_Subset
<1>4. QED BY <1>1, <1>2, <1>3, FS_CardinalityType

\* A sample counted has a bucket.
LEMMA CountedBucket ==
    ASSUME NEW s, NEW c, Counts(s, c), NEW k \in 1 .. c
    PROVE  s[k] \in Nat /\ Bucket(s[k]) \in 0 .. kBuckets - 1
<1>1. k \in 1 .. Len(s) BY DEF Counts
<1>2. s[k] \in Samples BY <1>1 DEF Counts
<1>3. s[k] \in Nat BY <1>2, Constants
<1>4. QED BY <1>3, BucketFacts

\* All of them are in some bucket, and none in none.
LEMMA SpanAll ==
    ASSUME NEW s, NEW c, Counts(s, c)
    PROVE  /\ Cardinality(Span(s, c, 0, kBuckets - 1)) = c
           /\ Cardinality(Span(s, c, 0, -1)) = 0
           /\ Cardinality(Span(s, c, kBuckets, kBuckets - 1)) = 0
<1>1. c \in Nat BY DEF Counts
<1>2. \A k \in 1 .. c : 0 <= Bucket(s[k]) /\ Bucket(s[k]) <= kBuckets - 1
                         /\ ~(Bucket(s[k]) <= -1) /\ ~(kBuckets <= Bucket(s[k]))
  BY CountedBucket, Constants
<1>3. Span(s, c, 0, kBuckets - 1) = 1 .. c BY <1>2 DEF Span
<1>4. Span(s, c, 0, -1) = {} /\ Span(s, c, kBuckets, kBuckets - 1) = {} BY <1>2 DEF Span
<1>5. Cardinality(1 .. c) = c BY <1>1, FS_Interval
<1>6. QED BY <1>3, <1>4, <1>5, FS_EmptySet

\* Two ranges of buckets that meet.
LEMMA SpanSplit ==
    ASSUME NEW s, NEW c, Counts(s, c), NEW lo \in Int, NEW m \in Int, NEW hi \in Int,
           lo <= m + 1, m <= hi
    PROVE  Cardinality(Span(s, c, lo, hi)) =
             Cardinality(Span(s, c, lo, m)) + Cardinality(Span(s, c, m + 1, hi))
<1> DEFINE A == Span(s, c, lo, m)
           B == Span(s, c, m + 1, hi)
<1>1. \A k \in 1 .. c : Bucket(s[k]) \in Int BY CountedBucket
<1>2. Span(s, c, lo, hi) = A \cup B BY <1>1 DEF Span
<1>3. A \cap B = {} BY <1>1 DEF Span
<1>4. IsFiniteSet(A) /\ IsFiniteSet(B) BY SpanFinite
<1> HIDE DEF A, B
<1>5. Cardinality(A \cup B) = Cardinality(A) + Cardinality(B) BY <1>3, <1>4, CountDisjoint
<1>6. QED BY <1>2, <1>5 DEF A, B

\* One more sample is counted in its own bucket.
LEMMA SpanGrows ==
    ASSUME NEW s, NEW c, Counts(s, c), Counts(s, c + 1), NEW lo \in Int, NEW hi \in Int
    PROVE  Cardinality(Span(s, c + 1, lo, hi)) =
             IF lo <= Bucket(s[c + 1]) /\ Bucket(s[c + 1]) <= hi
               THEN Cardinality(Span(s, c, lo, hi)) + 1
               ELSE Cardinality(Span(s, c, lo, hi))
<1>1. c \in Nat /\ 1 .. c + 1 = (1 .. c) \cup {c + 1} /\ c + 1 \notin 1 .. c BY DEF Counts
<1>2. IsFiniteSet(Span(s, c, lo, hi)) /\ c + 1 \notin Span(s, c, lo, hi)
  <2>1. IsFiniteSet(Span(s, c, lo, hi)) BY SpanFinite
  <2>2. c + 1 \notin Span(s, c, lo, hi) BY <1>1 DEF Span
  <2>3. QED BY <2>1, <2>2
<1>3. CASE lo <= Bucket(s[c + 1]) /\ Bucket(s[c + 1]) <= hi
  <2>1. Span(s, c + 1, lo, hi) = Span(s, c, lo, hi) \cup {c + 1} BY <1>1, <1>3 DEF Span
  <2>2. QED BY <1>2, <1>3, <2>1, FS_AddElement
<1>4. CASE ~(lo <= Bucket(s[c + 1]) /\ Bucket(s[c + 1]) <= hi)
  <2>1. Span(s, c + 1, lo, hi) = Span(s, c, lo, hi) BY <1>1, <1>4 DEF Span
  <2>2. QED BY <1>4, <2>1
<1>5. QED BY <1>3, <1>4

\* What is counted does not depend on the samples after it.
LEMMA SpanSame ==
    ASSUME NEW s, NEW t, NEW c, \A k \in 1 .. c : s[k] = t[k], NEW lo, NEW hi
    PROVE  Span(s, c, lo, hi) = Span(t, c, lo, hi)
BY DEF Span

-----------------------------------------------------------------------------
(* The nearest rank.                                                       *)

\* The k-th smallest sample exists.
LEMMA SortedFacts ==
    ASSUME samples \in Seq(Samples), NEW k \in 1 .. Len(samples)
    PROVE  Sorted(k) \in Samples /\ Cardinality(Below(Sorted(k))) < k
<1>1. Len(samples) \in Nat /\ DOMAIN samples = 1 .. Len(samples)
      /\ \A j \in DOMAIN samples : samples[j] \in Samples /\ samples[j] \in Nat
  <2>1. Len(samples) \in Nat /\ DOMAIN samples = 1 .. Len(samples) OBVIOUS
  <2>2. \A j \in DOMAIN samples : samples[j] \in Samples OBVIOUS
  <2>3. QED BY <2>1, <2>2, Constants
<1>2. IsFiniteSet(1 .. Len(samples)) /\ Cardinality(1 .. Len(samples)) = Len(samples)
  BY <1>1, FS_Interval
<1>3. \A x : /\ IsFiniteSet(Below(x)) /\ Cardinality(Below(x)) \in Nat
             /\ IsFiniteSet(UpTo(x)) /\ Cardinality(UpTo(x)) \in Nat
  <2>1. TAKE x
  <2>2. Below(x) \in SUBSET (1 .. Len(samples)) /\ UpTo(x) \in SUBSET (1 .. Len(samples))
    BY <1>1 DEF Below, UpTo
  <2>3. IsFiniteSet(Below(x)) /\ IsFiniteSet(UpTo(x)) BY <1>2, <2>2, FS_Subset
  <2>4. QED BY <2>3, FS_CardinalityType
<1> DEFINE V == {samples[j] : j \in DOMAIN samples}
           G == {v \in V : k <= Cardinality(UpTo(v))}
<1>4. ASSUME NEW S \in SUBSET DOMAIN samples, S # {}
      PROVE  \E j \in S : \A l \in S : samples[l] <= samples[j]
  <2>1. IsFiniteSet(S) BY <1>1, <1>2, <1>4, FS_Subset
  <2>2. QED BY <1>1, <1>4, <2>1, LargestExists
<1>5. G \in SUBSET Nat /\ G # {}
  <2>1. DOMAIN samples # {} /\ DOMAIN samples \in SUBSET DOMAIN samples BY <1>1
  <2>2. PICK j \in DOMAIN samples : \A l \in DOMAIN samples : samples[l] <= samples[j]
    BY <1>4, <2>1
  <2>3. UpTo(samples[j]) = 1 .. Len(samples) BY <1>1, <2>2 DEF UpTo
  <2>4. samples[j] \in G BY <1>1, <1>2, <2>3
  <2>5. QED BY <1>1, <2>4
<1>6. PICK v \in G : \A w \in G : v <= w BY <1>5, LeastExists
<1>7. v \in Samples /\ v \in Nat /\ k <= Cardinality(UpTo(v)) BY <1>1, <1>6
<1>8. Cardinality(Below(v)) < k
  <2>1. SUFFICES ASSUME k <= Cardinality(Below(v)) PROVE FALSE BY <1>1, <1>3
  <2>2. Below(v) # {} /\ Below(v) \in SUBSET DOMAIN samples
    <3>1. Below(v) = {} => Cardinality(Below(v)) = 0 BY FS_EmptySet
    <3>2. QED BY <1>1, <2>1, <3>1 DEF Below
  <2>3. PICK j \in Below(v) : \A l \in Below(v) : samples[l] <= samples[j] BY <1>4, <2>2
  <2>4. j \in DOMAIN samples /\ samples[j] < v /\ samples[j] \in Nat BY <1>1, <2>3 DEF Below
  <2>5. UpTo(samples[j]) = Below(v)
    <3>1. \A l \in DOMAIN samples : samples[l] <= samples[j] => samples[l] < v
      BY <1>1, <1>7, <2>4
    <3>2. QED BY <2>3, <3>1 DEF UpTo, Below
  <2>6. samples[j] \in G BY <2>1, <2>4, <2>5
  <2>7. QED BY <1>6, <1>7, <2>4, <2>6
<1>9. \E x \in Samples : Cardinality(Below(x)) < k /\ k <= Cardinality(UpTo(x))
  BY <1>7, <1>8
<1>10. QED BY <1>9 DEF Sorted

-----------------------------------------------------------------------------
(* The inductive invariant of the histogram and its reader.                *)

\* How many samples have been added to the counts.
Counted == IF recording.todo = 1 THEN Len(samples) - 1 ELSE Len(samples)

\* How many of them are in the buckets lo .. hi.
In(lo, hi) == Cardinality(Span(samples, Counted, lo, hi))

ReadingType ==
    [pc : {"idle", "buckets", "done"}, p : Percentiles \cup {0}, n : Nat,
     i : 0 .. kBuckets - 1, cum : Nat, result : Nat, clean : BOOLEAN]

HistTypeOK ==
    /\ hist \in [counts : [0 .. kBuckets - 1 -> Nat], total : Nat]
    /\ samples \in Seq(Samples)
    /\ recording \in [todo : 0 .. 2, ns : Nat]
    /\ reading \in ReadingType

\* The counts are the samples counted, and total_ is at most one behind.
HistInv ==
    /\ recording.todo # 0 => Len(samples) # 0 /\ recording.ns = samples[Len(samples)]
    /\ \A b \in 0 .. kBuckets - 1 : hist.counts[b] = In(b, b)
    /\ hist.total = IF recording.todo = 0 THEN Len(samples) ELSE Len(samples) - 1

\* The reader has not met its target, and what is left of the buckets holds
\* the rest of the n samples; when it is done the buckets up to i exceed it.
ReadInv ==
    /\ reading.pc # "idle" =>
         /\ reading.p \in Percentiles
         /\ reading.n # 0 /\ reading.n <= hist.total
         /\ reading.clean => recording.todo = 0 /\ reading.n = Len(samples)
    /\ reading.pc = "buckets" =>
         /\ reading.cum <= In(0, reading.i - 1)
         /\ reading.n <= reading.cum + In(reading.i, kBuckets - 1)
         /\ reading.cum <= Target(reading.p, reading.n)
    /\ reading.pc = "done" =>
         /\ reading.result = UpperBound(reading.i)
         /\ Target(reading.p, reading.n) < In(0, reading.i)
         /\ 0 < In(reading.i, reading.i)

HistIInv == HistTypeOK /\ HistInv /\ ReadInv

\* What is counted are latencies.
LEMMA CountedFacts ==
    ASSUME HistTypeOK, HistInv
    PROVE  /\ Counts(samples, Counted)
           /\ \A lo, hi \in Int : In(lo, hi) \in Nat
<1>1. samples \in Seq(Samples) BY DEF HistTypeOK
<1>2. Len(samples) \in Nat BY <1>1
<1>3. Counted \in 0 .. Len(samples) BY <1>2 DEF Counted, HistInv
<1>4. Counts(samples, Counted) BY <1>1, <1>3 DEF Counts
<1>5. QED BY <1>4, SpanFinite DEF In

\* Initially nothing is counted.
LEMMA HistInit == InitStats => HistIInv
<1> SUFFICES ASSUME InitStats PROVE HistIInv OBVIOUS
<1>1. 0 \in 0 .. kBuckets - 1 BY Constants
<1>2. HistTypeOK BY <1>1 DEF InitStats, HistTypeOK, Idle, ReadingType
<1>3. Len(samples) = 0 /\ recording.todo = 0 BY DEF InitStats
<1>4. Counted = 0 BY <1>3 DEF Counted
<1>5. \A lo, hi : Span(samples, 0, lo, hi) = {} BY DEF Span
<1>6. \A lo, hi : In(lo, hi) = 0 BY <1>4, <1>5, FS_EmptySet DEF In
<1>7. HistInv BY <1>3, <1>6 DEF HistInv, InitStats
<1>8. ReadInv BY DEF InitStats, ReadInv, Idle
<1>9. QED BY <1>2, <1>7, <1>8 DEF HistIInv

-----------------------------------------------------------------------------
(* Recording.                                                              *)

\* What recording does to what a reader may have seen.
Grows ==
    /\ \A lo, hi \in Int : In(lo, hi) \in Nat /\ In(lo, hi)' \in Nat /\ In(lo, hi) <= In(lo, hi)'
    /\ hist.total <= hist.total'
    /\ reading' = [reading EXCEPT !.clean = FALSE]

\* A sample is announced and not yet counted.
LEMMA BeginRecordHist ==
    ASSUME HistTypeOK, HistInv, NEW ns \in Samples, NEW now, BeginRecord(ns, now)
    PROVE  HistTypeOK' /\ HistInv' /\ Grows
<1>1. /\ recording.todo = 0 /\ recording' = [todo |-> 1, ns |-> ns]
      /\ samples' = Append(samples, ns) /\ hist' = hist
      /\ reading' = [reading EXCEPT !.clean = FALSE]
  BY DEF BeginRecord
<1>2. ns \in Nat /\ samples \in Seq(Samples) BY Constants DEF HistTypeOK
<1>3. /\ samples' \in Seq(Samples) /\ Len(samples') = Len(samples) + 1
      /\ Len(samples) \in Nat /\ samples'[Len(samples')] = ns
      /\ \A k \in 1 .. Len(samples) : samples'[k] = samples[k]
  BY <1>1, <1>2
<1>4. HistTypeOK'
  <2>1. recording' \in [todo : 0 .. 2, ns : Nat] BY <1>1, <1>2
  <2>2. reading' \in ReadingType BY <1>1 DEF HistTypeOK, ReadingType
  <2>3. QED BY <1>1, <1>3, <2>1, <2>2 DEF HistTypeOK
<1>5. Counted = Len(samples) /\ Counted' = Len(samples) BY <1>1, <1>3 DEF Counted
<1>6. \A lo, hi : In(lo, hi)' = In(lo, hi)
  <2>1. TAKE lo, hi
  <2>2. Span(samples', Len(samples), lo, hi) = Span(samples, Len(samples), lo, hi)
    BY <1>3, SpanSame
  <2>3. QED BY <1>5, <2>2 DEF In
<1>7. HistInv' BY <1>1, <1>3, <1>6 DEF HistInv, HistTypeOK
<1>8. \A lo, hi \in Int : In(lo, hi) \in Nat /\ In(lo, hi)' \in Nat /\ In(lo, hi) <= In(lo, hi)'
  BY <1>6, CountedFacts
<1>9. hist.total <= hist'.total BY <1>1 DEF HistTypeOK
<1>10. QED BY <1>1, <1>4, <1>7, <1>8, <1>9 DEF Grows

\* A sample is added to its bucket, then to the total.
LEMMA RecordStepHist ==
    ASSUME HistTypeOK, HistInv, RecordStep
    PROVE  HistTypeOK' /\ HistInv' /\ Grows
<1>1. /\ recording.todo \in {1, 2} /\ recording.ns \in Nat
      /\ samples' = samples /\ reading' = [reading EXCEPT !.clean = FALSE]
      /\ hist' = Recorded(hist, RecordSteps[recording.todo], recording.ns)
      /\ recording' = [recording EXCEPT !.todo = IF @ = Len(RecordSteps) THEN 0 ELSE @ + 1]
  BY DEF RecordStep, HistTypeOK
<1>2. Len(RecordSteps) = 2 /\ RecordSteps[1] = "counts" /\ RecordSteps[2] = "total"
  BY DEF RecordSteps
<1>3. Len(samples) \in Nat \ {0} /\ recording.ns = samples[Len(samples)]
  BY <1>1 DEF HistTypeOK, HistInv
<1>4. reading' \in ReadingType /\ samples' \in Seq(Samples)
  BY <1>1 DEF HistTypeOK, ReadingType
<1>5. CASE recording.todo = 1
  <2> DEFINE c == Len(samples) - 1
             B == Bucket(recording.ns)
  <2>1. hist' = [hist EXCEPT !.counts[B] = @ + 1] BY <1>1, <1>2, <1>5 DEF Recorded
  <2>2. recording'.todo = 2 /\ recording'.ns = recording.ns /\ recording' \in [todo : 0 .. 2, ns : Nat]
    BY <1>1, <1>2, <1>5 DEF HistTypeOK
  <2>3. B \in 0 .. kBuckets - 1 BY <1>1, BucketFacts
  <2>4. Counted = c /\ Counted' = c + 1 /\ c \in Nat
    BY <1>1, <1>3, <1>5, <2>2 DEF Counted
  <2>5. Counts(samples, c) /\ Counts(samples, c + 1)
    <3>1. Counts(samples, c) BY <2>4, CountedFacts
    <3>2. QED BY <1>3, <3>1 DEF Counts
  <2>6. samples[c + 1] = recording.ns BY <1>3
  <2> HIDE DEF c
  <2>7. \A lo, hi \in Int :
          Cardinality(Span(samples, c + 1, lo, hi)) =
             IF lo <= B /\ B <= hi
               THEN Cardinality(Span(samples, c, lo, hi)) + 1
               ELSE Cardinality(Span(samples, c, lo, hi))
    BY <2>5, <2>6, SpanGrows
  <2>8. \A lo, hi \in Int : In(lo, hi)' = IF lo <= B /\ B <= hi THEN In(lo, hi) + 1 ELSE In(lo, hi)
    BY <1>1, <2>4, <2>7 DEF In
  <2> HIDE DEF B
  <2>9. \A lo, hi \in Int : In(lo, hi) \in Nat /\ In(lo, hi)' \in Nat /\ In(lo, hi) <= In(lo, hi)'
    <3>1. TAKE lo, hi \in Int
    <3>2. In(lo, hi) \in Nat BY CountedFacts
    <3>3. In(lo, hi)' = In(lo, hi) + 1 \/ In(lo, hi)' = In(lo, hi) BY <2>8
    <3>4. QED BY <3>2, <3>3
  <2>10. /\ hist'.total = hist.total
         /\ \A b \in 0 .. kBuckets - 1 :
              hist'.counts[b] = IF b = B THEN hist.counts[b] + 1 ELSE hist.counts[b]
    <3>1. hist \in [counts : [0 .. kBuckets - 1 -> Nat], total : Nat] BY DEF HistTypeOK
    <3>2. /\ hist'.total = hist.total
          /\ hist'.counts = [hist.counts EXCEPT ![B] = @ + 1]
      BY <2>1, <3>1
    <3>3. hist.counts \in [0 .. kBuckets - 1 -> Nat] BY <3>1
    <3>4. QED BY <2>3, <3>2, <3>3
  <2>11. hist' \in [counts : [0 .. kBuckets - 1 -> Nat], total : Nat]
    <3>1. hist \in [counts : [0 .. kBuckets - 1 -> Nat], total : Nat] BY DEF HistTypeOK
    <3>2. hist' = [counts |-> [hist.counts EXCEPT ![B] = @ + 1], total |-> hist.total]
      BY <2>1, <3>1
    <3>3. hist.counts \in [0 .. kBuckets - 1 -> Nat] /\ hist.total \in Nat BY <3>1
    <3>4. hist.counts[B] + 1 \in Nat
      <4>1. PICK c0 \in Nat : hist.counts[B] = c0 BY <2>3, <3>3
      <4>2. QED BY <4>1
    <3>5. [hist.counts EXCEPT ![B] = @ + 1] \in [0 .. kBuckets - 1 -> Nat] BY <3>3, <3>4
    <3>6. QED BY <3>2, <3>3, <3>5
  <2>12. HistTypeOK' BY <1>4, <2>2, <2>11 DEF HistTypeOK
  <2>13. \A b \in 0 .. kBuckets - 1 : hist'.counts[b] = In(b, b)'
    <3>1. TAKE b \in 0 .. kBuckets - 1
    <3>2. b \in Int /\ (b <= B /\ B <= b <=> b = B) BY <2>3
    <3>3. hist.counts[b] = In(b, b) BY DEF HistInv
    <3>4. QED BY <2>8, <2>10, <3>2, <3>3
  <2>14. HistInv' BY <1>1, <1>3, <1>5, <2>2, <2>10, <2>13 DEF HistInv
  <2>15. hist.total <= hist'.total BY <2>10 DEF HistTypeOK
  <2>16. QED BY <1>1, <2>9, <2>12, <2>14, <2>15 DEF Grows
<1>6. CASE recording.todo = 2
  <2>1. hist' = [hist EXCEPT !.total = @ + 1] BY <1>1, <1>2, <1>6 DEF Recorded
  <2>2. recording'.todo = 0 /\ recording' \in [todo : 0 .. 2, ns : Nat]
    BY <1>1, <1>2, <1>6 DEF HistTypeOK
  <2>3. Counted' = Counted BY <1>1, <1>6, <2>2 DEF Counted
  <2>4. \A lo, hi : In(lo, hi)' = In(lo, hi) BY <1>1, <2>3 DEF In
  <2>5. /\ hist'.total = hist.total + 1 /\ hist'.counts = hist.counts
        /\ hist' \in [counts : [0 .. kBuckets - 1 -> Nat], total : Nat]
    BY <2>1 DEF HistTypeOK
  <2>6. HistTypeOK' BY <1>4, <2>2, <2>5 DEF HistTypeOK
  <2>7. HistInv' BY <1>1, <1>3, <1>6, <2>2, <2>4, <2>5 DEF HistInv
  <2>8. \A lo, hi \in Int : In(lo, hi) \in Nat /\ In(lo, hi)' \in Nat /\ In(lo, hi) <= In(lo, hi)'
    BY <2>4, CountedFacts
  <2>9. hist.total <= hist'.total BY <2>5 DEF HistTypeOK
  <2>10. QED BY <1>1, <2>6, <2>7, <2>8, <2>9 DEF Grows
<1>7. QED BY <1>1, <1>5, <1>6

\* A reader between two loads is not disturbed by it.
LEMMA ReadInvKept ==
    ASSUME HistIInv, HistTypeOK', HistInv', Grows
    PROVE  HistIInv'
<1>1. reading' = [reading EXCEPT !.clean = FALSE] /\ reading \in ReadingType
  BY DEF Grows, HistIInv, HistTypeOK
<1>2. /\ reading'.pc = reading.pc /\ reading'.p = reading.p /\ reading'.n = reading.n
      /\ reading'.i = reading.i /\ reading'.cum = reading.cum
      /\ reading'.result = reading.result /\ reading'.clean = FALSE
  BY <1>1 DEF ReadingType
<1>3. /\ reading.i - 1 \in Int /\ reading.i \in Int /\ kBuckets - 1 \in Int /\ 0 \in Int
      /\ reading.n \in Nat /\ reading.cum \in Nat /\ reading.i \in 0 .. kBuckets - 1
  BY <1>1, Constants DEF ReadingType
<1>4. \A lo, hi \in Int : In(lo, hi) \in Nat /\ In(lo, hi)' \in Nat /\ In(lo, hi) <= In(lo, hi)'
  BY DEF Grows
<1>5. hist.total \in Nat /\ hist'.total \in Nat /\ hist.total <= hist'.total
  BY DEF HistIInv, HistTypeOK, Grows
<1>6. CASE reading.pc = "idle"
  <2>1. ReadInv' BY <1>2, <1>6 DEF ReadInv
  <2>2. QED BY <2>1 DEF HistIInv
<1>7. CASE reading.pc # "idle"
  <2>1. PICK n \in Nat, cum \in Nat, i \in 0 .. kBuckets - 1, p \in Percentiles :
          reading.n = n /\ reading.cum = cum /\ reading.i = i /\ reading.p = p
    BY <1>3, <1>7 DEF HistIInv, ReadInv
  <2>2. n # 0 /\ n <= hist.total BY <1>7, <2>1 DEF HistIInv, ReadInv
  <2>3. Target(p, n) \in Nat BY <2>2, TargetFacts
  <2>4. PICK j \in Int : j = i - 1 /\ i \in Int /\ kBuckets - 1 \in Int BY Constants
  <2>5. n <= hist'.total BY <1>5, <2>2
  <2>6. reading.pc = "buckets" =>
          cum <= In(0, j)' /\ n <= cum + In(i, kBuckets - 1)' /\ cum <= Target(p, n)
    <3>1. HAVE reading.pc = "buckets"
    <3>2. cum <= In(0, j) /\ n <= cum + In(i, kBuckets - 1) /\ cum <= Target(p, n)
      BY <2>1, <2>4, <3>1 DEF HistIInv, ReadInv
    <3>3. PICK a, b, c, d \in Nat :
            /\ a = In(0, j) /\ b = In(0, j)' /\ a <= b
            /\ c = In(i, kBuckets - 1) /\ d = In(i, kBuckets - 1)' /\ c <= d
      <4>1. In(0, j) \in Nat /\ In(0, j)' \in Nat /\ In(0, j) <= In(0, j)'
        BY <1>3, <1>4, Zenon
      <4>2. /\ In(i, kBuckets - 1) \in Nat /\ In(i, kBuckets - 1)' \in Nat
            /\ In(i, kBuckets - 1) <= In(i, kBuckets - 1)'
        BY <1>4, <2>4
      <4>3. QED BY <4>1, <4>2
    <3>4. QED BY <3>2, <3>3
  <2>7. reading.pc = "done" =>
          /\ reading.result = UpperBound(i)
          /\ Target(p, n) < In(0, i)' /\ 0 < In(i, i)'
    <3>1. HAVE reading.pc = "done"
    <3>2. reading.result = UpperBound(i) /\ Target(p, n) < In(0, i) /\ 0 < In(i, i)
      BY <2>1, <3>1 DEF HistIInv, ReadInv
    <3>3. PICK a, b, c, d \in Nat :
            /\ a = In(0, i) /\ b = In(0, i)' /\ a <= b
            /\ c = In(i, i) /\ d = In(i, i)' /\ c <= d
      <4>1. In(0, i) \in Nat /\ In(0, i)' \in Nat /\ In(0, i) <= In(0, i)' BY <1>4, <2>4
      <4>2. In(i, i) \in Nat /\ In(i, i)' \in Nat /\ In(i, i) <= In(i, i)' BY <1>4, <2>4
      <4>3. QED BY <4>1, <4>2
    <3>4. QED BY <2>3, <3>2, <3>3
  <2>8. ReadInv' BY <1>2, <2>1, <2>2, <2>4, <2>5, <2>6, <2>7 DEF ReadInv, In
  <2>9. QED BY <2>8 DEF HistIInv
<1>8. QED BY <1>6, <1>7

-----------------------------------------------------------------------------
(* Reading.                                                                *)

\* Reading changes nothing but the reader.
LEMMA OnlyReads ==
    ASSUME HistIInv, UNCHANGED <<hist, samples, recording>>
    PROVE  /\ HistInv' /\ Counted' = Counted
           /\ \A lo, hi : In(lo, hi)' = In(lo, hi)
           /\ reading' \in ReadingType => HistTypeOK'
<1>1. Counted' = Counted BY DEF Counted
<1>2. \A lo, hi : In(lo, hi)' = In(lo, hi) BY <1>1 DEF In
<1>3. HistInv' BY <1>2 DEF HistIInv, HistInv
<1>4. reading' \in ReadingType => HistTypeOK' BY DEF HistIInv, HistTypeOK
<1>5. QED BY <1>1, <1>2, <1>3, <1>4

\* percentile() begins before all buckets.
LEMMA BeginReadHist ==
    ASSUME HistIInv, NEW p \in Percentiles, BeginRead(p)
    PROVE  HistIInv'
<1>1. HistTypeOK /\ HistInv BY DEF HistIInv
<1>2. UNCHANGED <<hist, samples, recording>> BY DEF BeginRead
<1>3. 0 \in 0 .. kBuckets - 1 /\ kBuckets - 1 \in Int BY Constants
<1>4. PICK total \in Nat : hist.total = total BY <1>1 DEF HistTypeOK
<1>5. reading' = [pc |-> IF total = 0 THEN "idle" ELSE "buckets", p |-> p, n |-> total, i |-> 0,
                  cum |-> 0, result |-> 0, clean |-> recording.todo = 0]
  BY <1>4 DEF BeginRead, Idle
<1>6. reading' \in ReadingType BY <1>3, <1>5 DEF ReadingType
<1>7. CASE total = 0
  <2>1. reading'.pc = "idle" BY <1>5, <1>7
  <2>2. ReadInv' BY <2>1 DEF ReadInv
  <2>3. QED BY <1>2, <1>6, <2>2, OnlyReads DEF HistIInv
<1>8. CASE total # 0
  <2>1. In(0, -1) \in Nat BY <1>1, CountedFacts
  <2>2. In(0, kBuckets - 1) = Counted BY <1>1, CountedFacts, SpanAll DEF In
  <2>3. Len(samples) \in Nat /\ recording.todo \in 0 .. 2 BY <1>1 DEF HistTypeOK
  <2>4. total <= Counted /\ (recording.todo = 0 => total = Len(samples))
    BY <1>1, <1>4, <2>3 DEF HistInv, Counted
  <2>5. Target(p, total) \in Nat BY <1>8, TargetFacts
  <2>6. reading'.pc = "buckets" /\ reading'.p = p /\ reading'.n = total /\ reading'.i = 0
        /\ reading'.cum = 0 /\ reading'.clean = (recording.todo = 0)
    BY <1>5, <1>8
  <2>7. 0 - 1 = -1 OBVIOUS
  <2>8. In(0, -1)' = In(0, -1) /\ In(0, kBuckets - 1)' = In(0, kBuckets - 1) BY <1>2, OnlyReads
  <2>9. 0 <= In(0, -1)' BY <2>1, <2>8
  <2>10. total <= 0 + In(0, kBuckets - 1)' BY <2>2, <2>4, <2>8, <2>3 DEF Counted
  <2>11. 0 <= Target(p, total) BY <2>5
  <2>12. total <= hist'.total /\ recording'.todo = recording.todo /\ samples' = samples
    BY <1>2, <1>4
  <2>13. ReadInv'
    BY <1>8, <2>4, <2>6, <2>7, <2>9, <2>10, <2>11, <2>12 DEF ReadInv, In
  <2>14. QED BY <1>2, <1>6, <2>13, OnlyReads DEF HistIInv
<1>9. QED BY <1>7, <1>8

\* It adds a bucket and stops at the first that exceeds the target; what is
\* left holds the rest of the n samples, so it finds one.
LEMMA ReadBucketHist ==
    ASSUME HistIInv, ReadBucket
    PROVE  HistIInv'
<1>1. HistTypeOK /\ HistInv BY DEF HistIInv
<1>2. UNCHANGED <<hist, samples, recording>> BY DEF ReadBucket
<1>3. reading.pc = "buckets" /\ reading \in ReadingType BY <1>1 DEF ReadBucket, HistTypeOK
<1>4. PICK n \in Nat, cum \in Nat, i \in 0 .. kBuckets - 1, p \in Percentiles :
        reading.n = n /\ reading.cum = cum /\ reading.i = i /\ reading.p = p
  BY <1>3 DEF HistIInv, ReadInv, ReadingType
<1>5. /\ n # 0 /\ n <= hist.total
      /\ reading.clean => recording.todo = 0 /\ n = Len(samples)
      /\ cum <= In(0, i - 1) /\ n <= cum + In(i, kBuckets - 1) /\ cum <= Target(p, n)
  BY <1>3, <1>4 DEF HistIInv, ReadInv
<1>6. PICK t \in Nat : t = Target(p, n) /\ t < n BY <1>5, TargetFacts
<1>7. PICK k \in Nat \ {0} : k = kBuckets BY Constants
<1>8. Counts(samples, Counted) /\ \A lo, hi \in Int : In(lo, hi) \in Nat
  BY <1>1, CountedFacts
<1>9. PICK low, here, high \in Nat :
        low = In(0, i - 1) /\ here = In(i, i) /\ high = In(i + 1, kBuckets - 1)
  <2>1. 0 \in Int /\ i - 1 \in Int /\ i \in Int /\ i + 1 \in Int /\ kBuckets - 1 \in Int
    BY <1>7
  <2>2. In(0, i - 1) \in Nat /\ In(i, i) \in Nat /\ In(i + 1, kBuckets - 1) \in Nat
    BY <1>8, <2>1, Zenon
  <2>3. QED BY <2>2
<1>10. hist.counts[i] = here BY <1>1, <1>9 DEF HistInv
<1>11. In(0, i) = low + here
  <2>1. Cardinality(Span(samples, Counted, 0, i)) =
          Cardinality(Span(samples, Counted, 0, i - 1))
            + Cardinality(Span(samples, Counted, (i - 1) + 1, i))
    <3>1. i - 1 \in Int /\ i \in Int /\ 0 <= (i - 1) + 1 /\ i - 1 <= i OBVIOUS
    <3>2. QED BY <1>8, <3>1, SpanSplit
  <2>2. (i - 1) + 1 = i OBVIOUS
  <2>3. QED BY <1>9, <2>1, <2>2 DEF In
<1>12. In(i, kBuckets - 1) = here + high
  <2>1. i \in Int /\ kBuckets - 1 \in Int /\ i <= i + 1 /\ i <= kBuckets - 1 BY <1>7
  <2>2. Cardinality(Span(samples, Counted, i, kBuckets - 1)) =
          Cardinality(Span(samples, Counted, i, i))
            + Cardinality(Span(samples, Counted, i + 1, kBuckets - 1))
    BY <1>8, <2>1, SpanSplit
  <2>3. QED BY <1>9, <2>2 DEF In
<1>13. n <= cum + here + high /\ cum <= low /\ cum <= t
  BY <1>5, <1>6, <1>9, <1>12
<1>14. CASE cum + here > t
  <2>1. reading' = [reading EXCEPT !.pc = "done", !.result = UpperBound(i)]
    BY <1>4, <1>6, <1>10, <1>14 DEF ReadBucket
  <2>2. UpperBound(i) \in Nat BY UpperBoundFacts
  <2>3. /\ reading' \in ReadingType /\ reading'.pc = "done" /\ reading'.result = UpperBound(i)
        /\ reading'.n = n /\ reading'.i = i /\ reading'.p = p /\ reading'.clean = reading.clean
    BY <1>3, <1>4, <2>1, <2>2 DEF ReadingType
  <2>4. In(0, i)' = In(0, i) /\ In(i, i)' = In(i, i) BY <1>2, OnlyReads
  <2>5. t < In(0, i)' /\ 0 < In(i, i)' BY <1>9, <1>11, <1>13, <1>14, <2>4
  <2>6. n <= hist'.total /\ recording'.todo = recording.todo /\ samples' = samples BY <1>2, <1>5
  <2>7. ReadInv' BY <1>5, <1>6, <2>3, <2>5, <2>6 DEF ReadInv, In
  <2>8. QED BY <1>2, <2>3, <2>7, OnlyReads DEF HistIInv
<1>15. CASE ~(cum + here > t)
  <2>1. i # kBuckets - 1
    <3>1. SUFFICES ASSUME i = kBuckets - 1 PROVE FALSE OBVIOUS
    <3>2. i + 1 = kBuckets BY <1>7, <3>1
    <3>3. high = 0 BY <1>8, <1>9, <3>2, SpanAll DEF In
    <3>4. QED BY <1>6, <1>13, <1>15, <3>3
  <2>2. i + 1 \in 0 .. kBuckets - 1 BY <1>7, <2>1
  <2>3. reading' = [reading EXCEPT !.i = i + 1, !.cum = cum + here]
    BY <1>4, <1>6, <1>10, <1>15, <2>1 DEF ReadBucket
  <2>4. cum + here \in Nat OBVIOUS
  <2>5. PICK j \in 0 .. kBuckets - 1, c \in Nat : j = i + 1 /\ c = cum + here BY <2>2, <2>4
  <2>6. /\ reading' \in ReadingType /\ reading'.pc = "buckets" /\ reading'.cum = c
        /\ reading'.n = n /\ reading'.i = j /\ reading'.p = p /\ reading'.clean = reading.clean
    BY <1>3, <1>4, <2>3, <2>5 DEF ReadingType
  <2>7. In(0, i)' = In(0, i) /\ In(j, kBuckets - 1)' = In(j, kBuckets - 1) BY <1>2, OnlyReads
  <2>8. j - 1 = i BY <2>5
  <2>9. c <= In(0, i)' /\ n <= c + In(j, kBuckets - 1)' /\ c <= t
    <3>1. In(j, kBuckets - 1) = high BY <1>9, <2>5
    <3>2. QED BY <1>11, <1>13, <1>15, <2>5, <2>7, <3>1
  <2>10. n <= hist'.total /\ recording'.todo = recording.todo /\ samples' = samples BY <1>2, <1>5
  <2>11. ReadInv' BY <1>5, <1>6, <2>6, <2>8, <2>9, <2>10 DEF ReadInv, In
  <2>12. QED BY <1>2, <2>6, <2>11, OnlyReads DEF HistIInv
<1>16. QED BY <1>14, <1>15

\* A result is handed over.
LEMMA EndReadHist ==
    ASSUME HistIInv, EndRead
    PROVE  HistIInv'
<1>1. UNCHANGED <<hist, samples, recording>> /\ reading' = Idle BY DEF EndRead
<1>2. 0 \in 0 .. kBuckets - 1 BY Constants
<1>3. reading' \in ReadingType /\ reading'.pc = "idle" BY <1>1, <1>2 DEF Idle, ReadingType
<1>4. ReadInv' BY <1>3 DEF ReadInv
<1>5. QED BY <1>1, <1>3, <1>4, OnlyReads DEF HistIInv

\* Every step keeps the invariant.
LEMMA HistNext == HistIInv /\ [NextStats]_statsVars => HistIInv'
<1> SUFFICES ASSUME HistIInv, [NextStats]_statsVars PROVE HistIInv' OBVIOUS
<1>0. HistTypeOK /\ HistInv BY DEF HistIInv
<1>1. ASSUME NEW ns \in Samples, NEW now \in 0 .. MaxNow, BeginRecord(ns, now) PROVE HistIInv'
  BY <1>0, <1>1, BeginRecordHist, ReadInvKept
<1>2. CASE RecordStep BY <1>0, <1>2, RecordStepHist, ReadInvKept
<1>3. ASSUME NEW p \in Percentiles, BeginRead(p) PROVE HistIInv' BY <1>3, BeginReadHist
<1>4. CASE ReadBucket BY <1>4, ReadBucketHist
<1>5. CASE EndRead BY <1>5, EndReadHist
<1>6. CASE UNCHANGED statsVars
  <2>1. UNCHANGED <<hist, samples, recording, reading>> BY <1>6 DEF statsVars
  <2>2. ReadInv' BY <2>1, OnlyReads DEF HistIInv, ReadInv, In, Counted
  <2>3. QED BY <2>1, <2>2, OnlyReads DEF HistIInv, HistTypeOK
<1>7. QED BY <1>1, <1>2, <1>3, <1>4, <1>5, <1>6 DEF NextStats

-----------------------------------------------------------------------------
(* The samples recorded before the call began.                             *)

\* How many of the n samples it set out from are in the buckets up to hi.
First(hi) == Cardinality(Span(samples, reading.n, 0, hi))

\* The reader has counted at least those of the n in the buckets it has passed.
FirstInv ==
    /\ reading.pc = "buckets" => First(reading.i - 1) <= reading.cum
    /\ reading.pc = "done" => First(reading.i - 1) <= Target(reading.p, reading.n)

\* The n samples are among those counted.
LEMMA FirstFacts ==
    ASSUME HistIInv, reading.pc # "idle"
    PROVE  /\ reading.n \in Nat /\ reading.n <= Counted /\ Counted \in 0 .. Len(samples)
           /\ Counts(samples, reading.n) /\ Counts(samples, Counted)
<1>1. Counts(samples, Counted) BY CountedFacts DEF HistIInv
<1>2. Counted \in 0 .. Len(samples) /\ Len(samples) \in Nat /\ samples \in Seq(Samples)
  BY <1>1 DEF Counts
<1>3. reading.n \in Nat /\ reading.n <= hist.total /\ hist.total \in Nat
  BY DEF HistIInv, HistTypeOK, ReadInv, ReadingType
<1>4. hist.total <= Counted BY <1>2 DEF HistIInv, HistTypeOK, HistInv, Counted
<1>5. reading.n <= Counted /\ reading.n \in 0 .. Len(samples) BY <1>2, <1>3, <1>4
<1>6. QED BY <1>1, <1>2, <1>3, <1>5 DEF Counts

\* What is recorded later does not change them.
LEMMA FirstKept ==
    ASSUME HistIInv, FirstInv, reading' = [reading EXCEPT !.clean = FALSE],
           samples' = samples \/ \E ns : samples' = Append(samples, ns)
    PROVE  FirstInv'
<1>1. /\ reading'.pc = reading.pc /\ reading'.p = reading.p /\ reading'.n = reading.n
      /\ reading'.i = reading.i /\ reading'.cum = reading.cum
  BY DEF HistIInv, HistTypeOK, ReadingType
<1>2. CASE reading.pc = "idle" BY <1>1, <1>2 DEF FirstInv
<1>3. CASE reading.pc # "idle"
  <2>1. reading.n \in Nat /\ reading.n <= Len(samples) /\ samples \in Seq(Samples)
        /\ Len(samples) \in Nat
    BY <1>3, FirstFacts DEF Counts
  <2>2. \A k \in 1 .. reading.n : samples'[k] = samples[k]
    <3>1. CASE samples' = samples BY <3>1
    <3>2. ASSUME NEW ns, samples' = Append(samples, ns)
          PROVE  \A k \in 1 .. reading.n : samples'[k] = samples[k]
      BY <2>1, <3>2
    <3>3. QED BY <3>1, <3>2
  <2>3. \A hi : Span(samples', reading.n, 0, hi) = Span(samples, reading.n, 0, hi)
    BY <2>2 DEF Span
  <2>4. First(reading.i - 1)' = First(reading.i - 1) BY <1>1, <2>3 DEF First
  <2>5. QED BY <1>1, <2>4 DEF FirstInv
<1>4. QED BY <1>2, <1>3

\* The bucket that is added holds at least those of the n that are in it.
LEMMA FirstReadBucket ==
    ASSUME HistIInv, FirstInv, ReadBucket
    PROVE  FirstInv'
<1>1. reading.pc = "buckets" /\ samples' = samples BY DEF ReadBucket
<1>2. PICK n \in Nat, cum \in Nat, i \in 0 .. kBuckets - 1, p \in Percentiles :
        /\ reading.n = n /\ reading.cum = cum /\ reading.i = i /\ reading.p = p
        /\ cum <= Target(p, n) /\ n # 0
  BY <1>1 DEF HistIInv, HistTypeOK, ReadInv, ReadingType
<1>3. n <= Counted /\ Counted \in Nat /\ Counts(samples, n) /\ Counts(samples, Counted)
  BY <1>1, <1>2, FirstFacts
<1>4. PICK t \in Nat : t = Target(p, n) BY <1>2, TargetFacts
<1>5. PICK low, mine, here \in Nat :
        /\ low = Cardinality(Span(samples, n, 0, i - 1))
        /\ mine = Cardinality(Span(samples, n, i, i))
        /\ here = Cardinality(Span(samples, Counted, i, i))
  BY <1>3, SpanFinite
<1>6. low <= cum BY <1>1, <1>2, <1>5 DEF FirstInv, First
<1>7. hist.counts[i] = here BY <1>5 DEF HistIInv, HistInv, In
<1>8. mine <= here
  <2>1. Span(samples, n, i, i) \in SUBSET Span(samples, Counted, i, i) BY <1>3 DEF Span
  <2>2. IsFiniteSet(Span(samples, Counted, i, i)) BY <1>3, SpanFinite
  <2>3. QED BY <1>5, <2>1, <2>2, FS_Subset
<1>9. Cardinality(Span(samples, n, 0, i)) = low + mine
  <2>1. i - 1 \in Int /\ i \in Int /\ 0 <= (i - 1) + 1 /\ i - 1 <= i /\ (i - 1) + 1 = i
    OBVIOUS
  <2>2. Cardinality(Span(samples, n, 0, i)) =
          Cardinality(Span(samples, n, 0, i - 1)) + Cardinality(Span(samples, n, (i - 1) + 1, i))
    BY <1>3, <2>1, SpanSplit
  <2>3. QED BY <1>5, <2>1, <2>2
<1>10. reading \in ReadingType BY DEF HistIInv, HistTypeOK
<1>11. CASE reading'.pc = "done"
  <2>1. reading'.n = n /\ reading'.p = p /\ reading'.i = i
    BY <1>2, <1>10, <1>11 DEF ReadBucket, ReadingType
  <2>2. First(reading.i - 1)' = low BY <1>1, <1>5, <2>1 DEF First
  <2>3. low <= t BY <1>2, <1>4, <1>6
  <2>4. QED BY <1>4, <1>11, <2>1, <2>2, <2>3 DEF FirstInv
<1>12. CASE reading'.pc # "done"
  <2>1. reading' = [reading EXCEPT !.i = i + 1, !.cum = cum + here]
    BY <1>2, <1>7, <1>10, <1>12 DEF ReadBucket, ReadingType
  <2>2. reading'.n = n /\ reading'.i = i + 1 /\ reading'.cum = cum + here
    BY <1>2, <1>10, <2>1 DEF ReadingType
  <2>3. (i + 1) - 1 = i OBVIOUS
  <2>4. First(reading.i - 1)' = low + mine BY <1>1, <1>9, <2>2, <2>3 DEF First
  <2>5. low + mine <= cum + here BY <1>6, <1>8
  <2>6. QED BY <1>12, <2>2, <2>4, <2>5 DEF FirstInv
<1>13. QED BY <1>11, <1>12

\* percentile() begins before all buckets, where none of the n are.
LEMMA FirstBeginRead ==
    ASSUME HistIInv, NEW p \in Percentiles, BeginRead(p)
    PROVE  FirstInv'
<1>1. reading'.pc # "done" /\ reading'.i = 0 /\ reading'.cum = 0
  BY DEF BeginRead, Idle
<1>2. CASE reading'.pc # "buckets" BY <1>1, <1>2 DEF FirstInv
<1>3. CASE reading'.pc = "buckets"
  <2>1. Counts(samples', reading'.n)
    <3>1. samples' = samples /\ reading'.n = hist.total BY DEF BeginRead, Idle
    <3>2. samples \in Seq(Samples) /\ Len(samples) \in Nat BY DEF HistIInv, HistTypeOK
    <3>3. hist.total \in 0 .. Len(samples) BY <3>2 DEF HistIInv, HistTypeOK, HistInv
    <3>4. QED BY <3>1, <3>2, <3>3 DEF Counts
  <2>2. Cardinality(Span(samples', reading'.n, 0, -1)) = 0 BY <2>1, SpanAll DEF Counts
  <2>3. 0 - 1 = -1 OBVIOUS
  <2>4. First(reading.i - 1)' = 0 BY <1>1, <2>2, <2>3 DEF First
  <2>5. QED BY <1>1, <2>4 DEF FirstInv
<1>4. QED BY <1>2, <1>3

\* Every step keeps both invariants.
LEMMA FirstNext == HistIInv /\ FirstInv /\ [NextStats]_statsVars => HistIInv' /\ FirstInv'
<1> SUFFICES ASSUME HistIInv, FirstInv, [NextStats]_statsVars PROVE HistIInv' /\ FirstInv' OBVIOUS
<1>0. HistIInv' BY HistNext
<1>1. ASSUME NEW ns \in Samples, NEW now \in 0 .. MaxNow, BeginRecord(ns, now) PROVE FirstInv'
  BY <1>1, FirstKept DEF BeginRecord
<1>2. CASE RecordStep BY <1>0, <1>2, FirstKept DEF RecordStep
<1>3. ASSUME NEW p \in Percentiles, BeginRead(p) PROVE FirstInv' BY <1>3, FirstBeginRead
<1>4. CASE ReadBucket BY <1>0, <1>4, FirstReadBucket
<1>5. CASE EndRead BY <1>0, <1>5 DEF EndRead, Idle, FirstInv
<1>6. CASE UNCHANGED statsVars BY <1>0, <1>6 DEF statsVars, FirstInv, First
<1>7. QED BY <1>0, <1>1, <1>2, <1>3, <1>4, <1>5, <1>6 DEF NextStats

-----------------------------------------------------------------------------
(* What a result says.                                                     *)

\* The samples counted up to a bucket that has an upper end are below it.
LEMMA CountedBelow ==
    ASSUME HistTypeOK, HistInv, NEW i \in 0 .. kBuckets - 1, i # kBuckets - 1
    PROVE  /\ IsFiniteSet(Below(UpperBound(i))) /\ Cardinality(Below(UpperBound(i))) \in Nat
           /\ In(0, i) <= Cardinality(Below(UpperBound(i)))
<1> DEFINE A == Span(samples, Counted, 0, i)
           B == Below(UpperBound(i))
<1>1. Counts(samples, Counted) BY CountedFacts
<1>2. DOMAIN samples = 1 .. Len(samples) /\ Len(samples) \in Nat BY DEF HistTypeOK
<1>3. IsFiniteSet(1 .. Len(samples)) /\ B \in SUBSET (1 .. Len(samples))
  BY <1>2, FS_Interval DEF Below
<1>4. IsFiniteSet(B) /\ Cardinality(B) \in Nat BY <1>3, FS_Subset, FS_CardinalityType
<1>5. A \in SUBSET B
  <2>1. SUFFICES ASSUME NEW k \in A PROVE k \in B OBVIOUS
  <2>2. k \in 1 .. Counted /\ Bucket(samples[k]) <= i BY DEF Span
  <2>3. k \in DOMAIN samples BY <1>1, <1>2, <2>2 DEF Counts
  <2>4. samples[k] \in Nat BY <1>1, <2>2, CountedBucket
  <2>5. samples[k] < UpperBound(i) BY <2>2, <2>4, BelowUpperBound
  <2>6. QED BY <2>3, <2>5 DEF Below
<1>6. Cardinality(A) <= Cardinality(B) BY <1>4, <1>5, FS_Subset
<1>7. QED BY <1>4, <1>6 DEF In

\* A counted sample of a bucket is in the bucket.
LEMMA CountedInBucket ==
    ASSUME HistTypeOK, HistInv, NEW i \in 0 .. kBuckets - 1, 0 < In(i, i)
    PROVE  InBucket(i) # {}
<1>1. Counts(samples, Counted) BY CountedFacts
<1>2. Span(samples, Counted, i, i) # {}
  <2>1. SUFFICES ASSUME Span(samples, Counted, i, i) = {} PROVE FALSE OBVIOUS
  <2>2. In(i, i) = 0 BY <2>1, FS_EmptySet DEF In
  <2>3. QED BY <2>2
<1>3. PICK k \in 1 .. Counted : i <= Bucket(samples[k]) /\ Bucket(samples[k]) <= i
  BY <1>2 DEF Span
<1>4. Bucket(samples[k]) \in 0 .. kBuckets - 1 BY <1>1, <1>3, CountedBucket
<1>5. Bucket(samples[k]) = i BY <1>3, <1>4
<1>6. k \in DOMAIN samples BY <1>1, <1>3 DEF Counts
<1>7. QED BY <1>5, <1>6 DEF InBucket

\* A result lies between the two, whatever was recorded meanwhile.
LEMMA SoundFromInv == HistIInv /\ FirstInv => ConcurrentReadIsSound
<1> SUFFICES ASSUME HistIInv, FirstInv, reading.pc = "done"
             PROVE  LET r == reading.result
                        t == Target(reading.p, reading.n)
                    IN  /\ r = UpperBound(reading.i) /\ InBucket(reading.i) # {}
                        /\ r # Top => Cardinality(Below(r)) > t
                        /\ Cardinality({k \in 1 .. reading.n :
                                          Bucket(samples[k]) < reading.i}) <= t
  BY DEF ConcurrentReadIsSound
<1>1. HistTypeOK /\ HistInv BY DEF HistIInv
<1>2. PICK n \in Nat \ {0}, i \in 0 .. kBuckets - 1, p \in Percentiles :
        reading.n = n /\ reading.i = i /\ reading.p = p
  BY DEF HistIInv, ReadInv, HistTypeOK, ReadingType
<1>3. reading.result = UpperBound(i) /\ Target(p, n) < In(0, i) /\ 0 < In(i, i)
  BY <1>2 DEF HistIInv, ReadInv
<1>4. InBucket(i) # {} BY <1>1, <1>3, CountedInBucket
<1>5. UpperBound(i) # Top => Cardinality(Below(UpperBound(i))) > Target(p, n)
  <2>1. HAVE UpperBound(i) # Top
  <2>2. i # kBuckets - 1 BY <2>1, UpperBoundFacts
  <2>3. PICK a \in Nat : a = Cardinality(Below(UpperBound(i))) /\ In(0, i) <= a
    BY <1>1, <2>2, CountedBelow
  <2>4. PICK b \in Nat : b = In(0, i) BY <1>1, CountedFacts
  <2>5. PICK t \in Nat : t = Target(p, n) BY TargetFacts
  <2>6. QED BY <1>3, <2>3, <2>4, <2>5
<1>6. {k \in 1 .. n : Bucket(samples[k]) < i} = Span(samples, n, 0, i - 1)
  <2>1. Counts(samples, n) BY <1>2, FirstFacts
  <2>2. \A k \in 1 .. n : Bucket(samples[k]) \in 0 .. kBuckets - 1 BY <2>1, CountedBucket
  <2>3. \A b \in 0 .. kBuckets - 1 : b < i <=> 0 <= b /\ b <= i - 1 BY Constants
  <2>4. QED BY <2>2, <2>3 DEF Span
<1>7. Cardinality(Span(samples, n, 0, i - 1)) <= Target(p, n) BY <1>2 DEF FirstInv, First
<1>8. QED BY <1>2, <1>3, <1>4, <1>5, <1>6, <1>7

\* A result of a call during which nothing was recorded bounds the nearest
\* rank: more samples are counted up to its bucket than are below that rank.
LEMMA UpperBoundFromInv == HistIInv => PercentileIsUpperBound
<1> SUFFICES ASSUME HistIInv, reading.pc = "done", reading.clean
             PROVE  \/ at(reading.p) < reading.result
                    \/ reading.result = Top /\ Bucket(at(reading.p)) = kBuckets - 1
  BY DEF PercentileIsUpperBound
<1>1. HistTypeOK /\ HistInv BY DEF HistIInv
<1>2. PICK n \in Nat \ {0}, i \in 0 .. kBuckets - 1, p \in Percentiles :
        reading.n = n /\ reading.i = i /\ reading.p = p
  BY DEF HistIInv, ReadInv, HistTypeOK, ReadingType
<1>3. /\ reading.result = UpperBound(i) /\ Target(p, n) < In(0, i)
      /\ recording.todo = 0 /\ n = Len(samples)
  BY <1>2 DEF HistIInv, ReadInv
<1>4. PICK t \in Nat : t = Target(p, n) /\ t < n BY TargetFacts
<1>5. PICK c \in Nat : c = CeilDiv(p.num * n, p.den) /\ c <= t + 1 BY <1>4, TargetFacts
<1>6. PICK k \in 1 .. Len(samples) : k <= t + 1 /\ at(p) = Sorted(k)
  <2>1. at(p) = Sorted(IF c = 0 THEN 1 ELSE c) BY <1>3, <1>5 DEF at
  <2>2. (IF c = 0 THEN 1 ELSE c) \in 1 .. Len(samples) /\ (IF c = 0 THEN 1 ELSE c) <= t + 1
    BY <1>3, <1>4, <1>5
  <2>3. QED BY <2>1, <2>2
<1>7. PICK v \in Samples : v = at(p) /\ Cardinality(Below(v)) < k
  BY <1>1, <1>6, SortedFacts DEF HistTypeOK
<1>8. v \in Nat BY Constants
<1>9. CASE i = kBuckets - 1
  <2>1. UpperBound(i) = Top BY <1>9, UpperBoundFacts
  <2>2. QED BY <1>2, <1>3, <1>7, <1>8, <2>1, BelowTop
<1>10. CASE i # kBuckets - 1
  <2> DEFINE S == Span(samples, Counted, 0, i)
  <2>1. Counts(samples, Counted) /\ Counted = Len(samples)
    BY <1>1, <1>3, CountedFacts DEF Counted
  <2>2. DOMAIN samples = 1 .. Len(samples) /\ Len(samples) \in Nat BY <1>1 DEF HistTypeOK
  <2>3. IsFiniteSet(Below(v)) /\ Cardinality(Below(v)) \in Nat
    <3>1. Below(v) \in SUBSET (1 .. Len(samples)) BY <2>2 DEF Below
    <3>2. IsFiniteSet(1 .. Len(samples)) BY <2>2, FS_Interval
    <3>3. IsFiniteSet(Below(v)) BY <3>1, <3>2, FS_Subset
    <3>4. QED BY <3>3, FS_CardinalityType
  <2>4. ~(S \in SUBSET Below(v))
    <3>1. SUFFICES ASSUME S \in SUBSET Below(v) PROVE FALSE OBVIOUS
    <3>2. Cardinality(S) <= Cardinality(Below(v)) BY <2>3, <3>1, FS_Subset
    <3>3. Cardinality(S) = In(0, i) /\ Cardinality(S) \in Nat BY <2>1, SpanFinite DEF In
    <3>4. QED BY <1>3, <1>4, <1>6, <1>7, <2>3, <3>2, <3>3
  <2>5. PICK j \in S : j \notin Below(v) BY <2>4
  <2>6. j \in 1 .. Counted /\ Bucket(samples[j]) <= i BY <2>5 DEF Span
  <2>7. samples[j] \in Nat BY <2>1, <2>6, CountedBucket
  <2>8. samples[j] < UpperBound(i) BY <1>10, <2>6, <2>7, BelowUpperBound
  <2>9. v <= samples[j] BY <1>8, <2>1, <2>2, <2>5, <2>6, <2>7 DEF Below
  <2>10. UpperBound(i) \in Nat BY UpperBoundFacts
  <2>11. v < UpperBound(i) BY <1>8, <2>7, <2>8, <2>9, <2>10
  <2>12. QED BY <1>2, <1>3, <1>7, <2>11
<1>11. QED BY <1>9, <1>10

\* percentile() (stats.hpp): whatever the measuring thread records between
\* its loads, the result is the end of a bucket that holds a sample, so the
\* loop never runs off the last bucket; more samples recorded by the time it
\* returns than its target are below the result; and no more than the target
\* of the n recorded when it began are in the buckets before.
THEOREM ConcurrentReadCorrect == SpecStats => []ConcurrentReadIsSound
<1>1. InitStats => HistIInv /\ FirstInv BY HistInit DEF InitStats, Idle, FirstInv
<1>2. HistIInv /\ FirstInv /\ [NextStats]_statsVars => HistIInv' /\ FirstInv' BY FirstNext
<1>3. QED BY <1>1, <1>2, SoundFromInv, PTL DEF SpecStats

\* stats.hpp: a percentile of the histogram that no record() disturbed is an
\* exclusive upper bound of the exact nearest-rank percentile that
\* SampleRecorder::at computes from the same samples, unless the sample is
\* in the last bucket.
THEOREM PercentileCorrect == SpecStats => []PercentileIsUpperBound
<1>1. HistIInv /\ [NextStats]_statsVars => HistIInv' BY HistNext
<1>2. QED BY <1>1, HistInit, UpperBoundFromInv, PTL DEF SpecStats

-----------------------------------------------------------------------------
(* The sliding rate.                                                       *)

\* The messages of window w, among the recorded windows s, of bucket i.
Of(s, i, w) == {k \in DOMAIN s : s[k] = w /\ s[k] % kRing = i}

\* A bucket counts the messages of its window, which is the latest that any
\* message of the bucket had, and no later than the newest.
RingInv ==
    /\ windows \in Seq(Nat) /\ newest \in Nat
    /\ ring \in [0 .. kRing - 1 -> [ts : Nat, count : Nat]]
    /\ \A i \in 0 .. kRing - 1 :
         /\ ring[i].count = Cardinality(Of(windows, i, ring[i].ts))
         /\ ring[i].ts <= Window(newest)
         /\ ring[i].ts % kRing = i \/ ring[i].ts = 0
    /\ \A k \in DOMAIN windows : windows[k] <= ring[windows[k] % kRing].ts

\* Windows and buckets of the ring.
LEMMA WindowFacts ==
    ASSUME NEW t \in Nat
    PROVE  Window(t) \in Nat /\ t % kRing \in 0 .. kRing - 1
BY Constants, Division DEF Window

\* A later time is in a later window or the same.
LEMMA WindowMonotone ==
    ASSUME NEW t \in Nat, NEW u \in Nat, t <= u
    PROVE  Window(t) <= Window(u)
BY Constants, DivisionMonotone DEF Window

\* Two windows of one bucket of the ring, less than a turn apart, are one.
LEMMA SameWindow ==
    ASSUME NEW x \in Nat, NEW y \in Nat, x <= y, y < x + kRing,
           x % kRing = y % kRing
    PROVE  x = y
<1>1. kRing \in Nat \ {0} BY Constants
<1>2. SUFFICES ASSUME x < y PROVE FALSE OBVIOUS
<1>3. x + kRing <= y BY <1>1, <1>2, SameRemainderApart
<1>4. QED BY <1>1, <1>3

\* Initially every bucket is empty.
LEMMA RingInit == InitStats => RingInv
<1> SUFFICES ASSUME InitStats PROVE RingInv OBVIOUS
<1>1. /\ windows = <<>> /\ newest = 0
      /\ ring = [i \in 0 .. kRing - 1 |-> [ts |-> 0, count |-> 0]]
  BY DEF InitStats
<1>2. DOMAIN windows = {} BY <1>1
<1>3. \A i, w : Of(windows, i, w) = {} BY <1>2 DEF Of
<1>4. \A i, w : Cardinality(Of(windows, i, w)) = 0 BY <1>3, FS_EmptySet
<1>5. Window(newest) \in Nat BY <1>1, WindowFacts
<1>6. \A i \in 0 .. kRing - 1 : ring[i].ts = 0 /\ ring[i].count = 0 BY <1>1
<1>7. QED BY <1>1, <1>2, <1>4, <1>5, <1>6 DEF RingInv

\* A message of a window less than a turn behind the newest finds its bucket
\* at that window or at an older one.
LEMMA RingNotAhead ==
    ASSUME RingInv, NEW w \in Nat, w + kRing > Window(newest)
    PROVE  ring[w % kRing].ts \in Nat /\ ring[w % kRing].ts <= w
<1>1. PICK j \in 0 .. kRing - 1 : j = w % kRing BY WindowFacts
<1>2. PICK t \in Nat, v \in Nat : t = ring[j].ts /\ v = Window(newest) /\ t <= v
                                 /\ (t % kRing = j \/ t = 0)
  BY WindowFacts DEF RingInv
<1>3. SUFFICES ASSUME w < t PROVE FALSE BY <1>1, <1>2
<1>4. w % kRing = t % kRing BY <1>1, <1>2, <1>3
<1>5. kRing \in Nat \ {0} BY Constants
<1>6. t < w + kRing BY <1>2, <1>5
<1>7. QED BY <1>3, <1>4, <1>6, SameWindow

\* A message recorded.
LEMMA BeginRecordRing ==
    ASSUME RingInv, NEW ns, NEW now \in Nat, BeginRecord(ns, now)
    PROVE  RingInv'
<1>1. PICK w \in Nat : w = Window(now) BY WindowFacts
<1>2. PICK j \in 0 .. kRing - 1 : j = w % kRing BY WindowFacts
<1>3. /\ w + kRing > Window(newest) /\ windows' = Append(windows, w)
      /\ newest' = Max({newest, now}) /\ ring' = Tracked(now)
  BY <1>1 DEF BeginRecord
<1>4. windows \in Seq(Nat) /\ newest \in Nat
      /\ ring \in [0 .. kRing - 1 -> [ts : Nat, count : Nat]]
  BY DEF RingInv
<1>5. PICK t \in Nat, c \in Nat : t = ring[j].ts /\ c = ring[j].count BY <1>4
<1>6. t <= w BY <1>2, <1>3, <1>5, RingNotAhead
<1>7. ring' = [ring EXCEPT ![j] = [ts |-> w, count |-> 1 + IF t = w THEN c ELSE 0]]
  BY <1>1, <1>2, <1>3, <1>5 DEF Tracked
<1>8. /\ newest' \in Nat /\ newest <= newest' /\ now <= newest'
  <2>1. {newest, now} \in SUBSET Nat /\ {newest, now} # {}
        /\ newest + now \in Nat /\ \A x \in {newest, now} : x <= newest + now
    BY <1>4
  <2>2. Max({newest, now}) \in {newest, now} /\ \A y \in {newest, now} : y <= Max({newest, now})
    BY <2>1, MaxFacts
  <2>3. QED BY <1>3, <1>4, <2>2
<1>9. PICK v \in Nat, v1 \in Nat : v = Window(newest) /\ v1 = Window(newest)' /\ v <= v1 /\ w <= v1
  <2>1. Window(newest)' = Window(newest') BY DEF Window
  <2>2. Window(newest) \in Nat /\ Window(newest') \in Nat BY <1>4, <1>8, WindowFacts
  <2>3. Window(newest) <= Window(newest') /\ w <= Window(newest')
    BY <1>1, <1>4, <1>8, WindowMonotone
  <2>4. QED BY <2>1, <2>2, <2>3
<1> DEFINE m == Len(windows) + 1
<1>10. /\ windows' \in Seq(Nat) /\ m \in Nat
       /\ DOMAIN windows = 1 .. Len(windows) /\ DOMAIN windows' = DOMAIN windows \cup {m}
       /\ m \notin DOMAIN windows /\ windows'[m] = w
       /\ \A k \in DOMAIN windows : windows'[k] = windows[k] /\ windows[k] \in Nat
  <2>1. windows' \in Seq(Nat) /\ Len(windows) \in Nat /\ Len(windows') = Len(windows) + 1
        /\ windows'[Len(windows) + 1] = w
        /\ \A k \in 1 .. Len(windows) : windows'[k] = windows[k] /\ windows[k] \in Nat
    BY <1>3, <1>4
  <2>2. DOMAIN windows = 1 .. Len(windows) /\ DOMAIN windows' = 1 .. Len(windows')
    BY <1>4, <2>1
  <2>3. QED BY <2>1, <2>2
<1> HIDE DEF m
<1>11. \A i, u : Of(windows', i, u) = IF u = w /\ i = j THEN Of(windows, i, u) \cup {m} ELSE Of(windows, i, u)
  <2>1. TAKE i, u
  <2>2. Of(windows', i, u) = {k \in DOMAIN windows' : windows'[k] = u /\ windows'[k] % kRing = i} BY DEF Of
  <2>3. CASE u = w /\ i = j BY <1>2, <1>10, <2>2, <2>3 DEF Of
  <2>4. CASE ~(u = w /\ i = j) BY <1>2, <1>10, <2>2, <2>4 DEF Of
  <2>5. QED BY <2>3, <2>4
<1>12. \A i, u : IsFiniteSet(Of(windows, i, u)) /\ Cardinality(Of(windows, i, u)) \in Nat /\ m \notin Of(windows, i, u)
  <2>1. TAKE i, u
  <2>2. IsFiniteSet(1 .. Len(windows)) BY <1>4, FS_Interval
  <2>3. Of(windows, i, u) \in SUBSET (1 .. Len(windows)) BY <1>10 DEF Of
  <2>4. IsFiniteSet(Of(windows, i, u)) BY <2>2, <2>3, FS_Subset
  <2>5. m \notin Of(windows, i, u) BY <1>10 DEF Of
  <2>6. QED BY <2>4, <2>5, FS_CardinalityType
<1>13. /\ \A i \in 0 .. kRing - 1 : i # j => ring'[i] = ring[i]
       /\ ring'[j].ts = w /\ ring'[j].count = 1 + IF t = w THEN c ELSE 0
       /\ ring' \in [0 .. kRing - 1 -> [ts : Nat, count : Nat]]
  BY <1>4, <1>7
<1>14. ASSUME NEW i \in 0 .. kRing - 1
       PROVE  /\ ring'[i].count = Cardinality(Of(windows', i, ring'[i].ts))
              /\ ring'[i].ts <= v1
              /\ ring'[i].ts % kRing = i \/ ring'[i].ts = 0
  <2>1. CASE i # j
    <3>1. ring'[i] = ring[i] BY <1>13, <2>1
    <3>2. PICK u \in Nat : u = ring[i].ts /\ u <= v /\ (u % kRing = i \/ u = 0)
                          /\ ring[i].count = Cardinality(Of(windows, i, u))
      BY <1>4, <1>9 DEF RingInv
    <3>3. Of(windows', i, u) = Of(windows, i, u) BY <1>11, <2>1
    <3>4. u <= v1 BY <1>9, <3>2
    <3>5. QED BY <3>1, <3>2, <3>3, <3>4
  <2>2. CASE i = j
    <3>1. Of(windows', j, w) = Of(windows, j, w) \cup {m} BY <1>11
    <3>2. Cardinality(Of(windows, j, w) \cup {m}) = Cardinality(Of(windows, j, w)) + 1 BY <1>12, FS_AddElement
    <3>3. Cardinality(Of(windows, j, w)) = IF t = w THEN c ELSE 0
      <4>1. CASE t = w BY <1>5, <4>1 DEF RingInv
      <4>2. CASE t # w
        <5>1. Of(windows, j, w) = {}
          <6>1. SUFFICES ASSUME NEW k \in Of(windows, j, w) PROVE FALSE OBVIOUS
          <6>2. k \in DOMAIN windows /\ windows[k] = w BY <6>1 DEF Of
          <6>3. windows[k] <= ring[windows[k] % kRing].ts BY <6>2 DEF RingInv
          <6>4. w <= t BY <1>2, <1>5, <6>2, <6>3
          <6>5. QED BY <1>6, <4>2, <6>4
        <5>2. QED BY <4>2, <5>1, FS_EmptySet
      <4>3. QED BY <4>1, <4>2
    <3>4. Cardinality(Of(windows', j, w)) = 1 + IF t = w THEN c ELSE 0
      <4>1. PICK z \in Nat : z = Cardinality(Of(windows, j, w)) BY <1>12
      <4>2. z + 1 = 1 + z OBVIOUS
      <4>3. QED BY <3>1, <3>2, <3>3, <4>1, <4>2
    <3>5. w % kRing = j /\ w <= v1 BY <1>2, <1>9
    <3>6. QED BY <1>13, <2>2, <3>4, <3>5
  <2>3. QED BY <2>1, <2>2
<1>15. ASSUME NEW k \in DOMAIN windows' PROVE windows'[k] <= ring'[windows'[k] % kRing].ts
  <2>1. CASE k = m BY <1>2, <1>10, <1>13, <2>1
  <2>2. CASE k # m
    <3>1. PICK u \in Nat : k \in DOMAIN windows /\ windows'[k] = u /\ windows[k] = u
      BY <1>10, <1>15, <2>2
    <3>2. u <= ring[u % kRing].ts BY <3>1 DEF RingInv
    <3>3. PICK i \in 0 .. kRing - 1 : i = u % kRing BY WindowFacts
    <3>4. CASE i = j BY <1>5, <1>6, <1>13, <3>1, <3>2, <3>3, <3>4
    <3>5. CASE i # j BY <1>13, <3>1, <3>2, <3>3, <3>5
    <3>6. QED BY <3>4, <3>5
  <2>3. QED BY <2>1, <2>2
<1>16. QED BY <1>8, <1>9, <1>10, <1>13, <1>14, <1>15 DEF RingInv

\* Every step keeps the invariant.
LEMMA RingNext == RingInv /\ [NextStats]_statsVars => RingInv'
<1> SUFFICES ASSUME RingInv, [NextStats]_statsVars PROVE RingInv' OBVIOUS
<1>1. ASSUME NEW ns \in Samples, NEW now \in 0 .. MaxNow, BeginRecord(ns, now) PROVE RingInv'
  <2>1. now \in Nat BY StatsAssumption
  <2>2. QED BY <1>1, <2>1, BeginRecordRing
<1>2. CASE UNCHANGED <<ring, windows, newest>>
  <2>1. QED BY <1>2 DEF RingInv, Window
<1>3. QED
  BY <1>1, <1>2 DEF NextStats, RecordStep, BeginRead, ReadBucket, EndRead, statsVars

\* What the buckets contribute to the rate in window v.
Shares(v) == [i \in DOMAIN ring |-> IF ring[i].ts + kRing > v THEN ring[i].count ELSE 0]

\* The rate's sum is theirs.
LEMMA RateIsSum ==
    ASSUME NEW now, IsFiniteSet(DOMAIN ring)
    PROVE  msgs_per_sec(now) = SumOf(Shares(Window(now)), DOMAIN ring) \div kWindowSec
<1> DEFINE D == DOMAIN ring
           w == Shares(Window(now))
           Adds(g) == g = [s \in SUBSET D |->
               IF s = {} THEN 0
               ELSE (IF ring[Pick(s)].ts + kRing > Window(now) THEN ring[Pick(s)].count ELSE 0)
                      + g[s \ {Pick(s)}]]
<1>1. msgs_per_sec(now) = (CHOOSE g : Adds(g))[D] \div kWindowSec
  BY Zenon DEF msgs_per_sec, MapThenSumSet, MapThenFoldSet, Pick
<1>2. SumOf(w, D) = (CHOOSE g : Sums(w, D, g))[D] /\ Sums(w, D, CHOOSE g : Sums(w, D, g))
  BY SumsExist, SumOfIsSum
<1>3. \A s \in SUBSET D : s # {} =>
        w[Pick(s)] = IF ring[Pick(s)].ts + kRing > Window(now) THEN ring[Pick(s)].count ELSE 0
  BY PickFacts DEF Shares
<1>4. \A g : Adds(g) <=> Sums(w, D, g) BY <1>3 DEF Sums
<1>5. IsFiniteSet(D) OBVIOUS
<1> HIDE DEF w, Adds, D
<1>6. Adds(CHOOSE g : Adds(g)) BY <1>2, <1>4
<1>7. Sums(w, D, CHOOSE g : Adds(g)) BY <1>4, <1>6
<1>8. (CHOOSE g : Adds(g))[D] = (CHOOSE g : Sums(w, D, g))[D]
  BY <1>2, <1>5, <1>7, SumsAgree
<1>9. QED BY <1>1, <1>2, <1>8 DEF w, D

\* A bucket in time counts the messages in time, any other has none of them.
LEMMA RateFromInv == RingInv => RateIsExact
<1> SUFFICES ASSUME RingInv, NEW now \in newest .. MaxNow
             PROVE  msgs_per_sec(now) =
                      Cardinality({k \in DOMAIN windows : windows[k] + kRing > Window(now)})
                        \div kWindowSec
  BY DEF RateIsExact
<1>1. /\ windows \in Seq(Nat) /\ newest \in Nat
      /\ ring \in [0 .. kRing - 1 -> [ts : Nat, count : Nat]]
  BY DEF RingInv
<1>2. PICK c \in Nat \ {0} : c = kRing BY Constants
<1>3. now \in Nat /\ newest <= now BY <1>1, StatsAssumption
<1>4. PICK v \in Nat : v = Window(now) /\ Window(newest) <= v
  BY <1>1, <1>3, WindowFacts, WindowMonotone
<1> DEFINE D == {k \in DOMAIN windows : windows[k] + kRing > v}
           f == [k \in D |-> windows[k] % kRing]
           I == 0 .. kRing - 1
           w == Shares(v)
<1>5. DOMAIN windows = 1 .. Len(windows) /\ Len(windows) \in Nat
      /\ \A k \in DOMAIN windows : windows[k] \in Nat
  BY <1>1
<1>6. IsFiniteSet(D)
  <2>1. IsFiniteSet(1 .. Len(windows)) BY <1>5, FS_Interval
  <2>2. D \in SUBSET (1 .. Len(windows)) BY <1>5
  <2>3. QED BY <2>1, <2>2, FS_Subset
<1>7. IsFiniteSet(I) /\ DOMAIN ring = I BY <1>1, <1>2, FS_Interval
<1>8. \A k \in D : f[k] \in I BY <1>5, WindowFacts
<1>9. ASSUME NEW i \in I PROVE w[i] = Cardinality({k \in D : f[k] = i})
  <2>1. PICK t \in Nat, n \in Nat : t = ring[i].ts /\ n = ring[i].count BY <1>1, <1>9
  <2>2. PICK u \in Nat : u = Window(newest) /\ t <= u /\ u <= v
    BY <1>1, <1>4, <1>9, <2>1, WindowFacts DEF RingInv
  <2>3. t % kRing = i \/ t = 0 BY <1>9, <2>1 DEF RingInv
  <2>4. n = Cardinality(Of(windows, i, t)) BY <1>9, <2>1 DEF RingInv
  <2>5. w[i] = IF t + kRing > v THEN n ELSE 0 BY <1>7, <1>9, <2>1 DEF Shares
  <2>6. ASSUME NEW k \in D, f[k] = i
        PROVE  windows[k] = t /\ t + kRing > v
    <3>1. PICK x \in Nat : x = windows[k] /\ x + kRing > v /\ x % kRing = i
      BY <1>5, <2>6
    <3>2. x <= t BY <2>1, <2>6, <3>1 DEF RingInv
    <3>3. t + kRing > v /\ t < x + kRing BY <1>2, <2>2, <3>1, <3>2
    <3>4. CASE t = 0 BY <3>1, <3>2, <3>3, <3>4
    <3>5. CASE t % kRing = i
      <4>1. x = t BY <3>1, <3>2, <3>3, <3>5, SameWindow
      <4>2. QED BY <3>1, <3>3, <4>1
    <3>6. QED BY <2>3, <3>4, <3>5
  <2>7. CASE t + kRing > v
    <3>1. {k \in D : f[k] = i} = Of(windows, i, t)
      <4>1. ASSUME NEW k \in D, f[k] = i PROVE k \in Of(windows, i, t) BY <2>6, <4>1 DEF Of
      <4>2. ASSUME NEW k \in Of(windows, i, t) PROVE k \in D /\ f[k] = i BY <2>7, <4>2 DEF Of
      <4>3. QED BY <4>1, <4>2
    <3>2. QED BY <2>4, <2>5, <2>7, <3>1
  <2>8. CASE ~(t + kRing > v)
    <3>1. {k \in D : f[k] = i} = {} BY <2>6, <2>8
    <3>2. QED BY <2>5, <2>8, <3>1, FS_EmptySet
  <2>9. QED BY <2>7, <2>8
<1>10. SumOf(w, I) = Cardinality(D)
  <2> HIDE DEF D, f, I, w
  <2>1. QED BY <1>6, <1>7, <1>8, <1>9, CountByClass
<1>11. msgs_per_sec(now) = SumOf(Shares(Window(now)), DOMAIN ring) \div kWindowSec
  BY <1>7, RateIsSum
<1>12. QED BY <1>4, <1>7, <1>10, <1>11

\* ThroughputTracker (stats.hpp): for any ring and any order of the stamps
\* that is never a whole turn behind, msgs_per_sec is the number of messages
\* of the last kRing windows over the seconds they span: a bucket reused was
\* emptied, and a bucket of an earlier turn is left out.
THEOREM RateCorrect == SpecStats => []RateIsExact
<1>1. RingInv /\ [NextStats]_statsVars => RingInv' BY RingNext
<1>2. QED BY <1>1, RingInit, RateFromInv, PTL DEF SpecStats

=============================================================================
