----------------------------- MODULE Arithmetic -----------------------------
(***************************************************************************)
(* Lemmas that the proofs share: least and greatest naturals, division,    *)
(* induction over the subsets of a finite set, and sums over one.  The     *)
(* library's sum is a fold in an order it chooses; here it is shown to be  *)
(* what any order gives.                                                   *)
(***************************************************************************)
EXTENDS Integers, FiniteSetsExt, WellFoundedInduction, FiniteSetTheorems, TLAPS

-----------------------------------------------------------------------------
(* Naturals.                                                               *)

\* The order on the naturals as a relation, for the library's theorem.
LEMMA LessIsRelated ==
    ASSUME NEW x \in Nat, NEW y \in Nat, x < y
    PROVE  <<x, y>> \in OpToRel(<, Nat)
BY SMT DEF OpToRel

\* A nonempty set of naturals has a least element.
LEMMA LeastExists ==
    ASSUME NEW S \in SUBSET Nat, S # {}
    PROVE  \E x \in S : \A y \in S : x <= y
<1>1. PICK x \in S : \A y \in S : ~(<<y, x>> \in OpToRel(<, Nat))
  BY NatLessThanWellFounded, WFMin
<1>2. \A y \in S : ~(y < x) BY <1>1, LessIsRelated
<1>3. QED BY <1>2

\* The smallest of some naturals is one of them.
LEMMA MinFacts ==
    ASSUME NEW S \in SUBSET Nat, S # {}
    PROVE  Min(S) \in S /\ \A y \in S : Min(S) <= y
BY LeastExists DEF Min

\* The greatest of some bounded naturals is one of them.
LEMMA MaxFacts ==
    ASSUME NEW S \in SUBSET Nat, S # {}, NEW b \in Nat, \A x \in S : x <= b
    PROVE  Max(S) \in S /\ \A y \in S : y <= Max(S)
<1> DEFINE T == {b - x : x \in S}
<1>1. T \in SUBSET Nat /\ T # {}
  <2>1. \A x \in S : b - x \in Nat OBVIOUS
  <2>2. QED BY <2>1
<1>2. Min(T) \in T /\ \A y \in T : Min(T) <= y BY <1>1, MinFacts
<1>3. PICK x \in S : Min(T) = b - x BY <1>2
<1>4. \A y \in S : b - x <= b - y BY <1>2, <1>3
<1>5. \A y \in S : x >= y /\ y <= x BY <1>4
<1>6. QED BY <1>5 DEF Max

\* Division with remainder.
LEMMA Division ==
    ASSUME NEW a \in Nat, NEW c \in Nat \ {0}
    PROVE  a = c * (a \div c) + (a % c) /\ a \div c \in Nat /\ a % c \in Nat
<1>1. a = c * (a \div c) + (a % c) OBVIOUS
<1>2. a \div c \in Nat OBVIOUS
<1>3. a % c \in Nat OBVIOUS
<1>4. QED BY <1>1, <1>2, <1>3

\* Two different multiples of c are at least c apart.
LEMMA MultiplesApart ==
    ASSUME NEW c \in Nat \ {0}, NEW x \in Nat, NEW y \in Nat, c * x < c * y
    PROVE  c * x + c <= c * y
<1>1. x < y
  <2>1. SUFFICES ASSUME y <= x PROVE c * y <= c * x OBVIOUS
  <2>2. QED BY <2>1
<1>2. y = x + 1 + (y - x - 1) /\ y - x - 1 \in Nat BY <1>1
<1>3. PICK k \in Nat : y = x + 1 + k BY <1>2
<1>4. c * y = c * x + c + c * k BY <1>3
<1>5. c * k >= 0 OBVIOUS
<1>6. QED BY <1>4, <1>5

\* Division keeps the order.
LEMMA DivisionMonotone ==
    ASSUME NEW a \in Nat, NEW b \in Nat, a <= b, NEW c \in Nat \ {0}
    PROVE  a \div c <= b \div c
<1>1. PICK x, r \in Nat : x = a \div c /\ r = a % c /\ a = c * x + r BY Division
<1>2. PICK y, q \in Nat : y = b \div c /\ q = b % c /\ b = c * y + q BY Division
<1>3. q < c BY <1>2
<1>4. SUFFICES ASSUME y < x PROVE FALSE BY <1>1, <1>2
<1>5. x = y + 1 + (x - y - 1) /\ x - y - 1 \in Nat BY <1>4
<1>6. PICK k \in Nat : x = y + 1 + k BY <1>5
<1>7. c * x = c * y + c + c * k BY <1>6
<1>8. c * k \in Nat /\ c * y \in Nat /\ c * x \in Nat OBVIOUS
<1>9. QED BY <1>1, <1>2, <1>3, <1>7, <1>8

\* Two different numbers with the same remainder are at least c apart.
LEMMA SameRemainderApart ==
    ASSUME NEW c \in Nat \ {0}, NEW a \in Nat, NEW b \in Nat, a < b, a % c = b % c
    PROVE  a + c <= b
<1>1. PICK x \in Nat : a = c * x + (a % c) BY Division
<1>2. PICK y \in Nat : b = c * y + (b % c) BY Division
<1>3. a % c \in Nat /\ c * x \in Nat /\ c * y \in Nat BY Division
<1>4. c * x < c * y BY <1>1, <1>2, <1>3
<1>5. c * x + c <= c * y BY <1>4, MultiplesApart
<1>6. QED BY <1>1, <1>2, <1>3, <1>5

-----------------------------------------------------------------------------
(* Sums.                                                                   *)

\* Induction over the subsets of a finite set: P holds what it holds for all
\* smaller ones.
LEMMA SubsetInduction ==
    ASSUME NEW S, IsFiniteSet(S), NEW P,
           \A s \in SUBSET S : (\A t \in SUBSET s : t # s => t \in P) => s \in P
    PROVE  \A s \in SUBSET S : s \in P
<1> DEFINE N == {Cardinality(s) : s \in (SUBSET S) \ P}
<1>1. \A s \in SUBSET S : IsFiniteSet(s) /\ Cardinality(s) \in Nat
  BY FS_Subset, FS_CardinalityType
<1>2. SUFFICES ASSUME (SUBSET S) \ P # {} PROVE FALSE OBVIOUS
<1>3. N \in SUBSET Nat /\ N # {} BY <1>1, <1>2
<1>4. Min(N) \in N /\ \A y \in N : Min(N) <= y BY <1>3, MinFacts
<1>5. PICK s \in (SUBSET S) \ P : Cardinality(s) = Min(N) BY <1>4
<1>6. ASSUME NEW t \in SUBSET s, t # s PROVE t \in P
  <2>1. t \in SUBSET S BY <1>5
  <2>2. Cardinality(t) <= Cardinality(s) /\ Cardinality(t) # Cardinality(s)
    BY <1>1, <1>5, <1>6, FS_Subset
  <2>3. Cardinality(t) \in Nat /\ Cardinality(s) \in Nat BY <1>1, <1>5, <2>1
  <2>4. ~(Cardinality(s) <= Cardinality(t)) BY <2>2, <2>3
  <2>5. SUFFICES ASSUME t \notin P PROVE FALSE OBVIOUS
  <2>6. Cardinality(t) \in N BY <2>1, <2>5
  <2>7. QED BY <1>4, <1>5, <2>4, <2>6
<1>7. s \in P BY <1>5, <1>6
<1>8. QED BY <1>5, <1>7

\* Of finitely many values one is the greatest.
LEMMA LargestExists ==
    ASSUME NEW S, IsFiniteSet(S), S # {}, NEW f, \A x \in S : f[x] \in Nat
    PROVE  \E x \in S : \A y \in S : f[y] <= f[x]
<1> DEFINE Greatest(s, x) == \A y \in s : f[y] <= f[x]
           P == {s \in SUBSET S : s # {} => \E x \in s : Greatest(s, x)}
<1>1. ASSUME NEW s \in SUBSET S, \A t \in SUBSET s : t # s => t \in P PROVE s \in P
  <2>1. SUFFICES ASSUME s # {} PROVE \E x \in s : Greatest(s, x) OBVIOUS
  <2>2. PICK z \in s : TRUE BY <2>1
  <2>3. CASE s = {z}
    <3>1. f[z] \in Nat OBVIOUS
    <3>2. Greatest(s, z) BY <2>3, <3>1
    <3>3. QED BY <3>2
  <2>4. CASE s # {z}
    <3>1. s \ {z} \in P /\ s \ {z} # {} BY <1>1, <2>4
    <3>2. PICK x \in s \ {z} : Greatest(s \ {z}, x) BY <3>1
    <3>3. f[x] \in Nat /\ f[z] \in Nat /\ \A y \in s : f[y] \in Nat OBVIOUS
    <3>4. CASE f[z] <= f[x] BY <3>2, <3>4
    <3>5. CASE ~(f[z] <= f[x])
      <4>1. \A y \in s : f[y] <= f[z] BY <3>2, <3>3, <3>5
      <4>2. QED BY <4>1
    <3>6. QED BY <3>4, <3>5
  <2>5. QED BY <2>3, <2>4
<1>2. \A s \in SUBSET S : s \in P
  <2> HIDE DEF P
  <2>1. QED BY <1>1, SubsetInduction
<1>3. S \in P BY <1>2
<1>4. QED BY <1>3

\* The element that the fold takes next.
Pick(s) == CHOOSE x \in s : TRUE

\* The values of w on S, added up.
SumOf(w, S) == MapThenSumSet(LAMBDA x : w[x], S)

\* g adds up w over the subsets of S, one element after the other.
Sums(w, S, g) ==
    g = [s \in SUBSET S |->
           IF s = {} THEN 0 ELSE w[Pick(s)] + g[s \ {Pick(s)}]]

\* The library's fold is such a function's value.
LEMMA SumOfIsSum == \A w, S : SumOf(w, S) = (CHOOSE g : Sums(w, S, g))[S]
BY Zenon DEF SumOf, Sums, MapThenSumSet, MapThenFoldSet, Pick

\* The element picked.
LEMMA PickFacts ==
    ASSUME NEW s, s # {} PROVE Pick(s) \in s /\ s \ {Pick(s)} \in SUBSET s /\ s \ {Pick(s)} # s
BY DEF Pick

\* What a summing function is on a subset.
LEMMA SumsAt ==
    ASSUME NEW w, NEW S, NEW g, Sums(w, S, g), NEW s \in SUBSET S
    PROVE  g[s] = IF s = {} THEN 0 ELSE w[Pick(s)] + g[s \ {Pick(s)}]
BY DEF Sums

\* Two of them agree where the values do.
LEMMA SumsAgree ==
    ASSUME NEW w, NEW v, NEW S, NEW T, NEW g, NEW h, Sums(w, S, g), Sums(v, T, h),
           NEW U, U \subseteq S, U \subseteq T, IsFiniteSet(U),
           \A r \in U : w[r] = v[r]
    PROVE  g[U] = h[U]
<1> DEFINE P == {s \in SUBSET U : g[s] = h[s]}
<1>1. ASSUME NEW s \in SUBSET U, \A t \in SUBSET s : t # s => t \in P PROVE s \in P
  <2>1. s \in SUBSET S /\ s \in SUBSET T OBVIOUS
  <2>2. CASE s = {}
    <3>1. g[s] = 0 BY <2>1, <2>2, SumsAt
    <3>2. h[s] = 0 BY <2>1, <2>2, SumsAt
    <3>3. QED BY <3>1, <3>2
  <2>3. CASE s # {}
    <3>1. Pick(s) \in s /\ s \ {Pick(s)} \in SUBSET s /\ s \ {Pick(s)} # s
      BY <2>3, PickFacts
    <3>2. g[s \ {Pick(s)}] = h[s \ {Pick(s)}] BY <1>1, <3>1
    <3>3. g[s] = w[Pick(s)] + g[s \ {Pick(s)}] BY <2>1, <2>3, SumsAt
    <3>4. h[s] = v[Pick(s)] + h[s \ {Pick(s)}]
      <4>1. h[s] = IF s = {} THEN 0 ELSE v[Pick(s)] + h[s \ {Pick(s)}]
        BY ONLY Sums(v, T, h), <2>1, SumsAt
      <4>2. QED BY <2>3, <4>1
    <3>5. g[s] = h[s] BY <3>1, <3>2, <3>3, <3>4
    <3>6. QED BY <3>5
  <2>4. QED BY <2>2, <2>3
<1>2. \A s \in SUBSET U : s \in P
  <2> HIDE DEF P
  <2>1. QED BY <1>1, SubsetInduction
<1>3. QED BY <1>2

\* There is one for every finite set.
LEMMA SumsExist ==
    ASSUME NEW w, NEW S, IsFiniteSet(S)
    PROVE  \E g : Sums(w, S, g)
<1> DEFINE P == {s \in SUBSET S : \E g : Sums(w, s, g)}
<1>0. \A s \in P : Sums(w, s, CHOOSE g : Sums(w, s, g)) OBVIOUS
<1>1. ASSUME NEW s \in SUBSET S, \A t \in SUBSET s : t # s => t \in P PROVE s \in P
  <2> DEFINE g == [t \in SUBSET s |->
                     IF t = {} THEN 0
                     ELSE w[Pick(t)] + SumOf(w, t \ {Pick(t)})]
  <2>1. ASSUME NEW t \in SUBSET s, t # {} PROVE g[t \ {Pick(t)}] = SumOf(w, t \ {Pick(t)})
    <3> DEFINE u == t \ {Pick(t)}
               k == CHOOSE f : Sums(w, u, f)
               v == u \ {Pick(u)}
               l == CHOOSE f : Sums(w, v, f)
    <3>1. u \in SUBSET s /\ u # s /\ IsFiniteSet(u)
      BY <2>1, PickFacts, FS_Subset
    <3>2. Sums(w, u, k) /\ SumOf(w, u) = k[u] BY <1>0, <1>1, <3>1, SumOfIsSum
    <3> HIDE DEF u, k
    <3>3. g[u] = IF u = {} THEN 0 ELSE w[Pick(u)] + SumOf(w, u \ {Pick(u)})
      BY <3>1
    <3>4. k[u] = IF u = {} THEN 0 ELSE w[Pick(u)] + k[u \ {Pick(u)}]
      BY <3>2, SumsAt
    <3>5. CASE u = {} BY <3>2, <3>3, <3>4, <3>5 DEF u
    <3>6. CASE u # {}
      <4>1. v \in SUBSET s /\ v # s /\ v \in SUBSET u /\ IsFiniteSet(v)
        BY <3>1, <3>6, PickFacts, FS_Subset
      <4>2. Sums(w, v, l) /\ SumOf(w, v) = l[v] BY <1>0, <1>1, <4>1, SumOfIsSum
      <4> HIDE DEF l, v
      <4>3. k[v] = l[v] BY <3>2, <4>1, <4>2, SumsAgree
      <4>4. k[u] = g[u] BY <3>3, <3>4, <3>6, <4>2, <4>3 DEF v
      <4>5. QED BY <3>2, <4>4 DEF u
    <3>7. QED BY <3>5, <3>6
  <2>2. g = [t \in SUBSET s |->
               IF t = {} THEN 0 ELSE w[Pick(t)] + g[t \ {Pick(t)}]]
    BY <2>1
  <2>3. Sums(w, s, g) BY <2>2 DEF Sums
  <2>4. QED BY <2>3
<1>2. \A s \in SUBSET S : s \in P
  <2> HIDE DEF P
  <2>1. QED BY <1>1, SubsetInduction
<1>3. QED BY <1>2

\* A natural on every subset of S, and the sum of any one value and the rest.
AnyOrder(w, S, g) ==
    \A s \in SUBSET S :
        g[s] \in Nat /\ \A x \in s : g[s] = w[x] + g[s \ {x}]

\* The order in which they are summed does not matter.
LEMMA SumsCommute ==
    ASSUME NEW w, NEW S, IsFiniteSet(S), \A r \in S : w[r] \in Nat,
           NEW g, Sums(w, S, g)
    PROVE  AnyOrder(w, S, g)
<1> DEFINE Good(s) == g[s] \in Nat /\ \A x \in s : g[s] = w[x] + g[s \ {x}]
           P == {s \in SUBSET S : Good(s)}
<1>1. ASSUME NEW s \in SUBSET S, \A t \in SUBSET s : t # s => t \in P PROVE s \in P
  <2>1. g[s] = IF s = {} THEN 0 ELSE w[Pick(s)] + g[s \ {Pick(s)}] BY SumsAt
  <2>2. CASE s = {} BY <2>1, <2>2
  <2>3. CASE s # {}
    <3>1. PICK c \in s : c = Pick(s) BY <2>3, PickFacts
    <3>2. g[s] = w[c] + g[s \ {c}] BY <2>1, <2>3, <3>1
    <3>3. ASSUME NEW x \in s PROVE w[x] \in Nat /\ g[s \ {x}] \in Nat BY <1>1
    <3>4. ASSUME NEW x \in s, x # c PROVE g[s] = w[x] + g[s \ {x}]
      <4>1. g[s \ {c}] = w[x] + g[(s \ {c}) \ {x}]
        <5>1. s \ {c} \in P /\ x \in s \ {c} BY <1>1, <3>4
        <5>2. QED BY <5>1
      <4>2. g[s \ {x}] = w[c] + g[(s \ {x}) \ {c}]
        <5>1. s \ {x} \in P /\ c \in s \ {x} BY <1>1, <3>4
        <5>2. QED BY <5>1
      <4>3. (s \ {c}) \ {x} = (s \ {x}) \ {c} OBVIOUS
      <4>4. g[(s \ {x}) \ {c}] \in Nat
        <5>1. (s \ {x}) \ {c} \in SUBSET s /\ (s \ {x}) \ {c} # s OBVIOUS
        <5>2. QED BY <1>1, <5>1
      <4>5. PICK m \in Nat : m = g[(s \ {x}) \ {c}] BY <4>4
      <4>6. PICK p, q \in Nat : p = w[c] /\ q = w[x] BY <3>3
      <4>7. p + (q + m) = q + (p + m) OBVIOUS
      <4>8. QED BY <3>2, <4>1, <4>2, <4>3, <4>5, <4>6, <4>7
    <3>5. g[s] \in Nat
      <4>1. PICK p, q \in Nat : p = w[c] /\ q = g[s \ {c}] BY <3>3
      <4>2. QED BY <3>2, <4>1
    <3>6. Good(s) BY <3>2, <3>4, <3>5
    <3>7. QED BY <3>6
  <2>4. QED BY <2>2, <2>3
<1>2. \A s \in SUBSET S : s \in P
  <2> HIDE DEF P
  <2>1. QED BY <1>1, SubsetInduction
<1>3. QED BY <1>2 DEF AnyOrder

\* What a sum is: nothing for none, and any one value and the sum of the others.
LEMMA SumFacts ==
    ASSUME NEW w, NEW S, IsFiniteSet(S), \A r \in S : w[r] \in Nat
    PROVE  /\ SumOf(w, {}) = 0 /\ SumOf(w, S) \in Nat
           /\ \A x \in S : SumOf(w, S \ {x}) \in Nat
                /\ SumOf(w, S) = SumOf(w, S \ {x}) + w[x]
<1>1. ASSUME NEW T \in SUBSET S
      PROVE  \E g : Sums(w, T, g) /\ SumOf(w, T) = g[T] /\ IsFiniteSet(T)
  <2>1. IsFiniteSet(T) BY FS_Subset
  <2>2. Sums(w, T, CHOOSE g : Sums(w, T, g)) BY <2>1, SumsExist
  <2>3. QED BY <2>1, <2>2, SumOfIsSum
<1>2. PICK g : Sums(w, S, g) /\ SumOf(w, S) = g[S] BY <1>1
<1>3. \A T \in SUBSET S : SumOf(w, T) = g[T]
  <2>1. TAKE T \in SUBSET S
  <2>2. PICK h : Sums(w, T, h) /\ SumOf(w, T) = h[T] /\ IsFiniteSet(T) BY <1>1
  <2>3. h[T] = g[T] BY <1>2, <2>2, SumsAgree
  <2>4. QED BY <2>2, <2>3
<1>4. AnyOrder(w, S, g) BY <1>2, SumsCommute
<1>5. SumOf(w, {}) = 0
  <2>1. {} \in SUBSET S OBVIOUS
  <2>2. g[{}] = 0 BY <1>2, <2>1, SumsAt
  <2>3. QED BY <1>3, <2>1, <2>2
<1>6. ASSUME NEW x \in S
      PROVE  SumOf(w, S \ {x}) \in Nat
             /\ SumOf(w, S) = SumOf(w, S \ {x}) + w[x]
  <2>1. S \ {x} \in SUBSET S /\ S \in SUBSET S OBVIOUS
  <2>2. g[S \ {x}] \in Nat /\ g[S] = w[x] + g[S \ {x}] BY <1>4, <2>1 DEF AnyOrder
  <2>3. PICK p, q \in Nat : p = w[x] /\ q = g[S \ {x}] BY <2>2
  <2>4. p + q = q + p OBVIOUS
  <2>5. SumOf(w, S) = g[S] /\ SumOf(w, S \ {x}) = g[S \ {x}] BY <1>3, <2>1
  <2>6. QED BY <2>2, <2>3, <2>4, <2>5
<1>7. SumOf(w, S) \in Nat BY <1>3, <1>4 DEF AnyOrder
<1>8. QED BY <1>5, <1>6, <1>7

\* Functions that agree on a set have the same sum over it.
LEMMA SumAgrees ==
    ASSUME NEW w, NEW v, NEW S, IsFiniteSet(S),
           \A r \in S : w[r] = v[r]
    PROVE  SumOf(w, S) = SumOf(v, S)
<1>1. Sums(w, S, CHOOSE g : Sums(w, S, g)) BY SumsExist
<1>2. Sums(v, S, CHOOSE g : Sums(v, S, g)) BY SumsExist
<1>3. QED BY <1>1, <1>2, SumsAgree, SumOfIsSum

\* Sets with nothing in common are counted one after the other.
LEMMA CountDisjoint ==
    ASSUME NEW A, NEW B, IsFiniteSet(A), IsFiniteSet(B), A \cap B = {}
    PROVE  /\ IsFiniteSet(A \cup B)
           /\ Cardinality(A) \in Nat /\ Cardinality(B) \in Nat
           /\ Cardinality(A \cup B) = Cardinality(A) + Cardinality(B)
<1>1. /\ IsFiniteSet(A \cup B)
      /\ Cardinality(A \cup B) = Cardinality(A) + Cardinality(B) - Cardinality(A \cap B)
  BY FS_Union
<1>2. Cardinality(A \cap B) = 0 BY FS_EmptySet
<1>3. Cardinality(A) \in Nat /\ Cardinality(B) \in Nat BY FS_CardinalityType
<1>4. QED BY <1>1, <1>2, <1>3

\* The members of a finite set, counted by class.
LEMMA CountByClass ==
    ASSUME NEW D, IsFiniteSet(D), NEW I, IsFiniteSet(I), NEW f, NEW w,
           \A k \in D : f[k] \in I,
           \A i \in I : w[i] = Cardinality({k \in D : f[k] = i})
    PROVE  SumOf(w, I) = Cardinality(D)
<1> DEFINE In(s) == {k \in D : f[k] \in s}
           Of(i) == {k \in D : f[k] = i}
           P == {s \in SUBSET I : SumOf(w, s) = Cardinality(In(s))}
<1>1. \A s : IsFiniteSet(In(s)) /\ Cardinality(In(s)) \in Nat
  BY FS_Subset, FS_CardinalityType
<1>2. \A i \in I : IsFiniteSet(Of(i)) /\ Cardinality(Of(i)) \in Nat /\ w[i] = Cardinality(Of(i))
  BY FS_Subset, FS_CardinalityType
<1>3. ASSUME NEW s \in SUBSET I, \A t \in SUBSET s : t # s => t \in P PROVE s \in P
  <2>1. IsFiniteSet(s) /\ \A r \in s : w[r] \in Nat BY <1>2, FS_Subset
  <2>2. /\ SumOf(w, {}) = 0
        /\ \A x \in s : SumOf(w, s \ {x}) \in Nat /\ SumOf(w, s) = SumOf(w, s \ {x}) + w[x]
    BY <2>1, SumFacts
  <2>3. CASE s = {}
    <3>1. In(s) = {} BY <2>3
    <3>2. QED BY <2>2, <2>3, <3>1, FS_EmptySet
  <2>4. CASE s # {}
    <3>1. PICK x \in s : TRUE BY <2>4
    <3>2. s \ {x} \in P BY <1>3
    <3>3. In(s) = In(s \ {x}) \cup Of(x) /\ In(s \ {x}) \cap Of(x) = {} OBVIOUS
    <3>4. IsFiniteSet(In(s \ {x})) /\ IsFiniteSet(Of(x)) BY <1>1, <1>2
    <3> HIDE DEF In, Of
    <3>5. Cardinality(In(s)) = Cardinality(In(s \ {x})) + Cardinality(Of(x))
      BY <3>3, <3>4, CountDisjoint
    <3>6. SumOf(w, s \ {x}) = Cardinality(In(s \ {x})) BY <3>2
    <3>7. QED BY <1>2, <2>2, <3>5, <3>6
  <2>5. QED BY <2>3, <2>4
<1>4. \A s \in SUBSET I : s \in P
  <2> HIDE DEF P
  <2>1. QED BY <1>3, SubsetInduction
<1>5. SumOf(w, I) = Cardinality(In(I)) BY <1>4
<1>6. In(I) = D OBVIOUS
<1>7. QED BY <1>5, <1>6

=============================================================================
