----------------------------- MODULE ListFacts -----------------------------
(***************************************************************************)
(* Facts for the other proofs: remainders; finite sets of natural numbers, *)
(* their least element and the rank of an element; and what putting a node *)
(* in and erasing nodes does to a list, where the surviving positions are  *)
(* counted by rank.                                                        *)
(***************************************************************************)
EXTENDS ListErase, Integers, FiniteSetTheorems, SequenceTheorems, TLAPS

\* The remainder of a number that passes n at most once.
LEMMA ModuloOnce ==
    ASSUME NEW n \in Nat, n >= 1, NEW x \in Nat
    PROVE  /\ x < n => x % n = x
           /\ n <= x /\ x < 2 * n => x % n = x - n
<1>1. ASSUME x < n PROVE x % n = x
  BY <1>1
<1>2. ASSUME n <= x, x < 2 * n PROVE x % n = x - n
  BY <1>2
<1> QED
  BY <1>1, <1>2

\* Quotient and remainder.
LEMMA Division ==
    ASSUME NEW n \in Nat, n >= 1, NEW x \in Int
    PROVE  x \div n \in Int /\ x % n \in 0..(n - 1) /\ x = n * (x \div n) + (x % n)
  OBVIOUS

\* There is one quotient and one remainder.
LEMMA RemainderIs ==
    ASSUME NEW n \in Nat, n >= 1, NEW k \in Int, NEW r \in 0..(n - 1)
    PROVE  (n * k + r) % n = r /\ (n * k + r) \div n = k
<1> DEFINE x == n * k + r
<1>1. n * k \in Int /\ x \in Int /\ r \in Int
  OBVIOUS
<1>2. PICK l \in Int, s \in 0..(n - 1) : l = x \div n /\ s = x % n /\ x = n * l + s
  <2> HIDE DEF x
  <2> QED  BY <1>1, Division
<1>3. n * (k - l) = s - r
  BY <1>2
<1>4. k = l
  <2>1. CASE k < l
    <3>1. n * (k - l) <= n * (-1)
      BY <2>1
    <3> QED  BY <3>1, <1>3
  <2>2. CASE l < k
    <3>1. n * 1 <= n * (k - l)
      BY <2>2
    <3> QED  BY <3>1, <1>3
  <2> QED  BY <2>1, <2>2
<1> QED
  BY <1>2, <1>3, <1>4

\* A remainder may be taken before an addition or after it.
LEMMA RemainderOfSum ==
    ASSUME NEW n \in Nat, n >= 1, NEW a \in Int, NEW b \in Int
    PROVE  ((a % n) + b) % n = (a + b) % n
<1>1. PICK k \in Int, r \in 0..(n - 1) : r = a % n /\ a = n * k + r
  BY Division
<1>2. PICK l \in Int, s \in 0..(n - 1) : s = (a + b) % n /\ a + b = n * l + s
  <2>1. a + b \in Int
    OBVIOUS
  <2> QED  BY <2>1, Division
<1>3. r + b = n * (l - k) + s
  <2> DEFINE u == n * k  v == n * l  w == n * (l - k)
  <2>1. u \in Int /\ v \in Int /\ w = v - u
    OBVIOUS
  <2>2. a = u + r /\ a + b = v + s
    BY <1>1, <1>2
  <2> HIDE DEF u, v, w
  <2>3. r + b = w + s
    BY <2>1, <2>2
  <2> QED  BY <2>3 DEF w
<1>4. (n * (l - k) + s) % n = s
  <2>1. l - k \in Int
    OBVIOUS
  <2> QED  BY <2>1, RemainderIs
<1> QED
  BY <1>1, <1>2, <1>3, <1>4

\* The difference of two remainders gives away a small difference.
LEMMA RemainderOfDifference ==
    ASSUME NEW n \in Nat, n >= 1, NEW a \in Int, NEW b \in Int
    PROVE  /\ (0 <= a - b /\ a - b < n) => ((a % n) - (b % n)) % n = a - b
           /\ (-n <= a - b /\ a - b < 0) => ((a % n) - (b % n)) % n = a - b + n
<1>1. PICK k \in Int, r \in 0..(n - 1) : r = a % n /\ a = n * k + r
  BY Division
<1>2. PICK l \in Int, s \in 0..(n - 1) : s = b % n /\ b = n * l + s
  BY Division
<1>3. ASSUME 0 <= a - b, a - b < n PROVE ((a % n) - (b % n)) % n = a - b
  <2> DEFINE d == a - b  m == l - k
  <2>1. r - s = n * m + d
    BY <1>1, <1>2
  <2>2. d \in 0..(n - 1) /\ m \in Int
    BY <1>3
  <2>3. (n * m + d) % n = d
    <3> HIDE DEF d, m
    <3> QED  BY <2>2, RemainderIs
  <2> QED  BY <1>1, <1>2, <2>1, <2>3
<1>4. ASSUME -n <= a - b, a - b < 0 PROVE ((a % n) - (b % n)) % n = a - b + n
  <2> DEFINE d == a - b + n  m == l - k - 1
  <2>1. r - s = n * m + d
    BY <1>1, <1>2
  <2>2. d \in 0..(n - 1) /\ m \in Int
    BY <1>4
  <2>3. (n * m + d) % n = d
    <3> HIDE DEF d, m
    <3> QED  BY <2>2, RemainderIs
  <2> QED  BY <1>1, <1>2, <2>1, <2>3
<1> QED
  BY <1>3, <1>4

\* 1..n has n elements.
LEMMA IntervalSize ==
    ASSUME NEW n \in Nat
    PROVE  IsFiniteSet(1..n) /\ Cardinality(1..n) = n
<1>1. 1 \in Int /\ n \in Int
  OBVIOUS
<1>2. IsFiniteSet(1..n) /\ Cardinality(1..n) = IF 1 > n THEN 0 ELSE n - 1 + 1
  BY <1>1, FS_Interval
<1> QED
  BY <1>2

\* How many elements of K are below i.
RankIn(K, i) == Cardinality({j \in K : j < i})

\* The rank in a finite set of numbers grows with the number.
LEMMA RankGrows ==
    ASSUME NEW K \in SUBSET Nat, IsFiniteSet(K), NEW i \in K, NEW j \in K, i < j
    PROVE  /\ RankIn(K, i) \in Nat /\ RankIn(K, j) \in Nat
           /\ RankIn(K, i) < RankIn(K, j)
           /\ RankIn(K, j) < Cardinality(K)
<1> DEFINE A == {x \in K : x < i}  B == {x \in K : x < j}
<1>1. A \in SUBSET B /\ B \in SUBSET K /\ A \in SUBSET K
  <2>1. \A x \in K : x < i => x < j
    OBVIOUS
  <2> QED  BY <2>1, Zenon
<1>2. i \in B /\ i \notin A /\ j \notin B
  OBVIOUS
<1>3. IsFiniteSet(A) /\ IsFiniteSet(B)
  BY <1>1, FS_Subset
<1>4. Cardinality(A) \in Nat /\ Cardinality(B) \in Nat /\ Cardinality(K) \in Nat
  BY <1>3, FS_CardinalityType
<1>5. Cardinality(A) <= Cardinality(B) /\ Cardinality(A) # Cardinality(B)
  <2> HIDE DEF A, B
  <2> QED  BY <1>1, <1>2, <1>3, FS_Subset
<1>6. Cardinality(B) <= Cardinality(K) /\ Cardinality(B) # Cardinality(K)
  <2> HIDE DEF A, B
  <2> QED  BY <1>1, <1>2, <1>3, FS_Subset
<1> QED
  BY <1>4, <1>5, <1>6 DEF RankIn

\* Ranks in a finite set of numbers are below its size.
LEMMA RankType ==
    ASSUME NEW K \in SUBSET Nat, IsFiniteSet(K), NEW i \in K
    PROVE  RankIn(K, i) \in 0..(Cardinality(K) - 1)
<1> DEFINE A == {x \in K : x < i}
<1>1. A \in SUBSET K /\ i \notin A
  OBVIOUS
<1>2. IsFiniteSet(A) /\ Cardinality(A) <= Cardinality(K) /\ Cardinality(A) # Cardinality(K)
  <2> HIDE DEF A
  <2> QED  BY <1>1, FS_Subset
<1>3. Cardinality(A) \in Nat /\ Cardinality(K) \in Nat
  BY <1>2, FS_CardinalityType
<1> QED
  BY <1>2, <1>3 DEF RankIn

\* Every k up to the size of the set is the rank of one of its elements.
LEMMA RankOnto ==
    ASSUME NEW K \in SUBSET Nat, IsFiniteSet(K), NEW k \in 1..Cardinality(K)
    PROVE  \E i \in K : RankIn(K, i) = k - 1
<1> DEFINE c == Cardinality(K)
           T == 0..(c - 1)
           f == [i \in K |-> RankIn(K, i)]
<1>1. c \in Nat
  BY FS_CardinalityType
<1>2. f \in [K -> T]
  BY RankType
<1>3. \A i, j \in K : f[i] = f[j] => i = j
  <2> SUFFICES ASSUME NEW i \in K, NEW j \in K, i # j PROVE RankIn(K, i) # RankIn(K, j)
    OBVIOUS
  <2>1. CASE i < j  BY <2>1, RankGrows
  <2>2. CASE j < i  BY <2>2, RankGrows
  <2> QED  BY <2>1, <2>2
<1>4. f \in Injection(K, T)
  <2> HIDE DEF f, T
  <2> QED  BY <1>2, <1>3 DEF Injection, IsInjective
<1>5. IsFiniteSet(T) /\ Cardinality(T) = c
  <2>1. 0 \in Int /\ c - 1 \in Int
    BY <1>1
  <2>2. IsFiniteSet(0..(c - 1)) /\ Cardinality(0..(c - 1)) = IF 0 > c - 1 THEN 0 ELSE c - 1 - 0 + 1
    <3> HIDE DEF c
    <3> QED  BY <2>1, FS_Interval
  <2>3. (IF 0 > c - 1 THEN 0 ELSE c - 1 - 0 + 1) = c
    BY <1>1
  <2> QED  BY <2>2, <2>3
<1>6. f \in Surjection(K, T)
  <2> HIDE DEF f, T
  <2> QED  BY <1>4, <1>5, FS_Injection
<1>7. k - 1 \in T
  BY <1>1
<1>8. \E i \in K : f[i] = k - 1
  <2> HIDE DEF f, T
  <2> QED  BY <1>6, <1>7 DEF Surjection
<1> QED
  BY <1>8

\* A nonempty set of numbers has a least element.
LEMMA LeastNumber ==
    ASSUME NEW T \in SUBSET Nat, T # {}
    PROVE  \E x \in T : \A y \in T : x <= y
<1> DEFINE R == OpToRel(<, Nat)
<1>1. IsWellFoundedOn(R, Nat)
  BY NatLessThanWellFounded
<1>2. PICK x \in T : \A y \in T : ~(<<y, x>> \in R)
  <2> HIDE DEF R
  <2> QED  BY <1>1, WFMin
<1>3. \A y \in T : ~(y < x)
  BY <1>2 DEF OpToRel
<1> QED
  BY <1>3

\* A set of first numbers is an interval.
LEMMA FirstNumbers ==
    ASSUME NEW n \in Nat, NEW A \in SUBSET (1..n), \A i \in A : \A j \in 1..n : j < i => j \in A
    PROVE  Cardinality(A) \in 0..n /\ A = 1..Cardinality(A)
<1> DEFINE T == {k \in 1..(n + 1) : k \notin A}
<1>1. T \in SUBSET Nat /\ n + 1 \in T
  OBVIOUS
<1>2. PICK m \in T : \A y \in T : m <= y
  <2> HIDE DEF T
  <2> QED  BY <1>1, LeastNumber
<1>3. m \in 1..(n + 1) /\ m \notin A
  OBVIOUS
<1>4. A = 1..(m - 1)
  <2>1. ASSUME NEW i \in 1..(m - 1) PROVE i \in A
    <3>1. i \in 1..(n + 1) /\ ~(m <= i)
      BY <1>3
    <3> QED  BY <1>2, <3>1
  <2>2. ASSUME NEW i \in A PROVE i \in 1..(m - 1)
    <3>1. i # m /\ ~(m < i)
      BY <1>3
    <3> QED  BY <1>3, <3>1
  <2> QED  BY <2>1, <2>2
<1>5. Cardinality(1..(m - 1)) = m - 1
  BY <1>3, IntervalSize
<1> QED
  BY <1>3, <1>4, <1>5

-----------------------------------------------------------------------------
(* Lists *)

\* Putting n before position p, or at the end.
IsInserted(r, q, p, n) == r = SubSeq(q, 1, p - 1) \o <<n>> \o SubSeq(q, p, Len(q))

\* The elements of a list with one more in front of its p-th.
LEMMA InsertedAt ==
    ASSUME NEW S, NEW q \in Seq(S), NEW n \in S, NEW p \in 1..(Len(q) + 1),
           NEW t, IsInserted(t, q, p, n)
    PROVE  /\ t \in Seq(S)
           /\ Len(t) = Len(q) + 1
           /\ \A i \in 1..(Len(q) + 1) :
                t[i] = IF i < p THEN q[i] ELSE IF i = p THEN n ELSE q[i - 1]
<1> DEFINE front == SubSeq(q, 1, p - 1)  back == SubSeq(q, p, Len(q))
<1>0. Len(q) \in Nat /\ p \in Nat
  BY LenProperties
<1>1. front \in Seq(S) /\ Len(front) = p - 1 /\ \A i \in 1..(p - 1) : front[i] = q[i]
  BY <1>0, SubSeqProperties
<1>2. back \in Seq(S) /\ Len(back) = Len(q) - p + 1
      /\ \A i \in 1..(Len(q) - p + 1) : back[i] = q[p + i - 1]
  BY <1>0, SubSeqProperties
<1> HIDE DEF front, back
<1>3. /\ front \o <<n>> \in Seq(S) /\ Len(front \o <<n>>) = p
      /\ \A i \in 1..p : (front \o <<n>>)[i] = IF i < p THEN q[i] ELSE n
  BY <1>0, <1>1, ConcatProperties
<1> DEFINE c == front \o <<n>>
           r == c \o back
<1>4. c \in Seq(S) /\ Len(c) = p /\ \A i \in 1..p : c[i] = IF i < p THEN q[i] ELSE n
  BY <1>3
<1> HIDE DEF c
<1>5. /\ r \in Seq(S) /\ Len(r) = Len(c) + Len(back)
      /\ \A i \in 1..(Len(c) + Len(back)) : r[i] = IF i <= Len(c) THEN c[i] ELSE back[i - Len(c)]
  BY <1>2, <1>4, ConcatProperties
<1> HIDE DEF r
<1>6. Len(c) + Len(back) = Len(q) + 1
  BY <1>0, <1>2, <1>4
<1>7. ASSUME NEW i \in 1..(Len(q) + 1)
      PROVE  r[i] = IF i < p THEN q[i] ELSE IF i = p THEN n ELSE q[i - 1]
  <2>1. CASE i <= p
    BY <1>0, <1>4, <1>5, <1>6, <2>1
  <2>2. CASE i > p
    <3>1. r[i] = back[i - p]
      BY <1>0, <1>4, <1>5, <1>6, <2>2
    <3>2. i - p \in 1..(Len(q) - p + 1) /\ p + (i - p) - 1 = i - 1
      BY <1>0, <2>2
    <3> QED  BY <1>0, <1>2, <2>2, <3>1, <3>2
  <2> QED  BY <1>0, <2>1, <2>2
<1>8. t = r
  BY Zenon DEF IsInserted, r, c, front, back
<1> QED
  BY <1>5, <1>6, <1>7, <1>8

\* Position k of the list that KeepPlaces leaves is taken from the position of
\* rank k - 1 in K, and every position of K is taken.
LEMMA KeptPlaces ==
    ASSUME NEW S, NEW q \in Seq(S), NEW K \in SUBSET (1..Len(q))
    PROVE  LET r == KeepPlaces(q, K)
           IN  /\ r \in Seq(S)
               /\ Len(r) = Cardinality(K) /\ Len(r) <= Len(q)
               /\ \E f \in [1..Len(r) -> K] :
                    /\ \A k \in 1..Len(r) : RankIn(K, f[k]) = k - 1 /\ r[k] = q[f[k]]
                    /\ \A i \in K : \E k \in 1..Len(r) : f[k] = i
<1> DEFINE r == KeepPlaces(q, K)
           pos(k) == CHOOSE i \in K : Cardinality({j \in K : j < i}) = k - 1
           f == [k \in 1..Len(r) |-> pos(k)]
<1>0. Len(q) \in Nat /\ \A i \in 1..Len(q) : q[i] \in S
  BY LenProperties, ElementOfSeq
<1>1. K \in SUBSET Nat
  BY <1>0
<1>2. IsFiniteSet(1..Len(q)) /\ Cardinality(1..Len(q)) = Len(q)
  BY <1>0, IntervalSize
<1>3. IsFiniteSet(K) /\ Cardinality(K) <= Len(q) /\ Cardinality(K) \in Nat
  <2>1. IsFiniteSet(K) /\ Cardinality(K) <= Len(q)
    BY <1>2, FS_Subset
  <2> QED  BY <2>1, FS_CardinalityType
<1>4. r = [k \in 1..Cardinality(K) |-> q[pos(k)]]
  BY DEF KeepPlaces
<1> HIDE DEF r
<1>5. \A k \in 1..Cardinality(K) : pos(k) \in K /\ RankIn(K, pos(k)) = k - 1
  <2> SUFFICES ASSUME NEW k \in 1..Cardinality(K)
               PROVE  pos(k) \in K /\ RankIn(K, pos(k)) = k - 1
    OBVIOUS
  <2>1. \E i \in K : Cardinality({j \in K : j < i}) = k - 1
    BY <1>1, <1>3, RankOnto DEF RankIn
  <2> QED  BY <2>1 DEF RankIn
<1> HIDE DEF pos
<1>6. \A k \in 1..Cardinality(K) : q[pos(k)] \in S
  BY <1>5, <1>0
<1>7. r \in Seq(S) /\ Len(r) = Cardinality(K)
  BY <1>4, <1>6, <1>3
<1>8. f \in [1..Len(r) -> K] /\ \A k \in 1..Len(r) : RankIn(K, f[k]) = k - 1 /\ r[k] = q[f[k]]
  BY <1>4, <1>5, <1>7
<1>9. ASSUME NEW i \in K
      PROVE  \E k \in 1..Len(r) : f[k] = i
  <2>1. RankIn(K, i) \in 0..(Cardinality(K) - 1)
    BY <1>1, <1>3, RankType
  <2> DEFINE k == RankIn(K, i) + 1
  <2>2. k \in 1..Cardinality(K) /\ RankIn(K, i) = k - 1
    BY <2>1, <1>3
  <2> HIDE DEF k
  <2>3. pos(k) \in K /\ RankIn(K, pos(k)) = RankIn(K, i)
    BY <2>2, <1>5
  <2>4. pos(k) = i
    <3>1. pos(k) < i => RankIn(K, pos(k)) < RankIn(K, i)
      BY <2>3, <1>1, <1>3, RankGrows
    <3>2. i < pos(k) => RankIn(K, i) < RankIn(K, pos(k))
      BY <2>3, <1>1, <1>3, RankGrows
    <3>3. RankIn(K, i) \in Int /\ i \in Int /\ pos(k) \in Int
      <4>1. i \in Nat /\ pos(k) \in Nat
        BY <2>3, <1>1
      <4> QED  BY <4>1, <2>1, <1>3
    <3> QED  BY <3>1, <3>2, <3>3, <2>3
  <2> QED  BY <2>2, <2>4, <1>7
<1>10. Len(r) <= Len(q)
  BY <1>3, <1>7
<1> HIDE DEF f
<1> QED
  BY <1>7, <1>8, <1>9, <1>10 DEF r

\* Its consequence for the elements: those left were at places of K, and the
\* elements at the places of K are left.
LEMMA KeptElements ==
    ASSUME NEW S, NEW q \in Seq(S), NEW K \in SUBSET (1..Len(q))
    PROVE  /\ KeepPlaces(q, K) \in Seq(S)
           /\ \A k \in 1..Len(KeepPlaces(q, K)) : \E i \in K : KeepPlaces(q, K)[k] = q[i]
           /\ \A i \in K : \E k \in 1..Len(KeepPlaces(q, K)) : KeepPlaces(q, K)[k] = q[i]
<1> DEFINE r == KeepPlaces(q, K)
<1>1. /\ r \in Seq(S)
      /\ \E f \in [1..Len(r) -> K] :
            /\ \A k \in 1..Len(r) : RankIn(K, f[k]) = k - 1 /\ r[k] = q[f[k]]
            /\ \A i \in K : \E k \in 1..Len(r) : f[k] = i
  BY KeptPlaces
<1> HIDE DEF r
<1>2. \A k \in 1..Len(r) : \E i \in K : r[k] = q[i]
  BY <1>1
<1>3. \A i \in K : \E k \in 1..Len(r) : r[k] = q[i]
  BY <1>1
<1> QED
  BY <1>1, <1>2, <1>3 DEF r

\* How many of the places in K of a list have an element of P.
CountAt(q, K, P) == Cardinality({i \in K : q[i] \in P})

\* r has the elements of q at the places in K, f says which where.
IsTakenFrom(r, q, K, f) ==
    /\ f \in [1..Len(r) -> K]
    /\ \A k \in 1..Len(r) : r[k] = q[f[k]]
    /\ \A k, m \in 1..Len(r) : f[k] = f[m] => k = m
    /\ \A i \in K : \E k \in 1..Len(r) : f[k] = i

\* Keeping some places of a list keeps as many elements of P as there were at
\* those places.
LEMMA CountKept ==
    ASSUME NEW S, NEW q \in Seq(S), NEW r \in Seq(S), NEW K \in SUBSET (1..Len(q)), NEW P,
           NEW f, IsTakenFrom(r, q, K, f)
    PROVE  CountAt(r, 1..Len(r), P) = CountAt(q, K, P)
<1> USE DEF IsTakenFrom
<1> DEFINE A == {k \in 1..Len(r) : r[k] \in P}
           B == {i \in K : q[i] \in P}
           g == [k \in A |-> f[k]]
<1>1. IsFiniteSet(A)
  <2>1. IsFiniteSet(1..Len(r))
    BY IntervalSize, LenProperties
  <2> QED  BY <2>1, FS_Subset
<1>2. g \in [A -> B]
  OBVIOUS
<1>3. \A k, m \in A : g[k] = g[m] => k = m
  OBVIOUS
<1>4. ASSUME NEW i \in B PROVE \E k \in A : g[k] = i
  <2>1. PICK k \in 1..Len(r) : f[k] = i
    OBVIOUS
  <2>2. r[k] = q[i]
    BY <2>1
  <2>3. k \in A /\ g[k] = i
    BY <2>1, <2>2
  <2> QED  BY <2>3
<1> HIDE DEF A, B, g
<1>5. g \in Bijection(A, B)
  BY <1>2, <1>3, <1>4 DEF Bijection, Injection, Surjection, IsInjective
<1>6. ExistsBijection(A, B)
  BY <1>5 DEF ExistsBijection
<1> QED
  BY <1>1, <1>6, FS_Bijection DEF A, B, CountAt

\* The same for KeepPlaces.
LEMMA CountOfKept ==
    ASSUME NEW S, NEW q \in Seq(S), NEW K \in SUBSET (1..Len(q)), NEW P
    PROVE  CountAt(KeepPlaces(q, K), 1..Len(KeepPlaces(q, K)), P) = CountAt(q, K, P)
<1> DEFINE r == KeepPlaces(q, K)
<1>1. /\ r \in Seq(S)
      /\ \E f \in [1..Len(r) -> K] :
            /\ \A k \in 1..Len(r) : RankIn(K, f[k]) = k - 1 /\ r[k] = q[f[k]]
            /\ \A i \in K : \E k \in 1..Len(r) : f[k] = i
  BY KeptPlaces
<1> HIDE DEF r
<1>2. PICK f \in [1..Len(r) -> K] :
            /\ \A k \in 1..Len(r) : RankIn(K, f[k]) = k - 1 /\ r[k] = q[f[k]]
            /\ \A i \in K : \E k \in 1..Len(r) : f[k] = i
  BY <1>1
<1>3. ASSUME NEW k \in 1..Len(r), NEW m \in 1..Len(r), f[k] = f[m] PROVE k = m
  <2>1. k - 1 = m - 1
    BY <1>2, <1>3
  <2> QED  BY <2>1
<1>4. \A k \in 1..Len(r) : r[k] = q[f[k]]
  BY <1>2
<1>5. \A i \in K : \E k \in 1..Len(r) : f[k] = i
  BY <1>2
<1>6. CountAt(r, 1..Len(r), P) = CountAt(q, K, P)
  <2>1. IsTakenFrom(r, q, K, f)
    BY <1>3, <1>4, <1>5 DEF IsTakenFrom
  <2> QED  BY <1>1, <2>1, CountKept
<1> QED
  BY <1>6 DEF r

\* RemoveAt, and what it leaves.
IsRemoved(t, q, p) == t = SubSeq(q, 1, p - 1) \o SubSeq(q, p + 1, Len(q))

\* The elements of a list without its p-th.
LEMMA RemovedList ==
    ASSUME NEW S, NEW q \in Seq(S), NEW p \in 1..Len(q), NEW t, IsRemoved(t, q, p)
    PROVE  /\ t \in Seq(S) /\ Len(t) = Len(q) - 1
           /\ \A k \in 1..(Len(q) - 1) : t[k] = IF k < p THEN q[k] ELSE q[k + 1]
<1> DEFINE front == SubSeq(q, 1, p - 1)  back == SubSeq(q, p + 1, Len(q))  r == front \o back
<1>0. Len(q) \in Nat /\ p \in Nat
  BY LenProperties
<1>1. front \in Seq(S) /\ Len(front) = p - 1 /\ \A i \in 1..(p - 1) : front[i] = q[i]
  BY <1>0, SubSeqProperties
<1>2. back \in Seq(S) /\ Len(back) = Len(q) - p /\ \A i \in 1..(Len(q) - p) : back[i] = q[p + i]
  <2>1. CASE p < Len(q)
    BY <1>0, <2>1, SubSeqProperties
  <2>2. CASE p = Len(q)
    BY <1>0, <2>2, SubSeqProperties
  <2> QED  BY <1>0, <2>1, <2>2
<1> HIDE DEF front, back
<1>3. /\ r \in Seq(S) /\ Len(r) = Len(front) + Len(back)
      /\ \A i \in 1..(Len(front) + Len(back)) : r[i] = IF i <= Len(front) THEN front[i] ELSE back[i - Len(front)]
  BY <1>1, <1>2, ConcatProperties
<1> HIDE DEF r
<1>4. Len(r) = Len(q) - 1
  BY <1>0, <1>1, <1>2, <1>3
<1>5. ASSUME NEW k \in 1..(Len(q) - 1) PROVE r[k] = IF k < p THEN q[k] ELSE q[k + 1]
  <2>0. k \in 1..(Len(front) + Len(back))
    BY <1>0, <1>1, <1>2
  <2>1. r[k] = IF k <= Len(front) THEN front[k] ELSE back[k - Len(front)]
    BY <1>3, <2>0
  <2>2. CASE k < p
    BY <1>0, <1>1, <2>1, <2>2
  <2>3. CASE k >= p
    <3>1. r[k] = back[k - (p - 1)] /\ k - (p - 1) \in 1..(Len(q) - p)
      BY <1>0, <1>1, <2>1, <2>3
    <3>2. p + (k - (p - 1)) = k + 1
      BY <1>0
    <3> QED  BY <1>0, <1>2, <3>1, <3>2, <2>3
  <2> QED  BY <1>0, <2>2, <2>3
<1>6. t = r
  BY Zenon DEF IsRemoved, r, front, back
<1> QED
  BY <1>3, <1>4, <1>5, <1>6

\* Removing a place from a list lowers the count of what was there.
LEMMA CountRemoved ==
    ASSUME NEW S, NEW q \in Seq(S), NEW p \in 1..Len(q), NEW P, NEW r, IsRemoved(r, q, p)
    PROVE  CountAt(r, 1..Len(r), P) = CountAt(q, 1..Len(q), P) - (IF q[p] \in P THEN 1 ELSE 0)
<1>0. Len(q) \in Nat /\ p \in Nat
  BY LenProperties
<1>3. r \in Seq(S)
  BY RemovedList
<1>4. Len(r) = Len(q) - 1
  BY RemovedList
<1>5. \A k \in 1..(Len(q) - 1) : r[k] = IF k < p THEN q[k] ELSE q[k + 1]
  BY RemovedList
<1> DEFINE K == (1..Len(q)) \ {p}  f == [k \in 1..Len(r) |-> IF k < p THEN k ELSE k + 1]
<1>6. f \in [1..Len(r) -> K]
  BY <1>0, <1>4
<1>7. \A k \in 1..Len(r) : r[k] = q[f[k]]
  BY <1>0, <1>4, <1>5
<1>8. \A k, m \in 1..Len(r) : f[k] = f[m] => k = m
  BY <1>0, <1>4
<1>9. ASSUME NEW i \in K PROVE \E k \in 1..Len(r) : f[k] = i
  <2>1. CASE i < p
    <3>1. i \in 1..Len(r) /\ f[i] = i
      BY <1>0, <1>4, <2>1
    <3> QED  BY <3>1
  <2>2. CASE i > p
    <3>1. i - 1 \in 1..Len(r) /\ f[i - 1] = i
      BY <1>0, <1>4, <2>2
    <3> QED  BY <3>1
  <2> QED  BY <1>0, <2>1, <2>2
<1>10. K \in SUBSET (1..Len(q))
  OBVIOUS
<1> DEFINE A == {i \in 1..Len(q) : q[i] \in P}  B == {i \in K : q[i] \in P}
<1>11. B = A \ {p} /\ (p \in A <=> q[p] \in P)
  OBVIOUS
<1>12. IsFiniteSet(A)
  <2>1. IsFiniteSet(1..Len(q))
    BY <1>0, IntervalSize
  <2> QED  BY <2>1, FS_Subset
<1> HIDE DEF K, f
<1>13. CountAt(r, 1..Len(r), P) = Cardinality(B)
  <2>1. r \in Seq(S)
    BY <1>3
  <2>2. CountAt(r, 1..Len(r), P) = CountAt(q, K, P)
    <3>1. IsTakenFrom(r, q, K, f)
      BY <1>6, <1>7, <1>8, <1>9 DEF IsTakenFrom
    <3> QED  BY <1>10, <2>1, <3>1, CountKept
  <2> QED  BY <2>2 DEF CountAt
<1> HIDE DEF A, B
<1>14. Cardinality(A \ {p}) = IF p \in A THEN Cardinality(A) - 1 ELSE Cardinality(A)
  BY <1>12, FS_RemoveElement
<1>15. Cardinality(A) \in Nat
  BY <1>12, FS_CardinalityType
<1>16. CountAt(r, 1..Len(r), P) = Cardinality(A) - (IF q[p] \in P THEN 1 ELSE 0)
  BY <1>11, <1>13, <1>14, <1>15
<1> QED
  BY <1>16 DEF A, CountAt

\* Adding one element, or a list of elements, to a list.
LEMMA CountAppended ==
    ASSUME NEW S, NEW q \in Seq(S), NEW e \in S, NEW P
    PROVE  /\ Append(q, e) \in Seq(S) /\ Len(Append(q, e)) = Len(q) + 1
           /\ \A i \in 1..Len(q) : Append(q, e)[i] = q[i]
           /\ Append(q, e)[Len(q) + 1] = e
           /\ CountAt(Append(q, e), 1..Len(Append(q, e)), P)
                = CountAt(q, 1..Len(q), P) + (IF e \in P THEN 1 ELSE 0)
<1> DEFINE r == Append(q, e)  A == {i \in 1..Len(q) : q[i] \in P}  B == {i \in 1..Len(r) : r[i] \in P}
           n == Len(q) + 1
<1>0. Len(q) \in Nat
  BY LenProperties
<1>1. r \in Seq(S) /\ Len(r) = Len(q) + 1 /\ r[n] = e /\ \A i \in 1..Len(q) : r[i] = q[i]
  BY <1>0, AppendProperties
<1> HIDE DEF r
<1>2. IsFiniteSet(A) /\ n \notin A
  <2>1. IsFiniteSet(1..Len(q))
    BY <1>0, IntervalSize
  <2>2. n \notin A
    BY <1>0
  <2> QED  BY <2>1, <2>2, FS_Subset
<1>3. B = IF e \in P THEN A \cup {n} ELSE A
  BY <1>0, <1>1
<1> HIDE DEF A, B, n
<1>4. Cardinality(A \cup {n}) = Cardinality(A) + 1 /\ Cardinality(A) \in Nat
  BY <1>2, FS_AddElement, FS_CardinalityType
<1>5. Cardinality(B) = Cardinality(A) + (IF e \in P THEN 1 ELSE 0)
  BY <1>3, <1>4
<1> QED
  BY <1>1, <1>5 DEF r, A, B, n, CountAt

\* Adding a list with no element of P, or with one.
LEMMA CountConcat ==
    ASSUME NEW S, NEW q \in Seq(S), NEW t \in Seq(S), NEW P
    PROVE  /\ q \o t \in Seq(S) /\ Len(q \o t) = Len(q) + Len(t)
           /\ \A i \in 1..Len(q) : (q \o t)[i] = q[i]
           /\ \A i \in 1..Len(t) : (q \o t)[Len(q) + i] = t[i]
           /\ (\A i \in 1..Len(t) : t[i] \notin P)
                => CountAt(q \o t, 1..Len(q \o t), P) = CountAt(q, 1..Len(q), P)
           /\ \A i \in 1..Len(t) :
                (t[i] \in P /\ \A k \in 1..Len(t) : t[k] \in P => k = i)
                => CountAt(q \o t, 1..Len(q \o t), P) = CountAt(q, 1..Len(q), P) + 1
<1> DEFINE r == q \o t  A == {i \in 1..Len(q) : q[i] \in P}  B == {i \in 1..Len(r) : r[i] \in P}
<1>0. Len(q) \in Nat /\ Len(t) \in Nat
  BY LenProperties
<1>1. /\ r \in Seq(S) /\ Len(r) = Len(q) + Len(t)
      /\ \A i \in 1..(Len(q) + Len(t)) : r[i] = IF i <= Len(q) THEN q[i] ELSE t[i - Len(q)]
  BY ConcatProperties
<1> HIDE DEF r
<1>2. \A i \in 1..Len(q) : r[i] = q[i]
  BY <1>0, <1>1
<1>3. ASSUME NEW i \in 1..Len(t) PROVE r[Len(q) + i] = t[i]
  <2>1. Len(q) + i \in 1..(Len(q) + Len(t)) /\ ~(Len(q) + i <= Len(q)) /\ (Len(q) + i) - Len(q) = i
    BY <1>0
  <2> QED  BY <1>1, <2>1
<1>4. \A j \in 1..Len(r) : j \in 1..Len(q) \/ \E i \in 1..Len(t) : j = Len(q) + i
  <2> SUFFICES ASSUME NEW j \in 1..Len(r), j \notin 1..Len(q) PROVE \E i \in 1..Len(t) : j = Len(q) + i
    OBVIOUS
  <2>1. j - Len(q) \in 1..Len(t) /\ j = Len(q) + (j - Len(q))
    BY <1>0, <1>1
  <2> QED  BY <2>1
<1>5. IsFiniteSet(A)
  <2>1. IsFiniteSet(1..Len(q))
    BY <1>0, IntervalSize
  <2> QED  BY <2>1, FS_Subset
<1>6. 1..Len(q) \subseteq 1..Len(r)
  BY <1>0, <1>1
<1>7. ASSUME \A i \in 1..Len(t) : t[i] \notin P PROVE Cardinality(B) = Cardinality(A)
  <2>1. B = A
    BY <1>2, <1>3, <1>4, <1>6, <1>7
  <2> QED  BY <2>1
<1>8. ASSUME NEW i \in 1..Len(t), t[i] \in P, \A k \in 1..Len(t) : t[k] \in P => k = i
      PROVE  Cardinality(B) = Cardinality(A) + 1
  <2> DEFINE n == Len(q) + i
  <2>1. n \in 1..Len(r) /\ n \notin 1..Len(q)
    BY <1>0, <1>1
  <2>2. n \in B
    BY <1>3, <1>8, <2>1
  <2>3. \A j \in B : j \in A \/ j = n
    BY <1>2, <1>3, <1>4, <1>8
  <2>4. A \subseteq B
    BY <1>2, <1>6
  <2>5. n \notin A
    BY <2>1
  <2> HIDE DEF n, A, B
  <2>6. B = A \cup {n}
    BY <2>2, <2>3, <2>4
  <2> QED  BY <1>5, <2>5, <2>6, FS_AddElement
<1> QED
  BY <1>1, <1>2, <1>3, <1>7, <1>8 DEF r, CountAt

\* Where the elements of two joined lists are.
LEMMA ConcatPlaces ==
    ASSUME NEW S, NEW q \in Seq(S), NEW t \in Seq(S)
    PROVE  /\ q \o t \in Seq(S) /\ Len(q \o t) = Len(q) + Len(t)
           /\ \A i \in 1..Len(q) : (q \o t)[i] = q[i]
           /\ \A i \in 1..Len(t) : (q \o t)[Len(q) + i] = t[i]
  BY CountConcat

\* Joining a list with none, or one, of the values counted.
LEMMA CountConcatNone ==
    ASSUME NEW S, NEW q \in Seq(S), NEW t \in Seq(S), NEW P, \A i \in 1..Len(t) : t[i] \notin P
    PROVE  CountAt(q \o t, 1..Len(q \o t), P) = CountAt(q, 1..Len(q), P)
  BY CountConcat

LEMMA CountConcatOne ==
    ASSUME NEW S, NEW q \in Seq(S), NEW t \in Seq(S), NEW P,
           NEW i \in 1..Len(t), t[i] \in P, \A k \in 1..Len(t) : t[k] \in P => k = i
    PROVE  CountAt(q \o t, 1..Len(q \o t), P) = CountAt(q, 1..Len(q), P) + 1
  BY CountConcat

\* A count is a number, positive when there is something to count and 0 when
\* there is not.
LEMMA CountType ==
    ASSUME NEW S, NEW q \in Seq(S), NEW P
    PROVE  CountAt(q, 1..Len(q), P) \in Nat
<1> DEFINE A == {i \in 1..Len(q) : q[i] \in P}
<1>1. IsFiniteSet(A)
  <2>1. IsFiniteSet(1..Len(q))
    BY LenProperties, IntervalSize
  <2> QED  BY <2>1, FS_Subset
<1>2. Cardinality(A) \in Nat
  <2> HIDE DEF A
  <2> QED  BY <1>1, FS_CardinalityType
<1> QED
  BY <1>2 DEF CountAt

\* A value is in a list exactly when it is counted there.
LEMMA CountSome ==
    ASSUME NEW S, NEW q \in Seq(S), NEW P
    PROVE  (\E i \in 1..Len(q) : q[i] \in P) <=> CountAt(q, 1..Len(q), P) > 0
<1> DEFINE A == {i \in 1..Len(q) : q[i] \in P}
<1>1. IsFiniteSet(A)
  <2>1. IsFiniteSet(1..Len(q))
    BY LenProperties, IntervalSize
  <2> QED  BY <2>1, FS_Subset
<1>2. Cardinality(A) \in Nat /\ (Cardinality(A) = 0 <=> A = {})
  <2> HIDE DEF A
  <2> QED  BY <1>1, FS_CardinalityType, FS_EmptySet
<1>3. (\E i \in 1..Len(q) : q[i] \in P) <=> Cardinality(A) > 0
  BY <1>2
<1> QED
  BY <1>3 DEF CountAt

\* A value that no place holds is not counted.
LEMMA CountNone ==
    ASSUME NEW S, NEW q \in Seq(S), NEW P, \A i \in 1..Len(q) : q[i] \notin P
    PROVE  CountAt(q, 1..Len(q), P) = 0
  BY CountSome, CountType

\* Nothing is in the empty list.
LEMMA CountEmpty ==
    ASSUME NEW P
    PROVE  CountAt(<<>>, 1..0, P) = 0 /\ CountAt(<<>>, 1..Len(<<>>), P) = 0
<1>1. {i \in 1..0 : <<>>[i] \in P} = {}
  OBVIOUS
<1>2. Len(<<>>) = 0
  BY EmptySeq
<1> QED
  BY <1>1, <1>2, FS_EmptySet DEF CountAt

\* Position k of the list that Erase leaves is taken from the surviving
\* position of rank k - 1, and there is such a position.
LEMMA ErasePlace ==
    ASSUME NEW S, NEW q \in Seq(S), NEW D
    PROVE  LET K == Survivors(q, D)
               r == Erase(q, D)
           IN  /\ r \in Seq(S)
               /\ Len(r) = Cardinality(K) /\ Len(r) <= Len(q)
               /\ \A k \in 1..Len(r) :
                    \E i \in K : RankIn(K, i) = k - 1 /\ r[k] = q[i]
               /\ \A i \in K : \E k \in 1..Len(r) : RankIn(K, i) = k - 1 /\ r[k] = q[i]
<1> DEFINE K == Survivors(q, D)
           r == Erase(q, D)
<1>1. K \in SUBSET (1..Len(q))
  BY DEF Survivors
<1>2. r = KeepPlaces(q, K)
  BY DEF Erase
<1> HIDE DEF K, r
<1>3. r \in Seq(S) /\ Len(r) = Cardinality(K) /\ Len(r) <= Len(q)
  BY <1>1, <1>2, KeptPlaces
<1>4. \E f \in [1..Len(r) -> K] :
            /\ \A k \in 1..Len(r) : RankIn(K, f[k]) = k - 1 /\ r[k] = q[f[k]]
            /\ \A i \in K : \E k \in 1..Len(r) : f[k] = i
  BY <1>1, <1>2, KeptPlaces
<1>5. \A k \in 1..Len(r) : \E i \in K : RankIn(K, i) = k - 1 /\ r[k] = q[i]
  BY <1>4
<1>6. \A i \in K : \E k \in 1..Len(r) : RankIn(K, i) = k - 1 /\ r[k] = q[i]
  BY <1>4
<1> QED
  BY <1>3, <1>5, <1>6 DEF K, r

\* What is left after erasing was there before, in the same order.
LEMMA EraseOrder ==
    ASSUME NEW S, NEW q \in Seq(S), NEW D
    PROVE  /\ Erase(q, D) \in Seq(S) /\ Len(Erase(q, D)) <= Len(q)
           /\ \A k \in 1..Len(Erase(q, D)) :
                \E i \in 1..Len(q) : Erase(q, D)[k] = q[i] /\ q[i] \notin D
           /\ \A i \in 1..Len(q) :
                q[i] \notin D => \E k \in 1..Len(Erase(q, D)) : Erase(q, D)[k] = q[i]
           /\ \A k, m \in 1..Len(Erase(q, D)) :
                k < m => \E i, j \in 1..Len(q) : i < j /\ Erase(q, D)[k] = q[i] /\ Erase(q, D)[m] = q[j]
<1> DEFINE K == Survivors(q, D)  r == Erase(q, D)
<1>1. /\ r \in Seq(S) /\ Len(r) <= Len(q)
      /\ \A k \in 1..Len(r) : \E i \in K : RankIn(K, i) = k - 1 /\ r[k] = q[i]
      /\ \A i \in K : \E k \in 1..Len(r) : r[k] = q[i]
  <2>1. r \in Seq(S) /\ Len(r) <= Len(q)
    BY ErasePlace
  <2>2. \A k \in 1..Len(r) : \E i \in K : RankIn(K, i) = k - 1 /\ r[k] = q[i]
    BY ErasePlace
  <2>3. \A i \in K : \E k \in 1..Len(r) : r[k] = q[i]
    BY ErasePlace
  <2> QED  BY <2>1, <2>2, <2>3
<1>2. Len(q) \in Nat /\ Len(r) \in Nat
  BY <1>1, LenProperties
<1>3. /\ K \in SUBSET (1..Len(q)) /\ K \in SUBSET Nat
      /\ \A i : i \in K <=> i \in 1..Len(q) /\ q[i] \notin D
  BY <1>2 DEF Survivors
<1>4. IsFiniteSet(K)
  <2> HIDE DEF K
  <2> QED  BY <1>2, <1>3, IntervalSize, FS_Subset
<1> HIDE DEF K, r
<1>5. ASSUME NEW k \in 1..Len(r), NEW m \in 1..Len(r), k < m
      PROVE  \E i, j \in 1..Len(q) : i < j /\ r[k] = q[i] /\ r[m] = q[j]
  <2>1. PICK i \in K : RankIn(K, i) = k - 1 /\ r[k] = q[i]
    BY <1>1
  <2>2. PICK j \in K : RankIn(K, j) = m - 1 /\ r[m] = q[j]
    BY <1>1
  <2>3. i < j
    <3>1. j < i => RankIn(K, j) < RankIn(K, i)
      BY <1>3, <1>4, RankGrows
    <3>2. i \in Int /\ j \in Int /\ k \in Int /\ m \in Int
      BY <1>2, <1>3
    <3> QED  BY <3>1, <3>2, <2>1, <2>2, <1>5
  <2> QED  BY <2>1, <2>2, <2>3, <1>3
<1> QED
  BY <1>1, <1>3, <1>5 DEF r

\* Its last part alone: what is left is in the order it was in.
LEMMA EraseKeepsOrder ==
    ASSUME NEW S, NEW q \in Seq(S), NEW D,
           NEW k \in 1..Len(Erase(q, D)), NEW m \in 1..Len(Erase(q, D)), k < m
    PROVE  \E i, j \in 1..Len(q) : i < j /\ Erase(q, D)[k] = q[i] /\ Erase(q, D)[m] = q[j]
  BY EraseOrder

\* The rank of a number when another one leaves the set.
LEMMA RankWithout ==
    ASSUME NEW K \in SUBSET Nat, IsFiniteSet(K), NEW i \in K, NEW j \in Nat
    PROVE  RankIn(K \ {i}, j) = RankIn(K, j) - (IF i < j THEN 1 ELSE 0)
<1> DEFINE A == {m \in K : m < j}
<1>1. IsFiniteSet(A) /\ Cardinality(A) \in Nat
  BY FS_Subset, FS_CardinalityType
<1>2. {m \in K \ {i} : m < j} = A \ {i}
  OBVIOUS
<1>3. i \in A <=> i < j
  OBVIOUS
<1> HIDE DEF A
<1>4. Cardinality(A \ {i}) = IF i \in A THEN Cardinality(A) - 1 ELSE Cardinality(A)
  BY <1>1, FS_RemoveElement
<1>5. RankIn(K, j) = Cardinality(A) /\ RankIn(K \ {i}, j) = Cardinality(A \ {i})
  BY <1>2 DEF RankIn, A
<1> QED
  BY <1>1, <1>3, <1>4, <1>5

\* The rank behind i and before the next number of the set.
LEMMA RankNext ==
    ASSUME NEW K \in SUBSET Nat, IsFiniteSet(K), NEW i \in K, NEW j \in Nat, i < j,
           \A m \in K : i < m => j <= m
    PROVE  RankIn(K, j) = RankIn(K, i) + 1
<1> DEFINE A == {m \in K : m < i}
<1>1. IsFiniteSet(A) /\ i \notin A
  BY FS_Subset
<1>2. {m \in K : m < j} = A \cup {i}
  <2>1. ASSUME NEW m \in K PROVE m < j <=> (m < i \/ m = i)
    <3>1. m \in Nat /\ i \in Nat
      OBVIOUS
    <3> QED  BY <3>1
  <2> QED  BY <2>1
<1> HIDE DEF A
<1>3. Cardinality(A \cup {i}) = Cardinality(A) + 1
  BY <1>1, FS_AddElement
<1> QED
  BY <1>2, <1>3 DEF RankIn, A

\* Where an element that is kept ends up, and that this says it all.
LEMMA KeptAt ==
    ASSUME NEW S, NEW q \in Seq(S), NEW K \in SUBSET (1..Len(q))
    PROVE  \A i \in K : KeepPlaces(q, K)[RankIn(K, i) + 1] = q[i]
<1> DEFINE r == KeepPlaces(q, K)
<1>1. /\ r \in Seq(S)
      /\ \E f \in [1..Len(r) -> K] :
            /\ \A k \in 1..Len(r) : RankIn(K, f[k]) = k - 1 /\ r[k] = q[f[k]]
            /\ \A j \in K : \E k \in 1..Len(r) : f[k] = j
  BY KeptPlaces
<1> HIDE DEF r
<1>2. PICK f \in [1..Len(r) -> K] :
         /\ \A k \in 1..Len(r) : RankIn(K, f[k]) = k - 1 /\ r[k] = q[f[k]]
         /\ \A j \in K : \E k \in 1..Len(r) : f[k] = j
  BY <1>1
<1>3. ASSUME NEW i \in K PROVE r[RankIn(K, i) + 1] = q[i]
  <2>1. PICK k \in 1..Len(r) : f[k] = i
    BY <1>2
  <2>2. RankIn(K, i) = k - 1 /\ r[k] = q[i] /\ k \in Int
    BY <1>1, <1>2, <2>1, LenProperties
  <2>3. RankIn(K, i) + 1 = k
    BY <2>2
  <2> QED  BY <2>2, <2>3
<1> QED
  BY <1>3 DEF r

\* A list with the right elements at the right places is what is kept.
LEMMA KeptIs ==
    ASSUME NEW S, NEW q \in Seq(S), NEW K \in SUBSET (1..Len(q)), NEW r \in Seq(S),
           Len(r) = Cardinality(K), \A i \in K : r[RankIn(K, i) + 1] = q[i]
    PROVE  r = KeepPlaces(q, K)
<1>1. PICK t : t = KeepPlaces(q, K)
  OBVIOUS
<1>2. t \in Seq(S) /\ Len(t) = Cardinality(K)
  BY <1>1, KeptPlaces
<1>3. Len(q) \in Nat /\ Len(r) \in Nat
  BY LenProperties
<1>4. K \in SUBSET Nat /\ IsFiniteSet(K)
  <2>1. IsFiniteSet(1..Len(q))
    BY <1>3, IntervalSize
  <2>2. IsFiniteSet(K)
    BY <2>1, FS_Subset
  <2> QED  BY <2>2, <1>3
<1>5. ASSUME NEW k \in 1..Len(r) PROVE r[k] = t[k]
  <2>1. PICK i \in K : RankIn(K, i) = k - 1
    BY <1>4, RankOnto
  <2>2. RankIn(K, i) + 1 = k
    BY <2>1, <1>3
  <2>3. t[RankIn(K, i) + 1] = q[i]
    BY <1>1, KeptAt
  <2> QED  BY <2>2, <2>3
<1> QED
  BY <1>1, <1>2, <1>5, SeqEqual

\* One element less is kept.
LEMMA KeptWithoutOne ==
    ASSUME NEW S, NEW q \in Seq(S), NEW K \in SUBSET (1..Len(q)), NEW i \in K,
           NEW p, p = RankIn(K, i) + 1, NEW r, IsRemoved(r, KeepPlaces(q, K), p)
    PROVE  r = KeepPlaces(q, K \ {i})
<1>0. Len(q) \in Nat
  BY LenProperties
<1>1. K \in SUBSET Nat /\ IsFiniteSet(K) /\ Cardinality(K) \in Nat
  <2>1. IsFiniteSet(1..Len(q))
    BY <1>0, IntervalSize
  <2>2. IsFiniteSet(K)
    BY <2>1, FS_Subset
  <2> QED  BY <2>2, <1>0, FS_CardinalityType
<1>2. PICK t : t = KeepPlaces(q, K)
  OBVIOUS
<1>3. t \in Seq(S) /\ Len(t) = Cardinality(K)
  BY <1>2, KeptPlaces
<1>4. p \in 1..Len(t)
  <2>1. RankIn(K, i) \in 0..(Cardinality(K) - 1)
    BY <1>1, RankType
  <2> QED  BY <2>1, <1>1, <1>3
<1>5. /\ r \in Seq(S) /\ Len(r) = Len(t) - 1
      /\ \A k \in 1..(Len(t) - 1) : r[k] = IF k < p THEN t[k] ELSE t[k + 1]
  BY <1>2, <1>3, <1>4, RemovedList
<1>6. Cardinality(K \ {i}) = Cardinality(K) - 1
  BY <1>1, FS_RemoveElement
<1>7. ASSUME NEW j \in K \ {i} PROVE r[RankIn(K \ {i}, j) + 1] = q[j]
  <2>0. j \in Nat /\ i \in Nat /\ j \in K /\ j # i
    BY <1>1
  <2>1. PICK a \in Nat, b \in Nat : a = RankIn(K, j) /\ b = RankIn(K, i) /\ a < Cardinality(K) /\ b < Cardinality(K)
    <3>1. RankIn(K, i) \in 0..(Cardinality(K) - 1) /\ RankIn(K, j) \in 0..(Cardinality(K) - 1)
      BY <2>0, <1>1, RankType
    <3> QED  BY <3>1, <1>1
  <2>2. t[a + 1] = q[j]
    BY <2>0, <2>1, <1>2, KeptAt
  <2>3. CASE i < j
    <3>1. RankIn(K \ {i}, j) = a - 1
      BY <2>0, <2>1, <2>3, <1>1, RankWithout
    <3>2. b < a
      BY <2>0, <2>1, <2>3, <1>1, RankGrows
    <3>3. a \in 1..(Len(t) - 1) /\ ~(a < p)
      BY <3>2, <2>1, <1>1, <1>3
    <3>4. r[a] = t[a + 1]
      BY <3>3, <1>5
    <3>5. a - 1 + 1 = a
      BY <2>1
    <3> QED  BY <3>1, <3>4, <3>5, <2>2
  <2>4. CASE ~(i < j)
    <3>1. RankIn(K \ {i}, j) = a
      BY <2>0, <2>1, <2>4, <1>1, RankWithout
    <3>2. a < b
      BY <2>0, <2>1, <2>4, <1>1, RankGrows
    <3>3. a + 1 \in 1..(Len(t) - 1) /\ a + 1 < p
      BY <3>2, <2>1, <1>1, <1>3
    <3>4. r[a + 1] = t[a + 1]
      BY <3>3, <1>5
    <3> QED  BY <3>1, <3>4, <2>2
  <2> QED  BY <2>3, <2>4
<1>8. K \ {i} \in SUBSET (1..Len(q))
  OBVIOUS
<1>9. PICK J \in SUBSET (1..Len(q)) : J = K \ {i}
  BY <1>8
<1>10. Len(r) = Cardinality(J) /\ \A j \in J : r[RankIn(J, j) + 1] = q[j]
  BY <1>3, <1>5, <1>6, <1>7, <1>9
<1>11. r = KeepPlaces(q, J)
  BY <1>5, <1>10, KeptIs
<1> QED
  BY <1>9, <1>11

\* f gives the value after each of n steps that start from a.
IsIteration(f, S, n, a, step) ==
    f \in [0..n -> S] /\ f[0] = a /\ \A k \in 1..n : f[k] = step[<<f[k - 1], k>>]

\* Every step function can be iterated: what makes a recursive definition over
\* 0..n have the value its equation gives.
LEMMA IterationExists ==
    ASSUME NEW S, NEW a \in S, NEW n \in Nat, NEW step \in [S \X (1..n) -> S]
    PROVE  \E f : IsIteration(f, S, n, a, step)
<1> DEFINE Fits(m, f) == f \in [0..m -> S] /\ f[0] = a /\ \A k \in 1..m : f[k] = step[<<f[k - 1], k>>]
           T == {m \in 0..n : ~\E f : Fits(m, f)}
<1>1. T = {}
  <2> SUFFICES ASSUME T # {} PROVE FALSE
    OBVIOUS
  <2>1. T \in SUBSET Nat
    OBVIOUS
  <2>2. PICK m \in T : \A y \in T : m <= y
    <3> HIDE DEF T
    <3> QED  BY <2>1, LeastNumber
  <2>3. m \in 0..n /\ ~\E f : Fits(m, f)
    OBVIOUS
  <2>4. CASE m = 0
    <3>1. Fits(0, [k \in 0..0 |-> a])
      OBVIOUS
    <3> QED  BY <2>3, <2>4, <3>1
  <2>5. CASE m # 0
    <3>1. m - 1 \in 0..n /\ m - 1 \notin T
      BY <2>2, <2>3, <2>5
    <3>2. PICK f : Fits(m - 1, f)
      BY <3>1
    <3>3. m \in 1..n /\ f[m - 1] \in S
      BY <3>2, <2>3, <2>5
    <3>4. PICK v \in S : v = step[<<f[m - 1], m>>]
      BY <3>3
    <3>5. PICK g : g = [k \in 0..m |-> IF k = m THEN v ELSE f[k]]
      OBVIOUS
    <3>6. g \in [0..m -> S] /\ g[0] = a
      BY <3>2, <3>5, <2>3, <2>5
    <3>7. ASSUME NEW k \in 1..m PROVE g[k] = step[<<g[k - 1], k>>]
      <4>1. g[k - 1] = f[k - 1]
        BY <3>5, <2>3
      <4>2. CASE k = m
        BY <4>1, <4>2, <3>4, <3>5, <2>3
      <4>3. CASE k # m
        BY <4>1, <4>3, <3>2, <3>5, <2>3
      <4> QED  BY <4>2, <4>3
    <3> QED  BY <2>3, <3>6, <3>7
  <2> QED  BY <2>4, <2>5
<1>2. n \in 0..n
  OBVIOUS
<1> QED
  BY <1>1, <1>2 DEF IsIteration

-----------------------------------------------------------------------------
\* Lists put together from parts of others.

\* A list given by its length and its elements.
LEMMA ListBy ==
    ASSUME NEW S, NEW n \in Nat, NEW t, t = [i \in 1..n |-> t[i]], \A i \in 1..n : t[i] \in S
    PROVE  t \in Seq(S) /\ Len(t) = n
<1>1. t \in [1..n -> S]
  OBVIOUS
<1> QED  BY <1>1

LEMMA ListsEqual ==
    ASSUME NEW S, NEW s \in Seq(S), NEW t \in Seq(S), Len(s) = Len(t), \A i \in 1..Len(s) : s[i] = t[i]
    PROVE  s = t
<1>1. s = [i \in 1..Len(s) |-> s[i]] /\ t = [i \in 1..Len(t) |-> t[i]]
  BY LenProperties
<1> QED  BY <1>1

\* The parts of a list.
LEMMA PartPlaces ==
    ASSUME NEW S, NEW t \in Seq(S), NEW a \in Nat \ {0}, NEW b \in Nat, b <= Len(t), a <= b + 1
    PROVE  /\ SubSeq(t, a, b) \in Seq(S) /\ Len(SubSeq(t, a, b)) = b - a + 1
           /\ \A i \in 1..(b - a + 1) : SubSeq(t, a, b)[i] = t[a + i - 1]
<1>1. Len(t) \in Nat /\ \A i \in 1..Len(t) : t[i] \in S
  BY LenProperties, ElementOfSeq
<1>2. PICK n \in Nat : n = b - a + 1
  OBVIOUS
<1>3. PICK u : u = SubSeq(t, a, b)
  OBVIOUS
<1>4. u = [i \in 1..n |-> u[i]] /\ \A i \in 1..n : u[i] = t[a + i - 1]
  BY <1>2, <1>3
<1>5. \A i \in 1..n : u[i] \in S
  BY <1>1, <1>2, <1>4
<1>6. u \in Seq(S) /\ Len(u) = n
  BY <1>4, <1>5, ListBy
<1> QED  BY <1>2, <1>3, <1>4, <1>6

\* One list behind another.
IsJoined(r, S, q, n, t, m) ==
    /\ r \in Seq(S) /\ Len(r) = n + m
    /\ \A i \in 1..n : r[i] = q[i]
    /\ \A i \in 1..m : r[n + i] = t[i]

LEMMA JoinPlaces ==
    ASSUME NEW S, NEW q \in Seq(S), NEW t \in Seq(S), NEW n \in Nat, NEW m \in Nat, Len(q) = n, Len(t) = m
    PROVE  IsJoined(q \o t, S, q, n, t, m)
<1>0. PICK r : r = q \o t
  OBVIOUS
<1>1. /\ r \in Seq(S) /\ Len(r) = Len(q) + Len(t)
      /\ \A i \in 1..(Len(q) + Len(t)) : r[i] = IF i <= Len(q) THEN q[i] ELSE t[i - Len(q)]
  <2>1. /\ q \o t \in Seq(S) /\ Len(q \o t) = Len(q) + Len(t)
        /\ \A i \in 1..(Len(q) + Len(t)) : (q \o t)[i] = IF i <= Len(q) THEN q[i] ELSE t[i - Len(q)]
    BY ConcatProperties
  <2> QED  BY <2>1, <1>0
<1>2. \A i \in 1..(n + m) : r[i] = IF i <= n THEN q[i] ELSE t[i - n]
  BY <1>1
<1>3. ASSUME NEW i \in 1..m PROVE r[n + i] = t[i]
  <2>1. n + i \in 1..(n + m) /\ ~(n + i <= n) /\ (n + i) - n = i
    OBVIOUS
  <2> QED  BY <1>2, <2>1
<1> QED  BY <1>0, <1>1, <1>2, <1>3 DEF IsJoined

\* What is behind the first a elements, up to the m-th.
IsTail(u, S, t, a, l) == u \in Seq(S) /\ Len(u) = l /\ \A i \in 1..l : u[i] = t[a + i]

LEMMA TailPlaces ==
    ASSUME NEW S, NEW t \in Seq(S), NEW a \in Nat, NEW m \in Nat, NEW l \in Nat, m <= Len(t), l = m - a
    PROVE  IsTail(SubSeq(t, a + 1, m), S, t, a, l)
<1>1. PICK b \in Nat \ {0} : b = a + 1
  OBVIOUS
<1>2. b <= m + 1 /\ m - b + 1 = l
  BY <1>1
<1>3. PICK u : u = SubSeq(t, b, m)
  OBVIOUS
<1>4. u \in Seq(S) /\ Len(u) = l /\ \A i \in 1..l : u[i] = t[b + i - 1]
  BY <1>2, <1>3, PartPlaces
<1>5. ASSUME NEW i \in 1..l PROVE u[i] = t[a + i]
  <2>1. b + i - 1 = a + i
    BY <1>1
  <2> QED  BY <1>4, <2>1
<1> QED  BY <1>1, <1>3, <1>4, <1>5 DEF IsTail

\* A list with k elements behind pos replaced by those of s.
Spliced(t, pos, k, s) == SubSeq(t, 1, pos) \o s \o SubSeq(t, pos + k + 1, Len(t))

IsSpliced(w, S, t, pos, k, s) ==
    /\ w \in Seq(S) /\ Len(w) = Len(t) - k + Len(s)
    /\ \A i \in 1..(Len(t) - k + Len(s)) :
          w[i] = IF i <= pos THEN t[i] ELSE IF i <= pos + Len(s) THEN s[i - pos] ELSE t[i - Len(s) + k]

LEMMA SplicePlaces ==
    ASSUME NEW S, NEW t \in Seq(S), NEW s \in Seq(S), NEW pos \in Nat, NEW k \in Nat, pos + k <= Len(t)
    PROVE  IsSpliced(Spliced(t, pos, k, s), S, t, pos, k, s)
<1>0. PICK n \in Nat, m \in Nat : n = Len(t) /\ m = Len(s)
  BY LenProperties
<1>1. PICK u, v : u = SubSeq(t, 1, pos) /\ v = SubSeq(t, pos + k + 1, n)
  OBVIOUS
<1>2. u \in Seq(S) /\ Len(u) = pos /\ \A i \in 1..pos : u[i] = t[i]
  <2>1. 0 \in Nat /\ pos <= Len(t) /\ u = SubSeq(t, 0 + 1, pos) /\ pos = pos - 0
    BY <1>0, <1>1
  <2>2. IsTail(u, S, t, 0, pos)
    BY <2>1, TailPlaces
  <2>3. ASSUME NEW i \in 1..pos PROVE u[i] = t[i]
    <3>1. 0 + i = i
      OBVIOUS
    <3> QED  BY <2>2, <3>1 DEF IsTail
  <2> QED  BY <2>2, <2>3 DEF IsTail
<1>3. PICK l \in Nat : l = n - pos - k
  <2>1. pos + k <= n
    BY <1>0
  <2>2. n - pos - k \in Nat
    BY <2>1
  <2> QED  BY <2>2
<1>4. v \in Seq(S) /\ Len(v) = l /\ \A i \in 1..l : v[i] = t[pos + k + i]
  <2>1. PICK a \in Nat : a = pos + k
    OBVIOUS
  <2>2. v = SubSeq(t, a + 1, n) /\ n <= Len(t) /\ l = n - a
    BY <2>1, <1>0, <1>1, <1>3
  <2>3. IsTail(v, S, t, a, l)
    BY <2>2, TailPlaces
  <2> QED  BY <2>1, <2>3 DEF IsTail
<1>5. PICK w : w = u \o s
  OBVIOUS
<1>6. w \in Seq(S) /\ Len(w) = pos + m /\ (\A i \in 1..pos : w[i] = u[i]) /\ \A i \in 1..m : w[pos + i] = s[i]
  <2>0. u \in Seq(S) /\ Len(u) = pos /\ Len(s) = m
    BY <1>0, <1>2
  <2>1. IsJoined(w, S, u, pos, s, m)
    BY <2>0, <1>0, <1>5, JoinPlaces
  <2> QED  BY <2>1 DEF IsJoined
<1>7. PICK z : z = w \o v
  OBVIOUS
<1>11. /\ z \in Seq(S) /\ Len(z) = pos + m + l
       /\ \A i \in 1..(pos + m) : z[i] = w[i]
       /\ \A i \in 1..l : z[pos + m + i] = v[i]
  <2>0. PICK j \in Nat : j = pos + m
    BY <1>0
  <2>4. w \in Seq(S) /\ Len(w) = j /\ v \in Seq(S) /\ Len(v) = l
    BY <2>0, <1>4, <1>6
  <2>1. IsJoined(z, S, w, j, v, l)
    BY <2>4, <1>7, JoinPlaces
  <2> QED  BY <2>0, <2>1 DEF IsJoined
<1>8. ASSUME NEW i \in 1..(n - k + m)
      PROVE  z[i] = IF i <= pos THEN t[i] ELSE IF i <= pos + m THEN s[i - pos] ELSE t[i - m + k]
  <2>1. CASE i <= pos
    <3>1. i \in 1..pos /\ i \in 1..(pos + m)
      BY <2>1, <1>0
    <3> QED  BY <3>1, <2>1, <1>2, <1>6, <1>11
  <2>2. CASE ~(i <= pos) /\ i <= pos + m
    <3>1. i - pos \in 1..m /\ pos + (i - pos) = i /\ i \in 1..(pos + m) /\ ~(i <= pos)
      BY <2>2, <1>0
    <3>2. w[i] = s[i - pos]
      BY <3>1, <1>6
    <3> QED  BY <3>1, <3>2, <2>2, <1>11
  <2>3. CASE ~(i <= pos) /\ ~(i <= pos + m)
    <3>0. i \in Int /\ i > pos + m /\ i <= n - k + m /\ l = n - pos - k
      BY <2>3, <1>3
    <3>1. PICK j \in 1..l : j = i - pos - m /\ pos + m + j = i
      BY <3>0
    <3>2. z[i] = v[j] /\ v[j] = t[pos + k + j]
      BY <3>1, <1>4, <1>11
    <3>3. pos + k + j = i - m + k /\ ~(i <= pos) /\ ~(i <= pos + m)
      BY <3>1, <2>3, <1>0
    <3> QED  BY <3>2, <3>3
  <2> QED  BY <2>1, <2>2, <2>3
<1>9. z = Spliced(t, pos, k, s)
  BY <1>0, <1>1, <1>5, <1>7 DEF Spliced
<1>10. Len(z) = n - k + m
  BY <1>0, <1>3, <1>11
<1> QED  BY <1>0, <1>11, <1>8, <1>9, <1>10 DEF IsSpliced
=============================================================================
