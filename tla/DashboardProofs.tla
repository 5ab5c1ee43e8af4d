-------------------------- MODULE DashboardProofs --------------------------
(***************************************************************************)
(* Theorems about Dashboard.                                               *)
(***************************************************************************)
EXTENDS Dashboard, FiniteSetTheorems, SequenceTheorems, TLAPS

-----------------------------------------------------------------------------
(* Selecting the elements of a sequence at some places.                      *)

(* Nth enumerates a finite set of numbers in their order.                    *)
LEMMA NthProperties ==
  ASSUME NEW I \in SUBSET Int, IsFiniteSet(I)
  PROVE  /\ Cardinality(I) \in Nat
         /\ \A k \in 1 .. Cardinality(I) : Nth(I, k) \in I
         /\ \A k, l \in 1 .. Cardinality(I) : k < l => Nth(I, k) < Nth(I, l)
         /\ \A i \in I : \E k \in 1 .. Cardinality(I) : Nth(I, k) = i
<1> DEFINE n == Cardinality(I)
           below(i) == {j \in I : j <= i}
           rank(i) == Cardinality(below(i))
           f == [i \in I |-> rank(i)]
<1>0. n \in Nat
  BY FS_CardinalityType
<1>1. ASSUME NEW i \in I
      PROVE  IsFiniteSet(below(i)) /\ rank(i) \in 1 .. n
  <2>1. below(i) \in SUBSET I /\ i \in below(i)
    OBVIOUS
  <2>2. IsFiniteSet(below(i)) /\ rank(i) <= n
    BY <2>1, FS_Subset
  <2>3. rank(i) \in Nat /\ rank(i) # 0
    BY <2>1, <2>2, FS_CardinalityType, FS_EmptySet
  <2> QED
    BY <1>0, <2>2, <2>3
<1>2. ASSUME NEW i \in I, NEW j \in I, i < j
      PROVE  rank(i) < rank(j)
  <2>1. below(i) \in SUBSET below(j) /\ j \in below(j) /\ j \notin below(i)
    <3>1. i \in Int /\ j \in Int /\ \A m \in I : m \in Int
      OBVIOUS
    <3>2. (\A m \in I : m <= i => m <= j) /\ j <= j /\ ~(j <= i)
      BY <1>2, <3>1
    <3>3. \A m \in below(i) : m \in below(j)
      BY <3>2
    <3> QED
      BY <3>2, <3>3
  <2>2. rank(i) <= rank(j) /\ rank(i) # rank(j)
    BY <1>1, <2>1, FS_Subset
  <2> QED
    BY <1>1, <2>2
<1>3. ASSUME NEW i \in I, NEW j \in I, rank(i) = rank(j)
      PROVE  i = j
  BY <1>1, <1>2, <1>3
<1>4. \A k \in 1 .. n : \E i \in I : rank(i) = k
  <2>1. f \in [I -> 1 .. n]
    BY <1>1
  <2>2. \A i, j \in I : f[i] = f[j] => i = j
    BY <1>3
  <2>3. f \in Injection(I, 1 .. n)
    BY <2>1, <2>2 DEF Injection, IsInjective
  <2>4. IsFiniteSet(1 .. n) /\ Cardinality(1 .. n) = n
    BY <1>0, FS_Interval
  <2>5. f \in Surjection(I, 1 .. n)
    BY <2>3, <2>4, FS_Injection
  <2> QED
    BY <2>5 DEF Surjection
<1>5. ASSUME NEW k \in 1 .. n
      PROVE  Nth(I, k) \in I /\ rank(Nth(I, k)) = k
  <2>1. PICK i \in I : rank(i) = k
    BY <1>4
  <2>2. Nth(I, k) = CHOOSE j \in I : rank(j) = k
    BY DEF Nth
  <2> HIDE DEF rank
  <2> QED
    BY <2>1, <2>2
<1> HIDE DEF n, rank, f
<1>6. ASSUME NEW k \in 1 .. n, NEW l \in 1 .. n, k < l
      PROVE  Nth(I, k) < Nth(I, l)
  <2>1. Nth(I, k) \in Int /\ Nth(I, l) \in Int
    BY <1>5
  <2>2. CASE Nth(I, k) = Nth(I, l)
    BY <1>0, <1>5, <1>6, <2>2
  <2>3. CASE Nth(I, l) < Nth(I, k)
    <3>1. rank(Nth(I, l)) < rank(Nth(I, k))
      BY <1>2, <1>5, <2>3
    <3>2. l < k
      BY <1>5, <3>1
    <3> QED
      BY <1>0, <1>6, <3>2
  <2> QED
    BY <2>1, <2>2, <2>3
<1>7. ASSUME NEW i \in I
      PROVE  \E k \in 1 .. n : Nth(I, k) = i
  BY <1>1, <1>3, <1>5
<1> QED
  BY <1>0, <1>5, <1>6, <1>7 DEF n

(* What Select returns, and from where.                                      *)
LEMMA SelectProperties ==
  ASSUME NEW S, NEW s \in Seq(S), NEW I \in SUBSET DOMAIN s
  PROVE  /\ Select(s, I) \in Seq(S)
         /\ Len(Select(s, I)) \in 0 .. Len(s)
         /\ DOMAIN Select(s, I) = 1 .. Len(Select(s, I))
         /\ \A k \in DOMAIN Select(s, I) :
              Nth(I, k) \in I /\ Select(s, I)[k] = s[Nth(I, k)]
         /\ \A k, l \in DOMAIN Select(s, I) : k < l => Nth(I, k) < Nth(I, l)
         /\ \A i \in I : \E k \in DOMAIN Select(s, I) : Nth(I, k) = i
<1>1. DOMAIN s = 1 .. Len(s) /\ Len(s) \in Nat /\ \A i \in 1 .. Len(s) : s[i] \in S
  BY LenProperties, ElementOfSeq
<1>2. IsFiniteSet(DOMAIN s) /\ Cardinality(DOMAIN s) = Len(s)
  BY <1>1, FS_Interval
<1>3. IsFiniteSet(I) /\ Cardinality(I) <= Len(s) /\ I \in SUBSET Int
  BY <1>1, <1>2, FS_Subset
<1>4. /\ Cardinality(I) \in Nat
      /\ \A k \in 1 .. Cardinality(I) : Nth(I, k) \in I
      /\ \A k, l \in 1 .. Cardinality(I) : k < l => Nth(I, k) < Nth(I, l)
      /\ \A i \in I : \E k \in 1 .. Cardinality(I) : Nth(I, k) = i
  BY <1>3, NthProperties
<1> DEFINE n == Cardinality(I)
           t == [k \in 1 .. n |-> s[Nth(I, k)]]
<1>5. \A k \in 1 .. n : s[Nth(I, k)] \in S
  BY <1>1, <1>4
<1> HIDE DEF n
<1>6. n \in Nat /\ n <= Len(s)
  BY <1>3, <1>4 DEF n
<1>7. t \in Seq(S) /\ Len(t) = n /\ DOMAIN t = 1 .. n
  BY <1>5, <1>6
<1>8. \A k \in 1 .. n : t[k] = s[Nth(I, k)]
  OBVIOUS
<1>9. Select(s, I) = t
  BY DEF Select, n
<1> HIDE DEF t
<1>10. /\ \A k \in DOMAIN t : Nth(I, k) \in I /\ t[k] = s[Nth(I, k)]
       /\ \A k, l \in DOMAIN t : k < l => Nth(I, k) < Nth(I, l)
       /\ \A i \in I : \E k \in DOMAIN t : Nth(I, k) = i
  BY <1>4, <1>7, <1>8 DEF n
<1>11. Len(t) \in 0 .. Len(s) /\ DOMAIN t = 1 .. Len(t)
  BY <1>1, <1>6, <1>7
<1> QED
  BY <1>7, <1>9, <1>10, <1>11

(* A part of a sequence.                                                     *)
LEMMA PartProperties ==
  ASSUME NEW S, NEW s \in Seq(S), NEW m \in 1 .. Len(s) + 1, NEW n \in m - 1 .. Len(s)
  PROVE  /\ SubSeq(s, m, n) \in Seq(S)
         /\ Len(SubSeq(s, m, n)) = n - m + 1
         /\ \A k \in 1 .. n - m + 1 : SubSeq(s, m, n)[k] = s[m + k - 1]
<1>1. Len(s) \in Nat /\ \A k \in 1 .. Len(s) : s[k] \in S
  BY LenProperties, ElementOfSeq
<1>2. m \in Int /\ n \in Int /\ \A k \in m .. n : s[k] \in S
  BY <1>1
<1>3. /\ SubSeq(s, m, n) \in Seq(S)
      /\ Len(SubSeq(s, m, n)) = IF m <= n THEN n - m + 1 ELSE 0
      /\ \A k \in 1 .. n - m + 1 : SubSeq(s, m, n)[k] = s[m + k - 1]
  BY <1>2, SubSeqProperties
<1>4. ~(m <= n) => n - m + 1 = 0
  BY <1>1
<1> QED
  BY <1>3, <1>4

(* Taking an element out, and putting one in.                                *)
LEMMA RemoveAtProperties ==
  ASSUME NEW S, NEW s \in Seq(S), NEW i \in 1 .. Len(s)
  PROVE  /\ RemoveAt(s, i) \in Seq(S)
         /\ Len(RemoveAt(s, i)) = Len(s) - 1
         /\ \A j \in 1 .. Len(s) - 1 : RemoveAt(s, i)[j] = IF j < i THEN s[j] ELSE s[j + 1]
<1> DEFINE front == SubSeq(s, 1, i - 1)
           back  == SubSeq(s, i + 1, Len(s))
<1>0. Len(s) \in Nat
  BY LenProperties
<1>1. /\ front \in Seq(S) /\ Len(front) = i - 1
      /\ \A k \in 1 .. i - 1 : front[k] = s[k]
  <2>1. 1 \in 1 .. Len(s) + 1 /\ i - 1 \in 1 - 1 .. Len(s)
    BY <1>0
  <2>2. (i - 1) - 1 + 1 = i - 1 /\ \A k \in 1 .. i - 1 : 1 + k - 1 = k
    BY <1>0
  <2> QED
    BY <2>1, <2>2, PartProperties
<1>2. /\ back \in Seq(S) /\ Len(back) = Len(s) - i
      /\ \A k \in 1 .. Len(s) - i : back[k] = s[i + k]
  <2>1. i + 1 \in 1 .. Len(s) + 1 /\ Len(s) \in (i + 1) - 1 .. Len(s)
    BY <1>0
  <2>2. Len(s) - (i + 1) + 1 = Len(s) - i /\ \A k \in 1 .. Len(s) - i : (i + 1) + k - 1 = i + k
    BY <1>0
  <2>3. /\ back \in Seq(S) /\ Len(back) = Len(s) - (i + 1) + 1
        /\ \A k \in 1 .. Len(s) - (i + 1) + 1 : back[k] = s[(i + 1) + k - 1]
    BY <2>1, PartProperties
  <2> HIDE DEF back
  <2> QED
    BY <2>2, <2>3
<1> HIDE DEF front, back
<1>3. /\ front \o back \in Seq(S)
      /\ Len(front \o back) = (i - 1) + (Len(s) - i)
      /\ \A j \in 1 .. (i - 1) + (Len(s) - i) :
           (front \o back)[j] = IF j <= i - 1 THEN front[j] ELSE back[j - (i - 1)]
  <2>1. /\ front \o back \in Seq(S)
        /\ Len(front \o back) = Len(front) + Len(back)
        /\ \A j \in 1 .. Len(front) + Len(back) :
             (front \o back)[j] = IF j <= Len(front) THEN front[j] ELSE back[j - Len(front)]
    BY <1>1, <1>2, ConcatProperties
  <2> QED
    BY <1>1, <1>2, <2>1
<1>4. ASSUME NEW j \in 1 .. Len(s) - 1
      PROVE  (front \o back)[j] = IF j < i THEN s[j] ELSE s[j + 1]
  <2>1. CASE j < i
    BY <1>0, <1>1, <1>3, <2>1
  <2>2. CASE ~(j < i)
    <3>1. /\ j - (i - 1) \in 1 .. Len(s) - i /\ i + (j - (i - 1)) = j + 1
          /\ j \in 1 .. (i - 1) + (Len(s) - i) /\ ~(j <= i - 1)
      BY <1>0, <2>2
    <3> QED
      BY <1>2, <1>3, <2>2, <3>1
  <2> QED
    BY <2>1, <2>2
<1>5. (i - 1) + (Len(s) - i) = Len(s) - 1
  BY <1>0
<1> QED
  BY <1>3, <1>4, <1>5 DEF RemoveAt, front, back

LEMMA InsertAtProperties ==
  ASSUME NEW S, NEW s \in Seq(S), NEW i \in 1 .. Len(s) + 1, NEW e \in S
  PROVE  /\ InsertAt(s, i, e) \in Seq(S)
         /\ Len(InsertAt(s, i, e)) = Len(s) + 1
         /\ \A j \in 1 .. Len(s) + 1 :
              InsertAt(s, i, e)[j] = IF j < i THEN s[j] ELSE IF j = i THEN e ELSE s[j - 1]
<1> DEFINE front == SubSeq(s, 1, i - 1)
           back  == SubSeq(s, i, Len(s))
           one   == <<e>>
           mid   == front \o one
<1>0. Len(s) \in Nat /\ one \in Seq(S) /\ Len(one) = 1 /\ one[1] = e
  BY LenProperties
<1>1. /\ front \in Seq(S) /\ Len(front) = i - 1
      /\ \A k \in 1 .. i - 1 : front[k] = s[k]
  <2>1. 1 \in 1 .. Len(s) + 1 /\ i - 1 \in 1 - 1 .. Len(s)
    BY <1>0
  <2>2. (i - 1) - 1 + 1 = i - 1 /\ \A k \in 1 .. i - 1 : 1 + k - 1 = k
    BY <1>0
  <2> QED
    BY <2>1, <2>2, PartProperties
<1>2. /\ back \in Seq(S) /\ Len(back) = Len(s) - i + 1
      /\ \A k \in 1 .. Len(s) - i + 1 : back[k] = s[i + k - 1]
  <2>1. Len(s) \in i - 1 .. Len(s)
    BY <1>0
  <2> QED
    BY <2>1, PartProperties
<1> HIDE DEF front, back, one
<1>3. /\ mid \in Seq(S) /\ Len(mid) = i
      /\ \A j \in 1 .. i - 1 : mid[j] = s[j]
      /\ mid[i] = e
  <2>1. /\ mid \in Seq(S) /\ Len(mid) = (i - 1) + 1
        /\ \A j \in 1 .. (i - 1) + 1 :
             mid[j] = IF j <= i - 1 THEN front[j] ELSE one[j - (i - 1)]
    <3>1. /\ mid \in Seq(S) /\ Len(mid) = Len(front) + Len(one)
          /\ \A j \in 1 .. Len(front) + Len(one) :
               mid[j] = IF j <= Len(front) THEN front[j] ELSE one[j - Len(front)]
      BY <1>0, <1>1, ConcatProperties
    <3> HIDE DEF mid
    <3> QED
      BY <1>0, <1>1, <3>1
  <2>2. (i - 1) + 1 = i /\ i - (i - 1) = 1 /\ i \in 1 .. i /\ ~(i <= i - 1)
    BY <1>0
  <2>3. \A j \in 1 .. i - 1 : j \in 1 .. i /\ j <= i - 1
    BY <1>0
  <2> HIDE DEF mid
  <2> QED
    BY <1>0, <1>1, <2>1, <2>2, <2>3
<1> HIDE DEF mid
<1>4. /\ mid \o back \in Seq(S)
      /\ Len(mid \o back) = i + (Len(s) - i + 1)
      /\ \A j \in 1 .. i + (Len(s) - i + 1) :
           (mid \o back)[j] = IF j <= i THEN mid[j] ELSE back[j - i]
  BY <1>2, <1>3, ConcatProperties
<1>5. ASSUME NEW j \in 1 .. Len(s) + 1
      PROVE  (mid \o back)[j] = IF j < i THEN s[j] ELSE IF j = i THEN e ELSE s[j - 1]
  <2>1. CASE j < i
    <3>1. j \in 1 .. i + (Len(s) - i + 1) /\ j <= i /\ j \in 1 .. i - 1
      BY <1>0, <2>1
    <3> QED
      BY <1>3, <1>4, <2>1, <3>1
  <2>2. CASE j = i
    <3>1. j \in 1 .. i + (Len(s) - i + 1) /\ j <= i /\ ~(j < i)
      BY <1>0, <2>2
    <3> QED
      BY <1>3, <1>4, <2>2, <3>1
  <2>3. CASE ~(j <= i)
    <3>1. /\ j \in 1 .. i + (Len(s) - i + 1) /\ ~(j < i) /\ j # i
          /\ j - i \in 1 .. Len(s) - i + 1 /\ i + (j - i) - 1 = j - 1
      BY <1>0, <2>3
    <3> QED
      BY <1>2, <1>4, <2>3, <3>1
  <2>4. j < i \/ j = i \/ ~(j <= i)
    BY <1>0
  <2> QED
    BY <2>1, <2>2, <2>3, <2>4
<1>6. i + (Len(s) - i + 1) = Len(s) + 1
  BY <1>0
<1> QED
  BY <1>4, <1>5, <1>6 DEF InsertAt, front, back, one, mid

-----------------------------------------------------------------------------
(* Rows and the order of their displays.                                     *)

LEMMA RowsProperties ==
  ASSUME NEW R \in Rows
  PROVE  /\ Len(R) \in Nat /\ DOMAIN R = 1 .. Len(R)
         /\ \A r \in DOMAIN R :
              /\ R[r] \in Seq(Displays)
              /\ Len(R[r]) \in Nat /\ DOMAIN R[r] = 1 .. Len(R[r])
              /\ \A i \in DOMAIN R[r] : R[r][i] \in Displays
<1>1. R \in Seq(Seq(Displays))
  BY DEF Rows
<1>2. Len(R) \in Nat /\ DOMAIN R = 1 .. Len(R)
  BY <1>1, LenProperties
<1>3. ASSUME NEW r \in DOMAIN R
      PROVE  /\ R[r] \in Seq(Displays)
             /\ Len(R[r]) \in Nat /\ DOMAIN R[r] = 1 .. Len(R[r])
             /\ \A i \in DOMAIN R[r] : R[r][i] \in Displays
  <2>1. R[r] \in Seq(Displays)
    BY <1>1, <1>2, ElementOfSeq
  <2> QED
    BY <2>1, LenProperties, ElementOfSeq
<1> QED
  BY <1>2, <1>3

LEMMA PlaceNumbers ==
  ASSUME NEW R \in Rows, NEW r \in DOMAIN R, NEW i \in DOMAIN R[r]
  PROVE  r \in Int /\ i \in Int
BY RowsProperties

LEMMA ItemsProperties ==
  ASSUME NEW R, NEW d
  PROVE  d \in Items(R) <=> \E r \in DOMAIN R : \E i \in DOMAIN R[r] : R[r][i] = d
BY DEF Items, ToSet

(* No display comes before itself: each has one place.                       *)
Once(R) == \A d \in Items(R) : ~Before(R, d, d)

LEMMA OnePlace ==
  ASSUME NEW R \in Rows, Once(R),
         NEW r \in DOMAIN R, NEW s \in DOMAIN R,
         NEW i \in DOMAIN R[r], NEW j \in DOMAIN R[s], R[r][i] = R[s][j]
  PROVE  r = s /\ i = j
<1>1. r \in Int /\ s \in Int /\ i \in Int /\ j \in Int
  BY RowsProperties
<1>2. R[r][i] \in Items(R)
  BY ItemsProperties
<1>3. ~(r < s \/ (r = s /\ i < j)) /\ ~(s < r \/ (s = r /\ j < i))
  BY <1>2 DEF Once, Before
<1> QED
  BY <1>1, <1>3

(* The displays of rows are in a linear order.                               *)
LEMMA BeforeTotal ==
  ASSUME NEW R \in Rows, NEW a \in Items(R), NEW b \in Items(R), a # b
  PROVE  Before(R, a, b) \/ Before(R, b, a)
<1>1. PICK r \in DOMAIN R : \E i \in DOMAIN R[r] : R[r][i] = a
  BY ItemsProperties
<1>2. PICK i \in DOMAIN R[r] : R[r][i] = a
  BY <1>1
<1>3. PICK s \in DOMAIN R : \E j \in DOMAIN R[s] : R[s][j] = b
  BY ItemsProperties
<1>4. PICK j \in DOMAIN R[s] : R[s][j] = b
  BY <1>3
<1>5. r \in Int /\ s \in Int /\ i \in Int /\ j \in Int
  BY RowsProperties
<1>6. r < s \/ (r = s /\ i < j) \/ s < r \/ (s = r /\ j < i)
  <2>1. CASE r = s /\ i = j
    BY <1>2, <1>4, <2>1
  <2> QED
    BY <1>5, <2>1
<1> QED
  BY <1>2, <1>4, <1>6 DEF Before

LEMMA BeforeAsymmetric ==
  ASSUME NEW R \in Rows, Once(R), NEW a, NEW b, Before(R, a, b)
  PROVE  ~Before(R, b, a)
<1> SUFFICES ASSUME Before(R, b, a) PROVE FALSE
  OBVIOUS
<1>1. PICK r \in DOMAIN R, s \in DOMAIN R : \E i \in DOMAIN R[r], j \in DOMAIN R[s] :
        R[r][i] = a /\ R[s][j] = b /\ (r < s \/ (r = s /\ i < j))
  BY DEF Before
<1>2. PICK i \in DOMAIN R[r], j \in DOMAIN R[s] :
        R[r][i] = a /\ R[s][j] = b /\ (r < s \/ (r = s /\ i < j))
  BY <1>1
<1>3. PICK p \in DOMAIN R, q \in DOMAIN R : \E k \in DOMAIN R[p], l \in DOMAIN R[q] :
        R[p][k] = b /\ R[q][l] = a /\ (p < q \/ (p = q /\ k < l))
  BY DEF Before
<1>4. PICK k \in DOMAIN R[p], l \in DOMAIN R[q] :
        R[p][k] = b /\ R[q][l] = a /\ (p < q \/ (p = q /\ k < l))
  BY <1>3
<1>5. p = s /\ k = j /\ q = r /\ l = i
  BY <1>2, <1>4, OnePlace
<1>6. r \in Int /\ s \in Int /\ i \in Int /\ j \in Int
  BY RowsProperties
<1> QED
  BY <1>2, <1>4, <1>5, <1>6

(* Rows whose displays come in the order they have in others have each of    *)
(* them once if the others do.                                               *)
LEMMA OrderKeptOnce ==
  ASSUME NEW R, NEW Q, Once(Q), Items(R) \subseteq Items(Q),
         \A a, b : Before(R, a, b) => Before(Q, a, b)
  PROVE  Once(R)
BY DEF Once

-----------------------------------------------------------------------------
(* The operations on rows.                                                   *)

(* The rows without the displays in X.                                       *)
Kept(R, X) ==
  [r \in DOMAIN R |-> Select(R[r], {i \in DOMAIN R[r] : R[r][i] \notin X})]

LEMMA KeptProperties ==
  ASSUME NEW R \in Rows, NEW X
  PROVE  /\ Kept(R, X) \in Rows
         /\ Len(Kept(R, X)) = Len(R)
         /\ \A r \in DOMAIN R : Len(Kept(R, X)[r]) <= Len(R[r])
         /\ Items(Kept(R, X)) = Items(R) \ X
         /\ \A a, b : Before(Kept(R, X), a, b) => Before(R, a, b)
<1> DEFINE Q == Kept(R, X)
           at(r) == {i \in DOMAIN R[r] : R[r][i] \notin X}
<1>1. /\ Len(R) \in Nat /\ DOMAIN R = 1 .. Len(R)
      /\ \A r \in DOMAIN R : /\ R[r] \in Seq(Displays)
                             /\ Len(R[r]) \in Nat /\ DOMAIN R[r] = 1 .. Len(R[r])
  BY RowsProperties
<1>2. DOMAIN Q = DOMAIN R /\ \A r \in DOMAIN R : Q[r] = Select(R[r], at(r))
  BY DEF Kept
<1>3. ASSUME NEW r \in DOMAIN R
      PROVE  /\ Q[r] \in Seq(Displays)
             /\ Len(Q[r]) \in 0 .. Len(R[r])
             /\ DOMAIN Q[r] = 1 .. Len(Q[r])
             /\ \A k \in DOMAIN Q[r] : Nth(at(r), k) \in at(r) /\ Q[r][k] = R[r][Nth(at(r), k)]
             /\ \A k, l \in DOMAIN Q[r] : k < l => Nth(at(r), k) < Nth(at(r), l)
             /\ \A i \in at(r) : \E k \in DOMAIN Q[r] : Nth(at(r), k) = i
  <2>1. R[r] \in Seq(Displays) /\ at(r) \in SUBSET DOMAIN R[r]
    BY <1>1
  <2> HIDE DEF at, Q
  <2> QED
    BY <1>2, <2>1, SelectProperties
<1>4. Q \in Rows /\ Len(Q) = Len(R)
  <2>1. Q = [r \in 1 .. Len(R) |-> Q[r]]
    BY <1>1 DEF Kept
  <2> HIDE DEF Q
  <2>2. \A r \in 1 .. Len(R) : Q[r] \in Seq(Displays)
    BY <1>1, <1>3
  <2> QED
    BY <1>1, <2>1, <2>2 DEF Rows
<1>5. ASSUME NEW r \in DOMAIN R, NEW k \in DOMAIN Q[r]
      PROVE  /\ Nth(at(r), k) \in DOMAIN R[r]
             /\ Q[r][k] = R[r][Nth(at(r), k)] /\ Q[r][k] \notin X
  BY <1>3
<1>6. ASSUME NEW r \in DOMAIN R, NEW i \in DOMAIN R[r], R[r][i] \notin X
      PROVE  \E k \in DOMAIN Q[r] : Q[r][k] = R[r][i]
  <2>1. i \in at(r)
    BY <1>6
  <2>2. PICK k \in DOMAIN Q[r] : Nth(at(r), k) = i
    BY <1>3, <2>1
  <2> QED
    BY <1>3, <2>2
<1> HIDE DEF Q, at
<1>7. Items(Q) = Items(R) \ X
  <2>1. ASSUME NEW d \in Items(Q) PROVE d \in Items(R) \ X
    BY <1>2, <1>5, ItemsProperties
  <2>2. ASSUME NEW d \in Items(R) \ X PROVE d \in Items(Q)
    BY <1>2, <1>6, ItemsProperties
  <2> QED
    BY <2>1, <2>2
<1>8. ASSUME NEW a, NEW b, Before(Q, a, b)
      PROVE  Before(R, a, b)
  <2>1. PICK r \in DOMAIN R, s \in DOMAIN R : \E i \in DOMAIN Q[r], j \in DOMAIN Q[s] :
          Q[r][i] = a /\ Q[s][j] = b /\ (r < s \/ (r = s /\ i < j))
    BY <1>2, <1>8 DEF Before
  <2>2. PICK i \in DOMAIN Q[r], j \in DOMAIN Q[s] :
          Q[r][i] = a /\ Q[s][j] = b /\ (r < s \/ (r = s /\ i < j))
    BY <2>1
  <2>3. r = s /\ i < j => Nth(at(r), i) < Nth(at(s), j)
    BY <1>3
  <2>4. /\ Nth(at(r), i) \in DOMAIN R[r] /\ Nth(at(s), j) \in DOMAIN R[s]
        /\ R[r][Nth(at(r), i)] = a /\ R[s][Nth(at(s), j)] = b
    BY <1>5, <2>2
  <2> QED
    BY <2>2, <2>3, <2>4 DEF Before
<1> QED
  BY <1>1, <1>3, <1>4, <1>7, <1>8 DEF Q

(* Taking the empty rows out changes no display and no order.                *)
LEMMA NonEmptyProperties ==
  ASSUME NEW R \in Rows
  PROVE  /\ NonEmpty(R) \in Rows
         /\ Len(NonEmpty(R)) <= Len(R)
         /\ \A q \in DOMAIN NonEmpty(R) :
              NonEmpty(R)[q] # <<>> /\ \E r \in DOMAIN R : NonEmpty(R)[q] = R[r]
         /\ Items(NonEmpty(R)) = Items(R)
         /\ \A a, b : Before(NonEmpty(R), a, b) => Before(R, a, b)
<1> DEFINE at == {r \in DOMAIN R : R[r] # <<>>}
           Q == NonEmpty(R)
<1>1. R \in Seq(Seq(Displays)) /\ Len(R) \in Nat /\ DOMAIN R = 1 .. Len(R)
  BY RowsProperties DEF Rows
<1>2. at \in SUBSET DOMAIN R /\ Q = Select(R, at)
  BY DEF NonEmpty
<1> HIDE DEF Q
<1>3. /\ Q \in Seq(Seq(Displays)) /\ Len(Q) \in 0 .. Len(R)
      /\ \A k \in DOMAIN Q : Nth(at, k) \in at /\ Q[k] = R[Nth(at, k)]
      /\ \A k, l \in DOMAIN Q : k < l => Nth(at, k) < Nth(at, l)
      /\ \A r \in at : \E k \in DOMAIN Q : Nth(at, k) = r
  <2> HIDE DEF at
  <2> QED
    BY <1>1, <1>2, SelectProperties
<1>4. \A k \in DOMAIN Q : Nth(at, k) \in DOMAIN R /\ Q[k] = R[Nth(at, k)] /\ Q[k] # <<>>
  BY <1>3
<1>5. \A r \in DOMAIN R : R[r] # <<>> => \E k \in DOMAIN Q : Q[k] = R[r]
  BY <1>3
<1> HIDE DEF at
<1>6. Items(Q) = Items(R)
  <2>1. ASSUME NEW d \in Items(Q) PROVE d \in Items(R)
    BY <1>4, ItemsProperties
  <2>2. ASSUME NEW d \in Items(R) PROVE d \in Items(Q)
    <3>1. PICK r \in DOMAIN R : \E i \in DOMAIN R[r] : R[r][i] = d
      BY ItemsProperties
    <3>2. R[r] # <<>>
      BY <3>1
    <3> QED
      BY <1>5, <3>1, <3>2, ItemsProperties
  <2> QED
    BY <2>1, <2>2
<1>7. ASSUME NEW a, NEW b, Before(Q, a, b)
      PROVE  Before(R, a, b)
  <2>1. PICK r \in DOMAIN Q, s \in DOMAIN Q : \E i \in DOMAIN Q[r], j \in DOMAIN Q[s] :
          Q[r][i] = a /\ Q[s][j] = b /\ (r < s \/ (r = s /\ i < j))
    BY <1>7 DEF Before
  <2>2. /\ Nth(at, r) \in DOMAIN R /\ Nth(at, s) \in DOMAIN R
        /\ Q[r] = R[Nth(at, r)] /\ Q[s] = R[Nth(at, s)]
        /\ r < s => Nth(at, r) < Nth(at, s)
    BY <1>3, <1>4
  <2> QED
    BY <2>1, <2>2 DEF Before
<1>8. Q \in Rows /\ Len(Q) <= Len(R)
  BY <1>1, <1>3 DEF Rows
<1>9. \A q \in DOMAIN Q : Q[q] # <<>> /\ \E r \in DOMAIN R : Q[q] = R[r]
  BY <1>4
<1> QED
  BY <1>6, <1>7, <1>8, <1>9 DEF Q

(* A display is taken out of its row.                                        *)
LEMMA TakeProperties ==
  ASSUME NEW R \in Rows, Once(R), NEW r0 \in DOMAIN R, NEW i0 \in DOMAIN R[r0]
  PROVE  LET Q == [R EXCEPT ![r0] = RemoveAt(R[r0], i0)]
         IN  /\ Q \in Rows /\ Len(Q) = Len(R) /\ DOMAIN Q = DOMAIN R
             /\ \A r \in DOMAIN R : Len(Q[r]) = IF r = r0 THEN Len(R[r]) - 1 ELSE Len(R[r])
             /\ Items(Q) = Items(R) \ {R[r0][i0]}
             /\ \A a, b : Before(Q, a, b) => Before(R, a, b)
<1> DEFINE t == RemoveAt(R[r0], i0)
           Q == [R EXCEPT ![r0] = t]
           was(r, i) == IF r = r0 /\ i >= i0 THEN i + 1 ELSE i
<1>1. /\ R \in Seq(Seq(Displays)) /\ Len(R) \in Nat /\ DOMAIN R = 1 .. Len(R)
      /\ \A r \in DOMAIN R : /\ R[r] \in Seq(Displays)
                             /\ Len(R[r]) \in Nat /\ DOMAIN R[r] = 1 .. Len(R[r])
  BY RowsProperties DEF Rows
<1>2. /\ t \in Seq(Displays) /\ Len(t) = Len(R[r0]) - 1
      /\ \A j \in 1 .. Len(R[r0]) - 1 : t[j] = IF j < i0 THEN R[r0][j] ELSE R[r0][j + 1]
  BY <1>1, RemoveAtProperties
<1>3. DOMAIN t = 1 .. Len(R[r0]) - 1
  BY <1>2, LenProperties
<1> HIDE DEF t
<1>4. /\ DOMAIN Q = DOMAIN R /\ Q[r0] = t
      /\ \A r \in DOMAIN R : r # r0 => Q[r] = R[r]
  OBVIOUS
<1>5. Q \in Rows /\ Len(Q) = Len(R)
  BY <1>1, <1>2, ExceptSeq DEF Rows
<1> HIDE DEF Q
<1>6. ASSUME NEW r \in DOMAIN R, NEW i \in DOMAIN Q[r]
      PROVE  /\ was(r, i) \in DOMAIN R[r] /\ Q[r][i] = R[r][was(r, i)]
             /\ ~(r = r0 /\ was(r, i) = i0)
  <2>1. CASE r = r0
    <3>1. i \in 1 .. Len(R[r0]) - 1
      BY <1>3, <1>4, <2>1
    <3>2. CASE i < i0
      <4>1. was(r, i) = i /\ i \in 1 .. Len(R[r0]) /\ i # i0
        BY <1>1, <2>1, <3>1, <3>2
      <4> QED
        BY <1>1, <1>2, <1>4, <2>1, <3>1, <3>2, <4>1
    <3>3. CASE ~(i < i0)
      <4>1. was(r, i) = i + 1 /\ i + 1 \in 1 .. Len(R[r0]) /\ i + 1 # i0
        BY <1>1, <2>1, <3>1, <3>3
      <4> QED
        BY <1>1, <1>2, <1>4, <2>1, <3>1, <3>3, <4>1
    <3> QED
      BY <3>2, <3>3
  <2>2. CASE r # r0
    BY <1>4, <2>2
  <2> QED
    BY <2>1, <2>2
<1>7. ASSUME NEW r \in DOMAIN R, NEW i \in DOMAIN R[r], ~(r = r0 /\ i = i0)
      PROVE  \E k \in DOMAIN Q[r] : Q[r][k] = R[r][i]
  <2>1. CASE r = r0 /\ i < i0
    <3>1. i \in 1 .. Len(R[r0]) - 1
      BY <1>1, <2>1
    <3> QED
      BY <1>2, <1>3, <1>4, <2>1, <3>1
  <2>2. CASE r = r0 /\ i > i0
    <3>1. /\ i - 1 \in 1 .. Len(R[r0]) - 1 /\ ~(i - 1 < i0) /\ (i - 1) + 1 = i
      BY <1>1, <2>2
    <3> QED
      BY <1>2, <1>3, <1>4, <2>2, <3>1
  <2>3. CASE r # r0
    BY <1>4, <2>3
  <2> QED
    BY <1>1, <1>7, <2>1, <2>2, <2>3
<1>8. Items(Q) = Items(R) \ {R[r0][i0]}
  <2>1. ASSUME NEW d \in Items(Q) PROVE d \in Items(R) \ {R[r0][i0]}
    <3>1. PICK r \in DOMAIN R : \E i \in DOMAIN Q[r] : Q[r][i] = d
      BY <1>4, ItemsProperties
    <3>2. PICK i \in DOMAIN Q[r] : Q[r][i] = d
      BY <3>1
    <3>3. was(r, i) \in DOMAIN R[r] /\ d = R[r][was(r, i)] /\ ~(r = r0 /\ was(r, i) = i0)
      BY <1>6, <3>2
    <3> HIDE DEF was
    <3>4. d # R[r0][i0]
      BY <3>3, OnePlace
    <3> QED
      BY <3>3, <3>4, ItemsProperties
  <2>2. ASSUME NEW d \in Items(R) \ {R[r0][i0]} PROVE d \in Items(Q)
    BY <1>4, <1>7, ItemsProperties
  <2> QED
    BY <2>1, <2>2
<1>9. ASSUME NEW a, NEW b, Before(Q, a, b)
      PROVE  Before(R, a, b)
  <2>1. PICK r \in DOMAIN R, s \in DOMAIN R : \E i \in DOMAIN Q[r], j \in DOMAIN Q[s] :
          Q[r][i] = a /\ Q[s][j] = b /\ (r < s \/ (r = s /\ i < j))
    BY <1>4, <1>9 DEF Before
  <2>2. PICK i \in DOMAIN Q[r], j \in DOMAIN Q[s] :
          Q[r][i] = a /\ Q[s][j] = b /\ (r < s \/ (r = s /\ i < j))
    BY <2>1
  <2>3. /\ was(r, i) \in DOMAIN R[r] /\ was(s, j) \in DOMAIN R[s]
        /\ R[r][was(r, i)] = a /\ R[s][was(s, j)] = b
    BY <1>6, <2>2
  <2>4. i \in Int /\ j \in Int /\ i0 \in Int
    BY <1>1, <1>5, RowsProperties
  <2>5. r = s /\ i < j => was(r, i) < was(s, j)
    BY <2>4
  <2> HIDE DEF was
  <2> QED
    BY <2>2, <2>3, <2>5 DEF Before
<1>10. \A r \in DOMAIN R : Len(Q[r]) = IF r = r0 THEN Len(R[r]) - 1 ELSE Len(R[r])
  BY <1>2, <1>4
<1> QED
  BY <1>4, <1>5, <1>8, <1>9, <1>10 DEF Q, t

(* t is the row s with the display d put in at place j.                      *)
PutInto(s, j, d, t) ==
  /\ t \in Seq(Displays) /\ Len(t) = Len(s) + 1
  /\ \A k \in 1 .. Len(s) + 1 :
       t[k] = IF k < j THEN s[k] ELSE IF k = j THEN d ELSE s[k - 1]

WithRow(R, r, t) == [R EXCEPT ![r] = t]

LEMMA PutIntoProperties ==
  ASSUME NEW s \in Seq(Displays), NEW d \in Displays
  PROVE  /\ \A j \in 1 .. Len(s) + 1 : PutInto(s, j, d, InsertAt(s, j, d))
         /\ PutInto(s, Len(s) + 1, d, Append(s, d))
<1>1. ASSUME NEW j \in 1 .. Len(s) + 1
      PROVE  PutInto(s, j, d, InsertAt(s, j, d))
  BY InsertAtProperties DEF PutInto
<1>2. PutInto(s, Len(s) + 1, d, Append(s, d))
  <2> DEFINE t == Append(s, d)
  <2>1. Len(s) \in Nat
    BY LenProperties
  <2>2. /\ t \in Seq(Displays) /\ Len(t) = Len(s) + 1
        /\ \A k \in 1 .. Len(s) : t[k] = s[k]
        /\ t[Len(s) + 1] = d
    BY AppendProperties
  <2> HIDE DEF t
  <2>3. ASSUME NEW k \in 1 .. Len(s) + 1
        PROVE  t[k] = IF k < Len(s) + 1 THEN s[k] ELSE IF k = Len(s) + 1 THEN d ELSE s[k - 1]
    <3>1. CASE k \in 1 .. Len(s)
      <4>1. k < Len(s) + 1
        BY <2>1, <3>1
      <4> QED
        BY <2>2, <3>1, <4>1
    <3>2. CASE k = Len(s) + 1
      <4>1. ~(k < Len(s) + 1)
        BY <2>1, <3>2
      <4> QED
        BY <2>2, <3>2, <4>1
    <3> QED
      BY <2>1, <3>1, <3>2
  <2> QED
    BY <2>2, <2>3 DEF t, PutInto
<1> QED
  BY <1>1, <1>2

(* A display that is not there yet goes to place j0 of row r0.               *)
LEMMA PutProperties ==
  ASSUME NEW R \in Rows, Once(R), NEW d \in Displays \ Items(R),
         NEW r0 \in DOMAIN R, NEW j0 \in 1 .. Len(R[r0]) + 1,
         NEW t, PutInto(R[r0], j0, d, t)
  PROVE  LET Q == WithRow(R, r0, t)
         IN  /\ Q \in Rows /\ Len(Q) = Len(R) /\ DOMAIN Q = DOMAIN R
             /\ Items(Q) = Items(R) \cup {d}
             /\ \A a, b : a # d /\ b # d /\ Before(Q, a, b) => Before(R, a, b)
             /\ Once(Q)
<1> DEFINE Q == [R EXCEPT ![r0] = t]
           was(r, i) == IF r = r0 /\ i > j0 THEN i - 1 ELSE i
<1>1. /\ R \in Seq(Seq(Displays)) /\ Len(R) \in Nat /\ DOMAIN R = 1 .. Len(R)
      /\ \A r \in DOMAIN R : /\ R[r] \in Seq(Displays)
                             /\ Len(R[r]) \in Nat /\ DOMAIN R[r] = 1 .. Len(R[r])
  BY RowsProperties DEF Rows
<1>0. /\ t \in Seq(Displays) /\ Len(t) = Len(R[r0]) + 1
      /\ \A j \in 1 .. Len(R[r0]) + 1 :
           t[j] = IF j < j0 THEN R[r0][j] ELSE IF j = j0 THEN d ELSE R[r0][j - 1]
  BY DEF PutInto
<1>2. DOMAIN t = 1 .. Len(R[r0]) + 1
  BY <1>0, LenProperties
<1>3. /\ DOMAIN Q = DOMAIN R /\ Q[r0] = t
      /\ \A r \in DOMAIN R : r # r0 => Q[r] = R[r]
  OBVIOUS
<1>4. Q \in Rows /\ Len(Q) = Len(R)
  BY <1>0, <1>1, ExceptSeq DEF Rows
<1>5. \A r \in DOMAIN R : \A i \in DOMAIN R[r] : R[r][i] # d
  BY ItemsProperties
<1> HIDE DEF Q
<1>6. ASSUME NEW r \in DOMAIN R, NEW i \in DOMAIN Q[r], ~(r = r0 /\ i = j0)
      PROVE  was(r, i) \in DOMAIN R[r] /\ Q[r][i] = R[r][was(r, i)]
  <2>1. CASE r = r0
    <3>1. i \in 1 .. Len(R[r0]) + 1
      BY <1>0, <1>2, <1>3, <2>1
    <3>2. CASE i < j0
      BY <1>0, <1>1, <1>3, <2>1, <3>1, <3>2
    <3>3. CASE i > j0
      <4>1. was(r, i) = i - 1 /\ i - 1 \in 1 .. Len(R[r0]) /\ ~(i < j0) /\ i # j0
        BY <1>0, <1>1, <2>1, <3>1, <3>3
      <4> QED
        BY <1>0, <1>1, <1>3, <2>1, <3>1, <4>1
    <3> QED
      BY <1>0, <1>1, <1>6, <2>1, <3>1, <3>2, <3>3
  <2>2. CASE r # r0
    BY <1>3, <2>2
  <2> QED
    BY <2>1, <2>2
<1>7. Q[r0][j0] = d /\ j0 \in DOMAIN Q[r0]
  BY <1>0, <1>1, <1>2, <1>3
<1>8. ASSUME NEW r \in DOMAIN R, NEW i \in DOMAIN R[r]
      PROVE  \E k \in DOMAIN Q[r] : Q[r][k] = R[r][i]
  <2>1. CASE r = r0 /\ i < j0
    <3>1. i \in 1 .. Len(R[r0]) + 1
      BY <1>0, <1>1, <2>1
    <3> QED
      BY <1>0, <1>2, <1>3, <2>1, <3>1
  <2>2. CASE r = r0 /\ ~(i < j0)
    <3>1. i + 1 \in 1 .. Len(R[r0]) + 1 /\ ~(i + 1 < j0) /\ i + 1 # j0 /\ (i + 1) - 1 = i
      BY <1>0, <1>1, <2>2
    <3> QED
      BY <1>0, <1>2, <1>3, <2>2, <3>1
  <2>3. CASE r # r0
    BY <1>3, <2>3
  <2> QED
    BY <2>1, <2>2, <2>3
<1>9. Items(Q) = Items(R) \cup {d}
  <2>1. ASSUME NEW x \in Items(Q), x # d PROVE x \in Items(R)
    <3>1. PICK r \in DOMAIN R : \E i \in DOMAIN Q[r] : Q[r][i] = x
      BY <1>3, ItemsProperties
    <3>2. PICK i \in DOMAIN Q[r] : Q[r][i] = x
      BY <3>1
    <3>3. was(r, i) \in DOMAIN R[r] /\ x = R[r][was(r, i)]
      BY <1>6, <1>7, <2>1, <3>2
    <3> HIDE DEF was
    <3> QED
      BY <3>3, ItemsProperties
  <2>2. ASSUME NEW x \in Items(R) PROVE x \in Items(Q)
    BY <1>3, <1>8, ItemsProperties
  <2>3. d \in Items(Q)
    BY <1>3, <1>7, ItemsProperties
  <2> QED
    BY <2>1, <2>2, <2>3
<1>10. ASSUME NEW r \in DOMAIN R, NEW i \in DOMAIN Q[r], Q[r][i] = d
       PROVE  r = r0 /\ i = j0
  <2> SUFFICES ASSUME ~(r = r0 /\ i = j0) PROVE FALSE
    OBVIOUS
  <2>1. was(r, i) \in DOMAIN R[r] /\ d = R[r][was(r, i)]
    BY <1>6, <1>10
  <2> HIDE DEF was
  <2> QED
    BY <1>5, <2>1
<1>11. ASSUME NEW a, NEW b, a # d, b # d, Before(Q, a, b)
       PROVE  Before(R, a, b)
  <2>1. PICK r \in DOMAIN R, s \in DOMAIN R : \E i \in DOMAIN Q[r], j \in DOMAIN Q[s] :
          Q[r][i] = a /\ Q[s][j] = b /\ (r < s \/ (r = s /\ i < j))
    BY <1>3, <1>11 DEF Before
  <2>2. PICK i \in DOMAIN Q[r], j \in DOMAIN Q[s] :
          Q[r][i] = a /\ Q[s][j] = b /\ (r < s \/ (r = s /\ i < j))
    BY <2>1
  <2>3. ~(r = r0 /\ i = j0) /\ ~(s = r0 /\ j = j0)
    BY <1>7, <1>11, <2>2
  <2>4. /\ was(r, i) \in DOMAIN R[r] /\ was(s, j) \in DOMAIN R[s]
        /\ R[r][was(r, i)] = a /\ R[s][was(s, j)] = b
    BY <1>6, <2>2, <2>3
  <2>5. i \in Int /\ j \in Int /\ j0 \in Int
    <3>1. r \in DOMAIN Q /\ s \in DOMAIN Q
      BY <1>3
    <3> QED
      BY <1>0, <1>1, <1>4, <3>1, PlaceNumbers
  <2>6. r = s /\ i < j => was(r, i) < was(s, j)
    BY <2>3, <2>5
  <2> HIDE DEF was
  <2> QED
    BY <2>2, <2>4, <2>6 DEF Before
<1>12. ~Before(Q, d, d)
  <2> SUFFICES ASSUME Before(Q, d, d) PROVE FALSE
    OBVIOUS
  <2>1. PICK r \in DOMAIN R, s \in DOMAIN R : \E i \in DOMAIN Q[r], j \in DOMAIN Q[s] :
          Q[r][i] = d /\ Q[s][j] = d /\ (r < s \/ (r = s /\ i < j))
    BY <1>3 DEF Before
  <2>2. PICK i \in DOMAIN Q[r], j \in DOMAIN Q[s] :
          Q[r][i] = d /\ Q[s][j] = d /\ (r < s \/ (r = s /\ i < j))
    BY <2>1
  <2>3. r = s /\ i = j
    BY <1>0, <1>10, <2>2
  <2>4. r \in Int /\ i \in Int
    <3>1. r \in DOMAIN Q
      BY <1>3
    <3> QED
      BY <1>4, <3>1, PlaceNumbers
  <2> QED
    BY <2>2, <2>3, <2>4
<1>13. Once(Q)
  BY <1>9, <1>11, <1>12 DEF Once
<1> QED
  BY <1>3, <1>4, <1>9, <1>11, <1>13 DEF Q, WithRow

(* A display that is not there yet gets a row of its own behind the others.  *)
LEMMA NewRowProperties ==
  ASSUME NEW R \in Rows, Once(R), NEW d \in Displays \ Items(R)
  PROVE  LET Q == Append(R, <<d>>)
         IN  /\ Q \in Rows /\ Len(Q) = Len(R) + 1
             /\ \A r \in DOMAIN R : Q[r] = R[r]
             /\ Q[Len(R) + 1] = <<d>>
             /\ Items(Q) = Items(R) \cup {d}
             /\ \A a, b : a # d /\ b # d /\ Before(Q, a, b) => Before(R, a, b)
             /\ Once(Q)
<1> DEFINE one == <<d>>
           Q == Append(R, one)
           n == Len(R) + 1
<1>1. R \in Seq(Seq(Displays)) /\ Len(R) \in Nat /\ DOMAIN R = 1 .. Len(R)
  BY RowsProperties DEF Rows
<1>2. one \in Seq(Displays) /\ DOMAIN one = {1} /\ one[1] = d
  OBVIOUS
<1> HIDE DEF one
<1>3. /\ Q \in Seq(Seq(Displays)) /\ Len(Q) = Len(R) + 1
      /\ \A r \in 1 .. Len(R) : Q[r] = R[r]
      /\ Q[Len(R) + 1] = one
  BY <1>1, <1>2, AppendProperties
<1>4. Q \in Rows /\ DOMAIN Q = 1 .. Len(R) + 1
  BY <1>1, <1>3, LenProperties DEF Rows
<1>5. n \in DOMAIN Q /\ Q[n] = one /\ n \notin DOMAIN R
  BY <1>1, <1>3, <1>4
<1>6. \A r \in DOMAIN R : r \in DOMAIN Q /\ Q[r] = R[r]
  BY <1>1, <1>3, <1>4
<1>7. \A r \in DOMAIN Q : r # n => r \in DOMAIN R
  BY <1>1, <1>4
<1> HIDE DEF Q, n
<1>8. \A r \in DOMAIN R : \A i \in DOMAIN R[r] : R[r][i] # d
  BY ItemsProperties
<1>9. Items(Q) = Items(R) \cup {d}
  <2>1. ASSUME NEW x \in Items(Q), x # d PROVE x \in Items(R)
    <3>1. PICK r \in DOMAIN Q : \E i \in DOMAIN Q[r] : Q[r][i] = x
      BY ItemsProperties
    <3>2. r # n
      BY <1>2, <1>5, <2>1, <3>1
    <3> QED
      BY <1>6, <1>7, <3>1, <3>2, ItemsProperties
  <2>2. ASSUME NEW x \in Items(R) PROVE x \in Items(Q)
    BY <1>6, ItemsProperties
  <2>3. d \in Items(Q)
    BY <1>2, <1>5, ItemsProperties
  <2> QED
    BY <2>1, <2>2, <2>3
<1>10. ASSUME NEW a, NEW b, a # d, b # d, Before(Q, a, b)
       PROVE  Before(R, a, b)
  <2>1. PICK r \in DOMAIN Q, s \in DOMAIN Q : \E i \in DOMAIN Q[r], j \in DOMAIN Q[s] :
          Q[r][i] = a /\ Q[s][j] = b /\ (r < s \/ (r = s /\ i < j))
    BY <1>10 DEF Before
  <2>2. PICK i \in DOMAIN Q[r], j \in DOMAIN Q[s] :
          Q[r][i] = a /\ Q[s][j] = b /\ (r < s \/ (r = s /\ i < j))
    BY <2>1
  <2>3. r # n /\ s # n
    BY <1>2, <1>5, <1>10, <2>2
  <2>4. r \in DOMAIN R /\ s \in DOMAIN R /\ Q[r] = R[r] /\ Q[s] = R[s]
    BY <1>6, <1>7, <2>3
  <2> QED
    BY <2>2, <2>4 DEF Before
<1>11. ~Before(Q, d, d)
  <2> SUFFICES ASSUME Before(Q, d, d) PROVE FALSE
    OBVIOUS
  <2>1. PICK r \in DOMAIN Q, s \in DOMAIN Q : \E i \in DOMAIN Q[r], j \in DOMAIN Q[s] :
          Q[r][i] = d /\ Q[s][j] = d /\ (r < s \/ (r = s /\ i < j))
    BY DEF Before
  <2>2. PICK i \in DOMAIN Q[r], j \in DOMAIN Q[s] :
          Q[r][i] = d /\ Q[s][j] = d /\ (r < s \/ (r = s /\ i < j))
    BY <2>1
  <2>3. r = n /\ s = n
    BY <1>6, <1>7, <1>8, <2>2
  <2>4. i = 1 /\ j = 1
    BY <1>2, <1>5, <2>2, <2>3
  <2>5. n \in Int
    BY <1>1 DEF n
  <2> QED
    BY <2>2, <2>3, <2>4, <2>5
<1>12. Once(Q)
  BY <1>9, <1>10, <1>11 DEF Once
<1> QED
  BY <1>3, <1>4, <1>6, <1>9, <1>10, <1>12 DEF Q, one

(* Sound rows are rows without an empty one, each display once.              *)
LEMMA SoundProperties ==
  ASSUME NEW R \in Rows
  PROVE  /\ Sound(R) => Once(R)
         /\ Once(R) => Sound(NonEmpty(R))
<1>1. Sound(R) => Once(R)
  BY DEF Sound, Once
<1>2. ASSUME Once(R) PROVE Sound(NonEmpty(R))
  <2>1. Once(NonEmpty(R))
    BY <1>2, NonEmptyProperties, OrderKeptOnce
  <2> QED
    BY <2>1, NonEmptyProperties DEF Sound, Once
<1> QED
  BY <1>1, <1>2

(* What the user is shown, and rows without one display.                     *)
LEMMA FilterProperties ==
  ASSUME NEW R \in Rows, Once(R), NEW d
  PROVE  /\ filterDisplays(R) = Kept(R, Hidden) /\ Once(filterDisplays(R))
         /\ removeDisplay(R, d) \in Rows
         /\ Items(removeDisplay(R, d)) = Items(R) \ {d}
         /\ Sound(removeDisplay(R, d))
<1>1. filterDisplays(R) = Kept(R, Hidden)
  BY DEF filterDisplays, isAllowed, Kept
<1>2. removeDisplay(R, d) = NonEmpty(Kept(R, {d}))
  <2>1. \A r \in DOMAIN R :
          {i \in DOMAIN R[r] : R[r][i] # d} = {i \in DOMAIN R[r] : R[r][i] \notin {d}}
    OBVIOUS
  <2>2. [r \in DOMAIN R |-> Select(R[r], {i \in DOMAIN R[r] : R[r][i] # d})]
          = [r \in DOMAIN R |-> Select(R[r], {i \in DOMAIN R[r] : R[r][i] \notin {d}})]
    BY <2>1
  <2> QED
    BY <2>2 DEF removeDisplay, Kept
<1>3. Kept(R, {d}) \in Rows /\ Once(Kept(R, {d})) /\ Items(Kept(R, {d})) = Items(R) \ {d}
  BY KeptProperties, OrderKeptOnce
<1>4. Once(Kept(R, Hidden))
  BY KeptProperties, OrderKeptOnce
<1> QED
  BY <1>1, <1>2, <1>3, <1>4, NonEmptyProperties, SoundProperties

(* A move changes the place of one display, and no other's.                  *)
LEMMA MoveProperties ==
  ASSUME NEW g \in Rows, Once(g), NEW src \in DOMAIN g, NEW i \in DOMAIN g[src],
         NEW dst \in 1 .. Len(g) + 1, NEW j \in Nat \ {0},
         dst = src => j <= Len(g[src]),
         dst \in DOMAIN g \ {src} => j <= Len(g[dst]) + 1
  PROVE  LET m == move(g, src, i, dst, j)
         IN  /\ m \in Rows /\ Sound(m) /\ Items(m) = Items(g)
             /\ \A a, b \in Items(g) \ {g[src][i]} : Before(m, a, b) => Before(g, a, b)
             /\ (/\ Within(g) /\ dst <= maxRows /\ 1 <= maxItemsPerRow
                 /\ dst \in DOMAIN g \ {src} => Len(g[dst]) < maxItemsPerRow)
                => Within(m)
<1> DEFINE item == g[src][i]
           rest == [g EXCEPT ![src] = RemoveAt(g[src], i)]
           Q == IF dst > Len(g) THEN Append(rest, <<item>>)
                ELSE [rest EXCEPT ![dst] = InsertAt(rest[dst], j, item)]
           Free == /\ Within(g) /\ dst <= maxRows /\ 1 <= maxItemsPerRow
                   /\ dst \in DOMAIN g \ {src} => Len(g[dst]) < maxItemsPerRow
<1>0. /\ Len(g) \in Nat /\ DOMAIN g = 1 .. Len(g)
      /\ \A r \in DOMAIN g : Len(g[r]) \in Nat
      /\ item \in Displays /\ item \in Items(g)
  BY RowsProperties, ItemsProperties
<1>1. /\ rest \in Rows /\ Len(rest) = Len(g) /\ DOMAIN rest = DOMAIN g
      /\ \A r \in DOMAIN g : Len(rest[r]) = IF r = src THEN Len(g[r]) - 1 ELSE Len(g[r])
      /\ Items(rest) = Items(g) \ {item}
      /\ \A a, b : Before(rest, a, b) => Before(g, a, b)
  BY TakeProperties
<1>2. Once(rest)
  BY <1>1, OrderKeptOnce
<1>3. move(g, src, i, dst, j) = NonEmpty(Q)
  BY DEF move
<1> HIDE DEF item, rest
<1>4. item \in Displays \ Items(rest)
  BY <1>0, <1>1
<1>5. /\ Q \in Rows /\ Once(Q) /\ Items(Q) = Items(rest) \cup {item}
      /\ \A a, b : a # item /\ b # item /\ Before(Q, a, b) => Before(rest, a, b)
      /\ Free => Len(Q) <= maxRows /\ \A r \in DOMAIN Q : Len(Q[r]) <= maxItemsPerRow
  <2>0. \A r \in DOMAIN g : Within(g) => Len(rest[r]) <= maxItemsPerRow
    <3>1. \A r \in DOMAIN g : Within(g) => Len(g[r]) <= maxItemsPerRow
      BY DEF Within
    <3>2. maxItemsPerRow \in Nat
      BY LimitsAssumption
    <3> QED
      BY <1>0, <1>1, <3>1, <3>2
  <2>1. CASE dst > Len(g)
    <3> DEFINE one == <<item>>
    <3>1. Q = Append(rest, one)
      BY <2>1
    <3>2. Len(one) = 1
      OBVIOUS
    <3>3. /\ Append(rest, one) \in Rows /\ Len(Append(rest, one)) = Len(rest) + 1
          /\ \A r \in DOMAIN rest : Append(rest, one)[r] = rest[r]
          /\ Append(rest, one)[Len(rest) + 1] = one
          /\ Items(Append(rest, one)) = Items(rest) \cup {item}
          /\ \A a, b : a # item /\ b # item /\ Before(Append(rest, one), a, b)
                         => Before(rest, a, b)
          /\ Once(Append(rest, one))
      BY <1>1, <1>2, <1>4, NewRowProperties
    <3> HIDE DEF one, Q
    <3>4. ASSUME Free
          PROVE  Len(Q) <= maxRows /\ \A r \in DOMAIN Q : Len(Q[r]) <= maxItemsPerRow
      <4>1. DOMAIN Q = 1 .. Len(g) + 1
        BY <1>1, <3>1, <3>3, RowsProperties
      <4>2. Len(Q) = dst
        BY <1>0, <1>1, <2>1, <3>1, <3>3
      <4>3. ASSUME NEW r \in DOMAIN Q PROVE Len(Q[r]) <= maxItemsPerRow
        <5>1. r \in DOMAIN g \/ r = Len(g) + 1
          BY <1>0, <4>1
        <5> QED
          BY <1>1, <2>0, <3>1, <3>2, <3>3, <3>4, <5>1
      <4> QED
        BY <3>4, <4>2, <4>3
    <3> HIDE DEF Free
    <3> QED
      BY <3>1, <3>3, <3>4
  <2>2. CASE ~(dst > Len(g))
    <3> DEFINE t == InsertAt(rest[dst], j, item)
    <3>1. dst \in DOMAIN g /\ Q = [rest EXCEPT ![dst] = t]
      BY <1>0, <2>2
    <3>2. j \in 1 .. Len(rest[dst]) + 1
      <4>1. CASE dst = src
        <5>1. Len(rest[dst]) = Len(g[src]) - 1 /\ j <= Len(g[src]) /\ Len(g[src]) \in Nat
          BY <1>0, <1>1, <4>1
        <5> QED
          BY <5>1
      <4>2. CASE dst # src
        <5>1. Len(rest[dst]) = Len(g[dst]) /\ j <= Len(g[dst]) + 1 /\ Len(g[dst]) \in Nat
          BY <1>0, <1>1, <3>1, <4>2
        <5> QED
          BY <5>1
      <4> QED
        BY <4>1, <4>2
    <3>3. rest[dst] \in Seq(Displays)
      BY <1>1, <3>1, RowsProperties
    <3>4. PutInto(rest[dst], j, item, t)
      BY <1>4, <3>2, <3>3, PutIntoProperties
    <3> HIDE DEF t
    <3> DEFINE P == WithRow(rest, dst, t)
    <3>5. /\ P \in Rows /\ Len(P) = Len(rest) /\ DOMAIN P = DOMAIN rest
          /\ Items(P) = Items(rest) \cup {item}
          /\ \A a, b : a # item /\ b # item /\ Before(P, a, b) => Before(rest, a, b)
          /\ Once(P)
      <4>1. rest \in Rows /\ dst \in DOMAIN rest
        BY <1>1, <3>1
      <4> HIDE DEF Q
      <4> QED
        BY <1>2, <1>4, <3>2, <3>4, <4>1, PutProperties
    <3>6. P[dst] = t /\ \A r \in DOMAIN g : r # dst => P[r] = rest[r]
      BY <1>1, <3>1 DEF WithRow
    <3>7. Q = P
      BY <3>1 DEF WithRow
    <3> HIDE DEF P, Q
    <3>8. ASSUME Free
          PROVE  Len(P) <= maxRows /\ \A r \in DOMAIN P : Len(P[r]) <= maxItemsPerRow
      <4>1. Len(P) <= maxRows
        BY <1>1, <3>5, <3>8 DEF Within
      <4>2. Len(t) <= maxItemsPerRow
        <5>1. CASE dst = src
          <6>1. Len(t) = Len(g[src])
            BY <1>0, <1>1, <3>4, <5>1 DEF PutInto
          <6> QED
            BY <3>8, <6>1 DEF Within
        <5>2. CASE dst # src
          <6>1. Len(t) = Len(g[dst]) + 1 /\ Len(g[dst]) < maxItemsPerRow
            BY <1>1, <3>1, <3>4, <3>8, <5>2 DEF PutInto
          <6> QED
            BY <1>0, <3>1, <6>1, LimitsAssumption
        <5> QED
          BY <5>1, <5>2
      <4>3. \A r \in DOMAIN P : Len(P[r]) <= maxItemsPerRow
        BY <1>1, <2>0, <3>5, <3>6, <3>8, <4>2
      <4> QED
        BY <4>1, <4>3
    <3> HIDE DEF Free
    <3> QED
      BY <3>5, <3>7, <3>8
  <2> QED
    BY <2>1, <2>2
<1> HIDE DEF Q, Free
<1>6. /\ NonEmpty(Q) \in Rows /\ Sound(NonEmpty(Q)) /\ Items(NonEmpty(Q)) = Items(g)
      /\ \A a, b : Before(NonEmpty(Q), a, b) => Before(Q, a, b)
  BY <1>0, <1>1, <1>5, NonEmptyProperties, SoundProperties
<1>7. Free => Within(NonEmpty(Q))
  <2>1. Len(NonEmpty(Q)) <= Len(Q) /\ Len(NonEmpty(Q)) \in Nat /\ Len(Q) \in Nat
    BY <1>5, <1>6, NonEmptyProperties, RowsProperties
  <2>2. \A q \in DOMAIN NonEmpty(Q) : \E r \in DOMAIN Q : NonEmpty(Q)[q] = Q[r]
    BY <1>5, NonEmptyProperties
  <2>3. Free => Len(NonEmpty(Q)) <= maxRows
    BY <1>5, <2>1, LimitsAssumption
  <2> QED
    BY <1>5, <2>2, <2>3 DEF Within
<1>8. \A a, b \in Items(g) \ {item} : Before(NonEmpty(Q), a, b) => Before(g, a, b)
  BY <1>1, <1>5, <1>6
<1> QED
  BY <1>3, <1>6, <1>7, <1>8 DEF Free, item

(* The new rows have the new display, each display once.                     *)
LEMMA AddProperties ==
  ASSUME NEW s \in Settings \cup {None}, s # None => Sound(s.rows),
         NEW d \in Displays, s # None => d \notin Items(s.rows)
  PROVE  /\ addDisplay(s, d) \in Rows /\ Sound(addDisplay(s, d))
         /\ Items(addDisplay(s, d)) \subseteq
              {d} \cup IF s = None THEN {} ELSE Items(s.rows)
<1> DEFINE old == IF s = None THEN <<>> ELSE s.rows
           none == <<>>
<1>1. none \in Rows /\ Items(none) = {} /\ Sound(none)
  BY DEF Rows, Items, Sound
<1>2. old \in Rows /\ Sound(old) /\ d \in Displays \ Items(old)
  BY <1>1 DEF Settings
<1>3. Items(old) = IF s = None THEN {} ELSE Items(s.rows)
  BY <1>1
<1>4. Once(old)
  BY <1>2, SoundProperties
<1>5. \/ old = none /\ addDisplay(s, d) = << <<d>> >>
      \/ addDisplay(s, d) = Append(old, <<d>>)
      \/ old # none /\ addDisplay(s, d) = [old EXCEPT ![Len(old)] = Append(Last(old), d)]
  BY DEF addDisplay
<1>6. << <<d>> >> = Append(none, <<d>>)
  OBVIOUS
<1> HIDE DEF old, none
<1>7. CASE addDisplay(s, d) = Append(old, <<d>>)
  <2> DEFINE one == <<d>>
             Q == Append(old, one)
  <2>1. /\ Q \in Rows /\ Len(Q) = Len(old) + 1
        /\ \A r \in DOMAIN old : Q[r] = old[r]
        /\ Q[Len(old) + 1] = one
        /\ Items(Q) = Items(old) \cup {d}
        /\ Once(Q)
    BY <1>2, <1>4, NewRowProperties
  <2>2. one # <<>>
    OBVIOUS
  <2> HIDE DEF one
  <2>3. \A r \in DOMAIN Q : r \in DOMAIN old \/ r = Len(old) + 1
    <3>1. DOMAIN Q = 1 .. Len(old) + 1 /\ DOMAIN old = 1 .. Len(old) /\ Len(old) \in Nat
      BY <1>2, <2>1, RowsProperties
    <3> QED
      BY <3>1
  <2> HIDE DEF Q
  <2>4. \A r \in DOMAIN Q : Q[r] # <<>>
    BY <1>2, <2>1, <2>2, <2>3 DEF Sound
  <2>5. Sound(Q)
    BY <2>1, <2>4 DEF Sound, Once
  <2> QED
    BY <1>3, <1>7, <2>1, <2>5 DEF Q, one
<1>8. CASE old # none /\ addDisplay(s, d) = [old EXCEPT ![Len(old)] = Append(Last(old), d)]
  <2> DEFINE n == Len(old)
             t == Append(old[n], d)
             j0 == Len(old[n]) + 1
             Q == WithRow(old, n, t)
  <2>1. n \in DOMAIN old
    <3>1. old \in Seq(Seq(Displays)) /\ old # <<>>
      BY <1>2, <1>8 DEF Rows, none
    <3> QED
      BY <3>1, EmptySeq, LenProperties
  <2>2. addDisplay(s, d) = Q
    BY <1>8 DEF Last, WithRow
  <2>3. old[n] \in Seq(Displays) /\ Len(old[n]) \in Nat
    BY <1>2, <2>1, RowsProperties
  <2>4. PutInto(old[n], j0, d, t)
    BY <2>3, PutIntoProperties
  <2>5. t # <<>>
    <3>1. Len(t) = Len(old[n]) + 1
      BY <2>4 DEF PutInto
    <3> HIDE DEF t
    <3>2. Len(t) # 0
      BY <2>3, <3>1
    <3> QED
      BY <3>2
  <2>6. j0 \in 1 .. Len(old[n]) + 1
    BY <2>3
  <2> HIDE DEF t, n, j0
  <2>7. Q \in Rows /\ DOMAIN Q = DOMAIN old /\ Items(Q) = Items(old) \cup {d} /\ Once(Q)
    <3>1. old \in Rows /\ Once(old) /\ d \in Displays \ Items(old)
      BY <1>2, <1>4
    <3> QED
      BY <2>1, <2>4, <2>6, <3>1, PutProperties
  <2>8. \A r \in DOMAIN Q : Q[r] # <<>>
    <3>1. Q[n] = t /\ \A r \in DOMAIN old : r # n => Q[r] = old[r]
      BY <2>1 DEF WithRow
    <3>2. \A r \in DOMAIN old : old[r] # <<>>
      BY <1>2 DEF Sound
    <3> HIDE DEF Q
    <3> QED
      BY <2>5, <2>7, <3>1, <3>2
  <2> HIDE DEF Q
  <2>9. Sound(Q)
    BY <2>7, <2>8 DEF Sound, Once
  <2> QED
    BY <1>3, <2>2, <2>7, <2>9
<1> QED
  BY <1>5, <1>6, <1>7, <1>8

(* The number of a new request is none of those under way.                   *)
LEMMA NewIdProperties ==
  ASSUME IsFiniteSet(requests)
  PROVE  NewId \in Nat /\ \A r \in requests : r.id # NewId
<1> DEFINE n == Cardinality(requests)
           f == [r \in requests |-> r.id]
           X == {r.id : r \in requests}
<1>1. n \in Nat
  BY FS_CardinalityType
<1>2. f \in Surjection(requests, X)
  BY DEF Surjection
<1>3. IsFiniteSet(X) /\ Cardinality(X) <= n
  BY <1>2, FS_Surjection
<1>4. IsFiniteSet(0 .. n) /\ Cardinality(0 .. n) = n + 1
  BY <1>1, FS_Interval
<1>5. ~(0 .. n \subseteq X)
  <2> SUFFICES ASSUME 0 .. n \subseteq X PROVE FALSE
    OBVIOUS
  <2>1. Cardinality(0 .. n) <= Cardinality(X) /\ Cardinality(X) \in Nat
    BY <1>3, FS_Subset, FS_CardinalityType
  <2> HIDE DEF n, X
  <2> QED
    BY <1>1, <1>3, <1>4, <2>1
<1>6. PICK m \in 0 .. n : \A r \in requests : r.id # m
  BY <1>5
<1>7. NewId \in 0 .. n /\ \A r \in requests : r.id # NewId
  BY <1>6 DEF NewId
<1> QED
  BY <1>1, <1>7

-----------------------------------------------------------------------------
(* The invariant: rows are sound wherever they are, what is loaded while it  *)
(* is under way included, and no display in them is newer than the newest,   *)
(* so that the next one is in none of them.                                  *)
Good(R, n) == Sound(R) /\ Items(R) \subseteq 1 .. n

GoodRows ==
  /\ server \notin {None, Unparsable} => Good(server, created)
  /\ settings # None => Good(settings.rows, created)
  /\ Good(defaults, created)
  /\ \A r \in requests : Good(r.rows, created)

\* No load follows one that has left its mark for ever.
NoLoadAfter == unread => \A r \in requests : r.kind # "load"

IInv ==
  TypeOK /\ IsFiniteSet(requests) /\ LoadingIffRequested /\ NoLoadAfter /\ GoodRows

LEMMA GoodStays ==
  ASSUME NEW R, NEW m \in Nat, NEW n \in Nat, m <= n, Good(R, m)
  PROVE  Good(R, n)
<1>1. 1 .. m \subseteq 1 .. n
  OBVIOUS
<1> QED
  BY <1>1 DEF Good

LEMMA OneDisplayGood ==
  ASSUME NEW d \in Displays, NEW n \in Nat, d <= n
  PROVE  << <<d>> >> \in Rows /\ Good(<< <<d>> >>, n)
<1>1. None \in Settings \cup {None} /\ addDisplay(None, d) = << <<d>> >>
  BY DEF addDisplay
<1>2. /\ addDisplay(None, d) \in Rows /\ Sound(addDisplay(None, d))
      /\ Items(addDisplay(None, d)) \subseteq {d} \cup {}
  BY <1>1, AddProperties
<1>3. d \in 1 .. n
  BY DEF Displays
<1> QED
  BY <1>1, <1>2, <1>3 DEF Good

LEMMA RequestProperties ==
  ASSUME IsFiniteSet(requests), NEW kind \in {"load", "save"}, NEW rows \in Rows
  PROVE  /\ Request(kind, rows) \in Requests
         /\ Request(kind, rows).kind = kind /\ Request(kind, rows).rows = rows
BY NewIdProperties DEF Request, Requests

LEMMA SavedFirst ==
  SavedDisplays \in 0 .. MaxDisplays /\ (Saved # None => Good(Saved, SavedDisplays))
<1>1. MaxDisplays \in Nat
  BY LimitsAssumption
<1>2. CASE Saved = None
  BY <1>1, <1>2 DEF SavedDisplays
<1>3. CASE Saved # None
  <2>1. Saved \in Rows /\ Sound(Saved) /\ Items(Saved) = 1 .. SavedDisplays
    BY <1>3, SavedAssumption
  <2>2. Items(Saved) \subseteq 1 .. MaxDisplays
    <3> SUFFICES ASSUME NEW d \in Items(Saved) PROVE d \in Displays
      BY DEF Displays
    <3>1. PICK r \in DOMAIN Saved : \E i \in DOMAIN Saved[r] : Saved[r][i] = d
      BY ItemsProperties
    <3> QED
      BY <2>1, <3>1, RowsProperties
  <2>3. /\ IsFiniteSet(1 .. MaxDisplays)
        /\ Cardinality(1 .. MaxDisplays) = IF 1 > MaxDisplays THEN 0 ELSE MaxDisplays - 1 + 1
    BY <1>1, FS_Interval
  <2>4. Cardinality(1 .. MaxDisplays) = MaxDisplays
    BY <1>1, <2>3
  <2>5. IsFiniteSet(Items(Saved)) /\ Cardinality(Items(Saved)) <= MaxDisplays
    BY <2>2, <2>3, <2>4, FS_Subset
  <2>6. Cardinality(Items(Saved)) \in Nat
    BY <2>5, FS_CardinalityType
  <2>7. SavedDisplays = Cardinality(Items(Saved))
    BY <1>3 DEF SavedDisplays
  <2>8. SavedDisplays \in 0 .. MaxDisplays
    BY <1>1, <2>5, <2>6, <2>7
  <2> QED
    BY <2>1, <2>8 DEF Good
<1> QED
  BY <1>2, <1>3

LEMMA InitInv == Init => IInv
<1> SUFFICES ASSUME Init PROVE IInv
  OBVIOUS
<1>1. <<>> \in Rows /\ Good(<<>>, created)
  BY DEF Rows, Good, Sound, Items
<1>2. TypeOK
  BY <1>1, SavedFirst, SavedAssumption DEF Init, TypeOK
<1>3. IsFiniteSet(requests)
  BY FS_EmptySet DEF Init
<1>4. LoadingIffRequested /\ NoLoadAfter
  BY DEF Init, LoadingIffRequested, NoLoadAfter
<1>5. GoodRows
  BY <1>1, SavedFirst DEF Init, GoodRows
<1> QED
  BY <1>2, <1>3, <1>4, <1>5 DEF IInv

(* Saving rows that are good leaves everything good.                         *)
LEMMA SaveInv ==
  ASSUME IInv, NEW rows \in Rows, saveSettings(rows), Good(rows, created'),
         created' \in 0 .. MaxDisplays, created <= created',
         dialog' \in BOOLEAN,
         UNCHANGED <<server, unread, defaults, isLoading, error, mounted, disturbances>>
  PROVE  IInv'
<1> DEFINE new == Request("save", rows)
<1>1. new \in Requests /\ new.kind = "save" /\ new.rows = rows
  BY RequestProperties DEF IInv
<1> HIDE DEF new
<1>2. requests' = requests \cup {new}
  BY DEF saveSettings, new
<1>3. settings' \in Settings /\ settings'.rows = rows
  <2>1. (settings # None /\ settings.limited) \in BOOLEAN
    OBVIOUS
  <2>2. settings' = [rows |-> rows, limited |-> settings # None /\ settings.limited]
    BY DEF saveSettings
  <2> QED
    BY <2>1, <2>2, Zenon DEF Settings
<1>4. TypeOK'
  BY <1>1, <1>2, <1>3 DEF IInv, TypeOK
<1>5. IsFiniteSet(requests)'
  BY <1>2, FS_AddElement DEF IInv
<1>6. LoadingIffRequested' /\ NoLoadAfter'
  BY <1>1, <1>2 DEF IInv, LoadingIffRequested, NoLoadAfter
<1>7. GoodRows'
  <2>1. created \in Nat /\ created' \in Nat
    BY LimitsAssumption DEF IInv, TypeOK
  <2>2. \A R : Good(R, created) => Good(R, created')
    BY <2>1, GoodStays
  <2>3. (server \notin {None, Unparsable} => Good(server, created')) /\ Good(defaults, created')
    BY <2>2 DEF IInv, GoodRows
  <2>4. \A r \in requests' : Good(r.rows, created')
    BY <1>1, <1>2, <2>2 DEF IInv, GoodRows
  <2> QED
    BY <1>3, <2>3, <2>4 DEF GoodRows
<1> QED
  BY <1>4, <1>5, <1>6, <1>7 DEF IInv

(* So does the answer to a request.                                          *)
LEMMA ServedInv ==
  ASSUME IInv, NEW r \in requests, NEW rows \in Rows, NEW parsed \in BOOLEAN,
         Served(r, rows, parsed),
         Good(rows, created),
         server' = server \/ server' = rows,
         UNCHANGED <<unread, settings, defaults, isLoading, error, mounted, dialog,
                     created, disturbances>>
  PROVE  IInv'
<1> DEFINE new == [r EXCEPT !.rows = rows, !.parsed = parsed, !.done = TRUE]
<1>0. r \in Requests
  BY DEF IInv, TypeOK
<1>1. new \in Requests /\ new.kind = r.kind /\ new.rows = rows
  BY <1>0 DEF Requests
<1> HIDE DEF new
<1>2. requests' = (requests \ {r}) \cup {new}
  BY DEF Served, new
<1>3. TypeOK'
  BY <1>1, <1>2 DEF IInv, TypeOK
<1>4. IsFiniteSet(requests)'
  BY <1>2, FS_AddElement, FS_RemoveElement DEF IInv
<1>5. LoadingIffRequested' /\ NoLoadAfter'
  BY <1>1, <1>2 DEF IInv, LoadingIffRequested, NoLoadAfter
<1>6. GoodRows'
  BY <1>1, <1>2 DEF IInv, GoodRows
<1> QED
  BY <1>3, <1>4, <1>5, <1>6 DEF IInv

(* And the end of a request.                                                 *)
LEMMA EndInv ==
  ASSUME IInv, NEW r \in requests, requests' = requests \ {r},
         IF r.kind = "load" THEN isLoading' = unread' ELSE UNCHANGED <<isLoading, unread>>,
         isLoading' \in BOOLEAN,
         error' \in BOOLEAN, disturbances' \in Nat,
         settings' = settings \/ settings' = [rows |-> r.rows, limited |-> TRUE],
         UNCHANGED <<server, defaults, mounted, dialog, created>>
  PROVE  IInv'
<1>1. settings' \in Settings \cup {None}
  <2>1. settings \in Settings \cup {None} /\ r.rows \in Rows
    BY DEF IInv, TypeOK, Requests
  <2>2. [rows |-> r.rows, limited |-> TRUE] \in Settings
    BY <2>1, Zenon DEF Settings
  <2> QED
    BY <2>1, <2>2
<1>2. unread' \in BOOLEAN
  BY DEF IInv, TypeOK
<1>3. TypeOK'
  BY <1>1, <1>2 DEF IInv, TypeOK
<1>4. IsFiniteSet(requests)'
  BY FS_RemoveElement DEF IInv
<1>5. LoadingIffRequested' /\ NoLoadAfter'
  <2>1. CASE r.kind = "load"
    BY <2>1 DEF IInv, LoadingIffRequested, NoLoadAfter
  <2>2. CASE r.kind # "load"
    BY <2>2 DEF IInv, LoadingIffRequested, NoLoadAfter
  <2> QED
    BY <2>1, <2>2
<1>6. GoodRows'
  <2>1. settings' # None => Good(settings'.rows, created)
    BY DEF IInv, GoodRows
  <2> QED
    BY <2>1 DEF IInv, GoodRows
<1> QED
  BY <1>3, <1>4, <1>5, <1>6 DEF IInv

(* What is shown when there is a grid, and what is known of the store then.  *)
LEMMA GridProperties ==
  ASSUME IInv, settings # None
  PROVE  /\ settings.rows \in Rows /\ Once(settings.rows)
         /\ Sound(settings.rows) /\ Items(settings.rows) \subseteq 1 .. created
         /\ grid \in Rows /\ Once(grid)
         /\ Items(grid) \subseteq Items(settings.rows)
         /\ Within(settings.rows) => Within(grid)
<1> DEFINE R == settings.rows
<1>1. R \in Rows /\ Sound(R) /\ Items(R) \subseteq 1 .. created
  BY DEF IInv, TypeOK, Settings, GoodRows, Good
<1> HIDE DEF R
<1>2. Once(R)
  BY <1>1, SoundProperties
<1>3. grid = Kept(R, Hidden) /\ Once(grid)
  BY <1>1, <1>2, FilterProperties DEF grid, R
<1>4. /\ grid \in Rows /\ Len(grid) = Len(R)
      /\ \A r \in DOMAIN R : Len(grid[r]) <= Len(R[r])
      /\ Items(grid) = Items(R) \ Hidden
  BY <1>1, <1>3, KeptProperties
<1>5. ASSUME Within(R) PROVE Within(grid)
  <2>1. DOMAIN grid = DOMAIN R
    BY <1>1, <1>4, RowsProperties
  <2>2. ASSUME NEW r \in DOMAIN R PROVE Len(grid[r]) <= maxItemsPerRow
    <3>1. Len(grid[r]) \in Nat /\ Len(R[r]) \in Nat
      BY <1>1, <1>4, <2>1, RowsProperties
    <3>2. Len(grid[r]) <= Len(R[r]) /\ Len(R[r]) <= maxItemsPerRow
      BY <1>4, <1>5 DEF Within
    <3> QED
      BY <3>1, <3>2, LimitsAssumption
  <2> QED
    BY <1>4, <1>5, <2>1, <2>2 DEF Within
<1> QED
  BY <1>1, <1>2, <1>3, <1>4, <1>5 DEF R

(* A drag saves rows that are good, and moves one display.                   *)
LEMMA DragInv ==
  ASSUME IInv, handleItemsChange
  PROVE  /\ IInv'
         /\ Items(settings'.rows) = Items(grid)
         /\ \E d \in Items(grid) : \A a, b \in Items(grid) \ {d} :
              Before(settings'.rows, a, b) <=> Before(grid, a, b)
         /\ Within(settings.rows) => Within(settings'.rows)
<1> DEFINE g == grid
<1>0. settings # None
  BY DEF handleItemsChange, GridShown
<1>1. /\ g \in Rows /\ Once(g) /\ Items(g) \subseteq 1 .. created
      /\ Within(settings.rows) => Within(g)
  BY <1>0, GridProperties
<1>2. /\ Len(g) \in Nat /\ DOMAIN g = 1 .. Len(g)
      /\ \A r \in DOMAIN g : Len(g[r]) \in Nat
  BY <1>1, RowsProperties
<1>3. PICK src \in DOMAIN g, dst \in 1 .. maxRows :
        /\ dst <= IF Len(g) < maxRows THEN Len(g) + 1 ELSE Len(g)
        /\ dst \in DOMAIN g \ {src} => Len(g[dst]) < maxItemsPerRow
        /\ \E i \in DOMAIN g[src], j \in 1 .. maxItemsPerRow :
             /\ j <= CASE dst = src -> Len(g[src])
                       [] dst > Len(g) -> 1
                       [] OTHER -> Len(g[dst]) + 1
             /\ saveSettings(move(g, src, i, dst, j))
  BY DEF handleItemsChange
<1>4. PICK i \in DOMAIN g[src], j \in 1 .. maxItemsPerRow :
        /\ j <= CASE dst = src -> Len(g[src])
                  [] dst > Len(g) -> 1
                  [] OTHER -> Len(g[dst]) + 1
        /\ saveSettings(move(g, src, i, dst, j))
  BY <1>3
<1> DEFINE m == move(g, src, i, dst, j)
           item == g[src][i]
<1> HIDE DEF g
<1>5. maxRows \in Nat /\ maxItemsPerRow \in Nat
  BY LimitsAssumption
<1>6. /\ dst \in 1 .. Len(g) + 1 /\ dst <= maxRows
      /\ j \in Nat \ {0} /\ 1 <= maxItemsPerRow
  BY <1>2, <1>3, <1>5
<1>7. /\ dst = src => j <= Len(g[src])
      /\ dst \in DOMAIN g \ {src} => j <= Len(g[dst]) + 1
  <2>1. CASE dst = src
    BY <1>4, <2>1
  <2>2. CASE dst \in DOMAIN g \ {src}
    <3>1. dst # src /\ ~(dst > Len(g))
      BY <1>2, <2>2
    <3> QED
      BY <1>4, <2>2, <3>1
  <2> QED
    BY <2>1, <2>2
<1>8. /\ m \in Rows /\ Sound(m) /\ Items(m) = Items(g)
      /\ \A a, b \in Items(g) \ {item} : Before(m, a, b) => Before(g, a, b)
      /\ Within(g) => Within(m)
  <2> HIDE DEF m
  <2>1. /\ m \in Rows /\ Sound(m) /\ Items(m) = Items(g)
        /\ \A a, b \in Items(g) \ {g[src][i]} : Before(m, a, b) => Before(g, a, b)
        /\ (/\ Within(g) /\ dst <= maxRows /\ 1 <= maxItemsPerRow
            /\ dst \in DOMAIN g \ {src} => Len(g[dst]) < maxItemsPerRow)
           => Within(m)
    BY <1>1, <1>6, <1>7, MoveProperties DEF m
  <2> QED
    BY <1>3, <1>6, <2>1
<1>9. item \in Items(g)
  BY ItemsProperties
<1>10. saveSettings(m)
  BY <1>4
<1> HIDE DEF m, item
<1>11. settings'.rows = m
  BY <1>10 DEF saveSettings
<1>12. ASSUME NEW a \in Items(g) \ {item}, NEW b \in Items(g) \ {item}, Before(g, a, b)
       PROVE  Before(m, a, b)
  <2>1. a # b /\ ~Before(g, b, a)
    BY <1>1, <1>12, BeforeAsymmetric DEF Once
  <2>2. Before(m, a, b) \/ Before(m, b, a)
    BY <1>8, <2>1, BeforeTotal
  <2> QED
    BY <1>8, <2>1, <2>2
<1>13. \E d \in Items(g) : \A a, b \in Items(g) \ {d} : Before(m, a, b) <=> Before(g, a, b)
  BY <1>8, <1>9, <1>12
<1>14. IInv'
  <2>1. UNCHANGED <<server, unread, defaults, isLoading, error, mounted, dialog, created, disturbances>>
    BY DEF handleItemsChange
  <2>2. created' = created /\ created \in 0 .. MaxDisplays /\ dialog' \in BOOLEAN
    BY <2>1 DEF IInv, TypeOK
  <2>3. created <= created'
    BY <2>2, LimitsAssumption
  <2>4. Good(m, created')
    BY <1>1, <1>8, <2>2 DEF Good
  <2> QED
    BY <1>8, <1>10, <2>1, <2>2, <2>3, <2>4, SaveInv
<1> QED
  BY <1>1, <1>8, <1>11, <1>13, <1>14 DEF g

(* The other actions of the user that save.                                  *)
LEMMA UserInv ==
  ASSUME IInv,
         \/ handleUpdateDisplay
         \/ \E d \in Displays : handleRemoveDisplay(d)
         \/ handleNewDisplay \/ handleResetClick
  PROVE  IInv'
<1>0. /\ created \in 0 .. MaxDisplays /\ created \in Nat /\ MaxDisplays \in Nat
      /\ dialog \in BOOLEAN /\ settings \in Settings \cup {None} /\ defaults \in Rows
  BY LimitsAssumption DEF IInv, TypeOK
<1>1. settings # None => /\ settings.rows \in Rows /\ Good(settings.rows, created)
                         /\ Once(settings.rows)
  BY GridProperties DEF Good
<1>2. CASE handleUpdateDisplay
  <2>1. settings # None /\ saveSettings(settings.rows)
    BY <1>2 DEF handleUpdateDisplay, GridShown
  <2>2. UNCHANGED <<server, unread, defaults, isLoading, error, mounted, dialog, created, disturbances>>
    BY <1>2 DEF handleUpdateDisplay
  <2>3. created <= created'
    BY <1>0, <2>2
  <2> QED
    BY <1>0, <1>1, <2>1, <2>2, <2>3, SaveInv
<1>3. ASSUME NEW d \in Displays, handleRemoveDisplay(d)
      PROVE  IInv'
  <2>1. settings # None /\ saveSettings(removeDisplay(settings.rows, d))
    BY <1>3 DEF handleRemoveDisplay, GridShown
  <2>2. UNCHANGED <<server, unread, defaults, isLoading, error, mounted, dialog, created, disturbances>>
    BY <1>3 DEF handleRemoveDisplay
  <2>3. created <= created'
    BY <1>0, <2>2
  <2>4. /\ removeDisplay(settings.rows, d) \in Rows
        /\ Good(removeDisplay(settings.rows, d), created')
    BY <1>1, <2>1, <2>2, FilterProperties DEF Good
  <2> QED
    BY <1>0, <2>1, <2>2, <2>3, <2>4, SaveInv
<1>4. CASE handleNewDisplay
  <2>1. /\ created < MaxDisplays /\ created' = created + 1 /\ dialog' = FALSE
        /\ saveSettings(addDisplay(settings, created'))
    BY <1>4 DEF handleNewDisplay
  <2>2. UNCHANGED <<server, unread, defaults, isLoading, error, mounted, disturbances>>
    BY <1>4 DEF handleNewDisplay
  <2>3. /\ created <= created' /\ created' \in 0 .. MaxDisplays /\ created' \in Displays
        /\ created' \notin 1 .. created /\ 1 .. created \subseteq 1 .. created'
        /\ created' \in 1 .. created'
    BY <1>0, <2>1 DEF Displays
  <2>4. settings # None => /\ Sound(settings.rows) /\ created' \notin Items(settings.rows)
                           /\ Items(settings.rows) \subseteq 1 .. created
    BY <1>1, <2>3 DEF Good
  <2>5. /\ addDisplay(settings, created') \in Rows /\ Sound(addDisplay(settings, created'))
        /\ Items(addDisplay(settings, created')) \subseteq
             {created'} \cup IF settings = None THEN {} ELSE Items(settings.rows)
    BY <1>0, <2>3, <2>4, AddProperties
  <2>6. Good(addDisplay(settings, created'), created')
    BY <2>3, <2>4, <2>5 DEF Good
  <2> QED
    BY <2>1, <2>2, <2>3, <2>5, <2>6, SaveInv
<1>5. CASE handleResetClick
  <2>1. saveSettings(defaults)
    BY <1>5 DEF handleResetClick
  <2>2. UNCHANGED <<server, unread, defaults, isLoading, error, mounted, dialog, created, disturbances>>
    BY <1>5 DEF handleResetClick
  <2>3. created <= created' /\ Good(defaults, created')
    BY <1>0, <2>2 DEF IInv, GoodRows
  <2> QED
    BY <1>0, <2>1, <2>2, <2>3, SaveInv
<1> QED
  BY <1>2, <1>3, <1>4, <1>5

(* The page, whose defaults are new displays, and the dialog.                *)
LEMMA PageInv ==
  ASSUME IInv, Mount \/ Unmount \/ handleNewClick \/ handleNewDialogClose
  PROVE  IInv'
<1>0. created \in Nat /\ MaxDisplays \in Nat
  BY LimitsAssumption DEF IInv, TypeOK
<1>1. CASE Mount
  <2>1. /\ created < MaxDisplays /\ created' = created + 1 /\ mounted' = TRUE
        /\ defaults' = << <<created'>> >>
        /\ UNCHANGED <<server, unread, settings, dialog, disturbances>>
    BY <1>1 DEF Mount
  <2>2. /\ created <= created' /\ created' \in 0 .. MaxDisplays /\ created' \in Displays
        /\ created' \in Nat
    BY <1>0, <2>1 DEF Displays
  <2>3. defaults' \in Rows /\ Good(defaults', created')
    BY <2>1, <2>2, OneDisplayGood
  <2>4. \A R : Good(R, created) => Good(R, created')
    BY <1>0, <2>2, GoodStays
  <2>5. CASE isLoading
    <3>1. UNCHANGED <<isLoading, error, requests>>
      BY <1>1, <2>5 DEF Mount
    <3>2. TypeOK'
      BY <2>1, <2>2, <2>3, <3>1 DEF IInv, TypeOK
    <3>3. LoadingIffRequested' /\ NoLoadAfter'
      BY <2>1, <3>1 DEF IInv, LoadingIffRequested, NoLoadAfter
    <3>4. GoodRows'
      BY <2>1, <2>3, <2>4, <3>1 DEF IInv, GoodRows
    <3> QED
      BY <3>1, <3>2, <3>3, <3>4 DEF IInv
  <2>6. CASE ~isLoading
    <3> DEFINE new == Request("load", defaults')
    <3>1. new \in Requests /\ new.kind = "load" /\ new.rows = defaults'
      BY <2>3, RequestProperties DEF IInv
    <3>2. isLoading' = TRUE /\ error' = FALSE /\ requests' = requests \cup {new}
      BY <1>1, <2>6 DEF Mount
    <3> HIDE DEF new
    <3>3. TypeOK'
      BY <2>1, <2>2, <2>3, <3>1, <3>2 DEF IInv, TypeOK
    <3>4. IsFiniteSet(requests)'
      BY <3>2, FS_AddElement DEF IInv
    <3>5. LoadingIffRequested' /\ NoLoadAfter'
      BY <2>1, <2>6, <3>1, <3>2 DEF IInv, LoadingIffRequested, NoLoadAfter
    <3>6. GoodRows'
      BY <2>1, <2>3, <2>4, <3>1, <3>2 DEF IInv, GoodRows
    <3> QED
      BY <3>3, <3>4, <3>5, <3>6 DEF IInv
  <2> QED
    BY <2>5, <2>6
<1>2. CASE Unmount \/ handleNewClick \/ handleNewDialogClose
  <2>1. /\ mounted' \in BOOLEAN /\ dialog' \in BOOLEAN /\ disturbances' \in Nat
        /\ UNCHANGED <<server, unread, settings, defaults, isLoading, error, requests, created>>
    <3>1. disturbances \in Nat
      BY DEF IInv, TypeOK
    <3>2. disturbances' = disturbances \/ disturbances' = disturbances + 1
      BY <1>2 DEF Unmount, handleNewClick, handleNewDialogClose, Disturb
    <3>3. disturbances' \in Nat
      BY <3>1, <3>2
    <3>4. mounted \in BOOLEAN /\ dialog \in BOOLEAN
      BY DEF IInv, TypeOK
    <3>5. CASE Unmount
      BY <3>3, <3>5 DEF Unmount
    <3>6. CASE handleNewClick \/ handleNewDialogClose
      BY <3>3, <3>4, <3>6, Zenon DEF handleNewClick, handleNewDialogClose
    <3> QED
      BY <1>2, <3>5, <3>6
  <2>2. TypeOK'
    BY <2>1 DEF IInv, TypeOK
  <2>3. LoadingIffRequested' /\ NoLoadAfter' /\ GoodRows'
    BY <2>1 DEF IInv, LoadingIffRequested, NoLoadAfter, GoodRows
  <2> QED
    BY <2>1, <2>2, <2>3 DEF IInv
<1> QED
  BY <1>1, <1>2

(* The server's answers and their ends.                                      *)
LEMMA AnswerInv ==
  ASSUME IInv, NEW r \in requests,
         \/ ServeLoad(r) \/ ServeSave(r)
         \/ LoadSuccess(r) \/ LoadUnparsable(r) \/ LoadError(r)
         \/ SaveSuccess(r) \/ SaveError(r)
  PROVE  IInv'
<1>0. r.rows \in Rows /\ Good(r.rows, created) /\ r.kind \in {"load", "save"}
  BY DEF IInv, TypeOK, GoodRows, Requests
<1>1. CASE ServeLoad(r)
  <2> DEFINE rows == IF server \in {None, Unparsable} THEN r.rows ELSE server
  <2>1. rows \in Rows /\ Good(rows, created)
    BY <1>0 DEF IInv, TypeOK, GoodRows
  <2>2. Served(r, rows, server # Unparsable)
    BY <1>1 DEF ServeLoad
  <2> HIDE DEF rows
  <2> QED
    BY <1>1, <2>1, <2>2, ServedInv DEF ServeLoad
<1>2. CASE ServeSave(r)
  BY <1>0, <1>2, ServedInv DEF ServeSave
<1>3. CASE LoadSuccess(r) \/ LoadUnparsable(r) \/ LoadError(r)
  <2>1. r.kind = "load" /\ isLoading = TRUE /\ unread = FALSE
    BY <1>3 DEF LoadSuccess, LoadUnparsable, LoadError, IInv, TypeOK, LoadingIffRequested,
                NoLoadAfter
  <2>2. /\ requests' = requests \ {r}
        /\ isLoading' = unread' /\ isLoading' \in BOOLEAN
        /\ error' \in BOOLEAN
        /\ settings' = settings \/ settings' = [rows |-> r.rows, limited |-> TRUE]
        /\ UNCHANGED <<server, defaults, mounted, dialog, created>>
    BY <1>3, <2>1 DEF LoadSuccess, LoadUnparsable, LoadError, IInv, TypeOK
  <2>3. disturbances' \in Nat
    BY <1>3 DEF LoadSuccess, LoadUnparsable, LoadError, Disturb, IInv, TypeOK
  <2> QED
    BY <2>1, <2>2, <2>3, EndInv
<1>4. CASE SaveSuccess(r) \/ SaveError(r)
  <2>1. /\ requests' = requests \ {r}
        /\ r.kind # "load" /\ isLoading' = isLoading
        /\ UNCHANGED <<server, unread, settings, defaults, error, mounted, dialog, created>>
    BY <1>4 DEF SaveSuccess, SaveError
  <2>2. disturbances' \in Nat
    <3>1. disturbances \in Nat
      BY DEF IInv, TypeOK
    <3>2. disturbances' = disturbances \/ disturbances' = disturbances + 1
      BY <1>4 DEF SaveSuccess, SaveError, Disturb
    <3> QED
      BY <3>1, <3>2
  <2>3. error' \in BOOLEAN /\ isLoading' \in BOOLEAN
    BY <2>1 DEF IInv, TypeOK
  <2> QED
    BY <2>1, <2>2, <2>3, EndInv
<1> QED
  BY <1>1, <1>2, <1>3, <1>4

LEMMA NextInv == IInv /\ [Next]_vars => IInv'
<1> SUFFICES ASSUME IInv, [Next]_vars PROVE IInv'
  OBVIOUS
<1>1. CASE Next
  BY <1>1, DragInv, UserInv, PageInv, AnswerInv DEF Next
<1>2. CASE UNCHANGED vars
  BY <1>2 DEF vars, IInv, TypeOK, LoadingIffRequested, NoLoadAfter, GoodRows
<1> QED
  BY <1>1, <1>2

-----------------------------------------------------------------------------
\* The store, the page, the server and the requests keep their shape
\* (web/store/dashboard/settings, gmp/commands/dashboards.js).
THEOREM DashboardTypeCorrect == Spec => []TypeOK
<1>1. IInv => TypeOK
  BY DEF IInv
<1> QED
  BY InitInv, NextInv, <1>1, PTL DEF Spec

\* No display is ever twice in rows and no row is ever empty, for any number
\* of displays, rows and requests (convertGridItemsToDisplays, addDisplay,
\* removeDisplay).
THEOREM RowsStaySound == Spec => []SoundRows
<1>1. IInv => SoundRows
  BY DEF IInv, GoodRows, Good, SoundRows, AllRows
<1> QED
  BY InitInv, NextInv, <1>1, PTL DEF Spec

\* The mark of a load is there as long as one is under way, of which there is
\* never more than one, and longer only after a load whose value could not be
\* parsed (web/store/dashboard/settings/reducers.js, loadSettings, getSetting).
THEOREM LoadingMarkIsTrue == Spec => []LoadingIffRequested
<1>1. IInv => LoadingIffRequested
  BY DEF IInv
<1> QED
  BY InitInv, NextInv, <1>1, PTL DEF Spec

\* A drag moves one display, in a grid of any size (handleDragEnd).
THEOREM DragMovesOnlyOne == Spec => DragMovesOne
<1> DEFINE Moved ==
      /\ Items(settings'.rows) = Items(grid)
      /\ \E d \in Items(grid) : \A a, b \in Items(grid) \ {d} :
           Before(settings'.rows, a, b) <=> Before(grid, a, b)
      /\ Within(settings.rows) => Within(settings'.rows)
<1>1. IInv /\ [Next]_vars => [settings' # settings /\ handleItemsChange => Moved]_vars
  BY DragInv
<1> QED
  BY InitInv, NextInv, <1>1, PTL DEF Spec, DragMovesOne

=============================================================================
