------------------------- MODULE PowerFilterProofs -------------------------
(***************************************************************************)
(* Theorems about PowerFilter and the operations of FilterTerms.           *)
(***************************************************************************)
EXTENDS PowerFilter, FiniteSetTheorems, SequenceTheorems, TLAPS

-----------------------------------------------------------------------------
(* Selecting the elements of a sequence at some places, as in                *)
(* DashboardProofs.                                                          *)

(* Nth enumerates a finite set of numbers in their order.                    *)
LEMMA NthProperties ==
  ASSUME NEW I \in SUBSET Int, IsFiniteSet(I)
  PROVE  /\ Cardinality(I) \in Nat
         /\ \A k \in 1 .. Cardinality(I) : Nth(I, k) \in I
         /\ \A k, l \in 1 .. Cardinality(I) : k < l => Nth(I, k) < Nth(I, l)
         /\ \A i \in I : \E k \in 1 .. Cardinality(I) : Nth(I, k) = i
<1> DEFINE n == Cardinality(I)
           below(i) == {j \in I : j <= i}
           rank(i) == Cardinality(below(i))
           f == [i \in I |-> rank(i)]
<1>0. n \in Nat
  BY FS_CardinalityType
<1>1. ASSUME NEW i \in I
      PROVE  IsFiniteSet(below(i)) /\ rank(i) \in 1 .. n
  <2>1. below(i) \in SUBSET I /\ i \in below(i)
    OBVIOUS
  <2>2. IsFiniteSet(below(i)) /\ rank(i) <= n
    BY <2>1, FS_Subset
  <2>3. rank(i) \in Nat /\ rank(i) # 0
    BY <2>1, <2>2, FS_CardinalityType, FS_EmptySet
  <2> QED
    BY <1>0, <2>2, <2>3
<1>2. ASSUME NEW i \in I, NEW j \in I, i < j
      PROVE  rank(i) < rank(j)
  <2>1. below(i) \in SUBSET below(j) /\ j \in below(j) /\ j \notin below(i)
    <3>1. i \in Int /\ j \in Int /\ \A m \in I : m \in Int
      OBVIOUS
    <3>2. (\A m \in I : m <= i => m <= j) /\ j <= j /\ ~(j <= i)
      BY <1>2, <3>1
    <3>3. \A m \in below(i) : m \in below(j)
      BY <3>2
    <3> QED
      BY <3>2, <3>3
  <2>2. rank(i) <= rank(j) /\ rank(i) # rank(j)
    BY <1>1, <2>1, FS_Subset
  <2> QED
    BY <1>1, <2>2
<1>3. ASSUME NEW i \in I, NEW j \in I, rank(i) = rank(j)
      PROVE  i = j
  BY <1>1, <1>2, <1>3
<1>4. \A k \in 1 .. n : \E i \in I : rank(i) = k
  <2>1. f \in [I -> 1 .. n]
    BY <1>1
  <2>2. \A i, j \in I : f[i] = f[j] => i = j
    BY <1>3
  <2>3. f \in Injection(I, 1 .. n)
    BY <2>1, <2>2 DEF Injection, IsInjective
  <2>4. IsFiniteSet(1 .. n) /\ Cardinality(1 .. n) = n
    BY <1>0, FS_Interval
  <2>5. f \in Surjection(I, 1 .. n)
    BY <2>3, <2>4, FS_Injection
  <2> QED
    BY <2>5 DEF Surjection
<1>5. ASSUME NEW k \in 1 .. n
      PROVE  Nth(I, k) \in I /\ rank(Nth(I, k)) = k
  <2>1. PICK i \in I : rank(i) = k
    BY <1>4
  <2>2. Nth(I, k) = CHOOSE j \in I : rank(j) = k
    BY DEF Nth
  <2> HIDE DEF rank
  <2> QED
    BY <2>1, <2>2
<1> HIDE DEF n, rank, f
<1>6. ASSUME NEW k \in 1 .. n, NEW l \in 1 .. n, k < l
      PROVE  Nth(I, k) < Nth(I, l)
  <2>1. Nth(I, k) \in Int /\ Nth(I, l) \in Int
    BY <1>5
  <2>2. CASE Nth(I, k) = Nth(I, l)
    BY <1>0, <1>5, <1>6, <2>2
  <2>3. CASE Nth(I, l) < Nth(I, k)
    <3>1. rank(Nth(I, l)) < rank(Nth(I, k))
      BY <1>2, <1>5, <2>3
    <3>2. l < k
      BY <1>5, <3>1
    <3> QED
      BY <1>0, <1>6, <3>2
  <2> QED
    BY <2>1, <2>2, <2>3
<1>7. ASSUME NEW i \in I
      PROVE  \E k \in 1 .. n : Nth(I, k) = i
  BY <1>1, <1>3, <1>5
<1> QED
  BY <1>0, <1>5, <1>6, <1>7 DEF n

(* What Select returns, and from where.                                      *)
LEMMA SelectProperties ==
  ASSUME NEW S, NEW s \in Seq(S), NEW I \in SUBSET DOMAIN s
  PROVE  /\ Select(s, I) \in Seq(S)
         /\ Len(Select(s, I)) \in 0 .. Len(s)
         /\ DOMAIN Select(s, I) = 1 .. Len(Select(s, I))
         /\ \A k \in DOMAIN Select(s, I) :
              Nth(I, k) \in I /\ Select(s, I)[k] = s[Nth(I, k)]
         /\ \A k, l \in DOMAIN Select(s, I) : k < l => Nth(I, k) < Nth(I, l)
         /\ \A i \in I : \E k \in DOMAIN Select(s, I) : Nth(I, k) = i
<1>1. DOMAIN s = 1 .. Len(s) /\ Len(s) \in Nat /\ \A i \in 1 .. Len(s) : s[i] \in S
  BY LenProperties, ElementOfSeq
<1>2. IsFiniteSet(DOMAIN s) /\ Cardinality(DOMAIN s) = Len(s)
  BY <1>1, FS_Interval
<1>3. IsFiniteSet(I) /\ Cardinality(I) <= Len(s) /\ I \in SUBSET Int
  BY <1>1, <1>2, FS_Subset
<1>4. /\ Cardinality(I) \in Nat
      /\ \A k \in 1 .. Cardinality(I) : Nth(I, k) \in I
      /\ \A k, l \in 1 .. Cardinality(I) : k < l => Nth(I, k) < Nth(I, l)
      /\ \A i \in I : \E k \in 1 .. Cardinality(I) : Nth(I, k) = i
  BY <1>3, NthProperties
<1> DEFINE n == Cardinality(I)
           t == [k \in 1 .. n |-> s[Nth(I, k)]]
<1>5. \A k \in 1 .. n : s[Nth(I, k)] \in S
  BY <1>1, <1>4
<1> HIDE DEF n
<1>6. n \in Nat /\ n <= Len(s)
  BY <1>3, <1>4 DEF n
<1>7. t \in Seq(S) /\ Len(t) = n /\ DOMAIN t = 1 .. n
  BY <1>5, <1>6
<1>8. \A k \in 1 .. n : t[k] = s[Nth(I, k)]
  OBVIOUS
<1>9. Select(s, I) = t
  BY DEF Select, n
<1> HIDE DEF t
<1>10. /\ \A k \in DOMAIN t : Nth(I, k) \in I /\ t[k] = s[Nth(I, k)]
       /\ \A k, l \in DOMAIN t : k < l => Nth(I, k) < Nth(I, l)
       /\ \A i \in I : \E k \in DOMAIN t : Nth(I, k) = i
  BY <1>4, <1>7, <1>8 DEF n
<1>11. Len(t) \in 0 .. Len(s) /\ DOMAIN t = 1 .. Len(t)
  BY <1>1, <1>6, <1>7
<1> QED
  BY <1>7, <1>9, <1>10, <1>11

-----------------------------------------------------------------------------
(* Terms and filters.                                                        *)

LEMMA TermProperties ==
  ASSUME NEW t \in Terms
  PROVE  /\ t.keyword = "first" => t.value \in Nat \ {0} /\ t = FilterTerm("first", t.value)
         /\ t.keyword = "rows" => t.value \in Int /\ t = FilterTerm("rows", t.value)
         /\ t.keyword \in FieldKeywords => t.value \in Fields \cup {None}
         /\ t.keyword \notin EXTRA_KEYWORDS => t \in Criteria
<1>1. "first" \in EXTRA_KEYWORDS /\ "rows" \in EXTRA_KEYWORDS
  BY DEF EXTRA_KEYWORDS, NumberKeywords
<1>2. FieldKeywords = {"sort", "sort-reverse"} /\ FieldKeywords \subseteq EXTRA_KEYWORDS
  BY DEF EXTRA_KEYWORDS, FieldKeywords
<1>3. CASE t \in Criteria
  BY <1>1, <1>2, <1>3, TermsAssumption
<1>4. CASE t \in [keyword : {"first"}, value : Nat \ {0}]
  BY <1>1, <1>2, <1>4 DEF FilterTerm
<1>5. CASE t \in [keyword : {"rows"}, value : Int]
  BY <1>1, <1>2, <1>5 DEF FilterTerm
<1>6. CASE t \in [keyword : FieldKeywords, value : Fields \cup {None}]
  BY <1>2, <1>6
<1> QED
  BY <1>3, <1>4, <1>5, <1>6 DEF Terms

LEMMA NewTermProperties ==
  /\ \A n \in Nat \ {0} : FilterTerm("first", n) \in Terms
  /\ \A n \in Int : FilterTerm("rows", n) \in Terms
  /\ \A key \in FieldKeywords, field \in Fields \cup {None} : FilterTerm(key, field) \in Terms
  /\ \A key, value : FilterTerm(key, value).keyword = key /\ FilterTerm(key, value).value = value
  /\ Criteria \subseteq Terms /\ AND \in Terms
BY TermsAssumption DEF FilterTerm, Terms

LEMMA FilterProperties ==
  /\ \A s \in Seq(Terms) : Filter(s) \in Filters
  /\ \A s : Filter(s).terms = s /\ Filter(s).id = None
  /\ \A f \in Filters :
       /\ f.terms \in Seq(Terms) /\ f.id \in Ids \cup {None}
       /\ Len(f.terms) \in Nat /\ DOMAIN f.terms = 1 .. Len(f.terms)
       /\ \A i \in DOMAIN f.terms : f.terms[i] \in Terms
  /\ \A id \in Ids \cup {None}, s \in Seq(Terms) : [id |-> id, terms |-> s] \in Filters
<1>1. \A s \in Seq(Terms) : Filter(s) \in Filters
  BY DEF Filter, Filters
<1>2. \A s : Filter(s).terms = s /\ Filter(s).id = None
  BY DEF Filter
<1>3. ASSUME NEW f \in Filters
      PROVE  /\ f.terms \in Seq(Terms) /\ f.id \in Ids \cup {None}
             /\ Len(f.terms) \in Nat /\ DOMAIN f.terms = 1 .. Len(f.terms)
             /\ \A i \in DOMAIN f.terms : f.terms[i] \in Terms
  <2>1. f.terms \in Seq(Terms) /\ f.id \in Ids \cup {None}
    BY DEF Filters
  <2> QED
    BY <2>1, LenProperties, ElementOfSeq
<1>4. \A id \in Ids \cup {None}, s \in Seq(Terms) : [id |-> id, terms |-> s] \in Filters
  BY DEF Filters
<1> QED
  BY <1>1, <1>2, <1>3, <1>4

(* The first place of a keyword.                                             *)
LEMMA IndexProperties ==
  ASSUME NEW f \in Filters, NEW key, has(f, key)
  PROVE  /\ _getIndex(f, key) \in DOMAIN f.terms
         /\ f.terms[_getIndex(f, key)].keyword = key
<1> DEFINE I == Places(f, key)
<1>1. I \in SUBSET DOMAIN f.terms /\ I # {}
  BY DEF has, Places
<1>2. /\ f.terms \in Seq(Terms) /\ Len(f.terms) \in Nat
      /\ DOMAIN f.terms = 1 .. Len(f.terms)
  BY FilterProperties
<1>3. IsFiniteSet(I) /\ I \in SUBSET Int
  <2>1. IsFiniteSet(1 .. Len(f.terms))
    BY <1>2, FS_Interval
  <2> QED
    BY <1>1, <1>2, <2>1, FS_Subset
<1> HIDE DEF I
<1>4. Cardinality(I) \in Nat \ {0}
  BY <1>1, <1>3, FS_CardinalityType, FS_EmptySet
<1>5. Nth(I, 1) \in I
  BY <1>3, <1>4, NthProperties
<1> QED
  BY <1>5 DEF I, Places, _getIndex

LEMMA GetProperties ==
  ASSUME NEW f \in Filters
  PROVE  /\ has(f, "first") => \A d : get(f, "first", d) \in Nat \ {0}
         /\ Rows(f) \in Int
         /\ getSortBy(f) \in Fields \cup {None}
<1>1. ASSUME NEW key, has(f, key)
      PROVE  /\ \A d : get(f, key, d) = f.terms[_getIndex(f, key)].value
             /\ f.terms[_getIndex(f, key)] \in Terms
             /\ f.terms[_getIndex(f, key)].keyword = key
  BY <1>1, IndexProperties, FilterProperties DEF get
<1>2. has(f, "first") => \A d : get(f, "first", d) \in Nat \ {0}
  BY <1>1, TermProperties
<1>3. Rows(f) \in Int
  <2>1. CASE has(f, "rows")
    BY <1>1, <2>1, TermProperties DEF Rows
  <2>2. CASE ~has(f, "rows")
    BY <2>2 DEF Rows, get
  <2> QED
    BY <2>1, <2>2
<1>4. getSortBy(f) \in Fields \cup {None}
  <2> DEFINE key == getSortOrder(f)
  <2>1. key \in FieldKeywords
    BY DEF getSortOrder, FieldKeywords
  <2> HIDE DEF key
  <2>2. CASE has(f, key)
    BY <1>1, <2>1, <2>2, TermProperties DEF getSortBy, key
  <2>3. CASE ~has(f, key)
    BY <2>3 DEF getSortBy, get, key
  <2> QED
    BY <2>2, <2>3
<1> QED
  BY <1>2, <1>3, <1>4

-----------------------------------------------------------------------------
(* Setting a term.                                                           *)

LEMMA KeywordsAreNoNone ==
  /\ None \notin EXTRA_KEYWORDS /\ FieldKeywords \subseteq EXTRA_KEYWORDS
  /\ "first" \in EXTRA_KEYWORDS \ FieldKeywords /\ "rows" \in EXTRA_KEYWORDS \ FieldKeywords
BY NoneAssumption DEF EXTRA_KEYWORDS, FieldKeywords, NumberKeywords

LEMMA HasProperties ==
  ASSUME NEW f, NEW key, key # None
  PROVE  has(f, key) <=> \E i \in DOMAIN f.terms : f.terms[i].keyword = key
BY DEF has, Places

(* The places of the sort orders.                                            *)
Orders(s) == {i \in DOMAIN s : s[i].keyword \in FieldKeywords}

LEMMA OrdersProperties ==
  ASSUME NEW f
  PROVE  SortedTwice(f) <=> \E i, j \in Orders(f.terms) : i # j
BY DEF SortedTwice, Orders

LEMMA DeleteProperties ==
  ASSUME NEW f \in Filters, NEW key
  PROVE  /\ delete(f, key) \in Filters
         /\ f.id = None => delete(f, key).id = None
         /\ SortedTwice(delete(f, key)) => SortedTwice(f)
         /\ ~has(f, key) => delete(f, key) = f
         /\ has(f, key) /\ key \in FieldKeywords /\ Orders(delete(f, key).terms) # {}
              => SortedTwice(f)
<1>1. ~has(f, key) => delete(f, key) = f
  BY DEF delete
<1>2. CASE has(f, key)
  <2> DEFINE x == _getIndex(f, key)
             I == DOMAIN f.terms \ {x}
             d == Select(f.terms, I)
  <2>1. delete(f, key) = Filter(d)
    BY <1>2 DEF delete
  <2>2. x \in DOMAIN f.terms /\ f.terms[x].keyword = key
    BY <1>2, IndexProperties
  <2>3. f.terms \in Seq(Terms) /\ I \in SUBSET DOMAIN f.terms
    BY FilterProperties
  <2>4. \A i \in I : i \in DOMAIN f.terms /\ i # x
    OBVIOUS
  <2> HIDE DEF x, I, d
  <2>5. /\ d \in Seq(Terms) /\ DOMAIN d = 1 .. Len(d)
        /\ \A k \in DOMAIN d : Nth(I, k) \in I /\ d[k] = f.terms[Nth(I, k)]
        /\ \A k, l \in DOMAIN d : k < l => Nth(I, k) < Nth(I, l)
    BY <2>3, SelectProperties DEF d
  <2>6. ASSUME NEW k \in DOMAIN d, NEW l \in DOMAIN d, k # l
        PROVE  Nth(I, k) # Nth(I, l)
    <3>1. k \in Int /\ l \in Int /\ Nth(I, k) \in Int /\ Nth(I, l) \in Int
      BY <2>4, <2>5, FilterProperties
    <3>2. k < l \/ l < k
      BY <2>6, <3>1
    <3> QED
      BY <2>5, <3>1, <3>2
  <2>7. \A k \in Orders(d) : Nth(I, k) \in Orders(f.terms) /\ Nth(I, k) # x /\ k \in DOMAIN d
    BY <2>4, <2>5 DEF Orders
  <2>8. ASSUME SortedTwice(Filter(d)) PROVE SortedTwice(f)
    <3>1. PICK k, l \in Orders(d) : k # l
      BY <2>8, FilterProperties, OrdersProperties
    <3> QED
      BY <2>6, <2>7, <3>1, OrdersProperties
  <2>9. ASSUME key \in FieldKeywords, Orders(d) # {}
        PROVE  SortedTwice(f)
    <3>1. x \in Orders(f.terms)
      BY <2>2, <2>9 DEF Orders
    <3>2. PICK k \in Orders(d) : TRUE
      BY <2>9
    <3> QED
      BY <2>7, <3>1, <3>2, OrdersProperties
  <2> QED
    BY <1>2, <2>1, <2>5, <2>8, <2>9, FilterProperties
<1> QED
  BY <1>1, <1>2

(* A term at the end, or in the place of one with its keyword.               *)
LEMMA AppendTermProperties ==
  ASSUME NEW s \in Seq(Terms), NEW t \in Terms
  PROVE  /\ Append(s, t) \in Seq(Terms)
         /\ Len(s) + 1 \in DOMAIN Append(s, t) /\ Append(s, t)[Len(s) + 1] = t
         /\ \A i \in DOMAIN s : i \in DOMAIN Append(s, t) /\ Append(s, t)[i] = s[i]
         /\ \A i \in DOMAIN Append(s, t) : i # Len(s) + 1 => i \in DOMAIN s
         /\ t.keyword \notin FieldKeywords => Orders(Append(s, t)) \subseteq Orders(s)
<1> DEFINE q == Append(s, t)
<1>1. Len(s) \in Nat /\ DOMAIN s = 1 .. Len(s)
  BY LenProperties
<1>2. /\ q \in Seq(Terms) /\ Len(q) = Len(s) + 1
      /\ \A i \in 1 .. Len(s) : q[i] = s[i]
      /\ q[Len(s) + 1] = t
  BY AppendProperties
<1> HIDE DEF q
<1>3. DOMAIN q = 1 .. Len(s) + 1
  BY <1>2, LenProperties
<1>4. /\ Len(s) + 1 \in DOMAIN q
      /\ \A i \in DOMAIN s : i \in DOMAIN q
      /\ \A i \in DOMAIN q : i # Len(s) + 1 => i \in DOMAIN s
  BY <1>1, <1>3
<1>5. \A i \in DOMAIN s : q[i] = s[i]
  BY <1>1, <1>2
<1>6. ASSUME t.keyword \notin FieldKeywords, NEW i \in Orders(q)
      PROVE  i \in Orders(s)
  <2>1. i \in DOMAIN q /\ q[i].keyword \in FieldKeywords /\ i # Len(s) + 1
    BY <1>2, <1>6 DEF Orders
  <2> QED
    BY <1>4, <1>5, <2>1 DEF Orders
<1> QED
  BY <1>2, <1>4, <1>5, <1>6 DEF q

LEMMA SetTermProperties ==
  ASSUME NEW f \in Filters, f.id = None, NEW t \in Terms, t.keyword \in EXTRA_KEYWORDS
  PROVE  /\ _setTerm(f, t) \in Filters /\ _setTerm(f, t).id = None
         /\ has(_setTerm(f, t), t.keyword)
         /\ SortedTwice(_setTerm(f, t)) => SortedTwice(f)
<1> DEFINE k == t.keyword
           g == IF k \in FieldKeywords THEN delete(f, Opposite(k)) ELSE f
           x == _getIndex(g, k)
           new == _setTerm(f, t)
<1>0. k # None
  BY KeywordsAreNoNone
<1>1. new = IF has(g, k) THEN [id |-> g.id, terms |-> [g.terms EXCEPT ![x] = t]] ELSE _addTerm(g, t)
  BY DEF _setTerm
<1>2. /\ g \in Filters /\ g.id = None
      /\ SortedTwice(g) => SortedTwice(f)
  BY DeleteProperties
<1>3. g.terms \in Seq(Terms) /\ DOMAIN g.terms = 1 .. Len(g.terms)
  BY <1>2, FilterProperties
<1>4. CASE has(g, k)
  <2> DEFINE s == [g.terms EXCEPT ![x] = t]
  <2>1. x \in DOMAIN g.terms /\ g.terms[x].keyword = k
    BY <1>2, <1>4, IndexProperties
  <2>2. new = [id |-> None, terms |-> s]
    BY <1>1, <1>2, <1>4
  <2>3. /\ s \in Seq(Terms) /\ DOMAIN s = DOMAIN g.terms /\ s[x] = t
        /\ \A i \in DOMAIN s : i # x => s[i] = g.terms[i]
    BY <1>3, <2>1, ExceptSeq
  <2> HIDE DEF s, g
  <2>4. Orders(s) \subseteq Orders(g.terms)
    BY <2>1, <2>3 DEF Orders
  <2>5. new \in Filters /\ new.terms = s /\ new.id = None
    BY <2>2, <2>3, FilterProperties
  <2> HIDE DEF new
  <2>6. has(new, k)
    BY <1>0, <2>1, <2>3, <2>5, HasProperties
  <2>7. SortedTwice(new) => SortedTwice(g)
    BY <2>4, <2>5, OrdersProperties
  <2> QED
    BY <1>2, <2>5, <2>6, <2>7 DEF new
<1>5. CASE ~has(g, k)
  <2> DEFINE s == Append(g.terms, t)
             n == Len(g.terms) + 1
  <2>1. new = [id |-> None, terms |-> s]
    BY <1>1, <1>2, <1>5 DEF _addTerm
  <2>2. /\ s \in Seq(Terms) /\ n \in DOMAIN s /\ s[n] = t
        /\ \A i \in DOMAIN g.terms : i \in DOMAIN s /\ s[i] = g.terms[i]
        /\ \A i \in DOMAIN s : i # n => i \in DOMAIN g.terms
        /\ k \notin FieldKeywords => Orders(s) \subseteq Orders(g.terms)
    BY <1>3, AppendTermProperties
  <2> HIDE DEF s, n
  <2>3. new \in Filters /\ new.terms = s /\ new.id = None
    BY <2>1, <2>2, FilterProperties
  <2>4. has(new, k)
    BY <1>0, <2>2, <2>3, HasProperties
  <2>5. ASSUME k \in FieldKeywords, Orders(g.terms) # {}
        PROVE  SortedTwice(f)
    <3>1. PICK i \in Orders(g.terms) : TRUE
      BY <2>5
    <3>2. i \in DOMAIN g.terms /\ g.terms[i].keyword \in FieldKeywords
      BY <3>1 DEF Orders
    <3>3. g.terms[i].keyword # k
      BY <1>0, <1>5, <3>2, HasProperties
    <3>4. g.terms[i].keyword = Opposite(k) /\ Opposite(k) \in FieldKeywords
      BY <2>5, <3>2, <3>3 DEF Opposite, FieldKeywords
    <3>5. g = delete(f, Opposite(k))
      BY <2>5
    <3>6. has(f, Opposite(k))
      <4>1. Opposite(k) # None
        BY <3>4, KeywordsAreNoNone
      <4>2. has(g, Opposite(k))
        BY <3>2, <3>4, <4>1, HasProperties
      <4> QED
        BY <3>5, <4>2, DeleteProperties
    <3> QED
      BY <2>5, <3>4, <3>5, <3>6, DeleteProperties
  <2>6. ASSUME SortedTwice(new) PROVE SortedTwice(f)
    <3>1. PICK i, j \in Orders(s) : i # j
      BY <2>3, <2>6, OrdersProperties
    <3>2. CASE k \notin FieldKeywords
      <4>1. SortedTwice(g)
        BY <2>2, <3>1, <3>2, OrdersProperties
      <4> QED
        BY <1>2, <4>1
    <3>3. CASE k \in FieldKeywords
      <4>1. PICK m \in Orders(s) : m # n
        BY <3>1
      <4>2. m \in Orders(g.terms)
        BY <2>2, <4>1 DEF Orders
      <4> QED
        BY <2>5, <3>3, <4>2
    <3> QED
      BY <3>2, <3>3
  <2> QED
    BY <2>3, <2>4, <2>6
<1> QED
  BY <1>4, <1>5

(* What a setter makes of a filter.                                          *)
LEMMA SetProperties ==
  ASSUME NEW f \in Filters, NEW key, NEW value,
         \/ key \in NumberKeywords /\ value \in Int
         \/ key \in FieldKeywords /\ value \in Fields \cup {None}
  PROVE  /\ set(f, key, value) \in Filters /\ set(f, key, value).id = None
         /\ has(set(f, key, value), key)
         /\ SortedTwice(set(f, key, value)) => SortedTwice(f)
<1> DEFINE v == IF key = "first" /\ value <= 0 THEN 1 ELSE value
           t == FilterTerm(key, v)
           g == Filter(f.terms)
<1>1. g \in Filters /\ g.id = None /\ g.terms = f.terms
  BY FilterProperties
<1>2. t \in Terms
  <2>1. CASE key \in FieldKeywords /\ value \in Fields \cup {None}
    <3>1. v = value
      BY <2>1 DEF FieldKeywords
    <3> QED
      BY <2>1, <3>1, NewTermProperties
  <2>2. CASE key = "first" /\ value \in Int
    <3>1. v \in Nat \ {0}
      BY <2>2
    <3> QED
      BY <2>2, <3>1, NewTermProperties
  <2>3. CASE key = "rows" /\ value \in Int
    <3>1. v = value
      BY <2>3
    <3> QED
      BY <2>3, <3>1, NewTermProperties
  <2> QED
    BY <2>1, <2>2, <2>3 DEF NumberKeywords
<1>3. set(f, key, value) = _setTerm(g, t)
  BY DEF set
<1>4. t.keyword = key /\ key \in EXTRA_KEYWORDS
  BY NewTermProperties DEF EXTRA_KEYWORDS
<1> HIDE DEF t, g
<1>5. SortedTwice(g) <=> SortedTwice(f)
  BY <1>1, OrdersProperties
<1> QED
  BY <1>1, <1>2, <1>3, <1>4, <1>5, SetTermProperties

-----------------------------------------------------------------------------
(* The pages.                                                                *)

(* The number that a filter has for a keyword is replaced in its place.      *)
LEMMA SetInPlace ==
  ASSUME NEW f \in Filters, NEW key \in NumberKeywords, has(f, key), NEW value \in Int,
         key = "first" => value > 0
  PROVE  LET x == _getIndex(f, key)
             s == [f.terms EXCEPT ![x] = FilterTerm(key, value)]
         IN  /\ x \in DOMAIN f.terms /\ f.terms[x].keyword = key
             /\ set(f, key, value) = Filter(s)
             /\ s \in Seq(Terms)
             /\ \A k : Places(Filter(s), k) = Places(f, k)
<1> DEFINE x == _getIndex(f, key)
           t == FilterTerm(key, value)
           s == [f.terms EXCEPT ![x] = t]
           g == Filter(f.terms)
<1>1. x \in DOMAIN f.terms /\ f.terms[x].keyword = key
  BY IndexProperties
<1>2. ~(key = "first" /\ value <= 0) /\ key \notin FieldKeywords
  BY DEF NumberKeywords, FieldKeywords
<1>3. g.terms = f.terms /\ g.id = None
  BY FilterProperties
<1>4. Places(g, key) = Places(f, key)
  BY <1>3 DEF Places
<1>5. t.keyword = key /\ t \in Terms
  <2>1. CASE key = "first"
    <3>1. value \in Nat \ {0}
      BY <2>1
    <3> QED
      BY <2>1, <3>1, NewTermProperties
  <2>2. CASE key = "rows"
    BY <2>2, NewTermProperties
  <2> QED
    BY <2>1, <2>2 DEF NumberKeywords
<1>6. set(f, key, value) = _setTerm(g, t)
  BY <1>2 DEF set
<1> HIDE DEF t, g
<1>7. _setTerm(g, t) = [id |-> None, terms |-> s]
  <2>1. has(g, key) /\ _getIndex(g, key) = x
    BY <1>4 DEF has, _getIndex
  <2> QED
    BY <1>2, <1>3, <1>5, <2>1 DEF _setTerm
<1>8. s \in Seq(Terms)
  <2>1. f.terms \in Seq(Terms) /\ x \in 1 .. Len(f.terms)
    BY <1>1, FilterProperties
  <2> HIDE DEF x
  <2> QED
    BY <1>5, <2>1, ExceptSeq
<1>9. \A k : Places(Filter(s), k) = Places(f, k)
  <2>1. DOMAIN s = DOMAIN f.terms /\ \A i \in DOMAIN s : s[i].keyword = f.terms[i].keyword
    BY <1>1, <1>5
  <2> HIDE DEF s
  <2> QED
    BY <2>1, FilterProperties DEF Places
<1> QED
  BY <1>1, <1>6, <1>7, <1>8, <1>9 DEF Filter, t

LEMMA GoToProperties ==
  ASSUME NEW f \in Filters, has(f, "first"), has(f, "rows"), NEW item \in Nat \ {0}
  PROVE  LET x == _getIndex(f, "first")
             s == [f.terms EXCEPT ![x] = FilterTerm("first", item)]
         IN  /\ GoTo(f, item) = Filter(s) /\ s \in Seq(Terms)
             /\ \A k : Places(Filter(s), k) = Places(f, k)
             /\ Rows(Filter(s)) = Rows(f)
<1> DEFINE x == _getIndex(f, "first")
           y == _getIndex(f, "rows")
           s == [f.terms EXCEPT ![x] = FilterTerm("first", item)]
           g == Filter(s)
<1>0. "first" \in NumberKeywords /\ "rows" \in NumberKeywords
  BY DEF NumberKeywords
<1>1. /\ x \in DOMAIN f.terms /\ f.terms[x].keyword = "first"
      /\ set(f, "first", item) = g /\ s \in Seq(Terms)
      /\ \A k : Places(g, k) = Places(f, k)
  <2>1. item \in Int /\ item > 0
    OBVIOUS
  <2> QED
    BY <1>0, <2>1, SetInPlace
<1>2. y \in DOMAIN f.terms /\ f.terms[y].keyword = "rows" /\ f.terms[y] \in Terms
  BY IndexProperties, FilterProperties
<1>3. Rows(f) = f.terms[y].value /\ Rows(f) \in Int /\ f.terms[y] = FilterTerm("rows", Rows(f))
  <2>1. Rows(f) = f.terms[y].value
    BY DEF Rows, get
  <2> QED
    BY <1>2, <2>1, GetProperties, TermProperties
<1>4. s[y] = FilterTerm("rows", Rows(f))
  BY <1>1, <1>2, <1>3
<1> HIDE DEF s
<1>5. g \in Filters /\ g.terms = s
  BY <1>1, FilterProperties
<1>6. has(g, "rows") /\ _getIndex(g, "rows") = y
  BY <1>1 DEF has, _getIndex
<1> HIDE DEF g
<1>7. set(g, "rows", Rows(f)) = Filter([s EXCEPT ![y] = FilterTerm("rows", Rows(f))])
  <2>1. Rows(f) \in Int /\ ("rows" = "first" => Rows(f) > 0)
    BY <1>3
  <2> QED
    BY <1>0, <1>5, <1>6, <2>1, SetInPlace
<1>8. [s EXCEPT ![y] = FilterTerm("rows", Rows(f))] = s
  BY <1>1, <1>4
<1>9. GoTo(f, item) = Filter(s)
  BY <1>1, <1>7, <1>8 DEF GoTo
<1>10. Rows(g) = Rows(f)
  <2>1. Rows(g) = s[y].value
    BY <1>5, <1>6 DEF Rows, get
  <2> QED
    BY <1>4, <2>1, NewTermProperties
<1> QED
  BY <1>1, <1>9, <1>10 DEF s, g

(* To the next page and back.                                                *)
LEMMA PagesProperties ==
  ASSUME NEW f \in Filters, has(f, "first"), has(f, "rows"), Rows(f) >= 0
  PROVE  previous(next(f)).terms = f.terms
<1> DEFINE x == _getIndex(f, "first")
           n == get(f, "first", 1)
           R == Rows(f)
           s == [f.terms EXCEPT ![x] = FilterTerm("first", n + R)]
           g == Filter(s)
<1>1. /\ x \in DOMAIN f.terms /\ f.terms[x].keyword = "first" /\ f.terms[x] \in Terms
      /\ n = f.terms[x].value
  BY IndexProperties, FilterProperties DEF get
<1>2. n \in Nat \ {0} /\ R \in Nat /\ n + R \in Nat \ {0} /\ (n + R) - R = n
  <2>1. n \in Nat \ {0} /\ R \in Int
    BY GetProperties
  <2> QED
    BY <2>1
<1>3. f.terms[x] = FilterTerm("first", n)
  BY <1>1, TermProperties
<1>4. next(f) = GoTo(f, n + R)
  BY DEF next
<1> HIDE DEF n, R
<1>5. /\ next(f) = g /\ s \in Seq(Terms)
      /\ \A k : Places(g, k) = Places(f, k)
      /\ Rows(g) = R
  BY <1>2, <1>4, GoToProperties DEF R
<1>6. s[x] = FilterTerm("first", n + R)
  BY <1>1
<1>7. [s EXCEPT ![x] = FilterTerm("first", n)] = f.terms
  <2>1. f.terms \in Seq(Terms) /\ DOMAIN f.terms = 1 .. Len(f.terms)
    BY FilterProperties
  <2>2. f.terms = [i \in DOMAIN f.terms |-> f.terms[i]]
    BY <2>1
  <2> QED
    BY <1>1, <1>3, <2>2
<1> HIDE DEF s
<1>8. g \in Filters /\ g.terms = s
  BY <1>5, FilterProperties
<1> HIDE DEF g
<1>9. has(g, "first") /\ has(g, "rows") /\ _getIndex(g, "first") = x
  BY <1>5 DEF has, _getIndex
<1>10. get(g, "first", 1 + Rows(g)) = n + R
  <2>1. get(g, "first", 1 + Rows(g)) = s[x].value
    BY <1>8, <1>9 DEF get
  <2> QED
    BY <1>6, <2>1, NewTermProperties
<1>11. previous(g) = GoTo(g, n)
  BY <1>2, <1>5, <1>10 DEF previous
<1>12. GoTo(g, n) = Filter([s EXCEPT ![x] = FilterTerm("first", n)])
  BY <1>2, <1>8, <1>9, GoToProperties
<1> QED
  BY <1>5, <1>7, <1>11, <1>12, FilterProperties

-----------------------------------------------------------------------------
(* Merging.                                                                  *)

(* The terms of f, and behind them those of g at some places.                *)
LEMMA MergedProperties ==
  ASSUME NEW f \in Filters, NEW g \in Filters, NEW new \in SUBSET DOMAIN g.terms
  PROVE  LET q == f.terms \o Select(g.terms, new)
             from(a) == Nth(new, a - Len(f.terms))
         IN  /\ q \in Seq(Terms)
             /\ \A a \in DOMAIN q \cap DOMAIN f.terms : q[a] = f.terms[a]
             /\ \A a \in DOMAIN q \ DOMAIN f.terms : from(a) \in new /\ q[a] = g.terms[from(a)]
             /\ \A a, b \in DOMAIN q \ DOMAIN f.terms : a # b => from(a) # from(b)
<1> DEFINE d == Select(g.terms, new)
           n == Len(f.terms)
           q == f.terms \o d
<1>1. /\ f.terms \in Seq(Terms) /\ n \in Nat /\ DOMAIN f.terms = 1 .. n
      /\ g.terms \in Seq(Terms) /\ \A i \in new : i \in Int
  BY FilterProperties
<1>2. /\ d \in Seq(Terms) /\ DOMAIN d = 1 .. Len(d) /\ Len(d) \in Nat
      /\ \A k \in DOMAIN d : Nth(new, k) \in new /\ d[k] = g.terms[Nth(new, k)]
      /\ \A k, l \in DOMAIN d : k < l => Nth(new, k) < Nth(new, l)
  BY <1>1, SelectProperties
<1> HIDE DEF d, n
<1>3. /\ q \in Seq(Terms) /\ Len(q) = n + Len(d)
      /\ \A a \in 1 .. n + Len(d) : q[a] = IF a <= n THEN f.terms[a] ELSE d[a - n]
  BY <1>1, <1>2, ConcatProperties DEF n
<1> HIDE DEF q
<1>4. DOMAIN q = 1 .. n + Len(d)
  BY <1>3, LenProperties
<1>5. ASSUME NEW a \in DOMAIN q \cap DOMAIN f.terms PROVE q[a] = f.terms[a]
  <2>1. a \in 1 .. n + Len(d) /\ a <= n
    BY <1>1, <1>4
  <2> QED
    BY <1>3, <2>1
<1>6. ASSUME NEW a \in DOMAIN q \ DOMAIN f.terms
      PROVE  a - n \in DOMAIN d /\ q[a] = d[a - n] /\ a \in Int
  <2>1. a \in 1 .. n + Len(d) /\ ~(a <= n) /\ a - n \in DOMAIN d /\ a \in Int
    BY <1>1, <1>2, <1>4
  <2> QED
    BY <1>3, <2>1
<1>7. ASSUME NEW a \in DOMAIN q \ DOMAIN f.terms, NEW b \in DOMAIN q \ DOMAIN f.terms, a # b
      PROVE  Nth(new, a - n) # Nth(new, b - n)
  <2>1. /\ a - n \in DOMAIN d /\ b - n \in DOMAIN d /\ a \in Int /\ b \in Int
        /\ Nth(new, a - n) \in Int /\ Nth(new, b - n) \in Int
    BY <1>1, <1>2, <1>6
  <2>2. a - n < b - n \/ b - n < a - n
    BY <1>1, <1>7, <2>1
  <2> QED
    BY <1>2, <2>1, <2>2
<1>8. \A a \in DOMAIN q \ DOMAIN f.terms :
        Nth(new, a - n) \in new /\ q[a] = g.terms[Nth(new, a - n)]
  BY <1>2, <1>6
<1> QED
  BY <1>3, <1>5, <1>7, <1>8 DEF n, q, d

(* What fromString takes over from the filter adds no second sort order.     *)
LEMMA MergeExtraProperties ==
  ASSUME NEW f \in Filters, NEW g \in Filters
  PROVE  /\ _mergeExtraKeywords(f, g) \in Filters /\ _mergeExtraKeywords(f, g).id = f.id
         /\ SortedTwice(_mergeExtraKeywords(f, g)) => SortedTwice(f)
<1> DEFINE extra == {i \in DOMAIN g.terms : g.terms[i].keyword \in EXTRA_KEYWORDS}
           new == {i \in extra : IsNew(f, g, i, Kind(g.terms[i].keyword))}
           q == f.terms \o Select(g.terms, new)
           m == _mergeExtraKeywords(f, g)
           from(a) == Nth(new, a - Len(f.terms))
<1>1. m = [id |-> f.id, terms |-> q]
  BY DEF _mergeExtraKeywords
<1>2. \A i \in new : i \in DOMAIN g.terms /\ IsNew(f, g, i, Kind(g.terms[i].keyword))
  OBVIOUS
<1> HIDE DEF new
<1>3. new \in SUBSET DOMAIN g.terms
  BY <1>2
<1>4. /\ q \in Seq(Terms)
      /\ \A a \in DOMAIN q \cap DOMAIN f.terms : q[a] = f.terms[a]
      /\ \A a \in DOMAIN q \ DOMAIN f.terms : from(a) \in new /\ q[a] = g.terms[from(a)]
      /\ \A a, b \in DOMAIN q \ DOMAIN f.terms : a # b => from(a) # from(b)
  BY <1>3, MergedProperties
<1> HIDE DEF q, from
<1>5. m \in Filters /\ m.terms = q /\ m.id = f.id
  BY <1>1, <1>4, FilterProperties
<1>6. ASSUME NEW i \in new, g.terms[i].keyword \in FieldKeywords
      PROVE  /\ Orders(f.terms) = {}
             /\ \A j \in 1 .. i - 1 : g.terms[j].keyword \notin FieldKeywords
  <2>1. /\ \A key \in FieldKeywords : ~has(f, key)
        /\ \A j \in 1 .. i - 1 : g.terms[j].keyword \notin FieldKeywords
    BY <1>2, <1>6 DEF IsNew, Kind
  <2> QED
    BY <2>1, HasProperties, KeywordsAreNoNone DEF Orders
<1>7. ASSUME NEW a \in Orders(q), NEW b \in Orders(q), a # b, a \notin DOMAIN f.terms
      PROVE  FALSE
  <2>1. from(a) \in new /\ g.terms[from(a)].keyword \in FieldKeywords
    BY <1>4, <1>7 DEF Orders
  <2>2. b \notin DOMAIN f.terms
    <3> SUFFICES ASSUME b \in DOMAIN f.terms PROVE FALSE
      OBVIOUS
    <3>1. b \in Orders(f.terms)
      BY <1>4, <1>7 DEF Orders
    <3> QED
      BY <1>6, <2>1, <3>1
  <2>3. from(b) \in new /\ g.terms[from(b)].keyword \in FieldKeywords /\ from(a) # from(b)
    BY <1>4, <1>7, <2>2 DEF Orders
  <2>4. from(a) \in 1 .. Len(g.terms) /\ from(b) \in 1 .. Len(g.terms) /\ Len(g.terms) \in Nat
    BY <1>3, <2>1, <2>3, FilterProperties
  <2>5. from(a) \in 1 .. from(b) - 1 \/ from(b) \in 1 .. from(a) - 1
    BY <2>3, <2>4
  <2> QED
    BY <1>6, <2>1, <2>3, <2>5
<1>8. ASSUME SortedTwice(m) PROVE SortedTwice(f)
  <2>1. PICK a, b \in Orders(q) : a # b
    BY <1>5, <1>8, OrdersProperties
  <2>2. a \in DOMAIN f.terms /\ b \in DOMAIN f.terms
    BY <1>7, <2>1
  <2>3. a \in Orders(f.terms) /\ b \in Orders(f.terms)
    BY <1>4, <2>1, <2>2 DEF Orders
  <2> QED
    BY <2>1, <2>3, OrdersProperties
<1> QED
  BY <1>5, <1>8 DEF m

(* What the dialog merges adds one only from its text.                       *)
LEMMA MergeKeywordsProperties ==
  ASSUME NEW f \in Filters, NEW g \in Filters
  PROVE  /\ mergeKeywords(f, g) \in Filters /\ mergeKeywords(f, g).id = None
         /\ SortedTwice(mergeKeywords(f, g)) => SortedTwice(f) \/ Orders(g.terms) # {}
<1> DEFINE named == {i \in DOMAIN g.terms : g.terms[i].keyword # None}
           new == {i \in named : IsNew(f, g, i, {g.terms[i].keyword})}
           q == f.terms \o Select(g.terms, new)
           m == mergeKeywords(f, g)
           from(a) == Nth(new, a - Len(f.terms))
<1>1. m = Filter(q)
  BY DEF mergeKeywords
<1>2. new \in SUBSET DOMAIN g.terms
  OBVIOUS
<1> HIDE DEF new
<1>3. /\ q \in Seq(Terms)
      /\ \A a \in DOMAIN q \cap DOMAIN f.terms : q[a] = f.terms[a]
      /\ \A a \in DOMAIN q \ DOMAIN f.terms : from(a) \in new /\ q[a] = g.terms[from(a)]
  BY <1>2, MergedProperties
<1> HIDE DEF q, from
<1>4. m \in Filters /\ m.terms = q /\ m.id = None
  BY <1>1, <1>3, FilterProperties
<1>5. ASSUME SortedTwice(m), Orders(g.terms) = {} PROVE SortedTwice(f)
  <2>1. \A a \in Orders(q) : a \in Orders(f.terms)
    BY <1>2, <1>3, <1>5 DEF Orders
  <2> QED
    BY <1>4, <1>5, <2>1, OrdersProperties
<1> QED
  BY <1>4, <1>5 DEF m

(* The text of a filter, and a criterion that is added.                      *)
LEMMA CriteriaProperties ==
  ASSUME NEW f \in Filters
  PROVE  toFilterCriteriaString(f) \in Seq(Terms)
<1> DEFINE I == {i \in DOMAIN f.terms : IsCriterion(f.terms[i])}
<1>1. f.terms \in Seq(Terms)
  BY FilterProperties
<1>2. I \in SUBSET DOMAIN f.terms
  OBVIOUS
<1> HIDE DEF I
<1>3. Select(f.terms, I) \in Seq(Terms)
  BY <1>1, <1>2, SelectProperties
<1> QED
  BY <1>3 DEF toFilterCriteriaString, I

LEMMA AndProperties ==
  ASSUME NEW f \in Filters, NEW t \in Criteria
  PROVE  /\ and(f, t) \in Filters /\ and(f, t).id = None
         /\ SortedTwice(and(f, t)) => SortedTwice(f)
<1> DEFINE s == IF toFilterCriteriaString(f) = <<>> THEN f.terms ELSE Append(f.terms, AND)
<1>1. f.terms \in Seq(Terms)
  BY FilterProperties
<1>2. ASSUME NEW q \in Seq(Terms), NEW u \in Criteria
      PROVE  Append(q, u) \in Seq(Terms) /\ Orders(Append(q, u)) \subseteq Orders(q)
  <2>1. u \in Terms /\ u.keyword \notin FieldKeywords
    BY NewTermProperties, TermsAssumption, KeywordsAreNoNone
  <2> QED
    BY <2>1, AppendTermProperties
<1>3. s \in Seq(Terms) /\ Orders(s) \subseteq Orders(f.terms)
  BY <1>1, <1>2, TermsAssumption
<1>4. and(f, t) = Filter(Append(s, t))
  BY DEF and
<1> HIDE DEF s
<1>5. Append(s, t) \in Seq(Terms) /\ Orders(Append(s, t)) \subseteq Orders(f.terms)
  BY <1>2, <1>3
<1> QED
  BY <1>4, <1>5, FilterProperties, OrdersProperties

-----------------------------------------------------------------------------
(* Filters with the same terms in another order.                             *)

LEMMA SameTimes ==
  ASSUME NEW f, NEW g, IsFiniteSet(DOMAIN f.terms),
         NEW h \in Bijection(DOMAIN f.terms, DOMAIN g.terms),
         \A i \in DOMAIN f.terms : g.terms[h[i]] = f.terms[i]
  PROVE  \A t : Times(f, t) = Times(g, t)
<1> SUFFICES ASSUME NEW t PROVE Times(f, t) = Times(g, t)
  OBVIOUS
<1> DEFINE F == {i \in DOMAIN f.terms : f.terms[i] = t}
           G == {i \in DOMAIN g.terms : g.terms[i] = t}
           k == [i \in F |-> h[i]]
<1>1. /\ h \in [DOMAIN f.terms -> DOMAIN g.terms]
      /\ \A i, j \in DOMAIN f.terms : h[i] = h[j] => i = j
      /\ \A j \in DOMAIN g.terms : \E i \in DOMAIN f.terms : h[i] = j
  BY DEF Bijection, Injection, Surjection, IsInjective
<1>2. k \in [F -> G] /\ \A i, j \in F : k[i] = k[j] => i = j
  BY <1>1
<1>3. \A j \in G : \E i \in F : k[i] = j
  BY <1>1
<1>4. IsFiniteSet(F)
  BY FS_Subset
<1>5. Times(f, t) = Cardinality(F) /\ Times(g, t) = Cardinality(G)
  BY DEF Times
<1> HIDE DEF k, F, G
<1>6. k \in Surjection(F, G) /\ k \in Injection(F, G)
  BY <1>2, <1>3 DEF Surjection, Injection, IsInjective
<1> QED
  BY <1>4, <1>5, <1>6, FS_Surjection

LEMMA DomainProperties ==
  ASSUME NEW f \in Filters
  PROVE  IsFiniteSet(DOMAIN f.terms) /\ DOMAIN f.terms \subseteq Int
<1>1. DOMAIN f.terms = 1 .. Len(f.terms) /\ Len(f.terms) \in Nat
  BY FilterProperties
<1>2. IsFiniteSet(1 .. Len(f.terms))
  BY <1>1, FS_Interval
<1> QED
  BY <1>1, <1>2

(* equals matches the terms of a filter that has no keyword twice.           *)
LEMMA EqualsMatches ==
  ASSUME NEW f \in Filters, NEW g \in Filters, equals(f, g), NoKeywordTwice(f)
  PROVE  \E h \in Bijection(DOMAIN f.terms, DOMAIN g.terms) :
           \A i \in DOMAIN f.terms : g.terms[h[i]] = f.terms[i]
<1> DEFINE D == DOMAIN f.terms
           same(i) == IF f.terms[i].keyword = None THEN i
                      ELSE CHOOSE j \in D : g.terms[j] = f.terms[i]
           h == [i \in D |-> same(i)]
<1>1. /\ D = 1 .. Len(f.terms) /\ DOMAIN g.terms = D /\ Len(f.terms) \in Nat
      /\ g.terms \in Seq(Terms)
  BY FilterProperties DEF equals
<1>2. ASSUME NEW i \in D
      PROVE  same(i) \in D /\ g.terms[same(i)] = f.terms[i]
  <2>1. CASE f.terms[i].keyword = None
    BY <2>1 DEF equals
  <2>2. CASE f.terms[i].keyword # None
    <3> DEFINE I == Places(g, f.terms[i].keyword)
    <3>1. f.terms[i] \in ToSet(Select(g.terms, I))
      BY <2>2 DEF equals, getTerms
    <3>2. I \in SUBSET DOMAIN g.terms
      BY DEF Places
    <3> HIDE DEF I
    <3>3. \A k \in DOMAIN Select(g.terms, I) :
            Nth(I, k) \in I /\ Select(g.terms, I)[k] = g.terms[Nth(I, k)]
      BY <1>1, <3>2, SelectProperties
    <3>4. \E j \in D : g.terms[j] = f.terms[i]
      BY <1>1, <3>1, <3>2, <3>3 DEF ToSet
    <3> QED
      BY <2>2, <3>4
  <2> QED
    BY <2>1, <2>2
<1> HIDE DEF same
<1>3. ASSUME NEW i \in D, NEW j \in D, same(i) = same(j)
      PROVE  i = j
  <2>1. f.terms[i] = f.terms[j]
    BY <1>2, <1>3
  <2>2. CASE f.terms[i].keyword = None
    BY <1>3, <2>1, <2>2 DEF same
  <2>3. CASE f.terms[i].keyword # None
    BY <2>1, <2>3 DEF NoKeywordTwice
  <2> QED
    BY <2>2, <2>3
<1>4. IsFiniteSet(D)
  BY <1>1, FS_Interval
<1>5. h \in Injection(D, D)
  <2>1. h \in [D -> D]
    BY <1>2
  <2>2. \A i, j \in D : h[i] = h[j] => i = j
    BY <1>3
  <2> HIDE DEF h, D
  <2> QED
    BY <2>1, <2>2 DEF Injection, IsInjective
<1>6. h \in Surjection(D, D)
  BY <1>4, <1>5, FS_Injection
<1>7. h \in Bijection(D, D)
  BY <1>5, <1>6 DEF Bijection
<1>8. \A i \in D : g.terms[h[i]] = f.terms[i]
  BY <1>2
<1> HIDE DEF h
<1> QED
  BY <1>1, <1>7, <1>8

LEMMA EqualsProperties ==
  ASSUME NEW f \in Filters, NEW g \in Filters, equals(f, g), NoKeywordTwice(f)
  PROVE  \A t : Times(f, t) = Times(g, t)
<1>1. PICK h \in Bijection(DOMAIN f.terms, DOMAIN g.terms) :
        \A i \in DOMAIN f.terms : g.terms[h[i]] = f.terms[i]
  BY EqualsMatches
<1> QED
  BY <1>1, DomainProperties, SameTimes

(* What equals one filter equals the other, if one of them has no keyword    *)
(* twice: so have they all.                                                  *)
LEMMA EqualsTwice ==
  ASSUME NEW f \in Filters, NEW g \in Filters, NEW h \in Filters,
         equals(f, g), equals(h, g), NoKeywordTwice(f)
  PROVE  \A t : Times(f, t) = Times(h, t)
<1>1. NoKeywordTwice(g)
  <2>1. PICK m \in Bijection(DOMAIN f.terms, DOMAIN g.terms) :
          \A i \in DOMAIN f.terms : g.terms[m[i]] = f.terms[i]
    BY EqualsMatches
  <2>2. \A j \in DOMAIN g.terms : \E i \in DOMAIN f.terms : m[i] = j
    BY DEF Bijection, Surjection
  <2> SUFFICES ASSUME NEW i \in DOMAIN g.terms, NEW j \in DOMAIN g.terms,
                      g.terms[i].keyword = g.terms[j].keyword, g.terms[i].keyword # None
               PROVE  i = j
    BY DEF NoKeywordTwice
  <2>3. PICK a \in DOMAIN f.terms : m[a] = i
    BY <2>2
  <2>4. PICK b \in DOMAIN f.terms : m[b] = j
    BY <2>2
  <2>5. f.terms[a].keyword = f.terms[b].keyword /\ f.terms[a].keyword # None
    BY <2>1, <2>3, <2>4
  <2>6. a = b
    BY <2>5 DEF NoKeywordTwice
  <2> QED
    BY <2>3, <2>4, <2>6
<1>2. NoKeywordTwice(h)
  <2> SUFFICES ASSUME NEW i \in DOMAIN h.terms, NEW j \in DOMAIN h.terms, i # j,
                      h.terms[i].keyword = h.terms[j].keyword, h.terms[i].keyword # None
               PROVE  FALSE
    BY DEF NoKeywordTwice
  <2> DEFINE key == h.terms[i].keyword
             I == Places(h, key)
             J == Places(g, key)
             s == Select(h.terms, I)
             u == Select(g.terms, J)
  <2>1. Len(u) = Len(s)
    BY DEF equals, getTerms
  <2>2. /\ I \in SUBSET DOMAIN h.terms /\ i \in I /\ j \in I
        /\ J \in SUBSET DOMAIN g.terms /\ J \subseteq Int
        /\ \A a \in J : g.terms[a].keyword = key
    BY DomainProperties DEF Places
  <2>3. h.terms \in Seq(Terms) /\ g.terms \in Seq(Terms)
    BY FilterProperties
  <2> HIDE DEF key, I, J
  <2>4. /\ DOMAIN s = 1 .. Len(s)
        /\ \A a \in I : \E k \in DOMAIN s : Nth(I, k) = a
    BY <2>2, <2>3, SelectProperties
  <2>5. /\ DOMAIN u = 1 .. Len(u)
        /\ \A k \in DOMAIN u : Nth(J, k) \in J
        /\ \A k, l \in DOMAIN u : k < l => Nth(J, k) < Nth(J, l)
    BY <2>2, <2>3, SelectProperties
  <2>6. PICK k \in DOMAIN s : Nth(I, k) = i
    BY <2>2, <2>4
  <2>7. PICK l \in DOMAIN s : Nth(I, l) = j
    BY <2>2, <2>4
  <2> HIDE DEF s, u
  <2>8. k \in DOMAIN u /\ l \in DOMAIN u /\ (k < l \/ l < k)
    BY <2>1, <2>4, <2>5, <2>6, <2>7
  <2>9. /\ Nth(J, k) \in J /\ Nth(J, l) \in J
        /\ Nth(J, k) < Nth(J, l) \/ Nth(J, l) < Nth(J, k)
    BY <2>5, <2>8
  <2>10. Nth(J, k) # Nth(J, l)
    BY <2>2, <2>9
  <2>11. key # None
    BY DEF key
  <2> QED
    BY <1>1, <2>2, <2>9, <2>10, <2>11 DEF NoKeywordTwice
<1> QED
  BY <1>2, EqualsProperties

(* The text of a filter, read again, gives the filter back.                  *)
LEMMA TextProperties ==
  ASSUME NEW f \in Filters, ViewedOnce(f)
  PROVE  \A t : Times(fromString(toFilterCriteriaString(f), f), t) = Times(f, t)
<1> DEFINE D == DOMAIN f.terms
           C == {i \in D : IsCriterion(f.terms[i])}
           E == {i \in D : f.terms[i].keyword \in EXTRA_KEYWORDS}
           c == Select(f.terms, C)
           e == Select(f.terms, E)
           g == Filter(c)
           q == c \o e
           n == Len(c)
           new == {i \in E : IsNew(g, f, i, Kind(f.terms[i].keyword))}
           p(a) == IF a \in 1 .. n THEN Nth(C, a) ELSE Nth(E, a - n)
<1>1. /\ C \in SUBSET D /\ E \in SUBSET D /\ C \cap E = {} /\ C \cup E = D
      /\ \A i \in C : f.terms[i].keyword \notin EXTRA_KEYWORDS
      /\ \A i \in E : f.terms[i].keyword \in EXTRA_KEYWORDS
  BY DEF IsCriterion
<1>2. f.terms \in Seq(Terms) /\ D = 1 .. Len(f.terms) /\ Len(f.terms) \in Nat
  BY FilterProperties
<1>3. toFilterCriteriaString(f) = c
  BY DEF toFilterCriteriaString
<1>4. fromString(c, f) = [id |-> g.id, terms |-> g.terms \o Select(f.terms, new)]
  BY DEF fromString, _mergeExtraKeywords
<1>0. new = {i \in E : IsNew(g, f, i, Kind(f.terms[i].keyword))}
  OBVIOUS
<1> HIDE DEF C, E, new, D
<1>5. /\ c \in Seq(Terms) /\ n \in Nat /\ DOMAIN c = 1 .. n
      /\ \A k \in DOMAIN c : Nth(C, k) \in C /\ c[k] = f.terms[Nth(C, k)]
      /\ \A k, l \in DOMAIN c : k < l => Nth(C, k) < Nth(C, l)
      /\ \A i \in C : \E k \in DOMAIN c : Nth(C, k) = i
  BY <1>1, <1>2, SelectProperties DEF D
<1>6. /\ e \in Seq(Terms) /\ Len(e) \in Nat /\ DOMAIN e = 1 .. Len(e)
      /\ \A k \in DOMAIN e : Nth(E, k) \in E /\ e[k] = f.terms[Nth(E, k)]
      /\ \A k, l \in DOMAIN e : k < l => Nth(E, k) < Nth(E, l)
      /\ \A i \in E : \E k \in DOMAIN e : Nth(E, k) = i
  BY <1>1, <1>2, SelectProperties DEF D
<1> HIDE DEF c, e
<1>7. g.terms = c /\ g.id = None
  BY FilterProperties
<1>8. ASSUME NEW i \in E
      PROVE  IsNew(g, f, i, Kind(f.terms[i].keyword))
  <2> DEFINE k == f.terms[i].keyword
  <2>1. k \in EXTRA_KEYWORDS /\ i \in D
    BY <1>1
  <2>2. \A key \in Kind(k) : key \in EXTRA_KEYWORDS /\ Kind(key) = Kind(k)
    BY <2>1, KeywordsAreNoNone DEF Kind
  <2> HIDE DEF k
  <2>3. ASSUME NEW key \in Kind(k) PROVE ~has(g, key)
    BY <1>1, <1>5, <1>7, <2>2 DEF has, Places
  <2>4. ASSUME NEW j \in 1 .. i - 1 PROVE f.terms[j].keyword \notin Kind(k)
    <3>1. j \in D /\ j # i
      BY <1>2, <2>1
    <3>2. CASE f.terms[j].keyword \in Kind(k)
      <4>1. /\ f.terms[j].keyword \in EXTRA_KEYWORDS
            /\ Kind(f.terms[j].keyword) = Kind(f.terms[i].keyword)
        BY <2>2, <3>2 DEF k
      <4>2. j = i
        BY <2>1, <3>1, <4>1 DEF ViewedOnce, D, k
      <4> QED
        BY <3>1, <4>2
    <3> QED
      BY <3>2
  <2> QED
    BY <2>3, <2>4 DEF IsNew, k
<1>9. new = E
  BY <1>0, <1>8
<1>10. fromString(c, f).terms = q
  BY <1>4, <1>7, <1>9 DEF e
<1>11. /\ Len(q) = n + Len(e) /\ DOMAIN q = 1 .. n + Len(e)
       /\ \A a \in 1 .. n + Len(e) : q[a] = IF a <= n THEN c[a] ELSE e[a - n]
  BY <1>5, <1>6, ConcatProperties, LenProperties
<1> HIDE DEF q, n
<1>12. ASSUME NEW a \in DOMAIN q
       PROVE  /\ a \in 1 .. n => p(a) \in C /\ q[a] = f.terms[p(a)]
              /\ a \notin 1 .. n => a - n \in DOMAIN e /\ p(a) \in E /\ q[a] = f.terms[p(a)]
  <2>1. a \in Int /\ a >= 1 /\ a <= n + Len(e)
    BY <1>5, <1>6, <1>11
  <2>2. CASE a \in 1 .. n
    BY <1>5, <1>11, <2>1, <2>2
  <2>3. CASE a \notin 1 .. n
    <3>1. a - n \in DOMAIN e /\ ~(a <= n)
      BY <1>5, <1>6, <2>1, <2>3
    <3>2. q[a] = e[a - n]
      BY <1>11, <3>1
    <3> QED
      BY <1>6, <2>3, <3>1, <3>2
  <2> QED
    BY <2>2, <2>3
<1>13. ASSUME NEW a \in DOMAIN q, NEW b \in DOMAIN q, p(a) = p(b)
       PROVE  a = b
  <2>1. a \in Int /\ b \in Int /\ C \subseteq Int /\ E \subseteq Int /\ n \in Int
    BY <1>1, <1>2, <1>5, <1>6, <1>11
  <2>2. CASE a \in 1 .. n /\ b \in 1 .. n
    <3>1. Nth(C, a) = Nth(C, b) /\ Nth(C, a) \in Int
      BY <1>13, <1>5, <2>1, <2>2
    <3>2. ~(a < b) /\ ~(b < a)
      BY <1>5, <2>2, <3>1
    <3> QED
      BY <2>1, <3>2
  <2>3. CASE a \notin 1 .. n /\ b \notin 1 .. n
    <3>1. /\ Nth(E, a - n) = Nth(E, b - n) /\ Nth(E, a - n) \in Int
          /\ a - n \in DOMAIN e /\ b - n \in DOMAIN e
      BY <1>12, <1>13, <2>1, <2>3
    <3>2. ~(a - n < b - n) /\ ~(b - n < a - n)
      BY <1>6, <3>1
    <3> QED
      BY <2>1, <3>2
  <2>4. CASE (a \in 1 .. n) # (b \in 1 .. n)
    BY <1>1, <1>12, <1>13, <2>4
  <2> QED
    BY <2>2, <2>3, <2>4
<1>14. ASSUME NEW i \in D
       PROVE  \E a \in DOMAIN q : p(a) = i
  <2>1. CASE i \in C
    <3>1. PICK k \in DOMAIN c : Nth(C, k) = i
      BY <1>5, <2>1
    <3>2. k \in DOMAIN q /\ k \in 1 .. n
      BY <1>5, <1>6, <1>11, <3>1
    <3> QED
      BY <3>1, <3>2
  <2>2. CASE i \in E
    <3>1. PICK k \in DOMAIN e : Nth(E, k) = i
      BY <1>6, <2>2
    <3>2. k + n \in DOMAIN q /\ k + n \notin 1 .. n /\ (k + n) - n = k
      BY <1>5, <1>6, <1>11, <3>1
    <3>3. p(k + n) = i
      BY <3>1, <3>2
    <3> QED
      BY <3>2, <3>3
  <2> QED
    BY <1>1, <2>1, <2>2
<1>15. \A a \in DOMAIN q : p(a) \in D /\ q[a] = f.terms[p(a)]
  BY <1>1, <1>12
<1> DEFINE h == [a \in DOMAIN q |-> p(a)]
<1> HIDE DEF p
<1>16. h \in Bijection(DOMAIN q, D)
  <2>1. h \in [DOMAIN q -> D]
    BY <1>15
  <2>2. \A a, b \in DOMAIN q : h[a] = h[b] => a = b
    BY <1>13
  <2>3. \A i \in D : \E a \in DOMAIN q : h[a] = i
    BY <1>14
  <2> HIDE DEF h
  <2> QED
    BY <2>1, <2>2, <2>3 DEF Bijection, Injection, Surjection, IsInjective
<1>17. IsFiniteSet(DOMAIN q)
  BY <1>5, <1>6, <1>11, FS_Interval
<1>18. \A a \in DOMAIN q : f.terms[h[a]] = q[a]
  BY <1>15
<1> HIDE DEF h
<1>19. \A t : Times(fromString(c, f), t) = Times(f, t)
  BY <1>10, <1>16, <1>17, <1>18, SameTimes DEF D
<1> QED
  BY <1>3, <1>19

-----------------------------------------------------------------------------
(* The invariant: filters keep their shape, an id stands for the terms saved *)
(* under it, and no change reaches the page while the dialog is open.        *)
IInv ==
  /\ TypeOK /\ IdMeansTerms
  /\ DOMAIN SavedTerms \subseteq DOMAIN saved
  /\ dialog # None => dialog.orig_filter = filter

(* Where a second sort order may come from.                                  *)
SecondOrder ==
  \/ Ambiguous \/ SortedTwice(Filter(text))
  \/ dialog # None /\ \E t \in ToSet(dialog.filterstring) : t.keyword \in FieldKeywords

(* A filter with an id is one of the saved ones.                             *)
Known(f, store) == f.id # None => f.id \in DOMAIN store /\ f.terms = store[f.id]

LEMMA InvProperties ==
  ASSUME IInv
  PROVE  /\ DOMAIN saved \subseteq Ids /\ saved \in [DOMAIN saved -> Seq(Terms)]
         /\ \A id \in DOMAIN saved : saved[id] \in Seq(Terms)
         /\ filter \in Filters /\ has(filter, "rows") /\ prevFilter \in Filters
         /\ text \in Seq(Terms) /\ edits \in Nat /\ Known(filter, saved)
         /\ dialog # None => /\ dialog \in Dialogs /\ dialog.orig_filter = filter
                            /\ Known(dialog.filter, saved)
BY DEF IInv, TypeOK, IdMeansTerms, Known

LEMMA DialogProperties ==
  ASSUME IInv, dialog # None
  PROVE  /\ dialog \in Dialogs
         /\ dialog.filter \in Filters /\ dialog.filterstring \in Seq(Terms)
         /\ Merged \in Filters /\ Merged.id = None
         /\ SortedTwice(Merged) => SecondOrder
<1>1. dialog \in Dialogs
  BY InvProperties
<1>2. dialog.filter \in Filters /\ dialog.filterstring \in Seq(Terms)
  BY <1>1 DEF Dialogs
<1> DEFINE g == Filter(dialog.filterstring)
<1>3. g \in Filters /\ g.terms = dialog.filterstring
  BY <1>2, FilterProperties
<1> HIDE DEF g
<1>4. /\ Merged \in Filters /\ Merged.id = None
      /\ SortedTwice(Merged) => SortedTwice(dialog.filter) \/ Orders(g.terms) # {}
  BY <1>2, <1>3, MergeKeywordsProperties DEF Merged, g
<1>5. Orders(g.terms) # {} => SecondOrder
  BY <1>3 DEF Orders, SecondOrder, ToSet
<1>6. SortedTwice(dialog.filter) => SecondOrder
  BY DEF SecondOrder, Ambiguous
<1> QED
  BY <1>1, <1>2, <1>4, <1>5, <1>6

LEMMA WithRowsProperties ==
  ASSUME NEW f \in Filters
  PROVE  /\ WithRows(f) \in Filters /\ has(WithRows(f), "rows")
         /\ WithRows(f).id # None => WithRows(f) = f
         /\ has(f, "rows") => WithRows(f) = f
         /\ SortedTwice(WithRows(f)) => SortedTwice(f)
<1>1. RowsPerPage \in Int /\ "rows" \in NumberKeywords
  BY NumbersAssumption DEF NumberKeywords
<1>2. CASE has(f, "rows")
  BY <1>2 DEF WithRows
<1>3. CASE ~has(f, "rows")
  <2> DEFINE w == set(f, "rows", RowsPerPage)
  <2>1. w \in Filters /\ w.id = None /\ has(w, "rows") /\ (SortedTwice(w) => SortedTwice(f))
    BY <1>1, SetProperties
  <2> HIDE DEF w
  <2>2. WithRows(f) = w
    BY <1>3 DEF WithRows, w
  <2> QED
    BY <1>3, <2>1, <2>2
<1> QED
  BY <1>2, <1>3

LEMMA ChangeProperties ==
  ASSUME IInv, NEW f \in Filters, NEW shown \in Seq(Terms), Change(f, shown)
  PROVE  /\ filter' = WithRows(f) /\ filter' \in Filters /\ has(filter', "rows")
         /\ filter'.id # None => filter' = f
         /\ SortedTwice(filter') => SortedTwice(f)
         /\ prevFilter' \in Filters /\ text' \in Seq(Terms)
<1> DEFINE w == WithRows(f)
<1>1. filter' = w /\ DeriveText(w, shown)
  BY DEF Change
<1>2. /\ w \in Filters /\ has(w, "rows")
      /\ w.id # None => w = f
      /\ SortedTwice(w) => SortedTwice(f)
  BY WithRowsProperties
<1>3. toFilterCriteriaString(w) \in Seq(Terms)
  BY <1>2, CriteriaProperties
<1>4. w = WithRows(f)
  OBVIOUS
<1> HIDE DEF w
<1>5. prevFilter \in Filters
  BY InvProperties
<1>6. prevFilter' \in Filters /\ text' \in Seq(Terms)
  BY <1>1, <1>2, <1>3, <1>5 DEF DeriveText
<1> QED
  BY <1>1, <1>2, <1>4, <1>6

(* The page gets a filter that is saved, or one without an id.               *)
LEMMA PageChangeInv ==
  ASSUME IInv, NEW f \in Filters, NEW shown \in Seq(Terms), Known(f, saved),
         Change(f, shown), dialog' = None, UNCHANGED saved, edits' \in Nat,
         SortedTwice(f) => SecondOrder
  PROVE  IInv' /\ (Ambiguous' => SecondOrder)
<1>1. /\ filter' \in Filters /\ has(filter', "rows")
      /\ filter'.id # None => filter' = f
      /\ SortedTwice(filter') => SortedTwice(f)
      /\ prevFilter' \in Filters /\ text' \in Seq(Terms)
  BY ChangeProperties
<1>2. Known(filter', saved')
  BY <1>1 DEF Known
<1>3. IInv'
  <2>1. DOMAIN SavedTerms \subseteq DOMAIN saved
    BY DEF IInv
  <2>2. DOMAIN saved \subseteq Ids /\ saved \in [DOMAIN saved -> Seq(Terms)]
    BY InvProperties
  <2>3. /\ DOMAIN saved' \subseteq Ids /\ saved' \in [DOMAIN saved' -> Seq(Terms)]
        /\ DOMAIN SavedTerms \subseteq DOMAIN saved'
    BY <2>1, <2>2
  <2> QED
    BY <1>1, <1>2, <2>3 DEF IInv, TypeOK, IdMeansTerms, Known
<1>4. Ambiguous' => SecondOrder
  <2>1. Ambiguous' => SortedTwice(filter') \/ \E id \in DOMAIN saved : SortedTwice(NamedFilter(id)')
    BY DEF Ambiguous
  <2>2. \A id : NamedFilter(id)' = NamedFilter(id)
    BY DEF NamedFilter
  <2>3. (\E id \in DOMAIN saved : SortedTwice(NamedFilter(id))) => SecondOrder
    BY DEF SecondOrder, Ambiguous
  <2> QED
    BY <1>1, <2>1, <2>2, <2>3
<1> QED
  BY <1>3, <1>4

LEMMA ChangeFilterInv ==
  ASSUME IInv, NEW f \in Filters, Known(f, saved), ChangeFilter(f),
         SortedTwice(f) => SecondOrder
  PROVE  IInv' /\ (Ambiguous' => SecondOrder)
<1>1. text \in Seq(Terms) /\ edits \in Nat
  BY InvProperties
<1>2. Change(f, text) /\ dialog' = None /\ saved' = saved /\ edits' = edits
  BY DEF ChangeFilter, OnPage
<1> QED
  BY <1>1, <1>2, PageChangeInv

(* The filter of the page is saved, and of it the page makes filters that    *)
(* are not and have no more sort orders.                                     *)
LEMMA DerivedInv ==
  ASSUME IInv, NEW f \in Filters, f.id = None, ChangeFilter(f),
         SortedTwice(f) => SortedTwice(filter)
  PROVE  IInv' /\ (Ambiguous' => SecondOrder)
<1>1. Known(f, saved)
  BY DEF Known
<1>2. SortedTwice(f) => SecondOrder
  BY DEF SecondOrder, Ambiguous
<1> QED
  BY <1>1, <1>2, ChangeFilterInv

LEMMA SavedProperties ==
  ASSUME IInv, NEW id \in DOMAIN saved
  PROVE  /\ NamedFilter(id) \in Filters /\ Known(NamedFilter(id), saved)
         /\ SortedTwice(NamedFilter(id)) => SecondOrder
<1>1. id \in Ids /\ saved[id] \in Seq(Terms)
  BY InvProperties
<1>2. NamedFilter(id) \in Filters
  BY <1>1, FilterProperties DEF NamedFilter
<1>3. Known(NamedFilter(id), saved)
  BY DEF Known, NamedFilter
<1>4. SortedTwice(NamedFilter(id)) => SecondOrder
  BY DEF SecondOrder, Ambiguous
<1> QED
  BY <1>2, <1>3, <1>4

LEMMA ResetProperties ==
  /\ RESET_FILTER \in Filters /\ RESET_FILTER.id = None
  /\ ~SortedTwice(RESET_FILTER)
<1> DEFINE one == <<FilterTerm("first", 1)>>
<1>1. FilterTerm("first", 1) \in Terms
  BY NewTermProperties
<1>2. one \in Seq(Terms) /\ DOMAIN one = {1}
  BY <1>1
<1>3. RESET_FILTER = Filter(one)
  BY DEF RESET_FILTER
<1> HIDE DEF one
<1>4. RESET_FILTER \in Filters /\ RESET_FILTER.id = None /\ RESET_FILTER.terms = one
  BY <1>2, <1>3, FilterProperties
<1> QED
  BY <1>2, <1>4 DEF SortedTwice

(* The first filter of the page.                                             *)
LEMMA InitInv == Init => IInv
<1> SUFFICES ASSUME Init PROVE IInv
  OBVIOUS
<1> DEFINE f == NamedFilter(Default)
<1>1. /\ saved = SavedTerms /\ filter = WithRows(f) /\ prevFilter = filter
      /\ text = toFilterCriteriaString(filter) /\ dialog = None /\ edits = 0
  BY DEF Init
<1>2. /\ DOMAIN saved \subseteq Ids /\ saved \in [DOMAIN saved -> Seq(Terms)]
      /\ Default \in DOMAIN saved /\ Default \in Ids /\ saved[Default] \in Seq(Terms)
  BY <1>1, SavedAssumption
<1>3. f \in Filters /\ f.id = Default /\ f.terms = saved[Default]
  BY <1>2, FilterProperties DEF NamedFilter
<1> HIDE DEF f
<1>4. /\ filter \in Filters /\ has(filter, "rows")
      /\ filter.id # None => filter = f
  BY <1>1, <1>3, WithRowsProperties
<1>5. text \in Seq(Terms)
  BY <1>1, <1>4, CriteriaProperties
<1>6. TypeOK
  BY <1>1, <1>2, <1>4, <1>5 DEF TypeOK
<1>7. IdMeansTerms
  BY <1>1, <1>2, <1>3, <1>4 DEF IdMeansTerms
<1> QED
  BY <1>1, <1>6, <1>7 DEF IInv

-----------------------------------------------------------------------------
(* The steps.                                                                *)

LEMMA HandleValueChangeInv ==
  ASSUME IInv, NEW t \in Texts, handleValueChange(t)
  PROVE  IInv' /\ (Ambiguous' => SecondOrder)
<1>1. /\ dialog = None /\ UNCHANGED <<saved, dialog, filter, prevFilter>>
      /\ text' = t /\ edits' = edits + 1
  BY DEF handleValueChange, OnPage, Count
<1>2. text' \in Seq(Terms) /\ edits' \in Nat
  BY <1>1, InvProperties, TermsAssumption
<1>3. IInv'
  BY <1>1, <1>2 DEF IInv, TypeOK, IdMeansTerms
<1>4. Ambiguous' => Ambiguous
  BY <1>1 DEF Ambiguous, NamedFilter
<1> QED
  BY <1>3, <1>4 DEF SecondOrder

LEMMA HandleUpdateFilterInv ==
  ASSUME IInv, handleUpdateFilter
  PROVE  IInv' /\ (Ambiguous' => SecondOrder)
<1> DEFINE f == fromString(text, filter)
<1>1. Filter(text) \in Filters /\ Filter(text).id = None /\ filter \in Filters
  BY InvProperties, FilterProperties
<1>2. f \in Filters /\ f.id = None /\ (SortedTwice(f) => SortedTwice(Filter(text)))
  BY <1>1, MergeExtraProperties DEF fromString
<1>3. ChangeFilter(f)
  BY DEF handleUpdateFilter
<1> HIDE DEF f
<1>4. Known(f, saved)
  BY <1>2 DEF Known
<1>5. SortedTwice(f) => SecondOrder
  BY <1>2 DEF SecondOrder
<1> QED
  BY <1>2, <1>3, <1>4, <1>5, ChangeFilterInv

LEMMA HandleNamedFilterChangeInv ==
  ASSUME IInv, NEW id \in Ids \cup {None}, handleNamedFilterChange(id)
  PROVE  IInv' /\ (Ambiguous' => SecondOrder)
<1>1. CASE id \in DOMAIN saved
  <2>1. ChangeFilter(NamedFilter(id))
    BY <1>1 DEF handleNamedFilterChange
  <2> QED
    BY <1>1, <2>1, SavedProperties, ChangeFilterInv
<1>2. CASE id \notin DOMAIN saved
  <2>1. ChangeFilter(RESET_FILTER)
    BY <1>2 DEF handleNamedFilterChange
  <2> QED
    BY <2>1, ResetProperties, DerivedInv
<1> QED
  BY <1>1, <1>2

LEMMA HandleRemoveAndResetInv ==
  ASSUME IInv, handleRemoveClick \/ handleResetClick
  PROVE  IInv' /\ (Ambiguous' => SecondOrder)
<1> DEFINE shown == toFilterCriteriaString(filter)
<1>1. shown \in Seq(Terms) /\ edits \in Nat
  BY InvProperties, CriteriaProperties
<1>2. /\ dialog' = None /\ saved' = saved /\ edits' = edits
      /\ Change(RESET_FILTER, shown) \/ Change(NamedFilter(Default), shown)
  BY DEF handleRemoveClick, handleResetClick, OnPage
<1> HIDE DEF shown
<1>3. CASE Change(RESET_FILTER, shown)
  <2>1. Known(RESET_FILTER, saved)
    BY ResetProperties DEF Known
  <2> QED
    BY <1>1, <1>2, <1>3, <2>1, ResetProperties, PageChangeInv
<1>4. CASE Change(NamedFilter(Default), shown)
  <2>1. Default \in DOMAIN saved
    BY SavedAssumption DEF IInv
  <2> QED
    BY <1>1, <1>2, <1>4, <2>1, SavedProperties, PageChangeInv
<1> QED
  BY <1>2, <1>3, <1>4

(* The steps to other pages set the first item and, going on or back, the    *)
(* number of rows.                                                           *)
LEMMA ItemProperties ==
  ASSUME NEW f \in Filters, NEW item \in Int
  PROVE  /\ set(f, "first", item) \in Filters /\ set(f, "first", item).id = None
         /\ SortedTwice(set(f, "first", item)) => SortedTwice(f)
         /\ GoTo(f, item) \in Filters /\ GoTo(f, item).id = None
         /\ SortedTwice(GoTo(f, item)) => SortedTwice(f)
<1> DEFINE g == set(f, "first", item)
<1>1. "first" \in NumberKeywords /\ "rows" \in NumberKeywords
  BY DEF NumberKeywords
<1>2. g \in Filters /\ g.id = None /\ (SortedTwice(g) => SortedTwice(f))
  BY <1>1, SetProperties
<1>3. Rows(f) \in Int
  BY GetProperties
<1>4. GoTo(f, item) = set(g, "rows", Rows(f))
  BY DEF GoTo
<1>5. g = set(f, "first", item)
  OBVIOUS
<1> HIDE DEF g
<1>6. /\ GoTo(f, item) \in Filters /\ GoTo(f, item).id = None
      /\ SortedTwice(GoTo(f, item)) => SortedTwice(g)
  BY <1>1, <1>2, <1>3, <1>4, SetProperties
<1> QED
  BY <1>2, <1>5, <1>6

LEMMA HandlePagesInv ==
  ASSUME IInv, handleFirst \/ handleNext \/ handlePrevious
  PROVE  IInv' /\ (Ambiguous' => SecondOrder)
<1>1. filter \in Filters
  BY InvProperties
<1>2. CASE handleFirst
  <2>1. ChangeFilter(set(filter, "first", 1))
    BY <1>2 DEF handleFirst, first
  <2> QED
    BY <1>1, <2>1, ItemProperties, DerivedInv
<1>3. ASSUME NEW item \in Int, ChangeFilter(GoTo(filter, item))
      PROVE  IInv' /\ (Ambiguous' => SecondOrder)
  BY <1>1, <1>3, ItemProperties, DerivedInv
<1>4. Rows(filter) \in Int
  BY <1>1, GetProperties
<1>5. has(filter, "first") => \A d : get(filter, "first", d) \in Nat \ {0}
  BY <1>1, GetProperties
<1>6. CASE handleNext
  <2> DEFINE item == IF has(filter, "first") THEN get(filter, "first", 1) + Rows(filter) ELSE 1
  <2>1. item \in Int
    BY <1>4, <1>5
  <2>2. ChangeFilter(GoTo(filter, item))
    BY <1>6 DEF handleNext, next
  <2> QED
    BY <1>3, <2>1, <2>2
<1>7. CASE handlePrevious
  <2> DEFINE item == get(filter, "first", 1 + Rows(filter)) - Rows(filter)
  <2>1. get(filter, "first", 1 + Rows(filter)) \in Int
    <3>1. CASE has(filter, "first")
      BY <1>5, <3>1
    <3>2. CASE ~has(filter, "first")
      BY <1>4, <3>2 DEF get
    <3> QED
      BY <3>1, <3>2
  <2>2. item \in Int
    BY <1>4, <2>1
  <2>3. ChangeFilter(GoTo(filter, item))
    BY <1>7 DEF handlePrevious, previous
  <2> QED
    BY <1>3, <2>2, <2>3
<1> QED
  BY <1>2, <1>6, <1>7

LEMMA SortOrderProperties ==
  ASSUME NEW f \in Filters
  PROVE  /\ getSortOrder(f) \in FieldKeywords /\ Opposite(getSortOrder(f)) \in FieldKeywords
         /\ getSortBy(f) \in Fields \cup {None}
<1>1. \A key : Opposite(key) \in FieldKeywords
  BY DEF Opposite, FieldKeywords
<1>2. getSortOrder(f) \in FieldKeywords
  BY DEF getSortOrder, FieldKeywords
<1> QED
  BY <1>1, <1>2, GetProperties

LEMMA HandleSortChangeInv ==
  ASSUME IInv, NEW field \in Fields, handleSortChange(field)
  PROVE  IInv' /\ (Ambiguous' => SecondOrder)
<1> DEFINE g == first(filter)
           key == IF getSortBy(filter) = field THEN Opposite(getSortOrder(filter)) ELSE "sort"
<1>1. filter \in Filters
  BY InvProperties
<1>2. g \in Filters /\ (SortedTwice(g) => SortedTwice(filter))
  BY <1>1, ItemProperties DEF first
<1>3. key \in FieldKeywords
  <2>1. "sort" \in FieldKeywords
    BY DEF FieldKeywords
  <2> QED
    BY <1>1, <2>1, SortOrderProperties
<1>4. ChangeFilter(set(g, key, field))
  BY DEF handleSortChange, SortChange
<1> HIDE DEF g, key
<1>5. /\ set(g, key, field) \in Filters /\ set(g, key, field).id = None
      /\ SortedTwice(set(g, key, field)) => SortedTwice(filter)
  BY <1>2, <1>3, SetProperties
<1> QED
  BY <1>4, <1>5, DerivedInv

LEMMA HandleDataClickInv ==
  ASSUME IInv, NEW term \in ChartTerms, handleDataClick(term)
  PROVE  IInv' /\ (Ambiguous' => SecondOrder)
<1>1. filter \in Filters /\ Known(filter, saved)
  BY InvProperties
<1>2. term \in Criteria
  BY TermsAssumption
<1>3. ChangeFilter(filter) \/ ChangeFilter(and(filter, term))
  BY DEF handleDataClick
<1>4. CASE ChangeFilter(filter)
  <2>1. SortedTwice(filter) => SecondOrder
    BY DEF SecondOrder, Ambiguous
  <2> QED
    BY <1>1, <1>4, <2>1, ChangeFilterInv
<1>5. CASE ChangeFilter(and(filter, term))
  <2> DEFINE f == and(filter, term)
  <2>1. f \in Filters /\ f.id = None /\ (SortedTwice(f) => SortedTwice(filter))
    BY <1>1, <1>2, AndProperties
  <2>2. ChangeFilter(f)
    BY <1>5
  <2> HIDE DEF f
  <2> QED
    BY <2>1, <2>2, DerivedInv
<1> QED
  BY <1>3, <1>4, <1>5

LEMMA OnEditClickInv ==
  ASSUME IInv, onEditClick
  PROVE  IInv' /\ (Ambiguous' => SecondOrder)
<1> DEFINE shown == toFilterCriteriaString(filter)
<1>1. filter \in Filters /\ shown \in Seq(Terms)
  BY InvProperties, CriteriaProperties
<1>2. /\ dialog' = [filter |-> filter, orig_filter |-> filter, filterstring |-> shown]
      /\ UNCHANGED <<saved, filter, text, prevFilter, edits>>
  BY DEF onEditClick
<1> HIDE DEF shown
<1>3. dialog' \in Dialogs /\ dialog'.filter = filter /\ dialog'.orig_filter = filter
  BY <1>1, <1>2 DEF Dialogs
<1>4. IInv'
  BY <1>2, <1>3 DEF IInv, TypeOK, IdMeansTerms
<1>5. Ambiguous' => Ambiguous
  BY <1>2, <1>3 DEF Ambiguous, NamedFilter
<1> QED
  BY <1>4, <1>5 DEF SecondOrder

-----------------------------------------------------------------------------
(* The dialog.                                                               *)

(* The dialog gets a filter without an id, or another text.                  *)
LEMMA EditInv ==
  ASSUME IInv, dialog # None, NEW d \in Dialogs, Edit(d),
         d.orig_filter = dialog.orig_filter,
         \/ d.filter = dialog.filter
         \/ d.filter.id = None /\ (SortedTwice(d.filter) => SecondOrder)
  PROVE  IInv' /\ (Ambiguous' => SecondOrder)
<1>1. /\ dialog' = d /\ UNCHANGED <<saved, filter, text, prevFilter>>
      /\ edits' = edits + 1
  BY DEF Edit, Count
<1>2. edits' \in Nat
  BY <1>1, InvProperties
<1>3. Known(d.filter, saved)
  BY InvProperties DEF Known
<1>4. IInv'
  BY <1>1, <1>2, <1>3 DEF IInv, TypeOK, IdMeansTerms, Known
<1>5. SortedTwice(d.filter) => SecondOrder
  BY DEF SecondOrder, Ambiguous
<1>6. Ambiguous' => SecondOrder
  <2>1. Ambiguous' => Ambiguous \/ SortedTwice(d.filter)
    BY <1>1 DEF Ambiguous, NamedFilter
  <2> QED
    BY <1>5, <2>1 DEF SecondOrder
<1> QED
  BY <1>4, <1>6

LEMMA FilterStringChangeInv ==
  ASSUME IInv, dialog # None, NEW t \in Texts, onFilterStringChange(t)
  PROVE  IInv' /\ (Ambiguous' => SecondOrder)
<1> DEFINE d == [dialog EXCEPT !.filterstring = t]
<1>1. dialog \in Dialogs /\ t \in Seq(Terms)
  BY InvProperties, TermsAssumption
<1>2. d \in Dialogs /\ d.filter = dialog.filter /\ d.orig_filter = dialog.orig_filter
  BY <1>1 DEF Dialogs
<1>3. Edit(d)
  BY DEF onFilterStringChange
<1> HIDE DEF d
<1> QED
  BY <1>2, <1>3, EditInv

LEMMA EditFilterInv ==
  ASSUME IInv, dialog # None, NEW f \in Filters, f.id = None, EditFilter(f),
         SortedTwice(f) => SecondOrder
  PROVE  IInv' /\ (Ambiguous' => SecondOrder)
<1> DEFINE d == [dialog EXCEPT !.filter = f]
<1>1. dialog \in Dialogs
  BY InvProperties
<1>2. d \in Dialogs /\ d.filter = f /\ d.orig_filter = dialog.orig_filter
  BY <1>1 DEF Dialogs
<1>3. Edit(d)
  BY DEF EditFilter
<1> HIDE DEF d
<1> QED
  BY <1>2, <1>3, EditInv

(* What is entered in the dialog is set in its filter.                       *)
LEMMA EditValueInv ==
  ASSUME IInv, dialog # None, NEW key, NEW value, EditFilter(set(dialog.filter, key, value)),
         \/ key \in NumberKeywords /\ value \in Int
         \/ key \in FieldKeywords /\ value \in Fields \cup {None}
  PROVE  IInv' /\ (Ambiguous' => SecondOrder)
<1> DEFINE f == set(dialog.filter, key, value)
<1>1. dialog.filter \in Filters
  BY DialogProperties
<1>2. f \in Filters /\ f.id = None /\ (SortedTwice(f) => SortedTwice(dialog.filter))
  BY <1>1, SetProperties
<1>3. SortedTwice(dialog.filter) => SecondOrder
  BY DEF SecondOrder, Ambiguous
<1>4. EditFilter(f)
  OBVIOUS
<1> HIDE DEF f
<1> QED
  BY <1>2, <1>3, <1>4, EditFilterInv

LEMMA EditStepInv ==
  ASSUME IInv, dialog # None,
         \/ \E item \in FirstChoices : onFilterValueChange("first", item)
         \/ \E rows \in RowsChoices : onFilterValueChange("rows", rows)
         \/ \E field \in Fields : onSortByChange(field)
         \/ \E order \in FieldKeywords : onSortOrderChange(order)
         \/ SaveFails
  PROVE  IInv' /\ (Ambiguous' => SecondOrder)
<1>1. "first" \in NumberKeywords /\ "rows" \in NumberKeywords
  BY DEF NumberKeywords
<1>2. FirstChoices \subseteq Int /\ RowsChoices \subseteq Int
  BY NumbersAssumption
<1>3. /\ getSortOrder(dialog.filter) \in FieldKeywords
      /\ getSortBy(dialog.filter) \in Fields \cup {None}
  BY DialogProperties, SortOrderProperties
<1>4. ASSUME NEW item \in FirstChoices, onFilterValueChange("first", item)
      PROVE  IInv' /\ (Ambiguous' => SecondOrder)
  BY <1>1, <1>2, <1>4, EditValueInv DEF onFilterValueChange
<1>5. ASSUME NEW rows \in RowsChoices, onFilterValueChange("rows", rows)
      PROVE  IInv' /\ (Ambiguous' => SecondOrder)
  BY <1>1, <1>2, <1>5, EditValueInv DEF onFilterValueChange
<1>6. ASSUME NEW field \in Fields, onSortByChange(field)
      PROVE  IInv' /\ (Ambiguous' => SecondOrder)
  BY <1>3, <1>6, EditValueInv DEF onSortByChange, setSortBy
<1>7. ASSUME NEW order \in FieldKeywords, onSortOrderChange(order)
      PROVE  IInv' /\ (Ambiguous' => SecondOrder)
  BY <1>3, <1>7, EditValueInv DEF onSortOrderChange, setSortOrder
<1>8. ASSUME SaveFails
      PROVE  IInv' /\ (Ambiguous' => SecondOrder)
  BY <1>8, DialogProperties, EditFilterInv DEF SaveFails
<1> QED
  BY <1>4, <1>5, <1>6, <1>7, <1>8

LEMMA HandleSaveInv ==
  ASSUME IInv, handleSave
  PROVE  IInv' /\ (Ambiguous' => SecondOrder)
<1>1. /\ dialog # None /\ dialog' = None /\ saved' = saved /\ edits' = edits
  BY DEF handleSave
<1>2. /\ Merged \in Filters /\ Merged.id = None
      /\ SortedTwice(Merged) => SecondOrder
  BY <1>1, DialogProperties
<1>3. CASE equals(Merged, dialog.orig_filter)
  <2>1. UNCHANGED <<saved, filter, text, prevFilter, edits>> /\ dialog' = None
    BY <1>1, <1>3 DEF handleSave
  <2>2. IInv'
    BY <2>1 DEF IInv, TypeOK, IdMeansTerms
  <2>3. Ambiguous' => Ambiguous
    BY <2>1 DEF Ambiguous, NamedFilter
  <2> QED
    BY <2>2, <2>3 DEF SecondOrder
<1>4. CASE ~equals(Merged, dialog.orig_filter)
  <2>1. Change(Merged, text)
    BY <1>4 DEF handleSave
  <2>2. Known(Merged, saved) /\ text \in Seq(Terms) /\ edits' \in Nat
    BY <1>1, <1>2, InvProperties DEF Known
  <2> QED
    BY <1>1, <1>2, <2>1, <2>2, PageChangeInv
<1> QED
  BY <1>3, <1>4

(* A filter that is saved anew takes no name from another.                   *)
LEMMA CreateFilterInv ==
  ASSUME IInv, dialog # None, NEW id \in Ids, createFilter(id)
  PROVE  IInv' /\ (Ambiguous' => SecondOrder)
<1> DEFINE terms == Merged.terms
           f == [id |-> id, terms |-> terms]
<1>1. /\ Merged \in Filters
      /\ SortedTwice(Merged) => SecondOrder
  BY DialogProperties
<1>2. terms \in Seq(Terms)
  BY <1>1, FilterProperties
<1>3. f \in Filters /\ f.id = id /\ f.terms = terms
  BY <1>2, FilterProperties
<1>4. SortedTwice(f) => SecondOrder
  BY <1>1 DEF SortedTwice
<1>5. /\ id \notin DOMAIN saved
      /\ saved' = [i \in DOMAIN saved \cup {id} |-> IF i = id THEN terms ELSE saved[i]]
      /\ Change(f, text) /\ dialog' = None /\ edits' = edits + 1
  BY DEF createFilter, Count
<1> HIDE DEF terms, f
<1>6. /\ DOMAIN saved \subseteq Ids /\ \A i \in DOMAIN saved : saved[i] \in Seq(Terms)
      /\ text \in Seq(Terms) /\ edits' \in Nat
  BY <1>5, InvProperties
<1>7. /\ DOMAIN saved' = DOMAIN saved \cup {id} /\ saved'[id] = terms
      /\ \A i \in DOMAIN saved : saved'[i] = saved[i]
      /\ saved' \in [DOMAIN saved' -> Seq(Terms)]
  BY <1>2, <1>5, <1>6
<1>8. /\ filter' \in Filters /\ has(filter', "rows")
      /\ filter'.id # None => filter' = f
      /\ SortedTwice(filter') => SortedTwice(f)
      /\ prevFilter' \in Filters /\ text' \in Seq(Terms)
  BY <1>3, <1>5, <1>6, ChangeProperties
<1>9. IInv'
  <2>1. TypeOK'
    BY <1>5, <1>6, <1>7, <1>8 DEF TypeOK
  <2>2. IdMeansTerms'
    BY <1>3, <1>5, <1>7, <1>8 DEF IdMeansTerms
  <2>3. DOMAIN SavedTerms \subseteq DOMAIN saved'
    BY <1>7 DEF IInv
  <2> QED
    BY <1>5, <2>1, <2>2, <2>3 DEF IInv
<1>10. Ambiguous' => SecondOrder
  <2>1. Ambiguous' => SortedTwice(filter') \/ \E i \in DOMAIN saved' : SortedTwice(NamedFilter(i)')
    BY <1>5 DEF Ambiguous
  <2>2. \A i \in DOMAIN saved : NamedFilter(i)' = NamedFilter(i)
    BY <1>7 DEF NamedFilter
  <2>3. NamedFilter(id)'.terms = f.terms
    BY <1>3, <1>7 DEF NamedFilter
  <2>4. SortedTwice(NamedFilter(id)') => SortedTwice(f)
    BY <2>3 DEF SortedTwice
  <2>5. (\E i \in DOMAIN saved : SortedTwice(NamedFilter(i))) => SecondOrder
    BY DEF SecondOrder, Ambiguous
  <2> QED
    BY <1>4, <1>7, <1>8, <2>1, <2>2, <2>4, <2>5
<1> QED
  BY <1>9, <1>10

LEMMA OnCloseClickInv ==
  ASSUME IInv, onCloseClick
  PROVE  IInv' /\ (Ambiguous' => SecondOrder)
<1>1. UNCHANGED <<saved, filter, text, prevFilter, edits>> /\ dialog' = None
  BY DEF onCloseClick
<1>2. IInv'
  BY <1>1 DEF IInv, TypeOK, IdMeansTerms
<1>3. Ambiguous' => Ambiguous
  BY <1>1 DEF Ambiguous, NamedFilter
<1> QED
  BY <1>2, <1>3 DEF SecondOrder

LEMMA StutterInv ==
  ASSUME IInv, UNCHANGED vars
  PROVE  IInv' /\ (Ambiguous' => SecondOrder)
<1>1. UNCHANGED <<saved, filter, text, prevFilter, dialog, edits>>
  BY DEF vars
<1>2. IInv'
  BY <1>1 DEF IInv, TypeOK, IdMeansTerms
<1>3. Ambiguous' => Ambiguous
  BY <1>1 DEF Ambiguous, NamedFilter
<1> QED
  BY <1>2, <1>3 DEF SecondOrder

LEMMA NextInv == IInv /\ [Next]_vars => IInv' /\ (Ambiguous' => SecondOrder)
<1> SUFFICES ASSUME IInv, [Next]_vars PROVE IInv' /\ (Ambiguous' => SecondOrder)
  OBVIOUS
<1>1. CASE PageStep
  <2>1. ASSUME NEW t \in Texts, handleValueChange(t)
        PROVE  IInv' /\ (Ambiguous' => SecondOrder)
    BY <2>1, HandleValueChangeInv
  <2>2. ASSUME NEW id \in Ids \cup {None}, handleNamedFilterChange(id)
        PROVE  IInv' /\ (Ambiguous' => SecondOrder)
    BY <2>2, HandleNamedFilterChangeInv
  <2>3. ASSUME NEW field \in Fields, handleSortChange(field)
        PROVE  IInv' /\ (Ambiguous' => SecondOrder)
    BY <2>3, HandleSortChangeInv
  <2>4. ASSUME NEW term \in ChartTerms, handleDataClick(term)
        PROVE  IInv' /\ (Ambiguous' => SecondOrder)
    BY <2>4, HandleDataClickInv
  <2> QED
    BY <1>1, <2>1, <2>2, <2>3, <2>4, HandleUpdateFilterInv, HandleRemoveAndResetInv,
       HandlePagesInv, OnEditClickInv DEF PageStep
<1>2. CASE DialogStep
  <2>1. ASSUME NEW t \in Texts, dialog # None, onFilterStringChange(t)
        PROVE  IInv' /\ (Ambiguous' => SecondOrder)
    BY <2>1, FilterStringChangeInv
  <2>2. ASSUME NEW id \in Ids, dialog # None, createFilter(id)
        PROVE  IInv' /\ (Ambiguous' => SecondOrder)
    BY <2>2, CreateFilterInv
  <2> QED
    BY <1>2, <2>1, <2>2, EditStepInv, HandleSaveInv, OnCloseClickInv DEF DialogStep
<1>3. CASE UNCHANGED vars
  BY <1>3, StutterInv
<1> QED
  BY <1>1, <1>2, <1>3 DEF Next

-----------------------------------------------------------------------------
(* The theorems.                                                             *)

LEMMA InvHolds == Spec => []IInv
<1>1. IInv /\ [Next]_vars => IInv'
  BY NextInv
<1> QED
  BY <1>1, InitInv, PTL DEF Spec

(* Whatever is clicked, typed and saved, the filters of the page and of the  *)
(* dialog are lists of well-formed terms: the first item is never before 1   *)
(* (set), and the filter of the page says how many rows (usePageFilter).     *)
THEOREM FilterTypeCorrect == Spec => []TypeOK
<1>1. IInv => TypeOK
  BY DEF IInv
<1> QED
  BY <1>1, InvHolds, PTL

(* A filter shown under a name has exactly the terms saved under it.         *)
THEOREM IdsMeanTerms == Spec => []IdMeansTerms
<1>1. IInv => IdMeansTerms
  BY DEF IInv
<1> QED
  BY <1>1, InvHolds, PTL

(* The next page and the one before it lead back to where one was, with all  *)
(* terms of the filter in their places, for any number of rows from 0 on.    *)
THEOREM PagesAlwaysReturn == Spec => []PagesReturn
<1>1. IInv => PagesReturn
  BY InvProperties, PagesProperties DEF PagesReturn
<1> QED
  BY <1>1, InvHolds, PTL

(* No click and no entry adds a second sort order: it comes from a text.     *)
THEOREM OneSortOrderAtATime == Spec => OneSortOrder
<1>1. IInv /\ [Next]_vars =>
        (Ambiguous' =>
           \/ Ambiguous \/ SortedTwice(Filter(text))
           \/ dialog # None /\ \E t \in ToSet(dialog.filterstring) : t.keyword \in FieldKeywords)
  BY NextInv DEF SecondOrder
<1> QED
  BY <1>1, InvHolds, PTL DEF Spec, OneSortOrder

LEMMA SaveStep ==
  ASSUME IInv, handleSave, NoKeywordTwice(Merged)
  PROVE  SameTerms(filter', WithRows(Merged))
<1>1. dialog # None /\ dialog.orig_filter = filter
  BY InvProperties DEF handleSave
<1>2. Merged \in Filters /\ filter \in Filters /\ has(filter, "rows")
  BY <1>1, DialogProperties, InvProperties
<1>3. CASE equals(Merged, dialog.orig_filter)
  <2> DEFINE m == Merged
  <2>1. filter' = filter
    BY <1>3 DEF handleSave
  <2>2. \A t : Times(m, t) = Times(filter, t)
    BY <1>1, <1>2, <1>3, EqualsProperties
  <2>3. m \in Filters /\ m = Merged
    BY <1>2
  <2> HIDE DEF m
  <2>4. has(m, "rows")
    <3>1. PICK i \in DOMAIN filter.terms : filter.terms[i].keyword = "rows"
      BY <1>2 DEF has, Places
    <3> DEFINE t == filter.terms[i]
               I == {j \in DOMAIN m.terms : m.terms[j] = t}
               J == {j \in DOMAIN filter.terms : filter.terms[j] = t}
    <3>2. Times(m, t) = Cardinality(I) /\ Times(filter, t) = Cardinality(J)
      BY DEF Times
    <3>3. IsFiniteSet(J)
      <4>1. Len(filter.terms) \in Nat /\ DOMAIN filter.terms = 1 .. Len(filter.terms)
        BY <1>2, FilterProperties
      <4>2. IsFiniteSet(1 .. Len(filter.terms))
        BY <4>1, FS_Interval
      <4> QED
        BY <4>1, <4>2, FS_Subset
    <3>4. J # {}
      OBVIOUS
    <3> HIDE DEF J
    <3>5. Cardinality(J) # 0
      BY <3>3, <3>4, FS_EmptySet
    <3>6. I # {}
      <4>1. Cardinality(I) # 0
        BY <2>2, <3>2, <3>5
      <4> HIDE DEF I
      <4> QED
        BY <4>1, FS_EmptySet
    <3>7. PICK j \in DOMAIN m.terms : m.terms[j] = t
      BY <3>6
    <3>8. m.terms[j].keyword = "rows"
      BY <3>1, <3>7
    <3>9. "rows" # None
      BY NoneAssumption DEF EXTRA_KEYWORDS, NumberKeywords
    <3> QED
      BY <3>8, <3>9, HasProperties
  <2>5. WithRows(m) = m
    BY <2>3, <2>4, WithRowsProperties
  <2> QED
    BY <2>1, <2>2, <2>3, <2>5 DEF SameTerms
<1>4. CASE ~equals(Merged, dialog.orig_filter)
  <2>1. filter' = WithRows(Merged)
    BY <1>4 DEF handleSave, Change
  <2> QED
    BY <2>1 DEF SameTerms
<1> QED
  BY <1>3, <1>4

(* A save in the dialog gives the page the terms of the dialog: it changes   *)
(* nothing only where the page has these terms already, in whatever order.   *)
THEOREM SavesTakeEffect == Spec => SaveTakesEffect
<1>1. IInv /\ [Next]_vars =>
        (handleSave /\ NoKeywordTwice(Merged) => SameTerms(filter', WithRows(Merged)))
  BY SaveStep
<1> QED
  BY <1>1, InvHolds, PTL DEF Spec, SaveTakesEffect

-----------------------------------------------------------------------------
(* The text field.                                                           *)

(* The text was last made for a filter that equals the one of the page.      *)
PrevInv ==
  /\ filter.id = prevFilter.id
  /\ filter = prevFilter \/ equals(filter, prevFilter)

(* How a step deals with it.                                                 *)
Derived ==
  \/ UNCHANGED <<filter, prevFilter>>
  \/ text' = toFilterCriteriaString(filter') /\ prevFilter' = filter'
  \/ filter'.id = prevFilter.id /\ equals(filter', prevFilter) /\ prevFilter' = prevFilter

LEMMA ChangeDerives ==
  ASSUME NEW f, NEW shown, Change(f, shown)
  PROVE  Derived
<1> DEFINE w == WithRows(f)
<1>1. filter' = w /\ DeriveText(w, shown)
  BY DEF Change
<1> HIDE DEF w
<1>2. CASE w.id # prevFilter.id \/ ~equals(w, prevFilter)
  BY <1>1, <1>2 DEF DeriveText, Derived
<1>3. CASE ~(w.id # prevFilter.id \/ ~equals(w, prevFilter))
  BY <1>1, <1>3 DEF DeriveText, Derived
<1> QED
  BY <1>2, <1>3

LEMMA NextDerives ==
  ASSUME [Next]_vars
  PROVE  Derived
<1>1. ASSUME NEW f, ChangeFilter(f) PROVE Derived
  BY <1>1, ChangeDerives DEF ChangeFilter
<1>2. CASE PageStep
  <2>1. ASSUME NEW t \in Texts, handleValueChange(t) PROVE Derived
    BY <2>1 DEF handleValueChange, Derived
  <2>2. ASSUME handleUpdateFilter PROVE Derived
    BY <1>1, <2>2 DEF handleUpdateFilter
  <2>3. ASSUME NEW id \in Ids \cup {None}, handleNamedFilterChange(id) PROVE Derived
    <3> DEFINE f == IF id \in DOMAIN saved THEN NamedFilter(id) ELSE RESET_FILTER
    <3>1. ChangeFilter(f)
      BY <2>3 DEF handleNamedFilterChange
    <3> QED
      BY <1>1, <3>1
  <2>4. ASSUME handleRemoveClick \/ handleResetClick PROVE Derived
    BY <2>4, ChangeDerives DEF handleRemoveClick, handleResetClick
  <2>5. ASSUME handleFirst \/ handleNext \/ handlePrevious PROVE Derived
    BY <1>1, <2>5 DEF handleFirst, handleNext, handlePrevious
  <2>6. ASSUME NEW field \in Fields, handleSortChange(field) PROVE Derived
    BY <1>1, <2>6 DEF handleSortChange
  <2>7. ASSUME NEW term \in ChartTerms, handleDataClick(term) PROVE Derived
    <3> DEFINE f == IF hasTerm(filter, term) THEN filter ELSE and(filter, term)
    <3>1. ChangeFilter(f)
      BY <2>7 DEF handleDataClick
    <3> QED
      BY <1>1, <3>1
  <2>8. ASSUME onEditClick PROVE Derived
    BY <2>8 DEF onEditClick, Derived
  <2> QED
    BY <1>2, <2>1, <2>2, <2>3, <2>4, <2>5, <2>6, <2>7, <2>8 DEF PageStep
<1>3. CASE DialogStep
  <2>1. ASSUME NEW d, Edit(d) PROVE Derived
    BY <2>1 DEF Edit, Derived
  <2>2. ASSUME NEW f, EditFilter(f) PROVE Derived
    BY <2>1, <2>2 DEF EditFilter
  <2>3. ASSUME NEW t \in Texts, onFilterStringChange(t) PROVE Derived
    BY <2>1, <2>3 DEF onFilterStringChange
  <2>4. ASSUME NEW key, NEW value, onFilterValueChange(key, value) PROVE Derived
    BY <2>2, <2>4 DEF onFilterValueChange
  <2>5. ASSUME NEW field \in Fields, onSortByChange(field) PROVE Derived
    BY <2>2, <2>5 DEF onSortByChange
  <2>6. ASSUME NEW order \in FieldKeywords, onSortOrderChange(order) PROVE Derived
    BY <2>2, <2>6 DEF onSortOrderChange
  <2>7. ASSUME SaveFails PROVE Derived
    BY <2>2, <2>7 DEF SaveFails
  <2>8. ASSUME handleSave PROVE Derived
    <3>1. UNCHANGED <<filter, text, prevFilter>> \/ Change(Merged, text)
      BY <2>8 DEF handleSave
    <3> QED
      BY <3>1, ChangeDerives DEF Derived
  <2>9. ASSUME NEW id \in Ids, createFilter(id) PROVE Derived
    BY <2>9, ChangeDerives DEF createFilter
  <2>10. ASSUME onCloseClick PROVE Derived
    BY <2>10 DEF onCloseClick, Derived
  <2> QED
    BY <1>3, <2>3, <2>4, <2>5, <2>6, <2>7, <2>8, <2>9, <2>10 DEF DialogStep
<1>4. CASE UNCHANGED vars
  BY <1>4 DEF vars, Derived
<1> QED
  BY <1>2, <1>3, <1>4 DEF Next

LEMMA PrevHolds == Spec => []PrevInv
<1>1. Init => PrevInv
  BY DEF Init, PrevInv
<1>2. PrevInv /\ [Next]_vars => PrevInv'
  <2> SUFFICES ASSUME PrevInv, Derived PROVE PrevInv'
    BY NextDerives
  <2> QED
    BY DEF PrevInv, Derived
<1> QED
  BY <1>1, <1>2, PTL DEF Spec

LEMMA SameTermsProperties ==
  ASSUME NEW f, NEW g, \A t : Times(f, t) = Times(g, t)
  PROVE  SameTerms(f, g)
BY DEF SameTerms

LEMMA TextStep ==
  ASSUME IInv, PrevInv, IInv', [Next]_vars,
         filter'.id # filter.id \/ ~SameTerms(filter', filter),
         ViewedOnce(filter'),
         equals(filter', prevFilter) => NoKeywordTwice(filter')
  PROVE  SameTerms(fromString(text', filter'), filter')
<1>1. filter' \in Filters /\ filter \in Filters /\ prevFilter \in Filters
  BY DEF IInv, TypeOK
<1>2. Derived
  BY NextDerives
<1>3. CASE text' = toFilterCriteriaString(filter')
  <2> DEFINE f == filter'
             g == fromString(toFilterCriteriaString(f), f)
  <2>1. \A t : Times(g, t) = Times(f, t)
    BY <1>1, TextProperties
  <2> HIDE DEF g, f
  <2>2. SameTerms(g, f)
    BY <2>1, SameTermsProperties
  <2> QED
    BY <1>3, <2>2 DEF g, f
<1>4. CASE filter'.id = prevFilter.id /\ equals(filter', prevFilter)
  <2> DEFINE f == filter'
  <2>1. f \in Filters /\ equals(f, prevFilter) /\ NoKeywordTwice(f) /\ f = filter'
    BY <1>1, <1>4
  <2>2. filter'.id = filter.id
    BY <1>4 DEF PrevInv
  <2> HIDE DEF f
  <2>3. \A t : Times(f, t) = Times(filter, t)
    <3>1. CASE filter = prevFilter
      BY <1>1, <2>1, <3>1, EqualsProperties
    <3>2. CASE equals(filter, prevFilter)
      BY <1>1, <2>1, <3>2, EqualsTwice
    <3> QED
      BY <3>1, <3>2 DEF PrevInv
  <2>4. SameTerms(f, filter)
    BY <2>3, SameTermsProperties
  <2> QED
    BY <2>1, <2>2, <2>4
<1>5. CASE UNCHANGED <<filter, prevFilter>>
  <2>1. SameTerms(filter, filter)
    BY SameTermsProperties
  <2> QED
    BY <1>5, <2>1
<1> QED
  BY <1>2, <1>3, <1>4, <1>5 DEF Derived

(* When the page gets a filter with another name or other terms, the text    *)
(* field shows a text that stands for it: Enter would change nothing.        *)
THEOREM TextAlwaysTells == Spec => TextTellsFilter
<1>1. IInv /\ PrevInv /\ IInv' /\ [Next]_vars =>
        ((/\ filter'.id # filter.id \/ ~SameTerms(filter', filter)
          /\ ViewedOnce(filter')
          /\ equals(filter', prevFilter) => NoKeywordTwice(filter'))
         => SameTerms(fromString(text', filter'), filter'))
  BY TextStep
<1> QED
  BY <1>1, InvHolds, PrevHolds, PTL DEF Spec, TextTellsFilter

=============================================================================
