----------------------------- MODULE ListLemmas -----------------------------
(* What the operators on lists, from which the models are built, return. *)
EXTENDS Sublists, Integers, SequencesExt, WellFoundedInduction, SequenceTheorems,
        FiniteSetTheorems, TLAPS

-----------------------------------------------------------------------------
(* Taking out the first entry of an element *)

\* A set of numbers that is not empty has a least element, which Min returns.
LEMMA MinIsLeast ==
  ASSUME NEW I \in SUBSET Nat, I # {}
  PROVE  Min(I) \in I /\ \A y \in I : Min(I) <= y
<1>1. PICK x \in I : \A y \in I : <<y, x>> \notin OpToRel(<, Nat)
  <2>1. IsWellFoundedOn(OpToRel(<, Nat), Nat)
    BY NatLessThanWellFounded
  <2>2. QED
    BY <2>1, WFMin
<1>2. ASSUME NEW y \in I PROVE x <= y
  <2>1. SUFFICES ASSUME y < x PROVE FALSE
    OBVIOUS
  <2>2. <<y, x>> \in Nat \X Nat /\ <<y, x>>[1] < <<y, x>>[2]
    BY <2>1
  <2>3. <<y, x>> \in {ss \in Nat \X Nat : ss[1] < ss[2]}
    BY <2>2
  <2>4. QED
    BY <1>1, <2>3 DEF OpToRel
<1>3. QED
  BY <1>2 DEF Min

\* RemoveFirst takes one entry of e out of a list that holds e.
LEMMA RemovalAt ==
  ASSUME NEW S, NEW s \in Seq(S), NEW e \in ToSet(s)
  PROVE  \E i \in 1..Len(s) : s[i] = e /\ RemoveFirst(s, e) = RemoveAt(s, i)
<1> DEFINE I == {i \in 1..Len(s) : s[i] = e}
<1>1. I # {} /\ I \in SUBSET Nat
  BY DEF ToSet
<1>2. Min(I) \in I
  BY <1>1, MinIsLeast
<1>3. RemoveFirst(s, e) = RemoveAt(s, Min(I))
  BY <1>1 DEF RemoveFirst, SelectInSeq
<1>4. QED
  BY <1>2, <1>3

\* What follows the entry moves up by one.
LEMMA RemovalMovesUp ==
  ASSUME NEW S, NEW s \in Seq(S), NEW e \in ToSet(s)
  PROVE  LET r == RemoveFirst(s, e) IN
         /\ r \in Seq(S) /\ Len(r) = Len(s) - 1
         /\ \E i \in 1..Len(s) :
              s[i] = e /\ \A j \in 1..Len(r) : r[j] = IF j < i THEN s[j] ELSE s[j + 1]
<1>1. PICK i \in 1..Len(s) : s[i] = e /\ RemoveFirst(s, e) = RemoveAt(s, i)
  BY RemovalAt
<1> DEFINE r == SubSeq(s, 1, i - 1) \o SubSeq(s, i + 1, Len(s))
<1>2. RemoveFirst(s, e) = r
  BY <1>1 DEF RemoveAt
<1>3. /\ r \in Seq(S) /\ Len(r) = Len(s) - 1
      /\ \A j \in 1..Len(r) : r[j] = IF j < i THEN s[j] ELSE s[j + 1]
  <2> DEFINE a == SubSeq(s, 1, i - 1)
             b == SubSeq(s, i + 1, Len(s))
  <2>1. /\ a \in Seq(S) /\ Len(a) = i - 1
        /\ \A j \in 1..i - 1 : a[j] = s[j]
    BY SubSeqProperties
  <2>2. /\ b \in Seq(S) /\ Len(b) = Len(s) - i
        /\ \A j \in 1..Len(s) - i : b[j] = s[i + j]
    BY SubSeqProperties
  <2>3. r = a \o b
    OBVIOUS
  <2> HIDE DEF a, b, r
  <2>4. /\ a \o b \in Seq(S) /\ Len(a \o b) = Len(a) + Len(b)
        /\ \A j \in 1..Len(a) + Len(b) :
             (a \o b)[j] = IF j <= Len(a) THEN a[j] ELSE b[j - Len(a)]
    BY <2>1, <2>2, ConcatProperties
  <2>5. r \in Seq(S) /\ Len(r) = Len(s) - 1
    BY <2>1, <2>2, <2>3, <2>4
  <2>6. ASSUME NEW j \in 1..Len(r)
        PROVE  r[j] = IF j < i THEN s[j] ELSE s[j + 1]
    <3>1. CASE j < i
      BY <2>1, <2>2, <2>3, <2>4, <2>5, <3>1
    <3>2. CASE j >= i
      <4>1. PICK k \in 1..Len(s) - i : r[j] = b[k] /\ i + k = j + 1
        <5>1. j - (i - 1) \in 1..Len(s) - i
          BY <2>5, <3>2
        <5>2. r[j] = b[j - (i - 1)]
          BY <2>1, <2>2, <2>3, <2>4, <2>5, <3>2
        <5>3. i + (j - (i - 1)) = j + 1
          BY <2>5
        <5>4. QED
          BY <5>1, <5>2, <5>3
      <4>2. b[k] = s[i + k]
        BY <2>2
      <4>3. QED
        BY <2>5, <3>2, <4>1, <4>2
    <3>3. QED
      BY <3>1, <3>2
  <2>7. QED
    BY <2>5, <2>6
<1>4. QED
  BY <1>1, <1>2, <1>3

\* Without an entry of e, every other element is still listed.
LEMMA OthersStay ==
  ASSUME NEW S, NEW s \in Seq(S), NEW e \in ToSet(s)
  PROVE  /\ RemoveFirst(s, e) \in Seq(S)
         /\ \A d \in ToSet(s) : d # e => d \in ToSet(RemoveFirst(s, e))
<1> DEFINE r == RemoveFirst(s, e)
<1>1. /\ r \in Seq(S) /\ Len(r) = Len(s) - 1
      /\ \E i \in 1..Len(s) :
           s[i] = e /\ \A j \in 1..Len(r) : r[j] = IF j < i THEN s[j] ELSE s[j + 1]
  BY RemovalMovesUp
<1>2. PICK i \in 1..Len(s) :
        s[i] = e /\ \A j \in 1..Len(r) : r[j] = IF j < i THEN s[j] ELSE s[j + 1]
  BY <1>1
<1> HIDE DEF r
<1>3. ASSUME NEW d \in ToSet(s), d # e PROVE d \in ToSet(r)
  <2>1. PICK j \in 1..Len(s) : s[j] = d
    BY DEF ToSet
  <2>2. CASE j < i
    <3>1. j \in DOMAIN r /\ r[j] = d
      BY <1>1, <1>2, <2>1, <2>2
    <3>2. QED
      BY <3>1 DEF ToSet
  <2>3. CASE j > i
    <3>1. j - 1 \in DOMAIN r /\ r[j - 1] = d
      BY <1>1, <1>2, <2>1, <2>3
    <3>2. QED
      BY <3>1 DEF ToSet
  <2>4. QED
    BY <1>2, <1>3, <2>1, <2>2, <2>3
<1>4. QED
  BY <1>1, <1>3 DEF r

-----------------------------------------------------------------------------
(* Lists without doubles *)

\* list holds the elements of S, each once
Lists(list, S) ==
  /\ list \in Seq(S)
  /\ \A x \in S : \E i \in 1..Len(list) : list[i] = x
  /\ \A i, j \in 1..Len(list) : list[i] = list[j] => i = j

\* There are n numbers from 1 to n.
LEMMA CountTo ==
  ASSUME NEW n \in Nat PROVE IsFiniteSet(1..n) /\ Cardinality(1..n) = n
  BY FS_Interval

\* Such a list has S as its elements and as many entries as S.
LEMMA ListsCount ==
  ASSUME NEW S, NEW s, Lists(s, S)
  PROVE  ToSet(s) = S /\ IsFiniteSet(S) /\ Len(s) = Cardinality(S) /\ Len(s) \in Nat
<1> USE DEF Lists
<1>1. ToSet(s) = S
  BY DEF ToSet
<1>2. s \in Bijection(1..Len(s), S)
  <2>1. s \in [1..Len(s) -> S] /\ IsInjective(s)
    BY DEF IsInjective
  <2>2. QED
    BY <2>1 DEF Bijection, Injection, Surjection
<1>3. Len(s) \in Nat
  OBVIOUS
<1>4. IsFiniteSet(1..Len(s)) /\ Cardinality(1..Len(s)) = Len(s)
  BY <1>3, CountTo
<1>5. QED
  BY <1>1, <1>2, <1>3, <1>4, FS_Bijection DEF ExistsBijection

\* An element that is not listed is appended.
LEMMA ListsAppend ==
  ASSUME NEW S, NEW s, Lists(s, S), NEW e, e \notin S
  PROVE  Lists(Append(s, e), S \cup {e}) /\ Len(Append(s, e)) = Len(s) + 1
<1> DEFINE r == Append(s, e)
<1>1. s \in Seq(S \cup {e})
  BY SeqMonotonic DEF Lists
<1>2. /\ r \in Seq(S \cup {e}) /\ Len(r) = Len(s) + 1
      /\ \A i \in 1..Len(s) : r[i] = s[i]
      /\ r[Len(s) + 1] = e
  BY <1>1, AppendProperties
<1>3. Len(s) \in Nat /\ \A i \in 1..Len(s) : s[i] \in S
  BY DEF Lists
<1> HIDE DEF r
<1>4. ASSUME NEW x \in S \cup {e} PROVE \E i \in 1..Len(r) : r[i] = x
  <2>1. CASE x = e
    BY <1>2, <1>3, <2>1
  <2>2. CASE x \in S
    <3>1. PICK i \in 1..Len(s) : s[i] = x
      BY <2>2 DEF Lists
    <3>2. QED
      BY <1>2, <1>3, <3>1
  <2>3. QED
    BY <2>1, <2>2
<1>5. ASSUME NEW i \in 1..Len(r), NEW j \in 1..Len(r), r[i] = r[j] PROVE i = j
  <2>1. CASE i \in 1..Len(s) /\ j \in 1..Len(s)
    BY <1>2, <1>5, <2>1 DEF Lists
  <2>2. CASE i = Len(s) + 1 \/ j = Len(s) + 1
    BY <1>2, <1>3, <1>5, <2>2
  <2>3. QED
    BY <1>2, <1>3, <2>1, <2>2
<1>6. QED
  BY <1>2, <1>4, <1>5 DEF Lists, r

\* A listed element is taken out.
LEMMA ListsRemove ==
  ASSUME NEW S, NEW s, Lists(s, S), NEW e \in S
  PROVE  Lists(RemoveFirst(s, e), S \ {e}) /\ Len(RemoveFirst(s, e)) = Len(s) - 1
<1> DEFINE r == RemoveFirst(s, e)
<1>1. s \in Seq(S) /\ e \in ToSet(s) /\ Len(s) \in Nat
  <2>1. ToSet(s) = S /\ Len(s) \in Nat
    BY ListsCount
  <2>2. QED
    BY <2>1 DEF Lists
<1>2. /\ r \in Seq(S) /\ Len(r) = Len(s) - 1
      /\ \E i \in 1..Len(s) :
           s[i] = e /\ \A j \in 1..Len(r) : r[j] = IF j < i THEN s[j] ELSE s[j + 1]
  BY <1>1, RemovalMovesUp
<1>3. PICK i \in 1..Len(s) :
        s[i] = e /\ \A j \in 1..Len(r) : r[j] = IF j < i THEN s[j] ELSE s[j + 1]
  BY <1>2
<1> HIDE DEF r
<1>4. ASSUME NEW j \in 1..Len(r)
      PROVE  r[j] \in S \ {e} /\ r[j] = s[IF j < i THEN j ELSE j + 1]
  <2> DEFINE k == IF j < i THEN j ELSE j + 1
  <2>1. k \in 1..Len(s) /\ k # i
    BY <1>1, <1>2
  <2>2. r[j] = s[k]
    BY <1>3
  <2> HIDE DEF k
  <2>3. s[k] \in S
    BY <1>1, <2>1
  <2>4. \A a, b \in 1..Len(s) : s[a] = s[b] => a = b
    BY DEF Lists
  <2>5. s[k] # e
    BY <1>3, <2>1, <2>4
  <2>6. QED
    BY <2>2, <2>3, <2>5 DEF k
<1>5. r \in Seq(S \ {e})
  <2>1. r \in [1..Len(r) -> S \ {e}] /\ Len(r) \in Nat
    BY <1>1, <1>2, <1>4
  <2>2. QED
    BY <2>1
<1>6. ASSUME NEW x \in S \ {e} PROVE \E j \in 1..Len(r) : r[j] = x
  <2>1. PICK k \in 1..Len(s) : s[k] = x
    BY DEF Lists
  <2>2. k # i
    BY <1>3, <2>1
  <2>3. CASE k < i
    <3>1. k \in 1..Len(r)
      BY <1>1, <1>2, <2>3
    <3>2. QED
      BY <1>3, <2>1, <2>3, <3>1
  <2>4. CASE k > i
    <3>1. k - 1 \in 1..Len(r) /\ ~(k - 1 < i) /\ (k - 1) + 1 = k
      BY <1>1, <1>2, <2>4
    <3>2. QED
      BY <1>3, <2>1, <3>1
  <2>5. QED
    BY <2>2, <2>3, <2>4
<1>7. ASSUME NEW j \in 1..Len(r), NEW k \in 1..Len(r), r[j] = r[k] PROVE j = k
  <2> DEFINE at(n) == IF n < i THEN n ELSE n + 1
  <2>1. at(j) \in 1..Len(s) /\ at(k) \in 1..Len(s)
    BY <1>1, <1>2
  <2>2. s[at(j)] = s[at(k)]
    BY <1>4, <1>7
  <2>3. at(j) = at(k)
    <3> HIDE DEF at
    <3>1. QED
      BY <2>1, <2>2 DEF Lists
  <2>4. QED
    BY <2>3
<1>8. QED
  BY <1>2, <1>5, <1>6, <1>7 DEF Lists, r

\* Without its head a list holds the other elements.
LEMMA ListsTail ==
  ASSUME NEW S, NEW s, Lists(s, S), s # <<>>
  PROVE  Lists(Tail(s), S \ {Head(s)}) /\ Head(s) \in S
<1> DEFINE r == Tail(s)
           e == Head(s)
<1>1. /\ s \in Seq(S) /\ e \in S /\ r \in Seq(S) /\ Len(r) = Len(s) - 1 /\ s[1] = e
      /\ \A i \in 1..Len(r) : r[i] = s[i + 1]
  BY HeadTailProperties DEF Lists
<1>2. Len(s) \in Nat /\ Len(s) > 0 /\ Len(r) \in Nat
  BY <1>1
<1> HIDE DEF r, e
<1>3. ASSUME NEW i \in 1..Len(r) PROVE i + 1 \in 1..Len(s) /\ r[i] = s[i + 1] /\ r[i] # e
  <2>1. i + 1 \in 1..Len(s) /\ 1 \in 1..Len(s) /\ i + 1 # 1
    BY <1>1, <1>2
  <2>2. r[i] = s[i + 1]
    BY <1>1
  <2>3. QED
    BY <1>1, <2>1, <2>2 DEF Lists
<1>4. r \in Seq(S \ {e})
  <2>1. \A i \in 1..Len(r) : r[i] \in S \ {e}
    BY <1>1, <1>3
  <2>2. QED
    BY <1>1, <2>1
<1>5. ASSUME NEW x \in S \ {e} PROVE \E i \in 1..Len(r) : r[i] = x
  <2>1. PICK k \in 1..Len(s) : s[k] = x
    BY DEF Lists
  <2>2. k # 1
    BY <1>1, <2>1
  <2>3. k - 1 \in 1..Len(r) /\ (k - 1) + 1 = k
    BY <1>1, <1>2, <2>2
  <2>4. QED
    BY <1>1, <2>1, <2>3
<1>6. ASSUME NEW i \in 1..Len(r), NEW j \in 1..Len(r), r[i] = r[j] PROVE i = j
  <2>1. i + 1 = j + 1
    BY <1>3, <1>6 DEF Lists
  <2>2. QED
    BY <1>2, <2>1
<1>7. QED
  BY <1>1, <1>4, <1>5, <1>6 DEF Lists, r, e

\* The reverse lists the same elements.
LEMMA ListsReverse ==
  ASSUME NEW S, NEW s, Lists(s, S)
  PROVE  Lists(Reverse(s), S) /\ Len(Reverse(s)) = Len(s)
<1> DEFINE r == Reverse(s)
<1>1. /\ r \in [1..Len(s) -> S] /\ Len(s) \in Nat
      /\ \A i \in 1..Len(s) : r[i] = s[(Len(s) - i) + 1]
  BY DEF Lists, Reverse
<1>2. r \in Seq(S) /\ Len(r) = Len(s)
  BY <1>1
<1> HIDE DEF r
<1>3. ASSUME NEW x \in S PROVE \E i \in 1..Len(r) : r[i] = x
  <2>1. PICK i \in 1..Len(s) : s[i] = x
    BY DEF Lists
  <2>2. (Len(s) - i) + 1 \in 1..Len(s) /\ (Len(s) - ((Len(s) - i) + 1)) + 1 = i
    BY <1>1
  <2>3. QED
    BY <1>1, <1>2, <2>1, <2>2
<1>4. ASSUME NEW i \in 1..Len(r), NEW j \in 1..Len(r), r[i] = r[j] PROVE i = j
  <2>1. /\ (Len(s) - i) + 1 \in 1..Len(s) /\ (Len(s) - j) + 1 \in 1..Len(s)
        /\ s[(Len(s) - i) + 1] = s[(Len(s) - j) + 1]
    BY <1>1, <1>2, <1>4
  <2>2. (Len(s) - i) + 1 = (Len(s) - j) + 1
    BY <2>1 DEF Lists
  <2>3. QED
    BY <1>1, <1>2, <2>2
<1>5. QED
  BY <1>2, <1>3, <1>4 DEF Lists, r

\* Every order that SetToSeqs gives lists the set.
LEMMA ListsOrder ==
  ASSUME NEW S, IsFiniteSet(S), NEW s \in SetToSeqs(S)
  PROVE  Lists(s, S) /\ Len(s) = Cardinality(S)
<1> DEFINE n == Cardinality(S)
<1>1. n \in Nat
  BY FS_CardinalityType
<1>2. s \in [1..n -> S] /\ \A i, j \in 1..n : i # j => s[i] # s[j]
  BY DEF SetToSeqs
<1> HIDE DEF n
<1>3. s \in Seq(S) /\ Len(s) = n
  BY <1>1, <1>2
<1>4. s \in Injection(1..n, S)
  BY <1>2 DEF Injection, IsInjective
<1>5. Cardinality(1..n) = n
  BY <1>1, CountTo
<1>6. s \in Surjection(1..n, S)
  BY <1>4, <1>5, FS_Injection DEF n
<1>7. QED
  BY <1>2, <1>3, <1>6 DEF Lists, Surjection, n

-----------------------------------------------------------------------------
(* Ranks: where the entries of a list that are kept end up *)

\* the rank of i in a set of numbers
RankIn(at, i) == Cardinality({j \in at : j <= i})

\* A finite set of numbers has one element of each rank.
LEMMA Ranks ==
  ASSUME NEW at \in SUBSET Nat, IsFiniteSet(at)
  PROVE  /\ Cardinality(at) \in Nat
         /\ \A n \in 1..Cardinality(at) : \E i \in at : RankIn(at, i) = n
         /\ \A i, k \in at : RankIn(at, i) = RankIn(at, k) => i = k
         /\ \A i \in at : RankIn(at, i) \in 1..Cardinality(at)
<1> DEFINE upto(i) == {j \in at : j <= i}
           rank == [i \in at |-> RankIn(at, i)]
           n == Cardinality(at)
<1>1. \A i : /\ IsFiniteSet(upto(i)) /\ Cardinality(upto(i)) \in Nat
             /\ Cardinality(upto(i)) <= n
  BY FS_Subset, FS_CardinalityType
<1>2. n \in Nat
  BY FS_CardinalityType
<1>3. ASSUME NEW i \in at PROVE RankIn(at, i) \in 1..n
  <2>1. upto(i) # {}
    OBVIOUS
  <2>2. Cardinality(upto(i)) # 0
    BY <1>1, <2>1, FS_EmptySet
  <2>3. QED
    BY <1>1, <1>2, <2>2 DEF RankIn
<1>4. ASSUME NEW i \in at, NEW k \in at, i < k PROVE RankIn(at, i) < RankIn(at, k)
  <2>1. upto(i) \subseteq upto(k) /\ k \in upto(k) /\ k \notin upto(i)
    <3>1. i \in Nat /\ k \in Nat /\ \A j \in at : j \in Nat
      OBVIOUS
    <3>2. \A j \in at : j <= i => j <= k
      BY <1>4, <3>1
    <3>3. k <= k /\ ~(k <= i)
      BY <1>4, <3>1
    <3>4. QED
      BY <3>2, <3>3
  <2>2. Cardinality(upto(i)) <= Cardinality(upto(k))
    BY <1>1, <2>1, FS_Subset
  <2>3. Cardinality(upto(i)) # Cardinality(upto(k))
    BY <1>1, <2>1, FS_Subset
  <2>4. QED
    BY <1>1, <2>2, <2>3 DEF RankIn
<1>5. \A i, k \in at : RankIn(at, i) = RankIn(at, k) => i = k
  <2> SUFFICES ASSUME NEW i \in at, NEW k \in at, RankIn(at, i) = RankIn(at, k), i # k
               PROVE  FALSE
    OBVIOUS
  <2>1. RankIn(at, i) \in Nat /\ RankIn(at, k) \in Nat
    BY <1>3
  <2>2. i < k \/ k < i
    OBVIOUS
  <2>3. QED
    BY <1>4, <2>1, <2>2
<1> HIDE DEF n
<1>6. rank \in Injection(at, 1..n)
  BY <1>3, <1>5 DEF Injection, IsInjective
<1>7. IsFiniteSet(1..n) /\ Cardinality(1..n) = n
  BY <1>2, CountTo
<1>8. rank \in Surjection(at, 1..n)
  BY <1>6, <1>7, FS_Injection DEF n
<1>9. \A m \in 1..n : \E i \in at : RankIn(at, i) = m
  BY <1>8 DEF Surjection
<1>10. QED
  BY <1>2, <1>3, <1>5, <1>9 DEF n

\* What is found of a list is a list of the entries that are in S.
LEMMA FoundLists ==
  ASSUME NEW T, NEW list, Lists(list, T), NEW S
  PROVE  Lists(Found(list, S), T \cap S)
<1> DEFINE at == {i \in DOMAIN list : list[i] \in S}
           m == Cardinality(at)
           r == Found(list, S)
           pos(n) == CHOOSE i \in at : RankIn(at, i) = n
<1>1. list \in Seq(T) /\ DOMAIN list = 1..Len(list) /\ Len(list) \in Nat
  BY DEF Lists
<1>2. at \in SUBSET Nat /\ IsFiniteSet(at)
  <2>1. at \in SUBSET (1..Len(list)) /\ IsFiniteSet(1..Len(list))
    BY <1>1, CountTo
  <2>2. QED
    BY <1>1, <2>1, FS_Subset
<1>3. /\ m \in Nat
      /\ \A n \in 1..m : \E i \in at : RankIn(at, i) = n
      /\ \A i, k \in at : RankIn(at, i) = RankIn(at, k) => i = k
      /\ \A i \in at : RankIn(at, i) \in 1..m
  BY <1>2, Ranks
<1>4. r = [n \in 1..m |-> list[pos(n)]]
  BY DEF Found, RankIn
<1>5. \A n \in 1..m : pos(n) \in at /\ RankIn(at, pos(n)) = n
  BY <1>3
<1>6. \A i \in at : i \in 1..Len(list) /\ list[i] \in T \cap S
  BY <1>1
<1>7. \A i \in 1..Len(list) : list[i] \in S => i \in at
  BY <1>1
<1> HIDE DEF at, m, pos, r
<1>8. r \in Seq(T \cap S) /\ Len(r) = m /\ \A n \in 1..m : r[n] = list[pos(n)]
  <2>1. r \in [1..m -> T \cap S]
    BY <1>4, <1>5, <1>6
  <2>2. QED
    BY <1>3, <1>4, <2>1
<1>9. ASSUME NEW x \in T \cap S PROVE \E n \in 1..Len(r) : r[n] = x
  <2>1. PICK i \in 1..Len(list) : list[i] = x
    BY DEF Lists
  <2>2. i \in at
    BY <1>7, <2>1
  <2>3. RankIn(at, i) \in 1..m /\ pos(RankIn(at, i)) = i
    BY <1>3, <1>5, <2>2
  <2>4. QED
    BY <1>8, <2>1, <2>3
<1>10. ASSUME NEW a \in 1..Len(r), NEW b \in 1..Len(r), r[a] = r[b] PROVE a = b
  <2>1. list[pos(a)] = list[pos(b)] /\ pos(a) \in 1..Len(list) /\ pos(b) \in 1..Len(list)
    BY <1>5, <1>6, <1>8, <1>10
  <2>2. pos(a) = pos(b)
    BY <2>1 DEF Lists
  <2>3. QED
    BY <1>5, <1>8, <2>2
<1>11. QED
  BY <1>8, <1>9, <1>10 DEF Lists, r

-----------------------------------------------------------------------------
(* What is in a list *)

\* An appended element joins those of the list.
LEMMA ToSetAppend ==
  ASSUME NEW S, NEW s \in Seq(S), NEW e \in S
  PROVE  ToSet(Append(s, e)) = ToSet(s) \cup {e}
<1> DEFINE r == Append(s, e)
<1>1. /\ Len(r) = Len(s) + 1 /\ r \in Seq(S) /\ Len(s) \in Nat
      /\ \A i \in 1..Len(s) : r[i] = s[i]
      /\ r[Len(s) + 1] = e
  BY AppendProperties
<1>2. DOMAIN r = 1..(Len(s) + 1) /\ DOMAIN s = 1..Len(s)
  BY <1>1
<1> HIDE DEF r
<1>3. \A i \in DOMAIN r : i \in 1..Len(s) \/ i = Len(s) + 1
  BY <1>1, <1>2
<1>4. \A i \in 1..Len(s) : i \in DOMAIN r
  BY <1>1, <1>2
<1>5. Len(s) + 1 \in DOMAIN r
  BY <1>1, <1>2
<1>6. QED
  BY <1>1, <1>2, <1>3, <1>4, <1>5 DEF ToSet, r

\* A list holds its head and what is in its tail.
LEMMA ToSetTail ==
  ASSUME NEW S, NEW s \in Seq(S), s # <<>>
  PROVE  ToSet(s) = {Head(s)} \cup ToSet(Tail(s)) /\ Tail(s) \in Seq(S)
<1> DEFINE r == Tail(s)
<1>1. /\ r \in Seq(S) /\ Len(r) = Len(s) - 1 /\ s[1] = Head(s)
      /\ \A i \in 1..Len(r) : r[i] = s[i + 1]
  BY HeadTailProperties
<1>2. /\ Len(s) \in Nat /\ Len(s) > 0 /\ DOMAIN s = 1..Len(s) /\ DOMAIN r = 1..Len(r)
      /\ Len(r) \in Nat
  BY <1>1
<1> HIDE DEF r
<1>3. 1 \in DOMAIN s /\ \A i \in DOMAIN r : i + 1 \in DOMAIN s
  BY <1>1, <1>2
<1>4. ASSUME NEW i \in DOMAIN s, i # 1 PROVE s[i] \in ToSet(r)
  <2>1. i - 1 \in DOMAIN r /\ (i - 1) + 1 = i
    BY <1>1, <1>2, <1>4
  <2>2. r[i - 1] = s[i]
    BY <1>1, <1>2, <2>1
  <2>3. QED
    BY <2>1, <2>2 DEF ToSet
<1>5. ASSUME NEW i \in DOMAIN r PROVE r[i] \in ToSet(s)
  BY <1>1, <1>2, <1>3 DEF ToSet
<1>6. ToSet(r) \subseteq ToSet(s) /\ Head(s) \in ToSet(s)
  BY <1>1, <1>3, <1>5 DEF ToSet
<1>7. \A x \in ToSet(s) : x = Head(s) \/ x \in ToSet(r)
  BY <1>1, <1>4 DEF ToSet
<1>8. QED
  BY <1>1, <1>6, <1>7 DEF r

\* Nothing is in the empty list.
LEMMA ToSetNone == ToSet(<<>>) = {}
  BY DEF ToSet
=============================================================================
