------------------------- MODULE SessionStoreProofs -------------------------
(* Proofs about SessionStore, for any entries, files and kinds of entries  *)
(* and any number of sessions.                                             *)
EXTENDS SessionStore, SequenceTheorems, FiniteSetTheorems, WellFoundedInduction, TLAPS

(* Arguments by induction are put as arguments about a least counterexample.*)
LEMMA Least ==
  ASSUME NEW T, T \subseteq Nat, T # {}
  PROVE  \E m \in T : \A n \in T : m <= n
<1>1. \E x \in T : \A y \in T : ~(<<y, x>> \in OpToRel(<, Nat))
  BY NatLessThanWellFounded, WFMin
<1>2. PICK x \in T : \A y \in T : ~(<<y, x>> \in OpToRel(<, Nat))
  BY <1>1
<1>3. \A y \in T : ~(y < x)
  BY <1>2 DEF OpToRel
<1> QED BY <1>3

LEMMA Greatest ==
  ASSUME NEW b \in Nat, NEW T, \A t \in T : t \in 0..b, T # {}
  PROVE  \E m \in T : \A n \in T : n <= m
<1> DEFINE U == {n \in Nat : \A t \in T : t <= n}
<1>1. U \subseteq Nat /\ b \in U
  OBVIOUS
<1>2. PICK m \in U : \A n \in U : m <= n
  BY <1>1, Least
<1>3. m \in T
  <2>1. SUFFICES ASSUME m \notin T PROVE FALSE
    OBVIOUS
  <2>2. m # 0
    BY <1>2, <2>1
  <2>3. m - 1 \in U
    BY <1>2, <2>1, <2>2
  <2> QED BY <1>1, <1>2, <2>3
<1> QED BY <1>2, <1>3

-----------------------------------------------------------------------------
(* The elements of a sequence at a set of indices: the nth is at the index *)
(* that has n of the indices up to it.                                     *)
UpTo(I, i) == {j \in I : j <= i}
Within(I, n) == \A j \in I : j \in 1..n

LEMMA RankGrows ==
  ASSUME NEW n \in Nat, NEW I, \A j \in I : j \in 1..n
  PROVE  /\ IsFiniteSet(I) /\ Cardinality(I) \in Nat
         /\ UpTo(I, 0) = {} /\ UpTo(I, n) = I
         /\ \A i \in Nat : IsFiniteSet(UpTo(I, i)) /\ Cardinality(UpTo(I, i)) \in 0..Cardinality(I)
         /\ \A i \in Nat : i + 1 \notin I => UpTo(I, i + 1) = UpTo(I, i)
         /\ \A i \in Nat : i + 1 \in I =>
              Cardinality(UpTo(I, i + 1)) = Cardinality(UpTo(I, i)) + 1
<1>1. IsFiniteSet(I) /\ Cardinality(I) \in Nat
  <2>1. IsFiniteSet(1..n) /\ I \in SUBSET (1..n)
    BY FS_Interval
  <2> QED BY <2>1, FS_Subset, FS_CardinalityType
<1>2. UpTo(I, 0) = {} /\ UpTo(I, n) = I
  BY DEF UpTo
<1>3. ASSUME NEW i \in Nat
      PROVE  IsFiniteSet(UpTo(I, i)) /\ Cardinality(UpTo(I, i)) \in 0..Cardinality(I)
  <2>1. UpTo(I, i) \in SUBSET I
    BY DEF UpTo
  <2>2. /\ IsFiniteSet(UpTo(I, i)) /\ Cardinality(UpTo(I, i)) <= Cardinality(I)
        /\ Cardinality(UpTo(I, i)) \in Nat
    BY <1>1, <2>1, FS_Subset, FS_CardinalityType
  <2> QED BY <1>1, <2>2
<1>4. ASSUME NEW i \in Nat, i + 1 \notin I PROVE UpTo(I, i + 1) = UpTo(I, i)
  BY <1>4 DEF UpTo
<1>5. ASSUME NEW i \in Nat, i + 1 \in I
      PROVE  Cardinality(UpTo(I, i + 1)) = Cardinality(UpTo(I, i)) + 1
  <2>1. UpTo(I, i + 1) = UpTo(I, i) \cup {i + 1} /\ i + 1 \notin UpTo(I, i)
    BY <1>5 DEF UpTo
  <2> QED BY <1>3, <2>1, FS_AddElement
<1> QED BY <1>1, <1>2, <1>3, <1>4, <1>5

LEMMA RankMonotone ==
  ASSUME NEW n \in Nat, NEW I, \A j \in I : j \in 1..n, NEW i \in Nat, NEW j \in Nat, i < j
  PROVE  /\ Cardinality(UpTo(I, i)) <= Cardinality(UpTo(I, j))
         /\ j \in I => Cardinality(UpTo(I, i)) < Cardinality(UpTo(I, j))
<1>1. UpTo(I, i) \in SUBSET UpTo(I, j)
  BY DEF UpTo
<1>2. /\ IsFiniteSet(UpTo(I, i)) /\ Cardinality(UpTo(I, i)) \in Nat
      /\ IsFiniteSet(UpTo(I, j)) /\ Cardinality(UpTo(I, j)) \in Nat
  BY RankGrows
<1>3. Cardinality(UpTo(I, i)) <= Cardinality(UpTo(I, j))
  BY <1>1, <1>2, FS_Subset
<1>4. ASSUME j \in I PROVE UpTo(I, i) # UpTo(I, j)
  BY <1>4 DEF UpTo
<1>5. Cardinality(UpTo(I, i)) = Cardinality(UpTo(I, j)) => UpTo(I, i) = UpTo(I, j)
  BY <1>1, <1>2, FS_Subset
<1> QED BY <1>2, <1>3, <1>4, <1>5

LEMMA PlaceIs ==
  ASSUME NEW n \in Nat, NEW I, \A j \in I : j \in 1..n, NEW i \in I
  PROVE  /\ Cardinality(UpTo(I, i)) \in 1..Cardinality(I)
         /\ Place(I, Cardinality(UpTo(I, i))) = i
<1>1. i \in Nat /\ 0 < i
  OBVIOUS
<1>2. /\ Cardinality(I) \in Nat
      /\ \A m \in Nat : Cardinality(UpTo(I, m)) \in 0..Cardinality(I)
  BY RankGrows
<1>3. \A l, m \in Nat : l < m /\ m \in I => Cardinality(UpTo(I, l)) < Cardinality(UpTo(I, m))
  BY RankMonotone
<1>4. Cardinality(UpTo(I, i)) \in 1..Cardinality(I)
  <2>1. Cardinality(UpTo(I, 0)) < Cardinality(UpTo(I, i))
    BY <1>1, <1>3
  <2> QED BY <1>1, <1>2, <2>1
<1>5. ASSUME NEW j \in I, Cardinality(UpTo(I, j)) = Cardinality(UpTo(I, i)) PROVE j = i
  <2>1. j \in Nat /\ Cardinality(UpTo(I, i)) \in Nat
    BY <1>1, <1>2
  <2>2. ~(j < i) /\ ~(i < j)
    BY <1>1, <1>3, <1>5, <2>1
  <2> QED BY <1>1, <2>1, <2>2
<1>6. Place(I, Cardinality(UpTo(I, i))) = i
  BY <1>5 DEF Place, UpTo
<1> QED BY <1>4, <1>6

LEMMA PlaceExists ==
  ASSUME NEW n \in Nat, NEW I, \A j \in I : j \in 1..n, NEW k \in 1..Cardinality(I)
  PROVE  /\ Place(I, k) \in I /\ Place(I, k) \in 1..n
         /\ Cardinality(UpTo(I, Place(I, k))) = k
<1> DEFINE T == {m \in Nat : Cardinality(UpTo(I, m)) >= k}
<1>1. /\ Cardinality(I) \in Nat /\ UpTo(I, 0) = {} /\ UpTo(I, n) = I
      /\ \A m \in Nat : Cardinality(UpTo(I, m)) \in 0..Cardinality(I)
  BY RankGrows
<1>2. /\ \A m \in Nat : m + 1 \notin I => UpTo(I, m + 1) = UpTo(I, m)
      /\ \A m \in Nat : m + 1 \in I =>
           Cardinality(UpTo(I, m + 1)) = Cardinality(UpTo(I, m)) + 1
  BY RankGrows
<1>3. n \in T
  BY <1>1
<1>4. PICK m \in T : \A l \in T : m <= l
  BY <1>3, Least
<1>5. m # 0
  <2>1. Cardinality(UpTo(I, 0)) = 0
    BY <1>1, FS_EmptySet
  <2>2. ~(0 >= k) /\ Cardinality(UpTo(I, m)) >= k
    BY <1>1, <1>4
  <2> QED BY <2>1, <2>2
<1>6. m - 1 \in Nat /\ m - 1 \notin T /\ (m - 1) + 1 = m
  BY <1>4, <1>5
<1>7. Cardinality(UpTo(I, m - 1)) < k
  BY <1>1, <1>6
<1>8. m \in I /\ Cardinality(UpTo(I, m)) = k
  <2>1. Cardinality(UpTo(I, m - 1)) \in Nat /\ Cardinality(UpTo(I, m)) >= k
    BY <1>1, <1>4, <1>6
  <2>2. CASE m \notin I
    BY <1>2, <1>6, <1>7, <2>1, <2>2
  <2>3. CASE m \in I
    BY <1>2, <1>6, <1>7, <2>1, <2>3
  <2> QED BY <2>2, <2>3
<1>9. Place(I, k) = m
  BY <1>8, PlaceIs
<1> QED BY <1>8, <1>9

LEMMA PlaceMonotone ==
  ASSUME NEW n \in Nat, NEW I, \A j \in I : j \in 1..n,
         NEW a \in 1..Cardinality(I), NEW b \in 1..Cardinality(I), a < b
  PROVE  Place(I, a) < Place(I, b)
<1>1. /\ Place(I, a) \in 1..n /\ Place(I, b) \in 1..n /\ Cardinality(I) \in Nat
      /\ Cardinality(UpTo(I, Place(I, a))) = a /\ Cardinality(UpTo(I, Place(I, b))) = b
  BY PlaceExists, RankGrows
<1>2. \A l, m \in Nat : l < m => Cardinality(UpTo(I, l)) <= Cardinality(UpTo(I, m))
  BY RankMonotone
<1> QED BY <1>1, <1>2

LEMMA ElementsAtType ==
  ASSUME NEW S, NEW s \in Seq(S), NEW I, Within(I, Len(s)),
         NEW T, \A i \in I : s[i] \in T
  PROVE  ElementsAt(s, I) \in Seq(T)
<1>1. Len(s) \in Nat
  BY LenProperties
<1>2. Cardinality(I) \in Nat /\ \A k \in 1..Cardinality(I) : Place(I, k) \in I
  BY <1>1, RankGrows, PlaceExists DEF Within
<1>3. ElementsAt(s, I) \in [1..Cardinality(I) -> T]
  BY <1>2 DEF ElementsAt
<1> QED BY <1>2, <1>3, SeqDef

LEMMA ElementsAtProps ==
  ASSUME NEW S, NEW s \in Seq(S), NEW I, Within(I, Len(s))
  PROVE  /\ Cardinality(I) \in Nat
         /\ ElementsAt(s, I) \in Seq(S)
         /\ Len(ElementsAt(s, I)) = Cardinality(I) /\ DOMAIN ElementsAt(s, I) = 1..Cardinality(I)
         /\ \A k \in 1..Cardinality(I) : Place(I, k) \in I /\ ElementsAt(s, I)[k] = s[Place(I, k)]
<1>1. Len(s) \in Nat /\ \A i \in 1..Len(s) : s[i] \in S
  BY LenProperties, ElementOfSeq
<1>2. Cardinality(I) \in Nat
  BY <1>1, RankGrows DEF Within
<1>3. \A k \in 1..Cardinality(I) : Place(I, k) \in I
  BY <1>1, PlaceExists DEF Within
<1>4. ElementsAt(s, I) \in Seq(S)
  <2>1. \A i \in I : s[i] \in S
    BY <1>1 DEF Within
  <2> QED BY <2>1, ElementsAtType
<1>6. DOMAIN ElementsAt(s, I) = 1..Cardinality(I)
  BY DEF ElementsAt
<1>7. Len(ElementsAt(s, I)) = Cardinality(I)
  BY <1>2, <1>4, <1>6, LenProperties
<1> QED BY <1>2, <1>3, <1>4, <1>6, <1>7 DEF ElementsAt

LEMMA ElementsAtSame ==
  ASSUME NEW S, NEW s \in Seq(S), NEW I, Within(I, Len(s)),
         NEW t, \A i \in I : t[i] = s[i]
  PROVE  ElementsAt(t, I) = ElementsAt(s, I)
<1>1. \A k \in 1..Cardinality(I) : Place(I, k) \in I
  BY ElementsAtProps
<1> QED BY <1>1 DEF ElementsAt

LEMMA ElementsAtPrefix ==
  ASSUME NEW S, NEW s \in Seq(S), NEW I, Within(I, Len(s)), NEW m \in 0..Len(s)
  PROVE  /\ Cardinality(UpTo(I, m)) \in 0..Cardinality(I)
         /\ ElementsAt(SubSeq(s, 1, m), UpTo(I, m))
              = SubSeq(ElementsAt(s, I), 1, Cardinality(UpTo(I, m)))
<1> DEFINE K == UpTo(I, m)  u == SubSeq(s, 1, m)  e == ElementsAt(s, I)
<1>1. /\ Len(s) \in Nat /\ m \in Nat /\ Cardinality(I) \in Nat
      /\ e \in Seq(S) /\ Len(e) = Cardinality(I)
      /\ \A k \in 1..Cardinality(I) : e[k] = s[Place(I, k)]
  BY LenProperties, ElementsAtProps
<1>2. \A j \in K : j \in I /\ j \in 1..m
  BY <1>1 DEF UpTo, Within
<1>3. Cardinality(K) \in 0..Cardinality(I)
  BY <1>1, RankGrows DEF Within
<1>4. u \in Seq(S) /\ Len(u) = m /\ \A i \in 1..m : u[i] = s[i]
  <2>1. \A i \in 1..m : s[i] \in S
    BY <1>1, ElementOfSeq
  <2> QED BY <1>1, <2>1, SubSeqProperties
<1>5. ASSUME NEW k \in 1..Cardinality(K) PROVE Place(K, k) \in K /\ Place(I, k) = Place(K, k)
  <2>1. Place(K, k) \in K /\ Cardinality(UpTo(K, Place(K, k))) = k
    BY <1>1, <1>2, PlaceExists
  <2>2. UpTo(K, Place(K, k)) = UpTo(I, Place(K, k))
    <3> DEFINE p == Place(K, k)
    <3>1. p \in Nat /\ p <= m
      BY <1>1, <1>2, <2>1
    <3> HIDE DEF p
    <3>2. \A j \in I : j <= p => j <= m
      BY <1>1, <3>1 DEF Within
    <3> QED BY <3>2 DEF UpTo, p
  <2>3. Place(I, Cardinality(UpTo(I, Place(K, k)))) = Place(K, k)
    BY <1>1, <1>2, <2>1, PlaceIs DEF Within
  <2> QED BY <2>1, <2>2, <2>3
<1>6. \A k \in 1..Cardinality(K) : u[Place(K, k)] = e[k]
  BY <1>1, <1>2, <1>3, <1>4, <1>5
<1>7. /\ SubSeq(e, 1, Cardinality(K)) \in Seq(S) /\ Len(SubSeq(e, 1, Cardinality(K))) = Cardinality(K)
      /\ \A k \in 1..Cardinality(K) : SubSeq(e, 1, Cardinality(K))[k] = e[k]
  <2>1. \A i \in 1..Cardinality(K) : e[i] \in S
    BY <1>1, <1>3, ElementOfSeq
  <2> QED BY <1>1, <1>3, <2>1, SubSeqProperties
<1>8. /\ ElementsAt(u, K) \in Seq(S) /\ Len(ElementsAt(u, K)) = Cardinality(K)
      /\ \A k \in 1..Cardinality(K) : ElementsAt(u, K)[k] = u[Place(K, k)]
  <2>1. Within(K, Len(u))
    BY <1>2, <1>4 DEF Within
  <2> HIDE DEF K, u
  <2> QED BY <1>4, <2>1, ElementsAtProps
<1> HIDE DEF K, u, e
<1>9. ElementsAt(u, K) = SubSeq(e, 1, Cardinality(K))
  BY <1>6, <1>7, <1>8, SeqEqual
<1> QED BY <1>3, <1>9 DEF K, u, e

LEMMA ElementsAtConcat ==
  ASSUME NEW S, NEW s \in Seq(S), NEW I, Within(I, Len(s)), NEW t \in Seq(S)
  PROVE  ElementsAt(s \o t, I \cup (Len(s) + 1)..(Len(s) + Len(t))) = ElementsAt(s, I) \o t
<1> DEFINE J == I \cup (Len(s) + 1)..(Len(s) + Len(t))  e == ElementsAt(s, I)  c == Cardinality(I)
<1>1. /\ Len(s) \in Nat /\ Len(t) \in Nat /\ c \in Nat
      /\ e \in Seq(S) /\ Len(e) = c
      /\ \A k \in 1..c : e[k] = s[Place(I, k)] /\ Place(I, k) \in I
  BY LenProperties, ElementsAtProps
<1>2. \A j \in J : j \in 1..(Len(s) + Len(t))
  BY <1>1 DEF Within
<1>3. ASSUME NEW i \in 0..Len(t) PROVE Cardinality(I \cup (Len(s) + 1)..(Len(s) + i)) = c + i
  <2> DEFINE B == (Len(s) + 1)..(Len(s) + i)
  <2>1. IsFiniteSet(B) /\ Cardinality(B) = i
    <3>1. Len(s) + 1 \in Int /\ Len(s) + i \in Int
      BY <1>1
    <3>2. /\ IsFiniteSet(B)
          /\ Cardinality(B) = IF Len(s) + 1 > Len(s) + i THEN 0 ELSE (Len(s) + i) - (Len(s) + 1) + 1
      BY <3>1, FS_Interval
    <3> QED BY <1>1, <3>2
  <2>2. IsFiniteSet(I) /\ I \cap B = {}
    BY <1>1, RankGrows DEF Within
  <2> HIDE DEF B
  <2>3. Cardinality(I \cup B) = c + i - Cardinality({})
    BY <2>1, <2>2, FS_Union
  <2> QED BY <1>1, <2>3, FS_EmptySet DEF B
<1>4. Cardinality(J) = c + Len(t)
  BY <1>1, <1>3
<1>5. ASSUME NEW k \in 1..c PROVE Place(J, k) = Place(I, k)
  <2>1. Place(I, k) \in I /\ Place(I, k) \in 1..Len(s) /\ Cardinality(UpTo(I, Place(I, k))) = k
    BY <1>1, PlaceExists DEF Within
  <2>2. UpTo(J, Place(I, k)) = UpTo(I, Place(I, k))
    BY <1>1, <2>1 DEF UpTo
  <2>3. Place(I, k) \in J /\ Len(s) + Len(t) \in Nat
    BY <1>1, <2>1
  <2> HIDE DEF J
  <2>4. Place(J, Cardinality(UpTo(J, Place(I, k)))) = Place(I, k)
    BY <1>2, <2>3, PlaceIs
  <2> QED BY <2>1, <2>2, <2>4
<1>6. ASSUME NEW i \in 1..Len(t) PROVE Place(J, c + i) = Len(s) + i
  <2>1. UpTo(J, Len(s) + i) = I \cup (Len(s) + 1)..(Len(s) + i)
    BY <1>1 DEF UpTo, Within
  <2>2. Cardinality(UpTo(J, Len(s) + i)) = c + i
    <3>1. i \in 0..Len(t)
      BY <1>1
    <3> QED BY <1>3, <2>1, <3>1
  <2>3. Len(s) + i \in J /\ Len(s) + Len(t) \in Nat
    BY <1>1
  <2> HIDE DEF J
  <2>4. Place(J, Cardinality(UpTo(J, Len(s) + i))) = Len(s) + i
    BY <1>2, <2>3, PlaceIs
  <2> QED BY <2>2, <2>4
<1> HIDE DEF J, e, c
<1>7. /\ s \o t \in Seq(S) /\ Len(s \o t) = Len(s) + Len(t)
      /\ \A i \in 1..Len(s) : (s \o t)[i] = s[i]
      /\ \A i \in 1..Len(t) : (s \o t)[Len(s) + i] = t[i]
  BY <1>1, ConcatProperties
<1>8. /\ e \o t \in Seq(S) /\ Len(e \o t) = c + Len(t)
      /\ \A i \in 1..c : (e \o t)[i] = e[i]
      /\ \A i \in 1..Len(t) : (e \o t)[c + i] = t[i]
  <2>1. /\ e \o t \in Seq(S) /\ Len(e \o t) = Len(e) + Len(t)
        /\ \A i \in 1..(Len(e) + Len(t)) : (e \o t)[i] = IF i <= Len(e) THEN e[i] ELSE t[i - Len(e)]
    BY <1>1, ConcatProperties
  <2>2. \A i \in 1..Len(t) : c + i \in 1..(c + Len(t)) /\ ~(c + i <= c) /\ (c + i) - c = i
    BY <1>1
  <2>3. \A i \in 1..c : i \in 1..(c + Len(t)) /\ i <= c
    BY <1>1
  <2> QED BY <1>1, <2>1, <2>2, <2>3
<1>9. /\ ElementsAt(s \o t, J) \in Seq(S) /\ Len(ElementsAt(s \o t, J)) = c + Len(t)
      /\ \A k \in 1..(c + Len(t)) : ElementsAt(s \o t, J)[k] = (s \o t)[Place(J, k)]
  <2>1. Within(J, Len(s \o t))
    BY <1>2, <1>7 DEF Within
  <2>2. /\ ElementsAt(s \o t, J) \in Seq(S) /\ Len(ElementsAt(s \o t, J)) = Cardinality(J)
        /\ \A k \in 1..Cardinality(J) : ElementsAt(s \o t, J)[k] = (s \o t)[Place(J, k)]
    <3> DEFINE v == s \o t
    <3>1. v \in Seq(S) /\ Within(J, Len(v))
      BY <1>7, <2>1
    <3> HIDE DEF v
    <3>2. /\ ElementsAt(v, J) \in Seq(S) /\ Len(ElementsAt(v, J)) = Cardinality(J)
          /\ \A k \in 1..Cardinality(J) : ElementsAt(v, J)[k] = v[Place(J, k)]
      BY <3>1, ElementsAtProps
    <3> QED BY <3>2 DEF v
  <2> QED BY <1>4, <2>2
<1>10. ASSUME NEW k \in 1..(c + Len(t)) PROVE ElementsAt(s \o t, J)[k] = (e \o t)[k]
  <2>1. CASE k \in 1..c
    <3>1. Place(J, k) = Place(I, k) /\ Place(I, k) \in 1..Len(s)
      BY <1>1, <1>5, <2>1 DEF Within
    <3>2. ElementsAt(s \o t, J)[k] = s[Place(I, k)]
      BY <1>7, <1>9, <3>1
    <3> QED BY <1>1, <1>8, <2>1, <3>2
  <2>2. CASE k \notin 1..c
    <3>1. k - c \in 1..Len(t) /\ c + (k - c) = k
      BY <1>1, <2>2
    <3>2. Place(J, k) = Len(s) + (k - c)
      BY <1>6, <3>1
    <3>3. ElementsAt(s \o t, J)[k] = (s \o t)[Len(s) + (k - c)]
      BY <1>9, <3>2
    <3>4. (s \o t)[Len(s) + (k - c)] = t[k - c]
      BY <1>7, <3>1
    <3>5. (e \o t)[c + (k - c)] = t[k - c]
      BY <1>8, <3>1
    <3> QED BY <3>1, <3>3, <3>4, <3>5
  <2> QED BY <2>1, <2>2
<1>11. ElementsAt(s \o t, J) = e \o t
  BY <1>8, <1>9, <1>10, SeqEqual
<1> QED BY <1>11 DEF J, e

-----------------------------------------------------------------------------
(* Lines and entries.                                                      *)
LEMMA LineKinds ==
  /\ \A e \in Entry : /\ e.kind \in Kinds /\ e.id \in Ids /\ e.parentId \in Ids \cup {NoId}
                      /\ e.ref \in Ids \cup {NoId} /\ (e.kind = "label" => e.ref \in Ids)
  /\ \A h \in Header : h.kind = "session" /\ h.kind \notin Kinds
  /\ \A l \in FileEntry : l \in Line /\ l.kind \notin {"torn", "garbage"} /\ l # Torn /\ l # Garbage
  /\ \A l \in Line : l \notin FileEntry => l.kind \in {"torn", "garbage"}
  /\ \A l \in Line : l.kind \in Kinds => l \in Entry
  /\ \A l \in Line : l.kind = "session" => l \in Header
  /\ Torn \in Line /\ Garbage \in Line /\ Torn # Garbage
  /\ Torn.kind = "torn" /\ Garbage.kind = "garbage"
<1>1. Torn.kind = "torn" /\ Garbage.kind = "garbage"
  BY DEF Torn, Garbage
<1>2. \A e \in Entry : /\ e.kind \in Kinds /\ e.id \in Ids /\ e.parentId \in Ids \cup {NoId}
                       /\ e.ref \in Ids \cup {NoId} /\ (e.kind = "label" => e.ref \in Ids)
  BY DEF Entry
<1>3. \A h \in Header : h.kind = "session" /\ h.kind \notin Kinds
  BY DEF Header, Kinds
<1>4. \A l \in FileEntry : l.kind \notin {"torn", "garbage"}
  BY <1>2, <1>3 DEF FileEntry, Kinds
<1>5. \A l \in FileEntry : l \in Line /\ l # Torn /\ l # Garbage
  BY <1>1, <1>4 DEF Line
<1>6. \A l \in Line : l \in FileEntry \/ l = Torn \/ l = Garbage
  BY DEF Line
<1>7. \A l \in Line : l.kind \in Kinds => l \in Entry
  BY <1>1, <1>3, <1>6 DEF FileEntry, Kinds
<1>8. \A l \in Line : l.kind = "session" => l \in Header
  BY <1>1, <1>2, <1>6 DEF FileEntry, Kinds
<1> QED BY <1>1, <1>2, <1>3, <1>4, <1>5, <1>6, <1>7, <1>8 DEF Line

LEMMA SeqFacts ==
  ASSUME NEW S, NEW s \in Seq(S)
  PROVE  /\ Len(s) \in Nat /\ DOMAIN s = 1..Len(s)
         /\ \A i \in DOMAIN s : s[i] \in S
BY LenProperties, ElementOfSeq

LEMMA ConcatFacts ==
  ASSUME NEW S, NEW s \in Seq(S), NEW t \in Seq(S)
  PROVE  /\ s \o t \in Seq(S) /\ Len(s \o t) = Len(s) + Len(t)
         /\ DOMAIN (s \o t) = 1..(Len(s) + Len(t))
         /\ \A i \in 1..(Len(s) + Len(t)) : (s \o t)[i] = IF i <= Len(s) THEN s[i] ELSE t[i - Len(s)]
         /\ \A i \in 1..Len(s) : (s \o t)[i] = s[i] /\ i \in 1..(Len(s) + Len(t))
         /\ \A i \in 1..Len(t) : (s \o t)[Len(s) + i] = t[i] /\ Len(s) + i \in 1..(Len(s) + Len(t))
<1>1. Len(s) \in Nat /\ Len(t) \in Nat
  BY SeqFacts
<1>2. /\ s \o t \in Seq(S) /\ Len(s \o t) = Len(s) + Len(t)
      /\ \A i \in 1..(Len(s) + Len(t)) : (s \o t)[i] = IF i <= Len(s) THEN s[i] ELSE t[i - Len(s)]
  BY ConcatProperties
<1>3. DOMAIN (s \o t) = 1..(Len(s) + Len(t))
  BY <1>2, SeqFacts
<1>4. \A i \in 1..Len(s) : i \in 1..(Len(s) + Len(t)) /\ i <= Len(s)
  BY <1>1
<1>5. \A i \in 1..Len(t) :
        Len(s) + i \in 1..(Len(s) + Len(t)) /\ ~(Len(s) + i <= Len(s)) /\ (Len(s) + i) - Len(s) = i
  BY <1>1
<1> QED BY <1>2, <1>3, <1>4, <1>5

LEMMA EntriesAreLines ==
  ASSUME NEW fe \in Seq(FileEntry)
  PROVE  fe \in Seq(Line)
BY LineKinds, SeqMonotonic

(* What the parser makes of lines.                                         *)
LEMMA ParsedProps ==
  ASSUME NEW lines \in Seq(Line)
  PROVE  /\ Parsed(lines) \in Seq(FileEntry)
         /\ \A k \in DOMAIN Parsed(lines) : \E i \in DOMAIN lines : Parsed(lines)[k] = lines[i]
<1>1. /\ Len(lines) \in Nat /\ DOMAIN lines = 1..Len(lines)
      /\ \A i \in DOMAIN lines : lines[i] \in Line
  BY SeqFacts
<1>2. \A i \in Parsable(lines) : i \in 1..Len(lines) /\ lines[i] \in FileEntry
  BY <1>1, LineKinds DEF Parsable
<1>3. /\ Parsed(lines) \in Seq(FileEntry) /\ DOMAIN Parsed(lines) = 1..Cardinality(Parsable(lines))
      /\ \A k \in 1..Cardinality(Parsable(lines)) :
           Place(Parsable(lines), k) \in Parsable(lines) /\ Parsed(lines)[k] = lines[Place(Parsable(lines), k)]
  <2>1. Within(Parsable(lines), Len(lines)) /\ \A i \in Parsable(lines) : lines[i] \in FileEntry
    BY <1>2 DEF Within
  <2> QED BY <2>1, ElementsAtProps, ElementsAtType DEF Parsed
<1> QED BY <1>1, <1>2, <1>3

LEMMA ParsedConcat ==
  ASSUME NEW lines \in Seq(Line), NEW fe \in Seq(FileEntry)
  PROVE  Parsed(lines \o fe) = Parsed(lines) \o fe
<1>1. /\ fe \in Seq(Line) /\ Len(lines) \in Nat /\ Len(fe) \in Nat
      /\ DOMAIN lines = 1..Len(lines) /\ DOMAIN fe = 1..Len(fe)
      /\ \A i \in 1..Len(fe) : fe[i] \in FileEntry
  BY SeqFacts, EntriesAreLines
<1>2. /\ lines \o fe \in Seq(Line) /\ Len(lines \o fe) = Len(lines) + Len(fe)
      /\ \A i \in 1..(Len(lines) + Len(fe)) :
           (lines \o fe)[i] = IF i <= Len(lines) THEN lines[i] ELSE fe[i - Len(lines)]
  BY <1>1, ConcatProperties
<1>3. DOMAIN (lines \o fe) = 1..(Len(lines) + Len(fe))
  BY <1>2, SeqFacts
<1>4. Parsable(lines \o fe) = Parsable(lines) \cup (Len(lines) + 1)..(Len(lines) + Len(fe))
  <2>1. ASSUME NEW i \in 1..Len(lines)
        PROVE  i \in Parsable(lines \o fe) <=> i \in Parsable(lines)
    BY <1>1, <1>2, <1>3 DEF Parsable
  <2>2. ASSUME NEW i \in (Len(lines) + 1)..(Len(lines) + Len(fe))
        PROVE  i \in Parsable(lines \o fe)
    <3>1. i - Len(lines) \in 1..Len(fe) /\ (lines \o fe)[i] = fe[i - Len(lines)]
      BY <1>1, <1>2
    <3>2. (lines \o fe)[i].kind \notin {"torn", "garbage"}
      BY <1>1, <3>1, LineKinds
    <3> QED BY <1>1, <1>3, <3>2 DEF Parsable
  <2>3. \A i \in Parsable(lines \o fe) : i \in 1..Len(lines) \/ i \in (Len(lines) + 1)..(Len(lines) + Len(fe))
    BY <1>1, <1>3 DEF Parsable
  <2>4. \A i \in Parsable(lines) : i \in 1..Len(lines)
    BY <1>1 DEF Parsable
  <2> QED BY <2>1, <2>2, <2>3, <2>4
<1>5. \A i \in Parsable(lines) : i \in 1..Len(lines)
  BY <1>1 DEF Parsable
<1>6. ASSUME NEW I, I = Parsable(lines)
      PROVE  ElementsAt(lines \o fe, I \cup (Len(lines) + 1)..(Len(lines) + Len(fe))) = ElementsAt(lines, I) \o fe
  <2>1. Within(I, Len(lines))
    BY <1>5, <1>6 DEF Within
  <2>2. lines \in Seq(Line) /\ fe \in Seq(Line)
    BY <1>1
  <2> QED BY <2>1, <2>2, ElementsAtConcat, SMTT(30)
<1> QED BY <1>4, <1>6 DEF Parsed

LEMMA ParsedSelf ==
  ASSUME NEW fe \in Seq(FileEntry)
  PROVE  Parsed(fe) = fe /\ Parsed(<<>>) = <<>>
<1>1. <<>> \in Seq(Line) /\ <<>> \in Seq(FileEntry) /\ <<>> \o fe = fe
  BY EmptySeq, ConcatEmptySeq
<1>2. Parsable(<<>>) = {}
  <2>1. DOMAIN <<>> = {}
    OBVIOUS
  <2> QED BY <2>1 DEF Parsable
<1>3. Parsed(<<>>) = <<>>
  <2>1. Parsed(<<>>) \in Seq(FileEntry) /\ DOMAIN Parsed(<<>>) = 1..0
    BY <1>2, <1>1, ParsedProps, FS_EmptySet DEF Parsed, ElementsAt
  <2>2. Len(Parsed(<<>>)) \in Nat /\ DOMAIN Parsed(<<>>) = 1..Len(Parsed(<<>>))
    BY <2>1, SeqFacts
  <2>3. Len(Parsed(<<>>)) = 0
    BY <2>1, <2>2
  <2> QED BY <2>1, <2>3, EmptySeq
<1> QED BY <1>1, <1>3, ParsedConcat

LEMMA ParsedPrefix ==
  ASSUME NEW lines \in Seq(Line), NEW m \in 0..Len(lines)
  PROVE  \E k \in 0..Len(Parsed(lines)) : Parsed(SubSeq(lines, 1, m)) = SubSeq(Parsed(lines), 1, k)
<1> DEFINE I == Parsable(lines)  u == SubSeq(lines, 1, m)
<1>1. /\ Len(lines) \in Nat /\ DOMAIN lines = 1..Len(lines) /\ m \in Nat
      /\ \A i \in 1..Len(lines) : lines[i] \in Line
  BY SeqFacts
<1>2. u \in Seq(Line) /\ Len(u) = m /\ \A i \in 1..m : u[i] = lines[i]
  BY <1>1, SubSeqProperties
<1>3. DOMAIN u = 1..m
  BY <1>2, SeqFacts
<1>4. Within(I, Len(lines))
  BY <1>1 DEF Parsable, Within
<1>5. Parsable(u) = UpTo(I, m)
  BY <1>1, <1>2, <1>3 DEF Parsable, UpTo
<1>6. /\ Cardinality(UpTo(I, m)) \in 0..Cardinality(I)
      /\ ElementsAt(u, UpTo(I, m)) = SubSeq(ElementsAt(lines, I), 1, Cardinality(UpTo(I, m)))
  BY <1>4, ElementsAtPrefix
<1>7. Len(ElementsAt(lines, I)) = Cardinality(I)
  BY <1>4, ElementsAtProps
<1> QED BY <1>5, <1>6, <1>7 DEF Parsed

-----------------------------------------------------------------------------
(* What a write leaves in a file.                                          *)
EndsTorn(lines) == lines # <<>> /\ lines[Len(lines)] = Torn
HasGarbage(lines) == \E i \in DOMAIN lines : lines[i] = Garbage
TornIsLast(lines) == \A i \in DOMAIN lines : lines[i] = Torn => i = Len(lines)

LEMMA PrefixBy ==
  ASSUME NEW S, NEW s \in Seq(S), NEW t \in Seq(S), Len(s) <= Len(t),
         \A i \in 1..Len(s) : s[i] = t[i]
  PROVE  IsPrefix(s, t)
<1>1. /\ Len(s) \in Nat /\ Len(t) \in Nat
      /\ \A i \in 1..Len(s) : s[i] \in S /\ t[i] \in S
  BY SeqFacts
<1>2. /\ SubSeq(s, 1, Len(s)) \in Seq(S) /\ Len(SubSeq(s, 1, Len(s))) = Len(s)
      /\ \A i \in 1..Len(s) : SubSeq(s, 1, Len(s))[i] = s[i]
  BY <1>1, SubSeqProperties
<1>3. /\ SubSeq(t, 1, Len(s)) \in Seq(S) /\ Len(SubSeq(t, 1, Len(s))) = Len(s)
      /\ \A i \in 1..Len(s) : SubSeq(t, 1, Len(s))[i] = t[i]
  BY <1>1, SubSeqProperties
<1>4. SubSeq(s, 1, Len(s)) = SubSeq(t, 1, Len(s))
  BY <1>2, <1>3, SeqEqual
<1> QED BY <1>4 DEF IsPrefix

LEMMA WholePrefix ==
  ASSUME NEW lines \in Seq(Line), NEW r \in Seq(Line), Len(lines) <= Len(r),
         \A i \in 1..Len(lines) : r[i] = lines[i] \/ (i = Len(lines) /\ EndsTorn(lines))
  PROVE  IsPrefix(WholeLines(lines), r)
<1>1. /\ Len(lines) \in Nat /\ Len(r) \in Nat
      /\ \A i \in 1..Len(lines) : lines[i] \in Line
  BY SeqFacts
<1>2. CASE EndsTorn(lines)
  <2>1. Len(lines) # 0
    BY <1>2, EmptySeq DEF EndsTorn
  <2>2. /\ Front(lines) \in Seq(Line) /\ Len(Front(lines)) = Len(lines) - 1
        /\ \A i \in 1..(Len(lines) - 1) : Front(lines)[i] = lines[i]
    <3>1. Len(lines) - 1 \in Nat /\ \A i \in 1..(Len(lines) - 1) : lines[i] \in Line
      BY <1>1, <2>1
    <3>2. ASSUME NEW k \in Nat, \A i \in 1..k : lines[i] \in Line
          PROVE  /\ SubSeq(lines, 1, k) \in Seq(Line) /\ Len(SubSeq(lines, 1, k)) = k
                 /\ \A i \in 1..k : SubSeq(lines, 1, k)[i] = lines[i]
      <4>1. 1 \in Int /\ k \in Int
        OBVIOUS
      <4> QED BY <3>2, <4>1, SubSeqProperties
    <3> QED BY <3>1, <3>2 DEF Front
  <2>3. IsPrefix(Front(lines), r)
    BY <1>1, <2>1, <2>2, PrefixBy
  <2> QED BY <1>2, <2>3 DEF WholeLines, EndsTorn
<1>3. CASE ~EndsTorn(lines)
  <2>1. WholeLines(lines) = lines
    BY <1>3 DEF WholeLines, EndsTorn
  <2> QED BY <1>3, <2>1, PrefixBy
<1> QED BY <1>2, <1>3

LEMMA TailFacts ==
  ASSUME NEW S, NEW s \in Seq(S), s # <<>>
  PROVE  /\ s[1] \in S /\ Tail(s) \in Seq(S) /\ Len(Tail(s)) = Len(s) - 1 /\ Len(s) \in Nat \ {0}
         /\ s = <<s[1]>> \o Tail(s)
         /\ \A i \in 1..(Len(s) - 1) : Tail(s)[i] = s[i + 1]
<1>1. Len(s) \in Nat \ {0}
  BY EmptySeq
<1>2. 1 \in 1..Len(s) /\ Len(s) \in 1..Len(s)
  BY <1>1
<1>3. SubSeq(s, 1, Len(s)) = <<s[1]>> \o SubSeq(s, 1 + 1, Len(s))
  BY <1>2, SubSeqRecursiveFirst
<1>4. SubSeq(s, 1, Len(s)) = s /\ Tail(s) = SubSeq(s, 2, Len(s)) /\ s[1] \in S
  BY <1>2, SubSeqFull, TailIsSubSeq, ElementOfSeq
<1> QED BY <1>1, <1>3, <1>4, HeadTailProperties

LEMMA ConcatThree ==
  ASSUME NEW a \in Seq(FileEntry), NEW b \in Seq(FileEntry), NEW c \in Seq(FileEntry)
  PROVE  (a \o b) \o c = a \o (b \o c)
BY ConcatAssociative

LEMMA AppendWhole ==
  ASSUME NEW lines \in Seq(Line), NEW ls \in Seq(Line), ~EndsTorn(lines)
  PROVE  AppendLines(lines, ls) = lines \o ls
<1>1. CASE ls = <<>>
  BY <1>1, ConcatEmptySeq DEF AppendLines
<1>2. CASE ls # <<>>
  <2>1. ls[1] \in Line /\ Tail(ls) \in Seq(Line) /\ ls = <<ls[1]>> \o Tail(ls)
    BY <1>2, TailFacts
  <2>2. Append(lines, ls[1]) = lines \o <<ls[1]>> /\ <<ls[1]>> \in Seq(Line)
    BY <2>1, AppendIsConcat
  <2>3. (lines \o <<ls[1]>>) \o Tail(ls) = lines \o (<<ls[1]>> \o Tail(ls))
    BY <2>1, <2>2, ConcatAssociative
  <2>4. AppendLine(lines, ls[1]) = Append(lines, ls[1])
    BY DEF AppendLine, EndsTorn
  <2> QED BY <1>2, <2>1, <2>2, <2>3, <2>4 DEF AppendLines
<1> QED BY <1>1, <1>2

(* The line an incomplete one becomes part of.                             *)
Spoilt(lines) == [lines EXCEPT ![Len(lines)] = Garbage]

LEMMA SpoiltFacts ==
  ASSUME NEW lines \in Seq(Line), EndsTorn(lines)
  PROVE  /\ Spoilt(lines) \in Seq(Line) /\ Len(Spoilt(lines)) = Len(lines) /\ Len(lines) \in Nat \ {0}
         /\ \A i \in 1..(Len(lines) - 1) : Spoilt(lines)[i] = lines[i]
         /\ Spoilt(lines)[Len(lines)] = Garbage
         /\ Parsed(Spoilt(lines)) = Parsed(lines)
<1>1. Len(lines) \in Nat \ {0} /\ Garbage \in Line /\ DOMAIN lines = 1..Len(lines)
  BY EmptySeq, LineKinds, SeqFacts DEF EndsTorn
<1>2. /\ Spoilt(lines) \in Seq(Line) /\ Len(Spoilt(lines)) = Len(lines)
      /\ \A i \in 1..Len(lines) : Spoilt(lines)[i] = IF i = Len(lines) THEN Garbage ELSE lines[i]
  BY <1>1, ExceptSeq DEF Spoilt
<1>3. DOMAIN Spoilt(lines) = 1..Len(lines)
  BY <1>2, SeqFacts
<1>4. /\ lines[Len(lines)].kind = "torn" /\ Spoilt(lines)[Len(lines)] = Garbage
      /\ Spoilt(lines)[Len(lines)].kind = "garbage"
  <2> DEFINE n == Len(lines)
  <2>a. n \in 1..n
    BY <1>1
  <2>1. Spoilt(lines)[Len(lines)] = Garbage
    BY <1>2, <2>a
  <2> QED BY <2>1, LineKinds DEF EndsTorn
<1>5. \A i \in 1..Len(lines) : i # Len(lines) => Spoilt(lines)[i] = lines[i]
  BY <1>2
<1>6. Parsable(Spoilt(lines)) = Parsable(lines)
  BY <1>1, <1>3, <1>4, <1>5 DEF Parsable
<1>7. \A i \in Parsable(lines) : i \in 1..Len(lines) /\ Spoilt(lines)[i] = lines[i]
  BY <1>1, <1>4, <1>5 DEF Parsable
<1>8. ElementsAt(Spoilt(lines), Parsable(lines)) = ElementsAt(lines, Parsable(lines))
  <2>1. Within(Parsable(lines), Len(lines)) /\ \A i \in Parsable(lines) : Spoilt(lines)[i] = lines[i]
    BY <1>7 DEF Within
  <2> QED BY <2>1, ElementsAtSame
<1>9. \A i \in 1..(Len(lines) - 1) : Spoilt(lines)[i] = lines[i]
  <2>1. ASSUME NEW n \in Nat, NEW i \in 1..(n - 1) PROVE i \in 1..n /\ i # n
    OBVIOUS
  <2> QED BY <1>1, <1>5, <2>1
<1> QED BY <1>1, <1>2, <1>4, <1>6, <1>8, <1>9 DEF Parsed

LEMMA AppendBehindTorn ==
  ASSUME NEW lines \in Seq(Line), NEW fe \in Seq(FileEntry), fe # <<>>, EndsTorn(lines)
  PROVE  AppendLines(lines, fe) = Spoilt(lines) \o Tail(fe)
<1>1. fe[1] # Torn
  BY TailFacts, LineKinds
<1>2. AppendLine(lines, fe[1]) = Spoilt(lines)
  BY <1>1 DEF AppendLine, Spoilt, EndsTorn
<1> QED BY <1>2 DEF AppendLines

(* The lines b are the lines of the file, but for an incomplete last one.  *)
Whole(b, lines) ==
  /\ Len(b) = Len(lines)
  /\ \A i \in 1..Len(lines) :
       b[i] = lines[i] \/ (i = Len(lines) /\ EndsTorn(lines) /\ b[i] = Garbage)
  /\ EndsTorn(lines) => lines # <<>> /\ b[Len(lines)] = Garbage

LEMMA Extended ==
  ASSUME NEW lines \in Seq(Line), NEW b \in Seq(Line), Whole(b, lines),
         NEW t \in Seq(FileEntry), NEW r, r = b \o t
  PROVE  /\ r \in Seq(Line) /\ DOMAIN r = 1..Len(r)
         /\ EndsTorn(lines) \/ HasGarbage(lines) => HasGarbage(r)
         /\ TornIsLast(lines) => \A i \in DOMAIN r : r[i] # Torn
         /\ IsPrefix(WholeLines(lines), r)
<1>1. /\ Len(lines) \in Nat /\ DOMAIN lines = 1..Len(lines) /\ Len(t) \in Nat
      /\ t \in Seq(Line) /\ DOMAIN t = 1..Len(t) /\ \A i \in 1..Len(t) : t[i] # Torn
  BY SeqFacts, EntriesAreLines, LineKinds
<1>2. /\ r \in Seq(Line) /\ Len(r) = Len(lines) + Len(t)
      /\ \A i \in 1..(Len(lines) + Len(t)) : r[i] = IF i <= Len(lines) THEN b[i] ELSE t[i - Len(lines)]
  <2>1. /\ b \o t \in Seq(Line) /\ Len(b \o t) = Len(b) + Len(t)
        /\ \A i \in 1..(Len(b) + Len(t)) : (b \o t)[i] = IF i <= Len(b) THEN b[i] ELSE t[i - Len(b)]
    <3>1. t \in Seq(Line)
      BY <1>1
    <3> QED BY <3>1, ConcatFacts
  <2>2. r \in Seq(Line) /\ Len(b) = Len(lines)
    BY <2>1 DEF Whole
  <2> QED BY <2>1, <2>2
<1>3. DOMAIN r = 1..(Len(lines) + Len(t))
  BY <1>2, SeqFacts
<1>4. \A i \in 1..Len(lines) : i \in DOMAIN r /\ r[i] = b[i]
  BY <1>1, <1>2, <1>3
<1>5. ASSUME EndsTorn(lines) PROVE HasGarbage(r)
  <2>1. Len(lines) \in 1..Len(lines)
    BY <1>1, <1>5, EmptySeq DEF Whole
  <2> QED BY <1>4, <1>5, <2>1 DEF HasGarbage, Whole
<1>6. ASSUME HasGarbage(lines) PROVE HasGarbage(r)
  <2>1. PICK i \in 1..Len(lines) : lines[i] = Garbage
    BY <1>1, <1>6 DEF HasGarbage
  <2>2. b[i] = Garbage
    BY <2>1 DEF Whole
  <2> QED BY <1>4, <2>2 DEF HasGarbage
<1>7. ASSUME TornIsLast(lines), NEW i \in DOMAIN r PROVE r[i] # Torn
  <2>1. CASE i \in 1..Len(lines)
    <3>1. SUFFICES ASSUME b[i] = Torn PROVE FALSE
      BY <1>4, <2>1
    <3>2. lines[i] = Torn /\ lines # <<>>
      BY <1>1, <2>1, <3>1, LineKinds, EmptySeq DEF Whole
    <3>3. i = Len(lines)
      BY <1>1, <1>7, <2>1, <3>2 DEF TornIsLast
    <3>4. EndsTorn(lines)
      BY <3>2, <3>3 DEF EndsTorn
    <3> QED BY <3>1, <3>3, <3>4, LineKinds DEF Whole
  <2>2. CASE i \notin 1..Len(lines)
    <3>1. i - Len(lines) \in 1..Len(t) /\ r[i] = t[i - Len(lines)]
      BY <1>1, <1>2, <1>3, <2>2
    <3> QED BY <1>1, <3>1
  <2> QED BY <2>1, <2>2
<1>8. IsPrefix(WholeLines(lines), r)
  <2>1. Len(lines) <= Len(r)
    BY <1>1, <1>2
  <2>2. \A i \in 1..Len(lines) : r[i] = lines[i] \/ (i = Len(lines) /\ EndsTorn(lines))
    BY <1>4 DEF Whole
  <2> QED BY <1>2, <2>1, <2>2, WholePrefix
<1> QED BY <1>2, <1>3, <1>5, <1>6, <1>7, <1>8

(* Entries are appended: to the file, or behind an incomplete line, which  *)
(* swallows the first of them.                                             *)
LEMMA AppendedEntries ==
  ASSUME NEW lines \in Seq(Line), NEW fe \in Seq(FileEntry), fe # <<>>,
         NEW r, r = AppendLines(lines, fe)
  PROVE  /\ r \in Seq(Line) /\ DOMAIN r = 1..Len(r)
         /\ EndsTorn(lines) \/ HasGarbage(lines) => HasGarbage(r)
         /\ TornIsLast(lines) => \A i \in DOMAIN r : r[i] # Torn
         /\ IsPrefix(WholeLines(lines), r)
         /\ EndsTorn(lines) => Parsed(r) = Parsed(lines) \o Tail(fe)
         /\ ~EndsTorn(lines) => Parsed(r) = Parsed(lines) \o fe
<1>1. CASE EndsTorn(lines)
  <2>1. r = Spoilt(lines) \o Tail(fe) /\ Tail(fe) \in Seq(FileEntry)
    BY <1>1, AppendBehindTorn, TailFacts
  <2>2. /\ Spoilt(lines) \in Seq(Line) /\ Len(Spoilt(lines)) = Len(lines) /\ Len(lines) \in Nat \ {0}
        /\ \A i \in 1..(Len(lines) - 1) : Spoilt(lines)[i] = lines[i]
        /\ Spoilt(lines)[Len(lines)] = Garbage
        /\ Parsed(Spoilt(lines)) = Parsed(lines)
    BY <1>1, SpoiltFacts
  <2>3. Parsed(r) = Parsed(lines) \o Tail(fe)
    BY <2>1, <2>2, ParsedConcat
  <2>4. lines # <<>>
    BY <1>1 DEF EndsTorn
  <2>5. Whole(Spoilt(lines), lines)
    <3>1. \A n \in Nat : \A i \in 1..n : i = n \/ i \in 1..(n - 1)
      OBVIOUS
    <3>2. \A i \in 1..Len(lines) : i = Len(lines) \/ i \in 1..(Len(lines) - 1)
      BY <2>2, <3>1
    <3>3. ASSUME NEW i \in 1..Len(lines)
          PROVE  Spoilt(lines)[i] = lines[i] \/ (i = Len(lines) /\ Spoilt(lines)[i] = Garbage)
      <4>1. CASE i = Len(lines)
        BY <2>2, <4>1
      <4>2. CASE i \in 1..(Len(lines) - 1)
        BY <2>2, <4>2
      <4> QED BY <3>2, <4>1, <4>2
    <3>4. Len(Spoilt(lines)) = Len(lines) /\ Spoilt(lines)[Len(lines)] = Garbage
      BY <2>2
    <3> QED BY <1>1, <2>4, <3>3, <3>4 DEF Whole
  <2>6. /\ r \in Seq(Line) /\ DOMAIN r = 1..Len(r)
        /\ EndsTorn(lines) \/ HasGarbage(lines) => HasGarbage(r)
        /\ TornIsLast(lines) => \A i \in DOMAIN r : r[i] # Torn
        /\ IsPrefix(WholeLines(lines), r)
    BY <2>1, <2>2, <2>5, Extended
  <2> QED BY <1>1, <2>3, <2>6
<1>2. CASE ~EndsTorn(lines)
  <2>1. r = lines \o fe
    BY <1>2, EntriesAreLines, AppendWhole
  <2>2. Parsed(r) = Parsed(lines) \o fe
    BY <2>1, ParsedConcat
  <2>3. Whole(lines, lines)
    BY <1>2 DEF Whole
  <2>4. /\ r \in Seq(Line) /\ DOMAIN r = 1..Len(r)
        /\ EndsTorn(lines) \/ HasGarbage(lines) => HasGarbage(r)
        /\ TornIsLast(lines) => \A i \in DOMAIN r : r[i] # Torn
        /\ IsPrefix(WholeLines(lines), r)
    BY <2>1, <2>3, Extended
  <2> QED BY <1>2, <2>2, <2>4
<1> QED BY <1>1, <1>2

(* A write cut off within a line.                                          *)
LEMMA AppendedTorn ==
  ASSUME NEW lines \in Seq(Line), NEW r, r = AppendLine(lines, Torn)
  PROVE  /\ r \in Seq(Line) /\ Parsed(r) = Parsed(lines)
         /\ TornIsLast(lines) => TornIsLast(r)
         /\ IsPrefix(WholeLines(lines), r)
<1>1. /\ Len(lines) \in Nat /\ DOMAIN lines = 1..Len(lines) /\ Torn \in Line
      /\ \A i \in DOMAIN lines : lines[i] \in Line
  BY SeqFacts, LineKinds
<1>2. CASE EndsTorn(lines)
  <2>1. r = lines
    BY <1>1, <1>2 DEF AppendLine, EndsTorn
  <2>2. IsPrefix(WholeLines(lines), lines)
    BY <1>1, WholePrefix
  <2> QED BY <2>1, <2>2
<1>3. CASE ~EndsTorn(lines)
  <2>1. r = Append(lines, Torn)
    BY <1>3 DEF AppendLine, EndsTorn
  <2>2. /\ r \in Seq(Line) /\ Len(r) = Len(lines) + 1
        /\ \A i \in 1..Len(lines) : r[i] = lines[i]
        /\ r[Len(lines) + 1] = Torn
    BY <1>1, <2>1, AppendProperties
  <2>3. DOMAIN r = 1..(Len(lines) + 1)
    BY <2>2, SeqFacts
  <2>4. ASSUME NEW i \in 1..Len(lines) PROVE i \in Parsable(r) <=> i \in Parsable(lines)
    BY <1>1, <2>2, <2>3 DEF Parsable
  <2>5. Len(lines) + 1 \notin Parsable(r)
    BY <2>2, LineKinds DEF Parsable
  <2>6. \A i \in DOMAIN r : i \in 1..Len(lines) \/ i = Len(lines) + 1
    BY <1>1, <2>3
  <2>7. Parsable(r) = Parsable(lines) /\ \A i \in Parsable(lines) : i \in 1..Len(lines) /\ r[i] = lines[i]
    <3>1. \A i \in Parsable(lines) : i \in 1..Len(lines)
      BY <1>1 DEF Parsable
    <3>2. \A i \in Parsable(r) : i \in DOMAIN r
      BY DEF Parsable
    <3> QED BY <2>2, <2>4, <2>5, <2>6, <3>1, <3>2
  <2>8. Parsed(r) = Parsed(lines)
    <3>1. Within(Parsable(lines), Len(lines)) /\ \A i \in Parsable(lines) : r[i] = lines[i]
      BY <2>7 DEF Within
    <3> QED BY <2>7, <3>1, ElementsAtSame DEF Parsed
  <2>9. ASSUME TornIsLast(lines) PROVE TornIsLast(r)
    <3>1. \A i \in 1..Len(lines) : lines[i] # Torn
      <4>1. SUFFICES ASSUME NEW i \in 1..Len(lines), lines[i] = Torn PROVE FALSE
        OBVIOUS
      <4>2. i = Len(lines) /\ lines # <<>>
        <5>1. i = Len(lines)
          BY <1>1, <2>9, <4>1 DEF TornIsLast
        <5>2. Len(lines) # 0
          BY <1>1
        <5> QED BY <5>1, <5>2, EmptySeq
      <4> QED BY <1>3, <4>1, <4>2 DEF EndsTorn
    <3> QED BY <2>2, <2>6, <3>1 DEF TornIsLast
  <2>10. IsPrefix(WholeLines(lines), r)
    BY <1>1, <2>2, WholePrefix
  <2> QED BY <2>2, <2>8, <2>9, <2>10
<1> QED BY <1>2, <1>3

LEMMA PrefixExtends ==
  ASSUME NEW S, NEW s \in Seq(S), NEW b \in Seq(S), NEW c \in Seq(S), IsPrefix(s, b)
  PROVE  IsPrefix(s, b \o c)
<1>1. /\ Len(s) \in Nat /\ Len(b) \in Nat /\ Len(c) \in Nat
      /\ Len(s) <= Len(b) /\ SubSeq(s, 1, Len(s)) = SubSeq(b, 1, Len(s))
  BY SeqFacts DEF IsPrefix
<1>2. /\ b \o c \in Seq(S) /\ Len(b \o c) = Len(b) + Len(c)
      /\ \A i \in 1..Len(b) : (b \o c)[i] = b[i]
  BY ConcatFacts
<1>3. \A i \in 1..Len(s) : s[i] \in S /\ b[i] \in S /\ i \in 1..Len(b)
  BY <1>1, ElementOfSeq
<1>4. \A i \in 1..Len(s) : SubSeq(s, 1, Len(s))[i] = s[i] /\ SubSeq(b, 1, Len(s))[i] = b[i]
  BY <1>1, <1>3, SubSeqProperties
<1>5. \A i \in 1..Len(s) : s[i] = (b \o c)[i]
  BY <1>1, <1>2, <1>3, <1>4
<1>6. Len(s) <= Len(b \o c) /\ b \o c \in Seq(S)
  BY <1>1, <1>2
<1> QED BY <1>5, <1>6, PrefixBy

LEMMA WholeIsPrefix ==
  ASSUME NEW lines \in Seq(Line)
  PROVE  IsPrefix(WholeLines(lines), lines)
<1>1. Len(lines) <= Len(lines)
  BY SeqFacts
<1> QED BY <1>1, WholePrefix

LEMMA NotEndsTorn ==
  ASSUME NEW r \in Seq(Line), \A i \in DOMAIN r : r[i] # Torn
  PROVE  ~EndsTorn(r) /\ TornIsLast(r)
<1>1. Len(r) \in Nat /\ DOMAIN r = 1..Len(r) /\ (r # <<>> => Len(r) # 0)
  BY SeqFacts, EmptySeq
<1> QED BY <1>1 DEF EndsTorn, TornIsLast

LEMMA WholeType ==
  ASSUME NEW lines \in Seq(Line)
  PROVE  WholeLines(lines) \in Seq(Line)
<1>1. CASE ~EndsTorn(lines)
  BY <1>1 DEF WholeLines, EndsTorn
<1>2. CASE EndsTorn(lines)
  <2>1. Len(lines) \in Nat \ {0} /\ \A i \in 1..Len(lines) : lines[i] \in Line
    BY <1>2, SeqFacts, EmptySeq DEF EndsTorn
  <2>2. 1 \in Int /\ Len(lines) - 1 \in Int /\ \A i \in 1..(Len(lines) - 1) : lines[i] \in Line
    BY <2>1
  <2>3. SubSeq(lines, 1, Len(lines) - 1) \in Seq(Line)
    BY <2>2, SubSeqProperties
  <2> QED BY <1>2, <2>3 DEF WholeLines, EndsTorn, Front
<1> QED BY <1>1, <1>2

LEMMA AppendLineType ==
  ASSUME NEW lines \in Seq(Line), NEW e \in FileEntry
  PROVE  AppendLine(lines, e) \in Seq(Line)
<1>1. e \in Line /\ e # Torn
  BY LineKinds
<1>2. CASE ~EndsTorn(lines)
  BY <1>1, <1>2, AppendProperties DEF AppendLine, EndsTorn
<1>3. CASE EndsTorn(lines)
  <2>1. AppendLine(lines, e) = Spoilt(lines)
    BY <1>1, <1>3 DEF AppendLine, Spoilt, EndsTorn
  <2> QED BY <1>3, <2>1, SpoiltFacts
<1> QED BY <1>2, <1>3

(* What a kill leaves of a sequence of writes: entries, perhaps with an    *)
(* incomplete line behind them.                                            *)
LeftBy(p, lines, r) ==
  /\ r \in Seq(Line) /\ TornIsLast(r)
  /\ IsPrefix(WholeLines(lines), r)
  /\ \/ Parsed(r) = Parsed(lines)
     \/ p # <<>> /\ Parsed(r) = Parsed(lines) \o Tail(p)
     \/ Parsed(r) = Parsed(lines) \o p

LEMMA KilledLines ==
  ASSUME NEW lines \in Seq(Line), TornIsLast(lines), NEW p \in Seq(FileEntry),
         NEW torn \in {<<>>, <<Torn>>}, NEW r, r = AppendLines(lines, p \o torn)
  PROVE  LeftBy(p, lines, r)
<1> DEFINE b == AppendLines(lines, p)
<1>1. CASE p = <<>> /\ torn = <<>>
  <2>1. p \o torn = <<>>
    BY <1>1
  <2>2. r = lines
    BY <2>1 DEF AppendLines
  <2> QED BY <2>2, WholeIsPrefix DEF LeftBy
<1>2. CASE p = <<>> /\ torn = <<Torn>>
  <2>1. p \o torn = <<Torn>> /\ <<Torn>> # <<>> /\ <<Torn>>[1] = Torn /\ Tail(<<Torn>>) = <<>>
    BY <1>2
  <2>2. AppendLine(lines, Torn) \in Seq(Line)
    BY AppendedTorn
  <2>3. r = AppendLine(lines, Torn)
    BY <2>1, <2>2, ConcatEmptySeq DEF AppendLines
  <2> QED BY <2>3, AppendedTorn DEF LeftBy
<1>3. ASSUME p # <<>>
      PROVE  /\ b \in Seq(Line) /\ TornIsLast(b) /\ ~EndsTorn(b)
             /\ IsPrefix(WholeLines(lines), b)
             /\ Parsed(b) = Parsed(lines) \o Tail(p) \/ Parsed(b) = Parsed(lines) \o p
  <2>1. /\ b \in Seq(Line) /\ \A i \in DOMAIN b : b[i] # Torn
        /\ IsPrefix(WholeLines(lines), b)
        /\ Parsed(b) = Parsed(lines) \o Tail(p) \/ Parsed(b) = Parsed(lines) \o p
    BY <1>3, AppendedEntries
  <2> QED BY <2>1, NotEndsTorn
<1>4. CASE p # <<>> /\ torn = <<>>
  <2>1. p \o torn = p
    BY <1>4, ConcatEmptySeq
  <2> QED BY <1>3, <1>4, <2>1 DEF LeftBy
<1>5. CASE p # <<>> /\ torn = <<Torn>>
  <2>1. p \in Seq(Line) /\ Torn \in Line /\ p[1] \in Line /\ Tail(p) \in Seq(Line)
    BY <1>5, EntriesAreLines, LineKinds, TailFacts
  <2>2. p \o torn = Append(p, Torn) /\ Append(p, Torn) # <<>>
    BY <1>5, <2>1, AppendIsConcat, AppendProperties
  <2>3. Append(p, Torn)[1] = p[1]
    <3>1. 1 \in 1..Len(p)
      BY <1>5, TailFacts
    <3> QED BY <2>1, <3>1, AppendProperties
  <2>4. Tail(Append(p, Torn)) = Append(Tail(p), Torn)
    BY <1>5, <2>1, HeadTailAppend
  <2>5. AppendLine(lines, p[1]) \in Seq(Line)
    BY <1>5, AppendLineType
  <2>6. r = AppendLine(lines, p[1]) \o Append(Tail(p), Torn)
    BY <2>2, <2>3, <2>4 DEF AppendLines
  <2>7. b = AppendLine(lines, p[1]) \o Tail(p)
    BY <1>5 DEF AppendLines
  <2>8. r = b \o <<Torn>>
    <3>1. Append(Tail(p), Torn) = Tail(p) \o <<Torn>> /\ <<Torn>> \in Seq(Line)
      BY <2>1, AppendIsConcat
    <3>2. (AppendLine(lines, p[1]) \o Tail(p)) \o <<Torn>>
            = AppendLine(lines, p[1]) \o (Tail(p) \o <<Torn>>)
      BY <2>1, <2>5, <3>1, ConcatAssociative, SMTT(30)
    <3> QED BY <2>6, <2>7, <3>1, <3>2
  <2> HIDE DEF b
  <2>9. r = AppendLine(b, Torn)
    <3>1. Append(b, Torn) = b \o <<Torn>>
      BY <1>3, <1>5, <2>1, AppendIsConcat
    <3> QED BY <1>3, <1>5, <2>8, <3>1 DEF AppendLine, EndsTorn
  <2>10. r \in Seq(Line) /\ TornIsLast(r) /\ Parsed(r) = Parsed(b)
    BY <1>3, <1>5, <2>9, AppendedTorn
  <2>11. IsPrefix(WholeLines(lines), b \o <<Torn>>)
    <3>1. WholeLines(lines) \in Seq(Line) /\ <<Torn>> \in Seq(Line) /\ b \in Seq(Line)
      BY <1>3, <1>5, <2>1, WholeType
    <3>2. IsPrefix(WholeLines(lines), b)
      BY <1>3, <1>5
    <3> QED BY <3>1, <3>2, PrefixExtends
  <2> QED BY <1>3, <1>5, <2>8, <2>10, <2>11 DEF LeftBy
<1> QED BY <1>1, <1>2, <1>4, <1>5

-----------------------------------------------------------------------------
(* A list of entries is sound: an id is that of one entry, and a parent is *)
(* found before its child.                                                 *)
Sound(s) ==
  /\ \A i, j \in EntryAt(s) : s[i].id = s[j].id => s[i] = s[j]
  /\ \A i, j \in EntryAt(s) : s[i].parentId = s[j].id =>
       \E k \in EntryAt(s) : s[k] = s[j] /\ k < i

(* t repeats entries of s, and each behind those that precede it in s.     *)
Occurs(e, t) == \E m \in EntryAt(t) : t[m] = e
OccursBefore(e, t, i) == \E m \in EntryAt(t) : m < i /\ t[m] = e
Repeats(t, s) ==
  \A i \in EntryAt(t) : \E j \in EntryAt(s) :
    /\ t[i] = s[j]
    /\ \A k \in EntryAt(s) : k < j /\ Occurs(s[k], t) => OccursBefore(s[k], t, i)

LEMMA SoundRepeats ==
  ASSUME NEW s, NEW t, Sound(s), Repeats(t, s)
  PROVE  Sound(t)
<1>1. ASSUME NEW i \in EntryAt(t), NEW j \in EntryAt(t), t[i].id = t[j].id
      PROVE  t[i] = t[j]
  <2>1. PICK a \in EntryAt(s) : t[i] = s[a]
    BY DEF Repeats
  <2>2. PICK b \in EntryAt(s) : t[j] = s[b]
    BY DEF Repeats
  <2> QED BY <1>1, <2>1, <2>2 DEF Sound
<1>2. ASSUME NEW i \in EntryAt(t), NEW j \in EntryAt(t), t[i].parentId = t[j].id
      PROVE  \E k \in EntryAt(t) : t[k] = t[j] /\ k < i
  <2>1. PICK a \in EntryAt(s) :
          /\ t[i] = s[a]
          /\ \A k \in EntryAt(s) : k < a /\ Occurs(s[k], t) => OccursBefore(s[k], t, i)
    BY DEF Repeats
  <2>2. PICK b \in EntryAt(s) : t[j] = s[b]
    BY DEF Repeats
  <2>3. PICK k \in EntryAt(s) : s[k] = s[b] /\ k < a
    BY <1>2, <2>1, <2>2 DEF Sound
  <2>4. Occurs(s[k], t)
    BY <2>2, <2>3 DEF Occurs
  <2>5. OccursBefore(s[k], t, i)
    BY <2>1, <2>3, <2>4
  <2> QED BY <2>2, <2>3, <2>5 DEF OccursBefore
<1> QED BY <1>1, <1>2 DEF Sound

LEMMA EntryFacts ==
  ASSUME NEW s \in Seq(Line)
  PROVE  \A i \in EntryAt(s) : /\ i \in 1..Len(s) /\ s[i] \in Entry /\ s[i].kind \in Kinds
                               /\ s[i].id \in IdsOf(s) /\ s[i].id \in Ids
BY SeqFacts, LineKinds DEF EntryAt, IdsOf

(* A beginning of s, one written behind another, and one written behind    *)
(* another without its first line, the header.                             *)
LEMMA SoundPrefix ==
  ASSUME NEW s \in Seq(FileEntry), Sound(s), NEW k \in 0..Len(s)
  PROVE  Sound(SubSeq(s, 1, k))
<1> DEFINE t == SubSeq(s, 1, k)
<1>1. Len(s) \in Nat /\ DOMAIN s = 1..Len(s) /\ k \in Nat /\ \A i \in 1..k : s[i] \in FileEntry
  BY SeqFacts
<1>2. t \in Seq(FileEntry) /\ Len(t) = k /\ \A i \in 1..k : t[i] = s[i]
  BY <1>1, SubSeqProperties
<1>3. DOMAIN t = 1..k
  BY <1>2, SeqFacts
<1> HIDE DEF t
<1>4. \A i \in EntryAt(t) : i \in EntryAt(s) /\ t[i] = s[i] /\ i \in 1..k
  BY <1>1, <1>2, <1>3 DEF EntryAt
<1>5. \A i \in EntryAt(s) : i \in 1..k => i \in EntryAt(t)
  BY <1>1, <1>2, <1>3 DEF EntryAt
<1>6. ASSUME NEW i \in EntryAt(t), NEW j \in EntryAt(s), j < i PROVE OccursBefore(s[j], t, i)
  <2>1. j \in 1..k
    BY <1>1, <1>4, <1>6 DEF EntryAt
  <2>2. j \in EntryAt(t) /\ t[j] = s[j]
    BY <1>4, <1>5, <2>1
  <2> QED BY <1>6, <2>2 DEF OccursBefore
<1>7. Repeats(t, s)
  BY <1>4, <1>6 DEF Repeats
<1> QED BY <1>7, SoundRepeats DEF t

LEMMA SoundTwice ==
  ASSUME NEW s \in Seq(FileEntry), Sound(s), s # <<>>, s[1] \in Header, NEW k \in 0..Len(s), NEW n \in 0..Len(s)
  PROVE  /\ Sound(SubSeq(s, 1, k) \o SubSeq(s, 1, n))
         /\ n # 0 => Sound(SubSeq(s, 1, k) \o Tail(SubSeq(s, 1, n)))
<1>1. Len(s) \in Nat \ {0} /\ DOMAIN s = 1..Len(s) /\ k \in Nat /\ n \in Nat
      /\ \A i \in 1..Len(s) : s[i] \in FileEntry
  BY SeqFacts, EmptySeq
<1>2. /\ SubSeq(s, 1, k) \in Seq(FileEntry) /\ Len(SubSeq(s, 1, k)) = k
      /\ \A i \in 1..k : SubSeq(s, 1, k)[i] = s[i]
  BY <1>1, SubSeqProperties
<1>3. /\ SubSeq(s, 1, n) \in Seq(FileEntry) /\ Len(SubSeq(s, 1, n)) = n
      /\ \A i \in 1..n : SubSeq(s, 1, n)[i] = s[i]
  BY <1>1, SubSeqProperties
<1>4. 1 \notin EntryAt(s)
  BY LineKinds DEF EntryAt
<1>5. ASSUME NEW d \in {0, 1}, NEW c \in Seq(FileEntry), Len(c) = n - d, \A i \in 1..(n - d) : c[i] = s[i + d], d <= n
      PROVE  Sound(SubSeq(s, 1, k) \o c)
  <2> DEFINE t == SubSeq(s, 1, k) \o c
  <2>1. /\ t \in Seq(FileEntry) /\ DOMAIN t = 1..(k + (n - d))
        /\ \A i \in 1..k : t[i] = s[i] /\ i \in DOMAIN t
        /\ \A i \in 1..(n - d) : t[k + i] = c[i] /\ k + i \in DOMAIN t
    <3> DEFINE u == SubSeq(s, 1, k)
    <3>1. u \in Seq(FileEntry) /\ Len(u) = k /\ c \in Seq(FileEntry)
      BY <1>2, <1>5
    <3> HIDE DEF u
    <3>2. /\ u \o c \in Seq(FileEntry) /\ DOMAIN (u \o c) = 1..(Len(u) + Len(c))
          /\ \A i \in 1..Len(u) : (u \o c)[i] = u[i] /\ i \in 1..(Len(u) + Len(c))
          /\ \A i \in 1..Len(c) : (u \o c)[Len(u) + i] = c[i] /\ Len(u) + i \in 1..(Len(u) + Len(c))
      BY <3>1, ConcatFacts
    <3>3. t = u \o c
      BY DEF u
    <3>4. \A i \in 1..k : u[i] = s[i]
      BY <1>2 DEF u
    <3> QED BY <1>5, <3>1, <3>2, <3>3, <3>4
  <2> HIDE DEF t
  <2>2. n - d \in Nat /\ d \in Nat
    BY <1>1, <1>5
  <2>3. \A i \in EntryAt(t) : (i \in EntryAt(s) /\ i \in 1..k) \/ (i - k + d \in EntryAt(s) /\ i - k \in 1..(n - d))
    <3>1. SUFFICES ASSUME NEW i \in EntryAt(t)
                   PROVE (i \in EntryAt(s) /\ i \in 1..k) \/ (i - k + d \in EntryAt(s) /\ i - k \in 1..(n - d))
      OBVIOUS
    <3>2. i \in 1..(k + (n - d)) /\ t[i].kind \in Kinds
      BY <2>1 DEF EntryAt
    <3>3. CASE i \in 1..k
      <4>1. i \in 1..Len(s)
        BY <1>1, <3>3
      <4>2. t[i] = s[i]
        BY <2>1, <3>3
      <4>3. i \in EntryAt(s)
        <5>1. s[i].kind \in Kinds
          BY <3>2, <4>2
        <5> QED BY <1>1, <4>1, <5>1 DEF EntryAt
      <4> QED BY <3>3, <4>3
    <3>4. CASE i \notin 1..k
      <4>1. i - k \in 1..(n - d) /\ k + (i - k) = i /\ i - k + d \in 1..Len(s)
        BY <1>1, <2>2, <3>2, <3>4
      <4>2. t[i] = s[i - k + d]
        BY <1>5, <2>1, <4>1
      <4> QED BY <1>1, <3>2, <4>1, <4>2 DEF EntryAt
    <3> QED BY <3>3, <3>4
  <2>4. \A j \in EntryAt(s) : j \in 1..k => j \in EntryAt(t) /\ t[j] = s[j]
    BY <1>1, <2>1 DEF EntryAt
  <2>5. ASSUME NEW j \in EntryAt(s), j <= n PROVE k + (j - d) \in EntryAt(t) /\ t[k + (j - d)] = s[j]
    <3>1. j \in 1..Len(s) /\ j # 1
      BY <1>1, <1>4 DEF EntryAt
    <3>2. j - d \in 1..(n - d) /\ (j - d) + d = j
      BY <1>1, <2>2, <2>5, <3>1
    <3>3. t[k + (j - d)] = s[j] /\ k + (j - d) \in DOMAIN t
      BY <1>5, <2>1, <3>2
    <3> QED BY <3>3 DEF EntryAt
  <2>6. ASSUME NEW i \in EntryAt(t)
        PROVE  \E j \in EntryAt(s) : t[i] = s[j] /\ \A l \in EntryAt(s) : l < j => OccursBefore(s[l], t, i)
    <3>1. CASE i \in EntryAt(s) /\ i \in 1..k
      <4>1. ASSUME NEW l \in EntryAt(s), l < i PROVE OccursBefore(s[l], t, i)
        <5>1. l \in 1..k
          BY <1>1, <3>1, <4>1 DEF EntryAt
        <5> QED BY <2>4, <4>1, <5>1 DEF OccursBefore
      <4> QED BY <2>4, <3>1, <4>1
    <3>2. CASE i - k + d \in EntryAt(s) /\ i - k \in 1..(n - d)
      <4> DEFINE j == i - k + d
      <4>1. j \in 1..n /\ k + (j - d) = i /\ i \in Nat
        <5>1. i \in Nat /\ k \in Nat /\ n \in Nat /\ d \in Nat
          BY <1>1, <2>1, <2>2, <2>6 DEF EntryAt
        <5> QED BY <3>2, <5>1
      <4>2. t[i] = s[j]
        BY <2>5, <3>2, <4>1
      <4>3. ASSUME NEW l \in EntryAt(s), l < j PROVE OccursBefore(s[l], t, i)
        <5>1. l \in Nat /\ l <= n
          BY <1>1, <4>1, <4>3 DEF EntryAt
        <5>2. k + (l - d) \in EntryAt(t) /\ t[k + (l - d)] = s[l]
          BY <2>5, <5>1
        <5>3. k + (l - d) < i
          BY <1>1, <2>2, <4>1, <4>3, <5>1
        <5> QED BY <5>2, <5>3 DEF OccursBefore
      <4> QED BY <3>2, <4>2, <4>3
    <3> QED BY <2>3, <3>1, <3>2
  <2>7. Repeats(t, s)
    BY <2>6 DEF Repeats
  <2> QED BY <2>7, SoundRepeats DEF t
<1>6. Sound(SubSeq(s, 1, k) \o SubSeq(s, 1, n))
  <2>1. /\ 0 \in {0, 1} /\ Len(SubSeq(s, 1, n)) = n - 0 /\ 0 <= n
        /\ \A i \in 1..(n - 0) : SubSeq(s, 1, n)[i] = s[i + 0]
    BY <1>1, <1>3
  <2> QED BY <1>3, <1>5, <2>1
<1>7. ASSUME n # 0 PROVE Sound(SubSeq(s, 1, k) \o Tail(SubSeq(s, 1, n)))
  <2>1. SubSeq(s, 1, n) # <<>>
    BY <1>3, <1>7, EmptySeq
  <2>2. /\ Tail(SubSeq(s, 1, n)) \in Seq(FileEntry) /\ Len(Tail(SubSeq(s, 1, n))) = n - 1
        /\ \A i \in 1..(n - 1) : Tail(SubSeq(s, 1, n))[i] = SubSeq(s, 1, n)[i + 1]
    BY <1>3, <2>1, TailFacts
  <2>3. \A i \in 1..(n - 1) : i + 1 \in 1..n
    BY <1>1
  <2>4. \A i \in 1..(n - 1) : Tail(SubSeq(s, 1, n))[i] = s[i + 1]
    BY <1>3, <2>2, <2>3
  <2>5. 1 <= n
    BY <1>1, <1>7
  <2> QED BY <1>5, <2>2, <2>4, <2>5
<1> QED BY <1>6, <1>7

LEMMA SoundElements ==
  ASSUME NEW s \in Seq(FileEntry), Sound(s), NEW I, Within(I, Len(s)),
         \A i \in I : \A j \in 1..Len(s) : s[j] = s[i] => j \in I
  PROVE  Sound(ElementsAt(s, I))
<1> DEFINE t == ElementsAt(s, I)  c == Cardinality(I)
<1>1. /\ Len(s) \in Nat /\ DOMAIN s = 1..Len(s) /\ c \in Nat /\ DOMAIN t = 1..c
      /\ \A k \in 1..c : Place(I, k) \in I /\ t[k] = s[Place(I, k)]
  BY SeqFacts, ElementsAtProps
<1>2. \A i \in I : UpTo(I, i) = UpTo(I, i) /\ Cardinality(UpTo(I, i)) \in 1..c /\ Place(I, Cardinality(UpTo(I, i))) = i
  BY <1>1, PlaceIs DEF Within
<1>3. \A a, b \in 1..c : a < b => Place(I, a) < Place(I, b)
  BY <1>1, PlaceMonotone DEF Within
<1> HIDE DEF t, c
<1>4. ASSUME NEW i \in EntryAt(t)
      PROVE  \E j \in EntryAt(s) : t[i] = s[j] /\ \A l \in EntryAt(s) : l < j /\ Occurs(s[l], t) => OccursBefore(s[l], t, i)
  <2>1. i \in 1..c /\ t[i].kind \in Kinds
    BY <1>1 DEF EntryAt
  <2>2. Place(I, i) \in EntryAt(s) /\ t[i] = s[Place(I, i)] /\ Place(I, i) \in 1..Len(s)
    BY <1>1, <2>1 DEF EntryAt, Within
  <2>3. ASSUME NEW l \in EntryAt(s), l < Place(I, i), Occurs(s[l], t)
        PROVE  OccursBefore(s[l], t, i)
    <3>1. PICK m \in EntryAt(t) : t[m] = s[l]
      BY <2>3 DEF Occurs
    <3>2. m \in 1..c /\ l \in 1..Len(s) /\ s[l].kind \in Kinds
      BY <1>1 DEF EntryAt
    <3>3. l \in I
      BY <1>1, <3>1, <3>2
    <3> DEFINE r == Cardinality(UpTo(I, l))
    <3>4. r \in 1..c /\ Place(I, r) = l
      BY <1>2, <3>3
    <3>5. t[r] = s[l] /\ r \in EntryAt(t)
      BY <1>1, <3>2, <3>4 DEF EntryAt
    <3>6. r < i
      <4>1. ~(i < r)
        <5>1. i < r => Place(I, i) < Place(I, r)
          BY <1>3, <2>1, <3>4
        <5> QED BY <2>2, <2>3, <3>2, <3>4, <5>1
      <4>2. i # r
        BY <2>2, <2>3, <3>2, <3>4
      <4> QED BY <1>1, <2>1, <3>4, <4>1, <4>2
    <3> QED BY <3>5, <3>6 DEF OccursBefore
  <2> QED BY <2>2, <2>3
<1>5. Repeats(t, s)
  BY <1>4 DEF Repeats
<1> QED BY <1>5, SoundRepeats DEF t

LEMMA SoundBehindHeader ==
  ASSUME NEW s \in Seq(FileEntry), Sound(s), NEW h \in Header
  PROVE  /\ <<h>> \o s \in Seq(FileEntry) /\ Sound(<<h>> \o s)
         /\ <<h>> \o s # <<>> /\ (<<h>> \o s)[1] = h
         /\ Mentioned(<<h>> \o s) \subseteq Mentioned(s)
<1> DEFINE t == <<h>> \o s
<1>1. /\ h \in FileEntry /\ <<h>> \in Seq(FileEntry) /\ Len(<<h>>) = 1 /\ <<h>>[1] = h
      /\ Len(s) \in Nat /\ DOMAIN s = 1..Len(s) /\ h.kind \notin Kinds
  BY SeqFacts, LineKinds DEF FileEntry
<1>2. /\ t \in Seq(FileEntry) /\ DOMAIN t = 1..(1 + Len(s))
      /\ t[1] = h /\ \A i \in 1..Len(s) : t[1 + i] = s[i] /\ 1 + i \in DOMAIN t
  <2>1. /\ t \in Seq(FileEntry) /\ DOMAIN t = 1..(Len(<<h>>) + Len(s))
        /\ \A i \in 1..Len(<<h>>) : t[i] = <<h>>[i] /\ i \in 1..(Len(<<h>>) + Len(s))
        /\ \A i \in 1..Len(s) : t[Len(<<h>>) + i] = s[i] /\ Len(<<h>>) + i \in 1..(Len(<<h>>) + Len(s))
    <3>1. <<h>> \in Seq(FileEntry)
      BY <1>1
    <3> QED BY <3>1, ConcatFacts
  <2>2. 1 \in 1..1
    OBVIOUS
  <2> QED BY <1>1, <2>1, <2>2
<1> HIDE DEF t
<1>3. ASSUME NEW i \in EntryAt(t) PROVE i - 1 \in EntryAt(s) /\ t[i] = s[i - 1]
  <2>1. i \in 1..(1 + Len(s)) /\ i # 1 /\ t[i].kind \in Kinds
    BY <1>1, <1>2 DEF EntryAt
  <2>2. i - 1 \in 1..Len(s) /\ 1 + (i - 1) = i
    BY <1>1, <2>1
  <2> QED BY <1>1, <1>2, <2>1, <2>2 DEF EntryAt
<1>4. ASSUME NEW j \in EntryAt(s) PROVE 1 + j \in EntryAt(t) /\ t[1 + j] = s[j]
  BY <1>1, <1>2 DEF EntryAt
<1>5. ASSUME NEW i \in EntryAt(t), NEW l \in EntryAt(s), l < i - 1 PROVE OccursBefore(s[l], t, i)
  <2>1. l \in Nat /\ i \in Nat
    BY <1>1, <1>2 DEF EntryAt
  <2>2. 1 + l < i
    BY <1>5, <2>1
  <2> QED BY <1>4, <2>2 DEF OccursBefore
<1>6. Repeats(t, s)
  BY <1>3, <1>5 DEF Repeats
<1>7. Mentioned(t) \subseteq Mentioned(s)
  BY <1>3 DEF Mentioned
<1>8. t # <<>>
  <2>1. 1 \in DOMAIN t
    BY <1>1, <1>2
  <2> QED BY <2>1
<1> QED BY <1>2, <1>6, <1>7, <1>8, SoundRepeats DEF t

(* New entries behind the others: their ids are new, their parents among   *)
(* what stands before.                                                     *)
LEMMA SoundNew ==
  ASSUME NEW s \in Seq(FileEntry), Sound(s), NEW t \in Seq(Entry),
         \A n \in DOMAIN t : t[n].id \notin Mentioned(s),
         \A n, m \in DOMAIN t : t[n].id = t[m].id => n = m,
         \A n, m \in DOMAIN t : t[n].parentId = t[m].id => m < n
  PROVE  s \o t \in Seq(FileEntry) /\ Sound(s \o t)
<1> DEFINE u == s \o t
<1>1. /\ Len(s) \in Nat /\ Len(t) \in Nat /\ DOMAIN s = 1..Len(s) /\ DOMAIN t = 1..Len(t)
      /\ t \in Seq(FileEntry) /\ \A n \in DOMAIN t : t[n].kind \in Kinds
  <2>1. \A n \in DOMAIN t : t[n] \in Entry
    BY SeqFacts
  <2> QED BY <2>1, SeqFacts, SeqMonotonic, LineKinds DEF FileEntry
<1>2. /\ u \in Seq(FileEntry) /\ DOMAIN u = 1..(Len(s) + Len(t))
      /\ \A i \in 1..Len(s) : u[i] = s[i] /\ i \in DOMAIN u
      /\ \A i \in 1..Len(t) : u[Len(s) + i] = t[i] /\ Len(s) + i \in DOMAIN u
  <2>1. t \in Seq(FileEntry)
    BY <1>1
  <2> QED BY <2>1, ConcatFacts
<1> HIDE DEF u
<1>3. ASSUME NEW i \in EntryAt(u)
      PROVE  \/ i \in EntryAt(s) /\ u[i] = s[i] /\ i <= Len(s)
             \/ /\ i - Len(s) \in DOMAIN t /\ u[i] = t[i - Len(s)]
                /\ i = Len(s) + (i - Len(s))
  <2>1. i \in 1..(Len(s) + Len(t)) /\ u[i].kind \in Kinds
    BY <1>2 DEF EntryAt
  <2>2. CASE i \in 1..Len(s)
    <3>1. u[i] = s[i] /\ i \in DOMAIN s
      BY <1>1, <1>2, <2>2
    <3> QED BY <2>1, <2>2, <3>1 DEF EntryAt
  <2>3. CASE i \notin 1..Len(s)
    <3>1. i - Len(s) \in 1..Len(t) /\ i = Len(s) + (i - Len(s))
      BY <1>1, <2>1, <2>3
    <3> QED BY <1>1, <1>2, <3>1
  <2> QED BY <2>2, <2>3
<1>4. \A i \in EntryAt(s) : /\ i \in EntryAt(u) /\ u[i] = s[i] /\ i \in 1..Len(s)
                            /\ s[i].id \in Mentioned(s) /\ s[i].parentId \in Mentioned(s)
  <2>1. ASSUME NEW i \in EntryAt(s) PROVE i \in 1..Len(s) /\ s[i].kind \in Kinds
    BY <1>1 DEF EntryAt
  <2>2. ASSUME NEW i \in EntryAt(s) PROVE i \in EntryAt(u) /\ u[i] = s[i]
    BY <1>2, <2>1 DEF EntryAt
  <2> QED BY <2>1, <2>2 DEF Mentioned
<1>5. \A n \in DOMAIN t : Len(s) + n \in EntryAt(u) /\ u[Len(s) + n] = t[n]
  BY <1>1, <1>2 DEF EntryAt
<1>6. ASSUME NEW i \in EntryAt(u), NEW j \in EntryAt(u)
      PROVE  /\ u[i].id = u[j].id => u[i] = u[j]
             /\ u[i].parentId = u[j].id => \E k \in EntryAt(u) : u[k] = u[j] /\ k < i
  <2>1. CASE i \in EntryAt(s) /\ j \in EntryAt(s)
    <3>1. u[i] = s[i] /\ u[j] = s[j]
      BY <1>4, <2>1
    <3>2. s[i].id = s[j].id => s[i] = s[j]
      BY <2>1 DEF Sound
    <3>3. s[i].parentId = s[j].id => \E k \in EntryAt(s) : s[k] = s[j] /\ k < i
      BY <2>1 DEF Sound
    <3> QED BY <1>4, <3>1, <3>2, <3>3
  <2>2. CASE i \in EntryAt(s) /\ j \notin EntryAt(s)
    <3>1. j - Len(s) \in DOMAIN t /\ u[j] = t[j - Len(s)] /\ u[i] = s[i]
      BY <1>3, <1>4, <2>2
    <3>2. u[j].id \notin Mentioned(s) /\ u[i].id \in Mentioned(s) /\ u[i].parentId \in Mentioned(s)
      BY <1>4, <2>2, <3>1
    <3> QED BY <3>2
  <2>3. CASE i \notin EntryAt(s) /\ j \in EntryAt(s)
    <3>1. i - Len(s) \in DOMAIN t /\ u[i] = t[i - Len(s)] /\ i = Len(s) + (i - Len(s)) /\ u[j] = s[j]
      BY <1>3, <1>4, <2>3
    <3>2. u[i].id \notin Mentioned(s) /\ u[j].id \in Mentioned(s)
      BY <1>4, <2>3, <3>1
    <3>3. j < i
      <4>1. ASSUME NEW d \in 1..Len(t) PROVE j < Len(s) + d
        BY <1>1, <1>4, <2>3, <4>1
      <4> QED BY <1>1, <3>1, <4>1
    <3> QED BY <3>2, <3>3
  <2>4. CASE i \notin EntryAt(s) /\ j \notin EntryAt(s)
    <3> DEFINE a == i - Len(s)  b == j - Len(s)
    <3>1. /\ a \in DOMAIN t /\ u[i] = t[a] /\ i = Len(s) + a
          /\ b \in DOMAIN t /\ u[j] = t[b] /\ j = Len(s) + b
      BY <1>3, <2>4
    <3> HIDE DEF a, b
    <3>2. t[a].parentId = t[b].id => j < i
      <4>1. SUFFICES ASSUME b < a PROVE j < i
        BY <3>1
      <4> QED BY <1>1, <3>1, <4>1
    <3> QED BY <3>1, <3>2
  <2> QED BY <2>1, <2>2, <2>3, <2>4
<1>7. Sound(u)
  BY <1>6 DEF Sound
<1> QED BY <1>2, <1>7 DEF u

LEMMA MentionedParsed ==
  ASSUME NEW lines \in Seq(Line)
  PROVE  Mentioned(Parsed(lines)) \subseteq Mentioned(lines)
<1>1. \A k \in EntryAt(Parsed(lines)) : \E i \in EntryAt(lines) : Parsed(lines)[k] = lines[i]
  BY ParsedProps DEF EntryAt
<1> QED BY <1>1 DEF Mentioned

-----------------------------------------------------------------------------
(* The entry tree after an entry was pushed, and what its labels are.      *)
LEMMA PushFacts ==
  ASSUME NEW fe \in Seq(FileEntry), NEW e \in Entry, NEW s, s = Append(fe, e)
  PROVE  /\ s \in Seq(FileEntry) /\ s # <<>> /\ Len(s) = Len(fe) + 1 /\ Len(fe) \in Nat
         /\ DOMAIN s = 1..(Len(fe) + 1) /\ DOMAIN fe = 1..Len(fe)
         /\ \A i \in 1..Len(fe) : s[i] = fe[i] /\ i # Len(fe) + 1
         /\ s[Len(fe) + 1] = e
         /\ EntryAt(s) = EntryAt(fe) \cup {Len(fe) + 1}
         /\ \A i \in EntryAt(fe) : i \in 1..Len(fe) /\ s[i] = fe[i]
         /\ HasAssistant(s) <=> HasAssistant(fe) \/ e.kind = "assistant"
<1>1. e \in FileEntry /\ e.kind \in Kinds
  BY LineKinds DEF FileEntry
<1>2. /\ s \in Seq(FileEntry) /\ s # <<>> /\ Len(s) = Len(fe) + 1
      /\ \A i \in 1..Len(fe) : s[i] = fe[i]
      /\ s[Len(fe) + 1] = e
  BY <1>1, AppendProperties
<1>3. Len(fe) \in Nat /\ DOMAIN fe = 1..Len(fe) /\ DOMAIN s = 1..(Len(fe) + 1)
  BY <1>2, SeqFacts
<1>4. \A i \in 1..Len(fe) : i # Len(fe) + 1
  BY <1>3
<1>5. \A i \in DOMAIN s : i \in 1..Len(fe) \/ i = Len(fe) + 1
  BY <1>3
<1>6. \A i \in 1..Len(fe) : i \in DOMAIN s
  BY <1>3
<1>7. Len(fe) + 1 \in DOMAIN s
  BY <1>3
<1>8. EntryAt(s) = EntryAt(fe) \cup {Len(fe) + 1}
  <2>1. ASSUME NEW i \in EntryAt(s) PROVE i \in EntryAt(fe) \cup {Len(fe) + 1}
    BY <1>2, <1>3, <1>5 DEF EntryAt
  <2>2. ASSUME NEW i \in EntryAt(fe) PROVE i \in EntryAt(s)
    BY <1>2, <1>3, <1>6 DEF EntryAt
  <2>3. Len(fe) + 1 \in EntryAt(s)
    BY <1>1, <1>2, <1>7 DEF EntryAt
  <2> QED BY <2>1, <2>2, <2>3
<1>9. \A i \in EntryAt(fe) : i \in 1..Len(fe) /\ s[i] = fe[i]
  BY <1>2, <1>3 DEF EntryAt
<1>11. HasAssistant(s) <=> HasAssistant(fe) \/ e.kind = "assistant"
  <2>1. ASSUME NEW i \in DOMAIN s, s[i].kind = "assistant" PROVE HasAssistant(fe) \/ e.kind = "assistant"
    BY <1>2, <1>3, <1>5, <2>1 DEF HasAssistant
  <2>2. ASSUME NEW i \in DOMAIN fe, fe[i].kind = "assistant" PROVE HasAssistant(s)
    BY <1>2, <1>3, <1>6, <2>2 DEF HasAssistant
  <2>3. e.kind = "assistant" => HasAssistant(s)
    BY <1>2, <1>7 DEF HasAssistant
  <2> QED BY <2>1, <2>2, <2>3 DEF HasAssistant
<1> QED BY <1>2, <1>3, <1>4, <1>8, <1>9, <1>11

LEMMA PushIds ==
  ASSUME NEW fe \in Seq(FileEntry), NEW e \in Entry
  PROVE  IdsOf(Append(fe, e)) = IdsOf(fe) \cup {e.id}
<1> DEFINE s == Append(fe, e)
<1>1. s = Append(fe, e)
  OBVIOUS
<1> HIDE DEF s
<1>2. EntryAt(s) = EntryAt(fe) \cup {Len(fe) + 1} /\ s[Len(fe) + 1] = e
  BY <1>1, PushFacts
<1>3. \A i \in EntryAt(fe) : i \in 1..Len(fe) /\ s[i] = fe[i]
  BY <1>1, PushFacts
<1>4. IdsOf(s) = IdsOf(fe) \cup {e.id}
  BY <1>2, <1>3 DEF IdsOf
<1> QED BY <1>1, <1>4

(* byId and the last entry. *)
LEMMA ByIdIs ==
  ASSUME NEW s \in Seq(FileEntry), NEW id \in IdsOf(s)
  PROVE  \E i \in EntryAt(s) : s[i].id = id /\ ById(s, id) = s[i]
<1> DEFINE T == {i \in EntryAt(s) : s[i].id = id}
<1>1. Len(s) \in Nat /\ DOMAIN s = 1..Len(s)
  BY SeqFacts
<1>2. T # {} /\ \A i \in T : i \in 0..Len(s)
  BY <1>1 DEF IdsOf, EntryAt
<1>3. PICK m \in T : \A n \in T : n <= m
  BY <1>1, <1>2, Greatest
<1>4. \E i \in EntryAt(s) : s[i].id = id /\ \A j \in EntryAt(s) : s[j].id = id => j <= i
  BY <1>3
<1> QED BY <1>4 DEF ById

LEMMA LastIdIs ==
  ASSUME NEW s \in Seq(FileEntry)
  PROVE  LastId(s) \in IdsOf(s) \cup {NoId}
<1>1. Len(s) \in Nat /\ DOMAIN s = 1..Len(s)
  BY SeqFacts
<1>2. CASE EntryAt(s) = {}
  BY <1>2 DEF LastId
<1>3. CASE EntryAt(s) # {}
  <2>1. \A i \in EntryAt(s) : i \in 0..Len(s)
    BY <1>1 DEF EntryAt
  <2>2. \E i \in EntryAt(s) : \A j \in EntryAt(s) : j <= i
    BY <1>1, <1>3, <2>1, Greatest
  <2> QED BY <1>3, <2>2 DEF LastId, IdsOf
<1> QED BY <1>2, <1>3

(* The entry at i labels x, or clears its label.                           *)
Labels(s, i, x) == i \in EntryAt(s) /\ s[i].kind = "label" /\ s[i].ref = x

LEMMA LabelledBy ==
  ASSUME NEW s, NEW x
  PROVE  x \in LabelledIn(s) <=>
           \E i \in EntryAt(s) : Labels(s, i, x) /\ s[i].on /\ \A k \in EntryAt(s) : Labels(s, k, x) => ~(k > i)
<1>1. ASSUME x \in LabelledIn(s)
      PROVE  \E i \in EntryAt(s) : Labels(s, i, x) /\ s[i].on /\ \A k \in EntryAt(s) : Labels(s, k, x) => ~(k > i)
  BY <1>1 DEF LabelledIn, Labels
<1>2. ASSUME NEW i \in EntryAt(s), Labels(s, i, x), s[i].on, \A k \in EntryAt(s) : Labels(s, k, x) => ~(k > i)
      PROVE  x \in LabelledIn(s)
  BY <1>2 DEF LabelledIn, Labels
<1> QED BY <1>1, <1>2

LEMMA LabelledIds ==
  ASSUME NEW s \in Seq(FileEntry)
  PROVE  LabelledIn(s) \subseteq Ids
<1>1. \A i \in EntryAt(s) : s[i] \in Entry
  BY EntriesAreLines, EntryFacts
<1>2. ASSUME NEW x \in LabelledIn(s) PROVE x \in Ids
  <2>1. PICK i \in EntryAt(s) : Labels(s, i, x)
    BY LabelledBy
  <2> QED BY <1>1, <2>1, LineKinds DEF Labels
<1> QED BY <1>2

Relabelled(labels, e) ==
  IF e.kind # "label" THEN labels ELSE IF e.on THEN labels \cup {e.ref} ELSE labels \ {e.ref}

LEMMA LabelledPush ==
  ASSUME NEW fe \in Seq(FileEntry), NEW e \in Entry
  PROVE  LabelledIn(Append(fe, e)) = Relabelled(LabelledIn(fe), e)
<1> DEFINE n == Len(fe) + 1  s == Append(fe, e)
<1>a. s = Append(fe, e)
  OBVIOUS
<1> HIDE DEF s
<1>1. /\ n \in Nat /\ EntryAt(s) = EntryAt(fe) \cup {n} /\ s[n] = e
      /\ \A i \in EntryAt(fe) : i \in Nat /\ i < n /\ s[i] = fe[i]
  <2>1. Len(fe) \in Nat
    BY SeqFacts
  <2>2. \A i \in EntryAt(fe) : i \in 1..Len(fe) /\ s[i] = fe[i]
    BY <1>a, PushFacts
  <2>3. EntryAt(s) = EntryAt(fe) \cup {Len(fe) + 1}
    BY <1>a, PushFacts
  <2>4. s[Len(fe) + 1] = e
    BY <1>a, PushFacts
  <2> QED BY <2>1, <2>2, <2>3, <2>4
<1> HIDE DEF n
<1>2. ASSUME NEW x
      PROVE  /\ \A i \in EntryAt(fe) : Labels(s, i, x) <=> Labels(fe, i, x)
             /\ Labels(s, n, x) <=> e.kind = "label" /\ e.ref = x
  BY <1>1 DEF Labels
<1>3. ASSUME NEW x, ~Labels(s, n, x) PROVE x \in LabelledIn(s) <=> x \in LabelledIn(fe)
  <2>1. ASSUME x \in LabelledIn(s) PROVE x \in LabelledIn(fe)
    <3>1. PICK i \in EntryAt(s) : Labels(s, i, x) /\ s[i].on /\ \A k \in EntryAt(s) : Labels(s, k, x) => ~(k > i)
      BY <2>1, LabelledBy
    <3>2. i \in EntryAt(fe) /\ Labels(fe, i, x) /\ fe[i].on
      BY <1>1, <1>2, <1>3, <3>1
    <3>3. \A k \in EntryAt(fe) : Labels(fe, k, x) => ~(k > i)
      BY <1>1, <1>2, <3>1
    <3> QED BY <3>2, <3>3, LabelledBy
  <2>2. ASSUME x \in LabelledIn(fe) PROVE x \in LabelledIn(s)
    <3>1. PICK i \in EntryAt(fe) : Labels(fe, i, x) /\ fe[i].on /\ \A k \in EntryAt(fe) : Labels(fe, k, x) => ~(k > i)
      BY <2>2, LabelledBy
    <3>2. i \in EntryAt(s) /\ Labels(s, i, x) /\ s[i].on
      BY <1>1, <1>2, <3>1
    <3>3. \A k \in EntryAt(s) : Labels(s, k, x) => ~(k > i)
      BY <1>1, <1>2, <1>3, <3>1
    <3> QED BY <3>2, <3>3, LabelledBy
  <2> QED BY <2>1, <2>2
<1>4. ASSUME NEW x, Labels(s, n, x) PROVE x \in LabelledIn(s) <=> e.on
  <2>1. \A k \in EntryAt(s) : k # n => n > k
    BY <1>1
  <2>2. ASSUME e.on PROVE x \in LabelledIn(s)
    <3>1. n \in EntryAt(s) /\ s[n].on /\ \A k \in EntryAt(s) : Labels(s, k, x) => ~(k > n)
      BY <1>1, <2>2
    <3> QED BY <1>4, <3>1, LabelledBy
  <2>3. ASSUME x \in LabelledIn(s) PROVE e.on
    <3>1. PICK i \in EntryAt(s) : Labels(s, i, x) /\ s[i].on /\ \A k \in EntryAt(s) : Labels(s, k, x) => ~(k > i)
      BY <2>3, LabelledBy
    <3>2. i = n
      BY <1>1, <1>4, <2>1, <3>1
    <3> QED BY <1>1, <3>1, <3>2
  <2> QED BY <2>2, <2>3
<1>5. ASSUME e.kind # "label" PROVE LabelledIn(s) = LabelledIn(fe)
  BY <1>2, <1>3, <1>5
<1>6. ASSUME e.kind = "label"
      PROVE  LabelledIn(s) = IF e.on THEN LabelledIn(fe) \cup {e.ref} ELSE LabelledIn(fe) \ {e.ref}
  <2>1. \A x : Labels(s, n, x) <=> x = e.ref
    BY <1>2, <1>6
  <2>2. \A x : x # e.ref => (x \in LabelledIn(s) <=> x \in LabelledIn(fe))
    BY <1>3, <2>1
  <2>3. e.ref \in LabelledIn(s) <=> e.on
    BY <1>4, <2>1
  <2>4. CASE e.on
    BY <1>6, <2>2, <2>3, <2>4
  <2>5. CASE ~e.on
    BY <1>6, <2>2, <2>3, <2>5
  <2> QED BY <2>4, <2>5
<1> QED BY <1>5, <1>6 DEF s, Relabelled

(* A list written behind a beginning of itself has the same index.         *)
Twice(s, fe, k) ==
  /\ \A i \in EntryAt(s) : \/ i \in 1..k /\ i \in EntryAt(fe) /\ s[i] = fe[i]
                           \/ i > k /\ i - k \in EntryAt(fe) /\ s[i] = fe[i - k] /\ i = k + (i - k)
  /\ \A i \in EntryAt(fe) : i \in 1..Len(fe) /\ k + i \in EntryAt(s) /\ s[k + i] = fe[i]

LEMMA TwiceFacts ==
  ASSUME NEW fe \in Seq(FileEntry), NEW k \in 0..Len(fe), NEW s, s = SubSeq(fe, 1, k) \o fe
  PROVE  /\ s \in Seq(FileEntry) /\ Len(fe) \in Nat /\ k \in Nat
         /\ Twice(s, fe, k)
         /\ fe # <<>> => s # <<>> /\ s[1] = fe[1]
<1>1. /\ Len(fe) \in Nat /\ DOMAIN fe = 1..Len(fe) /\ k \in Nat
      /\ \A i \in 1..k : fe[i] \in FileEntry /\ i \in 1..Len(fe)
  BY SeqFacts
<1>2. /\ SubSeq(fe, 1, k) \in Seq(FileEntry) /\ Len(SubSeq(fe, 1, k)) = k
      /\ \A i \in 1..k : SubSeq(fe, 1, k)[i] = fe[i]
  BY <1>1, SubSeqProperties
<1>3. /\ s \in Seq(FileEntry) /\ DOMAIN s = 1..(k + Len(fe)) /\ Len(s) = k + Len(fe)
      /\ \A i \in 1..k : s[i] = fe[i]
      /\ \A i \in 1..Len(fe) : s[k + i] = fe[i] /\ k + i \in DOMAIN s
  BY <1>2, ConcatFacts
<1>4. ASSUME NEW i \in EntryAt(s)
      PROVE  \/ i \in 1..k /\ i \in EntryAt(fe) /\ s[i] = fe[i]
             \/ i > k /\ i - k \in EntryAt(fe) /\ s[i] = fe[i - k] /\ i = k + (i - k)
  <2>1. i \in 1..(k + Len(fe)) /\ s[i].kind \in Kinds
    BY <1>3 DEF EntryAt
  <2>2. CASE i \in 1..k
    <3>1. s[i] = fe[i] /\ i \in DOMAIN fe
      BY <1>1, <1>3, <2>2
    <3> QED BY <2>1, <2>2, <3>1 DEF EntryAt
  <2>3. CASE i \notin 1..k
    <3>1. i - k \in 1..Len(fe) /\ i = k + (i - k) /\ i > k
      BY <1>1, <2>1, <2>3
    <3>2. s[i] = fe[i - k]
      BY <1>3, <3>1
    <3> QED BY <1>1, <2>1, <3>1, <3>2 DEF EntryAt
  <2> QED BY <2>2, <2>3
<1>5. \A i \in EntryAt(fe) : i \in 1..Len(fe) /\ k + i \in EntryAt(s) /\ s[k + i] = fe[i]
  BY <1>1, <1>3 DEF EntryAt
<1>6. ASSUME fe # <<>> PROVE s # <<>> /\ s[1] = fe[1]
  <2>1. Len(fe) # 0
    BY <1>6, EmptySeq
  <2>2. s # <<>>
    BY <1>1, <1>3, <2>1, EmptySeq
  <2>3. CASE k = 0
    BY <1>1, <1>3, <2>1, <2>3
  <2>4. CASE k # 0
    BY <1>1, <1>3, <2>4
  <2> QED BY <2>2, <2>3, <2>4
<1> QED BY <1>1, <1>3, <1>4, <1>5, <1>6 DEF Twice

LEMMA SameIndex ==
  ASSUME NEW fe \in Seq(FileEntry), NEW k \in 0..Len(fe), NEW s, s = SubSeq(fe, 1, k) \o fe, Sound(fe)
  PROVE  /\ IdsOf(s) = IdsOf(fe)
         /\ \A id \in IdsOf(s) : ById(s, id) = ById(fe, id)
         /\ LabelledIn(s) = LabelledIn(fe)
<1>1. /\ s \in Seq(FileEntry) /\ Len(fe) \in Nat /\ k \in Nat
      /\ \A i \in EntryAt(s) : \/ i \in 1..k /\ i \in EntryAt(fe) /\ s[i] = fe[i]
                               \/ i > k /\ i - k \in EntryAt(fe) /\ s[i] = fe[i - k] /\ i = k + (i - k)
      /\ \A i \in EntryAt(fe) : i \in 1..Len(fe) /\ k + i \in EntryAt(s) /\ s[k + i] = fe[i]
  <2>1. s \in Seq(FileEntry) /\ Len(fe) \in Nat /\ k \in Nat /\ Twice(s, fe, k)
    BY TwiceFacts
  <2> QED BY <2>1 DEF Twice
<1>2. \A i \in EntryAt(s) : \E j \in EntryAt(fe) : s[i] = fe[j]
  BY <1>1
<1>3. \A j \in EntryAt(fe) : \E i \in EntryAt(s) : s[i] = fe[j]
  BY <1>1
<1>4. IdsOf(s) = IdsOf(fe)
  <2>1. ASSUME NEW id \in IdsOf(s) PROVE id \in IdsOf(fe)
    <3>1. PICK i \in EntryAt(s) : s[i].id = id
      BY <2>1 DEF IdsOf
    <3>2. PICK j \in EntryAt(fe) : s[i] = fe[j]
      BY <1>2
    <3> QED BY <3>1, <3>2 DEF IdsOf
  <2>2. ASSUME NEW id \in IdsOf(fe) PROVE id \in IdsOf(s)
    <3>1. PICK j \in EntryAt(fe) : fe[j].id = id
      BY <2>2 DEF IdsOf
    <3>2. PICK i \in EntryAt(s) : s[i] = fe[j]
      BY <1>3
    <3> QED BY <3>1, <3>2 DEF IdsOf
  <2> QED BY <2>1, <2>2
<1>5. \A i, j \in EntryAt(fe) : fe[i].id = fe[j].id => fe[i] = fe[j]
  BY DEF Sound
<1>6. ASSUME NEW id \in IdsOf(s) PROVE ById(s, id) = ById(fe, id)
  <2>1. PICK a \in EntryAt(s) : s[a].id = id /\ ById(s, id) = s[a]
    BY <1>1, ByIdIs
  <2>2. PICK b \in EntryAt(fe) : fe[b].id = id /\ ById(fe, id) = fe[b]
    BY <1>4, ByIdIs
  <2>3. PICK c \in EntryAt(fe) : s[a] = fe[c]
    BY <1>2
  <2>4. fe[c] = fe[b]
    <3>1. fe[c].id = fe[b].id
      BY <2>1, <2>2, <2>3
    <3> QED BY <1>5, <3>1
  <2> QED BY <2>1, <2>2, <2>3, <2>4
<1>7. ASSUME NEW x \in LabelledIn(s) PROVE x \in LabelledIn(fe)
  <2>1. PICK i \in EntryAt(s) : Labels(s, i, x) /\ s[i].on /\ \A m \in EntryAt(s) : Labels(s, m, x) => ~(m > i)
    BY LabelledBy
  <2>2. i > k /\ i - k \in EntryAt(fe) /\ s[i] = fe[i - k] /\ i = k + (i - k)
    <3>1. SUFFICES ASSUME i \in 1..k, i \in EntryAt(fe), s[i] = fe[i] PROVE FALSE
      BY <1>1
    <3>2. k + i \in EntryAt(s) /\ s[k + i] = fe[i]
      BY <1>1, <3>1
    <3>3. Labels(s, k + i, x)
      BY <2>1, <3>1, <3>2 DEF Labels
    <3>4. k + i > i
      BY <1>1, <3>1
    <3> QED BY <2>1, <3>2, <3>3, <3>4
  <2>3. Labels(fe, i - k, x) /\ fe[i - k].on
    BY <2>1, <2>2 DEF Labels
  <2>4. ASSUME NEW m \in EntryAt(fe), Labels(fe, m, x) PROVE ~(m > i - k)
    <3>1. k + m \in EntryAt(s) /\ s[k + m] = fe[m] /\ m \in Nat /\ i - k \in Nat
      <4>1. k + m \in EntryAt(s) /\ s[k + m] = fe[m] /\ m \in 1..Len(fe)
        BY <1>1
      <4>2. i - k \in 1..Len(fe)
        BY <1>1, <2>2
      <4> QED BY <1>1, <4>1, <4>2
    <3>2. ~(k + m > i)
      BY <2>1, <2>4, <3>1 DEF Labels
    <3> QED BY <1>1, <2>2, <3>1, <3>2
  <2> QED BY <2>2, <2>3, <2>4, LabelledBy
<1>8. ASSUME NEW x \in LabelledIn(fe) PROVE x \in LabelledIn(s)
  <2>1. PICK i \in EntryAt(fe) : Labels(fe, i, x) /\ fe[i].on /\ \A m \in EntryAt(fe) : Labels(fe, m, x) => ~(m > i)
    BY LabelledBy
  <2>2. k + i \in EntryAt(s) /\ s[k + i] = fe[i] /\ i \in 1..Len(fe)
    BY <1>1
  <2>3. Labels(s, k + i, x) /\ s[k + i].on
    BY <2>1, <2>2 DEF Labels
  <2>4. ASSUME NEW m \in EntryAt(s), Labels(s, m, x) PROVE ~(m > k + i)
    <3>1. CASE m \in 1..k
      BY <1>1, <2>2, <3>1
    <3>2. CASE m > k /\ m - k \in EntryAt(fe) /\ s[m] = fe[m - k] /\ m = k + (m - k)
      <4>1. Labels(fe, m - k, x)
        BY <2>4, <3>2 DEF Labels
      <4>2. ~(m - k > i) /\ m - k \in Nat
        BY <1>1, <2>1, <3>2, <4>1
      <4> QED BY <1>1, <2>2, <3>2, <4>2
    <3> QED BY <1>1, <3>1, <3>2
  <2> QED BY <2>2, <2>3, <2>4, LabelledBy
<1> QED BY <1>4, <1>6, <1>7, <1>8

-----------------------------------------------------------------------------
(* The walk from an entry to the root.  The recursive function exists:     *)
(* its beginnings do, and they agree.                                      *)
IsWalk(g, n, fe, from) ==
  g = [m \in 0..n |-> IF m = 0 THEN from ELSE ParentOf(fe, g[m - 1])]

LEMMA WalkExists ==
  ASSUME NEW fe, NEW from, NEW n \in Nat
  PROVE  \E g : IsWalk(g, n, fe, from)
<1> DEFINE T == {m \in Nat : ~\E g : IsWalk(g, m, fe, from)}
<1>1. SUFFICES ASSUME T # {} PROVE FALSE
  OBVIOUS
<1>2. PICK m \in T : \A l \in T : m <= l
  BY <1>1, Least
<1>3. CASE m = 0
  <2> DEFINE g == [l \in 0..0 |-> from]
  <2>1. g = [l \in 0..0 |-> IF l = 0 THEN from ELSE ParentOf(fe, g[l - 1])]
    OBVIOUS
  <2>2. IsWalk(g, 0, fe, from)
    BY <2>1 DEF IsWalk
  <2> QED BY <1>2, <1>3, <2>2
<1>4. CASE m # 0
  <2>1. m - 1 \in Nat /\ m - 1 \notin T
    BY <1>2, <1>4
  <2>2. PICK h : IsWalk(h, m - 1, fe, from)
    BY <2>1
  <2> DEFINE g == [l \in 0..m |-> IF l = m THEN ParentOf(fe, h[m - 1]) ELSE h[l]]
  <2>3. \A l \in 0..(m - 1) : h[l] = IF l = 0 THEN from ELSE ParentOf(fe, h[l - 1])
    BY <2>2 DEF IsWalk
  <2>4. ASSUME NEW l \in 0..m PROVE g[l] = IF l = 0 THEN from ELSE ParentOf(fe, g[l - 1])
    <3>1. CASE l = m
      <4>1. m - 1 \in 0..m /\ m - 1 # m /\ l # 0
        BY <1>2, <1>4, <3>1
      <4>2. g[m - 1] = h[m - 1] /\ g[l] = ParentOf(fe, h[m - 1])
        BY <3>1, <4>1
      <4> QED BY <3>1, <4>1, <4>2
    <3>2. CASE l # m
      <4>1. l \in 0..(m - 1) /\ (l # 0 => l - 1 \in 0..m /\ l - 1 # m)
        BY <1>2, <1>4, <3>2
      <4>2. g[l] = h[l] /\ (l # 0 => g[l - 1] = h[l - 1])
        BY <3>2, <4>1
      <4> QED BY <2>3, <4>1, <4>2
    <3> QED BY <3>1, <3>2
  <2>5. DOMAIN g = 0..m /\ g = [l \in 0..m |-> g[l]]
    OBVIOUS
  <2> HIDE DEF g
  <2>6. IsWalk(g, m, fe, from)
    BY <2>4, <2>5 DEF IsWalk
  <2> QED BY <1>2, <2>6
<1> QED BY <1>3, <1>4

LEMMA WalksAgree ==
  ASSUME NEW fe, NEW from, NEW n \in Nat, NEW g, IsWalk(g, n, fe, from),
         NEW m \in Nat, NEW h, IsWalk(h, m, fe, from), NEW l \in Nat, l <= n, l <= m
  PROVE  g[l] = h[l]
<1> DEFINE T == {i \in Nat : i <= n /\ i <= m /\ g[i] # h[i]}
<1>1. SUFFICES ASSUME T # {} PROVE FALSE
  OBVIOUS
<1>2. PICK i \in T : \A j \in T : i <= j
  BY <1>1, Least
<1>3. /\ g[i] = IF i = 0 THEN from ELSE ParentOf(fe, g[i - 1])
      /\ h[i] = IF i = 0 THEN from ELSE ParentOf(fe, h[i - 1])
  <2>1. i \in 0..n /\ i \in 0..m
    BY <1>2
  <2> QED BY <2>1 DEF IsWalk
<1>4. i # 0
  BY <1>2, <1>3
<1>5. i - 1 \in Nat /\ i - 1 <= n /\ i - 1 <= m /\ i - 1 \notin T
  BY <1>2, <1>4
<1>6. g[i - 1] = h[i - 1]
  BY <1>5
<1> QED BY <1>2, <1>3, <1>6

LEMMA Walked ==
  ASSUME NEW fe, NEW from
  PROVE  \A n \in Nat : Ancestor(fe, from)[n] = IF n = 0 THEN from ELSE ParentOf(fe, Ancestor(fe, from)[n - 1])
<1> DEFINE W(n) == CHOOSE g : IsWalk(g, n, fe, from)
           F == [n \in Nat |-> W(n)[n]]
<1>1. \A n \in Nat : IsWalk(W(n), n, fe, from)
  BY WalkExists
<1>2. ASSUME NEW n \in Nat PROVE F[n] = IF n = 0 THEN from ELSE ParentOf(fe, F[n - 1])
  <2>1. W(n)[n] = IF n = 0 THEN from ELSE ParentOf(fe, W(n)[n - 1])
    <3>1. IsWalk(W(n), n, fe, from) /\ n \in 0..n
      BY <1>1
    <3> HIDE DEF W
    <3> QED BY <3>1 DEF IsWalk
  <2>2. CASE n = 0
    BY <2>1, <2>2
  <2>3. CASE n # 0
    <3>1. n - 1 \in Nat /\ n - 1 <= n /\ n - 1 <= n - 1
      BY <2>3
    <3>2. IsWalk(W(n), n, fe, from) /\ IsWalk(W(n - 1), n - 1, fe, from)
      BY <1>1, <3>1
    <3> HIDE DEF W
    <3>3. W(n)[n - 1] = W(n - 1)[n - 1]
      BY <3>1, <3>2, WalksAgree
    <3>4. F[n] = W(n)[n] /\ F[n - 1] = W(n - 1)[n - 1]
      BY <3>1
    <3> QED BY <2>1, <2>3, <3>3, <3>4
  <2> QED BY <2>2, <2>3
<1>3. F = [n \in Nat |-> F[n]]
  OBVIOUS
<1> HIDE DEF F
<1>4. F = [n \in Nat |-> IF n = 0 THEN from ELSE ParentOf(fe, F[n - 1])]
  BY <1>2, <1>3
<1> DEFINE up == Ancestor(fe, from)
<1>5. up = [n \in Nat |-> IF n = 0 THEN from ELSE ParentOf(fe, up[n - 1])]
  <2>1. \E f : f = [n \in Nat |-> IF n = 0 THEN from ELSE ParentOf(fe, f[n - 1])]
    BY <1>4
  <2> QED BY <2>1 DEF Ancestor
<1> HIDE DEF up
<1>6. \A n \in Nat : up[n] = IF n = 0 THEN from ELSE ParentOf(fe, up[n - 1])
  BY <1>5
<1> QED BY <1>6 DEF up

(* The first entry with an id.  Parents come first.                        *)
IsFirst(fe, i, id) ==
  i \in EntryAt(fe) /\ fe[i].id = id /\ \A j \in EntryAt(fe) : fe[j].id = id => i <= j

LEMMA FirstExists ==
  ASSUME NEW fe \in Seq(FileEntry), Sound(fe), NEW id \in IdsOf(fe)
  PROVE  \E i \in 1..Len(fe) : IsFirst(fe, i, id) /\ ById(fe, id) = fe[i]
<1> DEFINE T == {i \in EntryAt(fe) : fe[i].id = id}
<1>1. Len(fe) \in Nat /\ DOMAIN fe = 1..Len(fe)
  BY SeqFacts
<1>2. T \subseteq Nat /\ T # {}
  BY <1>1 DEF IdsOf, EntryAt
<1>3. PICK i \in T : \A j \in T : i <= j
  BY <1>2, Least
<1>4. i \in 1..Len(fe) /\ IsFirst(fe, i, id)
  BY <1>1, <1>3 DEF IsFirst, EntryAt
<1>5. PICK k \in EntryAt(fe) : fe[k].id = id /\ ById(fe, id) = fe[k]
  BY ByIdIs
<1>6. fe[k] = fe[i]
  BY <1>3, <1>5 DEF Sound
<1> QED BY <1>4, <1>5, <1>6

LEMMA ParentFirst ==
  ASSUME NEW fe \in Seq(FileEntry), Sound(fe), NEW id \in IdsOf(fe), ParentOf(fe, id) \in IdsOf(fe),
         NEW i \in Nat, IsFirst(fe, i, id), NEW j \in Nat, IsFirst(fe, j, ParentOf(fe, id))
  PROVE  j < i
<1>1. PICK a \in 1..Len(fe) : IsFirst(fe, a, id) /\ ById(fe, id) = fe[a]
  BY FirstExists
<1>2. a = i
  <2>1. a <= i /\ i <= a /\ a \in Nat
    BY <1>1, SeqFacts DEF IsFirst
  <2> QED BY <2>1
<1>3. fe[i].parentId = fe[j].id /\ i \in EntryAt(fe) /\ j \in EntryAt(fe)
  BY <1>1, <1>2 DEF IsFirst, ParentOf
<1>4. PICK k \in EntryAt(fe) : fe[k] = fe[j] /\ k < i
  BY <1>3 DEF Sound
<1>5. k \in Nat /\ j <= k
  BY <1>4, SeqFacts DEF IsFirst, EntryAt
<1> QED BY <1>4, <1>5

LEMMA WalkEnds ==
  ASSUME NEW fe \in Seq(FileEntry), Sound(fe), NEW from, NEW up, up = Ancestor(fe, from)
  PROVE  \E d \in 0..Len(fe) : up[d] \notin IdsOf(fe) /\ \A n \in 0..(d - 1) : up[n] \in IdsOf(fe)
<1> DEFINE T == {n \in Nat : up[n] \notin IdsOf(fe)}
           Bad == {n \in Nat : /\ \A m \in 0..n : up[m] \in IdsOf(fe)
                               /\ \E i \in 1..Len(fe) : IsFirst(fe, i, up[n]) /\ ~(i + n <= Len(fe))}
<1>1. Len(fe) \in Nat /\ \A n \in Nat \ {0} : up[n] = ParentOf(fe, up[n - 1])
  BY SeqFacts, Walked
<1>2. Bad = {}
  <2>1. SUFFICES ASSUME Bad # {} PROVE FALSE
    OBVIOUS
  <2>2. PICK n \in Bad : \A m \in Bad : n <= m
    <3>1. Bad \subseteq Nat
      OBVIOUS
    <3> HIDE DEF Bad
    <3> QED BY <2>1, <3>1, Least
  <2>3. PICK i \in 1..Len(fe) : IsFirst(fe, i, up[n]) /\ ~(i + n <= Len(fe))
    BY <2>2
  <2>4. n \in Nat \ {0}
    BY <1>1, <2>2, <2>3
  <2>5. n - 1 \in Nat /\ n - 1 \notin Bad /\ n \in 0..n /\ \A m \in 0..(n - 1) : m \in 0..n
    BY <2>2, <2>4
  <2>6. /\ up[n] \in IdsOf(fe) /\ up[n - 1] \in IdsOf(fe) /\ up[n] = ParentOf(fe, up[n - 1])
        /\ \A m \in 0..(n - 1) : up[m] \in IdsOf(fe)
    BY <1>1, <2>2, <2>4, <2>5
  <2>7. PICK j \in 1..Len(fe) : IsFirst(fe, j, up[n - 1])
    BY <2>6, FirstExists
  <2>8. i < j
    BY <2>3, <2>6, <2>7, ParentFirst
  <2>9. j + (n - 1) <= Len(fe)
    BY <2>5, <2>6, <2>7
  <2> QED BY <1>1, <2>3, <2>4, <2>7, <2>8, <2>9
<1>3. ASSUME NEW n \in Nat, \A m \in 0..n : up[m] \in IdsOf(fe) PROVE n + 1 <= Len(fe)
  <2>1. n \in 0..n
    OBVIOUS
  <2>2. PICK i \in 1..Len(fe) : IsFirst(fe, i, up[n])
    BY <1>3, <2>1, FirstExists
  <2>3. i + n <= Len(fe)
    BY <1>2, <1>3, <2>2
  <2> QED BY <1>1, <2>2, <2>3
<1> HIDE DEF Bad
<1>4. T # {}
  <2>1. SUFFICES ASSUME \A m \in Nat : up[m] \in IdsOf(fe) PROVE FALSE
    OBVIOUS
  <2>2. Len(fe) + 1 <= Len(fe)
    BY <1>1, <1>3, <2>1
  <2> QED BY <1>1, <2>2
<1>5. PICK d \in T : \A n \in T : d <= n
  <2>1. T \subseteq Nat
    OBVIOUS
  <2> HIDE DEF T
  <2> QED BY <1>4, <2>1, Least
<1>6. d \in Nat /\ up[d] \notin IdsOf(fe) /\ \A n \in 0..(d - 1) : up[n] \in IdsOf(fe)
  BY <1>5
<1>7. d <= Len(fe)
  <2>1. CASE d = 0
    BY <1>1, <2>1
  <2>2. CASE d # 0
    <3>1. d - 1 \in Nat /\ (d - 1) + 1 = d
      BY <1>6, <2>2
    <3> QED BY <1>3, <1>6, <3>1
  <2> QED BY <2>1, <2>2
<1> QED BY <1>1, <1>6, <1>7

(* getBranch: the entries of the tree from a root to the given entry, each *)
(* the parent of the next.                                                 *)
IsBranch(p, fe, from) ==
  /\ p \in Seq(Entry)
  /\ \A n \in 1..Len(p) : p[n].id \in IdsOf(fe) /\ p[n] = ById(fe, p[n].id)
  /\ \A n \in 1..Len(p) : n # 1 => p[n].parentId = p[n - 1].id
  /\ \A n \in 1..Len(p) : n = 1 => p[n].parentId \notin IdsOf(fe)
  /\ from \in IdsOf(fe) => p # <<>> /\ p[Len(p)].id = from

LEMMA ByIdOf ==
  ASSUME NEW fe \in Seq(FileEntry), NEW id \in IdsOf(fe)
  PROVE  ById(fe, id) \in Entry /\ ById(fe, id).id = id /\ ParentOf(fe, id) = ById(fe, id).parentId
<1>1. PICK i \in EntryAt(fe) : fe[i].id = id /\ ById(fe, id) = fe[i]
  BY ByIdIs
<1>2. fe[i] \in Entry
  BY EntriesAreLines, EntryFacts
<1> QED BY <1>1, <1>2 DEF ParentOf

LEMMA BranchIs ==
  ASSUME NEW fe \in Seq(FileEntry), Sound(fe), NEW from
  PROVE  IsBranch(getBranch(fe, from), fe, from)
<1> DEFINE up == Ancestor(fe, from)
           depth == CHOOSE d \in 0..Len(fe) :
                      up[d] \notin IdsOf(fe) /\ \A n \in 0..(d - 1) : up[n] \in IdsOf(fe)
           p == [n \in 1..depth |-> ById(fe, up[depth - n])]
<1>1. getBranch(fe, from) = p
  BY DEF getBranch
<1>2. Len(fe) \in Nat /\ \A n \in Nat : up[n] = IF n = 0 THEN from ELSE ParentOf(fe, up[n - 1])
  BY SeqFacts, Walked
<1>3. depth \in 0..Len(fe) /\ up[depth] \notin IdsOf(fe) /\ \A n \in 0..(depth - 1) : up[n] \in IdsOf(fe)
  BY WalkEnds
<1>4. depth \in Nat
  BY <1>2, <1>3
<1> HIDE DEF depth, up
<1>5. ASSUME NEW n \in 1..depth
      PROVE  /\ depth - n \in 0..(depth - 1) /\ up[depth - n] \in IdsOf(fe)
             /\ p[n] = ById(fe, up[depth - n]) /\ p[n] \in Entry /\ p[n].id = up[depth - n]
             /\ p[n].parentId = up[depth - n + 1]
  <2>1. depth - n \in 0..(depth - 1) /\ depth - n + 1 \in Nat \ {0} /\ depth - n + 1 - 1 = depth - n
    BY <1>4
  <2>2. up[depth - n] \in IdsOf(fe)
    BY <1>3, <2>1
  <2>3. p[n] = ById(fe, up[depth - n])
    OBVIOUS
  <2>4. up[depth - n + 1] = ParentOf(fe, up[depth - n])
    BY <1>2, <2>1
  <2> HIDE DEF p
  <2> QED BY <2>1, <2>2, <2>3, <2>4, ByIdOf
<1>6. p \in Seq(Entry) /\ Len(p) = depth
  <2>1. p \in [1..depth -> Entry]
    BY <1>5
  <2>2. p \in Seq(Entry)
    BY <1>4, <2>1, SeqDef
  <2>3. DOMAIN p = 1..depth
    OBVIOUS
  <2> HIDE DEF p
  <2> QED BY <1>4, <2>2, <2>3, LenProperties
<1> HIDE DEF p
<1>7. ASSUME NEW n \in 1..depth, n # 1 PROVE p[n].parentId = p[n - 1].id
  <2>1. n - 1 \in 1..depth /\ depth - (n - 1) = depth - n + 1
    BY <1>4, <1>7
  <2> QED BY <1>5, <2>1
<1>8. ASSUME NEW n \in 1..depth, n = 1 PROVE p[n].parentId \notin IdsOf(fe)
  <2>1. depth - n + 1 = depth
    BY <1>4, <1>8
  <2> QED BY <1>3, <1>5, <2>1
<1>9. ASSUME from \in IdsOf(fe) PROVE p # <<>> /\ p[depth].id = from
  <2>1. up[0] = from
    BY <1>2
  <2>2. depth # 0
    BY <1>3, <1>9, <2>1
  <2>3. depth \in 1..depth /\ depth - depth = 0
    BY <1>4, <2>2
  <2> QED BY <1>5, <1>6, <2>1, <2>2, <2>3, EmptySeq
<1>10. IsBranch(p, fe, from)
  BY <1>5, <1>6, <1>7, <1>8, <1>9 DEF IsBranch
<1> QED BY <1>1, <1>10

(* A branch is sound, and mentions nothing its tree does not.              *)
LEMMA BranchSound ==
  ASSUME NEW fe \in Seq(FileEntry), NEW from, NEW p, IsBranch(p, fe, from)
  PROVE  p \in Seq(FileEntry) /\ Sound(p) /\ Mentioned(p) \subseteq Mentioned(fe) /\ IdsOf(p) \subseteq IdsOf(fe)
<1>1. /\ p \in Seq(Entry) /\ Len(p) \in Nat /\ DOMAIN p = 1..Len(p)
      /\ \A n \in 1..Len(p) : p[n].id \in IdsOf(fe) /\ p[n] = ById(fe, p[n].id)
      /\ \A n \in 1..Len(p) : n # 1 => p[n].parentId = p[n - 1].id
      /\ \A n \in 1..Len(p) : n = 1 => p[n].parentId \notin IdsOf(fe)
  BY SeqFacts DEF IsBranch
<1>2. p \in Seq(FileEntry)
  BY <1>1, SeqMonotonic DEF FileEntry
<1>3. \A n \in EntryAt(p) : n \in 1..Len(p)
  BY <1>1 DEF EntryAt
<1>4. \A n \in 1..Len(p) : n \in EntryAt(p)
  <2>1. \A n \in 1..Len(p) : p[n].kind \in Kinds
    BY <1>1, SeqFacts, LineKinds
  <2> QED BY <1>1, <2>1 DEF EntryAt
<1>5. ASSUME NEW i \in EntryAt(p), NEW j \in EntryAt(p), p[i].parentId = p[j].id
      PROVE  \E k \in EntryAt(p) : p[k] = p[j] /\ k < i
  <2>1. i # 1 /\ i \in 1..Len(p) /\ j \in 1..Len(p)
    BY <1>1, <1>3, <1>5
  <2>2. i - 1 \in 1..Len(p) /\ i - 1 < i
    BY <1>1, <2>1
  <2>3. p[i].parentId = p[i - 1].id
    BY <1>1, <2>1
  <2>4. p[i - 1] = p[j]
    BY <1>1, <1>5, <2>1, <2>2, <2>3
  <2> QED BY <1>4, <2>2, <2>4
<1>6. Sound(p)
  BY <1>1, <1>3, <1>5 DEF Sound
<1>7. \A n \in EntryAt(p) : \E i \in EntryAt(fe) : p[n] = fe[i]
  BY <1>1, <1>3, ByIdIs
<1>8. Mentioned(p) \subseteq Mentioned(fe)
  BY <1>7 DEF Mentioned
<1>9. IdsOf(p) \subseteq IdsOf(fe)
  BY <1>7 DEF IdsOf
<1> QED BY <1>2, <1>6, <1>8, <1>9

LEMMA WithoutLabelsFacts ==
  ASSUME NEW p \in Seq(Entry), p \in Seq(FileEntry), Sound(p), NEW q, q = WithoutLabels(p)
  PROVE  /\ q \in Seq(Entry) /\ q \in Seq(FileEntry) /\ Sound(q)
         /\ Mentioned(q) \subseteq Mentioned(p) /\ IdsOf(q) \subseteq IdsOf(p)
<1> DEFINE I == {n \in DOMAIN p : ~IsLabel(p[n])}
<1>1. Len(p) \in Nat /\ DOMAIN p = 1..Len(p) /\ \A i \in DOMAIN p : p[i] \in Entry
  BY SeqFacts
<1>2. q = ElementsAt(p, I) /\ Within(I, Len(p))
  BY <1>1 DEF WithoutLabels, Within
<1>3. \A i \in I : \A j \in 1..Len(p) : p[j] = p[i] => j \in I
  BY <1>1 DEF IsLabel
<1> HIDE DEF I
<1>4. q \in Seq(Entry) /\ q \in Seq(FileEntry)
  BY <1>2, ElementsAtProps
<1>5. Sound(q)
  BY <1>2, <1>3, SoundElements
<1>6. \A k \in EntryAt(q) : \E i \in EntryAt(p) : q[k] = p[i]
  <2>1. /\ DOMAIN q = 1..Cardinality(I)
        /\ \A k \in 1..Cardinality(I) : Place(I, k) \in I /\ q[k] = p[Place(I, k)]
    BY <1>2, ElementsAtProps
  <2>2. \A i \in I : p[i].kind \in Kinds /\ i \in DOMAIN p
    BY <1>1, <1>2, LineKinds DEF Within
  <2> QED BY <1>1, <2>1, <2>2 DEF EntryAt
<1> QED BY <1>4, <1>5, <1>6 DEF Mentioned, IdsOf

LEMMA FiniteIds ==
  ASSUME NEW s \in Seq(FileEntry), NEW X
  PROVE  IsFiniteSet(X \cap IdsOf(s)) /\ Cardinality(X \cap IdsOf(s)) \in Nat
<1> DEFINE f == [i \in EntryAt(s) |-> s[i].id]
<1>1. IsFiniteSet(EntryAt(s))
  <2>1. Len(s) \in Nat /\ EntryAt(s) \in SUBSET (1..Len(s))
    BY SeqFacts DEF EntryAt
  <2>2. IsFiniteSet(1..Len(s))
    BY <2>1, FS_Interval
  <2> QED BY <2>1, <2>2, FS_Subset
<1>2. f \in Surjection(EntryAt(s), IdsOf(s))
  BY DEF Surjection, IdsOf
<1>3. IsFiniteSet(IdsOf(s))
  BY <1>1, <1>2, FS_Surjection
<1>4. X \cap IdsOf(s) \in SUBSET IdsOf(s)
  OBVIOUS
<1> QED BY <1>3, <1>4, FS_Subset, FS_CardinalityType

LEMMA BranchedFacts ==
  ASSUME NEW fe \in Seq(FileEntry), Sound(fe), \A id \in FreshIds : id \notin Mentioned(fe),
         NEW leaf, NEW parent \in SessionFiles \cup {NoFile}, NEW s \in Branched(fe, leaf, parent)
  PROVE  s \in Seq(FileEntry) /\ Sound(s) /\ s # <<>> /\ s[1] \in Header
<1> DEFINE path == WithoutLabels(getBranch(fe, leaf))
           labelled == LabelledIn(fe) \cap IdsOf(path)
           h == NewHeader(parent)
           c == Cardinality(labelled)
<1>1. PICK targets \in Orderings(labelled), ids \in FreshLists(c) :
             s = <<h>> \o path \o LabelEntries(path, targets, ids)
  <2>1. s \in WithLabels(path, labelled, parent)
    BY DEF Branched
  <2> HIDE DEF path, labelled
  <2> QED BY <2>1 DEF WithLabels
<1>2. IsBranch(getBranch(fe, leaf), fe, leaf)
  BY BranchIs
<1>3. /\ getBranch(fe, leaf) \in Seq(Entry) /\ getBranch(fe, leaf) \in Seq(FileEntry)
      /\ Sound(getBranch(fe, leaf)) /\ Mentioned(getBranch(fe, leaf)) \subseteq Mentioned(fe)
  BY <1>2, BranchSound DEF IsBranch
<1>4. path \in Seq(Entry) /\ path \in Seq(FileEntry) /\ Sound(path) /\ Mentioned(path) \subseteq Mentioned(fe)
  BY <1>3, WithoutLabelsFacts
<1>5. h \in Header
  BY DEF NewHeader, Header
<1> HIDE DEF path, h
<1>6. c \in Nat /\ labelled \subseteq Ids
  BY <1>4, FiniteIds, LabelledIds
<1> HIDE DEF labelled, c
<1>7. targets \in [1..c -> labelled]
  BY <1>1 DEF Orderings, c
<1>8. PICK S \in SUBSET FreshIds : ids \in [1..c -> S] /\ IsInjective(ids)
  BY <1>1 DEF Orderings, FreshLists
<1> DEFINE L == LabelEntries(path, targets, ids)  b == <<h>> \o path
<1>9. Len(targets) = c /\ DOMAIN L = 1..c
  <2>1. targets \in Seq(labelled) /\ DOMAIN targets = 1..c
    BY <1>6, <1>7, SeqDef
  <2>2. Len(targets) = c
    BY <1>6, <2>1, LenProperties
  <2> QED BY <2>2 DEF LabelEntries
<1>10. FreshIds \subseteq Ids
  BY DEF FreshIds
<1>11. ASSUME NEW n \in 1..c
       PROVE  /\ L[n] \in Entry /\ L[n].id = ids[n] /\ ids[n] \in FreshIds
              /\ L[n].parentId = IF n > 1 THEN ids[n - 1] ELSE IF path = <<>> THEN NoId ELSE path[Len(path)].id
              /\ n > 1 => n - 1 \in 1..c
  <2> DEFINE par == IF n > 1 THEN ids[n - 1] ELSE IF path = <<>> THEN NoId ELSE path[Len(path)].id
  <2>1. L[n] = NewEntry(ids[n], par, "label", targets[n], TRUE)
    BY <1>9 DEF LabelEntries
  <2>2. ids[n] \in FreshIds /\ targets[n] \in Ids /\ (n > 1 => n - 1 \in 1..c)
    BY <1>6, <1>7, <1>8
  <2>3. path # <<>> => path[Len(path)].id \in Ids
    <3>1. path # <<>> => Len(path) \in DOMAIN path
      BY <1>4, EmptySeq, SeqFacts
    <3> QED BY <1>4, <3>1, SeqFacts, LineKinds
  <2>4. n > 1 => ids[n - 1] \in Ids
    BY <1>8, <1>10, <2>2
  <2>5. par \in Ids \cup {NoId}
    BY <2>3, <2>4
  <2> HIDE DEF par, L
  <2>6. ids[n] \in Ids /\ targets[n] \in Ids
    BY <1>10, <2>2
  <2>7. L[n] \in Entry /\ L[n].id = ids[n] /\ L[n].parentId = par
    BY <2>1, <2>5, <2>6 DEF NewEntry, Entry, Kinds
  <2> QED BY <2>2, <2>7 DEF par
<1> HIDE DEF L
<1>12. L \in Seq(Entry)
  <2>1. L = [n \in 1..c |-> L[n]]
    BY <1>9 DEF L, LabelEntries
  <2>2. L \in [1..c -> Entry]
    BY <1>11, <2>1
  <2> QED BY <1>6, <2>2, SeqDef
<1>13. /\ b \in Seq(FileEntry) /\ Sound(b) /\ Mentioned(b) \subseteq Mentioned(path)
       /\ b # <<>> /\ b[1] = h
  BY <1>4, <1>5, SoundBehindHeader
<1> HIDE DEF b
<1>14. \A n \in 1..c : L[n].id \notin Mentioned(b)
  BY <1>4, <1>11, <1>13
<1>15. \A n, m \in 1..c : ids[n] = ids[m] => n = m
  BY <1>8 DEF IsInjective
<1>16. ASSUME NEW n \in 1..c, NEW m \in 1..c, L[n].parentId = L[m].id PROVE m < n
  <2>1. L[m].id = ids[m] /\ ids[m] \in FreshIds
    BY <1>11
  <2>2. CASE n > 1
    <3>1. ids[n - 1] = ids[m] /\ n - 1 \in 1..c
      BY <1>11, <1>16, <2>2
    <3>2. m = n - 1
      BY <1>15, <3>1
    <3> QED BY <3>2
  <2>3. CASE ~(n > 1)
    <3>1. L[m].id = IF path = <<>> THEN NoId ELSE path[Len(path)].id
      BY <1>11, <1>16, <2>3
    <3>2. L[m].id # NoId
      BY <1>10, <2>1, IdAssumption
    <3>3. path # <<>> /\ L[m].id = path[Len(path)].id
      BY <3>1, <3>2
    <3>4. Len(path) \in EntryAt(path)
      BY <1>4, <3>3, EmptySeq, SeqFacts, LineKinds DEF EntryAt
    <3>5. path[Len(path)].id \in Mentioned(path)
      BY <3>4 DEF Mentioned
    <3> QED BY <1>4, <2>1, <3>3, <3>5
  <2> QED BY <2>2, <2>3
<1>17. b \o L \in Seq(FileEntry) /\ Sound(b \o L)
  <2>1. \A n, m \in 1..c : L[n].id = L[m].id => n = m
    BY <1>11, <1>15
  <2> QED BY <1>9, <1>12, <1>13, <1>14, <1>16, <2>1, SoundNew
<1>18. b \o L # <<>> /\ (b \o L)[1] = h
  <2>1. L \in Seq(FileEntry) /\ Len(L) \in Nat
    BY <1>12, SeqMonotonic, SeqFacts DEF FileEntry
  <2>2. Len(b) \in Nat \ {0}
    BY <1>13, EmptySeq
  <2>3. /\ b \o L \in Seq(FileEntry) /\ Len(b \o L) = Len(b) + Len(L)
        /\ \A i \in 1..Len(b) : (b \o L)[i] = b[i]
    BY <1>13, <2>1, ConcatFacts
  <2>4. 1 \in 1..Len(b)
    BY <2>2
  <2> QED BY <1>13, <2>1, <2>2, <2>3, <2>4, EmptySeq
<1> QED BY <1>1, <1>5, <1>17, <1>18 DEF b, L

-----------------------------------------------------------------------------
(* The inductive invariant.  Every file holds a sound tree, whatever lines *)
(* do not parse, and only its last line can be incomplete; the tree in     *)
(* memory is sound and its labels are those of its entries; and what the   *)
(* file of the session holds depends on whether it is flushed.             *)
GoodLines(lines) == lines \in Seq(Line) /\ TornIsLast(lines) /\ Sound(Parsed(lines))

GoodDisk(d) ==
  /\ DOMAIN d \subseteq SessionFiles /\ d \in [DOMAIN d -> Seq(Line)]
  /\ \A f \in DOMAIN d : GoodLines(d[f])

GoodMemory(run, file, fe, leaf, labels, fl) ==
  /\ run \in BOOLEAN /\ fl \in BOOLEAN /\ file \in SessionFiles \cup {NoFile}
  /\ fe \in Seq(FileEntry) /\ Sound(fe)
  /\ run => fe # <<>> /\ fe[1] \in Header
  /\ leaf \in IdsOf(fe) \cup {NoId}
  /\ labels = LabelledIn(fe)
  /\ file # NoFile => run

(* Not flushed, the file holds a beginning of the entries: what an earlier *)
(* kill left.  Flushed, it holds them all, perhaps behind such a beginning.*)
Written(lines, fe, fl) ==
  /\ HasAssistant(fe) => fl
  /\ ~fl => \E k \in 0..Len(fe) : Parsed(lines) = SubSeq(fe, 1, k)
  /\ fl /\ ~HasAssistant(fe) => Parsed(lines) = fe
  /\ fl /\ HasAssistant(fe) /\ ~HasGarbage(lines) =>
       \E k \in 0..Len(fe) : Parsed(lines) = SubSeq(fe, 1, k) \o fe

At(d, f) == IF f \in DOMAIN d THEN d[f] ELSE <<>>

Good(run, file, fe, leaf, labels, fl, d) ==
  /\ GoodDisk(d) /\ GoodMemory(run, file, fe, leaf, labels, fl)
  /\ file # NoFile => Written(At(d, file), fe, fl)

StoreInv == Good(running, sessionFile, fileEntries, leafId, labelsById, flushed, disk)

LEMMA EmptyGood ==
  /\ GoodLines(<<>>) /\ Parsed(<<>>) = <<>> /\ Sound(<<>>) /\ Mentioned(<<>>) = {}
  /\ EntryAt(<<>>) = {} /\ LabelledIn(<<>>) = {} /\ <<>> \in Seq(FileEntry)
<1>1. DOMAIN <<>> = {} /\ <<>> \in Seq(Line) /\ <<>> \in Seq(FileEntry)
  BY EmptySeq
<1>2. EntryAt(<<>>) = {}
  BY <1>1 DEF EntryAt
<1>3. Sound(<<>>) /\ Mentioned(<<>>) = {} /\ LabelledIn(<<>>) = {}
  BY <1>2 DEF Sound, Mentioned, LabelledIn
<1>4. Parsed(<<>>) = <<>>
  BY <1>1, ParsedSelf
<1> QED BY <1>1, <1>2, <1>3, <1>4 DEF GoodLines, TornIsLast

LEMMA AtGood ==
  ASSUME NEW d, GoodDisk(d), NEW f
  PROVE  GoodLines(At(d, f))
BY EmptyGood DEF GoodDisk, At

LEMMA PutGood ==
  ASSUME NEW d, GoodDisk(d), NEW f \in SessionFiles, NEW lines, GoodLines(lines)
  PROVE  /\ GoodDisk(Put(d, f, lines)) /\ At(Put(d, f, lines), f) = lines
         /\ f \in DOMAIN Put(d, f, lines) /\ Put(d, f, lines)[f] = lines
         /\ \A g \in DOMAIN d : g \in DOMAIN Put(d, f, lines) /\ (g # f => Put(d, f, lines)[g] = d[g])
<1> DEFINE p == Put(d, f, lines)
<1>1. DOMAIN p = DOMAIN d \cup {f} /\ \A g \in DOMAIN d \cup {f} : p[g] = IF g = f THEN lines ELSE d[g]
  BY DEF Put
<1>2. p = [g \in DOMAIN p |-> p[g]]
  BY DEF Put
<1> HIDE DEF p
<1>3. \A g \in DOMAIN p : GoodLines(p[g])
  BY <1>1 DEF GoodDisk
<1>4. p \in [DOMAIN p -> Seq(Line)]
  BY <1>2, <1>3 DEF GoodLines
<1>5. DOMAIN p \subseteq SessionFiles
  BY <1>1 DEF GoodDisk
<1> QED BY <1>1, <1>3, <1>4, <1>5 DEF GoodDisk, At, p

LEMMA HeaderOnly ==
  ASSUME NEW parent \in SessionFiles \cup {NoFile}, NEW s, s = <<NewHeader(parent)>>
  PROVE  /\ s \in Seq(FileEntry) /\ s # <<>> /\ s[1] \in Header /\ Sound(s) /\ EntryAt(s) = {}
         /\ LabelledIn(s) = {} /\ LastId(s) = NoId /\ ~HasAssistant(s) /\ GoodLines(s) /\ Parsed(s) = s
         /\ Len(s) = 1
<1>1. /\ NewHeader(parent) \in Header /\ NewHeader(parent) \in FileEntry /\ NewHeader(parent).kind = "session"
      /\ NewHeader(parent) # Torn
  BY LineKinds DEF NewHeader, Header, FileEntry
<1>2. s \in Seq(FileEntry) /\ s # <<>> /\ Len(s) = 1 /\ s[1] = NewHeader(parent) /\ DOMAIN s = {1}
  BY <1>1
<1>3. EntryAt(s) = {}
  BY <1>1, <1>2, LineKinds DEF EntryAt
<1>4. ~HasAssistant(s)
  BY <1>1, <1>2 DEF HasAssistant
<1>5. Sound(s) /\ LabelledIn(s) = {} /\ LastId(s) = NoId
  BY <1>3 DEF Sound, LabelledIn, LastId
<1>6. Parsed(s) = s /\ s \in Seq(Line)
  BY <1>2, ParsedSelf, EntriesAreLines
<1>7. TornIsLast(s)
  BY <1>1, <1>2 DEF TornIsLast
<1> QED BY <1>1, <1>2, <1>3, <1>4, <1>5, <1>6, <1>7 DEF GoodLines

(* A new session: nothing of it is on disk.                                *)
LEMMA FreshGood ==
  ASSUME NEW d, GoodDisk(d), NEW f \in SessionFiles \cup {NoFile}, f \notin DOMAIN d,
         NEW parent \in SessionFiles \cup {NoFile}
  PROVE  Good(TRUE, f, <<NewHeader(parent)>>, NoId, {}, FALSE, d)
<1> DEFINE s == <<NewHeader(parent)>>
<1>1. /\ s \in Seq(FileEntry) /\ s # <<>> /\ s[1] \in Header /\ Sound(s) /\ LabelledIn(s) = {}
      /\ ~HasAssistant(s) /\ Len(s) = 1
  BY HeaderOnly
<1> HIDE DEF s
<1>2. GoodMemory(TRUE, f, s, NoId, {}, FALSE)
  BY <1>1 DEF GoodMemory
<1>3. SubSeq(s, 1, 0) = <<>>
  BY SubSeqEmpty
<1>4. Parsed(At(d, f)) = SubSeq(s, 1, 0)
  BY <1>3, EmptyGood DEF At
<1>5. 0 \in 0..Len(s)
  BY <1>1
<1>6. Written(At(d, f), s, FALSE)
  BY <1>1, <1>4, <1>5 DEF Written
<1> QED BY <1>2, <1>6 DEF Good, s

(* A session that was opened: its file holds its entries.                  *)
LEMMA OpenedGood ==
  ASSUME NEW d, GoodDisk(d), NEW f \in DOMAIN d, NEW fe, Parsed(d[f]) = fe,
         fe # <<>>, fe[1] \in Header
  PROVE  Good(TRUE, f, fe, LastId(fe), LabelledIn(fe), TRUE, d)
<1>1. /\ f \in SessionFiles /\ fe \in Seq(FileEntry) /\ Sound(fe) /\ At(d, f) = d[f]
      /\ LastId(fe) \in IdsOf(fe) \cup {NoId}
  BY ParsedProps, LastIdIs DEF GoodDisk, GoodLines, At
<1>2. GoodMemory(TRUE, f, fe, LastId(fe), LabelledIn(fe), TRUE)
  BY <1>1 DEF GoodMemory
<1>3. 0 \in 0..Len(fe) /\ SubSeq(fe, 1, 0) \o fe = fe
  BY <1>1, SeqFacts, SubSeqEmpty, ConcatEmptySeq
<1>4. \E k \in 0..Len(fe) : Parsed(d[f]) = SubSeq(fe, 1, k) \o fe
  BY <1>3
<1>5. Written(At(d, f), fe, TRUE)
  BY <1>1, <1>4 DEF Written
<1> QED BY <1>2, <1>5 DEF Good

LEMMA EntriesGood ==
  ASSUME NEW fe \in Seq(FileEntry), Sound(fe)
  PROVE  GoodLines(fe) /\ Parsed(fe) = fe
<1>1. fe \in Seq(Line) /\ Parsed(fe) = fe
  BY ParsedSelf, EntriesAreLines
<1>2. \A i \in DOMAIN fe : fe[i] # Torn
  BY SeqFacts, LineKinds
<1> QED BY <1>1, <1>2 DEF GoodLines, TornIsLast

LEMMA PrefixGood ==
  ASSUME NEW lines, GoodLines(lines), NEW n \in DOMAIN lines
  PROVE  GoodLines(SubSeq(lines, 1, n))
<1> DEFINE r == SubSeq(lines, 1, n)
<1>1. /\ lines \in Seq(Line) /\ Len(lines) \in Nat /\ DOMAIN lines = 1..Len(lines)
      /\ n \in 1..Len(lines) /\ \A i \in 1..Len(lines) : lines[i] \in Line
  BY SeqFacts DEF GoodLines
<1>2. r \in Seq(Line) /\ Len(r) = n /\ \A i \in 1..n : r[i] = lines[i]
  <2>1. 1 \in Int /\ n \in Int /\ 1 <= n /\ \A i \in 1..n : lines[i] \in Line
    BY <1>1
  <2>2. /\ r \in Seq(Line) /\ Len(r) = n
        /\ \A i \in 1..(n - 1 + 1) : r[i] = lines[1 + i - 1]
    BY <2>1, SubSeqProperties
  <2>3. \A i \in 1..n : i \in 1..(n - 1 + 1) /\ 1 + i - 1 = i
    BY <2>1
  <2> QED BY <2>2, <2>3
<1>3. DOMAIN r = 1..n
  BY <1>2, SeqFacts
<1> HIDE DEF r
<1>4. ASSUME NEW i \in DOMAIN r, r[i] = Torn PROVE i = Len(r)
  <2>1. lines[i] = Torn /\ i \in DOMAIN lines
    BY <1>1, <1>2, <1>3, <1>4
  <2>2. i = Len(lines)
    BY <2>1 DEF GoodLines, TornIsLast
  <2> QED BY <1>1, <1>2, <1>3, <2>2
<1>5. n \in 0..Len(lines)
  BY <1>1
<1>6. PICK k \in 0..Len(Parsed(lines)) : Parsed(r) = SubSeq(Parsed(lines), 1, k)
  BY <1>1, <1>5, ParsedPrefix DEF r
<1>7. Sound(Parsed(r))
  BY <1>1, <1>6, ParsedProps, SoundPrefix DEF GoodLines
<1> QED BY <1>2, <1>4, <1>7 DEF GoodLines, TornIsLast, r

LEMMA SubSeqPush ==
  ASSUME NEW fe \in Seq(FileEntry), NEW e \in FileEntry, NEW k \in 0..Len(fe)
  PROVE  /\ SubSeq(Append(fe, e), 1, k) = SubSeq(fe, 1, k) /\ k \in 0..Len(Append(fe, e))
         /\ SubSeq(Append(fe, e), 1, Len(fe)) = fe /\ Len(fe) \in 0..Len(Append(fe, e))
<1> DEFINE s == Append(fe, e)
<1>1. /\ s \in Seq(FileEntry) /\ Len(s) = Len(fe) + 1 /\ Len(fe) \in Nat
      /\ \A i \in 1..Len(fe) : s[i] = fe[i] /\ fe[i] \in FileEntry
  BY AppendProperties, SeqFacts
<1> HIDE DEF s
<1>2. ASSUME NEW m \in 0..Len(fe) PROVE SubSeq(s, 1, m) = SubSeq(fe, 1, m) /\ m \in 0..Len(s)
  <2>1. \A i \in 1..m : s[i] = fe[i] /\ fe[i] \in FileEntry
    BY <1>1
  <2>2. /\ SubSeq(fe, 1, m) \in Seq(FileEntry) /\ Len(SubSeq(fe, 1, m)) = m
        /\ \A i \in 1..m : SubSeq(fe, 1, m)[i] = fe[i]
    BY <1>1, <2>1, SubSeqProperties
  <2>3. /\ SubSeq(s, 1, m) \in Seq(FileEntry) /\ Len(SubSeq(s, 1, m)) = m
        /\ \A i \in 1..m : SubSeq(s, 1, m)[i] = s[i]
    BY <1>1, <2>1, SubSeqProperties
  <2>4. \A i \in 1..m : SubSeq(s, 1, m)[i] = SubSeq(fe, 1, m)[i]
    BY <2>1, <2>2, <2>3
  <2>5. SubSeq(s, 1, m) = SubSeq(fe, 1, m)
    BY <2>2, <2>3, <2>4, SeqEqual
  <2> QED BY <1>1, <2>5
<1>3. Len(fe) \in 0..Len(fe) /\ SubSeq(fe, 1, Len(fe)) = fe
  BY <1>1, SubSeqFull
<1> QED BY <1>2, <1>3 DEF s

(* An entry is pushed, and _persist writes what is pending.                *)
LEMMA AppendGood ==
  ASSUME NEW fe \in Seq(FileEntry), fe # <<>>, fe[1] \in Header, Sound(fe),
         NEW e \in Entry, e.id \notin Mentioned(fe), e.parentId # e.id,
         NEW lines, GoodLines(lines), e.id \notin Mentioned(lines),
         NEW fl \in BOOLEAN, Written(lines, fe, fl),
         NEW s, s = Append(fe, e),
         NEW r, r = IF ~HasAssistant(s) THEN lines
                    ELSE IF ~fl THEN AppendLines(lines, s) ELSE AppendLines(lines, <<e>>)
  PROVE  /\ Sound(s) /\ s[1] \in Header /\ GoodLines(r) /\ Written(r, s, HasAssistant(s))
         /\ IsPrefix(WholeLines(lines), r)
<1>1. /\ s \in Seq(FileEntry) /\ s # <<>> /\ Len(s) = Len(fe) + 1 /\ Len(fe) \in Nat
      /\ HasAssistant(s) <=> HasAssistant(fe) \/ e.kind = "assistant"
  BY PushFacts
<1>2. e \in FileEntry /\ s = fe \o <<e>> /\ <<e>> \in Seq(FileEntry) /\ <<e>> \in Seq(Entry)
  BY AppendIsConcat DEF FileEntry
<1>3. s[1] \in Header
  <2>1. 1 \in 1..Len(fe)
    BY <1>1, EmptySeq
  <2> QED BY <1>2, <2>1, AppendProperties
<1>4. ASSUME NEW t \in Seq(FileEntry), Sound(t), e.id \notin Mentioned(t)
      PROVE  t \o <<e>> \in Seq(FileEntry) /\ Sound(t \o <<e>>)
  <2>1. DOMAIN <<e>> = {1} /\ <<e>>[1] = e
    OBVIOUS
  <2>2. /\ \A n \in DOMAIN <<e>> : <<e>>[n].id \notin Mentioned(t)
        /\ \A n, m \in DOMAIN <<e>> : <<e>>[n].id = <<e>>[m].id => n = m
        /\ \A n, m \in DOMAIN <<e>> : <<e>>[n].parentId = <<e>>[m].id => m < n
    BY <1>4, <2>1
  <2> QED BY <1>2, <1>4, <2>2, SoundNew
<1>5. Sound(s)
  BY <1>2, <1>4
<1>6. /\ lines \in Seq(Line) /\ TornIsLast(lines) /\ Sound(Parsed(lines))
      /\ Parsed(lines) \in Seq(FileEntry) /\ e.id \notin Mentioned(Parsed(lines))
  BY ParsedProps, MentionedParsed DEF GoodLines
<1>7. ASSUME ~fl
      PROVE  ~HasAssistant(fe) /\ \E k \in 0..Len(s) : Parsed(lines) = SubSeq(s, 1, k)
  <2>1. PICK k \in 0..Len(fe) : Parsed(lines) = SubSeq(fe, 1, k)
    BY <1>7 DEF Written
  <2> QED BY <1>2, <1>7, <2>1, SubSeqPush DEF Written
<1>8. CASE ~HasAssistant(s)
  <2>1. r = lines
    BY <1>8
  <2>2. \E k \in 0..Len(s) : Parsed(lines) = SubSeq(s, 1, k)
    <3>1. CASE fl
      <4>1. 0 \in 0..Len(fe)
        BY <1>1
      <4>2. Parsed(lines) = fe
        BY <1>1, <1>8, <3>1 DEF Written
      <4>3. SubSeq(s, 1, Len(fe)) = fe /\ Len(fe) \in 0..Len(s)
        BY <1>2, <4>1, SubSeqPush
      <4> QED BY <4>2, <4>3
    <3>2. CASE ~fl
      BY <1>7, <3>2
    <3> QED BY <3>1, <3>2
  <2>3. Written(r, s, FALSE)
    BY <1>8, <2>1, <2>2 DEF Written
  <2>4. IsPrefix(WholeLines(lines), lines)
    BY <1>6, WholeIsPrefix
  <2>5. Written(r, s, HasAssistant(s))
    <3>1. HasAssistant(s) = FALSE
      BY <1>8 DEF HasAssistant
    <3> QED BY <2>3, <3>1
  <2> QED BY <1>3, <1>5, <2>1, <2>4, <2>5
<1>9. CASE HasAssistant(s) /\ ~fl
  <2>1. r = AppendLines(lines, s)
    BY <1>9
  <2>2. /\ r \in Seq(Line) /\ DOMAIN r = 1..Len(r)
        /\ EndsTorn(lines) \/ HasGarbage(lines) => HasGarbage(r)
        /\ TornIsLast(lines) => \A i \in DOMAIN r : r[i] # Torn
        /\ IsPrefix(WholeLines(lines), r)
        /\ EndsTorn(lines) => Parsed(r) = Parsed(lines) \o Tail(s)
        /\ ~EndsTorn(lines) => Parsed(r) = Parsed(lines) \o s
    BY <1>1, <1>6, <2>1, AppendedEntries
  <2>3. TornIsLast(r)
    BY <1>6, <2>2, NotEndsTorn
  <2>4. PICK k \in 0..Len(s) : Parsed(lines) = SubSeq(s, 1, k)
    BY <1>7, <1>9
  <2>5. Sound(SubSeq(s, 1, k) \o s) /\ Sound(SubSeq(s, 1, k) \o Tail(s))
    <3>1. Len(s) \in 0..Len(s) /\ SubSeq(s, 1, Len(s)) = s /\ Len(s) # 0
      BY <1>1, SubSeqFull
    <3> QED BY <1>1, <1>3, <1>5, <3>1, SoundTwice
  <2>6. GoodLines(r)
    BY <2>2, <2>3, <2>4, <2>5 DEF GoodLines
  <2>7. ~HasGarbage(r) => Parsed(r) = SubSeq(s, 1, k) \o s
    BY <2>2, <2>4
  <2>8. Written(r, s, TRUE)
    BY <1>9, <2>7 DEF Written
  <2> QED BY <1>3, <1>5, <1>9, <2>2, <2>6, <2>8
<1>10. CASE HasAssistant(s) /\ fl
  <2>1. r = AppendLines(lines, <<e>>) /\ <<e>> # <<>> /\ Tail(<<e>>) = <<>>
    BY <1>10
  <2>2. /\ r \in Seq(Line) /\ DOMAIN r = 1..Len(r)
        /\ EndsTorn(lines) \/ HasGarbage(lines) => HasGarbage(r)
        /\ TornIsLast(lines) => \A i \in DOMAIN r : r[i] # Torn
        /\ IsPrefix(WholeLines(lines), r)
        /\ EndsTorn(lines) => Parsed(r) = Parsed(lines) \o Tail(<<e>>)
        /\ ~EndsTorn(lines) => Parsed(r) = Parsed(lines) \o <<e>>
    BY <1>2, <1>6, <2>1, AppendedEntries
  <2>3. TornIsLast(r)
    BY <1>6, <2>2, NotEndsTorn
  <2>4. Sound(Parsed(lines) \o <<e>>) /\ Parsed(lines) \o <<>> = Parsed(lines)
    BY <1>4, <1>6, ConcatEmptySeq
  <2>5. GoodLines(r)
    BY <1>6, <2>1, <2>2, <2>3, <2>4 DEF GoodLines
  <2>6. ASSUME ~HasGarbage(r) PROVE \E k \in 0..Len(s) : Parsed(r) = SubSeq(s, 1, k) \o s
    <3>1. Parsed(r) = Parsed(lines) \o <<e>> /\ ~HasGarbage(lines)
      BY <2>2, <2>6
    <3>2. CASE ~HasAssistant(fe)
      <4>1. Parsed(lines) = fe
        BY <1>10, <3>2 DEF Written
      <4>2. SubSeq(s, 1, 0) \o s = s /\ 0 \in 0..Len(s)
        BY <1>1, SubSeqEmpty, ConcatEmptySeq
      <4> QED BY <1>2, <3>1, <4>1, <4>2
    <3>3. CASE HasAssistant(fe)
      <4>1. PICK k \in 0..Len(fe) : Parsed(lines) = SubSeq(fe, 1, k) \o fe
        BY <1>10, <3>1, <3>3 DEF Written
      <4>2. SubSeq(s, 1, k) = SubSeq(fe, 1, k) /\ k \in 0..Len(s)
        BY <1>2, SubSeqPush
      <4>3. SubSeq(fe, 1, k) \in Seq(FileEntry)
        <5>1. 1 \in Int /\ k \in Int /\ \A i \in 1..k : fe[i] \in FileEntry
          BY <1>1, SeqFacts
        <5> QED BY <5>1, SubSeqProperties
      <4>4. (SubSeq(fe, 1, k) \o fe) \o <<e>> = SubSeq(fe, 1, k) \o (fe \o <<e>>)
        BY <1>2, <4>3, ConcatThree
      <4> QED BY <1>2, <3>1, <4>1, <4>2, <4>4
    <3> QED BY <3>2, <3>3
  <2>7. Written(r, s, TRUE)
    BY <1>10, <2>6 DEF Written
  <2> QED BY <1>3, <1>5, <1>10, <2>2, <2>5, <2>7
<1> QED BY <1>8, <1>9, <1>10

(* A kill while the lines of a new entry a are written.                    *)
LEMMA KillGood ==
  ASSUME NEW fe \in Seq(FileEntry), fe # <<>>, fe[1] \in Header, Sound(fe),
         NEW a \in Entry, NEW lines, GoodLines(lines),
         NEW fl \in BOOLEAN, Written(lines, fe, fl),
         NEW ls, ls = IF ~HasAssistant(Append(fe, a)) THEN <<>> ELSE IF ~fl THEN Append(fe, a) ELSE <<a>>,
         NEW n \in 0..(Len(ls) - 1), NEW torn \in {<<>>, <<Torn>>},
         NEW r, r = AppendLines(lines, SubSeq(ls, 1, n) \o torn)
  PROVE  GoodLines(r) /\ IsPrefix(WholeLines(lines), r)
<1>1. lines \in Seq(Line) /\ TornIsLast(lines) /\ Parsed(lines) \in Seq(FileEntry) /\ Sound(Parsed(lines))
  BY ParsedProps DEF GoodLines
<1>2. /\ a \in FileEntry /\ Append(fe, a) \in Seq(FileEntry) /\ Len(Append(fe, a)) = Len(fe) + 1
      /\ Len(fe) \in Nat
  BY PushFacts DEF FileEntry
<1>3. Len(<<>>) - 1 = -1 /\ Len(<<a>>) - 1 = 0
  OBVIOUS
<1>4. n \in 0..Len(fe) /\ (n # 0 => ~fl /\ ls = Append(fe, a))
  <2>1. CASE ls = <<>>
    BY <1>3, <2>1
  <2>2. CASE ls = <<a>>
    BY <1>2, <1>3, <2>2
  <2>3. CASE ~fl /\ ls = Append(fe, a)
    BY <1>2, <2>3
  <2> QED BY <2>1, <2>2, <2>3
<1>5. CASE n = 0
  <2>1. SubSeq(ls, 1, n) = <<>> /\ <<>> \in Seq(FileEntry)
    BY <1>5, SubSeqEmpty, EmptySeq
  <2>2. /\ r \in Seq(Line) /\ TornIsLast(r) /\ IsPrefix(WholeLines(lines), r)
        /\ Parsed(r) = Parsed(lines) \/ Parsed(r) = Parsed(lines) \o <<>>
    <3>1. lines \in Seq(Line) /\ TornIsLast(lines) /\ torn \in {<<>>, <<Torn>>}
      BY <1>1
    <3>2. r = AppendLines(lines, <<>> \o torn)
      BY <2>1
    <3>3. LeftBy(<<>>, lines, r)
      BY <2>1, <3>1, <3>2, KilledLines
    <3> QED BY <3>3 DEF LeftBy
  <2>3. Parsed(r) = Parsed(lines)
    BY <1>1, <2>2, ConcatEmptySeq
  <2> QED BY <1>1, <2>2, <2>3 DEF GoodLines
<1>6. CASE n # 0
  <2> DEFINE p == SubSeq(fe, 1, n)
  <2>1. SubSeq(ls, 1, n) = p
    BY <1>2, <1>4, <1>6, SubSeqPush
  <2>2. p \in Seq(FileEntry)
    <3>1. 1 \in Int /\ n \in Int /\ \A i \in 1..n : fe[i] \in FileEntry
      BY <1>2, <1>4, SeqFacts
    <3> QED BY <3>1, SubSeqProperties
  <2>3. PICK k \in 0..Len(fe) : Parsed(lines) = SubSeq(fe, 1, k)
    BY <1>4, <1>6 DEF Written
  <2>4. Sound(SubSeq(fe, 1, k) \o p) /\ Sound(SubSeq(fe, 1, k) \o Tail(p))
    BY <1>4, <1>6, SoundTwice
  <2>a. r = AppendLines(lines, p \o torn)
    BY <2>1
  <2> HIDE DEF p
  <2>5. /\ r \in Seq(Line) /\ TornIsLast(r)
        /\ IsPrefix(WholeLines(lines), r)
        /\ \/ Parsed(r) = Parsed(lines)
           \/ p # <<>> /\ Parsed(r) = Parsed(lines) \o Tail(p)
           \/ Parsed(r) = Parsed(lines) \o p
    <3>1. lines \in Seq(Line) /\ TornIsLast(lines) /\ torn \in {<<>>, <<Torn>>}
      BY <1>1
    <3>2. LeftBy(p, lines, r)
      BY <2>2, <2>a, <3>1, KilledLines
    <3> QED BY <3>2 DEF LeftBy
  <2>6. Sound(Parsed(r))
    BY <1>1, <2>3, <2>4, <2>5
  <2> QED BY <2>5, <2>6 DEF GoodLines
<1> QED BY <1>5, <1>6

-----------------------------------------------------------------------------
(* What a step may do to the files that hold a session.                    *)
Kept(d, e) ==
  \A f \in DOMAIN d : loadEntriesFromFile(d[f]) # <<>> =>
    f \in DOMAIN e /\ IsPrefix(WholeLines(d[f]), e[f])

LEMMA KeptSame ==
  ASSUME NEW d, GoodDisk(d)
  PROVE  Kept(d, d)
BY WholeIsPrefix DEF Kept, GoodDisk, GoodLines

LEMMA KeptPut ==
  ASSUME NEW d, GoodDisk(d), NEW f \in SessionFiles, NEW lines, GoodLines(lines),
         f \in DOMAIN d => loadEntriesFromFile(d[f]) = <<>> \/ IsPrefix(WholeLines(d[f]), lines)
  PROVE  Kept(d, Put(d, f, lines))
<1>1. /\ Put(d, f, lines)[f] = lines /\ f \in DOMAIN Put(d, f, lines)
      /\ \A g \in DOMAIN d : g \in DOMAIN Put(d, f, lines) /\ (g # f => Put(d, f, lines)[g] = d[g])
  BY PutGood
<1>2. \A g \in DOMAIN d : IsPrefix(WholeLines(d[g]), d[g])
  BY WholeIsPrefix DEF GoodDisk, GoodLines
<1> QED BY <1>1, <1>2 DEF Kept

LEMMA LoadIs ==
  ASSUME NEW lines \in Seq(Line), NEW fe, fe = loadEntriesFromFile(lines)
  PROVE  /\ fe # <<>> => fe = Parsed(lines) /\ fe[1] \in Header
         /\ Parsed(lines) # <<>> /\ Parsed(lines)[1] \in Header => fe = Parsed(lines)
         /\ fe \in Seq(FileEntry)
<1>1. Parsed(lines) \in Seq(FileEntry) /\ <<>> \in Seq(FileEntry)
  BY ParsedProps, EmptySeq
<1>2. Parsed(lines) # <<>> => Parsed(lines)[1] \in FileEntry
  BY <1>1, TailFacts
<1>3. Parsed(lines) # <<>> /\ Parsed(lines)[1].kind = "session" => Parsed(lines)[1] \in Header
  BY <1>2, LineKinds
<1>4. Parsed(lines)[1] \in Header => Parsed(lines)[1].kind = "session"
  BY LineKinds
<1> QED BY <1>1, <1>3, <1>4 DEF loadEntriesFromFile

LEMMA OpenStep ==
  ASSUME NEW d, GoodDisk(d), NEW f \in SessionFiles, Open(d, f)
  PROVE  StoreInv' /\ Kept(d, disk')
<1>1. CASE f \notin DOMAIN d
  <2>1. Fresh(f, NoFile) /\ disk' = d
    BY <1>1 DEF Open
  <2>2. Good(TRUE, f, <<NewHeader(NoFile)>>, NoId, {}, FALSE, d)
    BY <1>1, FreshGood
  <2> QED BY <2>1, <2>2, KeptSame DEF Fresh, StoreInv
<1>2. CASE f \in DOMAIN d
  <2> DEFINE fe == loadEntriesFromFile(d[f])
  <2>1. running' = TRUE /\ sessionFile' = f /\ flushed' = TRUE
    BY <1>2 DEF Open
  <2>2. d[f] \in Seq(Line)
    BY <1>2 DEF GoodDisk
  <2>3. CASE fe = <<>>
    <3> DEFINE h == <<NewHeader(NoFile)>>
    <3>1. Indexed(h) /\ disk' = Put(d, f, h)
      BY <1>2, <2>3 DEF Open, Indexed
    <3>2. h # <<>> /\ h[1] \in Header /\ GoodLines(h) /\ Parsed(h) = h
      BY HeaderOnly
    <3> HIDE DEF h
    <3>3. /\ GoodDisk(Put(d, f, h)) /\ f \in DOMAIN Put(d, f, h) /\ Put(d, f, h)[f] = h
      BY <3>2, PutGood
    <3>4. Good(TRUE, f, h, LastId(h), LabelledIn(h), TRUE, Put(d, f, h))
      BY <3>2, <3>3, OpenedGood
    <3>5. Kept(d, Put(d, f, h))
      BY <2>3, <3>2, KeptPut
    <3> QED BY <2>1, <3>1, <3>4, <3>5 DEF Indexed, StoreInv
  <2>4. CASE fe # <<>>
    <3>1. Indexed(fe) /\ disk' = d
      BY <1>2, <2>4 DEF Open
    <3>2. fe = Parsed(d[f]) /\ fe[1] \in Header
      BY <2>2, <2>4, LoadIs
    <3> HIDE DEF fe
    <3>3. Good(TRUE, f, fe, LastId(fe), LabelledIn(fe), TRUE, d)
      BY <1>2, <2>4, <3>2, OpenedGood
    <3> QED BY <2>1, <3>1, <3>3, KeptSame DEF Indexed, StoreInv
  <2> QED BY <2>3, <2>4
<1> QED BY <1>1, <1>2

LEMMA OpenKeepsFiles ==
  ASSUME NEW d, NEW f, Open(d, f)
  PROVE  \A g \in DOMAIN d : g \in DOMAIN disk'
<1>1. CASE f \notin DOMAIN d
  BY <1>1 DEF Open
<1>2. CASE f \in DOMAIN d
  <2>1. disk' = d \/ disk' = Put(d, f, fileEntries')
    BY <1>2 DEF Open
  <2>2. DOMAIN Put(d, f, fileEntries') = DOMAIN d \cup {f}
    BY DEF Put
  <2> QED BY <2>1, <2>2
<1> QED BY <1>1, <1>2

LEMMA FreshFacts ==
  ASSUME NEW id \in FreshIds, GoodDisk(disk)
  PROVE  id \in Ids /\ id \notin Mentioned(fileEntries) /\ \A f : id \notin Mentioned(At(disk, f))
<1>1. id \in Ids /\ id \notin Mentioned(fileEntries) /\ \A f \in DOMAIN disk : id \notin Mentioned(disk[f])
  BY DEF FreshIds
<1> QED BY <1>1, EmptyGood DEF At

LEMMA AppendStep ==
  ASSUME StoreInv, running, NEW e \in Entry, e.id \in FreshIds, e.parentId \in IdsOf(fileEntries) \cup {NoId},
         AppendEntry(e), running' = running, sessionFile' = sessionFile,
         labelsById' = LabelledIn(fileEntries')
  PROVE  StoreInv' /\ Kept(disk, disk')
<1> DEFINE s == Append(fileEntries, e)  lines == At(disk, sessionFile)
           r == IF ~HasAssistant(s) THEN lines
                ELSE IF ~flushed THEN AppendLines(lines, s) ELSE AppendLines(lines, <<e>>)
<1>1. /\ fileEntries' = s /\ leafId' = e.id
      /\ flushed' = IF persist THEN HasAssistant(s) ELSE flushed
      /\ disk' = IF Pending(s) = <<>> THEN disk
                 ELSE Put(disk, sessionFile, AppendLines(lines, Pending(s)))
  BY DEF AppendEntry, LinesOf, At
<1>2. /\ GoodDisk(disk) /\ flushed \in BOOLEAN /\ running \in BOOLEAN /\ sessionFile \in SessionFiles \cup {NoFile}
      /\ fileEntries \in Seq(FileEntry) /\ Sound(fileEntries) /\ fileEntries # <<>> /\ fileEntries[1] \in Header
      /\ persist => Written(lines, fileEntries, flushed)
  BY DEF StoreInv, Good, GoodMemory, persist
<1>3. e.id \in Ids /\ e.id \notin Mentioned(fileEntries) /\ e.id \notin Mentioned(lines)
  BY <1>2, FreshFacts
<1>4. e.parentId # e.id
  <2>1. IdsOf(fileEntries) \subseteq Mentioned(fileEntries)
    BY DEF IdsOf, Mentioned
  <2> QED BY <1>3, <2>1, IdAssumption
<1>5. /\ s \in Seq(FileEntry) /\ s # <<>> /\ s[Len(s)] = e /\ e.id \in IdsOf(s)
  <2>a. s = Append(fileEntries, e) /\ fileEntries \in Seq(FileEntry)
    BY <1>2
  <2> HIDE DEF s
  <2>1. s \in Seq(FileEntry) /\ s # <<>> /\ Len(s) = Len(fileEntries) + 1 /\ s[Len(fileEntries) + 1] = e
    BY <2>a, PushFacts
  <2>2. IdsOf(s) = IdsOf(fileEntries) \cup {e.id}
    BY <2>a, PushIds
  <2> QED BY <2>1, <2>2
<1>6. GoodLines(lines)
  BY <1>2, AtGood
<1>7. Sound(s) /\ s[1] \in Header
  <2>1. s = Append(fileEntries, e) /\ fileEntries \in Seq(FileEntry)
    BY <1>2
  <2>2. fileEntries \o <<e>> = s /\ <<e>> \in Seq(Entry) /\ e \in FileEntry
    BY <1>2, AppendIsConcat DEF FileEntry
  <2>3. DOMAIN <<e>> = {1} /\ <<e>>[1] = e
    OBVIOUS
  <2>4. Sound(fileEntries \o <<e>>)
    BY <1>2, <1>3, <1>4, <2>2, <2>3, SoundNew
  <2>5. 1 \in 1..Len(fileEntries)
    BY <1>2, EmptySeq
  <2> HIDE DEF s
  <2>6. \A i \in 1..Len(fileEntries) : s[i] = fileEntries[i]
    BY <2>1, PushFacts
  <2> QED BY <1>2, <2>2, <2>4, <2>5, <2>6
<1> HIDE DEF s, lines
<1>8. CASE ~persist
  <2>1. disk' = disk /\ flushed' = flushed /\ sessionFile = NoFile
    BY <1>1, <1>8 DEF Pending, persist
  <2>2. GoodMemory(running, sessionFile, s, e.id, LabelledIn(s), flushed)
    BY <1>2, <1>5, <1>7, <2>1 DEF GoodMemory
  <2>3. Good(running, sessionFile, s, e.id, LabelledIn(s), flushed, disk)
    BY <1>2, <2>1, <2>2 DEF Good
  <2> QED BY <1>1, <1>2, <2>1, <2>3, KeptSame DEF StoreInv
<1>9. CASE persist
  <2>1. /\ GoodLines(r) /\ Written(r, s, HasAssistant(s)) /\ IsPrefix(WholeLines(lines), r)
    BY <1>2, <1>3, <1>4, <1>6, <1>9, AppendGood DEF s
  <2>2. sessionFile \in SessionFiles /\ lines = At(disk, sessionFile)
    BY <1>2, <1>9 DEF persist, lines
  <2>3. HasAssistant(s) \in BOOLEAN
    BY DEF HasAssistant
  <2>4. GoodMemory(running, sessionFile, s, e.id, LabelledIn(s), HasAssistant(s))
    BY <1>2, <1>5, <1>7, <2>3 DEF GoodMemory
  <2>5. GoodDisk(disk') /\ At(disk', sessionFile) = r /\ Kept(disk, disk')
    <3>1. CASE ~HasAssistant(s)
      <4>1. disk' = disk /\ r = lines
        BY <1>1, <3>1 DEF Pending
      <4> QED BY <1>2, <2>2, <4>1, KeptSame
    <3>2. CASE HasAssistant(s)
      <4>1. Pending(s) = IF ~flushed THEN s ELSE <<e>>
        BY <1>5, <1>9, <3>2 DEF Pending
      <4>2. Pending(s) # <<>>
        BY <1>5, <4>1
      <4>3. disk' = Put(disk, sessionFile, r)
        BY <1>1, <3>2, <4>1, <4>2
      <4>4. sessionFile \in DOMAIN disk => disk[sessionFile] = lines
        BY <2>2 DEF At
      <4> HIDE DEF r
      <4> QED BY <1>2, <2>1, <2>2, <4>3, <4>4, PutGood, KeptPut
    <3> QED BY <3>1, <3>2
  <2>6. Good(running, sessionFile, s, e.id, LabelledIn(s), HasAssistant(s), disk')
    BY <2>1, <2>4, <2>5 DEF Good
  <2> QED BY <1>1, <1>9, <2>5, <2>6 DEF StoreInv
<1> QED BY <1>8, <1>9

-----------------------------------------------------------------------------
(* The steps of Next, one lemma per kind of step.                          *)
Grown ==
  \A f \in DOMAIN disk : loadEntriesFromFile(disk[f]) # <<>> =>
    /\ f \in DOMAIN disk'
    /\ \/ IsPrefix(WholeLines(disk[f]), disk'[f])
       \/ \E n \in DOMAIN disk[f] : ImportFromJsonl(f, n, f)

LEMMA KeptGrown ==
  ASSUME Kept(disk, disk')
  PROVE  Grown
BY DEF Kept, Grown

LEMMA NewEntryIs ==
  ASSUME NEW id \in Ids, NEW parent \in Ids \cup {NoId}, NEW kind \in Kinds, NEW ref \in Ids \cup {NoId},
         NEW on \in BOOLEAN, kind = "label" => ref \in Ids,
         NEW e, e = NewEntry(id, parent, kind, ref, on)
  PROVE  e \in Entry /\ e.id = id /\ e.parentId = parent /\ e.kind = kind /\ e.ref = ref /\ e.on = on
BY DEF NewEntry, Entry

LEMMA StoreFacts ==
  ASSUME StoreInv
  PROVE  /\ GoodDisk(disk) /\ flushed \in BOOLEAN /\ running \in BOOLEAN
         /\ sessionFile \in SessionFiles \cup {NoFile}
         /\ fileEntries \in Seq(FileEntry) /\ Sound(fileEntries)
         /\ running => fileEntries # <<>> /\ fileEntries[1] \in Header
         /\ leafId \in IdsOf(fileEntries) \cup {NoId} /\ IdsOf(fileEntries) \subseteq Ids
         /\ labelsById = LabelledIn(fileEntries)
         /\ persist => running /\ Written(At(disk, sessionFile), fileEntries, flushed)
         /\ FreshIds \subseteq Ids /\ FreshFiles \subseteq SessionFiles /\ FreshFiles \cap DOMAIN disk = {}
         /\ NoFile \notin DOMAIN disk
<1>1. /\ GoodDisk(disk) /\ flushed \in BOOLEAN /\ running \in BOOLEAN
      /\ sessionFile \in SessionFiles \cup {NoFile}
      /\ fileEntries \in Seq(FileEntry) /\ Sound(fileEntries)
      /\ running => fileEntries # <<>> /\ fileEntries[1] \in Header
      /\ leafId \in IdsOf(fileEntries) \cup {NoId}
      /\ labelsById = LabelledIn(fileEntries)
      /\ persist => running /\ Written(At(disk, sessionFile), fileEntries, flushed)
  BY DEF StoreInv, Good, GoodMemory, persist
<1>2. IdsOf(fileEntries) \subseteq Ids
  <2>1. \A i \in EntryAt(fileEntries) : fileEntries[i].id \in Ids
    BY <1>1, EntriesAreLines, EntryFacts
  <2> QED BY <2>1 DEF IdsOf
<1>3. NoFile \notin DOMAIN disk
  BY <1>1, FileAssumption DEF GoodDisk
<1> QED BY <1>1, <1>2, <1>3 DEF FreshIds, FreshFiles

(* An entry that is no label leaves the labels alone.                      *)
LEMMA AppendOther ==
  ASSUME StoreInv, running, NEW id \in FreshIds, NEW parent \in IdsOf(fileEntries) \cup {NoId},
         NEW kind \in Kinds \ {"label"}, NEW ref \in Ids \cup {NoId},
         AppendEntry(NewEntry(id, parent, kind, ref, FALSE)),
         UNCHANGED <<running, sessionFile, labelsById, sessions>>
  PROVE  StoreInv' /\ Grown
<1> DEFINE e == NewEntry(id, parent, kind, ref, FALSE)
<1>1. /\ fileEntries \in Seq(FileEntry) /\ labelsById = LabelledIn(fileEntries)
      /\ id \in Ids /\ parent \in Ids \cup {NoId}
  BY StoreFacts
<1>2. e \in Entry /\ e.id = id /\ e.parentId = parent /\ e.kind = kind
  <2>1. FALSE \in BOOLEAN /\ kind \in Kinds /\ kind # "label"
    OBVIOUS
  <2>2. e = NewEntry(id, parent, kind, ref, FALSE)
    OBVIOUS
  <2> HIDE DEF e
  <2>3. id \in Ids /\ parent \in Ids \cup {NoId}
    BY <1>1
  <2> QED BY <2>1, <2>2, <2>3 DEF NewEntry, Entry
<1> HIDE DEF e
<1>3. AppendEntry(e)
  BY DEF e
<1>4. fileEntries' = Append(fileEntries, e)
  BY <1>3 DEF AppendEntry
<1>5. labelsById' = LabelledIn(fileEntries')
  <2>1. LabelledIn(Append(fileEntries, e)) = Relabelled(LabelledIn(fileEntries), e)
    BY <1>1, <1>2, LabelledPush
  <2>2. labelsById' = labelsById /\ Relabelled(LabelledIn(fileEntries), e) = LabelledIn(fileEntries)
    BY <1>2 DEF Relabelled
  <2> QED BY <1>1, <1>4, <2>1, <2>2
<1>6. StoreInv' /\ Kept(disk, disk')
  BY <1>2, <1>3, <1>5, AppendStep
<1> QED BY <1>6, KeptGrown

LEMMA AppendLabelStep ==
  ASSUME StoreInv, NEW id \in FreshIds, NEW target \in IdsOf(fileEntries), NEW on \in BOOLEAN,
         AppendLabelChange(id, target, on)
  PROVE  StoreInv' /\ Grown
<1> DEFINE e == NewEntry(id, leafId, "label", target, on)
<1>1. /\ fileEntries \in Seq(FileEntry) /\ labelsById = LabelledIn(fileEntries)
      /\ id \in Ids /\ leafId \in Ids \cup {NoId} /\ target \in Ids
      /\ leafId \in IdsOf(fileEntries) \cup {NoId}
  BY StoreFacts
<1>2. e \in Entry /\ e.id = id /\ e.parentId = leafId /\ e.kind = "label" /\ e.ref = target /\ e.on = on
  <2>1. "label" \in Kinds /\ target \in Ids \cup {NoId}
    BY <1>1 DEF Kinds
  <2> QED BY <1>1, <2>1, NewEntryIs
<1>3. /\ running /\ AppendEntry(e) /\ running' = running /\ sessionFile' = sessionFile
      /\ labelsById' = IF on THEN labelsById \cup {target} ELSE labelsById \ {target}
  BY DEF AppendLabelChange
<1> HIDE DEF e
<1>4. fileEntries' = Append(fileEntries, e)
  BY <1>3 DEF AppendEntry
<1>5. labelsById' = LabelledIn(fileEntries')
  <2>1. e \in Entry /\ fileEntries \in Seq(FileEntry) /\ e.kind = "label"
    BY <1>1, <1>2
  <2>2. LabelledIn(Append(fileEntries, e))
          = IF e.on THEN LabelledIn(fileEntries) \cup {e.ref} ELSE LabelledIn(fileEntries) \ {e.ref}
    <3>1. LabelledIn(Append(fileEntries, e)) = Relabelled(LabelledIn(fileEntries), e)
      BY <2>1, LabelledPush
    <3> QED BY <2>1, <3>1 DEF Relabelled
  <2>3. /\ on => LabelledIn(fileEntries') = LabelledIn(fileEntries) \cup {target}
        /\ ~on => LabelledIn(fileEntries') = LabelledIn(fileEntries) \ {target}
    BY <1>2, <1>4, <2>2
  <2> QED BY <1>1, <1>3, <2>3
<1>6. StoreInv' /\ Kept(disk, disk')
  BY <1>1, <1>2, <1>3, <1>5, AppendStep
<1> QED BY <1>6, KeptGrown

LEMMA FreshStep ==
  ASSUME StoreInv, NEW f \in FreshFiles \cup {NoFile}, NEW parent \in SessionFiles \cup {NoFile},
         Fresh(f, parent), UNCHANGED disk
  PROVE  StoreInv' /\ Grown
<1>1. GoodDisk(disk) /\ f \in SessionFiles \cup {NoFile} /\ f \notin DOMAIN disk
  BY StoreFacts
<1>2. Good(TRUE, f, <<NewHeader(parent)>>, NoId, {}, FALSE, disk)
  BY <1>1, FreshGood
<1> QED BY <1>1, <1>2, KeptSame, KeptGrown DEF Fresh, StoreInv

LEMMA PutOpenStep ==
  ASSUME StoreInv, NEW f \in FreshFiles, NEW lines, GoodLines(lines), Open(Put(disk, f, lines), f)
  PROVE  StoreInv' /\ Grown
<1>1. GoodDisk(disk) /\ f \in SessionFiles /\ f \notin DOMAIN disk
  BY StoreFacts
<1>2. /\ GoodDisk(Put(disk, f, lines))
      /\ \A g \in DOMAIN disk : g \in DOMAIN Put(disk, f, lines) /\ Put(disk, f, lines)[g] = disk[g]
  BY <1>1, PutGood
<1>3. StoreInv' /\ Kept(Put(disk, f, lines), disk')
  BY <1>1, <1>2, OpenStep
<1>4. Kept(disk, disk')
  BY <1>2, <1>3 DEF Kept
<1> QED BY <1>3, <1>4, KeptGrown

LEMMA ImportStep ==
  ASSUME StoreInv, NEW g \in DOMAIN disk, NEW n \in DOMAIN disk[g], NEW f, ImportFromJsonl(g, n, f)
  PROVE  StoreInv' /\ Grown
<1> DEFINE lines == SubSeq(disk[g], 1, n)
<1>1. GoodDisk(disk) /\ GoodLines(lines) /\ g \in SessionFiles
  BY StoreFacts, PrefixGood DEF GoodDisk
<1>2. f \in FreshFiles \cup {g} /\ Open(Put(disk, f, lines), f)
  BY DEF ImportFromJsonl
<1> HIDE DEF lines
<1>3. CASE f \in FreshFiles
  BY <1>1, <1>2, <1>3, PutOpenStep
<1>4. CASE f = g
  <2>1. /\ GoodDisk(Put(disk, g, lines))
        /\ \A h \in DOMAIN disk : h \in DOMAIN Put(disk, g, lines) /\ (h # g => Put(disk, g, lines)[h] = disk[h])
    BY <1>1, PutGood
  <2>2. StoreInv' /\ Kept(Put(disk, g, lines), disk')
    BY <1>1, <1>2, <1>4, <2>1, OpenStep
  <2>3. \A h \in DOMAIN disk : h \in DOMAIN disk'
    <3>1. \A h \in DOMAIN Put(disk, g, lines) : h \in DOMAIN disk'
      BY <1>2, <1>4, OpenKeepsFiles
    <3> QED BY <2>1, <3>1
  <2>4. ImportFromJsonl(g, n, g)
    BY <1>4
  <2>5. ASSUME NEW h \in DOMAIN disk, loadEntriesFromFile(disk[h]) # <<>>, h # g
        PROVE  h \in DOMAIN disk' /\ IsPrefix(WholeLines(disk[h]), disk'[h])
    <3>1. h \in DOMAIN Put(disk, g, lines) /\ Put(disk, g, lines)[h] = disk[h]
      BY <2>1, <2>5
    <3> QED BY <2>2, <2>5, <3>1 DEF Kept
  <2>6. Grown
    <3>1. SUFFICES ASSUME NEW h \in DOMAIN disk, loadEntriesFromFile(disk[h]) # <<>>
                   PROVE  /\ h \in DOMAIN disk'
                          /\ \/ IsPrefix(WholeLines(disk[h]), disk'[h])
                             \/ \E m \in DOMAIN disk[h] : ImportFromJsonl(h, m, h)
      BY DEF Grown
    <3>2. CASE h = g
      <4>1. \E m \in DOMAIN disk[h] : ImportFromJsonl(h, m, h)
        BY <2>4, <3>2
      <4> QED BY <2>3, <4>1
    <3>3. CASE h # g
      BY <2>5, <3>1, <3>3
    <3> QED BY <3>2, <3>3
  <2> QED BY <2>2, <2>6
<1> QED BY <1>2, <1>3, <1>4

LEMMA LoadedGood ==
  ASSUME NEW lines, GoodLines(lines), NEW fe, fe = loadEntriesFromFile(lines)
  PROVE  fe \in Seq(FileEntry) /\ Sound(fe) /\ Mentioned(fe) \subseteq Mentioned(lines)
<1>1. lines \in Seq(Line) /\ Sound(Parsed(lines))
  BY DEF GoodLines
<1>2. fe = <<>> \/ fe = Parsed(lines)
  BY DEF loadEntriesFromFile
<1>3. CASE fe = <<>>
  <2>1. Mentioned(fe) = {} /\ Sound(fe) /\ fe \in Seq(FileEntry)
    BY <1>3, EmptyGood
  <2> QED BY <2>1
<1>4. CASE fe = Parsed(lines)
  <2>1. Parsed(lines) \in Seq(FileEntry) /\ Mentioned(Parsed(lines)) \subseteq Mentioned(lines)
    BY <1>1, ParsedProps, MentionedParsed
  <2> QED BY <1>1, <1>4, <2>1
<1> QED BY <1>2, <1>3, <1>4

LEMMA ForkPersistedStep ==
  ASSUME StoreInv, persist, NEW target, NEW f, ForkPersisted(target, f)
  PROVE  StoreInv' /\ Grown
<1> DEFINE source == loadEntriesFromFile(At(disk, sessionFile))
<1>1. /\ f \in FreshFiles
      /\ \E fe \in Branched(source, target, sessionFile) :
           Open(IF HasAssistant(fe) THEN Put(disk, f, fe) ELSE disk, f)
  BY DEF ForkPersisted, LinesOf, At
<1>2. PICK fe \in Branched(source, target, sessionFile) :
        Open(IF HasAssistant(fe) THEN Put(disk, f, fe) ELSE disk, f)
  BY <1>1
<1>3. GoodDisk(disk) /\ sessionFile \in SessionFiles \cup {NoFile} /\ f \in SessionFiles
  BY <1>1, StoreFacts
<1>4. source \in Seq(FileEntry) /\ Sound(source) /\ Mentioned(source) \subseteq Mentioned(At(disk, sessionFile))
  BY <1>3, AtGood, LoadedGood
<1>5. \A id \in FreshIds : id \notin Mentioned(source)
  BY <1>3, <1>4, FreshFacts
<1> HIDE DEF source
<1>6. fe \in Seq(FileEntry) /\ Sound(fe)
  BY <1>2, <1>3, <1>4, <1>5, BranchedFacts
<1>7. GoodLines(fe)
  BY <1>6, EntriesGood
<1>8. CASE HasAssistant(fe)
  <2>1. Open(Put(disk, f, fe), f)
    BY <1>2, <1>8
  <2> QED BY <1>1, <1>7, <2>1, PutOpenStep
<1>9. CASE ~HasAssistant(fe)
  <2>1. Open(disk, f)
    BY <1>2, <1>9
  <2>2. StoreInv' /\ Kept(disk, disk')
    BY <1>3, <2>1, OpenStep
  <2> QED BY <2>2, KeptGrown
<1> QED BY <1>8, <1>9

LEMMA ForkInMemoryStep ==
  ASSUME StoreInv, ~persist, running, NEW target, NEW f, ForkInMemory(target, f)
  PROVE  StoreInv' /\ Grown
<1>1. PICK fe \in Branched(fileEntries, target, NoFile) : Indexed(fe)
  BY DEF ForkInMemory
<1>2. /\ running' = running /\ sessionFile' = sessionFile /\ flushed' = flushed /\ disk' = disk
      /\ sessionFile = NoFile
  BY DEF ForkInMemory, persist
<1>3. /\ GoodDisk(disk) /\ flushed \in BOOLEAN /\ running \in BOOLEAN
      /\ fileEntries \in Seq(FileEntry) /\ Sound(fileEntries)
  BY StoreFacts
<1>4. \A id \in FreshIds : id \notin Mentioned(fileEntries)
  BY <1>3, FreshFacts
<1>5. fe \in Seq(FileEntry) /\ Sound(fe) /\ fe # <<>> /\ fe[1] \in Header
  BY <1>1, <1>3, <1>4, BranchedFacts
<1>6. GoodMemory(running, NoFile, fe, LastId(fe), LabelledIn(fe), flushed)
  BY <1>3, <1>5, LastIdIs DEF GoodMemory
<1>7. Good(running, sessionFile, fe, LastId(fe), LabelledIn(fe), flushed, disk)
  BY <1>2, <1>3, <1>6 DEF Good
<1>8. StoreInv'
  BY <1>1, <1>2, <1>7 DEF Indexed, StoreInv
<1> QED BY <1>2, <1>3, <1>8, KeptSame, KeptGrown

LEMMA ForkStep ==
  ASSUME StoreInv, NEW id \in IdsOf(fileEntries), NEW position \in {"at", "before"}, NEW f, Fork(id, position, f)
  PROVE  StoreInv' /\ Grown
<1> DEFINE target == IF position = "at" THEN id ELSE ById(fileEntries, id).parentId
<1>1. /\ running
      /\ target = NoId => /\ f \in IF persist THEN FreshFiles ELSE {NoFile}
                          /\ Fresh(f, sessionFile)
                          /\ UNCHANGED disk
      /\ target # NoId => IF persist THEN ForkPersisted(target, f) ELSE ForkInMemory(target, f)
  BY DEF Fork
<1> HIDE DEF target
<1>2. CASE target = NoId
  <2>1. f \in FreshFiles \cup {NoFile} /\ sessionFile \in SessionFiles \cup {NoFile}
    BY <1>1, <1>2, StoreFacts
  <2> QED BY <1>1, <1>2, <2>1, FreshStep
<1>3. CASE target # NoId /\ persist
  BY <1>1, <1>3, ForkPersistedStep
<1>4. CASE target # NoId /\ ~persist
  BY <1>1, <1>4, ForkInMemoryStep
<1> QED BY <1>2, <1>3, <1>4

LEMMA ForkFromStep ==
  ASSUME StoreInv, NEW source, NEW f, ForkFrom(source, f)
  PROVE  StoreInv' /\ Grown
<1> DEFINE fe == loadEntriesFromFile(disk[source])  rest == ElementsAt(fe, EntryAt(fe))
           copy == <<NewHeader(source)>> \o rest
<1>1. source \in DOMAIN disk /\ f \in FreshFiles /\ Open(Put(disk, f, copy), f)
  BY DEF ForkFrom
<1>2. GoodLines(disk[source]) /\ source \in SessionFiles
  BY <1>1, StoreFacts DEF GoodDisk
<1>3. fe \in Seq(FileEntry) /\ Sound(fe)
  BY <1>2, LoadedGood
<1> HIDE DEF fe
<1>4. DOMAIN fe = 1..Len(fe) /\ \A i \in EntryAt(fe) : i \in 1..Len(fe)
  BY <1>3, SeqFacts DEF EntryAt
<1>5. \A i \in EntryAt(fe) : \A j \in 1..Len(fe) : fe[j] = fe[i] => j \in EntryAt(fe)
  BY <1>4 DEF EntryAt
<1>6. rest \in Seq(FileEntry) /\ Sound(rest)
  <2>1. Within(EntryAt(fe), Len(fe))
    BY <1>4 DEF Within
  <2> QED BY <1>3, <1>5, <2>1, ElementsAtProps, SoundElements
<1>7. NewHeader(source) \in Header
  BY <1>2 DEF NewHeader, Header
<1> HIDE DEF rest
<1>8. GoodLines(copy)
  BY <1>6, <1>7, SoundBehindHeader, EntriesGood
<1> HIDE DEF copy
<1> QED BY <1>1, <1>8, PutOpenStep

LEMMA KillStep ==
  ASSUME StoreInv, Kill
  PROVE  StoreInv' /\ Grown
<1>1. /\ running /\ running' = FALSE /\ sessionFile' = NoFile /\ fileEntries' = <<>>
      /\ leafId' = NoId /\ labelsById' = {} /\ flushed' = FALSE
  BY DEF Kill
<1>2. ASSUME GoodDisk(disk') PROVE StoreInv'
  <2>1. GoodMemory(FALSE, NoFile, <<>>, NoId, {}, FALSE)
    BY EmptyGood DEF GoodMemory
  <2>2. Good(FALSE, NoFile, <<>>, NoId, {}, FALSE, disk')
    BY <1>2, <2>1 DEF Good
  <2> QED BY <1>1, <2>2 DEF StoreInv
<1>3. CASE disk' = disk
  BY <1>2, <1>3, StoreFacts, KeptSame, KeptGrown
<1>4. CASE disk' # disk
  <2> DEFINE a(id) == NewEntry(id, leafId, "assistant", NoId, FALSE)
             lines == At(disk, sessionFile)
  <2>1. PICK id \in FreshIds :
          \E n \in 0..(Len(Pending(Append(fileEntries, a(id)))) - 1), torn \in {<<>>, <<Torn>>} :
            disk' = Put(disk, sessionFile,
                        AppendLines(lines, SubSeq(Pending(Append(fileEntries, a(id))), 1, n) \o torn))
    BY <1>4 DEF Kill, LinesOf, At
  <2> DEFINE e == a(id)  ls == Pending(Append(fileEntries, e))
  <2>2. PICK n \in 0..(Len(ls) - 1), torn \in {<<>>, <<Torn>>} :
          disk' = Put(disk, sessionFile, AppendLines(lines, SubSeq(ls, 1, n) \o torn))
    BY <2>1
  <2>3. /\ GoodDisk(disk) /\ flushed \in BOOLEAN /\ sessionFile \in SessionFiles \cup {NoFile}
        /\ fileEntries \in Seq(FileEntry) /\ Sound(fileEntries) /\ fileEntries # <<>> /\ fileEntries[1] \in Header
        /\ persist => Written(lines, fileEntries, flushed)
        /\ id \in Ids /\ leafId \in Ids \cup {NoId}
    BY <1>1, StoreFacts
  <2>4. e \in Entry
    BY <2>3 DEF NewEntry, Entry, Kinds
  <2> HIDE DEF a, e, lines
  <2>5. persist
    <3>1. SUFFICES ASSUME ~persist PROVE FALSE
      OBVIOUS
    <3>2. ls = <<>>
      BY <3>1 DEF Pending
    <3>3. Len(<<>>) - 1 = -1 /\ 0..(-1) = {}
      OBVIOUS
    <3> QED BY <3>2, <3>3
  <2>6. ls = IF ~HasAssistant(Append(fileEntries, e)) THEN <<>>
             ELSE IF ~flushed THEN Append(fileEntries, e) ELSE <<e>>
    <3>1. Append(fileEntries, e)[Len(Append(fileEntries, e))] = e
      <4>1. fileEntries \in Seq(FileEntry) /\ e \in FileEntry
        BY <2>3, <2>4 DEF FileEntry
      <4> QED BY <4>1, AppendProperties
    <3> QED BY <2>5, <3>1 DEF Pending
  <2> HIDE DEF ls
  <2> DEFINE r == AppendLines(lines, SubSeq(ls, 1, n) \o torn)
  <2>7. GoodLines(lines) /\ sessionFile \in SessionFiles /\ (sessionFile \in DOMAIN disk => disk[sessionFile] = lines)
    BY <2>3, <2>5, AtGood DEF persist, lines, At
  <2>8. GoodLines(r) /\ IsPrefix(WholeLines(lines), r)
    BY <2>3, <2>4, <2>5, <2>6, <2>7, KillGood
  <2>9. disk' = Put(disk, sessionFile, r)
    BY <2>2
  <2> HIDE DEF r
  <2>10. GoodDisk(disk')
    BY <2>3, <2>7, <2>8, <2>9, PutGood
  <2>11. Kept(disk, disk')
    BY <2>3, <2>7, <2>8, <2>9, KeptPut
  <2> QED BY <1>2, <2>10, <2>11, KeptGrown
<1> QED BY <1>3, <1>4

LEMMA BranchStep ==
  ASSUME StoreInv, NEW id \in IdsOf(fileEntries) \cup {NoId}, Branch(id)
  PROVE  StoreInv' /\ Grown
<1>1. /\ leafId' = id
      /\ UNCHANGED <<running, sessionFile, fileEntries, labelsById, flushed, disk>>
  BY DEF Branch
<1>2. Good(running, sessionFile, fileEntries, id, labelsById, flushed, disk)
  BY DEF StoreInv, Good, GoodMemory
<1>3. StoreInv'
  BY <1>1, <1>2 DEF StoreInv
<1> QED BY <1>1, <1>3, StoreFacts, KeptSame, KeptGrown

LEMMA InitGood ==
  ASSUME Init PROVE StoreInv
<1>1. DOMAIN disk = {} /\ disk \in [DOMAIN disk -> Seq(Line)]
  BY DEF Init
<1>2. GoodDisk(disk)
  BY <1>1 DEF GoodDisk
<1>3. GoodMemory(FALSE, NoFile, <<>>, NoId, {}, FALSE)
  BY EmptyGood DEF GoodMemory
<1>4. Good(FALSE, NoFile, <<>>, NoId, {}, FALSE, disk)
  BY <1>2, <1>3 DEF Good
<1> QED BY <1>4 DEF Init, StoreInv

LEMMA AppendsStep ==
  ASSUME StoreInv, NEW id \in FreshIds,
         \/ \E kind \in PlainKinds : AppendPlain(id, kind)
         \/ \E first \in IdsOf(fileEntries) : AppendCompaction(id, first)
         \/ \E target \in IdsOf(fileEntries), on \in BOOLEAN : AppendLabelChange(id, target, on)
         \/ \E from \in IdsOf(fileEntries) \cup {NoId} : BranchWithSummary(id, from)
  PROVE  StoreInv' /\ Grown
<1>1. leafId \in IdsOf(fileEntries) \cup {NoId} /\ IdsOf(fileEntries) \subseteq Ids
  BY StoreFacts
<1>2. ASSUME NEW kind \in PlainKinds, AppendPlain(id, kind) PROVE StoreInv' /\ Grown
  <2>1. kind \in Kinds \ {"label"} /\ NoId \in Ids \cup {NoId}
    BY KindAssumption DEF Kinds
  <2>2. /\ running /\ AppendEntry(NewEntry(id, leafId, kind, NoId, FALSE))
        /\ UNCHANGED <<running, sessionFile, labelsById, sessions>>
    BY <1>2 DEF AppendPlain
  <2> QED BY <1>1, <2>1, <2>2, AppendOther
<1>3. ASSUME NEW first \in IdsOf(fileEntries), AppendCompaction(id, first) PROVE StoreInv' /\ Grown
  <2>1. "compaction" \in Kinds \ {"label"} /\ first \in Ids \cup {NoId}
    BY <1>1 DEF Kinds
  <2>2. /\ running /\ AppendEntry(NewEntry(id, leafId, "compaction", first, FALSE))
        /\ UNCHANGED <<running, sessionFile, labelsById, sessions>>
    BY <1>3 DEF AppendCompaction
  <2> QED BY <1>1, <2>1, <2>2, AppendOther
<1>4. ASSUME NEW target \in IdsOf(fileEntries), NEW on \in BOOLEAN, AppendLabelChange(id, target, on)
      PROVE  StoreInv' /\ Grown
  BY <1>4, AppendLabelStep
<1>5. ASSUME NEW from \in IdsOf(fileEntries) \cup {NoId}, BranchWithSummary(id, from)
      PROVE  StoreInv' /\ Grown
  <2>1. "note" \in Kinds \ {"label"} /\ NoId \in Ids \cup {NoId}
    BY DEF Kinds
  <2>2. /\ running /\ AppendEntry(NewEntry(id, from, "note", NoId, FALSE))
        /\ UNCHANGED <<running, sessionFile, labelsById, sessions>>
    BY <1>5 DEF BranchWithSummary
  <2> QED BY <2>1, <2>2, AppendOther
<1> QED BY <1>2, <1>3, <1>4, <1>5

LEMMA SessionsStep ==
  ASSUME StoreInv, NEW f \in SessionFiles \cup {NoFile},
         \/ Start(f)
         \/ \E parent \in {NoFile, sessionFile} : NewSession(f, parent)
         \/ SwitchSession(f)
         \/ \E g \in DOMAIN disk : \E n \in DOMAIN disk[g] : ImportFromJsonl(g, n, f)
         \/ \E id \in IdsOf(fileEntries), position \in {"at", "before"} : Fork(id, position, f)
         \/ \E source \in DOMAIN disk : ForkFrom(source, f)
  PROVE  StoreInv' /\ Grown
<1>1. ASSUME Start(f) PROVE StoreInv' /\ Grown
  <2>1. f \in FreshFiles \cup {NoFile} /\ Fresh(f, NoFile) /\ UNCHANGED disk
    BY <1>1 DEF Start
  <2> QED BY <2>1, FreshStep
<1>2. ASSUME NEW parent \in {NoFile, sessionFile}, NewSession(f, parent) PROVE StoreInv' /\ Grown
  <2>1. f \in FreshFiles \cup {NoFile} /\ Fresh(f, parent) /\ UNCHANGED disk
    BY <1>2 DEF NewSession
  <2>2. parent \in SessionFiles \cup {NoFile}
    BY StoreFacts
  <2> QED BY <2>1, <2>2, FreshStep
<1>3. ASSUME SwitchSession(f) PROVE StoreInv' /\ Grown
  <2>1. f \in DOMAIN disk /\ Open(disk, f)
    BY <1>3 DEF SwitchSession
  <2>2. GoodDisk(disk) /\ f \in SessionFiles
    BY <2>1, StoreFacts DEF GoodDisk
  <2>3. StoreInv' /\ Kept(disk, disk')
    BY <2>1, <2>2, OpenStep
  <2> QED BY <2>3, KeptGrown
<1>4. ASSUME NEW g \in DOMAIN disk, NEW n \in DOMAIN disk[g], ImportFromJsonl(g, n, f)
      PROVE  StoreInv' /\ Grown
  BY <1>4, ImportStep
<1>5. ASSUME NEW id \in IdsOf(fileEntries), NEW position \in {"at", "before"}, Fork(id, position, f)
      PROVE  StoreInv' /\ Grown
  BY <1>5, ForkStep
<1>6. ASSUME NEW source \in DOMAIN disk, ForkFrom(source, f) PROVE StoreInv' /\ Grown
  BY <1>6, ForkFromStep
<1> QED BY <1>1, <1>2, <1>3, <1>4, <1>5, <1>6

LEMMA StutterStep ==
  ASSUME StoreInv, UNCHANGED vars
  PROVE  StoreInv' /\ Grown
<1>1. /\ running' = running /\ sessionFile' = sessionFile /\ fileEntries' = fileEntries
      /\ leafId' = leafId /\ labelsById' = labelsById /\ flushed' = flushed /\ disk' = disk
  BY DEF vars, memory
<1>2. StoreInv'
  BY <1>1 DEF StoreInv
<1>3. Kept(disk, disk')
  BY <1>1, StoreFacts, KeptSame
<1> QED BY <1>2, <1>3, KeptGrown

LEMMA NextStep ==
  ASSUME StoreInv, [Next]_vars
  PROVE  StoreInv' /\ Grown
<1>1. CASE UNCHANGED vars
  BY <1>1, StutterStep
<1>2. CASE Next
  <2>1. ASSUME NEW id \in FreshIds,
               \/ \E kind \in PlainKinds : AppendPlain(id, kind)
               \/ \E first \in IdsOf(fileEntries) : AppendCompaction(id, first)
               \/ \E target \in IdsOf(fileEntries), on \in BOOLEAN : AppendLabelChange(id, target, on)
               \/ \E from \in IdsOf(fileEntries) \cup {NoId} : BranchWithSummary(id, from)
        PROVE  StoreInv' /\ Grown
    BY <2>1, AppendsStep
  <2>2. ASSUME NEW id \in IdsOf(fileEntries) \cup {NoId}, Branch(id) PROVE StoreInv' /\ Grown
    BY <2>2, BranchStep
  <2>3. ASSUME NEW f \in SessionFiles \cup {NoFile},
               \/ Start(f)
               \/ \E parent \in {NoFile, sessionFile} : NewSession(f, parent)
               \/ SwitchSession(f)
               \/ \E g \in DOMAIN disk : \E n \in DOMAIN disk[g] : ImportFromJsonl(g, n, f)
               \/ \E id \in IdsOf(fileEntries), position \in {"at", "before"} : Fork(id, position, f)
               \/ \E source \in DOMAIN disk : ForkFrom(source, f)
        PROVE  StoreInv' /\ Grown
    BY <2>3, SessionsStep
  <2>4. CASE Kill
    BY <2>4, KillStep
  <2> QED BY <1>2, <2>1, <2>2, <2>3, <2>4 DEF Next
<1> QED BY <1>1, <1>2

-----------------------------------------------------------------------------
(* What the invariant says to a reader of the store.                       *)
LEMMA TypesFollow ==
  ASSUME StoreInv PROVE TypeOK
<1>1. labelsById \subseteq Ids
  BY StoreFacts, LabelledIds
<1>2. DOMAIN disk \subseteq SessionFiles /\ disk \in [DOMAIN disk -> Seq(Line)]
  BY StoreFacts DEF GoodDisk
<1> QED BY <1>1, <1>2, StoreFacts DEF TypeOK

LEMMA FileOfSession ==
  ASSUME StoreInv, persist
  PROVE  /\ LinesOf(sessionFile) = At(disk, sessionFile) /\ LinesOf(sessionFile) \in Seq(Line)
         /\ Written(LinesOf(sessionFile), fileEntries, flushed)
         /\ Swallowed(sessionFile) <=> HasGarbage(LinesOf(sessionFile))
<1>1. LinesOf(sessionFile) = At(disk, sessionFile)
  BY DEF LinesOf, At
<1>2. GoodLines(LinesOf(sessionFile))
  BY <1>1, StoreFacts, AtGood
<1>3. Written(LinesOf(sessionFile), fileEntries, flushed)
  BY <1>1, StoreFacts
<1>4. Swallowed(sessionFile) <=> HasGarbage(LinesOf(sessionFile))
  BY DEF Swallowed, HasGarbage
<1> QED BY <1>1, <1>2, <1>3, <1>4 DEF GoodLines

LEMMA DurableFollows ==
  ASSUME StoreInv PROVE Durable
<1> DEFINE lines == LinesOf(sessionFile)
<1>1. SUFFICES ASSUME persist, HasAssistant(fileEntries), ~Swallowed(sessionFile),
                      NEW i \in DOMAIN fileEntries
               PROVE  \E j \in DOMAIN lines : lines[j] = fileEntries[i]
  BY DEF Durable
<1>2. /\ lines \in Seq(Line) /\ Written(lines, fileEntries, flushed) /\ ~HasGarbage(lines)
      /\ fileEntries \in Seq(FileEntry)
  BY <1>1, FileOfSession, StoreFacts
<1> HIDE DEF lines
<1>3. PICK k \in 0..Len(fileEntries) : Parsed(lines) = SubSeq(fileEntries, 1, k) \o fileEntries
  BY <1>1, <1>2 DEF Written
<1> DEFINE p == Parsed(lines)
<1>4. /\ p \in Seq(FileEntry) /\ \A m \in DOMAIN p : \E j \in DOMAIN lines : p[m] = lines[j]
  BY <1>2, ParsedProps
<1>5. k + i \in DOMAIN p /\ p[k + i] = fileEntries[i]
  <2>1. Len(fileEntries) \in Nat /\ k \in Nat /\ k <= Len(fileEntries) /\ i \in 1..Len(fileEntries)
    BY <1>1, <1>2, SeqFacts
  <2>2. SubSeq(fileEntries, 1, k) \in Seq(FileEntry) /\ Len(SubSeq(fileEntries, 1, k)) = k
    <3>1. \A m \in 1..k : fileEntries[m] \in FileEntry
      BY <1>2, <2>1, SeqFacts
    <3> QED BY <2>1, <3>1, SubSeqProperties
  <2> QED BY <1>2, <1>3, <2>1, <2>2, ConcatFacts
<1> QED BY <1>4, <1>5

LEMMA ReloadFollows ==
  ASSUME StoreInv PROVE ReloadAgrees
<1>1. TypeOK
  BY TypesFollow
<1>2. fileEntries \in Seq(FileEntry) /\ Sound(fileEntries) /\ labelsById = LabelledIn(fileEntries)
  BY StoreFacts
<1>3. ParentBeforeChild
  BY <1>2 DEF Sound, ParentBeforeChild
<1> DEFINE lines == LinesOf(sessionFile)  fe == loadEntriesFromFile(lines)
<1>4. ASSUME persist, flushed, ~Swallowed(sessionFile)
      PROVE  /\ IdsOf(fe) = IdsOf(fileEntries)
             /\ \A id \in IdsOf(fe) : ById(fe, id) = ById(fileEntries, id)
             /\ LabelledIn(fe) = labelsById
  <2>1. /\ lines \in Seq(Line) /\ Written(lines, fileEntries, flushed) /\ ~HasGarbage(lines)
        /\ fileEntries # <<>> /\ fileEntries[1] \in Header
    BY <1>4, FileOfSession, StoreFacts
  <2> HIDE DEF lines
  <2>2. CASE ~HasAssistant(fileEntries)
    <3>1. Parsed(lines) = fileEntries
      BY <1>4, <2>1, <2>2 DEF Written
    <3>2. fe = fileEntries
      BY <2>1, <3>1, LoadIs
    <3> QED BY <1>2, <3>2
  <2>3. CASE HasAssistant(fileEntries)
    <3>1. PICK k \in 0..Len(fileEntries) : Parsed(lines) = SubSeq(fileEntries, 1, k) \o fileEntries
      BY <1>4, <2>1, <2>3 DEF Written
    <3>2. Parsed(lines) # <<>> /\ Parsed(lines)[1] \in Header
      BY <1>2, <2>1, <3>1, TwiceFacts
    <3>3. fe = Parsed(lines)
      BY <2>1, <3>2, LoadIs
    <3> HIDE DEF fe
    <3> QED BY <1>2, <3>1, <3>3, SameIndex
  <2> QED BY <2>2, <2>3
<1> QED BY <1>1, <1>3, <1>4 DEF ReloadAgrees

-----------------------------------------------------------------------------
(* What a fork shows.  There is one branch to an entry, and what it is     *)
(* follows from the index alone.                                           *)
LEMMA BranchUnique ==
  ASSUME NEW fe, NEW from \in IdsOf(fe), NEW p, IsBranch(p, fe, from), NEW q, IsBranch(q, fe, from)
  PROVE  p = q
<1>1. /\ p \in Seq(Entry) /\ q \in Seq(Entry) /\ Len(p) \in Nat \ {0} /\ Len(q) \in Nat \ {0}
      /\ p[Len(p)].id = from /\ q[Len(q)].id = from
  BY EmptySeq DEF IsBranch
<1> DEFINE T == {d \in Nat : d < Len(p) /\ d < Len(q) /\ p[Len(p) - d] # q[Len(q) - d]}
<1>2. T = {}
  <2>1. SUFFICES ASSUME T # {} PROVE FALSE
    OBVIOUS
  <2>2. PICK d \in T : \A l \in T : d <= l
    BY <2>1, Least
  <2>3. d \in Nat /\ d < Len(p) /\ d < Len(q) /\ Len(p) - d \in 1..Len(p) /\ Len(q) - d \in 1..Len(q)
    BY <1>1, <2>2
  <2>4. p[Len(p) - d].id = q[Len(q) - d].id
    <3>1. CASE d = 0
      BY <1>1, <3>1
    <3>2. CASE d # 0
      <4>1. d - 1 \in Nat /\ d - 1 < Len(p) /\ d - 1 < Len(q) /\ ~(d <= d - 1)
        BY <2>3, <3>2
      <4>2. d - 1 \notin T
        <5> HIDE DEF T
        <5> QED BY <2>2, <4>1
      <4>3. p[Len(p) - (d - 1)] = q[Len(q) - (d - 1)]
        BY <4>1, <4>2
      <4>4. /\ Len(p) - (d - 1) \in 1..Len(p) /\ Len(p) - (d - 1) # 1 /\ Len(p) - (d - 1) - 1 = Len(p) - d
            /\ Len(q) - (d - 1) \in 1..Len(q) /\ Len(q) - (d - 1) # 1 /\ Len(q) - (d - 1) - 1 = Len(q) - d
        BY <1>1, <2>3, <3>2
      <4>5. p[Len(p) - (d - 1)].parentId = p[Len(p) - d].id
        BY <4>4 DEF IsBranch
      <4>6. q[Len(q) - (d - 1)].parentId = q[Len(q) - d].id
        BY <4>4 DEF IsBranch
      <4> QED BY <4>3, <4>5, <4>6
    <3> QED BY <3>1, <3>2
  <2>5. p[Len(p) - d] = ById(fe, p[Len(p) - d].id) /\ q[Len(q) - d] = ById(fe, q[Len(q) - d].id)
    BY <2>3 DEF IsBranch
  <2>6. p[Len(p) - d] # q[Len(q) - d]
    BY <2>2
  <2> QED BY <2>4, <2>5, <2>6
<1>3. \A d \in Nat : d < Len(p) /\ d < Len(q) => p[Len(p) - d] = q[Len(q) - d]
  BY <1>2
<1> HIDE DEF T
<1>4. ~(Len(p) < Len(q))
  <2>1. SUFFICES ASSUME Len(p) < Len(q) PROVE FALSE
    OBVIOUS
  <2> DEFINE d == Len(p) - 1  j == Len(q) - d
  <2>2. d \in Nat /\ d < Len(p) /\ d < Len(q) /\ Len(p) - d = 1 /\ j \in 1..Len(q) /\ j # 1 /\ j - 1 \in 1..Len(q)
        /\ 1 \in 1..Len(p)
    BY <1>1, <2>1
  <2>3. p[1] = q[j]
    BY <1>3, <2>2
  <2> HIDE DEF d, j
  <2>4. p[1].parentId \notin IdsOf(fe) /\ q[j].parentId = q[j - 1].id /\ q[j - 1].id \in IdsOf(fe)
    BY <2>2 DEF IsBranch
  <2> QED BY <2>3, <2>4
<1>5. ~(Len(q) < Len(p))
  <2>1. SUFFICES ASSUME Len(q) < Len(p) PROVE FALSE
    OBVIOUS
  <2> DEFINE d == Len(q) - 1  j == Len(p) - d
  <2>2. d \in Nat /\ d < Len(q) /\ d < Len(p) /\ Len(q) - d = 1 /\ j \in 1..Len(p) /\ j # 1 /\ j - 1 \in 1..Len(p)
        /\ 1 \in 1..Len(q)
    BY <1>1, <2>1
  <2>3. q[1] = p[j]
    BY <1>3, <2>2
  <2> HIDE DEF d, j
  <2>4. q[1].parentId \notin IdsOf(fe) /\ p[j].parentId = p[j - 1].id /\ p[j - 1].id \in IdsOf(fe)
    BY <2>2 DEF IsBranch
  <2> QED BY <2>3, <2>4
<1>6. Len(p) = Len(q)
  BY <1>1, <1>4, <1>5
<1>7. ASSUME NEW i \in 1..Len(p) PROVE p[i] = q[i]
  <2>1. Len(p) - i \in Nat /\ Len(p) - i < Len(p) /\ Len(p) - (Len(p) - i) = i
    BY <1>1
  <2> QED BY <1>3, <1>6, <2>1
<1> QED BY <1>1, <1>6, <1>7, SeqEqual

LEMMA SameBranch ==
  ASSUME NEW fe \in Seq(FileEntry), Sound(fe), NEW s \in Seq(FileEntry), Sound(s), IdsOf(s) = IdsOf(fe),
         \A id \in IdsOf(s) : ById(s, id) = ById(fe, id), NEW from \in IdsOf(fe)
  PROVE  getBranch(s, from) = getBranch(fe, from)
<1>1. IsBranch(getBranch(s, from), s, from) /\ IsBranch(getBranch(fe, from), fe, from)
  BY BranchIs
<1>2. IsBranch(getBranch(s, from), fe, from)
  BY <1>1 DEF IsBranch
<1> QED BY <1>1, <1>2, BranchUnique

(* Without the label entries behind it a path without labels is itself.    *)
LEMMA WithoutLabelsIs ==
  ASSUME NEW p \in Seq(Entry), NEW L \in Seq(Entry), \A n \in DOMAIN p : ~IsLabel(p[n]),
         \A n \in DOMAIN L : IsLabel(L[n])
  PROVE  WithoutLabels(p \o L) = p /\ WithoutLabels(p) = p
<1> DEFINE w == p \o L
<1>1. /\ Len(p) \in Nat /\ Len(L) \in Nat /\ DOMAIN p = 1..Len(p) /\ DOMAIN L = 1..Len(L)
  BY SeqFacts
<1>2. /\ w \in Seq(Entry) /\ DOMAIN w = 1..(Len(p) + Len(L))
      /\ \A i \in 1..(Len(p) + Len(L)) : w[i] = IF i <= Len(p) THEN p[i] ELSE L[i - Len(p)]
      /\ \A i \in 1..Len(p) : w[i] = p[i]
  BY ConcatFacts
<1> HIDE DEF w
<1>3. ElementsAt(p, 1..Len(p)) = p
  <2> DEFINE I == 1..Len(p)  e == ElementsAt(p, I)
  <2>1. Cardinality(I) = Len(p) /\ Within(I, Len(p)) /\ \A j \in I : j \in 1..Len(p)
    <3>1. Cardinality(1..Len(p)) = Len(p)
      <4> DEFINE b == Len(p)
      <4>1. b \in Nat
        BY <1>1
      <4> HIDE DEF b
      <4>2. Cardinality(1..b) = b
        BY <4>1, FS_Interval
      <4> QED BY <4>2 DEF b
    <3> QED BY <3>1 DEF Within
  <2>2. ASSUME NEW k \in 1..Len(p) PROVE Place(I, k) = k
    <3>1. UpTo(I, k) = 1..k
      BY <1>1 DEF UpTo
    <3>2. Cardinality(1..k) = k
      BY <1>1, FS_Interval
    <3>3. k \in I
      OBVIOUS
    <3> HIDE DEF I
    <3>4. Place(I, Cardinality(UpTo(I, k))) = k
      BY <1>1, <2>1, <3>3, PlaceIs
    <3> QED BY <3>1, <3>2, <3>4
  <2> HIDE DEF I
  <2>3. e \in Seq(Entry) /\ Len(e) = Cardinality(I) /\ \A k \in 1..Cardinality(I) : e[k] = p[Place(I, k)]
    BY <2>1, ElementsAtProps
  <2> HIDE DEF e
  <2>4. e = p
    BY <1>1, <2>1, <2>2, <2>3, SeqEqual
  <2> QED BY <2>4 DEF e, I
<1>4. {n \in DOMAIN p : ~IsLabel(p[n])} = 1..Len(p)
  BY <1>1
<1>5. {n \in DOMAIN w : ~IsLabel(w[n])} = 1..Len(p)
  <2>1. ASSUME NEW n \in DOMAIN w PROVE ~IsLabel(w[n]) <=> n \in 1..Len(p)
    <3>1. CASE n <= Len(p)
      BY <1>1, <1>2, <3>1
    <3>2. CASE ~(n <= Len(p))
      <4>1. n - Len(p) \in DOMAIN L /\ n \notin 1..Len(p)
        BY <1>1, <1>2, <3>2
      <4>2. w[n] = L[n - Len(p)]
        BY <1>2, <3>2
      <4> QED BY <4>1, <4>2
    <3> QED BY <3>1, <3>2
  <2>2. 1..Len(p) \subseteq DOMAIN w
    BY <1>1, <1>2
  <2> QED BY <2>1, <2>2
<1>6. ElementsAt(w, 1..Len(p)) = ElementsAt(p, 1..Len(p))
  <2>1. Within(1..Len(p), Len(p))
    BY DEF Within
  <2> QED BY <1>2, <2>1, ElementsAtSame
<1> QED BY <1>3, <1>4, <1>5, <1>6 DEF WithoutLabels, w

(* One list of entries behind another.                                     *)
LEMMA ConcatEntries ==
  ASSUME NEW s \in Seq(Entry), NEW t \in Seq(Entry), NEW b, NEW c, b = Len(s), c = Len(t)
  PROVE  /\ s \o t \in Seq(Entry) /\ Len(s \o t) = b + c
         /\ \A i \in 1..(b + c) : (s \o t)[i] = IF i <= b THEN s[i] ELSE t[i - b]
         /\ \A i \in 1..b : (s \o t)[i] = s[i]
         /\ \A i \in 1..c : (s \o t)[b + i] = t[i]
<1> DEFINE E == Entry
<1>1. s \in Seq(E) /\ t \in Seq(E)
  OBVIOUS
<1> HIDE DEF E
<1>2. /\ s \o t \in Seq(E) /\ Len(s \o t) = Len(s) + Len(t)
      /\ \A i \in 1..(Len(s) + Len(t)) : (s \o t)[i] = IF i <= Len(s) THEN s[i] ELSE t[i - Len(s)]
      /\ \A i \in 1..Len(s) : (s \o t)[i] = s[i]
      /\ \A i \in 1..Len(t) : (s \o t)[Len(s) + i] = t[i]
  BY <1>1, ConcatFacts
<1> QED BY <1>2 DEF E

(* A path with labels at its end only is a path without labels and the     *)
(* labels behind it; the former is the branch to its last entry.           *)
SplitAs(p, v, t) ==
  /\ v \in Seq(Entry) /\ t \in Seq(Entry) /\ p = v \o t /\ v # <<>>
  /\ \A n \in DOMAIN v : ~IsLabel(v[n])
  /\ \A n \in DOMAIN t : IsLabel(t[n])

LEMMA LabelsSplit ==
  ASSUME NEW p \in Seq(Entry), p # <<>>, LabelsLast(p)
  PROVE  \E v, t : SplitAs(p, v, t)
<1> DEFINE l == Len(p)  T == {i \in Nat : 1 <= i /\ (i = l + 1 \/ (i <= l /\ IsLabel(p[i])))}
<1>1. l \in Nat \ {0} /\ DOMAIN p = 1..l /\ \A i \in 1..l : p[i] \in Entry
  BY SeqFacts, EmptySeq
<1>2. PICK m \in T : \A i \in T : m <= i
  <2>1. l + 1 \in T
    BY <1>1
  <2> QED BY <2>1, Least
<1>3. m \in Nat /\ 2 <= m /\ m <= l + 1
  <2>1. m # 1
    BY <1>1, <1>2 DEF LabelsLast
  <2> QED BY <1>1, <1>2, <2>1
<1>4. \A i \in 1..(m - 1) : i \in 1..l /\ ~IsLabel(p[i])
  BY <1>1, <1>2, <1>3
<1>5. \A i \in 1..(l - (m - 1)) : (m - 1) + i \in 1..l /\ IsLabel(p[(m - 1) + i])
  <2>1. ASSUME NEW i \in 1..(l - (m - 1)) PROVE (m - 1) + i \in 1..l /\ IsLabel(p[(m - 1) + i])
    <3>1. (m - 1) + i \in 1..l /\ m \in 1..l /\ ((m - 1) + i = m \/ m < (m - 1) + i)
      BY <1>1, <1>3
    <3>2. IsLabel(p[m])
      BY <1>1, <1>2, <3>1
    <3> QED BY <1>1, <3>1, <3>2 DEF LabelsLast
  <2> QED BY <2>1
<1> DEFINE v == [i \in 1..(m - 1) |-> p[i]]  t == [i \in 1..(l - (m - 1)) |-> p[(m - 1) + i]]
<1>6. m - 1 \in Nat \ {0} /\ l - (m - 1) \in Nat
  BY <1>1, <1>3
<1> HIDE DEF l
<1>7. v \in Seq(Entry) /\ Len(v) = m - 1 /\ DOMAIN v = 1..(m - 1)
  <2> DEFINE k == m - 1
  <2>1. v \in [1..k -> Entry] /\ k \in Nat
    BY <1>1, <1>4, <1>6
  <2> HIDE DEF k, v
  <2>2. v \in Seq(Entry)
    BY <2>1, SeqDef
  <2>3. Len(v) = k /\ DOMAIN v = 1..k
    BY <2>1, <2>2, LenProperties
  <2> QED BY <2>2, <2>3 DEF k
<1>8. t \in Seq(Entry) /\ Len(t) = l - (m - 1) /\ DOMAIN t = 1..(l - (m - 1))
  <2> DEFINE k == l - (m - 1)
  <2>1. t \in [1..k -> Entry] /\ k \in Nat
    BY <1>1, <1>5, <1>6
  <2> HIDE DEF k, t
  <2>2. t \in Seq(Entry)
    BY <2>1, SeqDef
  <2>3. Len(t) = k /\ DOMAIN t = 1..k
    BY <2>1, <2>2, LenProperties
  <2> QED BY <2>2, <2>3 DEF k
<1>9. (\A i \in 1..(m - 1) : v[i] = p[i]) /\ \A i \in 1..(l - (m - 1)) : t[i] = p[(m - 1) + i]
  OBVIOUS
<1> HIDE DEF v, t
<1>10. p = v \o t
  <2>1. /\ v \o t \in Seq(Entry) /\ Len(v \o t) = (m - 1) + (l - (m - 1))
        /\ \A i \in 1..((m - 1) + (l - (m - 1))) : (v \o t)[i] = IF i <= m - 1 THEN v[i] ELSE t[i - (m - 1)]
    <3> DEFINE b == m - 1  c == l - (m - 1)
    <3>1. v \in Seq(Entry) /\ t \in Seq(Entry) /\ b = Len(v) /\ c = Len(t)
      BY <1>7, <1>8
    <3> HIDE DEF b, c
    <3>2. /\ v \o t \in Seq(Entry) /\ Len(v \o t) = b + c
          /\ \A i \in 1..(b + c) : (v \o t)[i] = IF i <= b THEN v[i] ELSE t[i - b]
      BY <3>1, ConcatEntries
    <3> QED BY <3>2 DEF b, c
  <2>2. ASSUME NEW i \in 1..l PROVE p[i] = (v \o t)[i]
    <3>1. CASE i <= m - 1
      BY <1>1, <1>6, <1>9, <2>1, <3>1
    <3>2. CASE ~(i <= m - 1)
      <4>1. i - (m - 1) \in 1..(l - (m - 1)) /\ (m - 1) + (i - (m - 1)) = i
        BY <1>1, <1>6, <3>2
      <4> QED BY <1>1, <1>6, <1>9, <2>1, <3>2, <4>1
    <3> QED BY <3>1, <3>2
  <2>3. Len(v \o t) = l
    BY <1>1, <1>6, <2>1
  <2> HIDE DEF l
  <2>4. Len(p) = Len(v \o t)
    BY <2>3 DEF l
  <2> QED BY <2>1, <2>2, <2>4, SeqEqual DEF l
<1>11. v # <<>>
  BY <1>6, <1>7, EmptySeq
<1>12. \A i \in DOMAIN v : ~IsLabel(v[i])
  BY <1>4, <1>7, <1>9
<1>13. \A i \in DOMAIN t : IsLabel(t[i])
  BY <1>5, <1>8, <1>9
<1>14. SplitAs(p, v, t)
  BY <1>7, <1>8, <1>10, <1>11, <1>12, <1>13, Zenon DEF SplitAs
<1> QED BY <1>14

LEMMA BranchSplit ==
  ASSUME NEW fe \in Seq(FileEntry), NEW from \in IdsOf(fe), NEW p, IsBranch(p, fe, from),
         NEW v, NEW t, SplitAs(p, v, t)
  PROVE  IsBranch(v, fe, v[Len(v)].id) /\ v[Len(v)].id \in IdsOf(fe)
<1>1. /\ v \in Seq(Entry) /\ v # <<>> /\ Len(v) \in Nat \ {0} /\ Len(t) \in Nat /\ Len(p) = Len(v) + Len(t)
      /\ \A i \in 1..Len(v) : p[i] = v[i]
  BY SeqFacts, ConcatFacts, EmptySeq DEF SplitAs
<1>2. \A i \in 1..Len(v) : i \in 1..Len(p) /\ (i # 1 => i - 1 \in 1..Len(v))
  BY <1>1
<1>3. Len(v) \in 1..Len(v)
  BY <1>1
<1>4. /\ \A n \in 1..Len(v) : v[n].id \in IdsOf(fe) /\ v[n] = ById(fe, v[n].id)
      /\ \A n \in 1..Len(v) : n # 1 => v[n].parentId = v[n - 1].id
      /\ \A n \in 1..Len(v) : n = 1 => v[n].parentId \notin IdsOf(fe)
  BY <1>1, <1>2 DEF IsBranch
<1> QED BY <1>1, <1>3, <1>4 DEF IsBranch

(* What createBranchedSession puts behind the path: label entries, in a    *)
(* chain, with new ids, one for each label.                                *)
LabelsBehind(L, p) ==
  /\ L \in Seq(Entry)
  /\ \A n \in 1..Len(L) :
       /\ L[n].kind = "label" /\ L[n].on /\ L[n].id \in FreshIds
       /\ n # 1 => L[n].parentId = L[n - 1].id
       /\ n = 1 => L[n].parentId = p[Len(p)].id
  /\ \A n, m \in 1..Len(L) : L[n].ref = L[m].ref => n = m

BranchedAs(s, fe, p, parent, L) ==
  /\ s = <<NewHeader(parent)>> \o (p \o L) /\ LabelsBehind(L, p)
  /\ \A x : x \in LabelledIn(fe) \cap IdsOf(p) <=> \E n \in 1..Len(L) : L[n].ref = x
ShownAs(s, p, L) ==
  /\ IsBranch(p \o L, s, LastId(s)) /\ LastId(s) \in IdsOf(s)
  /\ \A x : x \in LabelledIn(s) <=> \E n \in 1..Len(L) : L[n].ref = x

LEMMA BranchedIs ==
  ASSUME NEW fe \in Seq(FileEntry), Sound(fe), NEW leaf \in IdsOf(fe),
         NEW p, NEW t, SplitAs(getBranch(fe, leaf), p, t),
         NEW parent \in SessionFiles \cup {NoFile}, NEW s \in Branched(fe, leaf, parent)
  PROVE  \E L : BranchedAs(s, fe, p, parent, L)
<1> DEFINE h == NewHeader(parent)  labelled == LabelledIn(fe) \cap IdsOf(p)  c == Cardinality(labelled)
<1>1. /\ IsBranch(p, fe, p[Len(p)].id) /\ p \in Seq(Entry) /\ p # <<>> /\ p \in Seq(FileEntry)
  <2>1. IsBranch(getBranch(fe, leaf), fe, leaf)
    BY BranchIs
  <2>2. IsBranch(p, fe, p[Len(p)].id)
    BY <2>1, BranchSplit
  <2>3. p \in Seq(FileEntry)
    BY <2>2, BranchSound
  <2> QED BY <2>2, <2>3 DEF SplitAs
<1>2. WithoutLabels(getBranch(fe, leaf)) = p
  BY WithoutLabelsIs DEF SplitAs
<1>3. PICK targets \in Orderings(labelled), ids \in FreshLists(c) :
             s = <<h>> \o p \o LabelEntries(p, targets, ids)
  <2>1. s \in WithLabels(p, labelled, parent)
    BY <1>2 DEF Branched
  <2> HIDE DEF labelled
  <2> QED BY <2>1 DEF WithLabels
<1>4. c \in Nat /\ IsFiniteSet(labelled) /\ labelled \subseteq Ids
  BY <1>1, FiniteIds, LabelledIds
<1> HIDE DEF labelled, c
<1>5. targets \in [1..c -> labelled] /\ IsInjective(targets)
  BY <1>3 DEF Orderings, c
<1>6. \A n, m \in 1..c : targets[n] = targets[m] => n = m
  BY <1>5 DEF IsInjective
<1>7. \A x \in labelled : \E n \in 1..c : targets[n] = x
  <2>1. targets \in Injection(1..c, labelled)
    BY <1>5, <1>6 DEF Injection
  <2>2. IsFiniteSet(1..c) /\ Cardinality(1..c) = c
    BY <1>4, FS_Interval
  <2>3. targets \in Surjection(1..c, labelled)
    BY <1>4, <2>1, <2>2, FS_Injection DEF c
  <2> QED BY <2>3 DEF Surjection
<1>8. ids \in [1..c -> FreshIds] /\ FreshIds \subseteq Ids
  <2>1. PICK S \in SUBSET FreshIds : ids \in [1..c -> S]
    BY <1>3 DEF Orderings, FreshLists
  <2> QED BY <2>1 DEF FreshIds
<1> DEFINE L == LabelEntries(p, targets, ids)
<1>9. DOMAIN L = 1..c
  <2>1. targets \in Seq(labelled) /\ DOMAIN targets = 1..c
    BY <1>4, <1>5, SeqDef
  <2>2. Len(targets) = c
    BY <1>4, <2>1, LenProperties
  <2> QED BY <2>2 DEF LabelEntries
<1>10. p[Len(p)].id \in Ids
  BY <1>1, EmptySeq, SeqFacts, LineKinds
<1>11. ASSUME NEW n \in 1..c
       PROVE  /\ L[n] \in Entry /\ L[n].id = ids[n] /\ L[n].kind = "label" /\ L[n].on /\ L[n].ref = targets[n]
              /\ L[n].parentId = IF n > 1 THEN ids[n - 1] ELSE p[Len(p)].id
              /\ n > 1 => n - 1 \in 1..c
  <2> DEFINE par == IF n > 1 THEN ids[n - 1] ELSE p[Len(p)].id
  <2>1. L[n] = NewEntry(ids[n], par, "label", targets[n], TRUE)
    BY <1>1, <1>9 DEF LabelEntries
  <2>2. ids[n] \in Ids /\ targets[n] \in Ids /\ (n > 1 => n - 1 \in 1..c)
    BY <1>4, <1>5, <1>8
  <2>3. n > 1 => ids[n - 1] \in Ids
    BY <1>8, <2>2
  <2>4. par \in Ids
    BY <1>10, <2>3
  <2> HIDE DEF par, L
  <2>5. "label" \in Kinds
    BY DEF Kinds
  <2>6. /\ L[n] \in Entry /\ L[n].id = ids[n] /\ L[n].parentId = par /\ L[n].kind = "label"
        /\ L[n].ref = targets[n] /\ L[n].on = TRUE
    BY <2>1, <2>2, <2>4, <2>5 DEF NewEntry, Entry
  <2> QED BY <2>2, <2>6 DEF par
<1>12. L \in Seq(Entry) /\ Len(L) = c
  <2>1. L = [n \in 1..c |-> L[n]]
    BY <1>9 DEF LabelEntries
  <2> HIDE DEF L
  <2>2. L \in [1..c -> Entry]
    BY <1>11, <2>1
  <2>3. L \in Seq(Entry)
    BY <1>4, <2>2, SeqDef
  <2> QED BY <1>4, <1>9, <2>3, LenProperties
<1> HIDE DEF L
<1>13. s = <<h>> \o (p \o L)
  <2>1. h \in Header
    BY DEF NewHeader, Header
  <2>2. <<h>> \in Seq(FileEntry)
    BY <2>1 DEF FileEntry
  <2>3. L \in Seq(FileEntry)
    BY <1>12, SeqMonotonic DEF FileEntry
  <2>4. s = (<<h>> \o p) \o L
    BY <1>3 DEF L
  <2> HIDE DEF h
  <2> QED BY <1>1, <2>2, <2>3, <2>4, ConcatThree
<1>14. LabelsBehind(L, p)
  <2>1. \A n \in 1..c : n # 1 => L[n].parentId = L[n - 1].id
    <3>1. ASSUME NEW n \in 1..c, n # 1 PROVE L[n].parentId = L[n - 1].id
      <4>1. n > 1
        BY <1>4, <3>1
      <4> QED BY <1>11, <4>1
    <3> QED BY <3>1
  <2>2. \A n \in 1..c : n = 1 => L[n].parentId = p[Len(p)].id
    BY <1>11
  <2>3. \A n, m \in 1..c : L[n].ref = L[m].ref => n = m
    BY <1>6, <1>11
  <2> QED BY <1>8, <1>11, <1>12, <2>1, <2>2, <2>3 DEF LabelsBehind
<1>15. \A x : x \in labelled <=> \E n \in 1..c : L[n].ref = x
  BY <1>5, <1>7, <1>11
<1>16. BranchedAs(s, fe, p, parent, L)
  BY <1>12, <1>13, <1>14, <1>15 DEF h, labelled, BranchedAs
<1> QED BY <1>16

(* The branch to the last entry of what createBranchedSession leaves is    *)
(* the path with the label entries behind it, and its labels are theirs.   *)
LEMMA BranchedShows ==
  ASSUME NEW fe \in Seq(FileEntry), \A id \in FreshIds : id \notin Mentioned(fe),
         NEW leaf \in IdsOf(fe), NEW p, IsBranch(p, fe, leaf), \A n \in DOMAIN p : ~IsLabel(p[n]),
         NEW h \in Header, NEW L, LabelsBehind(L, p),
         NEW s, s = <<h>> \o (p \o L), s \in Seq(FileEntry), Sound(s)
  PROVE  ShownAs(s, p, L)
<1> DEFINE w == p \o L  b == Len(p)  c == Len(L)
<1>1. /\ p \in Seq(Entry) /\ L \in Seq(Entry) /\ b \in Nat \ {0} /\ c \in Nat
      /\ DOMAIN p = 1..b /\ \A n \in 1..b : p[n] \in Entry /\ p[n].id \in IdsOf(fe) /\ p[n].kind # "label"
      /\ \A n \in 1..c : L[n] \in Entry
  <2>1. p \in Seq(Entry) /\ L \in Seq(Entry) /\ p # <<>>
    BY DEF IsBranch, LabelsBehind
  <2>2. b \in Nat \ {0} /\ c \in Nat /\ DOMAIN p = 1..b
    BY <2>1, SeqFacts, EmptySeq
  <2>3. \A n \in 1..b : p[n].id \in IdsOf(fe) /\ p[n].kind # "label"
    BY <2>2 DEF IsBranch, IsLabel
  <2> QED BY <2>1, <2>2, <2>3, SeqFacts
<1>2. /\ w \in Seq(Entry) /\ Len(w) = b + c
      /\ \A i \in 1..b : w[i] = p[i]
      /\ \A i \in 1..c : w[b + i] = L[i]
      /\ \A i \in 1..(b + c) : w[i] = IF i <= b THEN p[i] ELSE L[i - b]
  <2>1. /\ p \o L \in Seq(Entry) /\ Len(p \o L) = b + c
        /\ \A i \in 1..b : (p \o L)[i] = p[i]
        /\ \A i \in 1..c : (p \o L)[b + i] = L[i]
        /\ \A i \in 1..(b + c) : (p \o L)[i] = IF i <= b THEN p[i] ELSE L[i - b]
    <3>1. p \in Seq(Entry) /\ L \in Seq(Entry) /\ b = Len(p) /\ c = Len(L)
      BY <1>1
    <3> HIDE DEF b, c
    <3> QED BY <3>1, ConcatEntries
  <2> QED BY <2>1
<1>3. /\ s \in Seq(FileEntry) /\ Len(s) = 1 + (b + c) /\ DOMAIN s = 1..(1 + (b + c))
      /\ s[1] = h /\ \A i \in 1..(b + c) : s[1 + i] = w[i]
  <2> DEFINE u == w  o == <<h>>
  <2>1. u \in Seq(FileEntry) /\ Len(u) = b + c
    BY <1>2, SeqMonotonic DEF FileEntry
  <2>2. o \in Seq(FileEntry) /\ Len(o) = 1 /\ o[1] = h
    BY DEF FileEntry
  <2>3. s = o \o u
    OBVIOUS
  <2> HIDE DEF u, o
  <2>4. /\ Len(o \o u) = Len(o) + Len(u) /\ DOMAIN (o \o u) = 1..(Len(o) + Len(u))
        /\ \A i \in 1..Len(o) : (o \o u)[i] = o[i]
        /\ \A i \in 1..Len(u) : (o \o u)[Len(o) + i] = u[i]
    <3>1. o \in Seq(FileEntry) /\ u \in Seq(FileEntry)
      BY <2>1, <2>2
    <3> QED BY <3>1, ConcatFacts
  <2>5. 1 \in 1..1
    OBVIOUS
  <2> QED BY <2>1, <2>2, <2>3, <2>4, <2>5 DEF u
<1>4. \A i \in 1..(b + c) : w[i] \in Entry /\ w[i].kind \in Kinds
  BY <1>2, SeqFacts, LineKinds
<1> HIDE DEF w, b, c
<1>5. \A j : j \in EntryAt(s) <=> \E i \in 1..(b + c) : j = 1 + i
  <2>1. ASSUME NEW j \in EntryAt(s) PROVE \E i \in 1..(b + c) : j = 1 + i
    <3>1. j \in 1..(1 + (b + c)) /\ s[j].kind \in Kinds
      BY <1>3 DEF EntryAt
    <3>2. j # 1
      BY <1>3, <3>1, LineKinds
    <3>3. j - 1 \in 1..(b + c) /\ j = 1 + (j - 1)
      BY <1>1, <3>1, <3>2
    <3> QED BY <3>3
  <2>2. ASSUME NEW i \in 1..(b + c) PROVE 1 + i \in EntryAt(s)
    <3>1. 1 + i \in 1..(1 + (b + c))
      BY <1>1
    <3> QED BY <1>3, <1>4, <3>1 DEF EntryAt
  <2> QED BY <2>1, <2>2
<1>6. \A id : id \in IdsOf(s) <=> \E i \in 1..(b + c) : id = w[i].id
  <2>1. ASSUME NEW id \in IdsOf(s) PROVE \E i \in 1..(b + c) : id = w[i].id
    <3>1. PICK j \in EntryAt(s) : id = s[j].id
      BY DEF IdsOf
    <3>2. PICK i \in 1..(b + c) : j = 1 + i
      BY <1>5
    <3> QED BY <1>3, <3>1, <3>2
  <2>2. ASSUME NEW i \in 1..(b + c) PROVE w[i].id \in IdsOf(s)
    <3>1. 1 + i \in EntryAt(s) /\ s[1 + i] = w[i]
      BY <1>3, <1>5
    <3>2. s[1 + i].id \in IdsOf(s)
      BY <3>1 DEF IdsOf
    <3> QED BY <3>1, <3>2
  <2> QED BY <2>1, <2>2
<1>7. ASSUME NEW i \in 1..(b + c) PROVE ById(s, w[i].id) = w[i]
  <2>1. w[i].id \in IdsOf(s)
    BY <1>6
  <2>2. PICK j \in EntryAt(s) : s[j].id = w[i].id /\ ById(s, w[i].id) = s[j]
    BY <1>3, <2>1, ByIdIs
  <2>3. 1 + i \in EntryAt(s) /\ s[1 + i] = w[i]
    BY <1>3, <1>5
  <2>4. s[j].id = s[1 + i].id
    BY <2>2, <2>3
  <2>5. s[j] = s[1 + i]
    BY <2>2, <2>3, <2>4 DEF Sound
  <2> QED BY <2>2, <2>3, <2>5
<1>8. ASSUME NEW i \in 1..(b + c), i # 1 PROVE w[i].parentId = w[i - 1].id
  <2>1. CASE i <= b
    <3>1. i \in 1..b /\ i - 1 \in 1..b
      BY <1>1, <1>8, <2>1
    <3>2. p[i].parentId = p[i - 1].id
      BY <1>8, <3>1 DEF IsBranch, b
    <3> QED BY <1>2, <3>1, <3>2
  <2>2. CASE i = b + 1
    <3>1. 1 \in 1..c /\ i = b + 1 /\ i - 1 = b /\ b \in 1..b
      BY <1>1, <2>2
    <3>2. w[i] = L[1] /\ w[i - 1] = p[b]
      BY <1>2, <3>1
    <3> QED BY <3>1, <3>2 DEF LabelsBehind, b, c
  <2>3. CASE i > b + 1
    <3> DEFINE n == i - b
    <3>1. n \in 1..c /\ n # 1 /\ n - 1 \in 1..c /\ i = b + n /\ i - 1 = b + (n - 1)
      BY <1>1, <2>3
    <3> HIDE DEF n
    <3>2. w[i] = L[n] /\ w[i - 1] = L[n - 1]
      BY <1>2, <3>1
    <3> QED BY <3>1, <3>2 DEF LabelsBehind, c
  <2> QED BY <1>1, <2>1, <2>2, <2>3
<1>9. w[1].parentId \notin IdsOf(s)
  <2>1. 1 \in 1..b /\ w[1] = p[1] /\ p[1].parentId \notin IdsOf(fe) /\ p[1].id \in IdsOf(fe) /\ p[1] = ById(fe, p[1].id)
    <3>1. 1 \in 1..b
      BY <1>1
    <3> QED BY <1>2, <3>1 DEF IsBranch, b
  <2>2. p[1].parentId \in Mentioned(fe)
    <3>1. PICK j \in EntryAt(fe) : p[1] = fe[j]
      BY <2>1, ByIdIs
    <3> QED BY <3>1 DEF Mentioned
  <2>3. ASSUME NEW i \in 1..(b + c) PROVE p[1].parentId # w[i].id
    <3>1. CASE i <= b
      <4>1. i \in 1..b
        BY <1>1, <3>1
      <4> QED BY <1>1, <1>2, <2>1, <4>1
    <3>2. CASE ~(i <= b)
      <4>1. i - b \in 1..c /\ w[i] = L[i - b]
        BY <1>1, <1>2, <3>2
      <4>2. L[i - b].id \in FreshIds
        BY <4>1 DEF LabelsBehind, c
      <4> QED BY <2>2, <4>1, <4>2
    <3> QED BY <3>1, <3>2
  <2> QED BY <1>6, <2>1, <2>3
<1>10. LastId(s) = w[b + c].id
  <2> DEFINE last == CHOOSE i \in EntryAt(s) : \A j \in EntryAt(s) : j <= i
  <2>1. b + c \in 1..(b + c) /\ \A i \in 1..(b + c) : 1 + i <= 1 + (b + c)
    BY <1>1
  <2>2. 1 + (b + c) \in EntryAt(s) /\ \A j \in EntryAt(s) : j <= 1 + (b + c)
    BY <1>5, <2>1
  <2>3. last \in EntryAt(s) /\ \A j \in EntryAt(s) : j <= last
    BY <2>2
  <2>4. LastId(s) = s[last].id
    BY <2>2 DEF LastId
  <2> HIDE DEF last
  <2>5. last = 1 + (b + c)
    <3>1. PICK i \in 1..(b + c) : last = 1 + i
      BY <1>5, <2>3
    <3>2. last <= 1 + (b + c) /\ 1 + (b + c) <= last
      BY <2>2, <2>3
    <3> QED BY <1>1, <3>1, <3>2
  <2> QED BY <1>3, <2>1, <2>4, <2>5
<1>11. LastId(s) \in IdsOf(s) /\ w # <<>>
  <2>1. b + c \in 1..(b + c) /\ Len(w) # 0
    BY <1>1, <1>2
  <2> QED BY <1>2, <1>6, <1>10, <2>1, EmptySeq
<1>12. IsBranch(w, s, LastId(s))
  BY <1>2, <1>6, <1>7, <1>8, <1>9, <1>10, <1>11 DEF IsBranch
<1>13. ASSUME NEW x
       PROVE  \A j : Labels(s, j, x) <=> \E n \in 1..c : j = 1 + (b + n) /\ L[n].ref = x
  <2>1. ASSUME NEW j, Labels(s, j, x) PROVE \E n \in 1..c : j = 1 + (b + n) /\ L[n].ref = x
    <3>1. PICK i \in 1..(b + c) : j = 1 + i
      BY <1>5, <2>1 DEF Labels
    <3>2. w[i].kind = "label" /\ w[i].ref = x
      BY <1>3, <2>1, <3>1 DEF Labels
    <3>3. ~(i <= b)
      <4>1. i <= b => i \in 1..b
        BY <1>1
      <4> QED BY <1>1, <1>2, <3>2, <4>1
    <3>4. i - b \in 1..c /\ w[i] = L[i - b] /\ j = 1 + (b + (i - b))
      BY <1>1, <1>2, <3>1, <3>3
    <3> QED BY <3>2, <3>4
  <2>2. ASSUME NEW n \in 1..c, L[n].ref = x PROVE Labels(s, 1 + (b + n), x)
    <3>1. b + n \in 1..(b + c)
      BY <1>1
    <3>2. s[1 + (b + n)] = L[n] /\ 1 + (b + n) \in EntryAt(s)
      BY <1>2, <1>3, <1>5, <3>1
    <3> QED BY <2>2, <3>2 DEF Labels, LabelsBehind, c
  <2> QED BY <2>1, <2>2
<1>14. ASSUME NEW x PROVE x \in LabelledIn(s) <=> \E n \in 1..c : L[n].ref = x
  <2>1. ASSUME x \in LabelledIn(s) PROVE \E n \in 1..c : L[n].ref = x
    <3>1. \E j : Labels(s, j, x)
      BY <2>1, LabelledBy
    <3> QED BY <1>13, <3>1
  <2>2. ASSUME NEW n \in 1..c, L[n].ref = x PROVE x \in LabelledIn(s)
    <3> DEFINE j == 1 + (b + n)
    <3>1. Labels(s, j, x)
      BY <1>13, <2>2
    <3>2. j \in EntryAt(s) /\ s[j].on
      <4>1. b + n \in 1..(b + c)
        BY <1>1
      <4>2. s[j] = L[n]
        BY <1>2, <1>3, <4>1
      <4> QED BY <3>1, <4>2 DEF Labels, LabelsBehind, c
    <3>3. ASSUME NEW k \in EntryAt(s), Labels(s, k, x) PROVE ~(k > j)
      <4>1. PICK m \in 1..c : k = 1 + (b + m) /\ L[m].ref = x
        BY <1>13, <3>3
      <4>2. m = n
        BY <2>2, <4>1 DEF LabelsBehind, c
      <4> QED BY <1>1, <4>1, <4>2
    <3> HIDE DEF j
    <3> QED BY <3>1, <3>2, <3>3, LabelledBy
  <2> QED BY <2>1, <2>2
<1> QED BY <1>11, <1>12, <1>14 DEF ShownAs, w, c

(* A source with the index of the entries in memory: the file of the       *)
(* session, or those entries themselves.                                   *)
LEMMA BranchedFrom ==
  ASSUME NEW fe \in Seq(FileEntry), Sound(fe), NEW id \in IdsOf(fe), NEW path, path = getBranch(fe, id),
         LabelsLast(path),
         NEW source \in Seq(FileEntry), Sound(source), IdsOf(source) = IdsOf(fe),
         \A i \in IdsOf(source) : ById(source, i) = ById(fe, i), LabelledIn(source) = LabelledIn(fe),
         \A i \in FreshIds : i \notin Mentioned(source),
         NEW parent \in SessionFiles \cup {NoFile}, NEW s \in Branched(source, id, parent)
  PROVE  /\ s \in Seq(FileEntry) /\ Sound(s) /\ s # <<>> /\ s[1] \in Header
         /\ HasAssistant(path) => HasAssistant(s)
         /\ PathIds(s, LastId(s)) = PathIds(fe, id)
         /\ LabelledIn(s) = LabelledIn(fe) \cap {path[n].id : n \in {m \in DOMAIN path : ~IsLabel(path[m])}}
<1>1. path = getBranch(source, id) /\ id \in IdsOf(source)
  BY SameBranch
<1>b. IsBranch(path, source, id)
  BY <1>1, BranchIs
<1>c. PICK v, t : SplitAs(path, v, t)
  <2>1. path \in Seq(Entry) /\ path # <<>>
    BY <1>1, <1>b DEF IsBranch
  <2> QED BY <2>1, LabelsSplit
<1> DEFINE last == v[Len(v)].id
<1>2. IsBranch(v, source, last) /\ last \in IdsOf(source)
  BY <1>1, <1>b, <1>c, BranchSplit
<1> HIDE DEF last
<1>3. v \in Seq(Entry) /\ v \in Seq(FileEntry) /\ Len(v) \in Nat /\ DOMAIN v = 1..Len(v)
  BY <1>2, BranchSound, SeqFacts DEF IsBranch
<1>d. /\ t \in Seq(Entry) /\ Len(t) \in Nat /\ DOMAIN t = 1..Len(t) /\ DOMAIN path = 1..(Len(v) + Len(t))
      /\ \A i \in 1..Len(v) : path[i] = v[i]
      /\ \A i \in 1..(Len(v) + Len(t)) : path[i] = IF i <= Len(v) THEN v[i] ELSE t[i - Len(v)]
      /\ \A n \in DOMAIN v : ~IsLabel(v[n])
      /\ \A n \in DOMAIN t : IsLabel(t[n])
  BY <1>3, <1>c, SeqFacts, ConcatFacts DEF SplitAs
<1>a. PICK L : BranchedAs(s, source, v, parent, L)
  BY <1>1, <1>c, BranchedIs
<1>4. /\ s = <<NewHeader(parent)>> \o (v \o L) /\ LabelsBehind(L, v)
      /\ \A x : x \in LabelledIn(source) \cap IdsOf(v) <=> \E n \in 1..Len(L) : L[n].ref = x
  BY <1>a DEF BranchedAs
<1>5. s \in Seq(FileEntry) /\ Sound(s) /\ s # <<>> /\ s[1] \in Header
  BY BranchedFacts
<1> DEFINE h == NewHeader(parent)
<1>6. h \in Header
  BY DEF NewHeader, Header
<1>7. s = <<h>> \o (v \o L)
  BY <1>4
<1> HIDE DEF h
<1>8. /\ IsBranch(v \o L, s, LastId(s)) /\ LastId(s) \in IdsOf(s)
      /\ \A x : x \in LabelledIn(s) <=> \E n \in 1..Len(L) : L[n].ref = x
  <2>1. LabelsBehind(L, v) /\ last \in IdsOf(source) /\ IsBranch(v, source, last)
    BY <1>2, <1>4
  <2>2. ShownAs(s, v, L)
    BY <1>5, <1>6, <1>7, <1>d, <2>1, BranchedShows
  <2> QED BY <2>2 DEF ShownAs
<1>9. getBranch(s, LastId(s)) = v \o L
  <2>1. IsBranch(getBranch(s, LastId(s)), s, LastId(s))
    BY <1>5, BranchIs
  <2> QED BY <1>8, <2>1, BranchUnique
<1>10. WithoutLabels(v \o L) = v /\ WithoutLabels(path) = v
  <2>1. L \in Seq(Entry) /\ \A n \in DOMAIN L : IsLabel(L[n])
    <3>1. L \in Seq(Entry)
      BY <1>4 DEF LabelsBehind
    <3> QED BY <1>4, <3>1, SeqFacts DEF LabelsBehind, IsLabel
  <2>2. WithoutLabels(v \o L) = v
    BY <1>3, <1>d, <2>1, WithoutLabelsIs
  <2>3. WithoutLabels(v \o t) = v /\ path = v \o t
    BY <1>3, <1>c, <1>d, WithoutLabelsIs DEF SplitAs
  <2> QED BY <2>2, <2>3
<1>11. PathIds(s, LastId(s)) = PathIds(fe, id)
  BY <1>9, <1>10 DEF PathIds
<1>12. IdsOf(v) = {path[n].id : n \in {m \in DOMAIN path : ~IsLabel(path[m])}}
  <2>1. EntryAt(v) = DOMAIN v
    <3>1. \A n \in DOMAIN v : v[n].kind \in Kinds
      BY <1>3, SeqFacts, LineKinds
    <3> QED BY <3>1 DEF EntryAt
  <2>2. {m \in DOMAIN path : ~IsLabel(path[m])} = 1..Len(v)
    <3>1. ASSUME NEW m \in DOMAIN path PROVE ~IsLabel(path[m]) <=> m \in 1..Len(v)
      <4>1. CASE m <= Len(v)
        BY <1>3, <1>d, <4>1
      <4>2. CASE ~(m <= Len(v))
        <5>1. m - Len(v) \in DOMAIN t /\ m \notin 1..Len(v)
          BY <1>3, <1>d, <4>2
        <5> QED BY <1>d, <4>2, <5>1
      <4> QED BY <4>1, <4>2
    <3>2. 1..Len(v) \subseteq DOMAIN path
      BY <1>3, <1>d
    <3> QED BY <3>1, <3>2
  <2> QED BY <1>3, <1>d, <2>1, <2>2 DEF IdsOf
<1>13. LabelledIn(s) = LabelledIn(fe) \cap {path[n].id : n \in {m \in DOMAIN path : ~IsLabel(path[m])}}
  BY <1>4, <1>8, <1>12
<1>14. ASSUME HasAssistant(path) PROVE HasAssistant(s)
  <2>1. PICK n \in DOMAIN v : v[n].kind = "assistant"
    <3>1. PICK m \in DOMAIN path : path[m].kind = "assistant"
      BY <1>14 DEF HasAssistant
    <3>2. m <= Len(v)
      <4>1. ~(m <= Len(v)) => m - Len(v) \in DOMAIN t
        BY <1>3, <1>d
      <4> QED BY <1>d, <3>1, <4>1 DEF IsLabel
    <3>3. m \in DOMAIN v
      BY <1>3, <1>d, <3>2
    <3> QED BY <1>3, <1>d, <3>1, <3>3
  <2> DEFINE u == v \o L  o == <<h>>
  <2>2. L \in Seq(FileEntry)
    BY <1>4, SeqMonotonic DEF LabelsBehind, FileEntry
  <2>3. u \in Seq(FileEntry) /\ n \in 1..Len(u) /\ u[n] = v[n]
    <3>1. /\ u \in Seq(FileEntry) /\ Len(u) = Len(v) + Len(L) /\ Len(L) \in Nat
          /\ \A i \in 1..Len(v) : u[i] = v[i]
      BY <1>3, <2>2, ConcatFacts, SeqFacts
    <3> HIDE DEF u
    <3> QED BY <1>3, <2>1, <3>1
  <2>4. o \in Seq(FileEntry) /\ Len(o) = 1 /\ s = o \o u
    BY <1>6, <1>7 DEF FileEntry
  <2> HIDE DEF u, o
  <2>5. /\ DOMAIN (o \o u) = 1..(Len(o) + Len(u))
        /\ \A i \in 1..Len(u) : (o \o u)[Len(o) + i] = u[i] /\ Len(o) + i \in 1..(Len(o) + Len(u))
    <3>1. o \in Seq(FileEntry) /\ u \in Seq(FileEntry)
      BY <2>3, <2>4
    <3> QED BY <3>1, ConcatFacts
  <2>6. s[Len(o) + n].kind = "assistant" /\ Len(o) + n \in DOMAIN s
    BY <2>1, <2>3, <2>4, <2>5
  <2> QED BY <2>6 DEF HasAssistant
<1> QED BY <1>5, <1>11, <1>13, <1>14

LEMMA ForkShows ==
  ASSUME StoreInv, running, ~Swallowed(sessionFile), NEW id \in IdsOf(fileEntries),
         NEW path, path = getBranch(fileEntries, id), LabelsLast(path), persist => HasAssistant(path),
         NEW f, Fork(id, "at", f)
  PROVE  PathKept(id)
<1> DEFINE kept == {path[n].id : n \in {m \in DOMAIN path : ~IsLabel(path[m])}}
<1> SUFFICES /\ PathIds(fileEntries', leafId') = PathIds(fileEntries, id)
             /\ labelsById' = labelsById \cap kept
             /\ \A g \in DOMAIN disk : disk'[g] = disk[g]
  BY DEF PathKept
<1>1. /\ GoodDisk(disk) /\ fileEntries \in Seq(FileEntry) /\ Sound(fileEntries)
      /\ labelsById = LabelledIn(fileEntries) /\ id \in Ids /\ FreshFiles \subseteq SessionFiles
      /\ FreshFiles \cap DOMAIN disk = {} /\ sessionFile \in SessionFiles \cup {NoFile}
  BY StoreFacts
<1>2. /\ persist => ForkPersisted(id, f)
      /\ ~persist => ForkInMemory(id, f)
  <2>1. id # NoId
    BY <1>1, IdAssumption
  <2> QED BY <2>1 DEF Fork
<1>3. \A i \in FreshIds : i \notin Mentioned(fileEntries) /\ i \notin Mentioned(At(disk, sessionFile))
  BY <1>1, FreshFacts
<1>4. CASE ~persist
  <2>1. PICK s \in Branched(fileEntries, id, NoFile) : Indexed(s)
    BY <1>2, <1>4 DEF ForkInMemory
  <2>2. /\ PathIds(s, LastId(s)) = PathIds(fileEntries, id)
        /\ LabelledIn(s) = LabelledIn(fileEntries) \cap kept
    BY <1>1, <1>3, <2>1, BranchedFrom
  <2>3. fileEntries' = s /\ leafId' = LastId(s) /\ labelsById' = LabelledIn(s) /\ disk' = disk
    BY <1>2, <1>4, <2>1 DEF Indexed, ForkInMemory
  <2> QED BY <1>1, <2>2, <2>3
<1>5. CASE persist
  <2> DEFINE source == loadEntriesFromFile(LinesOf(sessionFile))
  <2>1. LinesOf(sessionFile) = At(disk, sessionFile) /\ GoodLines(At(disk, sessionFile))
    BY <1>1, <1>5, FileOfSession, AtGood
  <2>2. source \in Seq(FileEntry) /\ Sound(source) /\ Mentioned(source) \subseteq Mentioned(At(disk, sessionFile))
    BY <2>1, LoadedGood
  <2>3. flushed
    <3>1. PICK n \in DOMAIN path : path[n].kind = "assistant"
      BY <1>5 DEF HasAssistant
    <3>2. IsBranch(path, fileEntries, id)
      BY <1>1, BranchIs
    <3>3. n \in 1..Len(path)
      BY <3>1, <3>2, SeqFacts DEF IsBranch
    <3>4. path[n].id \in IdsOf(fileEntries) /\ path[n] = ById(fileEntries, path[n].id)
      BY <3>2, <3>3 DEF IsBranch
    <3>5. PICK i \in EntryAt(fileEntries) : path[n] = fileEntries[i]
      BY <1>1, <3>4, ByIdIs
    <3>6. HasAssistant(fileEntries)
      BY <3>1, <3>5 DEF HasAssistant, EntryAt
    <3> QED BY <1>5, <3>6, FileOfSession DEF Written
  <2>4. /\ IdsOf(source) = IdsOf(fileEntries)
        /\ \A i \in IdsOf(source) : ById(source, i) = ById(fileEntries, i)
        /\ LabelledIn(source) = LabelledIn(fileEntries)
    BY <1>1, <1>5, <2>3, ReloadFollows DEF ReloadAgrees
  <2>5. f \in FreshFiles /\ \E s \in Branched(source, id, sessionFile) :
                              Open(IF HasAssistant(s) THEN Put(disk, f, s) ELSE disk, f)
    BY <1>2, <1>5 DEF ForkPersisted
  <2> HIDE DEF source
  <2>6. PICK s \in Branched(source, id, sessionFile) :
               Open(IF HasAssistant(s) THEN Put(disk, f, s) ELSE disk, f)
    BY <2>5
  <2>7. \A i \in FreshIds : i \notin Mentioned(source)
    BY <1>3, <2>2
  <2>8. /\ s \in Seq(FileEntry) /\ Sound(s) /\ s # <<>> /\ s[1] \in Header /\ HasAssistant(s)
        /\ PathIds(s, LastId(s)) = PathIds(fileEntries, id)
        /\ LabelledIn(s) = LabelledIn(fileEntries) \cap kept
    BY <1>1, <1>5, <2>2, <2>4, <2>6, <2>7, BranchedFrom
  <2>9. Open(Put(disk, f, s), f)
    BY <2>6, <2>8
  <2>10. /\ f \in DOMAIN Put(disk, f, s) /\ Put(disk, f, s)[f] = s
         /\ \A g \in DOMAIN disk : Put(disk, f, s)[g] = disk[g]
    <3>1. f \in SessionFiles /\ f \notin DOMAIN disk /\ GoodLines(s)
      BY <1>1, <2>5, <2>8, EntriesGood
    <3> QED BY <1>1, <3>1, PutGood
  <2>11. loadEntriesFromFile(s) = s
    <3>1. Parsed(s) = s /\ s \in Seq(Line)
      BY <2>8, ParsedSelf, EntriesAreLines
    <3> QED BY <2>8, <3>1, LoadIs
  <2>12. /\ fileEntries' = s /\ leafId' = LastId(s) /\ labelsById' = LabelledIn(s)
         /\ disk' = Put(disk, f, s)
    BY <2>8, <2>9, <2>10, <2>11 DEF Open, Indexed
  <2> QED BY <1>1, <2>8, <2>10, <2>12
<1> QED BY <1>4, <1>5

-----------------------------------------------------------------------------
(* Whatever is appended, branched, opened, forked, imported or killed, the *)
(* files hold sound trees and the manager agrees with the one it writes    *)
(* (the whole of SessionManager).                                          *)
THEOREM StoreInvariant == Spec => []StoreInv
<1>1. Init => StoreInv
  BY InitGood
<1>2. StoreInv /\ [Next]_vars => StoreInv'
  BY NextStep
<1> QED BY <1>1, <1>2, PTL DEF Spec

(* Once the assistant has answered, every entry of the session in memory   *)
(* is a line of its file, unless a kill's incomplete line swallowed one    *)
(* (_persist, against branches, forks, restarts and switches).             *)
THEOREM SessionsAreDurable == Spec => []Durable
<1>1. StoreInv => Durable
  BY DurableFollows
<1> QED BY <1>1, StoreInvariant, PTL

(* Parents stand before their children, and opening the file of a flushed  *)
(* session again yields the tree and the labels that are in memory         *)
(* (setSessionFile and _buildIndex against the incremental updates).       *)
THEOREM ReloadsAgree == Spec => []ReloadAgrees
<1>1. StoreInv => ReloadAgrees
  BY ReloadFollows
<1> QED BY <1>1, StoreInvariant, PTL

(* No step takes a whole line from a session file that has a header, the   *)
(* import of an older copy over it excepted (append-only session files).   *)
THEOREM SessionFilesGrow == Spec => FilesOnlyGrow
<1>1. StoreInv /\ [Next]_vars => Grown
  BY NextStep
<1>2. Grown => [Grown]_vars
  OBVIOUS
<1> QED BY <1>1, StoreInvariant, PTL DEF Spec, FilesOnlyGrow, Grown

(* A fork at an entry shows the path to it, in its order and with its      *)
(* labels, whatever was appended, branched, killed or reopened before, and *)
(* writes to no file that exists, if no label stands in the middle of the  *)
(* path and, in a saved session, the assistant has answered on it and no   *)
(* line of the file was swallowed (createBranchedSession).                 *)
THEOREM ForksCopyPaths == Spec => ForkCopiesPath
<1> DEFINE Shows ==
      sessions' # sessions /\ running /\ ~Swallowed(sessionFile) =>
        \A id \in IdsOf(fileEntries) :
          LET path == getBranch(fileEntries, id) IN
          LabelsLast(path) /\ (persist => HasAssistant(path)) /\ Fork(id, "at", sessionFile') =>
            PathKept(id)
<1>1. StoreInv => Shows
  BY ForkShows
<1>2. Shows => [Shows]_vars
  OBVIOUS
<1> QED BY <1>1, <1>2, StoreInvariant, PTL DEF Spec, ForkCopiesPath
=============================================================================
