----------------------------- MODULE ListProofs -----------------------------
(***************************************************************************)
(* What the operators of Lists promise, for all finite sets, orders and    *)
(* lists: InOrder lists every element once and in order, Only keeps the    *)
(* elements it is told to keep in their order, and Total grows by what one *)
(* of its numbers grows by.                                                *)
(***************************************************************************)
EXTENDS Lists, FiniteSetTheorems, FunctionTheorems, TLAPS

\* Places differ, and the order of the places is that of the elements.
LEMMA PlacesAreOrdered ==
    ASSUME NEW S, IsFiniteSet(S), NEW R, IsStrictOrder(R, S)
    PROVE  /\ \A a \in S : Place(R, S, a) \in 1 .. Cardinality(S)
           /\ \A a, b \in S : <<a, b>> \in R => Place(R, S, a) < Place(R, S, b)
  <1> DEFINE Before(a) == {b \in S : <<b, a>> \in R}
  <1>1. ASSUME NEW a \in S
        PROVE  /\ IsFiniteSet(Before(a)) /\ Cardinality(Before(a)) \in Nat
               /\ IsFiniteSet(Before(a) \cup {a})
               /\ Cardinality(Before(a) \cup {a}) = Cardinality(Before(a)) + 1
    <2>1. Before(a) \subseteq S /\ a \notin Before(a)
      BY DEF IsStrictOrder
    <2>2. IsFiniteSet(Before(a))
      BY <2>1, FS_Subset
    <2> HIDE DEF Before
    <2> QED BY <2>1, <2>2, FS_CardinalityType, FS_AddElement
  <1>2. ASSUME NEW a \in S PROVE Place(R, S, a) \in 1 .. Cardinality(S)
    <2>1. Before(a) \cup {a} \subseteq S
      OBVIOUS
    <2>2. Cardinality(Before(a) \cup {a}) <= Cardinality(S) /\ Cardinality(S) \in Nat
      BY <2>1, FS_Subset, FS_CardinalityType
    <2>3. Place(R, S, a) = Cardinality(Before(a)) + 1
      BY DEF Place
    <2> HIDE DEF Before
    <2> QED BY <1>1, <2>2, <2>3
  <1>3. ASSUME NEW a \in S, NEW b \in S, <<a, b>> \in R
        PROVE  Place(R, S, a) < Place(R, S, b)
    <2>1. Before(a) \cup {a} \subseteq Before(b)
      BY <1>3 DEF IsStrictOrder
    <2>2. Place(R, S, a) = Cardinality(Before(a)) + 1 /\ Place(R, S, b) = Cardinality(Before(b)) + 1
      BY DEF Place
    <2>3. IsFiniteSet(Before(b)) /\ Cardinality(Before(b)) \in Nat
      BY <1>1
    <2>4. Cardinality(Before(a) \cup {a}) = Cardinality(Before(a)) + 1 /\ Cardinality(Before(a)) \in Nat
      BY <1>1
    <2> HIDE DEF Before
    <2>5. Cardinality(Before(a) \cup {a}) <= Cardinality(Before(b))
      BY <2>1, <2>3, FS_Subset
    <2> QED BY <2>2, <2>3, <2>4, <2>5
  <1> QED BY <1>2, <1>3

LEMMA PlacesDiffer ==
    ASSUME NEW S, IsFiniteSet(S), NEW R, IsStrictOrder(R, S),
           NEW a \in S, NEW b \in S, Place(R, S, a) = Place(R, S, b)
    PROVE  a = b
  <1>1. Place(R, S, a) \in Nat /\ Place(R, S, b) \in Nat
    BY PlacesAreOrdered
  <1>2. <<a, b>> \in R => Place(R, S, a) < Place(R, S, b)
    BY PlacesAreOrdered
  <1>3. <<b, a>> \in R => Place(R, S, b) < Place(R, S, a)
    BY PlacesAreOrdered
  <1>4. a = b \/ <<a, b>> \in R \/ <<b, a>> \in R
    BY DEF IsStrictOrder
  <1> QED BY <1>1, <1>2, <1>3, <1>4

\* Every element has a place of its own, and every place an element.
LEMMA InOrderIsSorted ==
    ASSUME NEW S, IsFiniteSet(S), NEW R, IsStrictOrder(R, S)
    PROVE  /\ Cardinality(S) \in Nat
           /\ InOrder(R, S) \in [1 .. Cardinality(S) -> S]
           /\ \A a \in S : \E i \in 1 .. Cardinality(S) : InOrder(R, S)[i] = a
           /\ \A i, j \in 1 .. Cardinality(S) :
                 i < j <=> <<InOrder(R, S)[i], InOrder(R, S)[j]>> \in R
  <1> DEFINE n == Cardinality(S)
             place == [a \in S |-> Place(R, S, a)]
             order == InOrder(R, S)
  <1>1. n \in Nat /\ IsFiniteSet(1 .. n) /\ Cardinality(1 .. n) = n
    BY FS_CardinalityType, FS_Interval
  <1>2. place \in [S -> 1 .. n]
    BY PlacesAreOrdered
  <1>3. ASSUME NEW a \in S, NEW b \in S, place[a] = place[b] PROVE a = b
    <2>1. place[a] \in Nat /\ ~(place[a] < place[b]) /\ ~(place[b] < place[a])
      BY <1>2, <1>3
    <2>2. <<a, b>> \in R => place[a] < place[b]
      BY PlacesAreOrdered
    <2>3. <<b, a>> \in R => place[b] < place[a]
      BY PlacesAreOrdered
    <2> HIDE DEF place
    <2> QED BY <2>1, <2>2, <2>3 DEF IsStrictOrder
  <1>4. place \in Injection(S, 1 .. n)
    BY <1>2, <1>3, Fun_IsInj
  <1>5. place \in Surjection(S, 1 .. n)
    BY <1>1, <1>4, FS_Injection
  <1>6. ASSUME NEW k \in 1 .. n PROVE order[k] \in S /\ place[order[k]] = k
    <2>1. order[k] = CHOOSE a \in S : Place(R, S, a) = k
      BY DEF InOrder
    <2>2. \A a \in S : place[a] = Place(R, S, a)
      OBVIOUS
    <2>3. \E a \in S : place[a] = k
      <3> HIDE DEF place, n
      <3>1. \A t \in 1 .. n : \E a \in S : place[a] = t
        BY <1>5, Fun_SurjectionProperties
      <3> QED BY <3>1
    <2>4. \E a \in S : Place(R, S, a) = k
      <3> HIDE DEF place
      <3> QED BY <2>2, <2>3
    <2>5. order[k] \in S /\ Place(R, S, order[k]) = k
      BY <2>1, <2>4
    <2> HIDE DEF place, order
    <2> QED BY <2>2, <2>5
  <1>7. order \in [1 .. n -> S]
    BY <1>6 DEF InOrder
  <1>8. \A a, b \in S : <<a, b>> \in R => place[a] < place[b]
    BY PlacesAreOrdered
  <1> HIDE DEF n, order, place
  <1>9. \A a \in S : place[a] \in 1 .. n /\ order[place[a]] = a
    BY <1>2, <1>3, <1>6
  <1>10. ASSUME NEW i \in 1 .. n, NEW j \in 1 .. n
         PROVE  i < j <=> <<order[i], order[j]>> \in R
    <2>1. /\ order[i] \in S /\ order[j] \in S
          /\ place[order[i]] = i /\ place[order[j]] = j
      BY <1>6
    <2>2. <<order[i], order[j]>> \in R => i < j
      BY <1>8, <2>1
    <2>3. <<order[j], order[i]>> \in R => j < i
      BY <1>8, <2>1
    <2>4. order[i] = order[j] => i = j
      BY <2>1
    <2>5. order[i] = order[j] \/ <<order[i], order[j]>> \in R \/ <<order[j], order[i]>> \in R
      BY <2>1 DEF IsStrictOrder
    <2> QED BY <1>1, <2>2, <2>3, <2>4, <2>5
  <1>11. \A a \in S : \E i \in 1 .. n : order[i] = a
    BY <1>9
  <1> QED BY <1>1, <1>7, <1>10, <1>11 DEF n, order

LEMMA PlaceIsTaken ==
    ASSUME NEW S, IsFiniteSet(S), NEW R, IsStrictOrder(R, S), NEW k \in 1 .. Cardinality(S)
    PROVE  \E a \in S : Place(R, S, a) = k
  <1> DEFINE n == Cardinality(S)
             place == [a \in S |-> Place(R, S, a)]
  <1>1. n \in Nat /\ IsFiniteSet(1 .. n) /\ Cardinality(1 .. n) = n
    BY FS_CardinalityType, FS_Interval
  <1>2. place \in [S -> 1 .. n]
    BY PlacesAreOrdered
  <1>3. \A a, b \in S : place[a] = place[b] => a = b
    BY PlacesDiffer
  <1>4. place \in Surjection(S, 1 .. n)
    <2> HIDE DEF place, n
    <2>1. place \in Injection(S, 1 .. n)
      BY <1>2, <1>3, Fun_IsInj
    <2> QED BY <1>1, <2>1, FS_Injection DEF n
  <1>5. \E a \in S : place[a] = k
    <2>1. k \in 1 .. n
      OBVIOUS
    <2> HIDE DEF place, n
    <2>2. \A t \in 1 .. n : \E a \in S : place[a] = t
      BY <1>4, Fun_SurjectionProperties
    <2> QED BY <2>1, <2>2
  <1> QED BY <1>5

\* h takes every element of S, in the order R, to an element of T, in the order Q.
Correspond(R, S, Q, T, h) ==
    /\ IsFiniteSet(S) /\ IsStrictOrder(R, S) /\ IsFiniteSet(T) /\ IsStrictOrder(Q, T)
    /\ h \in [S -> T]
    /\ \A a, b \in S : h[a] = h[b] => a = b
    /\ \A t \in T : \E a \in S : h[a] = t
    /\ \A a, b \in S : <<a, b>> \in R <=> <<h[a], h[b]>> \in Q

\* A list is sorted in one way: two sets that correspond are listed alike.
LEMMA OrderIsOne ==
    ASSUME NEW S, NEW R, NEW T, NEW Q, NEW h, Correspond(R, S, Q, T, h)
    PROVE  /\ Cardinality(S) = Cardinality(T)
           /\ \A k \in 1 .. Cardinality(S) : InOrder(Q, T)[k] = h[InOrder(R, S)[k]]
  <1> USE DEF Correspond
  <1>1. h \in Bijection(S, T)
    BY Fun_IsBij
  <1>2. Cardinality(S) = Cardinality(T) /\ Cardinality(S) \in Nat
    <2>1. ExistsBijection(S, T)
      BY <1>1 DEF ExistsBijection
    <2> QED BY <2>1, FS_Bijection, FS_CardinalityType
  <1>3. ASSUME NEW a \in S PROVE Place(R, S, a) = Place(Q, T, h[a])
    <2> DEFINE B == {b \in S : <<b, a>> \in R}
               C == {c \in T : <<c, h[a]>> \in Q}
               g == [b \in B |-> h[b]]
    <2>1. IsFiniteSet(B)
      <3>1. B \subseteq S
        OBVIOUS
      <3> QED BY <3>1, FS_Subset
    <2>2. g \in [B -> C]
      OBVIOUS
    <2>3. \A b, d \in B : g[b] = g[d] => b = d
      OBVIOUS
    <2>4. \A c \in C : \E b \in B : g[b] = c
      OBVIOUS
    <2> HIDE DEF B, C, g
    <2>5. g \in Bijection(B, C)
      BY <2>2, <2>3, <2>4, Fun_IsBij, Fun_IsInj, Fun_IsSurj
    <2>6. Cardinality(B) = Cardinality(C)
      BY <2>1, <2>5, FS_Bijection DEF ExistsBijection
    <2> QED BY <2>6 DEF Place, B, C
  <1>4. ASSUME NEW k \in 1 .. Cardinality(S)
        PROVE  InOrder(Q, T)[k] = h[InOrder(R, S)[k]]
    <2>1. InOrder(R, S)[k] = CHOOSE a \in S : Place(R, S, a) = k
      BY DEF InOrder
    <2>2. InOrder(Q, T)[k] = CHOOSE t \in T : Place(Q, T, t) = k
      BY <1>2 DEF InOrder
    <2>3. PICK a \in S : Place(R, S, a) = k
      BY PlaceIsTaken
    <2>4. InOrder(R, S)[k] \in S /\ Place(R, S, InOrder(R, S)[k]) = k
      BY <2>1, <2>3
    <2>5. h[InOrder(R, S)[k]] \in T /\ Place(Q, T, h[InOrder(R, S)[k]]) = k
      BY <1>3, <2>4
    <2>6. InOrder(Q, T)[k] \in T /\ Place(Q, T, InOrder(Q, T)[k]) = k
      BY <2>2, <2>5
    <2> QED BY <2>5, <2>6, PlacesDiffer
  <1> QED BY <1>2, <1>4

\* By a number and then by position: strict orders of positions, as a stable sort makes
\* them.
LEMMA UpIsStrict ==
    ASSUME NEW D \in SUBSET Nat, NEW key \in [D -> Nat], NEW R,
           \A i, j \in D : <<i, j>> \in R <=> (key[i] < key[j] \/ (key[i] = key[j] /\ i < j))
    PROVE  IsStrictOrder(R, D)
BY DEF IsStrictOrder

LEMMA DownIsStrict ==
    ASSUME NEW D \in SUBSET Nat, NEW key \in [D -> Nat], NEW R,
           \A i, j \in D : <<i, j>> \in R <=> (key[i] > key[j] \/ (key[i] = key[j] /\ i < j))
    PROVE  IsStrictOrder(R, D)
  <1>1. \A i, j, k \in D : <<i, j>> \in R /\ <<j, k>> \in R => <<i, k>> \in R
    OBVIOUS
  <1>2. \A i \in D : <<i, i>> \notin R
    OBVIOUS
  <1>3. ASSUME NEW i \in D, NEW j \in D PROVE i = j \/ <<i, j>> \in R \/ <<j, i>> \in R
    <2>1. i \in Nat /\ j \in Nat /\ key[i] \in Nat /\ key[j] \in Nat
      OBVIOUS
    <2>2. CASE key[i] = key[j]
      BY <2>1, <2>2
    <2>3. CASE key[i] > key[j]
      BY <2>1, <2>3
    <2>4. CASE key[j] > key[i]
      BY <2>1, <2>4
    <2> QED BY <2>1, <2>2, <2>3, <2>4
  <1> QED BY <1>1, <1>2, <1>3 DEF IsStrictOrder

-----------------------------------------------------------------------------
(* Sublists *)

LEMMA AscendingIsStrict == ASSUME NEW K \in SUBSET Nat PROVE IsStrictOrder(Ascending(K), K)
BY DEF IsStrictOrder, Ascending

LEMMA PicksAreKept ==
    ASSUME NEW K \in SUBSET Nat, IsFiniteSet(K)
    PROVE  \A k \in 1 .. Cardinality(K) : InOrder(Ascending(K), K)[k] \in K
BY AscendingIsStrict, InOrderIsSorted

LEMMA PositionsOfList ==
    ASSUME NEW X, NEW s \in Seq(X)
    PROVE  /\ Len(s) \in Nat /\ DOMAIN s = 1 .. Len(s)
           /\ IsFiniteSet(DOMAIN s) /\ Cardinality(DOMAIN s) = Len(s)
  <1>1. Len(s) \in Nat /\ DOMAIN s = 1 .. Len(s)
    OBVIOUS
  <1>2. IsFiniteSet(DOMAIN s) /\ Cardinality(DOMAIN s) = Len(s)
    BY <1>1, FS_Interval
  <1> QED BY <1>1, <1>2

LEMMA NarrowerList ==
    ASSUME NEW X, NEW s \in Seq(X)
    PROVE  /\ \A i \in DOMAIN s : s[i] \in X
           /\ \A Y : (\A i \in DOMAIN s : s[i] \in Y) => s \in Seq(Y)
OBVIOUS

LEMMA PositionsAreFinite ==
    ASSUME NEW X, NEW s \in Seq(X), NEW K \in SUBSET (DOMAIN s)
    PROVE  IsFiniteSet(K) /\ K \in SUBSET Nat
  <1>1. Len(s) \in Nat /\ DOMAIN s = 1 .. Len(s)
    OBVIOUS
  <1>2. IsFiniteSet(1 .. Len(s)) /\ K \subseteq 1 .. Len(s)
    BY <1>1, FS_Interval
  <1> QED BY <1>1, <1>2, FS_Subset

\* A sublist has the elements at the positions that are kept, in their order.
LEMMA OnlyKeeps ==
    ASSUME NEW X, NEW s \in Seq(X), NEW K \in SUBSET (DOMAIN s)
    PROVE  LET order == InOrder(Ascending(K), K)
           IN  /\ IsFiniteSet(K) /\ Cardinality(K) \in Nat
               /\ Only(s, K) \in Seq(X)
               /\ Len(Only(s, K)) = Cardinality(K)
               /\ DOMAIN Only(s, K) = 1 .. Cardinality(K)
               /\ \A k \in 1 .. Cardinality(K) : order[k] \in K /\ Only(s, K)[k] = s[order[k]]
               /\ \A i \in K : \E k \in 1 .. Cardinality(K) : order[k] = i
               /\ \A i, j \in 1 .. Cardinality(K) : i < j <=> order[i] < order[j]
  <1> DEFINE order == InOrder(Ascending(K), K)
             n == Cardinality(K)
  <1>1. Len(s) \in Nat /\ DOMAIN s = 1 .. Len(s) /\ s \in [1 .. Len(s) -> X]
    OBVIOUS
  <1>2. IsFiniteSet(K) /\ K \in SUBSET Nat
    <2>1. IsFiniteSet(1 .. Len(s)) /\ K \subseteq 1 .. Len(s)
      BY <1>1, FS_Interval
    <2> QED BY <1>1, <2>1, FS_Subset
  <1>3. /\ n \in Nat
        /\ order \in [1 .. n -> K]
        /\ \A i \in K : \E k \in 1 .. n : order[k] = i
        /\ \A i, j \in 1 .. n : i < j <=> <<order[i], order[j]>> \in Ascending(K)
    BY <1>2, AscendingIsStrict, InOrderIsSorted
  <1>4. \A i, j \in 1 .. n : i < j <=> order[i] < order[j]
    BY <1>3 DEF Ascending
  <1>5. Only(s, K) = [k \in 1 .. n |-> s[order[k]]]
    BY DEF Only
  <1> HIDE DEF order, n
  <1>6. \A k \in 1 .. n : s[order[k]] \in X
    BY <1>1, <1>3
  <1>7. Only(s, K) \in [1 .. n -> X]
    BY <1>5, <1>6
  <1>8. Only(s, K) \in Seq(X) /\ Len(Only(s, K)) = n /\ DOMAIN Only(s, K) = 1 .. n
    BY <1>3, <1>7
  <1>9. \A k \in 1 .. n : order[k] \in K /\ Only(s, K)[k] = s[order[k]]
    BY <1>3, <1>5
  <1> QED BY <1>2, <1>3, <1>4, <1>8, <1>9 DEF order, n

\* t has what s has at the positions K, which order lists.
IsSublist(t, X, s, K, order) ==
    /\ t \in Seq(X) /\ DOMAIN t = 1 .. Cardinality(K) /\ Cardinality(K) \in Nat
    /\ \A k \in DOMAIN t : order[k] \in K /\ t[k] = s[order[k]]
    /\ \A i \in K : \E k \in DOMAIN t : order[k] = i
    /\ \A i, j \in DOMAIN t : i < j <=> order[i] < order[j]

LEMMA SublistIs ==
    ASSUME NEW X, NEW s \in Seq(X), NEW K \in SUBSET (DOMAIN s)
    PROVE  IsSublist(Only(s, K), X, s, K, InOrder(Ascending(K), K))
  <1> DEFINE order == InOrder(Ascending(K), K)
  <1>1. /\ Cardinality(K) \in Nat
        /\ Only(s, K) \in Seq(X)
        /\ DOMAIN Only(s, K) = 1 .. Cardinality(K)
    BY OnlyKeeps
  <1>2. /\ \A k \in 1 .. Cardinality(K) : order[k] \in K /\ Only(s, K)[k] = s[order[k]]
        /\ \A i \in K : \E k \in 1 .. Cardinality(K) : order[k] = i
        /\ \A i, j \in 1 .. Cardinality(K) : i < j <=> order[i] < order[j]
    BY OnlyKeeps
  <1> HIDE DEF order
  <1>3. IsSublist(Only(s, K), X, s, K, order)
    BY <1>1, <1>2 DEF IsSublist
  <1> QED BY <1>3 DEF order

\* A sublist of a sublist is a sublist.
LEMMA OnlyOfOnly ==
    ASSUME NEW X, NEW s \in Seq(X), NEW K \in SUBSET (DOMAIN s), NEW S \in SUBSET K,
           NEW T \in SUBSET (DOMAIN Only(s, K)),
           \A j \in DOMAIN Only(s, K) : j \in T <=> InOrder(Ascending(K), K)[j] \in S
    PROVE  Only(s, S) = Only(Only(s, K), T)
  <1> DEFINE t == Only(s, K)
             order == InOrder(Ascending(K), K)
             outer == InOrder(Ascending(S), S)
             inner == InOrder(Ascending(T), T)
             h == [j \in T |-> order[j]]
  <1>1. /\ t \in Seq(X) /\ DOMAIN t = 1 .. Cardinality(K) /\ Cardinality(K) \in Nat
        /\ \A k \in DOMAIN t : order[k] \in K /\ t[k] = s[order[k]]
        /\ \A i \in K : \E k \in DOMAIN t : order[k] = i
        /\ \A i, j \in DOMAIN t : i < j <=> order[i] < order[j]
    <2>1. IsSublist(t, X, s, K, order)
      BY SublistIs
    <2> HIDE DEF t, order
    <2> QED BY <2>1 DEF IsSublist
  <1>2. /\ T \in SUBSET DOMAIN t
        /\ \A j : j \in T <=> j \in DOMAIN t /\ order[j] \in S
    OBVIOUS
  <1>3. S \in SUBSET DOMAIN s
    OBVIOUS
  <1> HIDE DEF t, order
  <1>4. /\ IsFiniteSet(S) /\ S \in SUBSET Nat
        /\ \A n \in 1 .. Cardinality(S) : outer[n] \in S
    <2>1. IsFiniteSet(S) /\ S \in SUBSET Nat
      BY <1>3, PositionsAreFinite
    <2> QED BY <2>1, PicksAreKept
  <1>5. /\ IsFiniteSet(T) /\ T \in SUBSET Nat
        /\ \A n \in 1 .. Cardinality(T) : inner[n] \in T
    <2>1. IsFiniteSet(T) /\ T \in SUBSET Nat
      BY <1>1, <1>2, PositionsAreFinite
    <2> QED BY <2>1, PicksAreKept
  <1>6. h \in [T -> S] /\ \A j \in T : h[j] = order[j]
    BY <1>2
  <1> HIDE DEF h, inner, outer
  <1>7. \A i \in S : \E j \in T : h[j] = i
    BY <1>1, <1>2, <1>6
  <1>8. ASSUME NEW i \in T, NEW j \in T PROVE i < j <=> h[i] < h[j]
    BY <1>1, <1>2, <1>6
  <1>9. ASSUME NEW i \in T, NEW j \in T, h[i] = h[j] PROVE i = j
    <2>1. i \in Nat /\ j \in Nat /\ h[i] \in Nat /\ h[j] \in Nat
      BY <1>4, <1>5, <1>6
    <2>2. ~(i < j) /\ ~(j < i)
      BY <1>8, <1>9, <2>1
    <2> QED BY <2>1, <2>2
  <1>10. \A i, j \in T : <<i, j>> \in Ascending(T) <=> <<h[i], h[j]>> \in Ascending(S)
    BY <1>6, <1>8 DEF Ascending
  <1>11. IsStrictOrder(Ascending(T), T) /\ IsStrictOrder(Ascending(S), S)
    BY <1>4, <1>5, AscendingIsStrict
  <1>12. /\ Cardinality(T) = Cardinality(S)
         /\ \A n \in 1 .. Cardinality(T) : outer[n] = h[inner[n]]
    <2>1. Correspond(Ascending(T), T, Ascending(S), S, h)
      BY <1>4, <1>5, <1>6, <1>7, <1>9, <1>10, <1>11 DEF Correspond
    <2>2. /\ Cardinality(T) = Cardinality(S)
          /\ \A n \in 1 .. Cardinality(T) :
                InOrder(Ascending(S), S)[n] = h[InOrder(Ascending(T), T)[n]]
      BY <2>1, OrderIsOne
    <2> QED BY <2>2 DEF inner, outer
  <1>13. \A n \in 1 .. Cardinality(T) : s[outer[n]] = t[inner[n]]
    <2> TAKE n \in 1 .. Cardinality(T)
    <2>1. inner[n] \in T /\ outer[n] = order[inner[n]]
      BY <1>5, <1>6, <1>12
    <2> QED BY <1>1, <1>2, <2>1
  <1>14. /\ Only(s, S) = [n \in 1 .. Cardinality(S) |-> s[outer[n]]]
         /\ Only(t, T) = [n \in 1 .. Cardinality(T) |-> t[inner[n]]]
    BY DEF Only, outer, inner
  <1>15. Only(s, S) = Only(t, T)
    BY <1>12, <1>13, <1>14
  <1> QED BY <1>15 DEF t

\* A sorted list has the elements of the list, each at one place, in their order.
LEMMA SortedKeeps ==
    ASSUME NEW X, NEW s \in Seq(X), NEW R, IsStrictOrder(R, DOMAIN s)
    PROVE  LET order == InOrder(R, DOMAIN s)
           IN  /\ Sorted(R, s) \in Seq(X)
               /\ DOMAIN Sorted(R, s) = DOMAIN s
               /\ \A k \in DOMAIN s : order[k] \in DOMAIN s /\ Sorted(R, s)[k] = s[order[k]]
               /\ \A i \in DOMAIN s : \E k \in DOMAIN s : order[k] = i
               /\ \A i, j \in DOMAIN s : i < j <=> <<order[i], order[j]>> \in R
  <1> DEFINE order == InOrder(R, DOMAIN s)
  <1>1. Len(s) \in Nat /\ DOMAIN s = 1 .. Len(s) /\ s \in [1 .. Len(s) -> X]
    OBVIOUS
  <1>2. IsFiniteSet(DOMAIN s) /\ Cardinality(DOMAIN s) = Len(s)
    BY <1>1, FS_Interval
  <1>3. /\ order \in [DOMAIN s -> DOMAIN s]
        /\ \A i \in DOMAIN s : \E k \in DOMAIN s : order[k] = i
        /\ \A i, j \in DOMAIN s : i < j <=> <<order[i], order[j]>> \in R
    <2>1. DOMAIN s = 1 .. Cardinality(DOMAIN s)
      BY <1>1, <1>2
    <2>2. /\ order \in [1 .. Cardinality(DOMAIN s) -> DOMAIN s]
          /\ \A i \in DOMAIN s : \E k \in 1 .. Cardinality(DOMAIN s) : order[k] = i
          /\ \A i, j \in 1 .. Cardinality(DOMAIN s) : i < j <=> <<order[i], order[j]>> \in R
      BY <1>2, InOrderIsSorted
    <2> HIDE DEF order
    <2> QED BY <2>1, <2>2
  <1>4. Sorted(R, s) = [k \in DOMAIN s |-> s[order[k]]]
    BY DEF Sorted
  <1> HIDE DEF order
  <1>5. \A k \in DOMAIN s : order[k] \in DOMAIN s /\ s[order[k]] \in X
    BY <1>1, <1>3
  <1>6. Sorted(R, s) \in [1 .. Len(s) -> X]
    BY <1>1, <1>4, <1>5
  <1>7. Sorted(R, s) \in Seq(X) /\ DOMAIN Sorted(R, s) = DOMAIN s
    BY <1>1, <1>6
  <1>8. \A k \in DOMAIN s : Sorted(R, s)[k] = s[order[k]]
    BY <1>4
  <1> QED BY <1>3, <1>5, <1>7, <1>8 DEF order

\* The first of a set of numbers.
LEMMA HasLeast ==
    ASSUME NEW K \in SUBSET Nat, IsFiniteSet(K), K # {}
    PROVE  \E a \in K : \A b \in K : a <= b
  <1> DEFINE n == Cardinality(K)
             order == InOrder(Ascending(K), K)
  <1>1. /\ n \in Nat
        /\ order \in [1 .. n -> K]
        /\ \A b \in K : \E i \in 1 .. n : order[i] = b
        /\ \A i, j \in 1 .. n : i < j <=> <<order[i], order[j]>> \in Ascending(K)
    BY AscendingIsStrict, InOrderIsSorted
  <1>2. \A i, j \in 1 .. n : i < j => order[i] < order[j]
    BY <1>1 DEF Ascending
  <1> HIDE DEF n, order
  <1>3. 1 \in 1 .. n
    <2>1. PICK b \in K : TRUE
      OBVIOUS
    <2>2. PICK i \in 1 .. n : order[i] = b
      BY <1>1
    <2> QED BY <1>1, <2>2
  <1>4. ASSUME NEW b \in K PROVE order[1] <= b
    <2>1. PICK i \in 1 .. n : order[i] = b
      BY <1>1
    <2>2. i = 1 \/ 1 < i
      OBVIOUS
    <2>3. order[1] \in Nat /\ order[i] \in Nat
      BY <1>1, <1>3
    <2> QED BY <1>2, <1>3, <2>1, <2>2, <2>3
  <1> QED BY <1>1, <1>3, <1>4

-----------------------------------------------------------------------------
(* Sums *)

LEMMA ImageIsFinite ==
    ASSUME NEW S, IsFiniteSet(S), NEW f
    PROVE  IsFiniteSet({f[a] : a \in S})
  <1> DEFINE T == {f[a] : a \in S}
             g == [a \in S |-> f[a]]
  <1>1. g \in [S -> T] /\ \A t \in T : \E a \in S : g[a] = t
    OBVIOUS
  <1>2. g \in Surjection(S, T)
    BY <1>1, Fun_IsSurj
  <1> QED BY <1>2, FS_Surjection

LEMMA UnitsAreFinite ==
    ASSUME NEW S, IsFiniteSet(S), NEW f, \A a \in S : f[a] \in Nat
    PROVE  IsFiniteSet(Units(f, S)) /\ Total(f, S) \in Nat
  <1> DEFINE Column(a) == {a} \X (1 .. f[a])
             columns == {Column(a) : a \in S}
  <1>1. IsFiniteSet(columns)
    <2> DEFINE column == [a \in S |-> Column(a)]
    <2>1. IsFiniteSet({column[a] : a \in S})
      <3> HIDE DEF column
      <3> QED BY ImageIsFinite
    <2>2. {column[a] : a \in S} = columns
      OBVIOUS
    <2> QED BY <2>1, <2>2
  <1>2. ASSUME NEW a \in S PROVE IsFiniteSet(Column(a))
    <2>1. IsFiniteSet({a})
      BY FS_Singleton
    <2>2. 1 \in Int /\ f[a] \in Int
      OBVIOUS
    <2>3. IsFiniteSet(1 .. f[a])
      BY <2>2, FS_Interval
    <2> QED BY <2>1, <2>3, FS_Product
  <1>3. IsFiniteSet(UNION columns)
    <2>1. \A T \in columns : IsFiniteSet(T)
      BY <1>2
    <2> HIDE DEF columns
    <2> QED BY <1>1, <2>1, FS_UNION
  <1>4. Units(f, S) = UNION columns
    BY DEF Units
  <1> QED BY <1>3, <1>4, FS_CardinalityType DEF Total

\* A sum depends on nothing but its numbers.
LEMMA TotalSame ==
    ASSUME NEW S, NEW f, NEW g, \A a \in S : f[a] = g[a]
    PROVE  Total(f, S) = Total(g, S)
BY DEF Total, Units

\* One more of one makes one more of all.
LEMMA TotalGrows ==
    ASSUME NEW S, IsFiniteSet(S), NEW f, NEW g, NEW k \in S,
           \A a \in S : f[a] \in Nat,
           \A a \in S : g[a] = IF a = k THEN f[a] + 1 ELSE f[a]
    PROVE  Total(g, S) = Total(f, S) + 1
  <1> DEFINE unit == <<k, f[k] + 1>>
  <1>1. Units(g, S) = Units(f, S) \cup {unit}
    <2>1. ASSUME NEW a \in S, a # k PROVE g[a] = f[a]
      BY <2>1
    <2>2. g[k] = f[k] + 1 /\ f[k] \in Nat
      OBVIOUS
    <2>3. 1 .. g[k] = (1 .. f[k]) \cup {f[k] + 1}
      BY <2>2
    <2>4. {k} \X (1 .. g[k]) = ({k} \X (1 .. f[k])) \cup {unit}
      BY <2>3
    <2> QED BY <2>1, <2>4 DEF Units
  <1>2. unit \notin Units(f, S)
    <2>1. f[k] + 1 \notin 1 .. f[k]
      OBVIOUS
    <2> QED BY <2>1 DEF Units
  <1>3. IsFiniteSet(Units(f, S))
    BY UnitsAreFinite
  <1> QED BY <1>1, <1>2, <1>3, FS_AddElement, FS_CardinalityType DEF Total

\* Numbers that are larger have a sum that is.
LEMMA TotalMonotonic ==
    ASSUME NEW S, IsFiniteSet(S), NEW f, NEW g, \A a \in S : f[a] \in Nat /\ g[a] \in Nat,
           \A a \in S : f[a] <= g[a]
    PROVE  Total(f, S) <= Total(g, S)
  <1>1. Units(f, S) \subseteq Units(g, S)
    <2>1. \A a \in S : 1 .. f[a] \subseteq 1 .. g[a]
      OBVIOUS
    <2> QED BY <2>1 DEF Units
  <1>2. IsFiniteSet(Units(g, S))
    BY UnitsAreFinite
  <1> QED BY <1>1, <1>2, FS_Subset DEF Total

\* With one element more a sum is larger by its number.
LEMMA TotalOfMore ==
    ASSUME NEW S, IsFiniteSet(S), NEW f, \A a \in S : f[a] \in Nat,
           NEW A \in SUBSET S, NEW b \in S \ A
    PROVE  Total(f, A) + f[b] <= Total(f, S)
  <1> DEFINE more == {b} \X (1 .. f[b])
  <1>1. f[b] \in Nat /\ IsFiniteSet(A) /\ IsFiniteSet({b}) /\ Cardinality({b}) = 1
    BY FS_Subset, FS_Singleton
  <1>2. 1 \in Int /\ f[b] \in Int
    BY <1>1
  <1>3. IsFiniteSet(1 .. f[b]) /\ Cardinality(1 .. f[b]) = f[b]
    <2>1. IsFiniteSet(1 .. f[b]) /\ Cardinality(1 .. f[b]) = IF 1 > f[b] THEN 0 ELSE f[b] - 1 + 1
      BY <1>2, FS_Interval
    <2> QED BY <1>1, <2>1
  <1>4. IsFiniteSet(more) /\ Cardinality(more) = f[b]
    <2>1. IsFiniteSet(more) /\ Cardinality(more) = Cardinality({b}) * Cardinality(1 .. f[b])
      BY <1>1, <1>3, FS_Product
    <2> HIDE DEF more
    <2> QED BY <1>1, <1>3, <2>1
  <1>5. IsFiniteSet(Units(f, A)) /\ Total(f, A) \in Nat
    BY <1>1, UnitsAreFinite
  <1>6. IsFiniteSet(Units(f, S))
    BY UnitsAreFinite
  <1>7. Units(f, A) \cap more = {} /\ Units(f, A) \cup more \subseteq Units(f, S)
    BY DEF Units
  <1>8. Cardinality(Units(f, A) \cup more) = Total(f, A) + f[b]
    <2> HIDE DEF more
    <2>1. Cardinality(Units(f, A) \cup more)
              = Cardinality(Units(f, A)) + Cardinality(more) - Cardinality(Units(f, A) \cap more)
      BY <1>4, <1>5, FS_Union
    <2>2. Cardinality(Units(f, A) \cap more) = 0
      BY <1>7, FS_EmptySet
    <2> QED BY <1>1, <1>4, <1>5, <2>1, <2>2 DEF Total
  <1> HIDE DEF more
  <1> QED BY <1>6, <1>7, <1>8, FS_Subset DEF Total

\* The sum of sums.
LEMMA TotalAdds ==
    ASSUME NEW S, IsFiniteSet(S), NEW f, NEW g, NEW h,
           \A a \in S : f[a] \in Nat /\ g[a] \in Nat /\ h[a] = f[a] + g[a]
    PROVE  Total(h, S) = Total(f, S) + Total(g, S)
  <1> DEFINE G == Units(g, S)
             upper == {<<u[1], f[u[1]] + u[2]>> : u \in G}
             up == [u \in G |-> <<u[1], f[u[1]] + u[2]>>]
  <1>1. IsFiniteSet(Units(f, S)) /\ IsFiniteSet(G) /\ Total(f, S) \in Nat /\ Total(g, S) \in Nat
    BY UnitsAreFinite
  <1>2. \A u \in G : u = <<u[1], u[2]>> /\ u[1] \in S /\ u[2] \in 1 .. g[u[1]]
    BY DEF Units
  <1>3. up \in Bijection(G, upper)
    <2>1. up \in [G -> upper] /\ \A t \in upper : \E u \in G : up[u] = t
      OBVIOUS
    <2>2. ASSUME NEW u \in G, NEW w \in G, up[u] = up[w] PROVE u = w
      <3>1. u[1] = w[1] /\ f[u[1]] + u[2] = f[w[1]] + w[2]
        BY <2>2
      <3>2. f[u[1]] \in Nat /\ u[2] \in Nat /\ w[2] \in Nat
        BY <1>2
      <3> QED BY <1>2, <3>1, <3>2
    <2> QED BY <2>1, <2>2, Fun_IsBij
  <1>4. IsFiniteSet(upper) /\ Cardinality(upper) = Total(g, S)
    <2> HIDE DEF up, upper
    <2>1. ExistsBijection(G, upper)
      BY <1>3 DEF ExistsBijection
    <2>2. IsFiniteSet(upper) /\ Cardinality(upper) = Cardinality(G)
      BY <1>1, <2>1, FS_Bijection
    <2> QED BY <2>2 DEF Total
  <1>5. Units(h, S) = Units(f, S) \cup upper
    <2>1. ASSUME NEW a \in S, NEW k PROVE <<a, k>> \in Units(h, S) <=> k \in 1 .. h[a]
      BY DEF Units
    <2>2. ASSUME NEW a \in S, NEW k PROVE <<a, k>> \in Units(f, S) <=> k \in 1 .. f[a]
      BY DEF Units
    <2>3. ASSUME NEW a \in S, NEW k
          PROVE  <<a, k>> \in upper <=> \E i \in 1 .. g[a] : k = f[a] + i
      <3>1. <<a, k>> \in upper <=> \E u \in G : a = u[1] /\ k = f[a] + u[2]
        BY <1>2
      <3>2. \A i \in 1 .. g[a] : <<a, i>> \in G
        BY DEF Units
      <3> QED BY <1>2, <3>1, <3>2
    <2>4. ASSUME NEW a \in S, NEW k
          PROVE  k \in 1 .. h[a] <=> k \in 1 .. f[a] \/ \E i \in 1 .. g[a] : k = f[a] + i
      <3>1. f[a] \in Nat /\ g[a] \in Nat /\ h[a] = f[a] + g[a]
        OBVIOUS
      <3>2. ASSUME k \in 1 .. h[a], k \notin 1 .. f[a]
            PROVE  \E i \in 1 .. g[a] : k = f[a] + i
        <4>1. k - f[a] \in 1 .. g[a] /\ k = f[a] + (k - f[a])
          BY <3>1, <3>2
        <4> QED BY <4>1
      <3> QED BY <3>1, <3>2
    <2>5. ASSUME NEW a \in S, NEW k
          PROVE  <<a, k>> \in Units(h, S) <=> <<a, k>> \in Units(f, S) \cup upper
      BY <2>1, <2>2, <2>3, <2>4
    <2>6. /\ \A x \in Units(h, S) : \E a \in S : \E k \in Nat : x = <<a, k>>
          /\ \A x \in Units(f, S) : \E a \in S : \E k \in Nat : x = <<a, k>>
      BY DEF Units
    <2>7. \A x \in upper : \E a \in S : \E k : x = <<a, k>>
      BY <1>2
    <2> HIDE DEF upper
    <2> QED BY <2>5, <2>6, <2>7
  <1>6. Units(f, S) \cap upper = {}
    <2>1. ASSUME NEW u \in G PROVE <<u[1], f[u[1]] + u[2]>> \notin Units(f, S)
      <3>1. f[u[1]] \in Nat /\ u[2] \in Nat /\ u[2] >= 1
        BY <1>2
      <3>2. f[u[1]] + u[2] \notin 1 .. f[u[1]]
        BY <3>1
      <3> QED BY <3>2 DEF Units
    <2> QED BY <2>1
  <1>7. Cardinality(Units(f, S) \cup upper)
            = Cardinality(Units(f, S)) + Cardinality(upper) - Cardinality(Units(f, S) \cap upper)
    <2> HIDE DEF upper
    <2> QED BY <1>1, <1>4, FS_Union
  <1>8. Cardinality(Units(f, S) \cap upper) = 0
    BY <1>6, FS_EmptySet
  <1> HIDE DEF upper, up, G
  <1> QED BY <1>1, <1>4, <1>5, <1>7, <1>8 DEF Total

LEMMA TotalTwice ==
    ASSUME NEW S, IsFiniteSet(S), NEW f, \A a \in S : f[a] \in Nat
    PROVE  Total([a \in S |-> 2 * f[a]], S) = 2 * Total(f, S)
  <1> DEFINE g == [a \in S |-> 2 * f[a]]
  <1>1. \A a \in S : f[a] \in Nat /\ g[a] = f[a] + f[a]
    OBVIOUS
  <1>2. Total(g, S) = Total(f, S) + Total(f, S)
    <2> HIDE DEF g
    <2> QED BY <1>1, TotalAdds
  <1>3. Total(f, S) \in Nat
    BY UnitsAreFinite
  <1>4. Total(g, S) = 2 * Total(f, S)
    <2> HIDE DEF g
    <2> QED BY <1>2, <1>3
  <1> QED BY <1>4

LEMMA TotalTenTimes ==
    ASSUME NEW S, IsFiniteSet(S), NEW f, \A a \in S : f[a] \in Nat
    PROVE  Total([a \in S |-> 10 * f[a]], S) = 10 * Total(f, S)
  <1> DEFINE two   == [a \in S |-> 2 * f[a]]
             four  == [a \in S |-> 2 * two[a]]
             eight == [a \in S |-> 2 * four[a]]
             ten   == [a \in S |-> 10 * f[a]]
  <1>1. \A a \in S : /\ f[a] \in Nat /\ two[a] \in Nat /\ four[a] \in Nat /\ eight[a] \in Nat
                     /\ ten[a] = eight[a] + two[a]
    OBVIOUS
  <1>2. Total(two, S) = 2 * Total(f, S)
    BY TotalTwice
  <1>3. Total(four, S) = 2 * Total(two, S)
    <2> HIDE DEF two
    <2> QED BY <1>1, TotalTwice
  <1>4. Total(eight, S) = 2 * Total(four, S)
    <2> HIDE DEF four
    <2> QED BY <1>1, TotalTwice
  <1>5. Total(ten, S) = Total(eight, S) + Total(two, S)
    <2> HIDE DEF two, eight, ten
    <2> QED BY <1>1, TotalAdds
  <1>6. Total(f, S) \in Nat
    BY UnitsAreFinite
  <1>7. Total(ten, S) = 10 * Total(f, S)
    <2> HIDE DEF two, four, eight, ten
    <2> QED BY <1>2, <1>3, <1>4, <1>5, <1>6
  <1> QED BY <1>7
=============================================================================
