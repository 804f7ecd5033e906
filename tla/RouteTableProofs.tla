-------------------------- MODULE RouteTableProofs --------------------------
(***************************************************************************)
(* Proofs about the route table: whatever the routes that were announced   *)
(* and the order they are merged in, every list of the table holds each of *)
(* its hostname's routes once, the longest path first, and routes of one   *)
(* provider that tie in the provider's order.  The answers follow from it. *)
(***************************************************************************)
EXTENDS RouteTable, ListProofs, SequenceTheorems, TLAPS

\* What the route lists of all providers are.
Messages == [Providers -> Seq(Route)]

-----------------------------------------------------------------------------
(* Lengths of paths *)

Lengths(path) == [i \in DOMAIN path |-> 1 + Width[path[i]]]

LEMMA PathType ==
    ASSUME NEW path \in Paths
    PROVE  /\ path \in Seq(Segments) /\ Len(path) \in Nat /\ Len(path) >= 1
           /\ DOMAIN path = 1 .. Len(path) /\ IsFiniteSet(DOMAIN path)
           /\ \A i \in DOMAIN path : path[i] \in Segments /\ Lengths(path)[i] \in Nat
           /\ \A i \in DOMAIN path : Lengths(path)[i] >= 1
  <1>1. path \in Seq(Segments) /\ path # <<>>
    BY DEF Paths
  <1>2. Len(path) \in Nat /\ Len(path) >= 1 /\ DOMAIN path = 1 .. Len(path)
    BY <1>1
  <1>3. IsFiniteSet(1 .. Len(path))
    BY <1>2, FS_Interval
  <1>4. ASSUME NEW i \in DOMAIN path
        PROVE  /\ path[i] \in Segments /\ Lengths(path)[i] \in Nat
               /\ Lengths(path)[i] >= 1
    <2>1. path[i] \in Segments
      BY <1>1
    <2>2. Width[path[i]] \in Nat
      BY <2>1, NamesAssumption
    <2>3. Lengths(path)[i] = 1 + Width[path[i]]
      BY DEF Lengths
    <2> QED BY <2>1, <2>2, <2>3
  <1> QED BY <1>1, <1>2, <1>3, <1>4

LEMMA PathLengthIs == \A path : PathLength(path) = Total(Lengths(path), DOMAIN path)
BY DEF PathLength, Lengths

LEMMA LengthType == ASSUME NEW path \in Paths PROVE PathLength(path) \in Nat
BY PathType, PathLengthIs, UnitsAreFinite

\* More slashes and names, a longer path.
LEMMA LongerByOne ==
    ASSUME NEW p \in Paths, NEW q \in Paths, NEW u,
           Units(Lengths(p), DOMAIN p) \subseteq Units(Lengths(q), DOMAIN q),
           u \in Units(Lengths(q), DOMAIN q), u \notin Units(Lengths(p), DOMAIN p)
    PROVE  PathLength(p) < PathLength(q)
  <1> DEFINE P == Units(Lengths(p), DOMAIN p)
             Q == Units(Lengths(q), DOMAIN q)
  <1>1. IsFiniteSet(P) /\ IsFiniteSet(Q)
    BY PathType, UnitsAreFinite
  <1>2. P \cup {u} \subseteq Q /\ u \notin P
    OBVIOUS
  <1>3. PathLength(p) = Cardinality(P) /\ PathLength(q) = Cardinality(Q)
    BY PathLengthIs DEF Total
  <1> HIDE DEF P, Q
  <1>4. Cardinality(P \cup {u}) = Cardinality(P) + 1
    BY <1>1, <1>2, FS_AddElement
  <1>5. Cardinality(P \cup {u}) <= Cardinality(Q) /\ IsFiniteSet(P \cup {u})
    BY <1>1, <1>2, FS_Subset
  <1>6. Cardinality(P) \in Nat /\ Cardinality(Q) \in Nat
    BY <1>1, FS_CardinalityType
  <1> QED BY <1>3, <1>4, <1>5, <1>6

LEMMA PrefixType ==
    ASSUME NEW path \in Paths, NEW n \in 1 .. Len(path)
    PROVE  /\ SubSeq(path, 1, n) \in Paths /\ Len(SubSeq(path, 1, n)) = n
           /\ \A i \in 1 .. n : SubSeq(path, 1, n)[i] = path[i]
  <1>1. \A i \in 1 .. n : path[i] \in Segments
    BY PathType
  <1>2. n \in Int /\ 1 \in Int /\ 1 <= n
    BY PathType
  <1>3. /\ SubSeq(path, 1, n) \in Seq(Segments)
        /\ Len(SubSeq(path, 1, n)) = IF 1 <= n THEN n - 1 + 1 ELSE 0
        /\ \A i \in 1 .. n - 1 + 1 : SubSeq(path, 1, n)[i] = path[1 + i - 1]
    BY <1>1, <1>2, SubSeqProperties
  <1>4. Len(SubSeq(path, 1, n)) = n
    BY <1>2, <1>3
  <1>5. \A i \in 1 .. n : SubSeq(path, 1, n)[i] = path[i]
    <2> TAKE i \in 1 .. n
    <2>1. i \in 1 .. n - 1 + 1 /\ 1 + i - 1 = i
      BY <1>2
    <2> QED BY <1>3, <2>1
  <1>6. SubSeq(path, 1, n) # <<>>
    BY <1>2, <1>4, EmptySeq
  <1> QED BY <1>3, <1>4, <1>5, <1>6 DEF Paths

LEMMA PrefixIsShorter ==
    ASSUME NEW path \in Paths, NEW m \in 1 .. Len(path), NEW n \in 1 .. Len(path), m < n
    PROVE  PathLength(SubSeq(path, 1, m)) < PathLength(SubSeq(path, 1, n))
  <1> DEFINE p == SubSeq(path, 1, m)
             q == SubSeq(path, 1, n)
             u == <<m + 1, 1>>
  <1>1. p \in Paths /\ q \in Paths /\ Len(p) = m /\ Len(q) = n /\ m \in Nat /\ n \in Nat
    BY PrefixType, PathType
  <1>2. DOMAIN p = 1 .. m /\ DOMAIN q = 1 .. n
    BY <1>1, PathType
  <1>3. \A i \in 1 .. m : i \in 1 .. n /\ p[i] = q[i]
    BY <1>1, PrefixType
  <1> HIDE DEF p, q
  <1>4. ASSUME NEW i \in 1 .. m PROVE Lengths(p)[i] = Lengths(q)[i]
    BY <1>2, <1>3 DEF Lengths
  <1>5. Units(Lengths(p), DOMAIN p) \subseteq Units(Lengths(q), DOMAIN q)
    BY <1>2, <1>3, <1>4 DEF Units
  <1>6. u \notin Units(Lengths(p), DOMAIN p)
    <2>1. m + 1 \notin DOMAIN p
      BY <1>1, <1>2
    <2> QED BY <2>1 DEF Units
  <1>7. u \in Units(Lengths(q), DOMAIN q)
    <2>1. m + 1 \in DOMAIN q
      BY <1>1, <1>2
    <2>2. Lengths(q)[m + 1] \in Nat /\ Lengths(q)[m + 1] >= 1
      BY <1>1, <2>1, PathType
    <2>3. 1 \in 1 .. Lengths(q)[m + 1]
      BY <2>2
    <2> QED BY <2>1, <2>3 DEF Units
  <1>8. PathLength(p) < PathLength(q)
    BY <1>1, <1>5, <1>6, <1>7, LongerByOne
  <1> QED BY <1>8 DEF p, q

LEMMA RootIsShortest ==
    ASSUME NEW path \in Paths, path # Root
    PROVE  PathLength(Root) < PathLength(path)
  <1>1. Root \in Paths /\ DOMAIN Root = {1} /\ Root[1] = Empty
    BY NamesAssumption DEF Root, Paths
  <1>2. Lengths(Root)[1] = 1
    <2>1. Width[Empty] = 0
      BY NamesAssumption DEF Segments
    <2> QED BY <1>1, <2>1 DEF Lengths
  <1>3. Units(Lengths(Root), DOMAIN Root) = {<<1, 1>>}
    BY <1>1, <1>2 DEF Units
  <1>4. 1 \in DOMAIN path /\ Lengths(path)[1] \in Nat /\ Lengths(path)[1] >= 1
    BY PathType
  <1>5. <<1, 1>> \in Units(Lengths(path), DOMAIN path)
    <2>1. 1 \in 1 .. Lengths(path)[1]
      BY <1>4
    <2> QED BY <1>4, <2>1 DEF Units
  <1>6. CASE Len(path) = 1
    <2>1. path[1] # Empty
      <3>1. Len(Root) = 1 /\ Root \in Seq(Segments) /\ path \in Seq(Segments)
        BY <1>1, PathType DEF Paths, Root
      <3>2. ASSUME path[1] = Empty PROVE \A i \in 1 .. Len(Root) : Root[i] = path[i]
        <4> TAKE i \in 1 .. Len(Root)
        <4>1. i = 1
          BY <3>1
        <4> QED BY <1>1, <3>2, <4>1
      <3>3. ASSUME path[1] = Empty PROVE Root = path
        <4>1. Len(Root) = Len(path)
          BY <1>6, <3>1
        <4>2. \A s, t \in Seq(Segments) :
                 Len(s) = Len(t) /\ (\A i \in 1 .. Len(s) : s[i] = t[i]) => s = t
          BY SeqEqual
        <4> QED BY <3>1, <3>2, <3>3, <4>1, <4>2
      <3> QED BY <3>3
    <2>2. path[1] \in Segments /\ Width[path[1]] \in Nat /\ Width[path[1]] # 0
      BY <1>4, <2>1, PathType, NamesAssumption
    <2>3. Lengths(path)[1] = 1 + Width[path[1]]
      BY <1>4 DEF Lengths
    <2>4. 2 \in 1 .. Lengths(path)[1]
      BY <2>2, <2>3
    <2>5. <<1, 2>> \in Units(Lengths(path), DOMAIN path)
      BY <1>4, <2>4 DEF Units
    <2> QED BY <1>1, <1>3, <1>5, <2>5, LongerByOne
  <1>7. CASE Len(path) # 1
    <2>1. 2 \in DOMAIN path
      <3>1. Len(path) \in Nat /\ Len(path) >= 1 /\ DOMAIN path = 1 .. Len(path)
        BY PathType
      <3> QED BY <1>7, <3>1
    <2>2. 1 \in 1 .. Lengths(path)[2]
      BY <2>1, PathType
    <2>3. <<2, 1>> \in Units(Lengths(path), DOMAIN path)
      BY <2>1, <2>2 DEF Units
    <2> QED BY <1>1, <1>3, <1>5, <2>3, LongerByOne
  <1> QED BY <1>6, <1>7

-----------------------------------------------------------------------------
(* The sort *)

\* What the sort compares, at every position.
LengthsOf(list) == [k \in DOMAIN list |-> PathLength(list[k].path)]

LEMMA LengthsOfType ==
    ASSUME NEW list \in Seq(Route)
    PROVE  /\ DOMAIN list = 1 .. Len(list) /\ Len(list) \in Nat
           /\ IsFiniteSet(DOMAIN list) /\ DOMAIN list \in SUBSET Nat
           /\ LengthsOf(list) \in [DOMAIN list -> Nat]
           /\ \A k \in DOMAIN list : list[k] \in Route /\ list[k].path \in Paths
  <1>1. DOMAIN list = 1 .. Len(list) /\ Len(list) \in Nat
    OBVIOUS
  <1>2. \A k \in DOMAIN list : list[k] \in Route
    BY <1>1
  <1>3. \A k \in DOMAIN list : list[k].path \in Paths
    BY <1>2 DEF Route
  <1>4. LengthsOf(list) \in [DOMAIN list -> Nat]
    BY <1>3, LengthType DEF LengthsOf
  <1> QED BY <1>1, <1>2, <1>3, <1>4, FS_Interval

LEMMA LongerFirstIs ==
    ASSUME NEW list \in Seq(Route), NEW i \in DOMAIN list, NEW j \in DOMAIN list
    PROVE  LET key == LengthsOf(list)
           IN  <<i, j>> \in LongerFirst(list)
                   <=> (key[i] > key[j] \/ (key[i] = key[j] /\ i < j))
  <1> DEFINE key == LengthsOf(list)
  <1>1. <<i, j>> \in LongerFirst(list) <=> GoesBefore(list, i, j)
    BY DEF LongerFirst
  <1>2. key[i] = PathLength(list[i].path) /\ key[j] = PathLength(list[j].path)
    BY DEF LengthsOf
  <1>3. key[i] \in Nat /\ key[j] \in Nat /\ i \in Nat /\ j \in Nat
    BY LengthsOfType
  <1> HIDE DEF key
  <1>4. GoesBefore(list, i, j) <=> (i < j /\ key[i] >= key[j]) \/ (i > j /\ key[i] > key[j])
    BY <1>2 DEF GoesBefore
  <1>5. i = j \/ i < j \/ i > j
    BY <1>3
  <1>6. key[i] >= key[j] <=> key[i] > key[j] \/ key[i] = key[j]
    BY <1>3
  <1>7. i = j => key[i] = key[j] /\ ~(i < j) /\ ~(i > j)
    BY <1>3
  <1> QED BY <1>1, <1>3, <1>4, <1>5, <1>6, <1>7 DEF key

LEMMA LongerFirstIsStrict ==
    ASSUME NEW list \in Seq(Route)
    PROVE  IsStrictOrder(LongerFirst(list), DOMAIN list)
  <1> DEFINE key == LengthsOf(list)
  <1>1. DOMAIN list \in SUBSET Nat /\ key \in [DOMAIN list -> Nat]
    BY LengthsOfType
  <1>2. \A i, j \in DOMAIN list :
           <<i, j>> \in LongerFirst(list) <=> (key[i] > key[j] \/ (key[i] = key[j] /\ i < j))
    BY LongerFirstIs
  <1> HIDE DEF key
  <1> QED BY <1>1, <1>2, DownIsStrict

-----------------------------------------------------------------------------
(* The merged routes *)

LEMMA EntriesType ==
    ASSUME NEW m \in Messages
    PROVE  /\ IsFiniteSet(Entries(m))
           /\ \A e \in Entries(m) : /\ e[1] \in Providers /\ e[2] \in DOMAIN m[e[1]] /\ e[2] \in Nat
                                     /\ e = <<e[1], e[2]>> /\ At(m, e) \in Route
           /\ \A p \in Providers : \A i \in DOMAIN m[p] : <<p, i>> \in Entries(m)
  <1> DEFINE lengths == [p \in Providers |-> Len(m[p])]
  <1>1. ASSUME NEW p \in Providers
        PROVE  m[p] \in Seq(Route) /\ lengths[p] \in Nat /\ DOMAIN m[p] = 1 .. lengths[p]
    BY DEF Messages
  <1>2. Entries(m) = Units(lengths, Providers)
    <2> HIDE DEF lengths
    <2>1. \A p \in Providers : {p} \X (DOMAIN m[p]) = {p} \X (1 .. lengths[p])
      BY <1>1
    <2> QED BY <2>1 DEF Entries, Units
  <1>3. IsFiniteSet(Units(lengths, Providers))
    <2> HIDE DEF lengths
    <2> QED BY <1>1, AnnouncementsAssumption, UnitsAreFinite
  <1>4. ASSUME NEW e \in Entries(m)
        PROVE  /\ e[1] \in Providers /\ e[2] \in DOMAIN m[e[1]] /\ e[2] \in Nat
               /\ e = <<e[1], e[2]>> /\ At(m, e) \in Route
    <2>1. PICK p \in Providers : e \in {p} \X (DOMAIN m[p])
      BY DEF Entries
    <2>2. e[1] = p /\ e[2] \in DOMAIN m[p] /\ e = <<e[1], e[2]>>
      BY <2>1
    <2>3. e[2] \in Nat /\ m[p][e[2]] \in Route
      BY <1>1, <2>2
    <2> QED BY <2>2, <2>3 DEF At
  <1>5. \A p \in Providers : \A i \in DOMAIN m[p] : <<p, i>> \in Entries(m)
    BY DEF Entries
  <1> QED BY <1>2, <1>3, <1>4, <1>5

Walk(m, o) == {p \in Entries(m) \X Entries(m) : Walked(o, p[1], p[2])}

LEMMA WalkIsStrict ==
    ASSUME NEW m \in Messages, NEW o \in Orders
    PROVE  IsStrictOrder(Walk(m, o), Entries(m))
  <1>1. \A p \in Providers : o[p] \in Nat
    BY AnnouncementsAssumption, FS_CardinalityType DEF Orders
  <1>2. \A d, e \in Entries(m) : <<d, e>> \in Walk(m, o) <=> Walked(o, d, e)
    BY DEF Walk
  <1>3. ASSUME NEW e \in Entries(m) PROVE e[2] \in Nat /\ o[e[1]] \in Nat
    BY <1>1, EntriesType
  <1>4. \A e \in Entries(m) : ~Walked(o, e, e)
    BY <1>3 DEF Walked
  <1>5. ASSUME NEW c \in Entries(m), NEW d \in Entries(m), NEW e \in Entries(m),
               Walked(o, c, d), Walked(o, d, e)
        PROVE  Walked(o, c, e)
    <2>1. /\ c[2] \in Nat /\ d[2] \in Nat /\ e[2] \in Nat
          /\ o[c[1]] \in Nat /\ o[d[1]] \in Nat /\ o[e[1]] \in Nat
      BY <1>3
    <2> QED BY <1>5, <2>1 DEF Walked
  <1>6. ASSUME NEW d \in Entries(m), NEW e \in Entries(m), ~Walked(o, d, e), ~Walked(o, e, d)
        PROVE  d = e
    <2>1. d[2] \in Nat /\ e[2] \in Nat /\ o[d[1]] \in Nat /\ o[e[1]] \in Nat
      BY <1>3
    <2>2. o[d[1]] = o[e[1]] /\ d[2] = e[2]
      BY <1>6, <2>1 DEF Walked
    <2>3. d[1] \in Providers /\ e[1] \in Providers /\ d = <<d[1], d[2]>> /\ e = <<e[1], e[2]>>
      BY EntriesType
    <2>4. d[1] = e[1]
      BY <2>2, <2>3 DEF Orders
    <2> QED BY <2>2, <2>3, <2>4
  <1> QED BY <1>2, <1>4, <1>5, <1>6 DEF IsStrictOrder

LEMMA MergedKeeps ==
    ASSUME NEW m \in Messages, NEW o \in Orders
    PROVE  LET order == InOrder(Walk(m, o), Entries(m))
               all   == Merged(m, o)
           IN  /\ all \in Seq(Route)
               /\ \A k \in DOMAIN all : order[k] \in Entries(m) /\ all[k] = At(m, order[k])
               /\ \A e \in Entries(m) : \E k \in DOMAIN all : order[k] = e
               /\ \A k, l \in DOMAIN all : k < l <=> <<order[k], order[l]>> \in Walk(m, o)
  <1> DEFINE n == Cardinality(Entries(m))
             order == InOrder(Walk(m, o), Entries(m))
  <1>1. /\ n \in Nat
        /\ order \in [1 .. n -> Entries(m)]
        /\ \A e \in Entries(m) : \E k \in 1 .. n : order[k] = e
        /\ \A k, l \in 1 .. n : k < l <=> <<order[k], order[l]>> \in Walk(m, o)
    BY EntriesType, WalkIsStrict, InOrderIsSorted
  <1>2. Merged(m, o) = [k \in 1 .. n |-> At(m, order[k])]
    BY DEF Merged, Walk
  <1> HIDE DEF n, order
  <1>3. \A k \in 1 .. n : order[k] \in Entries(m) /\ At(m, order[k]) \in Route
    BY <1>1, EntriesType
  <1>4. Merged(m, o) \in Seq(Route) /\ DOMAIN Merged(m, o) = 1 .. n
    BY <1>1, <1>2, <1>3
  <1> QED BY <1>1, <1>2, <1>3, <1>4 DEF order

-----------------------------------------------------------------------------
(* One list of the table *)

\* f finds the announced route of every route of the list.
FoundBy(f, m, h, list) ==
    /\ \A k \in DOMAIN list : list[k] = At(m, f[k]) /\ list[k].host = h
    /\ \A e \in Entries(m) : At(m, e).host = h => \E k \in DOMAIN list : f[k] = e
    /\ \A k, l \in DOMAIN list : k < l =>
          /\ f[k] # f[l]
          /\ LengthsOf(list)[k] >= LengthsOf(list)[l]
          /\ LengthsOf(list)[k] = LengthsOf(list)[l] /\ f[k][1] = f[l][1] => f[k][2] < f[l][2]

\* The list has every announced route of the hostname h once, the longest path first;
\* routes of one provider whose paths are equally long have the provider's order.
IsTable(m, h, list) == \E f \in [DOMAIN list -> Entries(m)] : FoundBy(f, m, h, list)

LEMMA SortedRoutesAreATable ==
    ASSUME NEW m \in Messages, NEW o \in Orders, NEW h
    PROVE  /\ ByPathDesc(Named(Merged(m, o), h)) \in Seq(Route)
           /\ IsTable(m, h, ByPathDesc(Named(Merged(m, o), h)))
  <1> DEFINE walk  == InOrder(Walk(m, o), Entries(m))
             all   == Merged(m, o)
             K     == {i \in DOMAIN all : all[i].host = h}
             pick  == InOrder(Ascending(K), K)
             named == Only(all, K)
             place == InOrder(LongerFirst(named), DOMAIN named)
             list  == Sorted(LongerFirst(named), named)
             f     == [k \in DOMAIN list |-> walk[pick[place[k]]]]
  <1>1. /\ all \in Seq(Route)
        /\ \A k \in DOMAIN all : walk[k] \in Entries(m) /\ all[k] = At(m, walk[k])
        /\ \A e \in Entries(m) : \E k \in DOMAIN all : walk[k] = e
        /\ \A k, l \in DOMAIN all : k < l <=> <<walk[k], walk[l]>> \in Walk(m, o)
    BY MergedKeeps
  <1>2. K \in SUBSET DOMAIN all /\ \A i \in DOMAIN all : i \in K <=> all[i].host = h
    OBVIOUS
  <1> HIDE DEF walk, all, K
  <1>3. /\ named \in Seq(Route)
        /\ \A k \in DOMAIN named : pick[k] \in K /\ named[k] = all[pick[k]]
        /\ \A i \in K : \E k \in DOMAIN named : pick[k] = i
        /\ \A i, j \in DOMAIN named : i < j <=> pick[i] < pick[j]
    <2>1. /\ named \in Seq(Route) /\ DOMAIN named = 1 .. Cardinality(K)
          /\ \A k \in 1 .. Cardinality(K) : pick[k] \in K /\ named[k] = all[pick[k]]
          /\ \A i \in K : \E k \in 1 .. Cardinality(K) : pick[k] = i
          /\ \A i, j \in 1 .. Cardinality(K) : i < j <=> pick[i] < pick[j]
      BY <1>1, <1>2, OnlyKeeps
    <2> HIDE DEF named, pick
    <2> QED BY <2>1
  <1> HIDE DEF named, pick
  <1>4. /\ list \in Seq(Route)
        /\ DOMAIN list = DOMAIN named
        /\ \A k \in DOMAIN list : place[k] \in DOMAIN named /\ list[k] = named[place[k]]
        /\ \A i \in DOMAIN named : \E k \in DOMAIN list : place[k] = i
        /\ \A i, j \in DOMAIN list : i < j <=> <<place[i], place[j]>> \in LongerFirst(named)
    <2>1. IsStrictOrder(LongerFirst(named), DOMAIN named)
      BY <1>3, LongerFirstIsStrict
    <2>2. /\ list \in Seq(Route)
          /\ DOMAIN list = DOMAIN named
          /\ \A k \in DOMAIN named : place[k] \in DOMAIN named /\ list[k] = named[place[k]]
          /\ \A i \in DOMAIN named : \E k \in DOMAIN named : place[k] = i
          /\ \A i, j \in DOMAIN named : i < j <=> <<place[i], place[j]>> \in LongerFirst(named)
      BY <1>3, <2>1, SortedKeeps
    <2> HIDE DEF list, place
    <2> QED BY <2>2
  <1> HIDE DEF list, place
  <1>5. \A k \in DOMAIN list : f[k] = walk[pick[place[k]]]
    OBVIOUS
  <1>6. \A k \in DOMAIN list : /\ place[k] \in DOMAIN named /\ pick[place[k]] \in K
                               /\ pick[place[k]] \in DOMAIN all
                               /\ walk[pick[place[k]]] \in Entries(m)
                               /\ list[k] = all[pick[place[k]]]
    BY <1>1, <1>2, <1>3, <1>4
  <1>7. f \in [DOMAIN list -> Entries(m)]
    BY <1>6
  <1> HIDE DEF f
  <1>8. \A k \in DOMAIN list : list[k] = At(m, f[k]) /\ list[k].host = h
    BY <1>1, <1>2, <1>5, <1>6
  <1>9. ASSUME NEW e \in Entries(m), At(m, e).host = h
        PROVE  \E k \in DOMAIN list : f[k] = e
    <2>1. PICK i \in DOMAIN all : walk[i] = e
      BY <1>1
    <2>2. i \in K
      BY <1>1, <1>2, <1>9, <2>1
    <2>3. PICK j \in DOMAIN named : pick[j] = i
      BY <1>3, <2>2
    <2>4. PICK k \in DOMAIN list : place[k] = j
      BY <1>4
    <2> QED BY <1>5, <2>1, <2>3, <2>4
  <1>10. ASSUME NEW k \in DOMAIN list, NEW l \in DOMAIN list, k < l
         PROVE  /\ f[k] # f[l]
                /\ LengthsOf(list)[k] >= LengthsOf(list)[l]
                /\ LengthsOf(list)[k] = LengthsOf(list)[l] /\ f[k][1] = f[l][1] => f[k][2] < f[l][2]
    <2> DEFINE a == place[k]
               b == place[l]
               key == LengthsOf(named)
    <2>1. /\ a \in DOMAIN named /\ b \in DOMAIN named /\ a \in Nat /\ b \in Nat
          /\ key[a] \in Nat /\ key[b] \in Nat
      BY <1>3, <1>6, LengthsOfType
    <2>2. key[a] = LengthsOf(list)[k] /\ key[b] = LengthsOf(list)[l]
      BY <1>4, <2>1 DEF LengthsOf
    <2>3. <<a, b>> \in LongerFirst(named)
      BY <1>4, <1>10
    <2>4. key[a] > key[b] \/ (key[a] = key[b] /\ a < b)
      BY <1>3, <2>1, <2>3, LongerFirstIs
    <2> HIDE DEF a, b, key
    <2>5. a # b
      BY <2>1, <2>4
    <2>6. pick[a] \in DOMAIN all /\ pick[b] \in DOMAIN all /\ pick[a] \in Nat /\ pick[b] \in Nat
      BY <1>1, <1>2, <1>3, <2>1, LengthsOfType
    <2>7. (a < b => pick[a] < pick[b]) /\ (b < a => pick[b] < pick[a])
      BY <1>3, <2>1
    <2>8. f[k] = walk[pick[a]] /\ f[l] = walk[pick[b]]
      BY <1>5 DEF a, b
    <2>9. /\ f[k] \in Entries(m) /\ f[l] \in Entries(m)
          /\ pick[a] < pick[b] <=> <<f[k], f[l]>> \in Walk(m, o)
          /\ pick[b] < pick[a] <=> <<f[l], f[k]>> \in Walk(m, o)
      BY <1>1, <1>7, <2>6, <2>8
    <2>10. f[k] # f[l]
      <3>1. <<f[k], f[l]>> \in Walk(m, o) \/ <<f[l], f[k]>> \in Walk(m, o)
        BY <2>1, <2>5, <2>7, <2>9
      <3> QED BY <2>9, <3>1, WalkIsStrict DEF IsStrictOrder
    <2>11. ASSUME key[a] = key[b], f[k][1] = f[l][1] PROVE f[k][2] < f[l][2]
      <3>1. Walked(o, f[k], f[l])
        BY <2>1, <2>4, <2>7, <2>9, <2>11 DEF Walk
      <3>2. o[f[k][1]] \in Nat
        BY <2>9, EntriesType, AnnouncementsAssumption, FS_CardinalityType DEF Orders
      <3> QED BY <2>11, <3>1, <3>2 DEF Walked
    <2>12. key[a] >= key[b]
      BY <2>1, <2>4
    <2> QED BY <2>2, <2>10, <2>11, <2>12
  <1>11. ByPathDesc(Named(Merged(m, o), h)) = list
    BY DEF ByPathDesc, Named, list, named, K, all
  <1>12. IsTable(m, h, list)
    BY <1>7, <1>8, <1>9, <1>10 DEF IsTable, FoundBy
  <1> QED BY <1>4, <1>11, <1>12

-----------------------------------------------------------------------------
(* The groups of the patterns *)

Compiled == Patterns \ Invalid
Group    == [pattern: Compiled, routes: Seq(Route)]

\* Every group is a list of the table, and every hostname that compiles has one.
AreGroups(m, groups) ==
    /\ groups \in Seq(Group)
    /\ \A i \in DOMAIN groups : /\ groups[i].routes # <<>>
                                /\ IsTable(m, groups[i].pattern, groups[i].routes)
    /\ \A e \in Entries(m) : At(m, e).host \in Compiled =>
          \E i \in DOMAIN groups : groups[i].pattern = At(m, e).host

LEMMA TableHasRoutes ==
    ASSUME NEW m, NEW h, NEW list \in Seq(Route), IsTable(m, h, list),
           NEW e \in Entries(m), At(m, e).host = h
    PROVE  list # <<>>
  <1>1. \E k \in DOMAIN list : TRUE
    BY DEF IsTable, FoundBy
  <1> QED BY <1>1

LEMMA PatternGroupsAreGroups ==
    ASSUME NEW m \in Messages, NEW o \in Orders
    PROVE  AreGroups(m, PatternGroups(Merged(m, o)))
  <1> DEFINE walk   == InOrder(Walk(m, o), Entries(m))
             all    == Merged(m, o)
             F      == FirstOfPattern(all)
             order  == InOrder(Ascending(F), F)
             n      == Cardinality(F)
             groups == PatternGroups(all)
  <1>1. /\ all \in Seq(Route)
        /\ \A k \in DOMAIN all : walk[k] \in Entries(m) /\ all[k] = At(m, walk[k])
        /\ \A e \in Entries(m) : \E k \in DOMAIN all : walk[k] = e
    BY MergedKeeps
  <1>2. IsFiniteSet(F) /\ F \in SUBSET Nat /\ F \in SUBSET DOMAIN all
    <2>1. F \in SUBSET DOMAIN all
      BY DEF FirstOfPattern
    <2> HIDE DEF F
    <2> QED BY <1>1, <2>1, LengthsOfType, FS_Subset
  <1>3. /\ n \in Nat /\ order \in [1 .. n -> F]
        /\ \A i \in F : \E k \in 1 .. n : order[k] = i
    <2> HIDE DEF F
    <2> QED BY <1>2, AscendingIsStrict, InOrderIsSorted
  <1>4. /\ DOMAIN order = 1 .. n
        /\ \A k \in 1 .. n : order[k] \in F /\ order[k] \in DOMAIN all
    BY <1>2, <1>3
  <1>5. groups = [k \in 1 .. n |-> [pattern |-> all[order[k]].host,
                                    routes  |-> ByPathDesc(Named(all, all[order[k]].host))]]
    BY <1>4 DEF PatternGroups
  <1>6. \A i \in F : all[i].host \in Compiled
    BY DEF FirstOfPattern, Compiled
  <1>7. \A g : /\ ByPathDesc(Named(all, g)) \in Seq(Route)
               /\ IsTable(m, g, ByPathDesc(Named(all, g)))
    BY SortedRoutesAreATable
  <1>8. ASSUME NEW e \in Entries(m), At(m, e).host \in Compiled
        PROVE  \E i \in F : all[i].host = At(m, e).host
    <2> DEFINE g == At(m, e).host
               K == {i \in DOMAIN all : all[i].host = g}
    <2>1. K # {}
      <3>1. PICK k \in DOMAIN all : walk[k] = e
        BY <1>1
      <3>2. k \in K
        BY <1>1, <3>1
      <3> QED BY <3>2
    <2>2. IsFiniteSet(K) /\ K \in SUBSET Nat
      <3>1. K \subseteq DOMAIN all
        OBVIOUS
      <3> HIDE DEF K
      <3> QED BY <1>1, <3>1, LengthsOfType, FS_Subset
    <2>3. PICK i \in K : \A j \in K : i <= j
      <3> HIDE DEF K
      <3> QED BY <2>1, <2>2, HasLeast
    <2>4. ASSUME NEW j \in 1 .. (i - 1) PROVE all[j].host # all[i].host
      <3>1. DOMAIN all = 1 .. Len(all) /\ Len(all) \in Nat /\ i \in 1 .. Len(all)
        BY <1>1, <2>3
      <3>2. j \in DOMAIN all /\ j \in Nat /\ i \in Nat /\ ~(i <= j)
        BY <3>1
      <3> QED BY <2>3, <3>2
    <2>5. i \in F
      BY <1>8, <2>3, <2>4 DEF FirstOfPattern, Compiled
    <2> QED BY <2>3, <2>5
  <1> HIDE DEF F, order, n, groups, all, walk
  <1>9. \A k \in 1 .. n : groups[k] \in Group
    BY <1>4, <1>5, <1>6, <1>7 DEF Group
  <1>10. groups \in Seq(Group) /\ DOMAIN groups = 1 .. n
    <2>1. groups \in [1 .. n -> Group]
      BY <1>5, <1>9
    <2> QED BY <1>3, <2>1
  <1>11. \A k \in 1 .. n : IsTable(m, groups[k].pattern, groups[k].routes)
    BY <1>5, <1>7
  <1>12. ASSUME NEW k \in 1 .. n PROVE groups[k].routes # <<>>
    <2>1. walk[order[k]] \in Entries(m) /\ At(m, walk[order[k]]).host = groups[k].pattern
      BY <1>1, <1>4, <1>5
    <2>2. groups[k].routes \in Seq(Route)
      BY <1>9 DEF Group
    <2> QED BY <1>11, <2>1, <2>2, TableHasRoutes
  <1>13. ASSUME NEW e \in Entries(m), At(m, e).host \in Compiled
         PROVE  \E k \in DOMAIN groups : groups[k].pattern = At(m, e).host
    <2>1. PICK i \in F : all[i].host = At(m, e).host
      BY <1>8, <1>13
    <2>2. PICK k \in 1 .. n : order[k] = i
      BY <1>3
    <2> QED BY <1>5, <1>10, <2>1, <2>2
  <1>14. AreGroups(m, groups)
    BY <1>10, <1>11, <1>12, <1>13 DEF AreGroups
  <1> QED BY <1>14 DEF groups, all

-----------------------------------------------------------------------------
(* The invariant *)

TableInv ==
    /\ messages \in Messages
    /\ \A p \in Providers : messages[p] = <<>> \/ messages[p] \in Announcements[p]
    /\ routes \in [Hosts -> Seq(Route)]
    /\ \A h \in Hosts : IsTable(messages, h, routes[h])
    /\ AreGroups(messages, regexRoutes)

LEMMA TableInit == ASSUME Init PROVE TableInv
  <1>1. messages \in Messages /\ \A p \in Providers : messages[p] = <<>>
    BY DEF Init, Messages
  <1>2. Entries(messages) = {}
    <2>1. \A p \in Providers : DOMAIN messages[p] = {}
      BY <1>1
    <2> QED BY <2>1 DEF Entries
  <1>3. routes \in [Hosts -> Seq(Route)]
    BY DEF Init
  <1>4. ASSUME NEW h \in Hosts PROVE IsTable(messages, h, routes[h])
    <2>1. DOMAIN routes[h] = {}
      BY DEF Init
    <2>2. [k \in {} |-> 0] \in [DOMAIN routes[h] -> Entries(messages)]
      BY <2>1
    <2>3. FoundBy([k \in {} |-> 0], messages, h, routes[h])
      BY <1>2, <2>1 DEF FoundBy
    <2> QED BY <2>2, <2>3 DEF IsTable
  <1>5. AreGroups(messages, regexRoutes)
    BY <1>2 DEF AreGroups, Init
  <1> QED BY <1>1, <1>3, <1>4, <1>5 DEF TableInv

LEMMA TableStep == ASSUME TableInv, [Next]_vars PROVE TableInv'
  <1>1. CASE UNCHANGED vars
    <2>1. /\ messages' = messages /\ routes' = routes /\ regexRoutes' = regexRoutes
      BY <1>1 DEF vars
    <2> QED BY <2>1 DEF TableInv
  <1>2. CASE Next
    <2>1. PICK p \in Providers : \E announced \in Announcements[p] : Update(p, announced)
      BY <1>2 DEF Next
    <2>2. PICK announced \in Announcements[p] : Update(p, announced)
      BY <2>1
    <2>3. announced \in Seq(Route) /\ messages' = [messages EXCEPT ![p] = announced]
      BY <2>2, AnnouncementsAssumption DEF Update
    <2>4. /\ messages' \in Messages
          /\ \A q \in Providers : messages'[q] = <<>> \/ messages'[q] \in Announcements[q]
      BY <2>3 DEF TableInv, Messages
    <2>5. PICK o \in Orders :
             /\ routes' = [h \in Hosts |-> ByPathDesc(Named(Merged(messages', o), h))]
             /\ regexRoutes' = PatternGroups(Merged(messages', o))
      BY <2>2 DEF Update
    <2>6. AreGroups(messages', regexRoutes')
      BY <2>4, <2>5, PatternGroupsAreGroups
    <2>7. \A h \in Hosts : /\ routes'[h] \in Seq(Route)
                           /\ IsTable(messages', h, routes'[h])
      BY <2>4, <2>5, SortedRoutesAreATable
    <2>8. routes' \in [Hosts -> Seq(Route)]
      BY <2>5, <2>7
    <2> QED BY <2>4, <2>6, <2>7, <2>8 DEF TableInv
  <1> QED BY <1>1, <1>2

LEMMA TableInvariance == Spec => []TableInv
  <1>1. Init => TableInv
    BY TableInit
  <1>2. TableInv /\ [Next]_vars => TableInv'
    BY TableStep
  <1> QED BY <1>1, <1>2, PTL DEF Spec

-----------------------------------------------------------------------------
(* Answers *)

\* The code's prefix test is the reference's.
LEMMA MatchesIsUnder ==
    ASSUME NEW r \in Route, NEW path \in Paths
    PROVE  PathMatches(r, path) <=> Under(r, path)
  <1>1. /\ r.path \in Paths /\ Len(r.path) \in Nat /\ Len(r.path) >= 1
        /\ Len(path) \in Nat
    BY PathType DEF Route
  <1>2. ASSUME Len(path) >= Len(r.path), SubSeq(path, 1, Len(r.path)) = r.path
        PROVE  \E n \in 1 .. Len(path) : r.path = SubSeq(path, 1, n)
    <2>1. Len(r.path) \in 1 .. Len(path)
      BY <1>1, <1>2
    <2> QED BY <1>2, <2>1
  <1>3. ASSUME NEW n \in 1 .. Len(path), r.path = SubSeq(path, 1, n)
        PROVE  Len(path) >= Len(r.path) /\ SubSeq(path, 1, Len(r.path)) = r.path
    <2>1. Len(r.path) = n
      BY <1>3, PrefixType
    <2> QED BY <1>1, <1>3, <2>1
  <1> QED BY <1>2, <1>3 DEF PathMatches, Under

\* The answer of the list whose first match is the k-th route.
AnswerAt(list, k) ==
    [route |-> <<list[k]>>,
     targets |-> IF list[k].pool = NoPool THEN <<list[k].target>>
                 ELSE Targets(Members(list, list[k]))]

LEMMA MatchPoolIs ==
    ASSUME NEW list \in Seq(Route), NEW path
    PROVE  /\ Matching(list, path) = {} => MatchPool(list, path) = NoAnswer
           /\ Matching(list, path) # {} =>
                 \E k \in Matching(list, path) :
                    /\ \A l \in Matching(list, path) : k <= l
                    /\ MatchPool(list, path) = AnswerAt(list, k)
  <1>1. Matching(list, path) = {} => MatchPool(list, path) = NoAnswer
    BY DEF MatchPool
  <1>2. ASSUME Matching(list, path) # {}
        PROVE  \E k \in Matching(list, path) :
                    /\ \A l \in Matching(list, path) : k <= l
                    /\ MatchPool(list, path) = AnswerAt(list, k)
    <2> DEFINE K == Matching(list, path)
    <2>1. K \subseteq DOMAIN list
      BY DEF Matching
    <2> HIDE DEF K
    <2>2. IsFiniteSet(K) /\ K \in SUBSET Nat
      BY <2>1, LengthsOfType, FS_Subset
    <2>3. \E a \in K : \A b \in K : a <= b
      BY <1>2, <2>2, HasLeast DEF K
    <2>4. Min(K) \in K /\ \A b \in K : Min(K) <= b
      BY <2>3 DEF Min
    <2>5. MatchPool(list, path) = AnswerAt(list, Min(K))
      BY <1>2 DEF MatchPool, AnswerAt, K
    <2> QED BY <2>4, <2>5 DEF K
  <1> QED BY <1>1, <1>2

LEMMA AnswerIsOne ==
    ASSUME NEW list, NEW k
    PROVE  /\ AnswerAt(list, k).route # <<>> /\ AnswerAt(list, k) # NoAnswer
           /\ AnswerAt(list, k).route[1] = list[k] /\ NoAnswer.route = <<>>
BY DEF AnswerAt, NoAnswer

LEMMA TableMatches ==
    ASSUME NEW m \in Messages, NEW h, NEW list \in Seq(Route), IsTable(m, h, list),
           NEW path \in Paths
    PROVE  Matching(list, path) # {} <=>
              \E e \in Entries(m) : At(m, e).host = h /\ Under(At(m, e), path)
  <1>1. PICK f \in [DOMAIN list -> Entries(m)] : FoundBy(f, m, h, list)
    BY DEF IsTable
  <1>2. \A k \in DOMAIN list : PathMatches(list[k], path) <=> Under(list[k], path)
    BY LengthsOfType, MatchesIsUnder
  <1>3. ASSUME NEW k \in Matching(list, path)
        PROVE  \E e \in Entries(m) : At(m, e).host = h /\ Under(At(m, e), path)
    <2>1. k \in DOMAIN list /\ Under(list[k], path)
      BY <1>2, <1>3 DEF Matching
    <2>2. f[k] \in Entries(m) /\ At(m, f[k]) = list[k] /\ list[k].host = h
      BY <1>1, <2>1 DEF FoundBy
    <2> QED BY <2>1, <2>2
  <1>4. ASSUME NEW e \in Entries(m), At(m, e).host = h, Under(At(m, e), path)
        PROVE  Matching(list, path) # {}
    <2>1. PICK k \in DOMAIN list : f[k] = e
      BY <1>1, <1>4 DEF FoundBy
    <2>2. list[k] = At(m, e)
      BY <1>1, <2>1 DEF FoundBy
    <2>3. k \in Matching(list, path)
      BY <1>2, <1>4, <2>1, <2>2 DEF Matching
    <2> QED BY <2>3
  <1> QED BY <1>3, <1>4

\* An answer is that of one list of the table, of the host or else of a pattern.
AnswersFrom(host, path, h, list) ==
    /\ IsTable(messages, h, list)
    /\ Matching(list, path) # {}
    /\ Resolve(host, path) = MatchPool(list, path)
    /\ h # host => /\ h \in Compiled /\ host \in HostsOf[h]
                   /\ \A e \in Entries(messages) :
                         ~(At(messages, e).host = host /\ Under(At(messages, e), path))

Unserved(host, path) ==
    \A e \in Entries(messages) :
        ~(Serves(host, At(messages, e)) /\ Under(At(messages, e), path))

LEMMA ResolveIs ==
    ASSUME TableInv, NEW host \in Hosts, NEW path \in Paths
    PROVE  \/ Resolve(host, path) = NoAnswer /\ Unserved(host, path)
           \/ \E h \in {host} \cup Compiled : \E list \in Seq(Route) :
                 AnswersFrom(host, path, h, list)
  <1> DEFINE exact     == MatchPool(routes[host], path)
             answering == Answering(host, path)
  <1>1. /\ messages \in Messages /\ routes[host] \in Seq(Route)
        /\ IsTable(messages, host, routes[host]) /\ AreGroups(messages, regexRoutes)
    BY DEF TableInv
  <1>2. /\ regexRoutes \in Seq(Group)
        /\ \A i \in DOMAIN regexRoutes :
              /\ regexRoutes[i].pattern \in Compiled /\ regexRoutes[i].routes \in Seq(Route)
              /\ IsTable(messages, regexRoutes[i].pattern, regexRoutes[i].routes)
    <2>1. regexRoutes \in Seq(Group)
      BY <1>1 DEF AreGroups
    <2>2. \A i \in DOMAIN regexRoutes : regexRoutes[i] \in Group
      BY <2>1
    <2> QED BY <1>1, <2>1, <2>2 DEF AreGroups, Group
  <1>3. exact # NoAnswer <=> Matching(routes[host], path) # {}
    BY <1>1, MatchPoolIs, AnswerIsOne
  <1>4. \A i \in DOMAIN regexRoutes :
           MatchPool(regexRoutes[i].routes, path) # NoAnswer
              <=> Matching(regexRoutes[i].routes, path) # {}
    BY <1>2, MatchPoolIs, AnswerIsOne
  <1>5. Resolve(host, path) =
           IF exact # NoAnswer THEN exact
           ELSE IF answering = {} THEN NoAnswer
           ELSE MatchPool(regexRoutes[Min(answering)].routes, path)
    BY DEF Resolve
  <1>6. \A i : i \in answering <=> /\ i \in DOMAIN regexRoutes
                                  /\ host \in HostsOf[regexRoutes[i].pattern]
                                  /\ MatchPool(regexRoutes[i].routes, path) # NoAnswer
    BY DEF Answering
  <1> HIDE DEF exact, answering
  <1>7. CASE exact # NoAnswer
    <2>1. AnswersFrom(host, path, host, routes[host])
      BY <1>1, <1>3, <1>5, <1>7 DEF AnswersFrom, exact
    <2> QED BY <1>1, <2>1
  <1>8. ASSUME exact = NoAnswer, NEW e \in Entries(messages)
        PROVE  ~(At(messages, e).host = host /\ Under(At(messages, e), path))
    BY <1>1, <1>3, <1>8, TableMatches
  <1>9. CASE exact = NoAnswer /\ answering = {}
    <2>1. Resolve(host, path) = NoAnswer
      BY <1>5, <1>9
    <2>2. ASSUME NEW e \in Entries(messages), Serves(host, At(messages, e)),
                 Under(At(messages, e), path)
          PROVE  FALSE
      <3>1. At(messages, e).host # host
        BY <1>8, <1>9, <2>2
      <3>2. At(messages, e).host \in Compiled /\ host \in HostsOf[At(messages, e).host]
        BY <2>2, <3>1 DEF Serves, Compiled
      <3>3. PICK i \in DOMAIN regexRoutes : regexRoutes[i].pattern = At(messages, e).host
        BY <1>1, <3>2 DEF AreGroups
      <3>4. Matching(regexRoutes[i].routes, path) # {}
        BY <1>1, <1>2, <2>2, <3>3, TableMatches
      <3>5. i \in answering
        BY <1>4, <1>6, <3>2, <3>3, <3>4
      <3> QED BY <1>9, <3>5
    <2> QED BY <2>1, <2>2 DEF Unserved
  <1>10. CASE exact = NoAnswer /\ answering # {}
    <2>1. answering \subseteq DOMAIN regexRoutes
      BY <1>6
    <2>2. DOMAIN regexRoutes = 1 .. Len(regexRoutes) /\ Len(regexRoutes) \in Nat
      BY <1>2
    <2>3. IsFiniteSet(answering) /\ answering \in SUBSET Nat
      <3>1. IsFiniteSet(1 .. Len(regexRoutes))
        BY <2>2, FS_Interval
      <3> QED BY <2>1, <2>2, <3>1, FS_Subset
    <2>4. \E a \in answering : \A b \in answering : a <= b
      BY <1>10, <2>3, HasLeast
    <2>5. Min(answering) \in answering
      BY <2>4 DEF Min
    <2> DEFINE i == Min(answering)
    <2>6. /\ i \in DOMAIN regexRoutes /\ host \in HostsOf[regexRoutes[i].pattern]
          /\ MatchPool(regexRoutes[i].routes, path) # NoAnswer
      BY <1>6, <2>5
    <2>7. Resolve(host, path) = MatchPool(regexRoutes[i].routes, path)
      BY <1>5, <1>10
    <2> HIDE DEF i
    <2>8. AnswersFrom(host, path, regexRoutes[i].pattern, regexRoutes[i].routes)
      BY <1>2, <1>4, <1>8, <1>10, <2>6, <2>7 DEF AnswersFrom
    <2> QED BY <1>2, <2>6, <2>8
  <1> QED BY <1>7, <1>9, <1>10

LEMMA TypeFollows == ASSUME TableInv PROVE TypeOK
  <1>1. \A p \in Providers : messages[p] \in Seq(Route)
    BY DEF TableInv, Messages
  <1>2. \A h \in Hosts : routes[h] \in Seq(Route)
    BY DEF TableInv
  <1>3. \A i \in DOMAIN regexRoutes : regexRoutes[i] \in Group
    <2>1. regexRoutes \in Seq(Group)
      BY DEF TableInv, AreGroups
    <2> QED BY <2>1
  <1> QED BY <1>1, <1>2, <1>3 DEF TypeOK, Group, Compiled

\* The route that answers is announced, serves the host and the path, and no other
\* route of its list that does has a longer path.
AnswersAt(host, path, h, list, f, k) ==
    /\ list \in Seq(Route)
    /\ f \in [DOMAIN list -> Entries(messages)] /\ FoundBy(f, messages, h, list)
    /\ k \in DOMAIN list /\ Resolve(host, path) = AnswerAt(list, k)
    /\ list[k] \in Route /\ list[k].host = h /\ list[k] = At(messages, f[k])
    /\ Serves(host, list[k]) /\ Under(list[k], path) /\ PathMatches(list[k], path)
    /\ \A l \in DOMAIN list : PathMatches(list[l], path) => k <= l
    /\ h # host => \A e \in Entries(messages) :
                      ~(At(messages, e).host = host /\ Under(At(messages, e), path))

LEMMA AnswerIs ==
    ASSUME TableInv, NEW host \in Hosts, NEW path \in Paths, Resolve(host, path) # NoAnswer
    PROVE  \E h, list, f, k : AnswersAt(host, path, h, list, f, k)
  <1>1. PICK h \in {host} \cup Compiled, list \in Seq(Route) : AnswersFrom(host, path, h, list)
    BY ResolveIs
  <1>2. PICK k \in Matching(list, path) :
           /\ \A l \in Matching(list, path) : k <= l
           /\ Resolve(host, path) = AnswerAt(list, k)
    BY <1>1, MatchPoolIs DEF AnswersFrom
  <1>3. PICK f \in [DOMAIN list -> Entries(messages)] : FoundBy(f, messages, h, list)
    BY <1>1 DEF AnswersFrom, IsTable
  <1>4. k \in DOMAIN list /\ PathMatches(list[k], path)
    BY <1>2 DEF Matching
  <1>5. list[k] \in Route /\ list[k].host = h /\ list[k] = At(messages, f[k])
    BY <1>3, <1>4 DEF FoundBy
  <1>6. Under(list[k], path)
    BY <1>4, <1>5, MatchesIsUnder
  <1>7. Serves(host, list[k])
    BY <1>1, <1>5 DEF Serves, AnswersFrom, Compiled
  <1>8. \A l \in DOMAIN list : PathMatches(list[l], path) => k <= l
    BY <1>2 DEF Matching
  <1>9. AnswersAt(host, path, h, list, f, k)
    BY <1>1, <1>2, <1>3, <1>4, <1>5, <1>6, <1>7, <1>8 DEF AnswersAt, AnswersFrom
  <1> QED BY <1>9

LEMMA AnnouncedIs ==
    ASSUME NEW host, NEW path, NEW r
    PROVE  r \in Announced(host, path) <=>
              \E e \in Entries(messages) :
                 r = At(messages, e) /\ Serves(host, r) /\ Under(r, path)
BY DEF Announced

LEMMA MostSpecificFollows == ASSUME TableInv PROVE MostSpecificAnswers
  <1> SUFFICES ASSUME NEW host \in Hosts, NEW path \in Requests
               PROVE  LET candidates == Announced(host, path)
                          exact      == {r \in candidates : r.host = host}
                          answer     == Resolve(host, path).route
                      IN  IF candidates = {} THEN answer = <<>>
                          ELSE /\ answer # <<>>
                               /\ answer[1] \in (IF exact = {} THEN candidates ELSE exact)
                               /\ \A r \in candidates : r.host = answer[1].host =>
                                      \/ r.path = Root
                                      \/ answer[1].path # Root /\ Len(r.path) <= Len(answer[1].path)
    BY DEF MostSpecificAnswers
  <1> DEFINE candidates == Announced(host, path)
             exact      == {r \in candidates : r.host = host}
             answer     == Resolve(host, path).route
  <1>1. path \in Paths
    BY NamesAssumption
  <1>2. CASE Resolve(host, path) = NoAnswer
    <2>1. Unserved(host, path)
      <3>1. \A h, list : AnswersFrom(host, path, h, list) /\ list \in Seq(Route) =>
                            Resolve(host, path) # NoAnswer
        BY MatchPoolIs, AnswerIsOne DEF AnswersFrom
      <3> QED BY <1>1, <1>2, <3>1, ResolveIs
    <2>2. candidates = {}
      BY <2>1, AnnouncedIs DEF Unserved
    <2>3. answer = <<>>
      BY <1>2, AnswerIsOne
    <2> QED BY <2>2, <2>3
  <1>3. CASE Resolve(host, path) # NoAnswer
    <2>1. PICK h, list, f, k : AnswersAt(host, path, h, list, f, k)
      BY <1>1, <1>3, AnswerIs
    <2>2. answer # <<>> /\ answer[1] = list[k]
      BY <2>1, AnswerIsOne DEF AnswersAt
    <2>3. f[k] \in Entries(messages)
      BY <2>1 DEF AnswersAt
    <2>4. list[k] \in candidates
      BY <2>1, <2>3, AnnouncedIs DEF AnswersAt
    <2>5. exact # {} => list[k] \in exact
      <3>1. ASSUME NEW r \in exact PROVE h = host
        BY <2>1, AnnouncedIs DEF AnswersAt
      <3>2. exact # {} => h = host
        BY <3>1
      <3> QED BY <2>1, <2>4, <3>2 DEF AnswersAt
    <2>6. ASSUME NEW r \in candidates, r.host = list[k].host, r.path # Root
          PROVE  list[k].path # Root /\ Len(r.path) <= Len(list[k].path)
      <3>1. PICK e \in Entries(messages) : r = At(messages, e) /\ Under(r, path)
        BY AnnouncedIs
      <3>2. PICK l \in DOMAIN list : f[l] = e
        BY <2>1, <2>6, <3>1 DEF AnswersAt, FoundBy
      <3>3. list[l] = r /\ r \in Route
        BY <2>1, <3>1, <3>2, LengthsOfType DEF AnswersAt, FoundBy
      <3>4. k <= l
        BY <1>1, <2>1, <3>1, <3>3, MatchesIsUnder DEF AnswersAt
      <3> DEFINE key == LengthsOf(list)
      <3>5. /\ key[k] \in Nat /\ key[l] \in Nat /\ k \in Nat /\ l \in Nat
            /\ k \in DOMAIN list
        BY <2>1, LengthsOfType DEF AnswersAt
      <3>6. key[k] = PathLength(list[k].path) /\ key[l] = PathLength(r.path)
        BY <3>3, <3>5 DEF LengthsOf
      <3> HIDE DEF key
      <3>7. key[k] >= key[l]
        <4>1. CASE k = l
          BY <3>5, <4>1
        <4>2. CASE k < l
          BY <2>1, <3>5, <4>2 DEF AnswersAt, FoundBy, key
        <4> QED BY <3>4, <3>5, <4>1, <4>2
      <3>8. list[k].path \in Paths /\ r.path \in Paths
        BY <2>1, <3>3 DEF AnswersAt, Route
      <3>9. list[k].path # Root
        <4>1. PathLength(Root) < PathLength(r.path)
          BY <2>6, <3>8, RootIsShortest
        <4>2. ASSUME list[k].path = Root PROVE FALSE
          <5>1. key[k] < key[l]
            BY <3>6, <4>1, <4>2
          <5> QED BY <3>5, <3>7, <5>1
        <4> QED BY <4>2
      <3>10. PICK n \in 1 .. Len(path) : r.path = SubSeq(path, 1, n)
        BY <2>6, <3>1 DEF Under
      <3>11. PICK j \in 1 .. Len(path) : list[k].path = SubSeq(path, 1, j)
        BY <2>1, <3>9 DEF AnswersAt, Under
      <3>12. Len(r.path) = n /\ Len(list[k].path) = j
        BY <1>1, <3>10, <3>11, PrefixType
      <3>13. ASSUME j < n PROVE FALSE
        <4>1. key[k] < key[l]
          BY <1>1, <3>6, <3>10, <3>11, <3>13, PrefixIsShorter
        <4> QED BY <3>5, <3>7, <4>1
      <3>14. n \in Nat /\ j \in Nat
        BY <1>1, PathType
      <3> QED BY <3>9, <3>12, <3>13, <3>14
    <2> HIDE DEF answer
    <2>7. /\ answer[1] \in (IF exact = {} THEN candidates ELSE exact)
          /\ \A r \in candidates : r.host = answer[1].host =>
                \/ r.path = Root
                \/ answer[1].path # Root /\ Len(r.path) <= Len(answer[1].path)
      BY <2>2, <2>4, <2>5, <2>6
    <2> QED BY <2>2, <2>4, <2>7 DEF answer
  <1> QED BY <1>2, <1>3

\* Of one pool, all routes have the path and the strip of the pool.
LEMMA PoolsAgree ==
    ASSUME TableInv, NEW d \in Entries(messages), NEW e \in Entries(messages),
           At(messages, d).host = At(messages, e).host,
           At(messages, d).pool = At(messages, e).pool, At(messages, d).pool # NoPool
    PROVE  SamePool(At(messages, e), At(messages, d))
  <1>1. /\ d[1] \in Providers /\ d[2] \in DOMAIN messages[d[1]]
        /\ e[1] \in Providers /\ e[2] \in DOMAIN messages[e[1]]
    BY EntriesType DEF TableInv
  <1>2. ASSUME NEW p \in Providers, NEW i \in DOMAIN messages[p]
        PROVE  messages[p] \in Announcements[p]
    <2>1. messages[p] # <<>>
      OBVIOUS
    <2> QED BY <2>1 DEF TableInv
  <1>3. messages[d[1]] \in Announcements[d[1]] /\ messages[e[1]] \in Announcements[e[1]]
    BY <1>1, <1>2
  <1>4. d[1] # e[1] \/ messages[d[1]] = messages[e[1]]
    OBVIOUS
  <1>5. /\ At(messages, d).path = At(messages, e).path
        /\ At(messages, d).strip = At(messages, e).strip
    BY <1>1, <1>3, <1>4, PoolsAssumption DEF At
  <1> QED BY <1>5 DEF SamePool

LEMMA PoolFollows == ASSUME TableInv PROVE PoolIsComplete
  <1> SUFFICES ASSUME NEW host \in Hosts, NEW path \in Requests,
                      Resolve(host, path).route # <<>>,
                      Resolve(host, path).route[1].pool # NoPool
               PROVE  LET answer == Resolve(host, path)
                          pool   == {e \in Entries(messages) :
                                        /\ At(messages, e).host = answer.route[1].host
                                        /\ At(messages, e).pool = answer.route[1].pool}
                      IN  /\ Len(answer.targets) = Cardinality(pool)
                          /\ \A e \in pool : At(messages, e).target \in ToSet(answer.targets)
    BY DEF PoolIsComplete
  <1> DEFINE answer == Resolve(host, path)
             pool   == {e \in Entries(messages) :
                           /\ At(messages, e).host = answer.route[1].host
                           /\ At(messages, e).pool = answer.route[1].pool}
  <1>1. path \in Paths /\ answer # NoAnswer
    BY NamesAssumption, AnswerIsOne
  <1>2. PICK h, list, f, k : AnswersAt(host, path, h, list, f, k)
    BY <1>1, AnswerIs
  <1> DEFINE chosen == list[k]
             K      == {i \in DOMAIN list : SamePool(list[i], chosen)}
  <1>3. /\ answer = AnswerAt(list, k) /\ answer.route[1] = chosen
        /\ list \in Seq(Route) /\ f \in [DOMAIN list -> Entries(messages)]
        /\ k \in DOMAIN list /\ chosen.host = h
        /\ FoundBy(f, messages, h, list)
    BY <1>2, AnswerIsOne DEF AnswersAt
  <1>4. chosen.pool # NoPool
    BY <1>3
  <1>5. answer.targets = Targets(Only(list, K))
    BY <1>3, <1>4 DEF AnswerAt, Members
  <1>6. \A e : e \in pool <=> /\ e \in Entries(messages)
                             /\ At(messages, e).host = chosen.host
                             /\ At(messages, e).pool = chosen.pool
    BY <1>3
  <1>7. \A i : i \in K <=> i \in DOMAIN list /\ SamePool(list[i], chosen)
    OBVIOUS
  <1>8. K \in SUBSET DOMAIN list
    OBVIOUS
  <1> HIDE DEF answer, pool, K
  <1>9. \A i \in DOMAIN list : f[i] \in Entries(messages) /\ list[i] = At(messages, f[i])
    BY <1>3 DEF FoundBy
  <1>10. ASSUME NEW i \in K PROVE f[i] \in pool
    <2>1. list[i].host = chosen.host /\ list[i].pool = chosen.pool
      BY <1>7 DEF SamePool
    <2> QED BY <1>6, <1>7, <1>9, <2>1
  <1>11. ASSUME NEW e \in pool PROVE \E i \in K : f[i] = e
    <2>1. PICK i \in DOMAIN list : f[i] = e
      BY <1>3, <1>6 DEF FoundBy
    <2>2. f[k] \in Entries(messages) /\ At(messages, f[k]) = chosen
      BY <1>3, <1>9
    <2>3. SamePool(At(messages, e), chosen)
      BY <1>4, <1>6, <2>2, PoolsAgree
    <2>4. i \in K
      BY <1>7, <1>9, <2>1, <2>3
    <2> QED BY <2>1, <2>4
  <1>12. ASSUME NEW i \in K, NEW j \in K, f[i] = f[j] PROVE i = j
    <2>1. i \in DOMAIN list /\ j \in DOMAIN list /\ i \in Nat /\ j \in Nat
      BY <1>3, <1>7, LengthsOfType
    <2>2. ~(i < j) /\ ~(j < i)
      BY <1>3, <1>12, <2>1 DEF FoundBy
    <2> QED BY <2>1, <2>2
  <1>13. /\ IsFiniteSet(K) /\ Cardinality(K) \in Nat
         /\ Only(list, K) \in Seq(Route) /\ DOMAIN Only(list, K) = 1 .. Cardinality(K)
         /\ \A i \in K : \E n \in 1 .. Cardinality(K) : Only(list, K)[n] = list[i]
    BY <1>3, <1>8, OnlyKeeps
  <1>14. Cardinality(K) = Cardinality(pool)
    <2> DEFINE g == [i \in K |-> f[i]]
    <2>1. g \in [K -> pool] /\ \A i \in K : g[i] = f[i]
      BY <1>10
    <2> HIDE DEF g
    <2>2. g \in Bijection(K, pool)
      BY <1>11, <1>12, <2>1, Fun_IsBij
    <2> QED BY <1>13, <2>2, FS_Bijection DEF ExistsBijection
  <1>15. /\ DOMAIN answer.targets = 1 .. Cardinality(K)
         /\ \A n \in 1 .. Cardinality(K) : answer.targets[n] = Only(list, K)[n].target
    BY <1>5, <1>13 DEF Targets
  <1>16. Len(answer.targets) = Cardinality(K)
    <2>1. answer.targets \in [1 .. Cardinality(K) -> {Only(list, K)[n].target : n \in 1 .. Cardinality(K)}]
      BY <1>5, <1>13 DEF Targets
    <2> QED BY <1>13, <2>1
  <1>17. ASSUME NEW e \in pool PROVE At(messages, e).target \in ToSet(answer.targets)
    <2>1. PICK i \in K : f[i] = e
      BY <1>11
    <2>2. PICK n \in 1 .. Cardinality(K) : Only(list, K)[n] = list[i]
      BY <1>13
    <2>3. answer.targets[n] = At(messages, e).target
      BY <1>7, <1>9, <1>15, <2>1, <2>2
    <2> QED BY <1>15, <2>3 DEF ToSet
  <1> QED BY <1>14, <1>16, <1>17 DEF answer, pool

\* What is cut off and what is left make up the path.
LEMMA CutPath ==
    ASSUME NEW path \in Paths, NEW n \in 1 .. Len(path)
    PROVE  SubSeq(path, 1, n) \o Drop(path, n) = path
  <1>1. path \in Seq(Segments) /\ Len(path) \in Nat /\ Len(path) >= 1
    BY PathType
  <1>2. /\ 1 \in 1 .. Len(path) + 1
        /\ n \in 1 - 1 .. Len(path)
        /\ Len(path) \in n .. Len(path)
    BY <1>1
  <1>3. SubSeq(path, 1, n) \o SubSeq(path, n + 1, Len(path)) = SubSeq(path, 1, Len(path))
    BY <1>1, <1>2, ConcatAdjacentSubSeq
  <1>4. SubSeq(path, 1, Len(path)) = path
    BY <1>1, SubSeqFull
  <1> QED BY <1>3, <1>4 DEF Drop

LEMMA StripsItsPath ==
    ASSUME NEW r \in Route, NEW path \in Paths, Under(r, path)
    PROVE  /\ ~r.strip => Rewritten(r, path) = Absolute(path)
           /\ r.strip /\ r.path = path => Rewritten(r, path) = Absolute(Root)
           /\ r.strip /\ r.path # path /\ r.path # Root =>
                 Rewritten(r, path).slash /\ r.path \o Rewritten(r, path).segments = path
           /\ r.strip /\ r.path # path /\ r.path = Root =>
                 (Rewritten(r, path).slash <=> path[1] = Empty)
  <1>1. ~r.strip => Rewritten(r, path) = Absolute(path)
    BY DEF Rewritten
  <1>2. r.strip /\ r.path = path => Rewritten(r, path) = Absolute(Root)
    BY DEF Rewritten, Stripped
  <1>3. ASSUME r.strip, r.path # path, r.path # Root
        PROVE  Rewritten(r, path).slash /\ r.path \o Rewritten(r, path).segments = path
    <2>1. PICK n \in 1 .. Len(path) : r.path = SubSeq(path, 1, n)
      BY <1>3 DEF Under
    <2>2. Len(r.path) = n
      BY <2>1, PrefixType
    <2>3. Rewritten(r, path) = Absolute(Drop(path, n))
      BY <1>3, <2>2 DEF Rewritten, Stripped
    <2>4. r.path \o Drop(path, n) = path
      BY <2>1, CutPath
    <2> QED BY <2>3, <2>4 DEF Absolute
  <1>4. ASSUME r.strip, r.path # path, r.path = Root
        PROVE  Rewritten(r, path).slash <=> path[1] = Empty
    <2>1. Rewritten(r, path) = IF path[1] = Empty THEN Absolute(Tail(path)) ELSE Relative(path)
      BY <1>4 DEF Rewritten, Stripped
    <2> QED BY <2>1 DEF Absolute, Relative
  <1> QED BY <1>1, <1>2, <1>3, <1>4

LEMMA StripFollows == ASSUME TableInv PROVE StripRemovesThePrefix
  <1>1. ASSUME NEW host \in Hosts, NEW path \in Requests, Resolve(host, path).route # <<>>
        PROVE  /\ path \in Paths
               /\ Resolve(host, path).route[1] \in Route
               /\ Under(Resolve(host, path).route[1], path)
    <2>1. path \in Paths /\ Resolve(host, path) # NoAnswer
      BY <1>1, NamesAssumption, AnswerIsOne
    <2>2. PICK h, list, f, k : AnswersAt(host, path, h, list, f, k)
      BY <2>1, AnswerIs
    <2> QED BY <2>1, <2>2, AnswerIsOne DEF AnswersAt
  <1>2. \A r \in Route : r.strip \in BOOLEAN
    BY DEF Route
  <1>3. ASSUME NEW r \in Route, NEW path \in Paths, Under(r, path)
        PROVE  LET forwarded == Rewritten(r, path)
               IN  CASE ~r.strip                    -> forwarded = Absolute(path)
                     [] r.strip /\ r.path = path    -> forwarded = Absolute(Root)
                     [] r.strip /\ r.path # path /\ r.path # Root ->
                           forwarded.slash /\ r.path \o forwarded.segments = path
                     [] OTHER -> forwarded.slash <=> path[1] = Empty
    BY <1>2, <1>3, StripsItsPath
  <1> QED BY <1>1, <1>3 DEF StripRemovesThePrefix

LEMMA UnderItself == ASSUME NEW r \in Route PROVE Under(r, r.path)
  <1>1. r.path \in Seq(Segments) /\ Len(r.path) \in 1 .. Len(r.path)
    BY PathType DEF Route
  <1>2. SubSeq(r.path, 1, Len(r.path)) = r.path
    BY <1>1, SubSeqFull
  <1> QED BY <1>1, <1>2 DEF Under

LEMMA HasHostFollows == ASSUME TableInv PROVE HasHostIsAnswered
  <1> SUFFICES ASSUME NEW host \in Hosts
               PROVE  HasHost(host) <=> \E e \in Entries(messages) :
                                           Resolve(host, At(messages, e).path).route # <<>>
    BY DEF HasHostIsAnswered
  <1> DEFINE Serving(e) == Serves(host, At(messages, e))
  <1>1. \A e \in Entries(messages) :
           At(messages, e) \in Route /\ At(messages, e).path \in Paths
    BY EntriesType DEF TableInv, Route
  <1>2. ASSUME NEW e \in Entries(messages), Serving(e)
        PROVE  Resolve(host, At(messages, e).path).route # <<>>
    <2>1. ~Unserved(host, At(messages, e).path)
      BY <1>1, <1>2, UnderItself DEF Unserved
    <2>2. Resolve(host, At(messages, e).path) # NoAnswer
      <3>1. \A h, path, list : AnswersFrom(host, path, h, list) /\ list \in Seq(Route) =>
                                  Resolve(host, path) # NoAnswer
        BY MatchPoolIs, AnswerIsOne DEF AnswersFrom
      <3> QED BY <1>1, <2>1, <3>1, ResolveIs
    <2>3. PICK h, list, f, k : AnswersAt(host, At(messages, e).path, h, list, f, k)
      BY <1>1, <2>2, AnswerIs
    <2> QED BY <2>3, AnswerIsOne DEF AnswersAt
  <1>3. ASSUME NEW e \in Entries(messages),
               Resolve(host, At(messages, e).path).route # <<>>
        PROVE  \E d \in Entries(messages) : Serving(d)
    <2>1. PICK h, list, f, k : AnswersAt(host, At(messages, e).path, h, list, f, k)
      BY <1>1, <1>3, AnswerIs, AnswerIsOne
    <2>2. f[k] \in Entries(messages) /\ Serving(f[k])
      BY <2>1 DEF AnswersAt
    <2> QED BY <2>2
  <1>4. routes[host] # <<>> <=> \E e \in Entries(messages) : At(messages, e).host = host
    <2>1. routes[host] \in Seq(Route) /\ IsTable(messages, host, routes[host])
      BY DEF TableInv
    <2>2. ASSUME routes[host] # <<>>
          PROVE  \E e \in Entries(messages) : At(messages, e).host = host
      <3>1. 1 \in DOMAIN routes[host]
        BY <2>1, <2>2
      <3> QED BY <2>1, <3>1 DEF IsTable, FoundBy
    <2> QED BY <2>1, <2>2, TableHasRoutes
  <1>5. ASSUME NEW i \in DOMAIN regexRoutes, host \in HostsOf[regexRoutes[i].pattern]
        PROVE  \E e \in Entries(messages) : Serving(e)
    <2>1. /\ regexRoutes[i].routes \in Seq(Route) /\ regexRoutes[i].routes # <<>>
          /\ IsTable(messages, regexRoutes[i].pattern, regexRoutes[i].routes)
          /\ regexRoutes[i].pattern \in Patterns \ Invalid
      BY TypeFollows DEF TypeOK, TableInv, AreGroups
    <2>2. 1 \in DOMAIN regexRoutes[i].routes
      BY <2>1
    <2>3. \E e \in Entries(messages) : At(messages, e).host = regexRoutes[i].pattern
      BY <2>1, <2>2 DEF IsTable, FoundBy
    <2> QED BY <1>5, <2>1, <2>3 DEF Serves
  <1>6. ASSUME NEW e \in Entries(messages), Serving(e) PROVE HasHost(host)
    <2>1. CASE At(messages, e).host = host
      BY <1>4, <2>1 DEF HasHost
    <2>2. CASE At(messages, e).host # host
      <3>1. At(messages, e).host \in Compiled /\ host \in HostsOf[At(messages, e).host]
        BY <1>6, <2>2 DEF Serves, Compiled
      <3>2. \E i \in DOMAIN regexRoutes : regexRoutes[i].pattern = At(messages, e).host
        BY <3>1 DEF TableInv, AreGroups
      <3> QED BY <3>1, <3>2 DEF HasHost
    <2> QED BY <2>1, <2>2
  <1>7. ASSUME HasHost(host) PROVE \E e \in Entries(messages) : Serving(e)
    <2>1. ASSUME routes[host] # <<>> PROVE \E e \in Entries(messages) : Serving(e)
      BY <1>4, <2>1 DEF Serves
    <2> QED BY <1>5, <1>7, <2>1 DEF HasHost
  <1> QED BY <1>2, <1>3, <1>6, <1>7

-----------------------------------------------------------------------------

\* Router.Update and Router.Resolve: whatever the providers announced and however their
\* routes were merged, the most specific route answers, with its whole pool and nothing
\* else, stripping removes its path and nothing else, and HasHost says what is answered.
THEOREM AnswersFollow == Spec => []AnswersFollowAnnouncements
  <1>1. TableInv => AnswersFollowAnnouncements
    BY TypeFollows, MostSpecificFollows, PoolFollows, StripFollows, HasHostFollows
       DEF AnswersFollowAnnouncements
  <1> QED BY <1>1, TableInvariance, PTL

-----------------------------------------------------------------------------
(* Reloads *)

\* An answer needs no more of a list than the routes that match.
LEMMA MatchingSuffice ==
    ASSUME NEW list \in Seq(Route), NEW path
    PROVE  MatchPool(list, path) = MatchPool(Only(list, Matching(list, path)), path)
  <1> DEFINE K == Matching(list, path)
             M == Only(list, K)
             order == InOrder(Ascending(K), K)
  <1>1. K \in SUBSET DOMAIN list
    BY DEF Matching
  <1>2. \A i : i \in K <=> i \in DOMAIN list /\ PathMatches(list[i], path)
    BY DEF Matching
  <1> HIDE DEF K
  <1>3. /\ M \in Seq(Route) /\ DOMAIN M = 1 .. Cardinality(K) /\ Cardinality(K) \in Nat
        /\ \A j \in DOMAIN M : order[j] \in K /\ M[j] = list[order[j]]
        /\ \A i \in K : \E j \in DOMAIN M : order[j] = i
        /\ \A i, j \in DOMAIN M : i < j <=> order[i] < order[j]
    <2>1. IsSublist(M, Route, list, K, order)
      BY <1>1, SublistIs
    <2> HIDE DEF M, order
    <2> QED BY <2>1 DEF IsSublist
  <1> HIDE DEF M, order
  <1>4. Matching(M, path) = DOMAIN M
    BY <1>2, <1>3 DEF Matching
  <1>5. CASE K = {}
    <2>1. Matching(M, path) = {}
      BY <1>3, <1>4, <1>5
    <2> QED BY <1>3, <1>5, <2>1, MatchPoolIs DEF K, M
  <1>6. CASE K # {}
    <2>1. PICK k \in K : (\A l \in K : k <= l) /\ MatchPool(list, path) = AnswerAt(list, k)
      BY <1>6, MatchPoolIs DEF K
    <2>2. DOMAIN M # {}
      BY <1>3, <1>6
    <2>3. PICK c \in DOMAIN M : (\A j \in DOMAIN M : c <= j) /\ MatchPool(M, path) = AnswerAt(M, c)
      BY <1>3, <1>4, <2>2, MatchPoolIs
    <2>4. order[c] = k
      <3>1. PICK j \in DOMAIN M : order[j] = k
        BY <1>3
      <3>2. /\ c \in Nat /\ j \in Nat /\ order[c] \in K /\ c <= j
            /\ order[c] \in Nat /\ order[j] \in Nat
        BY <1>1, <1>3, <2>3, <3>1, LengthsOfType
      <3>3. k <= order[c]
        BY <2>1, <3>2
      <3>4. c = j \/ order[c] < order[j]
        BY <1>3, <3>2
      <3> QED BY <3>1, <3>2, <3>3, <3>4
    <2>5. M[c] = list[k]
      BY <1>3, <2>4
    <2> DEFINE S == {i \in DOMAIN list : SamePool(list[i], list[k])}
               T == {j \in DOMAIN M : SamePool(M[j], list[k])}
    <2>6. S \in SUBSET K
      <3> SUFFICES ASSUME NEW i \in DOMAIN list, SamePool(list[i], list[k])
                   PROVE  PathMatches(list[i], path)
        BY <1>2
      <3>1. PathMatches(list[k], path)
        BY <1>2
      <3> QED BY <3>1 DEF SamePool, PathMatches
    <2>7. T = {j \in DOMAIN M : order[j] \in S}
      BY <1>1, <1>3
    <2> HIDE DEF S, T
    <2>8. Only(list, S) = Only(M, T)
      BY <1>1, <2>6, <2>7, OnlyOfOnly DEF M, order
    <2>9. Members(list, list[k]) = Members(M, M[c])
      BY <2>5, <2>8 DEF Members, S, T
    <2>10. AnswerAt(list, k) = AnswerAt(M, c)
      BY <2>5, <2>9 DEF AnswerAt
    <2> QED BY <2>1, <2>3, <2>10 DEF M, K
  <1> QED BY <1>5, <1>6

\* The routes of a list that are one provider's are sorted like those alone.
LEMMA SortedAlone ==
    ASSUME NEW m \in Messages, NEW h, NEW list \in Seq(Route),
           NEW f \in [DOMAIN list -> Entries(m)], FoundBy(f, m, h, list),
           NEW K \in SUBSET DOMAIN list, NEW p \in Providers, NEW J \in SUBSET DOMAIN m[p],
           \A k \in K : f[k][1] = p /\ f[k][2] \in J,
           \A i \in J : \E k \in K : f[k] = <<p, i>>
    PROVE  Only(list, K) = ByPathDesc(Only(m[p], J))
  <1> DEFINE mine == Only(m[p], J)
             pick == InOrder(Ascending(J), J)
             g    == [k \in K |-> CHOOSE c \in DOMAIN mine : pick[c] = f[k][2]]
             rows == InOrder(Ascending(K), K)
  <1>1. m[p] \in Seq(Route)
    BY DEF Messages
  <1>2. /\ mine \in Seq(Route)
        /\ \A c \in DOMAIN mine : pick[c] \in J /\ mine[c] = m[p][pick[c]]
        /\ \A i \in J : \E c \in DOMAIN mine : pick[c] = i
        /\ \A c, d \in DOMAIN mine : c < d <=> pick[c] < pick[d]
    <2>1. /\ mine \in Seq(Route) /\ DOMAIN mine = 1 .. Cardinality(J)
          /\ \A c \in 1 .. Cardinality(J) : pick[c] \in J /\ mine[c] = m[p][pick[c]]
          /\ \A i \in J : \E c \in 1 .. Cardinality(J) : pick[c] = i
          /\ \A c, d \in 1 .. Cardinality(J) : c < d <=> pick[c] < pick[d]
      BY <1>1, OnlyKeeps
    <2> HIDE DEF mine, pick
    <2> QED BY <2>1
  <1> HIDE DEF mine, pick
  <1>3. J \in SUBSET Nat /\ K \in SUBSET Nat /\ DOMAIN mine \in SUBSET Nat
    BY <1>1, <1>2, LengthsOfType
  <1>4. ASSUME NEW k \in K
        PROVE  /\ g[k] \in DOMAIN mine /\ pick[g[k]] = f[k][2] /\ mine[g[k]] = list[k]
               /\ LengthsOf(mine)[g[k]] = LengthsOf(list)[k]
               /\ LengthsOf(list)[k] \in Nat /\ g[k] \in Nat /\ k \in Nat
    <2>1. \E c \in DOMAIN mine : pick[c] = f[k][2]
      BY <1>2
    <2>2. g[k] \in DOMAIN mine /\ pick[g[k]] = f[k][2]
      BY <2>1
    <2> HIDE DEF g
    <2>3. k \in DOMAIN list /\ list[k] = At(m, f[k]) /\ f[k][1] = p
      BY DEF FoundBy
    <2>4. mine[g[k]] = list[k]
      BY <1>2, <2>2, <2>3 DEF At
    <2>5. LengthsOf(mine)[g[k]] = LengthsOf(list)[k]
      BY <2>2, <2>3, <2>4 DEF LengthsOf
    <2>6. LengthsOf(list)[k] \in Nat
      BY <2>3, LengthsOfType
    <2> QED BY <1>3, <2>2, <2>4, <2>5, <2>6
  <1>5. g \in [K -> DOMAIN mine]
    BY <1>4
  <1> HIDE DEF g
  <1>6. ASSUME NEW k \in K, NEW l \in K, k < l
        PROVE  <<g[k], g[l]>> \in LongerFirst(mine)
    <2> DEFINE key == LengthsOf(mine)
    <2>1. /\ key[g[k]] \in Nat /\ key[g[l]] \in Nat /\ g[k] \in DOMAIN mine /\ g[l] \in DOMAIN mine
      BY <1>4
    <2>2. key[g[k]] = LengthsOf(list)[k] /\ key[g[l]] = LengthsOf(list)[l]
      BY <1>4
    <2> HIDE DEF key
    <2>3. /\ key[g[k]] >= key[g[l]]
          /\ key[g[k]] = key[g[l]] => f[k][2] < f[l][2]
      BY <1>6, <2>2 DEF FoundBy
    <2>4. key[g[k]] = key[g[l]] => g[k] < g[l]
      BY <1>2, <1>4, <2>1, <2>3
    <2>5. key[g[k]] > key[g[l]] \/ (key[g[k]] = key[g[l]] /\ g[k] < g[l])
      BY <2>1, <2>3, <2>4
    <2> QED BY <1>2, <2>1, <2>5, LongerFirstIs DEF key
  <1>7. IsStrictOrder(LongerFirst(mine), DOMAIN mine) /\ IsStrictOrder(Ascending(K), K)
    BY <1>2, <1>3, LongerFirstIsStrict, AscendingIsStrict
  <1>8. ASSUME NEW k \in K, NEW l \in K
        PROVE  <<k, l>> \in Ascending(K) <=> <<g[k], g[l]>> \in LongerFirst(mine)
    <2>1. <<k, l>> \in Ascending(K) <=> k < l
      BY DEF Ascending
    <2>2. k < l \/ k = l \/ l < k
      BY <1>4
    <2>3. ASSUME <<g[k], g[l]>> \in LongerFirst(mine) PROVE k # l /\ ~(l < k)
      <3>1. /\ \A a \in DOMAIN mine : <<a, a>> \notin LongerFirst(mine)
            /\ \A a, b, c \in DOMAIN mine :
                  <<a, b>> \in LongerFirst(mine) /\ <<b, c>> \in LongerFirst(mine) =>
                      <<a, c>> \in LongerFirst(mine)
        BY <1>7 DEF IsStrictOrder
      <3>2. g[k] \in DOMAIN mine /\ g[l] \in DOMAIN mine
        BY <1>4
      <3> QED BY <1>6, <2>3, <3>1, <3>2
    <2> QED BY <1>6, <2>1, <2>2, <2>3
  <1>9. ASSUME NEW k \in K, NEW l \in K, g[k] = g[l] PROVE k = l
    <2>1. f[k] = f[l]
      <3>1. f[k] \in Entries(m) /\ f[l] \in Entries(m) /\ f[k][1] = p /\ f[l][1] = p
        OBVIOUS
      <3>2. pick[g[k]] = f[k][2] /\ pick[g[l]] = f[l][2]
        BY <1>4
      <3>3. f[k] = <<p, f[k][2]>> /\ f[l] = <<p, f[l][2]>>
        BY <3>1, EntriesType
      <3> QED BY <1>9, <3>2, <3>3
    <2>2. ~(k < l) /\ ~(l < k)
      BY <2>1 DEF FoundBy
    <2> QED BY <1>4, <2>2
  <1>10. ASSUME NEW c \in DOMAIN mine PROVE \E k \in K : g[k] = c
    <2>1. PICK k \in K : f[k] = <<p, pick[c]>>
      BY <1>2
    <2>2. pick[g[k]] = pick[c] /\ g[k] \in DOMAIN mine /\ g[k] \in Nat /\ c \in Nat
      BY <1>3, <1>4, <2>1
    <2>3. pick[c] \in Nat
      BY <1>2, <1>3
    <2>4. ~(g[k] < c) /\ ~(c < g[k])
      BY <1>2, <2>2, <2>3
    <2>5. g[k] = c
      BY <2>2, <2>4
    <2> QED BY <2>5
  <1>11. IsFiniteSet(K) /\ IsFiniteSet(DOMAIN mine) /\ Cardinality(DOMAIN mine) = Len(mine)
         /\ Len(mine) \in Nat /\ DOMAIN mine = 1 .. Len(mine)
    <2>1. IsFiniteSet(K)
      BY PositionsAreFinite
    <2> QED BY <1>2, <2>1, PositionsOfList
  <1>12. /\ Cardinality(K) = Cardinality(DOMAIN mine)
         /\ \A n \in 1 .. Cardinality(K) :
               InOrder(LongerFirst(mine), DOMAIN mine)[n] = g[rows[n]]
    <2>1. Correspond(Ascending(K), K, LongerFirst(mine), DOMAIN mine, g)
      BY <1>5, <1>7, <1>8, <1>9, <1>10, <1>11 DEF Correspond
    <2> QED BY <2>1, OrderIsOne
  <1>13. \A n \in 1 .. Cardinality(K) : rows[n] \in K
    BY OnlyKeeps
  <1>14. ByPathDesc(mine) = [n \in DOMAIN mine |-> mine[InOrder(LongerFirst(mine), DOMAIN mine)[n]]]
    BY DEF ByPathDesc, Sorted
  <1>15. Only(list, K) = [n \in 1 .. Cardinality(K) |-> list[rows[n]]]
    BY DEF Only
  <1> HIDE DEF rows
  <1>16. \A n \in 1 .. Cardinality(K) :
            list[rows[n]] = mine[InOrder(LongerFirst(mine), DOMAIN mine)[n]]
    BY <1>4, <1>12, <1>13
  <1>17. DOMAIN mine = 1 .. Cardinality(K)
    BY <1>11, <1>12
  <1>18. Only(list, K) = ByPathDesc(mine)
    BY <1>14, <1>15, <1>16, <1>17
  <1> QED BY <1>18 DEF mine

\* What one provider's routes answer, if they are all that serve a request.
AnswerOf(mine, path) == IF mine = <<>> THEN NoAnswer ELSE MatchPool(ByPathDesc(mine), path)

\* A request that only one provider's routes of one hostname serve is answered from
\* these routes alone.
AnswersAreLocal ==
    \A host \in Hosts, path \in Requests, p \in Providers :
        LET mine == Candidates(p, host, path)
        IN  (OneHostname(mine) /\ \A q \in Providers \ {p} : Candidates(q, host, path) = <<>>)
            => Resolve(host, path) = AnswerOf(mine, path)

Serving(p, host, path) ==
    {i \in DOMAIN messages[p] : Serves(host, messages[p][i]) /\ Under(messages[p][i], path)}

LEMMA CandidatesAre ==
    ASSUME TableInv, NEW p \in Providers, NEW host, NEW path
    PROVE  LET mine == Candidates(p, host, path)
           IN  /\ mine = Only(messages[p], Serving(p, host, path))
               /\ mine \in Seq(Route)
               /\ mine = <<>> <=> Serving(p, host, path) = {}
               /\ \A i \in Serving(p, host, path) : \E c \in DOMAIN mine : mine[c] = messages[p][i]
  <1> DEFINE J == Serving(p, host, path)
             mine == Candidates(p, host, path)
  <1>1. messages[p] \in Seq(Route)
    BY DEF TableInv, Messages
  <1>2. J \in SUBSET DOMAIN messages[p] /\ mine = Only(messages[p], J)
    BY DEF Serving, Candidates
  <1> HIDE DEF J, mine
  <1>3. /\ mine \in Seq(Route) /\ DOMAIN mine = 1 .. Cardinality(J) /\ Cardinality(J) \in Nat
        /\ \A i \in J : \E c \in DOMAIN mine : mine[c] = messages[p][i]
        /\ \A c \in DOMAIN mine : \E i \in J : mine[c] = messages[p][i]
    <2> DEFINE order == InOrder(Ascending(J), J)
    <2>1. IsSublist(Only(messages[p], J), Route, messages[p], J, order)
      BY <1>1, <1>2, SublistIs
    <2> HIDE DEF order
    <2> QED BY <1>2, <2>1 DEF IsSublist
  <1>4. mine = <<>> <=> J = {}
    <2>1. ASSUME J = {} PROVE mine = <<>>
      <3>1. DOMAIN mine = {}
        BY <1>3, <2>1
      <3> QED BY <1>3, <3>1
    <2>2. ASSUME mine = <<>> PROVE J = {}
      <3>1. DOMAIN mine = {}
        BY <2>2
      <3> QED BY <1>3, <3>1
    <2> QED BY <2>1, <2>2
  <1> QED BY <1>2, <1>3, <1>4 DEF J, mine

LEMMA LocalFollows == ASSUME TableInv PROVE AnswersAreLocal
  <1> SUFFICES ASSUME NEW host \in Hosts, NEW path \in Requests, NEW p \in Providers,
                      OneHostname(Candidates(p, host, path)),
                      \A q \in Providers \ {p} : Candidates(q, host, path) = <<>>
               PROVE  Resolve(host, path) = AnswerOf(Candidates(p, host, path), path)
    BY DEF AnswersAreLocal
  <1> DEFINE J    == Serving(p, host, path)
             mine == Candidates(p, host, path)
  <1>1. path \in Paths /\ messages \in Messages
    BY NamesAssumption DEF TableInv
  <1>2. /\ mine = Only(messages[p], J) /\ mine \in Seq(Route) /\ (mine = <<>> <=> J = {})
        /\ \A i \in J : \E c \in DOMAIN mine : mine[c] = messages[p][i]
    BY CandidatesAre
  <1>3. \A i : i \in J <=> /\ i \in DOMAIN messages[p]
                          /\ Serves(host, messages[p][i]) /\ Under(messages[p][i], path)
    BY DEF Serving
  <1>4. ASSUME NEW e \in Entries(messages), Serves(host, At(messages, e)),
               Under(At(messages, e), path)
        PROVE  e[1] = p /\ e[2] \in J
    <2>1. e[1] \in Providers /\ e[2] \in DOMAIN messages[e[1]]
      BY <1>1, EntriesType
    <2>2. e[2] \in Serving(e[1], host, path)
      BY <1>4, <2>1 DEF Serving, At
    <2>3. Candidates(e[1], host, path) # <<>>
      BY <2>1, <2>2, CandidatesAre
    <2>4. e[1] = p
      BY <2>1, <2>3
    <2> QED BY <2>2, <2>4
  <1>5. \A i \in J : /\ <<p, i>> \in Entries(messages) /\ At(messages, <<p, i>>) = messages[p][i]
                     /\ Serves(host, messages[p][i]) /\ Under(messages[p][i], path)
    BY <1>1, <1>3, EntriesType DEF At
  <1> HIDE DEF J, mine
  <1>6. CASE Resolve(host, path) = NoAnswer /\ Unserved(host, path)
    <2>1. J = {}
      BY <1>5, <1>6 DEF Unserved
    <2> QED BY <1>2, <1>6, <2>1 DEF AnswerOf, mine
  <1>7. ASSUME NEW h \in {host} \cup Compiled, NEW list \in Seq(Route),
               AnswersFrom(host, path, h, list)
        PROVE  Resolve(host, path) = AnswerOf(mine, path)
    <2> DEFINE K == Matching(list, path)
    <2>1. PICK f \in [DOMAIN list -> Entries(messages)] : FoundBy(f, messages, h, list)
      BY <1>7 DEF AnswersFrom, IsTable
    <2>2. K # {} /\ K \in SUBSET DOMAIN list
      BY <1>7 DEF AnswersFrom, Matching
    <2>3. ASSUME NEW k \in K
          PROVE  /\ f[k][1] = p /\ f[k][2] \in J
                 /\ messages[p][f[k][2]].host = h
      <3>1. /\ k \in DOMAIN list /\ PathMatches(list[k], path)
            /\ list[k] \in Route /\ list[k].host = h /\ list[k] = At(messages, f[k])
            /\ f[k] \in Entries(messages)
        BY <2>1, LengthsOfType DEF FoundBy, Matching
      <3>2. Under(list[k], path)
        BY <1>1, <3>1, MatchesIsUnder
      <3>3. Serves(host, list[k])
        BY <1>7, <3>1 DEF AnswersFrom, Serves, Compiled
      <3>4. f[k][1] = p /\ f[k][2] \in J
        BY <1>4, <3>1, <3>2, <3>3
      <3> QED BY <3>1, <3>4 DEF At
    <2>4. \A i \in J : messages[p][i].host = h
      <3>1. PICK k \in K : TRUE
        BY <2>2
      <3>2. PICK c \in DOMAIN mine : mine[c].host = h
        BY <1>2, <2>3, <3>1
      <3>3. \A d \in DOMAIN mine : mine[d].host = h
        BY <3>2 DEF OneHostname, mine
      <3> QED BY <1>2, <3>3
    <2>5. ASSUME NEW i \in J PROVE \E k \in K : f[k] = <<p, i>>
      <3>1. PICK k \in DOMAIN list : f[k] = <<p, i>>
        BY <1>5, <2>1, <2>4 DEF FoundBy
      <3>2. list[k] = messages[p][i] /\ list[k] \in Route
        <4>1. list[k] = At(messages, <<p, i>>)
          BY <2>1, <3>1 DEF FoundBy
        <4>2. list[k] \in Route
          BY <3>1, LengthsOfType
        <4> QED BY <1>5, <4>1, <4>2
      <3>3. PathMatches(list[k], path)
        BY <1>1, <1>5, <3>2, MatchesIsUnder
      <3>4. k \in K
        BY <3>3 DEF Matching
      <3> QED BY <3>1, <3>4
    <2> HIDE DEF K
    <2>6. J \in SUBSET DOMAIN messages[p]
      BY <1>3 DEF J, Serving
    <2>7. Only(list, K) = ByPathDesc(mine)
      BY <1>1, <1>2, <2>1, <2>2, <2>3, <2>5, <2>6, SortedAlone
    <2>8. MatchPool(list, path) = MatchPool(ByPathDesc(mine), path)
      BY <2>7, MatchingSuffice DEF K
    <2>9. mine # <<>>
      BY <1>2, <2>2, <2>3
    <2> QED BY <1>7, <2>8, <2>9 DEF AnswersFrom, AnswerOf
  <1> QED BY <1>1, <1>6, <1>7, ResolveIs DEF mine

\* Router.Update: a request that one provider's routes of one hostname answer keeps its
\* answer while these stay as they are, however the other providers' routes change.
THEOREM ReloadsAreIndependent == Spec => ReloadsLeaveOthersAlone
  <1>1. TableInv => AnswersAreLocal
    BY LocalFollows
  <1>2. AnswersAreLocal /\ AnswersAreLocal' =>
           \A host \in Hosts, path \in Requests, p \in Providers :
              LET mine == Candidates(p, host, path)
              IN  (/\ OneHostname(mine)
                   /\ \A q \in Providers \ {p} : /\ Candidates(q, host, path) = <<>>
                                                 /\ Candidates(q, host, path)' = <<>>
                   /\ Candidates(p, host, path)' = mine)
                  => Resolve(host, path)' = Resolve(host, path)
    BY DEF AnswersAreLocal
  <1> QED BY <1>1, <1>2, TableInvariance, PTL DEF ReloadsLeaveOthersAlone
=============================================================================
