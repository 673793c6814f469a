--------------------------- MODULE TreeHash_proofs ---------------------------
(***************************************************************************)
(* Theorem about TreeHash: for any number of threads, of records and paths *)
(* of any length, the tree, the count and the references agree.  What the  *)
(* proof rests on: a node's parent was in the table before it, only the    *)
(* insert that linked a node gives it to its parent, and deletions wait    *)
(* for inserts, so that the tree they work on has every node in a list.    *)
(***************************************************************************)
EXTENDS TreeHash, FiniteSetTheorems, WellFoundedInduction, TLAPS

Prefix(r, n) == SubSeq(PathOf[r], 1, n)
Paths == UNION {{Prefix(r, n) : n \in 1 .. Len(PathOf[r])} : r \in Records}

Assumptions ==
    /\ IsFiniteSet(Records) /\ IsFiniteSet(Threads) /\ Null \notin Records
    /\ \A r \in Records : PathOf[r] \in Seq(STRING) \ {<<>>}
    /\ Null \notin Paths
    /\ Orders \in Seq(Seq(Seq(STRING))) \ {<<>>}
    /\ \A i \in DOMAIN Orders, r \in Records : Len(PathOf[r]) <= Len(Orders[i])
    /\ Limits[Len(Orders)] \in Nat /\ Cardinality(Paths) <= Limits[Len(Orders)]

LEMMA NatMin ==
    ASSUME NEW T, T \subseteq Nat, T # {}
    PROVE  \E x \in T : \A y \in T : x <= y
<1> DEFINE Less == {r \in Nat \X Nat : r[1] < r[2]}
<1>1. IsWellFoundedOn(Less, Nat)
  BY NatLessThanWellFounded DEF OpToRel
<1> HIDE DEF Less
<1>2. PICK x \in T : \A y \in T : <<y, x>> \notin Less
  BY <1>1, WFMin, Zenon
<1>3. \A y \in T : ~(y < x)
  BY <1>2 DEF Less
<1> QED
  BY <1>3

\* Induction on the natural numbers, for the set of those that have a property.
LEMMA NatInd ==
    ASSUME NEW P, 0 \in P, \A n \in Nat : n \in P => n + 1 \in P
    PROVE  Nat \subseteq P
<1> DEFINE T == Nat \ P
<1> SUFFICES ASSUME T # {}  PROVE FALSE
  OBVIOUS
<1>1. PICK x \in T : \A y \in T : x <= y
  <2> HIDE DEF T
  <2>1. T \subseteq Nat
    BY DEF T
  <2> QED
    BY <2>1, NatMin
<1>2. x # 0 /\ x - 1 \in Nat /\ x - 1 + 1 = x
  BY <1>1
<1>3. x - 1 \in P
  BY <1>1, <1>2
<1> QED
  BY <1>1, <1>2, <1>3

-----------------------------------------------------------------------------
(* The paths.                                                              *)

LEMMA Lengths == ASSUME NEW S, NEW s \in Seq(S) PROVE Len(s) \in Nat /\ DOMAIN s = 1 .. Len(s)
OBVIOUS

LEMMA PathsFinite ==
    ASSUME Assumptions  PROVE IsFiniteSet(Paths)
<1> DEFINE Onto(r) == {Prefix(r, n) : n \in 1 .. Len(PathOf[r])}
           f == [r \in Records |-> Onto(r)]
<1>1. ASSUME NEW r \in Records  PROVE IsFiniteSet(Onto(r))
  <2> DEFINE g == [n \in 1 .. Len(PathOf[r]) |-> Prefix(r, n)]
  <2>1. IsFiniteSet(1 .. Len(PathOf[r]))
    <3>1. Len(PathOf[r]) \in Int /\ 1 \in Int
      BY DEF Assumptions
    <3> QED
      BY <3>1, FS_Interval
  <2>2. g \in Surjection(1 .. Len(PathOf[r]), Onto(r))
    BY DEF Surjection
  <2> QED
    BY <2>1, <2>2, FS_Surjection
<1>2. f \in Surjection(Records, {Onto(r) : r \in Records})
  BY DEF Surjection
<1>3. \A S \in {Onto(r) : r \in Records} : IsFiniteSet(S)
  BY <1>1
<1>4. IsFiniteSet({Onto(r) : r \in Records})
  BY <1>2, FS_Surjection DEF Assumptions
<1> DEFINE all == {Onto(r) : r \in Records}
<1>5. Paths = UNION all
  BY DEF Paths
<1> HIDE DEF all
<1>6. IsFiniteSet(UNION all)
  BY <1>3, <1>4, FS_UNION DEF all
<1> QED
  BY <1>5, <1>6

LEMMA PrefixOf ==
    ASSUME Assumptions, NEW r \in Records, NEW n \in 1 .. Len(PathOf[r])
    PROVE  /\ Prefix(r, n) \in Paths /\ Prefix(r, n) \in Seq(STRING) /\ Len(Prefix(r, n)) = n
           /\ n \in Nat \ {0}
           /\ n # 1 => Front(Prefix(r, n)) = Prefix(r, n - 1) /\ n - 1 \in 1 .. Len(PathOf[r])
<1>1. PathOf[r] \in Seq(STRING) /\ Len(PathOf[r]) \in Nat
  BY DEF Assumptions
<1>2. n \in Nat \ {0} /\ n <= Len(PathOf[r])
  BY <1>1
<1>3. Prefix(r, n) \in Seq(STRING) /\ Len(Prefix(r, n)) = n
  BY <1>1, <1>2 DEF Prefix
<1>4. Prefix(r, n) \in Paths
  BY DEF Paths
<1>5. ASSUME n # 1  PROVE Front(Prefix(r, n)) = Prefix(r, n - 1)
  <2>1. Front(Prefix(r, n)) = SubSeq(Prefix(r, n), 1, n - 1)
    BY <1>3 DEF Front
  <2> QED
    BY <1>1, <1>2, <1>5, <2>1 DEF Prefix
<1> QED
  BY <1>2, <1>3, <1>4, <1>5

LEMMA PrefixFacts ==
    ASSUME Assumptions, NEW p \in Paths
    PROVE  /\ Len(p) \in Nat \ {0} /\ p # Null
           /\ \A i \in DOMAIN Orders : Len(p) <= Len(Orders[i])
           /\ Len(p) # 1 => Front(p) \in Paths /\ Len(Front(p)) = Len(p) - 1
<1>1. PICK r \in Records : \E n \in 1 .. Len(PathOf[r]) : p = Prefix(r, n)
  BY DEF Paths
<1>6. PICK n \in 1 .. Len(PathOf[r]) : p = Prefix(r, n)
  BY <1>1
<1>2. /\ Len(p) = n /\ n \in Nat \ {0}
      /\ n # 1 => Front(p) = Prefix(r, n - 1) /\ n - 1 \in 1 .. Len(PathOf[r])
  BY <1>6, PrefixOf
<1>3. n # 1 => Front(p) \in Paths /\ Len(Front(p)) = n - 1
  BY <1>2, PrefixOf
<1>4. ASSUME NEW i \in DOMAIN Orders  PROVE Len(p) <= Len(Orders[i])
  <2>1. Len(PathOf[r]) <= Len(Orders[i]) /\ Len(PathOf[r]) \in Nat /\ Orders[i] \in Seq(Seq(STRING))
    BY DEF Assumptions
  <2>2. Len(Orders[i]) \in Nat
    BY <2>1
  <2> QED
    BY <1>2, <2>1, <2>2
<1> QED
  BY <1>2, <1>3, <1>4 DEF Assumptions

-----------------------------------------------------------------------------
(* The lists of children.                                                  *)

Once(l) == \A i, j \in DOMAIN l : l[i] = l[j] => i = j

LEMMA Catenation ==
    ASSUME NEW S, NEW a \in Seq(S), NEW b \in Seq(S)
    PROVE  /\ Len(a) \in Nat /\ Len(b) \in Nat
           /\ a \o b \in Seq(S) /\ Len(a \o b) = Len(a) + Len(b)
           /\ \A i \in 1 .. Len(a) + Len(b) : (a \o b)[i] = IF i <= Len(a) THEN a[i] ELSE b[i - Len(a)]
OBVIOUS

LEMMA Consed ==
    ASSUME NEW S, NEW l \in Seq(S), NEW p \in S, Once(l), p \notin Range(l)
    PROVE  /\ <<p>> \o l \in Seq(S) /\ Once(<<p>> \o l)
           /\ Range(<<p>> \o l) = Range(l) \cup {p}
<1> DEFINE k == <<p>> \o l
<1>1. k \in Seq(S) /\ Len(k) = Len(l) + 1 /\ k[1] = p /\ \A i \in 1 .. Len(l) : k[i + 1] = l[i]
  <2>1. <<p>> \in Seq(S) /\ Len(<<p>>) = 1 /\ <<p>>[1] = p
    OBVIOUS
  <2>2. /\ Len(l) \in Nat /\ k \in Seq(S) /\ Len(k) = 1 + Len(l)
        /\ \A i \in 1 .. 1 + Len(l) : k[i] = IF i <= 1 THEN <<p>>[i] ELSE l[i - 1]
    BY <2>1, Catenation
  <2> HIDE DEF k
  <2>3. k[1] = p
    BY <2>1, <2>2
  <2>4. ASSUME NEW i \in 1 .. Len(l)  PROVE k[i + 1] = l[i]
    <3>1. i + 1 \in 1 .. 1 + Len(l) /\ ~(i + 1 <= 1) /\ (i + 1) - 1 = i
      BY <2>2
    <3> QED
      BY <2>2, <3>1
  <2> QED
    BY <2>2, <2>3, <2>4
<1>2. Len(l) \in Nat /\ DOMAIN l = 1 .. Len(l) /\ DOMAIN k = 1 .. Len(l) + 1
  BY <1>1
<1> HIDE DEF k
<1>3. \A i \in DOMAIN k : i # 1 => i - 1 \in DOMAIN l /\ k[i] = l[i - 1]
  BY <1>1, <1>2
<1>4. Range(k) = Range(l) \cup {p}
  <2>1. Range(k) \subseteq Range(l) \cup {p}
    BY <1>1, <1>3 DEF Range
  <2>2. \A i \in DOMAIN l : i + 1 \in DOMAIN k
    BY <1>2
  <2>3. 1 \in DOMAIN k
    BY <1>2
  <2>4. p \in Range(k)
    BY <1>1, <2>3 DEF Range
  <2>5. Range(l) \subseteq Range(k)
    <3> SUFFICES ASSUME NEW i \in DOMAIN l  PROVE l[i] \in Range(k)
      BY DEF Range
    <3>1. i + 1 \in DOMAIN k /\ k[i + 1] = l[i]
      BY <1>1, <1>2, <2>2
    <3> QED
      BY <3>1 DEF Range
  <2> QED
    BY <2>1, <2>4, <2>5
<1>5. Once(k)
  <2> SUFFICES ASSUME NEW i \in DOMAIN k, NEW j \in DOMAIN k, k[i] = k[j]  PROVE i = j
    BY DEF Once
  <2>1. i \in Nat /\ j \in Nat
    BY <1>2
  <2>2. CASE i = 1
    BY <1>1, <1>3, <2>2 DEF Range
  <2>3. CASE j = 1
    BY <1>1, <1>3, <2>3 DEF Range
  <2>4. CASE i # 1 /\ j # 1
    <3>1. i - 1 = j - 1
      BY <1>3, <2>4 DEF Once
    <3> QED
      BY <2>1, <3>1
  <2> QED
    BY <2>2, <2>3, <2>4
<1> QED
  BY <1>1, <1>4, <1>5 DEF k

LEMMA Slice ==
    ASSUME NEW S, NEW l \in Seq(S), NEW m \in 1 .. Len(l) + 1, NEW n \in m - 1 .. Len(l)
    PROVE  /\ SubSeq(l, m, n) \in Seq(S) /\ Len(SubSeq(l, m, n)) = n - m + 1
           /\ \A i \in 1 .. n - m + 1 : SubSeq(l, m, n)[i] = l[m + i - 1]
<1>1. m \in Int /\ n \in Int /\ n - m + 1 \in Nat
  OBVIOUS
<1>2. \A i \in 1 .. n - m + 1 : m + i - 1 \in 1 .. Len(l)
  OBVIOUS
<1>3. Len(SubSeq(l, m, n)) = n - m + 1
  BY <1>1
<1>4. \A i \in 1 .. n - m + 1 : SubSeq(l, m, n)[i] = l[m + i - 1]
  BY <1>1
<1>5. SubSeq(l, m, n) \in Seq(S)
  BY <1>1, <1>2
<1> QED
  BY <1>3, <1>4, <1>5

Removed(l, p) == RemoveAt(l, CHOOSE i \in DOMAIN l : l[i] = p)

LEMMA Unlinked ==
    ASSUME NEW S, NEW l \in Seq(S), NEW p, Once(l), p \in Range(l)
    PROVE  /\ Removed(l, p) \in Seq(S) /\ Once(Removed(l, p))
           /\ Range(Removed(l, p)) = Range(l) \ {p}
<1>1. PICK n \in DOMAIN l : l[n] = p /\ Removed(l, p) = RemoveAt(l, n)
  BY DEF Removed, Range
<1> DEFINE k == RemoveAt(l, n)
           a == SubSeq(l, 1, n - 1)
           b == SubSeq(l, n + 1, Len(l))
<1>2. Len(l) \in Nat /\ DOMAIN l = 1 .. Len(l) /\ n \in 1 .. Len(l)
  BY <1>1
<1>3. /\ a \in Seq(S) /\ Len(a) = n - 1 /\ \A i \in 1 .. n - 1 : a[i] = l[i]
      /\ b \in Seq(S) /\ Len(b) = Len(l) - n /\ \A i \in 1 .. Len(l) - n : b[i] = l[n + i]
  <2> HIDE DEF k
  <2>1. a \in Seq(S) /\ Len(a) = n - 1 /\ \A i \in 1 .. n - 1 : a[i] = l[i]
    BY <1>2, Slice
  <2>2. /\ b \in Seq(S) /\ Len(b) = Len(l) - (n + 1) + 1
        /\ \A i \in 1 .. Len(l) - (n + 1) + 1 : b[i] = l[(n + 1) + i - 1]
    BY <1>2, Slice
  <2> HIDE DEF a, b
  <2>3. Len(l) - (n + 1) + 1 = Len(l) - n /\ \A i \in 1 .. Len(l) - n : (n + 1) + i - 1 = n + i
    BY <1>2
  <2>4. ASSUME NEW i \in 1 .. Len(l) - n  PROVE b[i] = l[n + i]
    <3>1. b[i] = l[(n + 1) + i - 1]
      BY <2>2, <2>3
    <3> QED
      BY <2>3, <3>1
  <2> QED
    BY <2>1, <2>2, <2>3, <2>4
<1>4. /\ k \in Seq(S) /\ Len(k) = Len(l) - 1
      /\ \A i \in 1 .. Len(l) - 1 : k[i] = IF i < n THEN l[i] ELSE l[i + 1]
  <2>1. k = a \o b
    BY DEF RemoveAt
  <2> HIDE DEF a, b, k
  <2>2. /\ k \in Seq(S) /\ Len(k) = Len(a) + Len(b)
        /\ \A i \in 1 .. Len(a) + Len(b) : k[i] = IF i <= Len(a) THEN a[i] ELSE b[i - Len(a)]
    BY <1>3, <2>1, Catenation
  <2>3. Len(a) = n - 1 /\ Len(a) + Len(b) = Len(l) - 1
    BY <1>2, <1>3
  <2>4. \A i \in n .. Len(l) - 1 : b[i - (n - 1)] = l[i + 1]
    <3> SUFFICES ASSUME NEW i \in n .. Len(l) - 1  PROVE b[i - (n - 1)] = l[i + 1]
      OBVIOUS
    <3>1. i - (n - 1) \in 1 .. Len(l) - n /\ n + (i - (n - 1)) = i + 1
      BY <1>2
    <3> QED
      BY <1>3, <3>1
  <2> QED
    <3>1. k \in Seq(S) /\ Len(k) = Len(l) - 1
      BY <2>2, <2>3
    <3>2. \A i \in 1 .. Len(l) - 1 : k[i] = IF i <= n - 1 THEN a[i] ELSE b[i - (n - 1)]
      BY <2>2, <2>3
    <3>3. ASSUME NEW i \in 1 .. Len(l) - 1  PROVE k[i] = IF i < n THEN l[i] ELSE l[i + 1]
      <4>1. CASE i < n
        BY <1>2, <1>3, <3>2, <4>1
      <4>2. CASE ~(i < n)
        BY <1>2, <2>4, <3>2, <4>2
      <4> QED
        BY <4>1, <4>2
    <3> QED
      BY <3>1, <3>3
<1>5. DOMAIN k = 1 .. Len(l) - 1
  BY <1>2, <1>4
<1> HIDE DEF k
<1>6. Once(k)
  <2> SUFFICES ASSUME NEW i \in DOMAIN k, NEW j \in DOMAIN k, k[i] = k[j]  PROVE i = j
    BY DEF Once
  <2> DEFINE at(x) == IF x < n THEN x ELSE x + 1
  <2>1. at(i) \in DOMAIN l /\ at(j) \in DOMAIN l /\ k[i] = l[at(i)] /\ k[j] = l[at(j)]
    BY <1>2, <1>4, <1>5
  <2>2. at(i) = at(j)
    BY <2>1 DEF Once
  <2> QED
    BY <1>2, <1>5, <2>2
<1>7. Range(k) \subseteq Range(l) \ {p}
  <2> SUFFICES ASSUME NEW i \in DOMAIN k  PROVE k[i] \in Range(l) /\ k[i] # p
    BY DEF Range
  <2> DEFINE at == IF i < n THEN i ELSE i + 1
  <2>1. at \in DOMAIN l /\ k[i] = l[at] /\ at # n
    BY <1>2, <1>4, <1>5
  <2> QED
    BY <1>1, <2>1 DEF Once, Range
<1>8. Range(l) \ {p} \subseteq Range(k)
  <2> SUFFICES ASSUME NEW j \in DOMAIN l, l[j] # p  PROVE l[j] \in Range(k)
    BY DEF Range
  <2> DEFINE at == IF j < n THEN j ELSE j - 1
  <2>1. at \in DOMAIN k /\ k[at] = l[j]
    BY <1>1, <1>2, <1>4, <1>5
  <2> QED
    BY <2>1 DEF Range
<1> QED
  BY <1>1, <1>4, <1>6, <1>7, <1>8 DEF k

LEMMA CountOnce ==
    ASSUME NEW S, NEW l \in Seq(S), Once(l), NEW p
    PROVE  Cardinality({i \in DOMAIN l : l[i] = p}) = IF p \in Range(l) THEN 1 ELSE 0
<1>1. CASE p \in Range(l)
  <2>1. PICK n \in DOMAIN l : l[n] = p
    BY <1>1 DEF Range
  <2>2. {i \in DOMAIN l : l[i] = p} = {n}
    BY <2>1 DEF Once
  <2> QED
    BY <1>1, <2>2, FS_Singleton
<1>2. CASE p \notin Range(l)
  <2>1. {i \in DOMAIN l : l[i] = p} = {}
    BY <1>2 DEF Range
  <2> QED
    BY <1>2, <2>1, FS_EmptySet
<1> QED
  BY <1>1, <1>2

-----------------------------------------------------------------------------
(* Iteration.                                                              *)

Iterated(f, m, x, G) == f[0] = x /\ \A d \in 1 .. m : f[d] = G[<<d, f[d - 1]>>]
HasIterate(m, U, x, G) == \E f \in [0 .. m -> U] : Iterated(f, m, x, G)

LEMMA Iterates ==
    ASSUME NEW n \in Nat, NEW U, NEW x \in U, NEW G \in [(1 .. n) \X U -> U]
    PROVE  HasIterate(n, U, x, G)
<1> DEFINE P == {m \in Nat : m <= n => HasIterate(m, U, x, G)}
<1>1. 0 \in P
  <2>1. [d \in 0 .. 0 |-> x] \in [0 .. 0 -> U] /\ Iterated([d \in 0 .. 0 |-> x], 0, x, G)
    BY DEF Iterated
  <2> QED
    BY <2>1 DEF HasIterate
<1>2. ASSUME NEW m \in Nat, m \in P  PROVE m + 1 \in P
  <2> SUFFICES ASSUME m + 1 <= n  PROVE HasIterate(m + 1, U, x, G)
    OBVIOUS
  <2>1. PICK f \in [0 .. m -> U] : Iterated(f, m, x, G)
    BY <1>2 DEF HasIterate
  <2> DEFINE g == [d \in 0 .. m + 1 |-> IF d = m + 1 THEN G[<<d, f[m]>>] ELSE f[d]]
  <2>2. m \in 0 .. m /\ m + 1 \in 1 .. n
    OBVIOUS
  <2>3. G[<<m + 1, f[m]>>] \in U
    BY <2>2
  <2>4. g \in [0 .. m + 1 -> U]
    BY <2>3
  <2>5. g[0] = x /\ g[m + 1] = G[<<m + 1, f[m]>>] /\ \A d \in 0 .. m : g[d] = f[d]
    BY <2>1 DEF Iterated
  <2> HIDE DEF g
  <2>6. ASSUME NEW d \in 1 .. m + 1  PROVE g[d] = G[<<d, g[d - 1]>>]
    <3>1. CASE d = m + 1
      <4>1. d - 1 = m
        BY <3>1
      <4> QED
        BY <2>2, <2>5, <3>1, <4>1
    <3>2. CASE d # m + 1
      <4>1. d \in 1 .. m /\ d \in 0 .. m /\ d - 1 \in 0 .. m
        BY <3>2
      <4> QED
        BY <2>1, <2>5, <4>1 DEF Iterated
    <3> QED
      BY <3>1, <3>2
  <2> QED
    BY <2>4, <2>5, <2>6 DEF HasIterate, Iterated
<1> HIDE DEF P
<1>3. Nat \subseteq P
  BY <1>1, <1>2, NatInd
<1> QED
  BY <1>3 DEF P

-----------------------------------------------------------------------------
(* Deletion.                                                               *)

Node == [record : Records \cup {Null}, parent : Paths \cup {Null}, children : Seq(Paths)]
Trees == UNION {[D -> Node] : D \in SUBSET Paths}

Sound(T) ==
    /\ T \in Trees
    /\ \A p \in DOMAIN T : T[p].parent = IF Len(p) = 1 THEN Null ELSE Front(p)
    /\ \A p \in DOMAIN T : T[p].parent # Null => T[p].parent \in DOMAIN T
    /\ \A q \in DOMAIN T : Once(T[q].children) /\ Range(T[q].children) \subseteq DOMAIN T

\* The nodes not in X, and no others, are in the lists of their parents.
Adopted(T, X) ==
    \A p, q \in DOMAIN T : p \in Range(T[q].children) <=> T[p].parent = q /\ p \notin X

\* Both speak of the nodes, their parents and their children, and not of the records.
LEMMA SameLinks ==
    ASSUME NEW T, NEW U \in Trees, NEW X, Sound(T), Adopted(T, X), DOMAIN U = DOMAIN T,
           \A p \in DOMAIN T : U[p].parent = T[p].parent /\ U[p].children = T[p].children
    PROVE  Sound(U) /\ Adopted(U, X)
<1>1. \A p \in DOMAIN U : U[p].parent = IF Len(p) = 1 THEN Null ELSE Front(p)
  BY DEF Sound
<1>2. \A p \in DOMAIN U : U[p].parent # Null => U[p].parent \in DOMAIN U
  BY DEF Sound
<1>3. \A q \in DOMAIN U : Once(U[q].children) /\ Range(U[q].children) \subseteq DOMAIN U
  BY DEF Sound
<1>4. \A p, q \in DOMAIN U : p \in Range(U[q].children) <=> U[p].parent = q /\ p \notin X
  BY DEF Adopted
<1> QED
  BY <1>1, <1>2, <1>3, <1>4 DEF Sound, Adopted

LEMMA TreeFacts ==
    ASSUME Assumptions, NEW T \in Trees
    PROVE  DOMAIN T \subseteq Paths /\ \A q \in DOMAIN T : T[q] \in Node
BY DEF Trees

\* A child's path is longer by one segment.
LEMMA ChildLonger ==
    ASSUME Assumptions, NEW T, Sound(T), Adopted(T, {}), NEW q \in DOMAIN T, NEW c \in Range(T[q].children)
    PROVE  /\ c \in DOMAIN T /\ T[c].parent = q
           /\ Len(c) \in Nat /\ Len(q) \in Nat /\ Len(c) = Len(q) + 1
<1>1. c \in DOMAIN T /\ T[c].parent = q /\ c \in Paths /\ q \in Paths
  BY TreeFacts DEF Sound, Adopted
<1>2. q # Null /\ Len(q) \in Nat \ {0} /\ Len(c) \in Nat \ {0}
  BY <1>1, PrefixFacts
<1>3. Len(c) # 1 /\ q = Front(c)
  BY <1>1, <1>2 DEF Sound
<1>4. Len(q) = Len(c) - 1
  BY <1>1, <1>3, PrefixFacts
<1> QED
  BY <1>1, <1>2, <1>4

Grow(T, X) == X \cup UNION {Range(T[q].children) : q \in X}
Grows(b, T, p) == b = [d \in 0 .. Len(Orders[size]) |-> IF d = 0 THEN {p} ELSE Grow(T, b[d - 1])]

LEMMA BelowGrows ==
    ASSUME Assumptions, size \in DOMAIN Orders, NEW T, Sound(T), NEW p \in DOMAIN T
    PROVE  \E b : Grows(b, T, p) /\ Below(T, p) = b[Len(Orders[size])]
<1> DEFINE n == Len(Orders[size])
           U == SUBSET DOMAIN T
           G == [e \in (1 .. n) \X U |-> Grow(T, e[2])]
<1>1. n \in Nat
  BY DEF Assumptions
<1>2. G \in [(1 .. n) \X U -> U]
  BY DEF Grow, Sound
<1>3. {p} \in U
  OBVIOUS
<1>4. HasIterate(n, U, {p}, G)
  <2> HIDE DEF n, U, G
  <2> QED
    BY <1>1, <1>2, <1>3, Iterates
<1>5. PICK f \in [0 .. n -> U] : Iterated(f, n, {p}, G)
  BY <1>4 DEF HasIterate
<1>6. Grows(f, T, p)
  <2>1. ASSUME NEW d \in 0 .. n  PROVE f[d] = IF d = 0 THEN {p} ELSE Grow(T, f[d - 1])
    <3>1. CASE d = 0
      BY <1>5, <3>1 DEF Iterated
    <3>2. CASE d # 0
      <4>1. d \in 1 .. n /\ d - 1 \in 0 .. n
        BY <1>1, <3>2
      <4>2. f[d] = G[<<d, f[d - 1]>>]
        BY <1>5, <4>1 DEF Iterated
      <4>3. <<d, f[d - 1]>> \in (1 .. n) \X U
        BY <4>1
      <4> QED
        BY <3>2, <4>2, <4>3
    <3> QED
      BY <3>1, <3>2
  <2> QED
    BY <2>1 DEF Grows
<1>7. PICK b : Grows(b, T, p) /\ b = CHOOSE g : Grows(g, T, p)
  BY <1>6
<1>8. Below(T, p) = (CHOOSE g : Grows(g, T, p))[n]
  BY DEF Below, Grows, Grow
<1> QED
  BY <1>7, <1>8

LEMMA BelowFacts ==
    ASSUME Assumptions, size \in DOMAIN Orders, NEW T, Sound(T), Adopted(T, {}), NEW p \in DOMAIN T
    PROVE  /\ p \in Below(T, p) /\ Below(T, p) \subseteq DOMAIN T
           /\ \A q \in Below(T, p) : Range(T[q].children) \subseteq Below(T, p)
           /\ \A q \in Below(T, p) : q # p => T[q].parent \in Below(T, p)
<1>1. PICK b : Grows(b, T, p) /\ Below(T, p) = b[Len(Orders[size])]
  BY BelowGrows
<1> DEFINE n == Len(Orders[size])
<1>2. n \in Nat /\ Len(p) \in Nat \ {0}
  BY TreeFacts, PrefixFacts DEF Assumptions, Sound
<1>3. b[0] = {p} /\ \A d \in 0 .. n : d # 0 => b[d] = Grow(T, b[d - 1])
  <2>1. \A d \in 0 .. n : b[d] = IF d = 0 THEN {p} ELSE Grow(T, b[d - 1])
    BY <1>1, Zenon DEF Grows
  <2>2. 0 \in 0 .. n
    BY <1>2
  <2> QED
    BY <2>1, <2>2
<1> DEFINE Has(d) == /\ p \in b[d] /\ b[d] \subseteq DOMAIN T
                     /\ \A q \in b[d] : q # p => T[q].parent \in b[d]
                     /\ \A q \in b[d] : Len(q) < Len(p) + d => Range(T[q].children) \subseteq b[d]
                     /\ \A q \in b[d] : Len(q) >= Len(p)
           P == {d \in Nat : d <= n => Has(d)}
<1>4. 0 \in P
  <2>1. ~(Len(p) < Len(p) + 0) /\ Len(p) >= Len(p)
    BY <1>2
  <2>2. Has(0)
    BY <1>3, <2>1
  <2> QED
    BY <2>2
<1>5. ASSUME NEW e \in Nat, e \in P  PROVE e + 1 \in P
  <2> SUFFICES ASSUME e + 1 <= n  PROVE Has(e + 1)
    OBVIOUS
  <2>1. Has(e)
    BY <1>2, <1>5
  <2>2. b[e + 1] = b[e] \cup UNION {Range(T[q].children) : q \in b[e]}
    <3>1. e + 1 \in 0 .. n /\ e + 1 # 0 /\ e + 1 - 1 = e
      BY <1>2
    <3>2. b[e + 1] = Grow(T, b[e])
      BY <1>3, <3>1
    <3> QED
      BY <3>2 DEF Grow
  <2>3. \A q \in b[e] : \A c \in Range(T[q].children) :
            /\ c \in DOMAIN T /\ T[c].parent = q
            /\ Len(c) \in Nat /\ Len(q) \in Nat /\ Len(c) = Len(q) + 1
    BY <2>1, ChildLonger
  <2>4. p \in b[e + 1] /\ b[e + 1] \subseteq DOMAIN T
    BY <2>1, <2>2, <2>3
  <2>5. \A q \in b[e + 1] : q # p => T[q].parent \in b[e + 1]
    BY <2>1, <2>2, <2>3
  <2>6. \A q \in b[e + 1] : Len(q) >= Len(p)
    BY <1>2, <2>1, <2>2, <2>3
  <2>7. ASSUME NEW q \in b[e + 1], Len(q) < Len(p) + (e + 1)  PROVE Range(T[q].children) \subseteq b[e + 1]
    <3>1. CASE q \in b[e]
      BY <2>2, <3>1
    <3>2. CASE q \notin b[e]
      <4>1. PICK s \in b[e] : q \in Range(T[s].children)
        BY <2>2, <3>2
      <4>2. Len(s) < Len(p) + e
        BY <1>2, <2>3, <2>7, <4>1
      <4> QED
        BY <2>1, <3>2, <4>1, <4>2
    <3> QED
      BY <3>1, <3>2
  <2> QED
    BY <2>4, <2>5, <2>6, <2>7
<1>6. n \in P
  <2> HIDE DEF P, n
  <2> QED
    BY <1>2, <1>4, <1>5, NatInd
<1>7. Has(n)
  BY <1>2, <1>6
<1>8. ASSUME NEW q \in b[n]  PROVE Range(T[q].children) \subseteq b[n]
  <2> SUFFICES ASSUME NEW c \in Range(T[q].children)  PROVE c \in b[n]
    OBVIOUS
  <2>1. c \in DOMAIN T /\ Len(c) = Len(q) + 1 /\ Len(q) \in Nat
    BY <1>7, ChildLonger
  <2>2. Len(c) <= n
    BY <2>1, TreeFacts, PrefixFacts DEF Sound
  <2>3. Len(q) < Len(p) + n
    BY <1>2, <2>1, <2>2
  <2> QED
    BY <1>7, <2>3
<1> QED
  BY <1>1, <1>7, <1>8

\* What is left of a sound tree is sound.
LEMMA DeleteSound ==
    ASSUME Assumptions, size \in DOMAIN Orders, NEW T, Sound(T), Adopted(T, {}), NEW p \in DOMAIN T
    PROVE  /\ Sound(DeleteNodeInternal(T, p)) /\ Adopted(DeleteNodeInternal(T, p), {})
           /\ DOMAIN DeleteNodeInternal(T, p) \subseteq DOMAIN T
           /\ \A q \in DOMAIN DeleteNodeInternal(T, p) :
                DeleteNodeInternal(T, p)[q].record = T[q].record
<1> DEFINE D == Below(T, p)
           R == DeleteNodeInternal(T, p)
<1>1. /\ p \in D /\ D \subseteq DOMAIN T
      /\ \A q \in D : Range(T[q].children) \subseteq D
      /\ \A q \in D : q # p => T[q].parent \in D
  BY BelowFacts
<1>2. /\ DOMAIN T \subseteq Paths
      /\ \A q \in DOMAIN T : T[q] \in Node
  BY TreeFacts DEF Sound
<1>3. /\ DOMAIN R = DOMAIN T \ D
      /\ \A q \in DOMAIN T \ D :
            R[q] = IF q # T[p].parent THEN T[q]
                   ELSE [T[q] EXCEPT !.children = Removed(T[q].children, p)]
  BY DEF DeleteNodeInternal, Removed
<1> HIDE DEF D, R
<1>4. \A q \in DOMAIN R : /\ R[q].record = T[q].record /\ R[q].parent = T[q].parent
                          /\ R[q].children = IF q # T[p].parent THEN T[q].children
                                             ELSE Removed(T[q].children, p)
  BY <1>2, <1>3 DEF Node
<1>5. ASSUME NEW q \in DOMAIN R
      PROVE  /\ R[q].children \in Seq(Paths) /\ Once(R[q].children)
             /\ Range(R[q].children) = Range(T[q].children) \ {p}
  <2>1. q \in DOMAIN T /\ T[q].children \in Seq(Paths) /\ Once(T[q].children)
    BY <1>2, <1>3 DEF Node, Sound
  <2>2. p \in Range(T[q].children) <=> T[p].parent = q
    BY <2>1 DEF Adopted
  <2>3. CASE q # T[p].parent
    BY <1>4, <2>1, <2>2, <2>3
  <2>4. CASE q = T[p].parent
    <3>1. R[q].children = Removed(T[q].children, p) /\ p \in Range(T[q].children)
      BY <1>4, <2>2, <2>4
    <3> QED
      BY <2>1, <3>1, Unlinked
  <2> QED
    BY <2>3, <2>4
<1>6. R \in Trees
  <2>1. ASSUME NEW q \in DOMAIN R  PROVE R[q] \in Node
    <3>1. T[q] \in Node /\ R[q].children \in Seq(Paths)
      BY <1>2, <1>3, <1>5
    <3>2. R[q] = T[q] \/ R[q] = [T[q] EXCEPT !.children = R[q].children]
      BY <1>3, <3>1 DEF Node
    <3> QED
      BY <3>1, <3>2 DEF Node
  <2>2. R = [q \in DOMAIN R |-> R[q]]
    BY DEF R, DeleteNodeInternal
  <2>3. R \in [DOMAIN R -> Node]
    BY <2>1, <2>2
  <2>4. DOMAIN R \in SUBSET Paths
    BY <1>2, <1>3
  <2> QED
    BY <2>3, <2>4 DEF Trees
<1>7. \A q \in DOMAIN R : R[q].parent # Null => R[q].parent \in DOMAIN R
  <2> SUFFICES ASSUME NEW q \in DOMAIN R, T[q].parent # Null  PROVE T[q].parent \notin D
    BY <1>3, <1>4 DEF Sound
  <2>1. q \in DOMAIN T /\ T[q].parent \in DOMAIN T
    BY <1>3 DEF Sound
  <2>2. q \in Range(T[T[q].parent].children)
    BY <2>1 DEF Adopted
  <2> QED
    BY <1>1, <1>3, <2>2
<1>8. \A q \in DOMAIN R : Range(R[q].children) \subseteq DOMAIN R
  <2> SUFFICES ASSUME NEW q \in DOMAIN R, NEW c \in Range(T[q].children), c # p  PROVE c \in DOMAIN R
    BY <1>5
  <2>1. c \in DOMAIN T /\ T[c].parent = q
    BY <1>3 DEF Sound, Adopted
  <2> QED
    BY <1>1, <1>3, <2>1
<1>9. Sound(R)
  BY <1>3, <1>4, <1>5, <1>6, <1>7, <1>8 DEF Sound
<1>10. Adopted(R, {})
  <2> SUFFICES ASSUME NEW c \in DOMAIN R, NEW q \in DOMAIN R
               PROVE  c \in Range(R[q].children) <=> R[c].parent = q
    BY DEF Adopted
  <2>1. c \in DOMAIN T /\ q \in DOMAIN T /\ c # p
    BY <1>1, <1>3
  <2>2. c \in Range(T[q].children) <=> T[c].parent = q
    BY <2>1 DEF Adopted
  <2> QED
    BY <1>4, <1>5, <2>1, <2>2
<1> QED
  BY <1>3, <1>4, <1>9, <1>10 DEF R

\* A tree with some of the nodes and some of the records of the table's.
Left(T) ==
    /\ Sound(T) /\ Adopted(T, {}) /\ DOMAIN T \subseteq DOMAIN tree
    /\ \A q \in DOMAIN T : T[q].record \in {tree[q].record, Null}

LEMMA VisitLeaves ==
    ASSUME Assumptions, size \in DOMAIN Orders, NEW F, NEW T, Left(T), NEW p
    PROVE  Left(Visit(F, T, p))
<1>1. CASE Visit(F, T, p) = T
  BY <1>1
<1>2. CASE p \in DOMAIN T /\ Visit(F, T, p) = DeleteNodeInternal(T, p)
  <2>1. Sound(T) /\ Adopted(T, {})
    BY DEF Left
  <2> DEFINE R == DeleteNodeInternal(T, p)
  <2>2. /\ Sound(R) /\ Adopted(R, {}) /\ DOMAIN R \subseteq DOMAIN T
        /\ \A q \in DOMAIN R : R[q].record = T[q].record
    BY <1>2, <2>1, DeleteSound
  <2> HIDE DEF R
  <2>3. Left(R)
    BY <2>2 DEF Left
  <2> QED
    BY <1>2, <2>3 DEF R
<1>3. CASE p \in DOMAIN T /\ Visit(F, T, p) = [T EXCEPT ![p].record = Null]
  <2> DEFINE R == [T EXCEPT ![p].record = Null]
  <2>1. T \in Trees /\ Sound(T) /\ Adopted(T, {})
    BY DEF Left, Sound
  <2>2. DOMAIN T \subseteq Paths /\ \A q \in DOMAIN T : T[q] \in Node
    BY <2>1, TreeFacts
  <2>3. DOMAIN R = DOMAIN T /\ \A q \in DOMAIN T : R[q] = IF q = p THEN [T[q] EXCEPT !.record = Null] ELSE T[q]
    OBVIOUS
  <2>4. R = [q \in DOMAIN T |-> R[q]]
    OBVIOUS
  <2> HIDE DEF R
  <2>5. \A q \in DOMAIN T : /\ R[q] \in Node /\ R[q].parent = T[q].parent /\ R[q].children = T[q].children
                            /\ R[q].record \in {T[q].record, Null}
    BY <2>2, <2>3 DEF Node
  <2>6. R \in Trees
    BY <2>2, <2>4, <2>5 DEF Trees
  <2>7. Sound(R) /\ Adopted(R, {})
    BY <2>1, <2>3, <2>5, <2>6 DEF Sound, Adopted
  <2>8. Left(R)
    BY <2>3, <2>5, <2>7 DEF Left
  <2> QED
    BY <1>3, <2>8 DEF R
<1> QED
  BY <1>1, <1>2, <1>3 DEF Visit

Walks(w, F) ==
    w = [i \in 0 .. Len(Orders[size]) |->
            IF i = 0 THEN tree ELSE Visit(F, w[i - 1], Orders[size][i])]

\* One walk of DeleteIf leaves such a tree.
LEMMA WalkLeaves ==
    ASSUME Assumptions, size \in DOMAIN Orders, Sound(tree), Adopted(tree, {}), NEW F
    PROVE  Left(Walk(F))
<1> DEFINE n == Len(Orders[size])
           U == {T \in Trees : Left(T)}
           G == [e \in (1 .. n) \X U |-> Visit(F, e[2], Orders[size][e[1]])]
<1>1. n \in Nat
  BY DEF Assumptions
<1>2. tree \in U
  BY DEF Left, Sound
<1>3. G \in [(1 .. n) \X U -> U]
  <2> SUFFICES ASSUME NEW e \in (1 .. n) \X U  PROVE Visit(F, e[2], Orders[size][e[1]]) \in U
    OBVIOUS
  <2>1. Left(e[2])
    OBVIOUS
  <2>2. Left(Visit(F, e[2], Orders[size][e[1]]))
    BY <2>1, VisitLeaves
  <2> QED
    BY <2>2 DEF Left, Sound
<1>4. HasIterate(n, U, tree, G)
  <2> HIDE DEF n, U, G
  <2> QED
    BY <1>1, <1>2, <1>3, Iterates
<1>5. PICK f \in [0 .. n -> U] : Iterated(f, n, tree, G)
  BY <1>4 DEF HasIterate
<1>6. Walks(f, F)
  <2>1. ASSUME NEW i \in 0 .. n  PROVE f[i] = IF i = 0 THEN tree ELSE Visit(F, f[i - 1], Orders[size][i])
    <3>1. CASE i = 0
      BY <1>5, <3>1 DEF Iterated
    <3>2. CASE i # 0
      <4>1. i \in 1 .. n /\ i - 1 \in 0 .. n
        BY <1>1, <3>2
      <4> HIDE DEF U
      <4>2. <<i, f[i - 1]>> \in (1 .. n) \X U /\ f[i] = G[<<i, f[i - 1]>>]
        BY <1>5, <4>1 DEF Iterated
      <4>3. G[<<i, f[i - 1]>>] = Visit(F, f[i - 1], Orders[size][i])
        BY <4>2
      <4> QED
        BY <3>2, <4>2, <4>3
    <3> QED
      BY <3>1, <3>2
  <2> QED
    BY <2>1 DEF Walks
<1>7. PICK w : Walks(w, F) /\ w = CHOOSE g : Walks(g, F)
  BY <1>6
<1>8. Walk(F) = w[n]
  BY <1>7 DEF Walk, Walks
<1>9. \A i \in 0 .. n : w[i] = IF i = 0 THEN tree ELSE Visit(F, w[i - 1], Orders[size][i])
  BY <1>7, Zenon DEF Walks
<1> DEFINE P == {i \in Nat : i <= n => Left(w[i])}
<1>10. 0 \in P
  BY <1>1, <1>2, <1>9
<1>11. ASSUME NEW i \in Nat, i \in P  PROVE i + 1 \in P
  <2> SUFFICES ASSUME i + 1 <= n  PROVE Left(w[i + 1])
    OBVIOUS
  <2>1. Left(w[i]) /\ i + 1 \in 0 .. n /\ i + 1 # 0 /\ i + 1 - 1 = i
    BY <1>1, <1>11
  <2>2. w[i + 1] = Visit(F, w[i], Orders[size][i + 1])
    BY <1>9, <2>1
  <2> QED
    BY <2>1, <2>2, VisitLeaves
<1>12. n \in P
  <2> HIDE DEF P, n
  <2> QED
    BY <1>1, <1>10, <1>11, NatInd
<1> QED
  BY <1>1, <1>8, <1>12

-----------------------------------------------------------------------------
(* Inserts.                                                                *)

Inserting == {"ascend", "add", "refer", "own", "count", "adopt", "inserted", "release"}
Linked == {"own", "count", "adopt"}

Types ==
    /\ nItems \in Int /\ size \in DOMAIN Orders /\ readers \subseteq Threads
    /\ pc \in [Threads -> Inserting \cup {"idle", "rehash"}]
    /\ rec \in [Threads -> Records \cup {Null}] /\ held \in [Threads -> Records \cup {Null}]
    /\ len \in [Threads -> Nat] /\ up \in [Threads -> Paths \cup {Null}]
    /\ refs \in [Records -> Int]

\* Where an insert is: the parent of what it adds next, what it has linked,
\* and whether its record is in the table.
Placed(t) ==
    /\ t \in readers <=> pc[t] \in Inserting
    /\ pc[t] \in Inserting => rec[t] \in Records /\ held[t] = rec[t]
    /\ pc[t] = "ascend" => len[t] < Len(PathOf[rec[t]])
    /\ pc[t] \in {"add", "refer"} \cup Linked => len[t] \in 1 .. Len(PathOf[rec[t]])
    /\ pc[t] \in {"add"} \cup Linked => up[t] = IF len[t] = 1 THEN Null ELSE Prefix(rec[t], len[t] - 1)
    /\ pc[t] \in {"add"} \cup Linked /\ len[t] # 1 => Prefix(rec[t], len[t] - 1) \in Nodes
    /\ pc[t] = "adopt" => len[t] # 1
    /\ pc[t] \in {"refer"} \cup Linked => Prefix(rec[t], len[t]) \in Nodes
    /\ pc[t] \in {"refer", "own"} =>
        len[t] = Len(PathOf[rec[t]]) /\ tree[Prefix(rec[t], len[t])].record = rec[t]
    /\ \/ pc[t] \in {"ascend", "add"}
       \/ pc[t] \in {"count", "adopt"} /\ len[t] # Len(PathOf[rec[t]])
       => \A p \in Nodes : tree[p].record # rec[t]

Places == \A t \in Threads : Placed(t)

\* Two inserts have different records and have linked different nodes.
Apart ==
    \A t, u \in Threads : t # u =>
        /\ pc[t] \in Inserting /\ pc[u] \in Inserting => rec[t] # rec[u]
        /\ pc[t] \in Linked /\ pc[u] \in Linked => Prefix(rec[t], len[t]) # Prefix(rec[u], len[u])

LinkedPaths == {Prefix(rec[t], len[t]) : t \in Pending(Linked)}
Shape == Sound(tree) /\ Adopted(tree, LinkedPaths)

Counted == nItems = Cardinality(Nodes) - Cardinality(Pending({"own", "count"}))

Holders(r) == {t \in Threads : held[t] = r}
Kept(r) == /\ \E p \in Nodes : tree[p].record = r
           /\ \A t \in Pending({"refer", "own"}) : rec[t] # r
RefsExact == \A r \in Records : refs[r] = Cardinality(Holders(r)) + (IF Kept(r) THEN 1 ELSE 0)

Inv == Types /\ Places /\ Apart /\ Shape /\ Counted /\ RefsExact

LEMMA PathIs == \A t : Path(t) = Prefix(rec[t], len[t]) /\ Path(t)' = Prefix(rec'[t], len'[t])
BY DEF Path, Prefix

\* A step of an insert, or of a caller.
Acts(t) ==
    \/ FindParent(t) \/ AddExisting(t) \/ AddNew(t) \/ AddFails(t)
    \/ ReferenceRecord(t) \/ CountItem(t) \/ UpdateParent(t) \/ Release(t) \/ Rehash(t) \/ Drop(t)
    \/ \E r \in Records : InsertRecord(t, r)
    \/ \E p \in Range(Orders[1]) : FindKey(t, p)

LEMMA ActsLocally ==
    ASSUME Types, NEW t \in Threads, Acts(t), NEW u \in Threads, u # t
    PROVE  /\ pc'[u] = pc[u] /\ rec'[u] = rec[u] /\ len'[u] = len[u] /\ up'[u] = up[u]
           /\ held'[u] = held[u] /\ (u \in readers' <=> u \in readers)
<1> USE DEF Types, Goto, Descend
<1>1. CASE FindParent(t)
  BY <1>1 DEF FindParent
<1>2. CASE AddExisting(t)
  BY <1>2 DEF AddExisting
<1>3. CASE AddNew(t)
  BY <1>3 DEF AddNew
<1>4. CASE AddFails(t)
  BY <1>4 DEF AddFails
<1>5. CASE ReferenceRecord(t)
  BY <1>5 DEF ReferenceRecord
<1>6. CASE CountItem(t)
  BY <1>6 DEF CountItem
<1>7. CASE UpdateParent(t)
  BY <1>7 DEF UpdateParent
<1>8. CASE Release(t)
  BY <1>8 DEF Release
<1>9. CASE Rehash(t)
  BY <1>9 DEF Rehash
<1>10. CASE Drop(t)
  BY <1>10 DEF Drop
<1>11. ASSUME NEW r \in Records, InsertRecord(t, r)  PROVE pc'[u] = pc[u] /\ rec'[u] = rec[u]
              /\ len'[u] = len[u] /\ up'[u] = up[u] /\ held'[u] = held[u] /\ (u \in readers' <=> u \in readers)
  BY <1>11 DEF InsertRecord, Create
<1>12. ASSUME NEW p \in Range(Orders[1]), FindKey(t, p)  PROVE pc'[u] = pc[u] /\ rec'[u] = rec[u]
              /\ len'[u] = len[u] /\ up'[u] = up[u] /\ held'[u] = held[u] /\ (u \in readers' <=> u \in readers)
  BY <1>12 DEF FindKey
<1> QED
  BY <1>1, <1>2, <1>3, <1>4, <1>5, <1>6, <1>7, <1>8, <1>9, <1>10, <1>11, <1>12 DEF Acts

LEMMA NextTypes ==
    ASSUME Assumptions, Types, Places, Shape, Counted, NEW t \in Threads, Acts(t)
    PROVE  Types'
<1> USE DEF Types, Goto, Inserting, Linked
<1>0. Path(t) \in Nodes => Path(t) \in Paths
  BY TreeFacts DEF Shape, Sound, Nodes
<1>1. CASE FindParent(t)
  <2>1. len[t] - 1 \in Nat \/ len[t] = 0
    OBVIOUS
  <2> QED
    BY <1>0, <1>1, <2>1 DEF FindParent
<1>2. CASE AddExisting(t)
  BY <1>0, <1>2 DEF AddExisting, Descend
<1>3. CASE AddNew(t)
  BY <1>3 DEF AddNew
<1>4. CASE AddFails(t)
  BY <1>4 DEF AddFails
<1>5. CASE ReferenceRecord(t)
  <2>1. rec[t] \in Records
    BY <1>5 DEF ReferenceRecord, Places, Placed
  <2> QED
    BY <1>5, <2>1 DEF ReferenceRecord
<1>6. pc[t] \in {"count", "adopt"} => Path(t) \in Paths
  <2>1. pc[t] \in {"count", "adopt"} => Path(t) \in Nodes
    BY PathIs DEF Places, Placed
  <2> QED
    BY <1>0, <2>1
<1>7. CASE CountItem(t)
  <2>1. pc' \in [Threads -> Inserting \cup {"idle", "rehash"}]
    BY <1>7 DEF CountItem, Descend
  <2>2. len' \in [Threads -> Nat]
    BY <1>7 DEF CountItem, Descend
  <2>3. up' \in [Threads -> Paths \cup {Null}]
    BY <1>6, <1>7 DEF CountItem, Descend
  <2> QED
    BY <1>7, <2>1, <2>2, <2>3 DEF CountItem
<1>8. CASE UpdateParent(t)
  <2>1. pc' \in [Threads -> Inserting \cup {"idle", "rehash"}]
    BY <1>8 DEF UpdateParent, Descend
  <2>2. len' \in [Threads -> Nat]
    BY <1>8 DEF UpdateParent, Descend
  <2>3. up' \in [Threads -> Paths \cup {Null}]
    BY <1>6, <1>8 DEF UpdateParent, Descend
  <2> QED
    BY <1>8, <2>1, <2>2, <2>3 DEF UpdateParent
<1>9. CASE Release(t)
  BY <1>9 DEF Release
<1>10. CASE Rehash(t)
  <2>1. Orders \in Seq(Seq(Seq(STRING))) /\ Len(Orders) \in Nat /\ DOMAIN Orders = 1 .. Len(Orders)
    BY DEF Assumptions
  <2>2. IsFiniteSet(Nodes) /\ Cardinality(Nodes) <= Cardinality(Paths)
        /\ Cardinality(Nodes) \in Nat /\ Cardinality(Paths) \in Nat
    <3>1. Nodes \subseteq Paths /\ IsFiniteSet(Paths)
      BY TreeFacts, PathsFinite DEF Shape, Sound, Nodes, Assumptions
    <3> QED
      BY <3>1, FS_Subset, FS_CardinalityType
  <2>3. Cardinality(Pending({"own", "count"})) \in Nat
    <3>1. Pending({"own", "count"}) \subseteq Threads /\ IsFiniteSet(Threads)
      BY DEF Pending, Assumptions
    <3> QED
      BY <3>1, FS_Subset, FS_CardinalityType
  <2>4. size = Len(Orders) => ~(nItems > Limits[size])
    BY <2>2, <2>3 DEF Counted, Assumptions
  <2>5. size' \in DOMAIN Orders
    BY <1>10, <2>1, <2>4 DEF Rehash
  <2> QED
    BY <1>10, <2>5 DEF Rehash
<1>11. CASE Drop(t)
  <2>1. held[t] \in Records
    BY <1>11 DEF Drop
  <2> QED
    BY <1>11, <2>1 DEF Drop
<1>12. ASSUME NEW r \in Records, InsertRecord(t, r)  PROVE Types'
  <2>1. Len(PathOf[r]) - 1 \in Nat
    <3>1. PathOf[r] \in Seq(STRING) /\ PathOf[r] # <<>>
      BY DEF Assumptions
    <3> QED
      BY <3>1
  <2> QED
    BY <1>12, <2>1 DEF InsertRecord, Create
<1>13. ASSUME NEW p \in Range(Orders[1]), FindKey(t, p)  PROVE Types'
  <2>1. tree[p].record \in Records
    BY <1>13, TreeFacts DEF FindKey, Shape, Sound, Nodes, Node
  <2> QED
    BY <1>13, <2>1 DEF FindKey
<1> QED
  BY <1>1, <1>2, <1>3, <1>4, <1>5, <1>7, <1>8, <1>9, <1>10, <1>11, <1>12, <1>13 DEF Acts

\* A step of an insert adds at most one node and at most its own record.
LEMMA ActsGrow ==
    ASSUME Types, Places, Shape, NEW t \in Threads, Acts(t)
    PROVE  /\ Nodes \subseteq Nodes'
           /\ \A p \in Nodes : \/ tree'[p].record = tree[p].record
                               \/ pc[t] \in Inserting /\ tree[p].record = Null /\ tree'[p].record = rec[t]
           /\ \A p \in Nodes' \ Nodes : pc[t] \in Inserting /\ tree'[p].record \in {rec[t], Null}
<1> USE DEF Nodes
<1>1. CASE UNCHANGED tree
  BY <1>1
<1>2. \A p \in Nodes : tree[p] \in Node
  <2>1. tree \in Trees
    BY DEF Shape, Sound
  <2> QED
    BY <2>1 DEF Trees
<1>3. CASE AddExisting(t)
  <2>1. CASE tree[Path(t)].record = Null /\ tree' = [tree EXCEPT ![Path(t)].record = rec[t]]
    BY <1>2, <1>3, <2>1 DEF AddExisting, Inserting, Node
  <2> QED
    BY <1>1, <1>3, <2>1 DEF AddExisting
<1>4. CASE AddNew(t)
  <2>1. DOMAIN tree' = DOMAIN tree \cup {Path(t)} /\ Path(t) \notin DOMAIN tree /\ pc[t] \in Inserting
    BY <1>4 DEF AddNew, Inserting
  <2>2. \A p \in DOMAIN tree : tree'[p] = tree[p]
    BY <1>4 DEF AddNew
  <2>3. tree'[Path(t)].record \in {rec[t], Null}
    BY <1>4 DEF AddNew
  <2> QED
    BY <2>1, <2>2, <2>3
<1>5. CASE UpdateParent(t)
  <2>1. tree' = [tree EXCEPT ![up[t]].children = <<Path(t)>> \o @]
    BY <1>5 DEF UpdateParent
  <2>2. DOMAIN tree' = DOMAIN tree /\ \A p \in DOMAIN tree : tree'[p].record = tree[p].record
    BY <1>2, <2>1 DEF Node
  <2> QED
    BY <2>2
<1> QED
  BY <1>1, <1>3, <1>4, <1>5 DEF Acts, FindParent, AddFails, ReferenceRecord, CountItem, Release,
     Rehash, Drop, InsertRecord, Create, FindKey

LEMMA OthersPlaced ==
    ASSUME Assumptions, Types, Places, Apart, Shape, NEW t \in Threads, Acts(t), NEW u \in Threads, u # t
    PROVE  Placed(u)'
<1>1. /\ pc'[u] = pc[u] /\ rec'[u] = rec[u] /\ len'[u] = len[u] /\ up'[u] = up[u]
      /\ held'[u] = held[u] /\ (u \in readers' <=> u \in readers)
  BY ActsLocally
<1>2. /\ Nodes \subseteq Nodes'
      /\ \A p \in Nodes : \/ tree'[p].record = tree[p].record
                          \/ pc[t] \in Inserting /\ tree[p].record = Null /\ tree'[p].record = rec[t]
      /\ \A p \in Nodes' \ Nodes : pc[t] \in Inserting /\ tree'[p].record \in {rec[t], Null}
  BY ActsGrow
<1>3. Placed(u)
  BY DEF Places
<1>4. pc[t] \in Inserting /\ pc[u] \in Inserting => rec[t] # rec[u]
  BY DEF Apart
<1>5. pc[u] \in Inserting => rec[u] # Null
  BY <1>3 DEF Placed, Assumptions
<1>6. ASSUME pc[u] \in {"refer", "own"}  PROVE tree'[Prefix(rec[u], len[u])].record = rec[u]
  <2>1. pc[u] \in Inserting /\ Prefix(rec[u], len[u]) \in Nodes /\ tree[Prefix(rec[u], len[u])].record = rec[u]
    BY <1>3, <1>6 DEF Placed, Inserting, Linked
  <2> QED
    BY <1>2, <1>5, <2>1
<1>7. ASSUME pc[u] \in Inserting, \A p \in Nodes : tree[p].record # rec[u]
      PROVE  \A p \in Nodes' : tree'[p].record # rec[u]
  BY <1>2, <1>4, <1>5, <1>7
<1>8. pc[u] \in {"ascend", "add", "count", "adopt"} => pc[u] \in Inserting
  BY DEF Inserting
<1> QED
  BY <1>1, <1>2, <1>3, <1>6, <1>7, <1>8 DEF Placed, Linked

\* A record without references is nowhere.
LEMMA FreeRecord ==
    ASSUME Assumptions, Types, Places, RefsExact, NEW r \in Records, refs[r] = 0
    PROVE  (\A u \in Threads : held[u] # r) /\ \A p \in Nodes : tree[p].record # r
<1>1. Holders(r) \subseteq Threads /\ IsFiniteSet(Threads)
  BY DEF Holders, Assumptions
<1>2. IsFiniteSet(Holders(r)) /\ Cardinality(Holders(r)) \in Nat
  BY <1>1, FS_Subset, FS_CardinalityType
<1>3. Cardinality(Holders(r)) = 0 /\ ~Kept(r)
  BY <1>2 DEF RefsExact
<1>4. Holders(r) = {}
  BY <1>2, <1>3, FS_EmptySet
<1>5. \A u \in Threads : held[u] # r
  BY <1>4 DEF Holders
<1>6. \A u \in Pending({"refer", "own"}) : rec[u] # r
  BY <1>5 DEF Pending, Places, Placed, Inserting
<1> QED
  BY <1>3, <1>5, <1>6 DEF Kept

\* What the loop does next, below the node just passed.
LEMMA Descends ==
    ASSUME Assumptions, Types, NEW t \in Threads, NEW l, Descend(t, l), rec[t] \in Records,
           len[t] \in 1 .. Len(PathOf[rec[t]]), Prefix(rec[t], len[t]) \in Nodes
    PROVE  \/ pc'[t] = l /\ len'[t] = len[t] /\ up'[t] = up[t] /\ len[t] = Len(PathOf[rec[t]])
           \/ /\ pc'[t] = "add" /\ len'[t] = len[t] + 1 /\ len'[t] \in 1 .. Len(PathOf[rec[t]])
              /\ up'[t] = Prefix(rec[t], len'[t] - 1) /\ len'[t] # 1 /\ len'[t] - 1 = len[t]
              /\ len[t] # Len(PathOf[rec[t]])
<1>1. Len(PathOf[rec[t]]) \in Nat /\ len[t] \in Nat
  BY DEF Assumptions
<1>2. Path(t) = Prefix(rec[t], len[t])
  BY PathIs
<1>3. CASE IsLast(t)
  BY <1>3 DEF Descend, Goto, Types, IsLast
<1>4. CASE ~IsLast(t)
  <2>1. pc'[t] = "add" /\ len'[t] = len[t] + 1 /\ up'[t] = Path(t)
    BY <1>4 DEF Descend, Goto, Types
  <2>2. len[t] + 1 \in 1 .. Len(PathOf[rec[t]]) /\ len[t] + 1 # 1 /\ len[t] + 1 - 1 = len[t]
    BY <1>1, <1>4 DEF IsLast
  <2> QED
    BY <1>2, <1>4, <2>1, <2>2 DEF IsLast
<1> QED
  BY <1>3, <1>4

LEMMA OwnPlaced ==
    ASSUME Assumptions, Types, Places, Shape, RefsExact, NEW t \in Threads, Acts(t)
    PROVE  Placed(t)'
<1>0. Placed(t) /\ \A s : Path(s) = Prefix(rec[s], len[s])
  BY PathIs DEF Places
<1>1. CASE FindParent(t)
  <2>1. rec[t] \in Records /\ held[t] = rec[t] /\ len[t] \in Nat /\ len[t] < Len(PathOf[rec[t]])
    BY <1>0, <1>1 DEF FindParent, Placed, Inserting, Types
  <2>2. Len(PathOf[rec[t]]) \in Nat
    BY <2>1 DEF Assumptions
  <2>3. /\ rec' = rec /\ held' = held /\ tree' = tree /\ readers' = readers
        /\ t \in readers /\ \A p \in Nodes : tree[p].record # rec[t]
    BY <1>0, <1>1 DEF FindParent, Placed, Inserting
  <2>4. CASE /\ len[t] = 0 \/ Path(t) \in Nodes
             /\ up' = [up EXCEPT ![t] = IF len[t] = 0 THEN Null ELSE Path(t)]
             /\ len' = [len EXCEPT ![t] = @ + 1] /\ Goto(t, "add")
    <3>1. /\ pc'[t] = "add" /\ len'[t] = len[t] + 1 /\ len'[t] \in 1 .. Len(PathOf[rec[t]])
          /\ len'[t] - 1 = len[t]
      <4>1. pc'[t] = "add" /\ len'[t] = len[t] + 1
        BY <2>4 DEF Types, Goto
      <4> QED
        BY <2>1, <2>2, <4>1
    <3>2. up'[t] = IF len[t] = 0 THEN Null ELSE Prefix(rec[t], len[t])
      BY <1>0, <2>4 DEF Types
    <3>3. len'[t] # 1 => Prefix(rec[t], len[t]) \in Nodes
      BY <1>0, <2>1, <2>4, <3>1
    <3>4. up'[t] = IF len'[t] = 1 THEN Null ELSE Prefix(rec[t], len'[t] - 1)
      BY <2>1, <3>1, <3>2
    <3> QED
      BY <2>1, <2>3, <3>1, <3>3, <3>4 DEF Placed, Inserting, Linked, Nodes
  <2>5. CASE /\ len[t] # 0 /\ Path(t) \notin Nodes
             /\ len' = [len EXCEPT ![t] = @ - 1] /\ UNCHANGED <<pc, up>>
    <3>1. pc'[t] = "ascend" /\ len'[t] < Len(PathOf[rec[t]])
      BY <1>1, <2>1, <2>2, <2>5 DEF FindParent, Types
    <3> QED
      BY <2>1, <2>3, <3>1 DEF Placed, Inserting, Linked, Nodes
  <2> QED
    BY <1>1, <2>4, <2>5 DEF FindParent
<1>2. CASE AddExisting(t)
  <2>1. /\ rec[t] \in Records /\ held[t] = rec[t] /\ len[t] \in 1 .. Len(PathOf[rec[t]]) /\ t \in readers
        /\ \A p \in Nodes : tree[p].record # rec[t]
        /\ Prefix(rec[t], len[t]) \in Nodes /\ rec' = rec /\ held' = held /\ readers' = readers
    BY <1>0, <1>2 DEF AddExisting, Placed, Inserting
  <2>2. CASE /\ IsLast(t) /\ tree' = [tree EXCEPT ![Path(t)].record = rec[t]]
             /\ Goto(t, "refer") /\ UNCHANGED <<len, up>>
    <3>1. pc'[t] = "refer" /\ len'[t] = len[t] /\ Nodes' = Nodes /\ len[t] = Len(PathOf[rec[t]])
      BY <2>2 DEF Types, Goto, Nodes, IsLast
    <3>2. tree'[Prefix(rec[t], len[t])].record = rec[t]
      <4>1. tree[Prefix(rec[t], len[t])] \in Node
        BY <2>1, TreeFacts DEF Shape, Sound, Nodes
      <4> QED
        BY <1>0, <2>1, <2>2, <4>1 DEF Nodes, Node
    <3> QED
      BY <2>1, <3>1, <3>2 DEF Placed, Inserting, Linked
  <2>3. CASE Descend(t, "release") /\ UNCHANGED tree
    <3>1. \/ pc'[t] = "release" /\ len'[t] = len[t] /\ up'[t] = up[t] /\ len[t] = Len(PathOf[rec[t]])
          \/ /\ pc'[t] = "add" /\ len'[t] = len[t] + 1 /\ len'[t] \in 1 .. Len(PathOf[rec[t]])
             /\ up'[t] = Prefix(rec[t], len'[t] - 1) /\ len'[t] # 1 /\ len'[t] - 1 = len[t]
             /\ len[t] # Len(PathOf[rec[t]])
      BY <2>1, <2>3, Descends
    <3> QED
      BY <2>1, <2>3, <3>1 DEF Placed, Inserting, Linked, Nodes
  <2> QED
    BY <1>2, <2>2, <2>3 DEF AddExisting
<1>3. CASE AddNew(t)
  <2>1. /\ rec[t] \in Records /\ held[t] = rec[t] /\ len[t] \in 1 .. Len(PathOf[rec[t]]) /\ t \in readers
        /\ \A p \in Nodes : tree[p].record # rec[t]
        /\ Prefix(rec[t], len[t]) \notin Nodes /\ rec' = rec /\ held' = held /\ readers' = readers
        /\ len' = len /\ up' = up
        /\ up[t] = IF len[t] = 1 THEN Null ELSE Prefix(rec[t], len[t] - 1)
        /\ len[t] # 1 => Prefix(rec[t], len[t] - 1) \in Nodes
    BY <1>0, <1>3 DEF AddNew, Placed, Inserting
  <2>2. /\ Nodes' = Nodes \cup {Prefix(rec[t], len[t])}
        /\ \A p \in Nodes : tree'[p] = tree[p]
        /\ tree'[Prefix(rec[t], len[t])].record = IF IsLast(t) THEN rec[t] ELSE Null
        /\ pc'[t] = IF IsLast(t) THEN "own" ELSE "count"
    BY <1>0, <1>3, <2>1 DEF AddNew, Types, Goto, Nodes
  <2>3. rec[t] # Null
    BY <2>1 DEF Assumptions
  <2> QED
    BY <2>1, <2>2, <2>3 DEF Placed, Inserting, Linked, IsLast
<1>4. CASE AddFails(t)
  BY <1>0, <1>4 DEF AddFails, Placed, Types, Goto, Inserting, Linked
<1>5. CASE ReferenceRecord(t)
  <2>1. /\ \/ pc[t] = "refer" /\ pc'[t] = "inserted"
           \/ pc[t] = "own" /\ pc'[t] = "count"
        /\ UNCHANGED <<tree, readers, rec, len, up, held>>
    BY <1>5 DEF ReferenceRecord, Types, Goto
  <2> QED
    BY <1>0, <2>1 DEF Placed, Inserting, Linked, Nodes
<1>6. CASE CountItem(t)
  <2>1. /\ rec[t] \in Records /\ held[t] = rec[t] /\ len[t] \in 1 .. Len(PathOf[rec[t]]) /\ t \in readers
        /\ len[t] # Len(PathOf[rec[t]]) => \A p \in Nodes : tree[p].record # rec[t]
        /\ Prefix(rec[t], len[t]) \in Nodes /\ rec' = rec /\ held' = held /\ readers' = readers
        /\ tree' = tree
        /\ up[t] = IF len[t] = 1 THEN Null ELSE Prefix(rec[t], len[t] - 1)
        /\ len[t] # 1 => Prefix(rec[t], len[t] - 1) \in Nodes
    BY <1>0, <1>6 DEF CountItem, Placed, Inserting, Linked
  <2>2. CASE Descend(t, "inserted")
    <3>1. \/ pc'[t] = "inserted" /\ len'[t] = len[t] /\ up'[t] = up[t] /\ len[t] = Len(PathOf[rec[t]])
          \/ /\ pc'[t] = "add" /\ len'[t] = len[t] + 1 /\ len'[t] \in 1 .. Len(PathOf[rec[t]])
             /\ up'[t] = Prefix(rec[t], len'[t] - 1) /\ len'[t] # 1 /\ len'[t] - 1 = len[t]
             /\ len[t] # Len(PathOf[rec[t]])
      BY <2>1, <2>2, Descends
    <3> QED
      BY <2>1, <3>1 DEF Placed, Inserting, Linked, Nodes
  <2>3. CASE up[t] # Null /\ Goto(t, "adopt") /\ UNCHANGED <<len, up>>
    BY <2>1, <2>3 DEF Placed, Inserting, Linked, Nodes, Types, Goto
  <2> QED
    BY <1>6, <2>2, <2>3 DEF CountItem
<1>7. CASE UpdateParent(t)
  <2>1. /\ rec[t] \in Records /\ held[t] = rec[t] /\ len[t] \in 1 .. Len(PathOf[rec[t]]) /\ t \in readers
        /\ len[t] # Len(PathOf[rec[t]]) => \A p \in Nodes : tree[p].record # rec[t]
        /\ Prefix(rec[t], len[t]) \in Nodes /\ rec' = rec /\ held' = held /\ readers' = readers
    BY <1>0, <1>7 DEF UpdateParent, Placed, Inserting, Linked
  <2>2. Nodes' = Nodes /\ \A p \in Nodes : tree'[p].record = tree[p].record
    <3>1. \A p \in Nodes : tree[p] \in Node
      BY TreeFacts DEF Shape, Sound, Nodes
    <3> QED
      BY <1>7, <3>1 DEF UpdateParent, Nodes, Node
  <2>3. \/ pc'[t] = "inserted" /\ len'[t] = len[t] /\ up'[t] = up[t] /\ len[t] = Len(PathOf[rec[t]])
        \/ /\ pc'[t] = "add" /\ len'[t] = len[t] + 1 /\ len'[t] \in 1 .. Len(PathOf[rec[t]])
           /\ up'[t] = Prefix(rec[t], len'[t] - 1) /\ len'[t] # 1 /\ len'[t] - 1 = len[t]
           /\ len[t] # Len(PathOf[rec[t]])
    BY <1>7, <2>1, Descends DEF UpdateParent
  <2> QED
    BY <2>1, <2>2, <2>3 DEF Placed, Inserting, Linked
<1>8. CASE Release(t)
  BY <1>8 DEF Release, Placed, Types, Goto, Inserting, Linked
<1>9. CASE Rehash(t)
  BY <1>0, <1>9 DEF Rehash, Placed, Types, Goto, Inserting, Linked
<1>10. CASE Drop(t)
  BY <1>0, <1>10 DEF Drop, Placed, Types, Inserting, Linked
<1>11. ASSUME NEW r \in Records, InsertRecord(t, r)  PROVE Placed(t)'
  <2>1. \A p \in Nodes : tree[p].record # r
    BY <1>11, FreeRecord DEF InsertRecord, Create
  <2>2. Len(PathOf[r]) \in Nat /\ Len(PathOf[r]) - 1 < Len(PathOf[r])
    BY DEF Assumptions
  <2>3. /\ pc'[t] = "ascend" /\ rec'[t] = r /\ held'[t] = r /\ t \in readers'
        /\ len'[t] = Len(PathOf[r]) - 1 /\ tree' = tree
    BY <1>11 DEF InsertRecord, Create, Types, Goto
  <2> QED
    BY <2>1, <2>2, <2>3 DEF Placed, Inserting, Linked, Nodes
<1>12. ASSUME NEW p \in Range(Orders[1]), FindKey(t, p)  PROVE Placed(t)'
  BY <1>0, <1>12 DEF FindKey, Placed, Types, Inserting, Linked
<1> QED
  BY <1>1, <1>2, <1>3, <1>4, <1>5, <1>6, <1>7, <1>8, <1>9, <1>10, <1>11, <1>12 DEF Acts

\* What a step does with the nodes its thread has linked, to which no other
\* insert has come.
LEMMA ActsLink ==
    ASSUME Assumptions, Types, Places, Shape, NEW t \in Threads, Acts(t), pc'[t] \in Linked
    PROVE  /\ rec'[t] = rec[t] /\ len'[t] = len[t] /\ pc[t] \in Inserting
           /\ \/ pc[t] \in Linked
              \/ pc[t] = "add" /\ AddNew(t) /\ Prefix(rec[t], len[t]) \notin Nodes
<1> USE DEF Types, Goto, Inserting, Linked
<1>0. Path(t) = Prefix(rec[t], len[t])
  BY PathIs
<1>1. ~FindParent(t)
  BY DEF FindParent
<1>2. ~AddExisting(t)
  BY DEF AddExisting, Descend
<1>3. CASE AddNew(t)
  BY <1>0, <1>3 DEF AddNew
<1>4. ~AddFails(t) /\ ~Release(t) /\ ~Rehash(t)
  BY DEF AddFails, Release, Rehash
<1>5. CASE ReferenceRecord(t)
  BY <1>5 DEF ReferenceRecord
<1>6. CASE CountItem(t)
  BY <1>6 DEF CountItem, Descend
<1>7. ~UpdateParent(t)
  BY DEF UpdateParent, Descend
<1>8. ~Drop(t)
  BY DEF Drop
<1>9. \A r \in Records : ~InsertRecord(t, r)
  BY DEF InsertRecord, Create
<1>10. \A p \in Range(Orders[1]) : ~FindKey(t, p)
  BY DEF FindKey
<1> QED
  BY <1>1, <1>2, <1>3, <1>4, <1>5, <1>6, <1>7, <1>8, <1>9, <1>10 DEF Acts

LEMMA ActsInsert ==
    ASSUME Types, NEW t \in Threads, Acts(t), pc'[t] \in Inserting
    PROVE  \/ pc[t] \in Inserting /\ rec'[t] = rec[t]
           \/ \E r \in Records : refs[r] = 0 /\ rec'[t] = r
<1> USE DEF Types, Goto, Inserting
<1>1. CASE FindParent(t)
  BY <1>1 DEF FindParent
<1>2. CASE AddExisting(t)
  BY <1>2 DEF AddExisting, Descend
<1>3. CASE AddNew(t)
  BY <1>3 DEF AddNew
<1>4. CASE AddFails(t)
  BY <1>4 DEF AddFails
<1>5. CASE ReferenceRecord(t)
  BY <1>5 DEF ReferenceRecord
<1>6. CASE CountItem(t)
  BY <1>6 DEF CountItem
<1>7. CASE UpdateParent(t)
  BY <1>7 DEF UpdateParent
<1>8. ~Release(t) /\ ~Rehash(t) /\ ~Drop(t)
  BY DEF Release, Rehash, Drop
<1>9. ASSUME NEW r \in Records, InsertRecord(t, r)  PROVE refs[r] = 0 /\ rec'[t] = r
  BY <1>9 DEF InsertRecord, Create
<1>10. \A p \in Range(Orders[1]) : ~FindKey(t, p)
  BY DEF FindKey
<1> QED
  BY <1>1, <1>2, <1>3, <1>4, <1>5, <1>6, <1>7, <1>8, <1>9, <1>10 DEF Acts

LEMMA NextApart ==
    ASSUME Assumptions, Types, Places, Apart, Shape, RefsExact, NEW t \in Threads, Acts(t)
    PROVE  Apart'
<1>1. \A u \in Threads \ {t} : pc'[u] = pc[u] /\ rec'[u] = rec[u] /\ len'[u] = len[u]
  BY ActsLocally
<1>2. ASSUME NEW u \in Threads \ {t}, pc'[t] \in Inserting, pc[u] \in Inserting  PROVE rec'[t] # rec[u]
  <2>1. CASE pc[t] \in Inserting /\ rec'[t] = rec[t]
    BY <1>2, <2>1 DEF Apart
  <2>2. CASE \E r \in Records : refs[r] = 0 /\ rec'[t] = r
    <3>1. PICK r \in Records : refs[r] = 0 /\ rec'[t] = r
      BY <2>2
    <3>2. held[u] # r
      BY <3>1, FreeRecord
    <3>3. held[u] = rec[u]
      BY <1>2 DEF Places, Placed
    <3> QED
      BY <3>1, <3>2, <3>3
  <2> QED
    BY <1>2, <2>1, <2>2, ActsInsert
<1>3. ASSUME NEW u \in Threads \ {t}, pc'[t] \in Linked, pc[u] \in Linked
      PROVE  Prefix(rec'[t], len'[t]) # Prefix(rec[u], len[u])
  <2>1. Prefix(rec[u], len[u]) \in Nodes
    BY <1>3 DEF Places, Placed
  <2>2. /\ rec'[t] = rec[t] /\ len'[t] = len[t]
        /\ pc[t] \in Linked \/ Prefix(rec[t], len[t]) \notin Nodes
    BY <1>3, ActsLink
  <2>3. CASE pc[t] \in Linked
    BY <1>3, <2>2, <2>3 DEF Apart
  <2> QED
    BY <2>1, <2>2, <2>3
<1> SUFFICES ASSUME NEW s \in Threads, NEW u \in Threads, s # u
             PROVE  /\ pc'[s] \in Inserting /\ pc'[u] \in Inserting => rec'[s] # rec'[u]
                    /\ pc'[s] \in Linked /\ pc'[u] \in Linked =>
                        Prefix(rec'[s], len'[s]) # Prefix(rec'[u], len'[u])
  BY DEF Apart
<1>4. CASE s = t
  BY <1>1, <1>2, <1>3, <1>4
<1>5. CASE u = t
  BY <1>1, <1>2, <1>3, <1>5
<1>6. CASE s # t /\ u # t
  BY <1>1, <1>6 DEF Apart
<1> QED
  BY <1>4, <1>5, <1>6

-----------------------------------------------------------------------------
(* The shape of the tree.                                                  *)

LEMMA NextLinked ==
    ASSUME Types, Apart, NEW t \in Threads, Acts(t)
    PROVE  /\ LinkedPaths \subseteq LinkedPaths' \cup (IF pc[t] \in Linked THEN {Prefix(rec[t], len[t])} ELSE {})
           /\ LinkedPaths' \subseteq LinkedPaths \cup (IF pc'[t] \in Linked THEN {Prefix(rec'[t], len'[t])} ELSE {})
           /\ pc[t] \in Linked => Prefix(rec[t], len[t]) \in LinkedPaths
           /\ pc'[t] \in Linked => Prefix(rec'[t], len'[t]) \in LinkedPaths'
           /\ pc[t] \in Linked /\ pc'[t] \notin Linked => Prefix(rec[t], len[t]) \notin LinkedPaths'
<1>1. \A u \in Threads \ {t} : pc'[u] = pc[u] /\ rec'[u] = rec[u] /\ len'[u] = len[u]
  BY ActsLocally
<1>2. ASSUME NEW p
      PROVE  /\ p \in LinkedPaths <=> \E u \in Threads : pc[u] \in Linked /\ p = Prefix(rec[u], len[u])
             /\ p \in LinkedPaths' <=> \E u \in Threads : pc'[u] \in Linked /\ p = Prefix(rec'[u], len'[u])
  BY DEF LinkedPaths, Pending
<1>3. ASSUME NEW u \in Threads, pc[u] \in Linked, u # t
      PROVE  Prefix(rec[u], len[u]) \in LinkedPaths'
  BY <1>1, <1>2, <1>3
<1>4. ASSUME NEW u \in Threads, pc'[u] \in Linked, u # t
      PROVE  Prefix(rec'[u], len'[u]) \in LinkedPaths
  BY <1>1, <1>2, <1>4
<1>5. ASSUME pc[t] \in Linked, pc'[t] \notin Linked, Prefix(rec[t], len[t]) \in LinkedPaths'  PROVE FALSE
  <2>1. PICK u \in Threads : pc'[u] \in Linked /\ Prefix(rec[t], len[t]) = Prefix(rec'[u], len'[u])
    BY <1>2, <1>5
  <2>2. u # t /\ pc[u] \in Linked /\ Prefix(rec[t], len[t]) = Prefix(rec[u], len[u])
    BY <1>1, <1>5, <2>1
  <2> QED
    BY <1>5, <2>2 DEF Apart
<1>6. LinkedPaths \subseteq LinkedPaths' \cup (IF pc[t] \in Linked THEN {Prefix(rec[t], len[t])} ELSE {})
  BY <1>2, <1>3
<1>7. LinkedPaths' \subseteq LinkedPaths \cup (IF pc'[t] \in Linked THEN {Prefix(rec'[t], len'[t])} ELSE {})
  BY <1>2, <1>4
<1> QED
  BY <1>2, <1>5, <1>6, <1>7

\* Only a node without a parent is passed without being adopted.
LEMMA StaysLinked ==
    ASSUME Assumptions, Types, Places, Apart, Shape, NEW t \in Threads, Acts(t),
           ~AddNew(t), ~UpdateParent(t), NEW p \in Nodes, tree[p].parent # Null
    PROVE  p \in LinkedPaths <=> p \in LinkedPaths'
<1> USE DEF Types, Goto, Inserting, Linked
<1>0. Placed(t)
  BY DEF Places
<1>1. pc[t] \in Linked \/ pc'[t] \in Linked =>
        \/ pc[t] \in Linked /\ pc'[t] \in Linked /\ rec'[t] = rec[t] /\ len'[t] = len[t]
        \/ pc[t] \in Linked /\ pc'[t] \notin Linked /\ up[t] = Null
  <2>1. ASSUME pc'[t] \in Linked
        PROVE  pc[t] \in Linked /\ pc'[t] \in Linked /\ rec'[t] = rec[t] /\ len'[t] = len[t]
    BY <2>1, ActsLink
  <2>2. ASSUME pc[t] \in Linked, pc'[t] \notin Linked  PROVE up[t] = Null
    <3>1. CountItem(t)
      BY <2>2 DEF Acts, FindParent, AddExisting, AddFails, ReferenceRecord, Release, Rehash, Drop,
         InsertRecord, Create, FindKey
    <3> QED
      BY <2>2, <3>1 DEF CountItem
  <2> QED
    BY <2>1, <2>2
<1>2. ASSUME pc[t] \in Linked, up[t] = Null  PROVE tree[Prefix(rec[t], len[t])].parent = Null
  <2>1. rec[t] \in Records /\ len[t] \in 1 .. Len(PathOf[rec[t]]) /\ Prefix(rec[t], len[t]) \in Nodes
        /\ up[t] = IF len[t] = 1 THEN Null ELSE Prefix(rec[t], len[t] - 1)
    BY <1>0, <1>2 DEF Placed
  <2>2. Len(Prefix(rec[t], len[t])) = len[t]
    BY <2>1, PrefixOf
  <2>3. len[t] # 1 => Prefix(rec[t], len[t] - 1) \in Paths
    BY <2>1, PrefixOf
  <2>4. len[t] = 1
    BY <1>2, <2>1, <2>3 DEF Assumptions
  <2> QED
    BY <2>1, <2>2, <2>4 DEF Shape, Sound, Nodes
<1>3. /\ LinkedPaths \subseteq LinkedPaths' \cup (IF pc[t] \in Linked THEN {Prefix(rec[t], len[t])} ELSE {})
      /\ LinkedPaths' \subseteq LinkedPaths \cup (IF pc'[t] \in Linked THEN {Prefix(rec'[t], len'[t])} ELSE {})
      /\ pc[t] \in Linked => Prefix(rec[t], len[t]) \in LinkedPaths
      /\ pc'[t] \in Linked => Prefix(rec'[t], len'[t]) \in LinkedPaths'
  BY NextLinked
<1>4. CASE pc[t] \notin Linked /\ pc'[t] \notin Linked
  BY <1>3, <1>4
<1>5. CASE pc[t] \in Linked /\ pc'[t] \in Linked /\ rec'[t] = rec[t] /\ len'[t] = len[t]
  BY <1>3, <1>5
<1>6. CASE pc[t] \in Linked /\ pc'[t] \notin Linked /\ up[t] = Null
  <2>1. p # Prefix(rec[t], len[t])
    BY <1>2, <1>6
  <2> QED
    BY <1>3, <1>6, <2>1
<1> QED
  BY <1>1, <1>4, <1>5, <1>6

LEMMA AddNewShape ==
    ASSUME Assumptions, Types, Places, Apart, Shape, NEW t \in Threads, AddNew(t)
    PROVE  Shape'
<1> DEFINE n == Prefix(rec[t], len[t])
<1>1. /\ rec[t] \in Records /\ len[t] \in 1 .. Len(PathOf[rec[t]]) /\ n \notin DOMAIN tree
      /\ up[t] = IF len[t] = 1 THEN Null ELSE Prefix(rec[t], len[t] - 1)
      /\ len[t] # 1 => Prefix(rec[t], len[t] - 1) \in DOMAIN tree
      /\ rec' = rec /\ len' = len
  BY PathIs DEF AddNew, Places, Placed, Inserting, Nodes
<1>2. n \in Paths /\ Len(n) = len[t] /\ (len[t] # 1 => Front(n) = Prefix(rec[t], len[t] - 1))
      /\ up[t] \in Paths \cup {Null}
  BY <1>1, PrefixOf
<1>3. /\ DOMAIN tree \subseteq Paths /\ \A p \in DOMAIN tree : tree[p] \in Node
      /\ Sound(tree) /\ Adopted(tree, LinkedPaths)
  BY TreeFacts DEF Shape, Sound
<1>4. /\ DOMAIN tree' = DOMAIN tree \cup {n}
      /\ \A p \in DOMAIN tree : tree'[p] = tree[p]
      /\ tree'[n].parent = up[t] /\ tree'[n].children = <<>> /\ tree'[n] \in Node
      /\ tree' = [p \in DOMAIN tree' |-> tree'[p]]
  <2>1. tree' = [p \in DOMAIN tree \cup {n} |->
                    IF p # n THEN tree[p]
                    ELSE [record |-> IF IsLast(t) THEN rec[t] ELSE Null,
                          parent |-> up[t], children |-> <<>>]]
    BY PathIs DEF AddNew, Nodes
  <2>2. [record |-> IF IsLast(t) THEN rec[t] ELSE Null, parent |-> up[t], children |-> <<>>] \in Node
    BY <1>1, <1>2 DEF Node
  <2> HIDE DEF n
  <2> QED
    BY <1>1, <2>1, <2>2
<1>5. /\ LinkedPaths \subseteq LinkedPaths' /\ LinkedPaths' \subseteq LinkedPaths \cup {n} /\ n \in LinkedPaths'
  <2>1. pc[t] \notin Linked /\ pc'[t] \in Linked
    BY DEF AddNew, Types, Goto, Linked
  <2> QED
    BY <1>1, <2>1, NextLinked DEF Acts
<1> HIDE DEF n
<1>6. tree' \in Trees
  <2>1. \A p \in DOMAIN tree' : tree'[p] \in Node
    BY <1>3, <1>4
  <2>2. tree' \in [DOMAIN tree' -> Node]
    BY <1>4, <2>1
  <2>3. DOMAIN tree' \in SUBSET Paths
    BY <1>2, <1>3, <1>4
  <2> QED
    BY <2>2, <2>3 DEF Trees
<1>7. Range(<<>>) = {} /\ Once(<<>>)
  BY DEF Range, Once
<1>8. \A p \in DOMAIN tree' : tree'[p].parent = IF Len(p) = 1 THEN Null ELSE Front(p)
  BY <1>1, <1>2, <1>3, <1>4 DEF Sound
<1>9. \A p \in DOMAIN tree' : tree'[p].parent # Null => tree'[p].parent \in DOMAIN tree'
  BY <1>1, <1>3, <1>4 DEF Sound
<1>10. \A q \in DOMAIN tree' : Once(tree'[q].children) /\ Range(tree'[q].children) \subseteq DOMAIN tree
  BY <1>3, <1>4, <1>7 DEF Sound
<1>11. ASSUME NEW p \in DOMAIN tree', NEW q \in DOMAIN tree'
       PROVE  p \in Range(tree'[q].children) <=> tree'[p].parent = q /\ p \notin LinkedPaths'
  <2>1. CASE p = n
    BY <1>1, <1>5, <1>10, <2>1
  <2>2. CASE p # n /\ q # n
    BY <1>3, <1>4, <1>5, <2>2 DEF Adopted
  <2>3. CASE p # n /\ q = n
    <3>1. tree'[p].parent # n
      <4>1. n # Null
        BY <1>2 DEF Assumptions
      <4> QED
        BY <1>1, <1>3, <1>4, <2>3, <4>1 DEF Sound
    <3> QED
      BY <1>4, <1>7, <2>3, <3>1
  <2> QED
    BY <2>1, <2>2, <2>3
<1>12. Sound(tree')
  BY <1>4, <1>6, <1>8, <1>9, <1>10 DEF Sound
<1>13. Adopted(tree', LinkedPaths')
  BY <1>11 DEF Adopted
<1> QED
  BY <1>12, <1>13 DEF Shape

LEMMA UpdateParentShape ==
    ASSUME Assumptions, Types, Places, Apart, Shape, NEW t \in Threads, UpdateParent(t)
    PROVE  Shape'
<1> DEFINE n == Prefix(rec[t], len[t])
<1>1. /\ rec[t] \in Records /\ len[t] \in 1 .. Len(PathOf[rec[t]]) /\ n \in DOMAIN tree
      /\ up[t] = Prefix(rec[t], len[t] - 1) /\ len[t] # 1 /\ up[t] \in DOMAIN tree
      /\ rec' = rec
  BY DEF UpdateParent, Places, Placed, Inserting, Linked, Nodes
<1>2. n \in Paths /\ Len(n) = len[t] /\ Front(n) = up[t]
  BY <1>1, PrefixOf
<1>3. /\ DOMAIN tree \subseteq Paths /\ \A p \in DOMAIN tree : tree[p] \in Node
      /\ Sound(tree) /\ Adopted(tree, LinkedPaths)
  BY TreeFacts DEF Shape, Sound
<1>4. tree[n].parent = up[t]
  BY <1>1, <1>2, <1>3 DEF Sound
<1>5. /\ n \in LinkedPaths /\ n \notin LinkedPaths' /\ LinkedPaths' \subseteq LinkedPaths
      /\ LinkedPaths \subseteq LinkedPaths' \cup {n}
  <2>1. pc[t] \in Linked /\ pc'[t] \notin Linked
    BY DEF UpdateParent, Descend, Types, Goto, Linked
  <2> QED
    BY <2>1, NextLinked DEF Acts
<1> DEFINE l == tree[up[t]].children
<1>6. tree' = [tree EXCEPT ![up[t]].children = <<n>> \o l]
  BY PathIs DEF UpdateParent
<1>7. l \in Seq(Paths) /\ Once(l) /\ n \notin Range(l) /\ Range(l) \subseteq DOMAIN tree
  BY <1>1, <1>3, <1>5 DEF Node, Sound, Adopted
<1> HIDE DEF n, l
<1>8. <<n>> \o l \in Seq(Paths) /\ Once(<<n>> \o l) /\ Range(<<n>> \o l) = Range(l) \cup {n}
  BY <1>2, <1>7, Consed
<1>9. /\ DOMAIN tree' = DOMAIN tree /\ tree' = [p \in DOMAIN tree |-> tree'[p]]
      /\ \A p \in DOMAIN tree :
            /\ tree'[p].parent = tree[p].parent /\ tree'[p] \in Node
            /\ p # up[t] => tree'[p].children = tree[p].children
      /\ tree'[up[t]].children = <<n>> \o l
  <2>1. DOMAIN tree' = DOMAIN tree /\ tree' = [p \in DOMAIN tree |-> tree'[p]]
    BY <1>6
  <2>2. \A p \in DOMAIN tree : tree'[p] = IF p = up[t] THEN [tree[p] EXCEPT !.children = <<n>> \o l] ELSE tree[p]
    BY <1>6
  <2> QED
    BY <1>1, <1>3, <1>8, <2>1, <2>2 DEF Node
<1>10. tree' \in Trees
  <2>1. tree' \in [DOMAIN tree -> Node]
    BY <1>9
  <2> QED
    BY <1>3, <1>9, <2>1 DEF Trees
<1>11. ASSUME NEW q \in DOMAIN tree
       PROVE  /\ Once(tree'[q].children)
              /\ Range(tree'[q].children) = Range(tree[q].children) \cup (IF q = up[t] THEN {n} ELSE {})
  <2>1. l = tree[up[t]].children
    BY DEF l
  <2>2. CASE q = up[t]
    BY <1>8, <1>9, <2>1, <2>2
  <2>3. CASE q # up[t]
    <3>1. tree'[q].children = tree[q].children /\ Once(tree[q].children)
      BY <1>3, <1>9, <2>3 DEF Sound
    <3> QED
      BY <2>3, <3>1
  <2> QED
    BY <2>2, <2>3
<1>12. Sound(tree')
  <2>1. ASSUME NEW p \in DOMAIN tree
        PROVE  /\ tree'[p].parent = IF Len(p) = 1 THEN Null ELSE Front(p)
               /\ tree'[p].parent # Null => tree'[p].parent \in DOMAIN tree
    BY <1>3, <1>9 DEF Sound
  <2>2. ASSUME NEW q \in DOMAIN tree
        PROVE  Once(tree'[q].children) /\ Range(tree'[q].children) \subseteq DOMAIN tree
    <3>1. Range(tree[q].children) \subseteq DOMAIN tree
      BY <1>3 DEF Sound
    <3> QED
      BY <1>1, <1>11, <3>1
  <2>3. DOMAIN tree' = DOMAIN tree
    BY <1>9
  <2> QED
    BY <1>10, <2>1, <2>2, <2>3 DEF Sound
<1>13. ASSUME NEW p \in DOMAIN tree, NEW q \in DOMAIN tree
       PROVE  p \in Range(tree'[q].children) <=> tree'[p].parent = q /\ p \notin LinkedPaths'
  <2>1. p \in Range(tree[q].children) <=> tree[p].parent = q /\ p \notin LinkedPaths
    BY <1>3 DEF Adopted
  <2>2. CASE p = n
    BY <1>4, <1>5, <1>9, <1>11, <2>1, <2>2
  <2>3. CASE p # n
    <3>1. p \in Range(tree'[q].children) <=> p \in Range(tree[q].children)
      BY <1>11, <2>3
    <3>2. p \in LinkedPaths <=> p \in LinkedPaths'
      BY <1>5, <2>3
    <3> QED
      BY <1>9, <2>1, <3>1, <3>2
  <2> QED
    BY <2>2, <2>3
<1> QED
  BY <1>9, <1>12, <1>13 DEF Shape, Adopted

LEMMA NextShape ==
    ASSUME Assumptions, Types, Places, Apart, Shape, NEW t \in Threads, Acts(t)
    PROVE  Shape'
<1>1. CASE AddNew(t)
  BY <1>1, AddNewShape
<1>2. CASE UpdateParent(t)
  BY <1>2, UpdateParentShape
<1>3. CASE ~AddNew(t) /\ ~UpdateParent(t)
  <2>1. \A p \in Nodes : tree[p].parent # Null => (p \in LinkedPaths <=> p \in LinkedPaths')
    BY <1>3, StaysLinked
  <2>2. /\ DOMAIN tree \subseteq Paths /\ \A p \in DOMAIN tree : tree[p] \in Node /\ p # Null
        /\ Sound(tree) /\ Adopted(tree, LinkedPaths)
    BY TreeFacts DEF Shape, Sound, Assumptions
  <2>3. Adopted(tree, LinkedPaths')
    BY <2>1, <2>2 DEF Adopted, Nodes
  <2>4. CASE tree' = tree
    BY <2>2, <2>3, <2>4 DEF Shape
  <2>5. CASE AddExisting(t) /\ tree' = [tree EXCEPT ![Path(t)].record = rec[t]]
    <3>1. rec[t] \in Records
      BY <2>5 DEF AddExisting, Places, Placed, Inserting
    <3>2. DOMAIN tree' = DOMAIN tree /\ tree' = [p \in DOMAIN tree |-> tree'[p]]
      BY <2>5
    <3>3. \A p \in DOMAIN tree : tree'[p] = tree[p] \/ tree'[p] = [tree[p] EXCEPT !.record = rec[t]]
      BY <2>5
    <3>4. \A p \in DOMAIN tree : /\ tree'[p] \in Node /\ tree'[p].parent = tree[p].parent
                                 /\ tree'[p].children = tree[p].children
      BY <2>2, <3>1, <3>3 DEF Node
    <3>5. tree' \in [DOMAIN tree -> Node]
      BY <3>2, <3>4
    <3>6. tree' \in Trees
      BY <2>2, <3>2, <3>5 DEF Trees
    <3>7. Sound(tree') /\ Adopted(tree', LinkedPaths')
      <4>1. Sound(tree) /\ Adopted(tree, LinkedPaths')
        BY <2>2, <2>3
      <4>2. DOMAIN tree' = DOMAIN tree /\ \A p \in DOMAIN tree : /\ tree'[p].parent = tree[p].parent
                                                                /\ tree'[p].children = tree[p].children
        BY <3>2, <3>4
      <4> QED
        BY <3>6, <4>1, <4>2, SameLinks, Zenon
    <3> QED
      BY <3>7 DEF Shape
  <2> QED
    BY <1>3, <2>4, <2>5 DEF Acts, FindParent, AddExisting, AddFails, ReferenceRecord, CountItem, Release,
       Rehash, Drop, InsertRecord, Create, FindKey
<1> QED
  BY <1>1, <1>2, <1>3

\* Only t may be in one of the sets and not in the other.
LEMMA OneChanges ==
    ASSUME NEW S, NEW R, NEW t, IsFiniteSet(S), \A u : u # t => (u \in S <=> u \in R)
    PROVE  /\ Cardinality(S) \in Nat
           /\ Cardinality(R) = Cardinality(S) + (IF t \in R THEN 1 ELSE 0) - (IF t \in S THEN 1 ELSE 0)
<1>1. Cardinality(S) \in Nat
  BY FS_CardinalityType
<1>2. CASE (t \in R) <=> (t \in S)
  <2>1. R = S
    BY <1>2
  <2> QED
    BY <1>1, <2>1
<1>3. CASE t \in R /\ t \notin S
  <2>1. R = S \cup {t}
    BY <1>3
  <2>2. Cardinality(S \cup {t}) = Cardinality(S) + 1
    BY <1>3, FS_AddElement
  <2> QED
    BY <1>1, <1>3, <2>1, <2>2
<1>4. CASE t \notin R /\ t \in S
  <2>1. R = S \ {t}
    BY <1>4
  <2>2. Cardinality(S \ {t}) = Cardinality(S) - 1
    BY <1>4, FS_RemoveElement
  <2> QED
    BY <1>1, <1>4, <2>1, <2>2
<1> QED
  BY <1>2, <1>3, <1>4

\* The nodes linked and not yet counted.
LEMMA NextCounted ==
    ASSUME Assumptions, Types, Places, Shape, Counted, NEW t \in Threads, Acts(t)
    PROVE  Counted'
<1> DEFINE S == Pending({"own", "count"})
<1>1. /\ Cardinality(S) \in Nat
      /\ Cardinality(S') = Cardinality(S) + (IF t \in S' THEN 1 ELSE 0) - (IF t \in S THEN 1 ELSE 0)
  <2>1. S \subseteq Threads /\ IsFiniteSet(Threads)
    BY DEF Pending, Assumptions
  <2>2. IsFiniteSet(S)
    BY <2>1, FS_Subset
  <2>3. \A u : u # t => (u \in S <=> u \in S')
    BY ActsLocally DEF Pending
  <2> HIDE DEF S
  <2> QED
    BY <2>2, <2>3, OneChanges
<1>2. /\ t \in S <=> pc[t] \in {"own", "count"}
      /\ t \in S' <=> pc'[t] \in {"own", "count"}
  BY DEF Pending
<1>3. IsFiniteSet(Nodes) /\ Cardinality(Nodes) \in Nat
  <2>1. Nodes \subseteq Paths /\ IsFiniteSet(Paths)
    BY TreeFacts, PathsFinite DEF Shape, Sound, Nodes, Assumptions
  <2> QED
    BY <2>1, FS_Subset, FS_CardinalityType
<1> SUFFICES nItems' = Cardinality(Nodes') - Cardinality(S')
  BY DEF Counted
<1>4. nItems = Cardinality(Nodes) - Cardinality(S) /\ nItems \in Int
  BY DEF Counted, Types
<1> HIDE DEF S
<1>5. ASSUME Nodes' = Nodes, nItems' = nItems, pc'[t] \in {"own", "count"} <=> pc[t] \in {"own", "count"}
      PROVE  nItems' = Cardinality(Nodes') - Cardinality(S')
  BY <1>1, <1>2, <1>4, <1>5
<1>6. CASE FindParent(t)
  BY <1>5, <1>6 DEF FindParent, Nodes, Goto, Types
<1>7. CASE AddExisting(t)
  BY <1>5, <1>7 DEF AddExisting, Descend, Nodes, Goto, Types
<1>8. CASE AddNew(t)
  <2>1. Nodes' = Nodes \cup {Path(t)} /\ Path(t) \notin Nodes
    BY <1>8 DEF AddNew, Nodes
  <2>2. Cardinality(Nodes') = Cardinality(Nodes) + 1
    BY <1>3, <2>1, FS_AddElement
  <2>3. pc[t] = "add" /\ pc'[t] \in {"own", "count"} /\ nItems' = nItems
    BY <1>8 DEF AddNew, Goto, Types
  <2> QED
    BY <1>1, <1>2, <1>3, <1>4, <2>2, <2>3
<1>9. CASE AddFails(t)
  BY <1>5, <1>9 DEF AddFails, Nodes, Goto, Types
<1>10. CASE ReferenceRecord(t)
  BY <1>5, <1>10 DEF ReferenceRecord, Nodes, Goto, Types
<1>11. CASE CountItem(t)
  <2>1. pc[t] = "count" /\ pc'[t] \notin {"own", "count"} /\ nItems' = nItems + 1 /\ Nodes' = Nodes
    BY <1>11 DEF CountItem, Descend, Goto, Types, Nodes
  <2> QED
    BY <1>1, <1>2, <1>3, <1>4, <2>1
<1>12. CASE UpdateParent(t)
  BY <1>5, <1>12 DEF UpdateParent, Descend, Nodes, Goto, Types
<1>13. CASE Release(t)
  BY <1>5, <1>13 DEF Release, Nodes, Goto, Types
<1>14. CASE Rehash(t)
  BY <1>5, <1>14 DEF Rehash, Nodes, Goto, Types
<1>15. CASE Drop(t)
  BY <1>5, <1>15 DEF Drop, Nodes
<1>16. ASSUME NEW r \in Records, InsertRecord(t, r)  PROVE nItems' = Cardinality(Nodes') - Cardinality(S')
  BY <1>5, <1>16 DEF InsertRecord, Create, Nodes, Goto, Types
<1>17. ASSUME NEW p \in Range(Orders[1]), FindKey(t, p)  PROVE nItems' = Cardinality(Nodes') - Cardinality(S')
  BY <1>5, <1>17 DEF FindKey, Nodes
<1> QED
  BY <1>6, <1>7, <1>8, <1>9, <1>10, <1>11, <1>12, <1>13, <1>14, <1>15, <1>16, <1>17 DEF Acts

\* The references of callers.
LEMMA HoldersChange ==
    ASSUME Assumptions, Types, NEW t \in Threads, Acts(t), NEW r
    PROVE  /\ Cardinality(Holders(r)) \in Nat
           /\ Cardinality(Holders(r)') = Cardinality(Holders(r))
                + (IF held'[t] = r THEN 1 ELSE 0) - (IF held[t] = r THEN 1 ELSE 0)
<1>1. Holders(r) \subseteq Threads /\ IsFiniteSet(Threads)
  BY DEF Holders, Assumptions
<1>2. IsFiniteSet(Holders(r))
  BY <1>1, FS_Subset
<1>3. \A u : u # t => (u \in Holders(r) <=> u \in Holders(r)')
  BY ActsLocally DEF Holders
<1>4. (t \in Holders(r) <=> held[t] = r) /\ (t \in Holders(r)' <=> held'[t] = r)
  BY DEF Holders
<1>5. /\ Cardinality(Holders(r)) \in Nat
      /\ Cardinality(Holders(r)') = Cardinality(Holders(r))
            + (IF t \in Holders(r)' THEN 1 ELSE 0) - (IF t \in Holders(r) THEN 1 ELSE 0)
  BY <1>2, <1>3, OneChanges
<1> QED
  BY <1>4, <1>5

\* The reference of the table.
LEMMA KeptChanges ==
    ASSUME Types, NEW t \in Threads, Acts(t), NEW r,
           pc[t] \in {"refer", "own"} => rec[t] # r,
           pc'[t] \in {"refer", "own"} => rec'[t] # r,
           (\E p \in Nodes : tree[p].record = r) <=> (\E p \in Nodes' : tree'[p].record = r)
    PROVE  Kept(r)' <=> Kept(r)
<1>1. \A u \in Threads : u # t => pc'[u] = pc[u] /\ rec'[u] = rec[u]
  BY ActsLocally
<1>2. (\A u \in Pending({"refer", "own"}) : rec[u] # r) <=> (\A u \in Pending({"refer", "own"})' : rec'[u] # r)
  BY <1>1 DEF Pending
<1> QED
  BY <1>2 DEF Kept

LEMMA RecordsIn ==
    ASSUME Assumptions, Shape, NEW p \in Nodes  PROVE tree[p] \in Node /\ tree[p].record \in Records \cup {Null}
<1>1. tree[p] \in Node
  BY TreeFacts DEF Shape, Sound, Nodes
<1> QED
  BY <1>1 DEF Node

\* The records in nodes that a step leaves.
LEMMA RecordsStay ==
    ASSUME Assumptions, Types, Places, Shape, NEW t \in Threads, Acts(t), NEW r \in Records,
           pc[t] = "add" => rec[t] # r
    PROVE  (\E p \in Nodes : tree[p].record = r) <=> (\E p \in Nodes' : tree'[p].record = r)
<1>1. r # Null
  BY DEF Assumptions
<1>2. CASE UNCHANGED tree
  BY <1>2 DEF Nodes
<1>3. CASE AddExisting(t)
  <2>1. CASE tree[Path(t)].record = Null /\ tree' = [tree EXCEPT ![Path(t)].record = rec[t]]
    <3>1. pc[t] = "add" /\ Path(t) \in Nodes
      BY <1>3 DEF AddExisting
    <3>2. Nodes' = Nodes /\ \A p \in Nodes : tree'[p].record = IF p = Path(t) THEN rec[t] ELSE tree[p].record
      BY <2>1, <3>1, RecordsIn DEF Nodes, Node
    <3> QED
      BY <1>1, <2>1, <3>1, <3>2
  <2> QED
    BY <1>2, <1>3, <2>1 DEF AddExisting
<1>4. CASE AddNew(t)
  <2>1. pc[t] = "add" /\ Path(t) \notin Nodes /\ Nodes' = Nodes \cup {Path(t)}
    BY <1>4 DEF AddNew, Nodes
  <2>2. (\A p \in Nodes : tree'[p] = tree[p]) /\ tree'[Path(t)].record \in {rec[t], Null}
    BY <1>4 DEF AddNew, Nodes
  <2> QED
    BY <1>1, <2>1, <2>2
<1>5. CASE UpdateParent(t)
  <2>1. Nodes' = Nodes /\ \A p \in Nodes : tree'[p].record = tree[p].record
    BY <1>5, RecordsIn DEF UpdateParent, Nodes, Node
  <2> QED
    BY <2>1
<1> QED
  BY <1>2, <1>3, <1>4, <1>5 DEF Acts, FindParent, AddFails, ReferenceRecord, CountItem, Release,
     Rehash, Drop, InsertRecord, Create, FindKey

LEMMA NextRefsExact ==
    ASSUME Assumptions, Types, Places, Apart, Shape, RefsExact, NEW t \in Threads, Acts(t)
    PROVE  RefsExact'
<1> SUFFICES ASSUME NEW r \in Records
             PROVE  refs'[r] = Cardinality(Holders(r)') + (IF Kept(r)' THEN 1 ELSE 0)
  BY DEF RefsExact
<1>1. /\ refs \in [Records -> Int] /\ refs[r] = Cardinality(Holders(r)) + (IF Kept(r) THEN 1 ELSE 0)
      /\ r # Null
  BY DEF Types, RefsExact, Assumptions
<1>2. /\ Cardinality(Holders(r)) \in Nat
      /\ Cardinality(Holders(r)') = Cardinality(Holders(r))
            + (IF held'[t] = r THEN 1 ELSE 0) - (IF held[t] = r THEN 1 ELSE 0)
  BY HoldersChange
<1>3. ASSUME refs' = refs, held' = held, Kept(r)' <=> Kept(r)
      PROVE  refs'[r] = Cardinality(Holders(r)') + (IF Kept(r)' THEN 1 ELSE 0)
  BY <1>1, <1>2, <1>3
<1>4. ASSUME pc[t] # "add" \/ rec[t] # r, pc[t] \notin {"refer", "own"} \/ rec[t] # r,
             pc'[t] \notin {"refer", "own"} \/ rec'[t] # r
      PROVE  Kept(r)' <=> Kept(r)
  BY <1>4, RecordsStay, KeptChanges
<1>5. /\ pc \in [Threads -> Inserting \cup {"idle", "rehash"}] /\ rec \in [Threads -> Records \cup {Null}]
      /\ held \in [Threads -> Records \cup {Null}]
  BY DEF Types
<1>6. CASE FindParent(t)
  BY <1>3, <1>4, <1>5, <1>6 DEF FindParent, Goto
<1>7. CASE AddExisting(t) \/ AddNew(t)
  <2>1. pc[t] = "add" /\ rec' = rec /\ held' = held /\ refs' = refs
    BY <1>7 DEF AddExisting, AddNew
  <2>2. CASE rec[t] # r
    BY <1>3, <1>4, <2>1, <2>2
  <2>3. CASE rec[t] = r
    <3>1. \A p \in Nodes : tree[p].record # r
      BY <2>1, <2>3 DEF Places, Placed
    <3>2. (\A p \in Nodes' : tree'[p].record # r) \/ pc'[t] \in {"refer", "own"}
      <4>1. CASE AddExisting(t)
        <5>1. CASE tree' = tree
          BY <3>1, <5>1 DEF Nodes
        <5> QED
          BY <1>5, <4>1, <5>1 DEF AddExisting, Goto
      <4>2. CASE AddNew(t)
        <5>1. CASE IsLast(t)
          BY <1>5, <4>2, <5>1 DEF AddNew, Goto
        <5>2. CASE ~IsLast(t)
          <6>1. /\ Nodes' = Nodes \cup {Path(t)} /\ \A p \in Nodes : tree'[p] = tree[p]
                /\ tree'[Path(t)].record = Null
            BY <4>2, <5>2 DEF AddNew, Nodes
          <6> QED
            BY <1>1, <3>1, <6>1
        <5> QED
          BY <5>1, <5>2
      <4> QED
        BY <1>7, <4>1, <4>2
    <3>3. ~Kept(r)
      BY <3>1 DEF Kept
    <3>4. ~Kept(r)'
      BY <2>1, <2>3, <3>2 DEF Kept, Pending
    <3> QED
      BY <1>3, <2>1, <3>3, <3>4
  <2> QED
    BY <2>2, <2>3
<1>8. CASE AddFails(t)
  <2>1. \A p \in Nodes : pc[t] = "add" => tree[p].record # rec[t]
    BY DEF Places, Placed
  <2>2. CASE rec[t] # r
    BY <1>3, <1>4, <1>5, <1>8, <2>2 DEF AddFails, Goto
  <2>3. CASE rec[t] = r
    <3>1. pc[t] = "add" /\ tree' = tree
      BY <1>8 DEF AddFails
    <3>2. ~Kept(r) /\ ~Kept(r)'
      BY <2>1, <2>3, <3>1 DEF Kept, Nodes
    <3> QED
      BY <1>3, <1>8, <3>2 DEF AddFails
  <2> QED
    BY <2>2, <2>3
<1>9. CASE ReferenceRecord(t)
  <2>1. /\ pc[t] \in {"refer", "own"} /\ pc'[t] \notin {"refer", "own"} /\ rec' = rec /\ held' = held /\ tree' = tree
        /\ refs' = [refs EXCEPT ![rec[t]] = @ + 1]
    BY <1>5, <1>9 DEF ReferenceRecord, Goto
  <2>2. CASE rec[t] # r
    <3>1. (Kept(r)' <=> Kept(r)) /\ refs'[r] = refs[r]
      BY <1>1, <1>4, <2>1, <2>2
    <3> QED
      BY <1>1, <1>2, <2>1, <3>1
  <2>3. CASE rec[t] = r
    <3>1. Prefix(rec[t], len[t]) \in Nodes /\ tree[Prefix(rec[t], len[t])].record = r
      BY <2>1, <2>3 DEF Places, Placed, Linked
    <3>2. ~Kept(r)
      BY <2>1, <2>3 DEF Kept, Pending
    <3>3. \A u \in Threads : u # t /\ pc'[u] \in {"refer", "own"} => rec'[u] # r
      BY <2>1, <2>3, ActsLocally DEF Apart, Inserting
    <3>4. Kept(r)'
      BY <2>1, <3>1, <3>3 DEF Kept, Pending, Nodes
    <3>5. refs'[r] = refs[r] + 1
      BY <1>1, <2>1, <2>3
    <3> QED
      BY <1>1, <1>2, <2>1, <3>2, <3>4, <3>5
  <2> QED
    BY <2>2, <2>3
<1>10. CASE CountItem(t) \/ UpdateParent(t) \/ Release(t) \/ Rehash(t)
  <2>1. pc[t] \notin {"add", "refer", "own"} /\ held' = held /\ refs' = refs
    BY <1>10 DEF CountItem, UpdateParent, Release, Rehash
  <2>2. pc'[t] \notin {"refer", "own"}
    BY <1>5, <1>10 DEF CountItem, UpdateParent, Release, Rehash, Descend, Goto
  <2> QED
    BY <1>3, <1>4, <2>1, <2>2
<1>11. CASE Drop(t)
  <2>1. pc[t] = "idle" /\ pc' = pc /\ held[t] \in Records /\ held' = [held EXCEPT ![t] = Null]
        /\ refs' = [refs EXCEPT ![held[t]] = @ - 1]
    BY <1>5, <1>11 DEF Drop
  <2>2. Kept(r)' <=> Kept(r)
    BY <1>4, <2>1
  <2>3. held'[t] = Null /\ refs'[r] = IF held[t] = r THEN refs[r] - 1 ELSE refs[r]
    BY <1>1, <1>5, <2>1
  <2> QED
    BY <1>1, <1>2, <2>2, <2>3
<1>12. ASSUME NEW s \in Records, InsertRecord(t, s)
       PROVE  refs'[r] = Cardinality(Holders(r)') + (IF Kept(r)' THEN 1 ELSE 0)
  <2>1. pc[t] = "idle" /\ pc'[t] = "ascend" /\ held[t] = Null /\ held'[t] = s /\ refs[s] = 0
        /\ refs'[r] = IF r = s THEN 1 ELSE refs[r]
    BY <1>1, <1>5, <1>12 DEF InsertRecord, Create, Goto
  <2>2. Kept(r)' <=> Kept(r)
    BY <1>4, <2>1
  <2> QED
    BY <1>1, <1>2, <2>1, <2>2
<1>13. ASSUME NEW q \in Range(Orders[1]), FindKey(t, q)
       PROVE  refs'[r] = Cardinality(Holders(r)') + (IF Kept(r)' THEN 1 ELSE 0)
  <2>1. pc[t] = "idle" /\ pc' = pc /\ held[t] = Null /\ held'[t] = tree[q].record /\ tree[q].record \in Records
    BY <1>5, <1>13, RecordsIn DEF FindKey
  <2>2. refs'[r] = IF r = tree[q].record THEN refs[r] + 1 ELSE refs[r]
    BY <1>1, <1>13, <2>1 DEF FindKey
  <2>3. Kept(r)' <=> Kept(r)
    BY <1>4, <2>1
  <2> QED
    BY <1>1, <1>2, <2>1, <2>2, <2>3
<1> QED
  BY <1>6, <1>7, <1>8, <1>9, <1>10, <1>11, <1>12, <1>13 DEF Acts

-----------------------------------------------------------------------------
(* Deletions.                                                              *)

\* A deletion waits for the inserts that are under way.
LEMMA BecomeKeeps ==
    ASSUME Assumptions, Inv, NEW T, Become(T), Left(T)
    PROVE  Inv'
<1>1. /\ readers = {} /\ tree' = T /\ UNCHANGED <<size, readers, pc, rec, len, up, held>>
      /\ nItems' = nItems - (Cardinality(Nodes) - Cardinality(DOMAIN T))
  BY DEF Become, Exclusive
<1>2. \A t \in Threads : pc[t] \notin Inserting
  BY <1>1 DEF Inv, Places, Placed
<1>3. \A l \in SUBSET Inserting : Pending(l) = {} /\ Pending(l)' = {}
  BY <1>1, <1>2 DEF Pending
<1>4. Pending({"own", "count"}) = {} /\ Pending({"own", "count"})' = {}
      /\ Pending({"refer", "own"}) = {} /\ Pending({"refer", "own"})' = {}
      /\ Pending(Linked) = {} /\ Pending(Linked)' = {}
  BY <1>3 DEF Linked, Inserting
<1>5. Nodes \subseteq Paths /\ DOMAIN T \subseteq Paths /\ IsFiniteSet(Paths)
  BY TreeFacts, PathsFinite DEF Inv, Shape, Sound, Nodes, Left, Assumptions
<1>6. Cardinality(Nodes) \in Nat /\ Cardinality(DOMAIN T) \in Nat
  BY <1>5, FS_Subset, FS_CardinalityType
<1>7. Cardinality({}) = 0
  BY FS_EmptySet
<1>8. Counted'
  <2>1. nItems = Cardinality(Nodes) - Cardinality(Pending({"own", "count"}))
    BY DEF Inv, Counted
  <2>2. nItems = Cardinality(Nodes)
    BY <1>4, <1>6, <1>7, <2>1
  <2>3. nItems' = Cardinality(DOMAIN T)
    BY <1>1, <1>6, <2>2
  <2>4. Cardinality(Nodes)' = Cardinality(DOMAIN T)
    BY <1>1 DEF Nodes
  <2>5. Cardinality(Pending({"own", "count"}))' = 0
    BY <1>4, <1>7
  <2> QED
    BY <1>6, <2>3, <2>4, <2>5 DEF Counted
<1> DEFINE recordsOf(X) == {X[p].record : p \in DOMAIN X} \ {Null}
<1>9. refs' = [r \in Records |-> IF r \in recordsOf(tree) \ recordsOf(T) THEN refs[r] - 1 ELSE refs[r]]
  BY DEF Become
<1>10. recordsOf(T) \subseteq recordsOf(tree)
  BY DEF Left
<1>11. \A r \in Records : /\ Kept(r) <=> r \in recordsOf(tree)
                          /\ Kept(r)' <=> r \in recordsOf(T)
  <2> SUFFICES ASSUME NEW r \in Records
               PROVE  (Kept(r) <=> r \in recordsOf(tree)) /\ (Kept(r)' <=> r \in recordsOf(T))
    OBVIOUS
  <2>1. r # Null
    BY DEF Assumptions
  <2>2. Kept(r) <=> \E p \in DOMAIN tree : tree[p].record = r
    BY <1>4 DEF Kept, Nodes
  <2>3. Kept(r)' <=> \E p \in DOMAIN T : T[p].record = r
    BY <1>1, <1>4 DEF Kept, Nodes
  <2> QED
    BY <2>1, <2>2, <2>3
<1>12. RefsExact'
  <2> SUFFICES ASSUME NEW r \in Records
               PROVE  refs'[r] = Cardinality(Holders(r)') + (IF Kept(r)' THEN 1 ELSE 0)
    BY DEF RefsExact
  <2>1. refs[r] = Cardinality(Holders(r)) + (IF Kept(r) THEN 1 ELSE 0)
    BY DEF Inv, RefsExact
  <2>2. Holders(r)' = Holders(r) /\ Holders(r) \subseteq Threads /\ IsFiniteSet(Threads)
    BY <1>1 DEF Holders, Assumptions
  <2>3. Cardinality(Holders(r)) \in Nat
    BY <2>2, FS_Subset, FS_CardinalityType
  <2>4. refs'[r] = IF Kept(r) /\ ~(Kept(r)') THEN refs[r] - 1 ELSE refs[r]
    BY <1>9, <1>11
  <2>5. Kept(r)' => Kept(r)
    BY <1>10, <1>11
  <2> QED
    BY <2>1, <2>2, <2>3, <2>4, <2>5
<1>13. Types'
  <2> HIDE DEF recordsOf
  <2>1. refs' \in [Records -> Int]
    BY <1>9 DEF Inv, Types
  <2> QED
    BY <1>1, <1>6, <2>1 DEF Inv, Types
<1>14. Places'
  BY <1>1, <1>2 DEF Inv, Places, Placed, Inserting, Linked
<1>15. Apart'
  BY <1>1 DEF Inv, Apart
<1>16. Shape'
  <2>1. LinkedPaths' = {}
    BY <1>4 DEF LinkedPaths
  <2> QED
    BY <1>1, <2>1 DEF Shape, Left
<1> QED
  BY <1>8, <1>12, <1>13, <1>14, <1>15, <1>16 DEF Inv

LEMMA QuietTree ==
    ASSUME Inv, readers = {}
    PROVE  Sound(tree) /\ Adopted(tree, {}) /\ size \in DOMAIN Orders
<1>1. Pending(Linked) = {}
  BY DEF Inv, Places, Placed, Pending, Linked, Inserting
<1> QED
  BY <1>1 DEF Inv, Shape, LinkedPaths, Types

-----------------------------------------------------------------------------
(* The table.                                                              *)

LEMMA InitInv ==
    ASSUME Assumptions, Init  PROVE Inv
<1>1. DOMAIN tree = {} /\ tree \in Trees
  <2>1. tree \in [{} -> Node]
    BY DEF Init
  <2> QED
    BY <2>1 DEF Init, Trees
<1>2. \A l : "idle" \notin l => Pending(l) = {}
  BY DEF Init, Pending
<1>3. Pending({"own", "count"}) = {}
  BY <1>2
<1>4. \A r \in Records : Holders(r) = {} /\ ~Kept(r)
  BY <1>1 DEF Init, Holders, Kept, Nodes, Assumptions
<1>5. Cardinality({}) = 0
  BY FS_EmptySet
<1>6. Types
  <2>1. 1 \in DOMAIN Orders
    BY DEF Assumptions
  <2> QED
    BY <2>1 DEF Init, Types
<1>7. Places /\ Apart
  BY DEF Init, Places, Placed, Apart, Inserting, Linked
<1>8. Shape
  BY <1>1 DEF Shape, Sound, Adopted
<1>9. Counted
  <2>1. Nodes = {} /\ nItems = 0
    BY <1>1 DEF Init, Nodes
  <2> QED
    BY <1>3, <1>5, <2>1 DEF Counted
<1>10. RefsExact
  <2>1. \A r \in Records : refs[r] = 0
    BY DEF Init
  <2> QED
    BY <1>4, <1>5, <2>1 DEF RefsExact
<1> QED
  BY <1>6, <1>7, <1>8, <1>9, <1>10 DEF Inv

\* An insert whose copy failed leaves its record with its creator.
LEMMA CopyFailsInv ==
    ASSUME Assumptions, Inv, NEW t \in Threads, NEW s \in Records, CopyFails(t, s)  PROVE Inv'
<1>1. /\ UNCHANGED <<tree, nItems, size, readers, pc, rec, len, up>>
      /\ pc[t] = "idle" /\ held[t] = Null /\ held' = [held EXCEPT ![t] = s]
      /\ refs[s] = 0 /\ refs' = [refs EXCEPT ![s] = 1]
  BY DEF CopyFails, Create
<1>2. Types'
  BY <1>1 DEF Inv, Types
<1>3. \A u \in Threads : pc[u] \in Inserting => held'[u] = held[u]
  BY <1>1 DEF Inv, Types, Inserting
<1>4. Places'
  <2> SUFFICES ASSUME NEW u \in Threads  PROVE Placed(u)'
    BY DEF Places
  <2>1. Placed(u) /\ (pc[u] \in Inserting => held'[u] = held[u])
    BY <1>3 DEF Inv, Places
  <2> QED
    BY <1>1, <2>1 DEF Placed, Nodes, Prefix
<1>5. Apart' /\ Shape' /\ Counted'
  BY <1>1 DEF Inv, Apart, Shape, LinkedPaths, Counted, Pending, Nodes
<1>6. RefsExact'
  <2> SUFFICES ASSUME NEW r \in Records
               PROVE  refs'[r] = Cardinality(Holders(r)') + (IF Kept(r)' THEN 1 ELSE 0)
    BY DEF RefsExact
  <2>1. refs[r] = Cardinality(Holders(r)) + (IF Kept(r) THEN 1 ELSE 0)
    BY DEF Inv, RefsExact
  <2>2. Kept(r)' <=> Kept(r)
    BY <1>1 DEF Kept, Pending, Nodes
  <2>3. refs'[r] = IF r = s THEN 1 ELSE refs[r]
    BY <1>1 DEF Inv, Types
  <2>4. held \in [Threads -> Records \cup {Null}] /\ IsFiniteSet(Threads) /\ r # Null
    BY DEF Inv, Types, Assumptions
  <2>5. IsFiniteSet(Holders(r)) /\ Cardinality(Holders(r)) \in Nat
    BY <2>4, FS_Subset, FS_CardinalityType DEF Holders
  <2>6. Cardinality(Holders(r)') = Cardinality(Holders(r)) + (IF r = s THEN 1 ELSE 0)
    <3>1. CASE r = s
      <4>1. Holders(r)' = Holders(r) \cup {t} /\ t \notin Holders(r)
        BY <1>1, <2>4, <3>1 DEF Holders
      <4> QED
        BY <2>5, <3>1, <4>1, FS_AddElement
    <3>2. CASE r # s
      <4>1. Holders(r)' = Holders(r)
        BY <1>1, <2>4, <3>2 DEF Holders
      <4> QED
        BY <2>5, <3>2, <4>1
    <3> QED
      BY <3>1, <3>2
  <2> QED
    BY <1>1, <2>1, <2>2, <2>3, <2>5, <2>6
<1> QED
  BY <1>2, <1>4, <1>5, <1>6 DEF Inv

LEMMA StutterInv ==
    ASSUME Inv, UNCHANGED <<tree, nItems, size, readers, pc, rec, len, up, refs, held>>  PROVE Inv'
BY DEF Inv, Types, Places, Placed, Apart, Shape, LinkedPaths, Pending, Counted, Nodes, RefsExact,
   Holders, Kept

LEMMA NextInv ==
    ASSUME Assumptions, Inv, Next  PROVE Inv'
<1>1. ASSUME NEW t \in Threads, Acts(t)  PROVE Inv'
  <2>1. Types /\ Places /\ Apart /\ Shape /\ Counted /\ RefsExact
    BY DEF Inv
  <2>2. Places'
    BY <1>1, <2>1, OthersPlaced, OwnPlaced DEF Places
  <2> QED
    BY <1>1, <2>1, <2>2, NextTypes, NextApart, NextShape, NextCounted, NextRefsExact DEF Inv
<1>2. ASSUME NEW p, DeleteKey(p)  PROVE Inv'
  <2>1. p \in DOMAIN tree /\ Become(DeleteNodeInternal(tree, p)) /\ readers = {}
    BY <1>2 DEF DeleteKey, Become, Exclusive, Nodes
  <2>2. Sound(tree) /\ Adopted(tree, {}) /\ size \in DOMAIN Orders
    BY <2>1, QuietTree
  <2>3. Left(DeleteNodeInternal(tree, p))
    BY <2>1, <2>2, DeleteSound DEF Left
  <2> QED
    BY <2>1, <2>3, BecomeKeeps
<1>3. ASSUME NEW F, DeleteIf(F)  PROVE Inv'
  <2>1. Become(Walk(F)) /\ readers = {}
    BY <1>3 DEF DeleteIf, Become, Exclusive
  <2>2. Left(Walk(F))
    BY <2>1, QuietTree, WalkLeaves
  <2> QED
    BY <2>1, <2>2, BecomeKeeps
<1>4. CASE Clear
  <2> DEFINE T == [p \in {} |-> Null]
  <2>1. DOMAIN T = {} /\ T \in [{} -> Node]
    OBVIOUS
  <2>2. T \in Trees
    BY <2>1 DEF Trees
  <2>3. Become(T)
    BY <1>4 DEF Clear
  <2> HIDE DEF T
  <2>4. Left(T)
    BY <2>1, <2>2 DEF Left, Sound, Adopted
  <2> QED
    BY <2>3, <2>4, BecomeKeeps
<1>5. CASE Overlap
  BY <1>5, StutterInv DEF Overlap
<1> QED
  BY <1>1, <1>2, <1>3, <1>4, <1>5, CopyFailsInv DEF Next, Step, Acts

LEMMA InvSafe ==
    ASSUME Assumptions, Inv  PROVE TreeIsSound
<1>1. Sound(tree) /\ Adopted(tree, LinkedPaths)
  BY DEF Inv, Shape
<1>2. \A p \in Nodes : tree[p].children \in Seq(Paths)
  BY RecordsIn DEF Inv, Node
<1>3. ASSUME NEW p \in Nodes, NEW q \in Nodes
      PROVE  Cardinality({i \in DOMAIN tree[q].children : tree[q].children[i] = p})
              = IF /\ tree[p].parent = q
                   /\ \A t \in Pending({"own", "count", "adopt"}) : Path(t) # p
                THEN 1 ELSE 0
  <2>1. p \notin LinkedPaths <=> \A t \in Pending({"own", "count", "adopt"}) : Path(t) # p
    BY PathIs DEF LinkedPaths, Linked
  <2>2. p \in Range(tree[q].children) <=> tree[p].parent = q /\ p \notin LinkedPaths
    BY <1>1 DEF Adopted, Nodes
  <2>3. Once(tree[q].children) /\ tree[q].children \in Seq(Paths)
    BY <1>1, <1>2 DEF Sound, Nodes
  <2> QED
    BY <2>1, <2>2, <2>3, CountOnce
<1>4. \A r \in Records :
        refs[r] = Cardinality({t \in Threads : held[t] = r})
            + (IF /\ \E p \in Nodes : tree[p].record = r
                  /\ \A t \in Pending({"refer", "own"}) : rec[t] # r
               THEN 1 ELSE 0)
  BY DEF Inv, RefsExact, Kept, Holders
<1>5. nItems = Cardinality(Nodes) - Cardinality(Pending({"own", "count"}))
  BY DEF Inv, Counted
<1> QED
  BY <1>1, <1>3, <1>4, <1>5 DEF TreeIsSound, Sound, Nodes

\* For any number of threads and records, and paths of any length: each node is
\* once in its parent's list and in no other, the count and the references are
\* exact, whatever inserts overlapped and wherever one of them failed, up to
\* the first writer or release that meets a share taken away by an insert
\* whose copy of the path failed (line 543); nothing is said of the steps after.
THEOREM TreeTheorem == ASSUME Assumptions PROVE Spec => []TreeIsSound
<1>1. Init => Inv
  BY InitInv
<1>2. Inv /\ [Next]_vars => Inv'
  BY NextInv, StutterInv DEF vars
<1>3. Inv => TreeIsSound
  BY InvSafe
<1> QED
  BY <1>1, <1>2, <1>3, PTL DEF Spec
=============================================================================
