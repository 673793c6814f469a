--------------------------- MODULE HashTable_proofs ---------------------------
(***************************************************************************)
(* Lemmas about lists and theorems about HashTable.                        *)
(***************************************************************************)
EXTENDS HashTable, Integers, WellFoundedInduction, FiniteSetTheorems, TLAPS

-----------------------------------------------------------------------------
(* Lists.                                                                  *)

\* A set of natural numbers has a least one.
LEMMA NatMin ==
    ASSUME NEW T, T \subseteq Nat, T # {}
    PROVE  \E x \in T : \A y \in T : x <= y
<1> DEFINE Less == {r \in Nat \X Nat : r[1] < r[2]}
<1>1. IsWellFoundedOn(Less, Nat)
  BY NatLessThanWellFounded DEF OpToRel
<1> HIDE DEF Less
<1>2. PICK x \in T : \A y \in T : <<y, x>> \notin Less
  BY <1>1, WFMin, Zenon
<1>3. \A y \in T : ~(y < x)
  BY <1>2 DEF Less
<1> QED
  BY <1>3

\* Induction on the natural numbers, for the set of those that have a property.
LEMMA NatInd ==
    ASSUME NEW P, 0 \in P, \A n \in Nat : n \in P => n + 1 \in P
    PROVE  Nat \subseteq P
<1> DEFINE T == Nat \ P
<1> SUFFICES ASSUME T # {}  PROVE FALSE
  OBVIOUS
<1>1. PICK x \in T : \A y \in T : x <= y
  <2> HIDE DEF T
  <2>1. T \subseteq Nat
    BY DEF T
  <2> QED
    BY <2>1, NatMin
<1>2. x # 0 /\ x - 1 \in Nat /\ x - 1 + 1 = x
  BY <1>1
<1>3. x - 1 \in P
  BY <1>1, <1>2
<1> QED
  BY <1>1, <1>2, <1>3

\* Induction on lists.
LEMMA ListInd ==
    ASSUME NEW X, NEW P, <<>> \in P,
           \A s \in Seq(X), x \in X : s \in P => Append(s, x) \in P
    PROVE  Seq(X) \subseteq P
<1> DEFINE Q == {n \in Nat : \A s \in Seq(X) : Len(s) = n => s \in P}
<1>1. 0 \in Q
  BY \A s \in Seq(X) : Len(s) = 0 => s = <<>>
<1>2. ASSUME NEW n \in Nat, n \in Q  PROVE n + 1 \in Q
  <2> SUFFICES ASSUME NEW s \in Seq(X), Len(s) = n + 1  PROVE s \in P
    OBVIOUS
  <2> DEFINE front == SubSeq(s, 1, n)
  <2>1. front \in Seq(X) /\ Len(front) = n /\ s[n + 1] \in X
    OBVIOUS
  <2>2. s = Append(front, s[n + 1])
    BY <2>1
  <2>3. front \in P
    BY <1>2, <2>1
  <2> HIDE DEF front
  <2> QED
    BY <2>1, <2>2, <2>3
<1>3. Nat \subseteq Q
  <2> HIDE DEF Q
  <2> QED
    BY <1>1, <1>2, NatInd
<1> QED
  BY <1>3

LEMMA AppendRange ==
    ASSUME NEW X, NEW s \in Seq(X), NEW x \in X
    PROVE  Range(Append(s, x)) = Range(s) \cup {x}
<1>1. /\ DOMAIN Append(s, x) = 1 .. Len(s) + 1 /\ DOMAIN s = 1 .. Len(s) /\ Len(s) \in Nat
      /\ Append(s, x)[Len(s) + 1] = x /\ \A i \in 1 .. Len(s) : Append(s, x)[i] = s[i]
  OBVIOUS
<1>2. Range(Append(s, x)) \subseteq Range(s) \cup {x}
  BY <1>1 DEF Range
<1>3. Range(s) \subseteq Range(Append(s, x))
  <2> SUFFICES ASSUME NEW i \in DOMAIN s  PROVE s[i] \in Range(Append(s, x))
    BY DEF Range
  <2>1. i \in DOMAIN Append(s, x) /\ Append(s, x)[i] = s[i]
    BY <1>1
  <2> QED
    BY <2>1 DEF Range
<1>4. x \in Range(Append(s, x))
  BY <1>1 DEF Range
<1> QED
  BY <1>2, <1>3, <1>4

\* What the recursive function of Filter solves.
Solves(f, s, S) ==
    f = [i \in 0 .. Len(s) |->
            IF i = 0 THEN <<>> ELSE IF s[i] \in S THEN Append(f[i - 1], s[i]) ELSE f[i - 1]]

OnlySolution(f, s, S) == \A g : Solves(g, s, S) <=> g = f

LEMMA FilterSolves == \A s, S : Filter(s, S) = (CHOOSE f : Solves(f, s, S))[Len(s)]
BY DEF Filter, Solves

LEMMA SolvesAppend ==
    ASSUME NEW X, NEW S, NEW s \in Seq(X), NEW x \in X, NEW f,
           OnlySolution(f, s, S)
    PROVE  OnlySolution([i \in 0 .. Len(s) + 1 |->
                            IF i # Len(s) + 1 THEN f[i]
                            ELSE IF x \in S THEN Append(f[Len(s)], x) ELSE f[Len(s)]],
                        Append(s, x), S)
<1> DEFINE n == Len(s)
           last == IF x \in S THEN Append(f[n], x) ELSE f[n]
           h == [i \in 0 .. n + 1 |-> IF i # n + 1 THEN f[i] ELSE last]
           longer == Append(s, x)
<1>1. n \in Nat /\ Len(longer) = n + 1 /\ longer[n + 1] = x /\ \A i \in 1 .. n : longer[i] = s[i]
  OBVIOUS
<1>2. \A g : Solves(g, s, S) <=> g = f
  BY DEF OnlySolution
<1>3. f = [i \in 0 .. n |->
             IF i = 0 THEN <<>> ELSE IF s[i] \in S THEN Append(f[i - 1], s[i]) ELSE f[i - 1]]
  <2>1. Solves(f, s, S)
    BY <1>2
  <2> QED
    BY <2>1 DEF Solves, n
<1> HIDE DEF n, last, longer
<1>4. ASSUME NEW g, Solves(g, longer, S)  PROVE g = h
  <2> DEFINE r == [i \in 0 .. n |-> g[i]]
  <2>1. g = [i \in 0 .. n + 1 |->
               IF i = 0 THEN <<>>
               ELSE IF longer[i] \in S THEN Append(g[i - 1], longer[i]) ELSE g[i - 1]]
    BY <1>1, <1>4 DEF Solves
  <2>2. r = [i \in 0 .. n |->
               IF i = 0 THEN <<>> ELSE IF s[i] \in S THEN Append(r[i - 1], s[i]) ELSE r[i - 1]]
    <3> SUFFICES ASSUME NEW i \in 0 .. n
                 PROVE  g[i] = IF i = 0 THEN <<>>
                               ELSE IF s[i] \in S THEN Append(r[i - 1], s[i]) ELSE r[i - 1]
      OBVIOUS
    <3>1. CASE i = 0
      BY <1>1, <2>1, <3>1
    <3>2. CASE i # 0
      <4>1. r[i - 1] = g[i - 1] /\ longer[i] = s[i]
        BY <1>1, <3>2
      <4> HIDE DEF r
      <4>2. g[i] = IF longer[i] \in S THEN Append(g[i - 1], longer[i]) ELSE g[i - 1]
        <5>1. i \in 0 .. n + 1
          BY <1>1
        <5> QED
          BY <2>1, <3>2, <5>1
      <4> QED
        BY <3>2, <4>1, <4>2
    <3> QED
      BY <3>1, <3>2
  <2>3. r = f
    <3> HIDE DEF r
    <3>1. Solves(r, s, S)
      BY <2>2 DEF Solves, n
    <3> QED
      BY <1>2, <3>1
  <2>4. \A i \in 0 .. n : g[i] = f[i]
    BY <2>3
  <2>5. g[n + 1] = last
    <3>1. g[n + 1] = IF longer[n + 1] \in S THEN Append(g[n + 1 - 1], longer[n + 1]) ELSE g[n + 1 - 1]
      <4>1. n + 1 \in 0 .. n + 1 /\ n + 1 # 0
        BY <1>1
      <4> QED
        <5>1. \A i \in 0 .. n + 1 :
                 i # 0 => g[i] = IF longer[i] \in S THEN Append(g[i - 1], longer[i]) ELSE g[i - 1]
          BY <2>1, Zenon
        <5> QED
          BY <1>1, <4>1, <5>1
    <3>2. g[n + 1 - 1] = f[n] /\ longer[n + 1] = x
      BY <1>1, <2>4
    <3> QED
      BY <3>1, <3>2 DEF last
  <2> HIDE DEF r
  <2>6. g = [i \in 0 .. n + 1 |-> g[i]]
    BY <2>1
  <2>7. \A i \in 0 .. n + 1 : g[i] = h[i]
    BY <1>1, <2>4, <2>5
  <2> HIDE DEF h
  <2>8. h = [i \in 0 .. n + 1 |-> h[i]]
    BY DEF h
  <2> QED
    BY <2>6, <2>7, <2>8
<1>5. Solves(h, longer, S)
  <2> SUFFICES h = [i \in 0 .. n + 1 |->
                 IF i = 0 THEN <<>>
                 ELSE IF longer[i] \in S THEN Append(h[i - 1], longer[i]) ELSE h[i - 1]]
    BY <1>1 DEF Solves
  <2> SUFFICES ASSUME NEW i \in 0 .. n + 1
               PROVE  h[i] = IF i = 0 THEN <<>>
                             ELSE IF longer[i] \in S THEN Append(h[i - 1], longer[i]) ELSE h[i - 1]
    OBVIOUS
  <2>1. CASE i = n + 1
    <3>1. i # 0 /\ h[i] = last /\ h[i - 1] = f[n] /\ longer[i] = x
      BY <1>1, <2>1
    <3> QED
      BY <3>1 DEF last
  <2>2. CASE i # n + 1
    <3>1. i \in 0 .. n /\ h[i] = f[i]
      BY <1>1, <2>2
    <3>2. i # 0 => h[i - 1] = f[i - 1] /\ longer[i] = s[i]
      BY <1>1, <3>1
    <3>3. f[i] = IF i = 0 THEN <<>> ELSE IF s[i] \in S THEN Append(f[i - 1], s[i]) ELSE f[i - 1]
      BY <1>3, <3>1
    <3> HIDE DEF h
    <3> QED
      BY <3>1, <3>2, <3>3
  <2> QED
    BY <2>1, <2>2
<1> QED
  <2>1. OnlySolution(h, longer, S)
    <3> HIDE DEF h
    <3> QED
      BY <1>4, <1>5 DEF OnlySolution
  <2> QED
    BY <2>1 DEF n, last, longer

\* The recursive function of Filter is defined: there is one solution.
LEMMA FilterDefined ==
    ASSUME NEW X, NEW S
    PROVE  \A s \in Seq(X) : \E f : OnlySolution(f, s, S)
<1> DEFINE P == {s \in Seq(X) : \E f : OnlySolution(f, s, S)}
<1>1. <<>> \in P
  <2>1. OnlySolution([i \in 0 .. 0 |-> <<>>], <<>>, S)
    <3>1. ASSUME NEW g PROVE Solves(g, <<>>, S) <=> g = [i \in 0 .. 0 |-> <<>>]
      <4>1. [i \in 0 .. Len(<<>>) |->
                IF i = 0 THEN <<>>
                ELSE IF <<>>[i] \in S THEN Append(g[i - 1], <<>>[i]) ELSE g[i - 1]]
             = [i \in 0 .. 0 |-> <<>>]
        OBVIOUS
      <4> QED
        BY <4>1 DEF Solves
    <3> QED
      BY <3>1 DEF OnlySolution
  <2> QED
    BY <2>1
<1>2. ASSUME NEW s \in Seq(X), NEW x \in X, s \in P  PROVE Append(s, x) \in P
  <2>1. PICK f : OnlySolution(f, s, S)
    BY <1>2
  <2>2. \E h : OnlySolution(h, Append(s, x), S)
    BY <2>1, SolvesAppend
  <2> QED
    BY <2>2
<1>3. Seq(X) \subseteq P
  <2> HIDE DEF P
  <2> QED
    BY <1>1, <1>2, ListInd
<1> QED
  BY <1>3

LEMMA FilterEmpty == \A S : Filter(<<>>, S) = <<>>
<1> SUFFICES ASSUME NEW S  PROVE Filter(<<>>, S) = <<>>
  OBVIOUS
<1>1. <<>> \in Seq({1})
  OBVIOUS
<1>2. PICK f : OnlySolution(f, <<>>, S)
  BY <1>1, FilterDefined
<1>3. (CHOOSE g : Solves(g, <<>>, S)) = f
  BY <1>2 DEF OnlySolution
<1>4. f[0] = <<>>
  <2>1. Solves(f, <<>>, S)
    BY <1>2 DEF OnlySolution
  <2>2. 0 \in 0 .. Len(<<>>)
    OBVIOUS
  <2> QED
    BY <2>1, <2>2 DEF Solves
<1> QED
  BY <1>3, <1>4, FilterSolves

LEMMA FilterAppend ==
    ASSUME NEW X, NEW S, NEW s \in Seq(X), NEW x \in X
    PROVE  Filter(Append(s, x), S) = IF x \in S THEN Append(Filter(s, S), x) ELSE Filter(s, S)
<1>1. PICK f : OnlySolution(f, s, S)
  BY FilterDefined
<1>2. (CHOOSE g : Solves(g, s, S)) = f
  BY <1>1 DEF OnlySolution
<1> DEFINE last == IF x \in S THEN Append(f[Len(s)], x) ELSE f[Len(s)]
           h == [i \in 0 .. Len(s) + 1 |-> IF i # Len(s) + 1 THEN f[i] ELSE last]
<1>3. OnlySolution(h, Append(s, x), S)
  BY <1>1, SolvesAppend
<1>4. (CHOOSE g : Solves(g, Append(s, x), S)) = h
  <2> HIDE DEF h
  <2> QED
    BY <1>3 DEF OnlySolution
<1>5. h[Len(s) + 1] = last /\ Len(Append(s, x)) = Len(s) + 1
  OBVIOUS
<1> QED
  BY <1>2, <1>4, <1>5, FilterSolves

\* What is kept of a list is what it has of S, in order.
LEMMA FilterRange ==
    ASSUME NEW X, NEW S
    PROVE  \A s \in Seq(X) : /\ Filter(s, S) \in Seq(X)
                             /\ Range(Filter(s, S)) = Range(s) \cap S
<1> DEFINE P == {s \in Seq(X) : Filter(s, S) \in Seq(X) /\ Range(Filter(s, S)) = Range(s) \cap S}
<1>1. <<>> \in P
  <2>1. Range(<<>>) = {}
    BY DEF Range
  <2>2. Filter(<<>>, S) = <<>> /\ <<>> \in Seq(X)
    BY FilterEmpty
  <2>3. Range(Filter(<<>>, S)) = Range(<<>>) \cap S
    BY <2>1, <2>2
  <2> QED
    BY <2>2, <2>3
<1>2. ASSUME NEW s \in Seq(X), NEW x \in X, s \in P  PROVE Append(s, x) \in P
  <2>1. Filter(s, S) \in Seq(X) /\ Range(Filter(s, S)) = Range(s) \cap S
    BY <1>2
  <2>2. Range(Append(s, x)) = Range(s) \cup {x}
    BY AppendRange
  <2>3. Range(Append(Filter(s, S), x)) = Range(Filter(s, S)) \cup {x}
    BY <2>1, AppendRange
  <2>4. Filter(Append(s, x), S) = IF x \in S THEN Append(Filter(s, S), x) ELSE Filter(s, S)
    BY FilterAppend
  <2>5. Append(Filter(s, S), x) \in Seq(X) /\ Append(s, x) \in Seq(X)
    BY <2>1
  <2> QED
    BY <2>1, <2>2, <2>3, <2>4, <2>5
<1>3. Seq(X) \subseteq P
  <2> HIDE DEF P
  <2> QED
    BY <1>1, <1>2, ListInd
<1> QED
  BY <1>3

\* Only what the list holds matters.
LEMMA FilterSame ==
    ASSUME NEW X, NEW S, NEW T
    PROVE  \A s \in Seq(X) : Range(s) \cap S = Range(s) \cap T => Filter(s, S) = Filter(s, T)
<1> DEFINE P == {s \in Seq(X) : Range(s) \cap S = Range(s) \cap T => Filter(s, S) = Filter(s, T)}
<1>1. <<>> \in P
  BY FilterEmpty
<1>2. ASSUME NEW s \in Seq(X), NEW x \in X, s \in P  PROVE Append(s, x) \in P
  <2> SUFFICES ASSUME Range(Append(s, x)) \cap S = Range(Append(s, x)) \cap T
               PROVE  Filter(Append(s, x), S) = Filter(Append(s, x), T)
    OBVIOUS
  <2>1. Range(Append(s, x)) = Range(s) \cup {x}
    BY AppendRange
  <2>2. Filter(s, S) = Filter(s, T) /\ (x \in S <=> x \in T)
    <3>1. x \in S <=> x \in T
      BY <2>1
    <3>2. Range(s) \cap S = Range(s) \cap T
      BY <2>1
    <3> QED
      BY <1>2, <3>1, <3>2
  <2>3. /\ Filter(Append(s, x), S) = IF x \in S THEN Append(Filter(s, S), x) ELSE Filter(s, S)
        /\ Filter(Append(s, x), T) = IF x \in T THEN Append(Filter(s, T), x) ELSE Filter(s, T)
    BY FilterAppend
  <2> QED
    BY <2>2, <2>3
<1>3. Seq(X) \subseteq P
  <2> HIDE DEF P
  <2> QED
    BY <1>1, <1>2, ListInd
<1> QED
  BY <1>3

LEMMA FilterTwice ==
    ASSUME NEW X, NEW S, NEW T
    PROVE  \A s \in Seq(X) : Filter(Filter(s, S), T) = Filter(s, S \cap T)
<1> DEFINE P == {s \in Seq(X) : Filter(Filter(s, S), T) = Filter(s, S \cap T)}
<1>1. <<>> \in P
  BY FilterEmpty
<1>2. ASSUME NEW s \in Seq(X), NEW x \in X, s \in P  PROVE Append(s, x) \in P
  <2> SUFFICES Filter(Filter(Append(s, x), S), T) = Filter(Append(s, x), S \cap T)
    OBVIOUS
  <2>1. Filter(s, S) \in Seq(X) /\ Filter(Filter(s, S), T) = Filter(s, S \cap T)
    BY <1>2, FilterRange
  <2>2. Filter(Append(s, x), S) = IF x \in S THEN Append(Filter(s, S), x) ELSE Filter(s, S)
    BY FilterAppend
  <2>3. Filter(Append(s, x), S \cap T) =
          IF x \in S \cap T THEN Append(Filter(s, S \cap T), x) ELSE Filter(s, S \cap T)
    BY FilterAppend
  <2>4. PICK k \in Seq(X) : k = Filter(s, S)
    BY <2>1
  <2>5. Filter(Append(k, x), T) = IF x \in T THEN Append(Filter(k, T), x) ELSE Filter(k, T)
    BY FilterAppend
  <2>6. CASE x \in S
    <3>1. Filter(Append(s, x), S) = Append(k, x)
      BY <2>2, <2>4, <2>6
    <3>2. Filter(k, T) = Filter(s, S \cap T)
      BY <2>1, <2>4
    <3>3. Filter(Filter(Append(s, x), S), T) = IF x \in T THEN Append(Filter(k, T), x) ELSE Filter(k, T)
      BY <2>5, <3>1
    <3> QED
      BY <2>3, <2>6, <3>2, <3>3
  <2>7. CASE x \notin S
    BY <2>1, <2>2, <2>3, <2>4, <2>7
  <2> QED
    BY <2>6, <2>7
<1>3. Seq(X) \subseteq P
  <2> HIDE DEF P
  <2> QED
    BY <1>1, <1>2, ListInd
<1> QED
  BY <1>3

LEMMA NamedAppend ==
    ASSUME NEW X, NEW names, NEW s \in Seq(X), NEW x \in X
    PROVE  /\ Named(Append(s, x), names) =
                IF x.name \in names THEN Append(Named(s, names), x) ELSE Named(s, names)
           /\ Unnamed(Append(s, x), names) =
                IF x.name \notin names THEN Append(Unnamed(s, names), x) ELSE Unnamed(s, names)
<1> DEFINE R == Range(Append(s, x))
           N(q) == {y \in q : y.name \in names}
           U(q) == {y \in q : y.name \notin names}
<1>1. R = Range(s) \cup {x}
  BY AppendRange
<1> HIDE DEF R
<1>2. Filter(s, N(R)) = Filter(s, N(Range(s))) /\ Filter(s, U(R)) = Filter(s, U(Range(s)))
  <2>1. Range(s) \cap N(R) = Range(s) \cap N(Range(s)) /\ Range(s) \cap U(R) = Range(s) \cap U(Range(s))
    BY <1>1
  <2> HIDE DEF N, U
  <2> QED
    BY <2>1, FilterSame
<1>3. x \in N(R) <=> x.name \in names
  BY <1>1
<1>4. x \in U(R) <=> x.name \notin names
  BY <1>1
<1>5. /\ Filter(Append(s, x), N(R)) = IF x \in N(R) THEN Append(Filter(s, N(R)), x) ELSE Filter(s, N(R))
      /\ Filter(Append(s, x), U(R)) = IF x \in U(R) THEN Append(Filter(s, U(R)), x) ELSE Filter(s, U(R))
  <2> HIDE DEF N, U
  <2> QED
    BY FilterAppend
<1>6. /\ Named(Append(s, x), names) = Filter(Append(s, x), N(R)) /\ Named(s, names) = Filter(s, N(Range(s)))
      /\ Unnamed(Append(s, x), names) = Filter(Append(s, x), U(R)) /\ Unnamed(s, names) = Filter(s, U(Range(s)))
  BY DEF Named, Unnamed, R
<1> HIDE DEF N, U
<1> QED
  BY <1>2, <1>3, <1>4, <1>5, <1>6

LEMMA NamedEmpty == \A names : Named(<<>>, names) = <<>> /\ Unnamed(<<>>, names) = <<>>
BY FilterEmpty DEF Named, Unnamed

\* Leaving lines out.
LEMMA UnnamedRange ==
    ASSUME NEW X, NEW names, NEW s \in Seq(X)
    PROVE  /\ Unnamed(s, names) \in Seq(X)
           /\ Range(Unnamed(s, names)) = {y \in Range(s) : y.name \notin names}
<1> DEFINE S == {y \in Range(s) : y.name \notin names}
<1>1. Filter(s, S) \in Seq(X) /\ Range(Filter(s, S)) = Range(s) \cap S
  <2> HIDE DEF S
  <2> QED
    BY FilterRange
<1> QED
  BY <1>1 DEF Unnamed

LEMMA UnnamedTwice ==
    ASSUME NEW X, NEW A, NEW B, NEW s \in Seq(X)
    PROVE  Unnamed(Unnamed(s, A), B) = Unnamed(s, A \cup B)
<1> DEFINE k == Unnamed(s, A)
           S == {y \in Range(s) : y.name \notin A}
           T == {y \in Range(k) : y.name \notin B}
<1>1. Range(k) = S
  BY UnnamedRange
<1>2. S \cap T = {y \in Range(s) : y.name \notin A \cup B}
  BY <1>1
<1>3. Filter(Filter(s, S), T) = Filter(s, S \cap T)
  <2> HIDE DEF S, T
  <2> QED
    BY FilterTwice
<1>4. k = Filter(s, S) /\ Unnamed(k, B) = Filter(k, T)
  BY DEF Unnamed
<1>5. Unnamed(s, A \cup B) = Filter(s, S \cap T)
  BY <1>2 DEF Unnamed
<1> HIDE DEF k, S, T
<1>6. Unnamed(Unnamed(s, A), B) = Unnamed(k, B)
  BY DEF k
<1> QED
  BY <1>3, <1>4, <1>5, <1>6

-----------------------------------------------------------------------------
(* The chains of a table.                                                 *)

\* The constants: finitely many threads and records, a Null that is none of
\* what it is compared with, and prime numbers for as many buckets as there may be.
Assumptions ==
    /\ IsFiniteSet(Threads) /\ IsFiniteSet(Records)
    /\ Null \notin Records \cup {"none", "exists", "ok"}
    /\ Null \notin [op : {"find"}, key : Keys] \cup [op : {"insert"}, record : Records]
    /\ \A r \in Records : HashOf(r) \in Nat
    /\ \A n \in 1 .. Cardinality(Records) + 1 : GetPrime[2 * n] \in Nat \ {0}

\* A chain as it should be: in the order of the hashes, one node for a key.
InHashOrder(c) == \A i, j \in 1 .. Len(c) : i < j => HashOf(c[i]) <= HashOf(c[j])
OneKeyEach(c) == \A i, j \in 1 .. Len(c) : KeyOf[c[i]] = KeyOf[c[j]] => i = j
Proper(c) == c \in Seq(Records) /\ InHashOrder(c) /\ OneKeyEach(c)

\* The nodes of a chain up to x, and x itself, are not of the key; no greater
\* hash than the key's is among them.
Walked(c, x, k) ==
    x = Null \/ \E i \in 1 .. Len(c) : /\ c[i] = x /\ HashOf(x) <= Hash[k]
                                       /\ \A j \in 1 .. i : KeyOf[c[j]] # k

\* Two lists one after the other.
LEMMA Joined ==
    ASSUME NEW X, NEW s \in Seq(X), NEW t \in Seq(X)
    PROVE  /\ s \o t \in Seq(X) /\ Len(s \o t) = Len(s) + Len(t)
           /\ \A i \in 1 .. Len(s) : (s \o t)[i] = s[i]
           /\ \A i \in 1 .. Len(t) : (s \o t)[Len(s) + i] = t[i]
           /\ \A i \in Len(s) + 1 .. Len(s) + Len(t) : (s \o t)[i] = t[i - Len(s)]
<1>1. s \o t \in Seq(X) /\ Len(s \o t) = Len(s) + Len(t)
  OBVIOUS
<1>2. \A i \in 1 .. Len(s) : (s \o t)[i] = s[i]
  OBVIOUS
<1>3. \A i \in 1 .. Len(t) : (s \o t)[Len(s) + i] = t[i]
  OBVIOUS
<1>4. \A i \in Len(s) + 1 .. Len(s) + Len(t) : (s \o t)[i] = t[i - Len(s)]
  <2> SUFFICES ASSUME NEW i \in Len(s) + 1 .. Len(s) + Len(t) PROVE (s \o t)[i] = t[i - Len(s)]
    OBVIOUS
  <2>1. i - Len(s) \in 1 .. Len(t) /\ Len(s) + (i - Len(s)) = i
    OBVIOUS
  <2> QED
    BY <1>3, <2>1
<1> QED
  BY <1>1, <1>2, <1>3, <1>4

LEMMA PlaceOf ==
    ASSUME Assumptions, NEW c, Proper(c), NEW i \in 1 .. Len(c)
    PROVE  Place(c, c[i]) = i /\ c[i] \in Records /\ c[i] # Null
<1>1. \A j \in 1 .. Len(c) : c[j] = c[i] => j = i
  BY DEF Proper, OneKeyEach
<1>2. c[i] \in Records /\ c[i] # Null
  BY DEF Proper, Assumptions
<1> QED
  BY <1>1, <1>2 DEF Place

\* Where a search has walked, what is next, and what that says.
LEMMA NextNode ==
    ASSUME Assumptions, NEW c, Proper(c), NEW k, Hash[k] \in Nat, NEW x, Walked(c, x, k)
    PROVE  LET n == After(c, x) IN
           /\ n # Null => n \in Range(c)
           /\ n = Null \/ HashOf(n) > Hash[k] => \A y \in Range(c) : KeyOf[y] # k
           /\ n # Null /\ KeyOf[n] # k /\ HashOf(n) <= Hash[k] => Walked(c, n, k)
<1> DEFINE p == Place(c, x)
<1>1. p \in 0 .. Len(c) /\ \A j \in 1 .. p : KeyOf[c[j]] # k
  <2>1. CASE x = Null
    BY <2>1 DEF Place, Proper
  <2>2. CASE x # Null
    <3>1. PICK i \in 1 .. Len(c) : c[i] = x /\ \A j \in 1 .. i : KeyOf[c[j]] # k
      BY <2>2 DEF Walked
    <3>2. p = i
      BY <3>1, PlaceOf
    <3> QED
      BY <3>1, <3>2
  <2> QED
    BY <2>1, <2>2
<1>2. After(c, x) = IF p = Len(c) THEN Null ELSE c[p + 1]
  BY DEF After
<1> HIDE DEF p
<1>3. Len(c) \in Nat /\ c \in Seq(Records) /\ DOMAIN c = 1 .. Len(c)
      /\ \A y \in Range(c) : \E j \in 1 .. Len(c) : y = c[j]
  BY DEF Proper, Range
<1>4. CASE p = Len(c)
  BY <1>1, <1>2, <1>3, <1>4
<1>5. CASE p # Len(c)
  <2> DEFINE n == c[p + 1]
  <2>1. p + 1 \in 1 .. Len(c) /\ After(c, x) = n /\ n \in Records /\ n # Null /\ n \in Range(c)
    <3>1. p + 1 \in 1 .. Len(c) /\ After(c, x) = n
      <4>1. p \in 0 .. Len(c)
        BY <1>1
      <4>2. Len(c) \in Nat
        BY <1>3
      <4>3. p + 1 \in 1 .. Len(c)
        BY <1>5, <4>1, <4>2
      <4> QED
        BY <1>2, <1>5, <4>3
    <3>2. n \in Records /\ n # Null
      BY <1>3, <3>1 DEF Assumptions
    <3> QED
      BY <1>3, <3>1, <3>2 DEF Range
  <2>2. ASSUME HashOf(n) > Hash[k], NEW j \in 1 .. Len(c)  PROVE KeyOf[c[j]] # k
    <3>1. CASE j <= p
      BY <1>1, <1>3, <3>1
    <3>2. CASE j > p
      <4>1. HashOf(n) <= HashOf(c[j]) /\ HashOf(n) \in Nat /\ HashOf(c[j]) \in Nat
        <5>1. j = p + 1 \/ p + 1 < j
          BY <1>1, <3>2
        <5>2. c[j] \in Records
          BY <1>3
        <5> QED
          BY <2>1, <5>1, <5>2 DEF Proper, InHashOrder, Assumptions
      <4> QED
        BY <2>2, <4>1 DEF HashOf
    <3> QED
      BY <1>1, <1>3, <3>1, <3>2
  <2>3. ASSUME KeyOf[n] # k, HashOf(n) <= Hash[k]  PROVE Walked(c, n, k)
    <3>1. \A j \in 1 .. p + 1 : KeyOf[c[j]] # k
      BY <1>1, <2>3
    <3> QED
      BY <2>1, <2>3, <3>1 DEF Walked
  <2> QED
    BY <1>3, <2>1, <2>2, <2>3
<1> QED
  BY <1>4, <1>5

\* A new node goes behind all of no greater hash.
LEMMA Inserted ==
    ASSUME Assumptions, NEW c, Proper(c), NEW r \in Records, NEW p \in 1 .. Len(c) + 1,
           \A i \in 1 .. Len(c) : KeyOf[c[i]] # KeyOf[r],
           \A i \in 1 .. Len(c) : IF i < p THEN HashOf(c[i]) <= HashOf(r) ELSE HashOf(c[i]) > HashOf(r)
    PROVE  LET d == InsertAt(c, p, r) IN
           /\ Proper(d) /\ Range(d) = Range(c) \cup {r}
           /\ \A k, y : Walked(c, y, k) /\ Hash[k] \in Nat => Walked(d, y, k)
<1> DEFINE d == InsertAt(c, p, r)
<1>1. c \in Seq(Records) /\ Len(c) \in Nat /\ DOMAIN c = 1 .. Len(c)
  BY DEF Proper
<1>2. /\ d \in Seq(Records) /\ Len(d) = Len(c) + 1 /\ DOMAIN d = 1 .. Len(c) + 1
      /\ \A i \in 1 .. Len(c) + 1 : d[i] = IF i < p THEN c[i] ELSE IF i = p THEN r ELSE c[i - 1]
  <2>1. SubSeq(c, 1, p - 1) \in Seq(Records) /\ Len(SubSeq(c, 1, p - 1)) = p - 1
        /\ \A i \in 1 .. p - 1 : SubSeq(c, 1, p - 1)[i] = c[i]
    BY <1>1
  <2>2. SubSeq(c, p, Len(c)) \in Seq(Records) /\ Len(SubSeq(c, p, Len(c))) = Len(c) - p + 1
        /\ \A i \in 1 .. Len(c) - p + 1 : SubSeq(c, p, Len(c))[i] = c[p + i - 1]
    BY <1>1
  <2> DEFINE a == SubSeq(c, 1, p - 1)
             b == SubSeq(c, p, Len(c))
  <2>3. d = a \o <<r>> \o b
    BY DEF InsertAt
  <2> HIDE DEF a, b
  <2> DEFINE e == a \o <<r>>
  <2>4. e \in Seq(Records) /\ Len(e) = p /\ (\A i \in 1 .. p - 1 : e[i] = a[i]) /\ e[p] = r
    BY <2>1 DEF a
  <2>5. d = e \o b
    BY <2>3
  <2> HIDE DEF e, d
  <2>7. /\ d \in Seq(Records) /\ Len(d) = Len(c) + 1 /\ \A i \in 1 .. p : d[i] = e[i]
        /\ \A i \in p + 1 .. Len(c) + 1 : d[i] = b[i - p]
    <3>1. b \in Seq(Records) /\ Len(b) = Len(c) - p + 1
      BY <2>2 DEF b
    <3>2. d \in Seq(Records) /\ Len(d) = p + Len(b)
      <4>1. e \in Seq(Records) /\ b \in Seq(Records) /\ Len(e) = p
        BY <2>4, <3>1
      <4>2. e \o b \in Seq(Records) /\ Len(e \o b) = Len(e) + Len(b)
        BY <4>1, Joined
      <4> QED
        BY <2>5, <4>1, <4>2
    <3>3. \A i \in 1 .. p : d[i] = e[i]
      BY <2>4, <2>5, <3>1, Joined
    <3>4. ASSUME NEW i \in p + 1 .. p + Len(b)  PROVE d[i] = b[i - p]
      <4>1. i \in 1 .. Len(e) + Len(b) /\ ~(i <= Len(e)) /\ i - Len(e) = i - p
        BY <2>4, <3>1
      <4>2. i \in Len(e) + 1 .. Len(e) + Len(b)
        BY <2>4, <3>1
      <4>3. (e \o b)[i] = b[i - Len(e)]
        BY <2>4, <3>1, <4>2, Joined
      <4> QED
        BY <2>5, <4>1, <4>3
    <3> QED
      BY <1>1, <3>1, <3>2, <3>3, <3>4
  <2>6. ASSUME NEW i \in 1 .. Len(c) + 1
        PROVE  d[i] = IF i < p THEN c[i] ELSE IF i = p THEN r ELSE c[i - 1]
    <3>2. CASE i < p
      <4>1. i \in 1 .. p /\ i \in 1 .. p - 1
        BY <3>2
      <4> QED
        BY <2>1, <2>4, <2>7, <3>2, <4>1 DEF a
    <3>3. CASE i = p
      BY <2>4, <2>7, <3>3
    <3>4. CASE i > p
      <4>1. i - p \in 1 .. Len(c) - p + 1 /\ p + (i - p) - 1 = i - 1 /\ i \in p + 1 .. Len(c) + 1
        BY <1>1, <3>4
      <4> QED
        BY <1>1, <2>2, <2>7, <3>4, <4>1 DEF b
    <3> QED
      BY <1>1, <3>2, <3>3, <3>4
  <2> QED
    BY <1>1, <2>6, <2>7
<1> HIDE DEF d
<1>3. \A y \in Records : HashOf(y) \in Nat
  BY DEF Assumptions
<1>4. InHashOrder(d)
  <2> SUFFICES ASSUME NEW i \in 1 .. Len(d), NEW j \in 1 .. Len(d), i < j
               PROVE  HashOf(d[i]) <= HashOf(d[j])
    BY DEF InHashOrder
  <2>1. d[i] \in Records /\ d[j] \in Records
    BY <1>2
  <2>2. InHashOrder(c)
    BY DEF Proper
  <2>3. CASE i = p
    <3>1. d[i] = r /\ d[j] = c[j - 1] /\ j - 1 \in 1 .. Len(c) /\ ~(j - 1 < p)
      BY <1>1, <1>2, <2>3
    <3> QED
      BY <1>3, <2>1, <3>1
  <2>4. CASE j = p
    <3>1. d[j] = r /\ d[i] = c[i] /\ i \in 1 .. Len(c) /\ i < p
      BY <1>1, <1>2, <2>4
    <3> QED
      BY <1>3, <2>1, <3>1
  <2>5. CASE i # p /\ j # p
    <3>1. PICK m \in 1 .. Len(c), n \in 1 .. Len(c) : m < n /\ d[i] = c[m] /\ d[j] = c[n]
      <4> DEFINE m == IF i < p THEN i ELSE i - 1
                 n == IF j < p THEN j ELSE j - 1
      <4>1. m \in 1 .. Len(c) /\ n \in 1 .. Len(c) /\ m < n
        BY <1>1, <1>2, <2>5
      <4>2. d[i] = c[m] /\ d[j] = c[n]
        BY <1>1, <1>2, <2>5
      <4> QED
        BY <4>1, <4>2
    <3> QED
      BY <2>2, <3>1 DEF InHashOrder
  <2> QED
    BY <2>3, <2>4, <2>5
<1>5. OneKeyEach(d)
  <2> SUFFICES ASSUME NEW i \in 1 .. Len(d), NEW j \in 1 .. Len(d), KeyOf[d[i]] = KeyOf[d[j]]
               PROVE  i = j
    BY DEF OneKeyEach
  <2> DEFINE m == IF i < p THEN i ELSE i - 1
             n == IF j < p THEN j ELSE j - 1
  <2>1. /\ i # p => m \in 1 .. Len(c) /\ d[i] = c[m]
        /\ j # p => n \in 1 .. Len(c) /\ d[j] = c[n]
        /\ i = p => d[i] = r
        /\ j = p => d[j] = r
    BY <1>1, <1>2
  <2>2. i # p /\ j # p => m = n
    BY <2>1 DEF Proper, OneKeyEach
  <2> QED
    BY <1>1, <1>2, <2>1, <2>2
<1>6. Range(d) = Range(c) \cup {r}
  <2>0. Range(d) = {d[i] : i \in 1 .. Len(c) + 1} /\ Range(c) = {c[i] : i \in 1 .. Len(c)}
    BY <1>1, <1>2 DEF Range
  <2>1. ASSUME NEW i \in 1 .. Len(c)  PROVE c[i] \in Range(d)
    <3>1. i < p => i \in 1 .. Len(c) + 1 /\ d[i] = c[i]
      BY <1>1, <1>2
    <3>2. ~(i < p) => i + 1 \in 1 .. Len(c) + 1 /\ d[i + 1] = c[i]
      BY <1>1, <1>2
    <3> QED
      BY <2>0, <3>1, <3>2
  <2>2. r \in Range(d)
    BY <1>1, <1>2 DEF Range
  <2>3. ASSUME NEW i \in 1 .. Len(c) + 1  PROVE d[i] \in Range(c) \cup {r}
    <3>1. i < p => i \in 1 .. Len(c) /\ d[i] = c[i]
      BY <1>1, <1>2
    <3>2. i > p => i - 1 \in 1 .. Len(c) /\ d[i] = c[i - 1]
      BY <1>1, <1>2
    <3>3. i = p => d[i] = r
      BY <1>2
    <3>4. i < p \/ i > p \/ i = p
      BY <1>1
    <3> QED
      BY <2>0, <3>1, <3>2, <3>3, <3>4
  <2> QED
    BY <2>0, <2>1, <2>2, <2>3
<1>7. ASSUME NEW k, NEW y, Walked(c, y, k), Hash[k] \in Nat, y # Null  PROVE Walked(d, y, k)
  <2>1. PICK i \in 1 .. Len(c) : c[i] = y /\ HashOf(y) <= Hash[k] /\ \A j \in 1 .. i : KeyOf[c[j]] # k
    BY <1>7 DEF Walked
  <2>2. CASE i < p
    <3>1. i \in 1 .. Len(d) /\ \A j \in 1 .. i : d[j] = c[j]
      BY <1>1, <1>2, <2>2
    <3> QED
      BY <2>1, <3>1 DEF Walked
  <2>3. CASE i >= p
    <3>1. KeyOf[r] # k
      <4>1. HashOf(c[i]) > HashOf(r) /\ c[i] \in Records
        BY <1>1, <2>3
      <4> QED
        BY <1>3, <1>7, <2>1, <4>1 DEF HashOf
    <3>2. i + 1 \in 1 .. Len(d) /\ d[i + 1] = y
      BY <1>1, <1>2, <2>1, <2>3
    <3>3. ASSUME NEW j \in 1 .. i + 1  PROVE KeyOf[d[j]] # k
      <4>1. j < p => j \in 1 .. i /\ d[j] = c[j]
        BY <1>1, <1>2, <2>3
      <4>2. j > p => j - 1 \in 1 .. i /\ d[j] = c[j - 1]
        BY <1>1, <1>2, <2>3
      <4>3. j = p => d[j] = r
        BY <1>1, <1>2
      <4> QED
        BY <2>1, <3>1, <4>1, <4>2, <4>3
    <3> QED
      BY <2>1, <3>2, <3>3 DEF Walked
  <2> QED
    BY <1>1, <2>2, <2>3
<1>8. \A k : Walked(d, Null, k)
  BY DEF Walked
<1> QED
  BY <1>2, <1>4, <1>5, <1>6, <1>7, <1>8 DEF d, Proper

LEMMA MinOf ==
    ASSUME NEW S, S \subseteq Nat, S # {}
    PROVE  Min(S) \in S /\ \A y \in S : Min(S) <= y
<1>1. \E x \in S : \A y \in S : x <= y
  BY NatMin
<1> QED
  BY <1>1 DEF Min

\* Growing: a node goes in order into the chain of its new bucket.
LEMMA Ordered ==
    ASSUME Assumptions, NEW c \in Seq(Records), NEW r \in Records
    PROVE  /\ InOrder(c, r) \in Seq(Records)
           /\ Proper(c) /\ (\A y \in Range(c) : KeyOf[y] # KeyOf[r]) =>
                  Proper(InOrder(c, r)) /\ Range(InOrder(c, r)) = Range(c) \cup {r}
<1> DEFINE S == {i \in 1 .. Len(c) + 1 : i <= Len(c) => HashOf(c[i]) > HashOf(r)}
           p == Min(S)
<1>1. Len(c) \in Nat /\ Len(c) + 1 \in S /\ S \subseteq Nat /\ S \subseteq 1 .. Len(c) + 1
  OBVIOUS
<1> HIDE DEF S
<1>2. p \in S /\ \A y \in S : p <= y
  BY <1>1, MinOf
<1>3. InOrder(c, r) = InsertAt(c, p, r)
  BY DEF InOrder, S
<1> HIDE DEF p
<1>4. p \in 1 .. Len(c) + 1
  BY <1>1, <1>2
<1>5. InsertAt(c, p, r) \in Seq(Records)
  <2>1. SubSeq(c, 1, p - 1) \in Seq(Records) /\ SubSeq(c, p, Len(c)) \in Seq(Records)
        /\ <<r>> \in Seq(Records)
    BY <1>1, <1>4
  <2> QED
    BY <2>1 DEF InsertAt
<1>6. ASSUME Proper(c), \A y \in Range(c) : KeyOf[y] # KeyOf[r]
      PROVE  Proper(InOrder(c, r)) /\ Range(InOrder(c, r)) = Range(c) \cup {r}
  <2>1. \A i \in 1 .. Len(c) : KeyOf[c[i]] # KeyOf[r]
    BY <1>6 DEF Range
  <2>2. ASSUME NEW i \in 1 .. Len(c)
        PROVE  IF i < p THEN HashOf(c[i]) <= HashOf(r) ELSE HashOf(c[i]) > HashOf(r)
    <3>1. HashOf(c[i]) \in Nat /\ HashOf(r) \in Nat
      BY DEF Assumptions
    <3>2. CASE i < p
      <4>1. i \notin S
        BY <1>1, <1>2, <1>4, <3>2
      <4> QED
        BY <1>1, <3>1, <3>2, <4>1 DEF S
    <3>3. CASE ~(i < p)
      <4>1. p \in 1 .. Len(c) /\ HashOf(c[p]) > HashOf(r)
        BY <1>1, <1>2, <1>4, <3>3 DEF S
      <4>2. HashOf(c[p]) <= HashOf(c[i])
        <5>1. i = p \/ p < i
          BY <1>4, <3>3
        <5>2. HashOf(c[p]) = HashOf(c[p]) /\ HashOf(c[p]) \in Nat
          BY <4>1 DEF Assumptions
        <5> QED
          BY <1>6, <4>1, <5>1, <5>2 DEF Proper, InHashOrder
      <4>3. HashOf(c[p]) \in Nat
        BY <4>1 DEF Assumptions
      <4> QED
        BY <3>1, <3>3, <4>1, <4>2, <4>3
    <3> QED
      BY <3>2, <3>3
  <2> QED
    BY <1>3, <1>4, <1>6, <2>1, <2>2, Inserted
<1> QED
  BY <1>3, <1>5, <1>6

LEMMA ProperAppend ==
    ASSUME Assumptions, NEW c \in Seq(Records), NEW x \in Records
    PROVE  Proper(Append(c, x)) <=> /\ Proper(c)
                                    /\ \A y \in Range(c) : HashOf(y) <= HashOf(x) /\ KeyOf[y] # KeyOf[x]
<1> DEFINE d == Append(c, x)
<1>1. /\ d \in Seq(Records) /\ Len(d) = Len(c) + 1 /\ Len(c) \in Nat
      /\ d[Len(c) + 1] = x /\ \A i \in 1 .. Len(c) : d[i] = c[i]
  OBVIOUS
<1>2. Range(c) = {c[i] : i \in 1 .. Len(c)}
  BY DEF Range
<1> HIDE DEF d
<1>3. ASSUME Proper(d)
      PROVE  Proper(c) /\ \A y \in Range(c) : HashOf(y) <= HashOf(x) /\ KeyOf[y] # KeyOf[x]
  <2>1. Proper(c)
    <3>1. \A i, j \in 1 .. Len(c) : i < j => HashOf(c[i]) <= HashOf(c[j])
      BY <1>1, <1>3 DEF Proper, InHashOrder
    <3>2. \A i, j \in 1 .. Len(c) : KeyOf[c[i]] = KeyOf[c[j]] => i = j
      BY <1>1, <1>3 DEF Proper, OneKeyEach
    <3> QED
      BY <3>1, <3>2 DEF Proper, InHashOrder, OneKeyEach
  <2>2. ASSUME NEW i \in 1 .. Len(c)  PROVE HashOf(c[i]) <= HashOf(x) /\ KeyOf[c[i]] # KeyOf[x]
    <3>1. i \in 1 .. Len(d) /\ Len(c) + 1 \in 1 .. Len(d) /\ i < Len(c) + 1 /\ i # Len(c) + 1
      BY <1>1
    <3>2. HashOf(d[i]) <= HashOf(d[Len(c) + 1]) /\ KeyOf[d[i]] # KeyOf[d[Len(c) + 1]]
      BY <1>3, <3>1 DEF Proper, InHashOrder, OneKeyEach
    <3> QED
      BY <1>1, <3>2
  <2> QED
    BY <1>2, <2>1, <2>2
<1>4. ASSUME Proper(c), \A y \in Range(c) : HashOf(y) <= HashOf(x) /\ KeyOf[y] # KeyOf[x]
      PROVE  Proper(d)
  <2>1. \A i \in 1 .. Len(c) : HashOf(c[i]) <= HashOf(x) /\ KeyOf[c[i]] # KeyOf[x]
    BY <1>2, <1>4
  <2>2. ASSUME NEW i \in 1 .. Len(d)
        PROVE  (i \in 1 .. Len(c) /\ d[i] = c[i]) \/ (i = Len(c) + 1 /\ d[i] = x)
    <3>1. i \in 1 .. Len(c) \/ i = Len(c) + 1
      BY <1>1
    <3> QED
      BY <1>1, <3>1
  <2>3. InHashOrder(d)
    <3> SUFFICES ASSUME NEW i \in 1 .. Len(d), NEW j \in 1 .. Len(d), i < j
                 PROVE  HashOf(d[i]) <= HashOf(d[j])
      BY DEF InHashOrder
    <3>1. i \in 1 .. Len(c) /\ d[i] = c[i]
      BY <1>1
    <3> QED
      BY <1>4, <2>1, <2>2, <3>1 DEF Proper, InHashOrder
  <2>4. OneKeyEach(d)
    BY <1>4, <2>1, <2>2 DEF Proper, OneKeyEach
  <2> QED
    BY <1>1, <2>3, <2>4 DEF Proper
<1> QED
  BY <1>3, <1>4 DEF d

\* What deletions leave of a chain.
LEMMA FilterProper ==
    ASSUME Assumptions, NEW S
    PROVE  \A c \in Seq(Records) : Proper(c) => Proper(Filter(c, S))
<1> DEFINE P == {c \in Seq(Records) : Proper(c) => Proper(Filter(c, S))}
<1>1. <<>> \in P
  <2>1. Filter(<<>>, S) = <<>> /\ <<>> \in Seq(Records)
    BY FilterEmpty
  <2> QED
    BY <2>1
<1>2. ASSUME NEW c \in Seq(Records), NEW x \in Records, c \in P  PROVE Append(c, x) \in P
  <2> SUFFICES ASSUME Proper(Append(c, x))  PROVE Proper(Filter(Append(c, x), S))
    OBVIOUS
  <2>1. Proper(c) /\ \A y \in Range(c) : HashOf(y) <= HashOf(x) /\ KeyOf[y] # KeyOf[x]
    BY ProperAppend
  <2>2. Proper(Filter(c, S)) /\ Filter(c, S) \in Seq(Records) /\ Range(Filter(c, S)) \subseteq Range(c)
    BY <1>2, <2>1, FilterRange
  <2>3. Filter(Append(c, x), S) = IF x \in S THEN Append(Filter(c, S), x) ELSE Filter(c, S)
    BY FilterAppend
  <2>4. Proper(Append(Filter(c, S), x))
    BY <2>1, <2>2, ProperAppend
  <2> QED
    BY <2>2, <2>3, <2>4
<1> HIDE DEF P
<1>3. Seq(Records) \subseteq P
  BY <1>1, <1>2, ListInd
<1> QED
  BY <1>3 DEF P

\* A function may be defined step by step on 0 .. m.
Steps(f, D, m, base, fn) ==
    f \in [0 .. m -> D] /\ f[0] = base /\ \A i \in 1 .. m : f[i] = fn[<<i, f[i - 1]>>]

LEMMA Stepwise ==
    ASSUME NEW D, NEW m \in Nat, NEW base \in D, NEW fn \in [(1 .. m) \X D -> D]
    PROVE  \E f : Steps(f, D, m, base, fn)
<1> DEFINE P == {n \in Nat : n <= m => \E f : Steps(f, D, n, base, fn)}
<1>1. 0 \in P
  <2>1. [i \in 0 .. 0 |-> base] \in [0 .. 0 -> D] /\ [i \in 0 .. 0 |-> base][0] = base
        /\ \A i \in 1 .. 0 : FALSE
    OBVIOUS
  <2> QED
    BY <2>1 DEF Steps
<1>2. ASSUME NEW n \in Nat, n \in P  PROVE n + 1 \in P
  <2> SUFFICES ASSUME n + 1 <= m
               PROVE  \E f : Steps(f, D, n + 1, base, fn)
    OBVIOUS
  <2>1. PICK f \in [0 .. n -> D] : f[0] = base /\ \A i \in 1 .. n : f[i] = fn[<<i, f[i - 1]>>]
    BY <1>2 DEF Steps
  <2>2. <<n + 1, f[n]>> \in (1 .. m) \X D
    OBVIOUS
  <2> DEFINE last == fn[<<n + 1, f[n]>>]
             g == [i \in 0 .. n + 1 |-> IF i = n + 1 THEN last ELSE f[i]]
  <2>3. last \in D
    BY <2>2
  <2> HIDE DEF last
  <2>4. g \in [0 .. n + 1 -> D] /\ g[0] = base /\ g[n + 1] = last /\ \A i \in 0 .. n : g[i] = f[i]
    BY <2>1, <2>3
  <2> HIDE DEF g
  <2>5. ASSUME NEW i \in 1 .. n + 1  PROVE g[i] = fn[<<i, g[i - 1]>>]
    <3>1. CASE i = n + 1
      <4>1. n \in 0 .. n /\ i - 1 = n
        BY <3>1
      <4> QED
        BY <2>4, <3>1, <4>1 DEF last
    <3>2. CASE i # n + 1
      <4>1. i \in 1 .. n /\ i - 1 \in 0 .. n /\ i \in 0 .. n
        BY <3>2
      <4> QED
        BY <2>1, <2>4, <4>1
    <3> QED
      BY <3>1, <3>2
  <2> QED
    BY <2>4, <2>5 DEF Steps
<1> HIDE DEF P
<1>3. Nat \subseteq P
  BY <1>1, <1>2, NatInd
<1>4. m \in P /\ m <= m
  BY <1>3
<1> QED
  BY <1>4 DEF P

\* The table as it should be: every node in the bucket of its hash.
Buckets ==
    /\ nBuckets \in 1 .. Cardinality(Records) + 1
    /\ DOMAIN chains = 0 .. nBuckets - 1
    /\ \A b \in 0 .. nBuckets - 1 : /\ Proper(chains[b])
                                    /\ \A y \in Range(chains[b]) : HashOf(y) % nBuckets = b

\* One chain behind another, of other keys.
LEMMA JoinedChains ==
    ASSUME NEW s \in Seq(Records), NEW t \in Seq(Records), OneKeyEach(s), OneKeyEach(t),
           \A x \in Range(s), y \in Range(t) : KeyOf[x] # KeyOf[y]
    PROVE  s \o t \in Seq(Records) /\ OneKeyEach(s \o t) /\ Range(s \o t) = Range(s) \cup Range(t)
<1> DEFINE d == s \o t
<1>1. /\ d \in Seq(Records) /\ Len(d) = Len(s) + Len(t) /\ Len(s) \in Nat /\ Len(t) \in Nat
      /\ \A i \in 1 .. Len(s) : d[i] = s[i]
      /\ \A i \in 1 .. Len(t) : d[Len(s) + i] = t[i]
  BY Joined
<1>2. Range(s) = {s[i] : i \in 1 .. Len(s)} /\ Range(t) = {t[i] : i \in 1 .. Len(t)}
  BY DEF Range
<1>3. Range(d) = {d[i] : i \in 1 .. Len(d)}
  BY <1>1 DEF Range
<1> HIDE DEF d
<1>4. ASSUME NEW i \in 1 .. Len(d)
      PROVE  \/ i \in 1 .. Len(s) /\ d[i] = s[i]
             \/ i - Len(s) \in 1 .. Len(t) /\ d[i] = t[i - Len(s)]
  <2>1. CASE i <= Len(s)
    BY <1>1, <2>1
  <2>2. CASE i > Len(s)
    <3>1. i - Len(s) \in 1 .. Len(t) /\ Len(s) + (i - Len(s)) = i
      BY <1>1, <2>2
    <3> QED
      BY <1>1, <3>1
  <2> QED
    BY <1>1, <2>1, <2>2
<1>5. Range(d) = Range(s) \cup Range(t)
  <2>1. \A i \in 1 .. Len(s) : i \in 1 .. Len(d)
    BY <1>1
  <2>2. \A i \in 1 .. Len(t) : Len(s) + i \in 1 .. Len(d)
    BY <1>1
  <2>3. Range(s) \subseteq Range(d)
    BY <1>1, <1>2, <1>3, <2>1
  <2>4. Range(t) \subseteq Range(d)
    BY <1>1, <1>2, <1>3, <2>2
  <2>5. Range(d) \subseteq Range(s) \cup Range(t)
    BY <1>2, <1>3, <1>4
  <2> QED
    BY <2>3, <2>4, <2>5
<1>6. OneKeyEach(d)
  <2> SUFFICES ASSUME NEW i \in 1 .. Len(d), NEW j \in 1 .. Len(d), KeyOf[d[i]] = KeyOf[d[j]]
               PROVE  i = j
    BY DEF OneKeyEach
  <2>1. CASE i \in 1 .. Len(s) /\ d[i] = s[i] /\ j \in 1 .. Len(s) /\ d[j] = s[j]
    BY <2>1 DEF OneKeyEach
  <2>2. CASE /\ i - Len(s) \in 1 .. Len(t) /\ d[i] = t[i - Len(s)]
             /\ j - Len(s) \in 1 .. Len(t) /\ d[j] = t[j - Len(s)]
    <3>1. i - Len(s) = j - Len(s)
      BY <2>2 DEF OneKeyEach
    <3> QED
      BY <1>1, <3>1
  <2>3. CASE i \in 1 .. Len(s) /\ d[i] = s[i] /\ j - Len(s) \in 1 .. Len(t) /\ d[j] = t[j - Len(s)]
    <3>1. d[i] \in Range(s) /\ d[j] \in Range(t)
      BY <1>2, <2>3
    <3> QED
      BY <3>1
  <2>4. CASE j \in 1 .. Len(s) /\ d[j] = s[j] /\ i - Len(s) \in 1 .. Len(t) /\ d[i] = t[i - Len(s)]
    <3>1. d[j] \in Range(s) /\ d[i] \in Range(t)
      BY <1>2, <2>4
    <3> QED
      BY <3>1
  <2> QED
    BY <1>4, <2>1, <2>2, <2>3, <2>4
<1> QED
  BY <1>1, <1>5, <1>6 DEF d

\* Records of one key have one hash and so one bucket.
LEMMA SameBucket ==
    ASSUME Buckets, NEW b \in 0 .. nBuckets - 1, NEW c \in 0 .. nBuckets - 1,
           NEW x \in Range(chains[b]), NEW y \in Range(chains[c]), KeyOf[x] = KeyOf[y]
    PROVE  b = c
BY DEF Buckets, HashOf

\* The nodes of all chains, one chain after the other.
LEMMA AllNodes ==
    ASSUME Buckets
    PROVE  Nodes \in Seq(Records) /\ OneKeyEach(Nodes) /\ Range(Nodes) = Linked
<1> DEFINE n == nBuckets
           D == Seq(Records)
           Equation(g) == g = [b \in 0 .. n |-> IF b = 0 THEN <<>> ELSE g[b - 1] \o chains[b - 1]]
           fn == [x \in (1 .. n) \X D |-> x[2] \o chains[x[1] - 1]]
<1>1. n \in Nat /\ n >= 1 /\ DOMAIN chains = 0 .. n - 1
      /\ \A b \in 1 .. n : b - 1 \in 0 .. n - 1 /\ chains[b - 1] \in D
  <2>1. n \in Nat /\ n >= 1 /\ DOMAIN chains = 0 .. n - 1
    BY DEF Buckets
  <2>2. ASSUME NEW b \in 1 .. n  PROVE b - 1 \in 0 .. n - 1 /\ chains[b - 1] \in D
    <3>1. b - 1 \in 0 .. n - 1
      BY <2>1
    <3> QED
      BY <3>1 DEF Buckets, Proper
  <2> QED
    BY <2>1, <2>2
<1>2. <<>> \in D
  OBVIOUS
<1>3. fn \in [(1 .. n) \X D -> D]
  BY <1>1
<1> HIDE DEF n, D
<1>4. \E g : Equation(g)
  <2>1. PICK g \in [0 .. n -> D] : g[0] = <<>> /\ \A b \in 1 .. n : g[b] = fn[<<b, g[b - 1]>>]
    <3>1. n \in Nat
      BY <1>1
    <3> HIDE DEF fn
    <3>2. \E g : Steps(g, D, n, <<>>, fn)
      BY <1>2, <1>3, <3>1, Stepwise
    <3> QED
      BY <3>2 DEF Steps
  <2>2. ASSUME NEW b \in 1 .. n  PROVE g[b] = g[b - 1] \o chains[b - 1]
    <3>1. b - 1 \in 0 .. n /\ g[b - 1] \in D
      BY <1>1
    <3>2. fn[<<b, g[b - 1]>>] = g[b - 1] \o chains[b - 1]
      BY <3>1
    <3> QED
      BY <2>1, <3>2
  <2>3. \A b \in 0 .. n : g[b] = IF b = 0 THEN <<>> ELSE g[b - 1] \o chains[b - 1]
    <3>1. \A b \in 0 .. n : b = 0 \/ b \in 1 .. n
      BY <1>1
    <3> QED
      BY <2>1, <2>2, <3>1
  <2>4. Equation(g)
    BY <2>1, <2>3
  <2> QED
    BY <2>4
<1> DEFINE all == CHOOSE g : Equation(g)
<1>5. Nodes = all[n]
  BY DEF Nodes, n
<1>6. Equation(all)
  BY <1>4
<1> HIDE DEF all
<1>7. all[0] = <<>> /\ \A b \in 1 .. n : all[b] = all[b - 1] \o chains[b - 1]
  <2>1. 0 \in 0 .. n /\ \A b \in 1 .. n : b \in 0 .. n /\ b # 0
    BY <1>1
  <2> QED
    BY <1>6, <2>1
<1> DEFINE P == {b \in Nat : b <= n =>
                    /\ all[b] \in D /\ OneKeyEach(all[b])
                    /\ Range(all[b]) = UNION {Range(chains[i]) : i \in 0 .. b - 1}}
<1>8. 0 \in P
  <2>1. OneKeyEach(<<>>) /\ Range(<<>>) = {} /\ 0 .. 0 - 1 = {}
    BY DEF OneKeyEach, Range
  <2> QED
    BY <1>2, <1>7, <2>1
<1>9. ASSUME NEW b \in Nat, b \in P  PROVE b + 1 \in P
  <2> SUFFICES ASSUME b + 1 <= n
               PROVE  /\ all[b + 1] \in D /\ OneKeyEach(all[b + 1])
                      /\ Range(all[b + 1]) = UNION {Range(chains[i]) : i \in 0 .. b + 1 - 1}
    OBVIOUS
  <2>1. /\ all[b] \in D /\ OneKeyEach(all[b])
        /\ Range(all[b]) = UNION {Range(chains[i]) : i \in 0 .. b - 1}
    BY <1>1, <1>9
  <2>2. all[b + 1] = all[b] \o chains[b]
    <3>1. b + 1 \in 1 .. n /\ (b + 1) - 1 = b
      BY <1>1
    <3>2. all[b + 1] = all[(b + 1) - 1] \o chains[(b + 1) - 1]
      BY <1>7, <3>1
    <3> QED
      BY <3>1, <3>2
  <2>3. b \in 0 .. n - 1 /\ chains[b] \in D /\ OneKeyEach(chains[b])
    BY <1>1 DEF Buckets, Proper, n, D
  <2>4. ASSUME NEW x \in Range(all[b]), NEW y \in Range(chains[b])  PROVE KeyOf[x] # KeyOf[y]
    <3>1. PICK i \in 0 .. b - 1 : x \in Range(chains[i])
      BY <2>1
    <3>2. i \in 0 .. n - 1 /\ i # b
      BY <1>1, <2>3
    <3> QED
      BY <2>3, <3>1, <3>2, SameBucket DEF n
  <2>5. 0 .. b + 1 - 1 = (0 .. b - 1) \cup {b}
    OBVIOUS
  <2>6. /\ all[b] \o chains[b] \in D /\ OneKeyEach(all[b] \o chains[b])
        /\ Range(all[b] \o chains[b]) = Range(all[b]) \cup Range(chains[b])
    BY <2>1, <2>3, <2>4, JoinedChains DEF D
  <2> QED
    BY <2>1, <2>2, <2>5, <2>6
<1> HIDE DEF P
<1>10. Nat \subseteq P
  BY <1>8, <1>9, NatInd
<1>11. n \in P
  BY <1>1, <1>10
<1>12. all[n] \in D /\ OneKeyEach(all[n]) /\ Range(all[n]) = UNION {Range(chains[i]) : i \in 0 .. n - 1}
  BY <1>1, <1>11 DEF P
<1> QED
  BY <1>1, <1>5, <1>12 DEF Linked, D

\* The grown table holds the same nodes, each in the bucket of its hash.
LEMMA RechainedTable ==
    ASSUME Assumptions, Buckets, NEW n \in Nat \ {0}
    PROVE  LET d == Rechained(n) IN
           /\ DOMAIN d = 0 .. n - 1
           /\ \A b \in 0 .. n - 1 : Proper(d[b]) /\ \A y \in Range(d[b]) : HashOf(y) % n = b
           /\ UNION {Range(d[b]) : b \in 0 .. n - 1} = Linked
<1> DEFINE N == Nodes
           m == Len(N)
           D == [0 .. n - 1 -> Seq(Records)]
           at == [i \in 1 .. m |-> HashOf(N[i]) % n]
           empty == [b \in 0 .. n - 1 |-> <<>>]
           Put(c, i) == [c EXCEPT ![HashOf(N[i]) % n] = InOrder(@, N[i])]
           Equation(g) == g = [i \in 0 .. m |-> IF i = 0 THEN empty ELSE Put(g[i - 1], i)]
           fn == [x \in (1 .. m) \X D |-> Put(x[2], x[1])]
<1>1. N \in Seq(Records) /\ OneKeyEach(N) /\ Range(N) = Linked
  BY AllNodes
<1> HIDE DEF N
<1>2. m \in Nat /\ \A i \in 1 .. m : N[i] \in Records /\ HashOf(N[i]) % n \in 0 .. n - 1
  <2>1. m \in Nat /\ \A i \in 1 .. m : N[i] \in Records
    BY <1>1
  <2>2. ASSUME NEW i \in 1 .. m  PROVE HashOf(N[i]) % n \in 0 .. n - 1
    <3>1. HashOf(N[i]) \in Nat
      BY <2>1 DEF Assumptions
    <3> QED
      BY <3>1
  <2> QED
    BY <2>1, <2>2
<1> HIDE DEF m
<1>3. empty \in D
  OBVIOUS
<1>4. ASSUME NEW c \in D, NEW i \in 1 .. m
      PROVE  /\ Put(c, i) \in D
             /\ \A b \in 0 .. n - 1 : Put(c, i)[b] = IF b = HashOf(N[i]) % n THEN InOrder(c[b], N[i])
                                                     ELSE c[b]
  <2> DEFINE h == HashOf(N[i]) % n
  <2>1. h \in 0 .. n - 1 /\ N[i] \in Records
    BY <1>2
  <2> HIDE DEF h
  <2>2. InOrder(c[h], N[i]) \in Seq(Records)
    BY <2>1, Ordered
  <2>3. Put(c, i) = [c EXCEPT ![h] = InOrder(c[h], N[i])]
    BY <2>1 DEF h
  <2>4. [c EXCEPT ![h] = InOrder(c[h], N[i])] \in D
    BY <2>1, <2>2
  <2> QED
    BY <2>1, <2>3, <2>4 DEF h
<1>5. fn \in [(1 .. m) \X D -> D]
  <2> HIDE DEF Put, D
  <2> QED
    BY <1>4
<1> HIDE DEF D, Put, empty
<1>6. \E g : Equation(g)
  <2>1. PICK g \in [0 .. m -> D] : g[0] = empty /\ \A i \in 1 .. m : g[i] = fn[<<i, g[i - 1]>>]
    <3> HIDE DEF fn
    <3>1. \E g : Steps(g, D, m, empty, fn)
      BY <1>2, <1>3, <1>5, Stepwise
    <3> QED
      BY <3>1 DEF Steps
  <2>2. ASSUME NEW i \in 1 .. m  PROVE g[i] = Put(g[i - 1], i)
    <3>1. i - 1 \in 0 .. m /\ g[i - 1] \in D
      BY <1>2
    <3>2. fn[<<i, g[i - 1]>>] = Put(g[i - 1], i)
      BY <3>1
    <3> QED
      BY <2>1, <3>2
  <2>3. \A i \in 0 .. m : g[i] = IF i = 0 THEN empty ELSE Put(g[i - 1], i)
    <3>1. \A i \in 0 .. m : i = 0 \/ i \in 1 .. m
      BY <1>2
    <3> QED
      BY <2>1, <2>2, <3>1
  <2>4. Equation(g)
    BY <2>1, <2>3
  <2> QED
    BY <2>4
<1> DEFINE fill == CHOOSE g : Equation(g)
<1>7. Rechained(n) = fill[m]
  BY DEF Rechained, N, m, Put, empty
<1>8. Equation(fill)
  BY <1>6
<1> HIDE DEF fill
<1>9. fill[0] = empty /\ \A i \in 1 .. m : fill[i] = Put(fill[i - 1], i)
  <2>1. 0 \in 0 .. m /\ \A i \in 1 .. m : i \in 0 .. m /\ i # 0
    BY <1>2
  <2> QED
    BY <1>8, <2>1
<1> DEFINE Filled(c, i) ==
               /\ c \in D
               /\ \A b \in 0 .. n - 1 : Proper(c[b]) /\ \A y \in Range(c[b]) : HashOf(y) % n = b
               /\ UNION {Range(c[b]) : b \in 0 .. n - 1} = {N[j] : j \in 1 .. i}
           P == {i \in Nat : i <= m => Filled(fill[i], i)}
<1> HIDE DEF Filled
<1>10. 0 \in P
  <2>1. \A b \in 0 .. n - 1 : empty[b] = <<>>
    BY DEF empty
  <2>2. Proper(<<>>) /\ Range(<<>>) = {} /\ 1 .. 0 = {}
    BY DEF Proper, InHashOrder, OneKeyEach, Range
  <2>3. Filled(empty, 0)
    BY <1>3, <2>1, <2>2 DEF Filled
  <2> QED
    BY <1>9, <2>3
<1>11. ASSUME NEW i \in Nat, i \in P  PROVE i + 1 \in P
  <2> SUFFICES ASSUME i + 1 <= m  PROVE Filled(fill[i + 1], i + 1)
    OBVIOUS
  <2> DEFINE c == fill[i]
             r == N[i + 1]
             h == HashOf(r) % n
             d == fill[i + 1]
  <2>1. /\ c \in D
        /\ \A b \in 0 .. n - 1 : Proper(c[b]) /\ \A y \in Range(c[b]) : HashOf(y) % n = b
        /\ UNION {Range(c[b]) : b \in 0 .. n - 1} = {N[j] : j \in 1 .. i}
    <3>1. Filled(fill[i], i)
      BY <1>2, <1>11
    <3> QED
      BY <3>1 DEF Filled
  <2>2. i + 1 \in 1 .. m /\ (i + 1) - 1 = i
    BY <1>2
  <2>3. d = Put(c, i + 1)
    <3>1. d = Put(fill[(i + 1) - 1], i + 1)
      BY <1>9, <2>2
    <3> QED
      BY <2>2, <3>1
  <2>4. r \in Records /\ h \in 0 .. n - 1
    BY <1>2, <2>2
  <2>5. d \in D /\ \A b \in 0 .. n - 1 : d[b] = IF b = h THEN InOrder(c[b], r) ELSE c[b]
    BY <1>4, <2>1, <2>2, <2>3
  <2> HIDE DEF c, d, h, r
  <2>6. ASSUME NEW y \in Range(c[h])  PROVE KeyOf[y] # KeyOf[r]
    <3>1. PICK j \in 1 .. i : y = N[j]
      BY <2>1, <2>4
    <3>2. j \in 1 .. m /\ i + 1 \in 1 .. m /\ j # i + 1
      BY <1>2, <2>2
    <3> QED
      BY <1>1, <3>1, <3>2 DEF OneKeyEach, m, r
  <2>7. Proper(InOrder(c[h], r)) /\ Range(InOrder(c[h], r)) = Range(c[h]) \cup {r}
    <3>1. Proper(c[h]) /\ c[h] \in Seq(Records)
      BY <2>1, <2>4 DEF Proper
    <3> QED
      BY <2>4, <2>6, <3>1, Ordered
  <2>8. ASSUME NEW b \in 0 .. n - 1
        PROVE  /\ Proper(d[b]) /\ \A y \in Range(d[b]) : HashOf(y) % n = b
               /\ Range(d[b]) = IF b = h THEN Range(c[b]) \cup {r} ELSE Range(c[b])
    <3>1. CASE b = h
      <4>1. HashOf(r) % n = b
        BY <3>1 DEF h
      <4> QED
        BY <2>1, <2>5, <2>7, <3>1, <4>1
    <3>2. CASE b # h
      BY <2>1, <2>5, <3>2
    <3> QED
      BY <3>1, <3>2
  <2>9. UNION {Range(d[b]) : b \in 0 .. n - 1} = {N[j] : j \in 1 .. i + 1}
    <3>1. UNION {Range(d[b]) : b \in 0 .. n - 1} = (UNION {Range(c[b]) : b \in 0 .. n - 1}) \cup {r}
      <4>1. ASSUME NEW b \in 0 .. n - 1, NEW y \in Range(d[b])
            PROVE  y = r \/ \E e \in 0 .. n - 1 : y \in Range(c[e])
        BY <2>8, <4>1
      <4>2. r \in Range(d[h])
        BY <2>4, <2>8
      <4>3. \A b \in 0 .. n - 1 : Range(c[b]) \subseteq Range(d[b])
        BY <2>8
      <4> QED
        BY <2>4, <4>1, <4>2, <4>3
    <3>2. 1 .. i + 1 = (1 .. i) \cup {i + 1}
      OBVIOUS
    <3>3. {N[j] : j \in 1 .. i + 1} = {N[j] : j \in 1 .. i} \cup {N[i + 1]}
      BY <3>2
    <3> QED
      BY <2>1, <3>1, <3>3 DEF r
  <2> QED
    BY <2>5, <2>8, <2>9 DEF d, Filled
<1> HIDE DEF P
<1>12. Nat \subseteq P
  BY <1>10, <1>11, NatInd
<1>13. /\ fill[m] \in D
       /\ \A b \in 0 .. n - 1 : /\ Proper(fill[m][b])
                                /\ \A y \in Range(fill[m][b]) : HashOf(y) % n = b
       /\ UNION {Range(fill[m][b]) : b \in 0 .. n - 1} = {N[j] : j \in 1 .. m}
  <2>1. m \in P
    BY <1>2, <1>12
  <2>2. Filled(fill[m], m)
    BY <1>2, <2>1 DEF P
  <2> QED
    BY <2>2 DEF Filled
<1>14. {N[j] : j \in 1 .. m} = Linked
  BY <1>1 DEF Range, m
<1>15. DOMAIN fill[m] = 0 .. n - 1
  BY <1>13 DEF D
<1> QED
  BY <1>7, <1>13, <1>14, <1>15

-----------------------------------------------------------------------------
(* The inductive invariant.                                                *)

UnderLock == {"walk", "found", "past", "linked", "count"}
Deciding == {"acquire", "walk", "found", "past"}
PCs == {"idle", "linked", "count", "look", "rehash", "return"} \cup Deciding

Types ==
    /\ nItems \in Int /\ refs \in [Records -> Int]
    /\ pc \in [Threads -> PCs] /\ readers = {t \in Threads : pc[t] \in UnderLock}
    /\ node \in [Threads -> Records \cup {Null}] /\ held \in [Threads -> Records \cup {Null}]
    /\ DOMAIN key = Threads /\ DOMAIN prev = Threads /\ DOMAIN next = Threads
    /\ ret = [u \in Threads |-> ret[u]]

\* What a call has at each of its steps.
Call(t) ==
    /\ pc[t] = "idle" => node[t] = Null /\ ret[t] = Null
    /\ pc[t] \in {"linked", "count", "look", "rehash"} => node[t] # Null
    /\ pc[t] # "idle" => key[t] \in Keys
    /\ node[t] # Null => key[t] = KeyOf[node[t]] /\ held[t] = node[t]
    /\ node[t] = Null /\ pc[t] \in Deciding => held[t] = Null
    /\ pc[t] \in {"acquire", "walk"} => ret[t] = Null
    /\ pc[t] = "found" => next[t] \in Linked /\ KeyOf[next[t]] = key[t] /\ ret[t] # Null
    /\ pc[t] = "past" => ret[t] = IF node[t] = Null THEN "none" ELSE Null
    /\ pc[t] = "return" /\ node[t] = Null => ret[t] # Null

\* How far a search has come.
Search(t) ==
    LET c == chains[Bucket(key[t])] IN
    /\ pc[t] = "walk" => next[t] # Null /\ Walked(c, next[t], key[t])
    /\ pc[t] = "past" => /\ Walked(c, prev[t], key[t])
                         /\ next[t] = Null \/ (next[t] \in Records /\ HashOf(next[t]) > Hash[key[t]])

\* A record is its creator's alone until it is linked.
Private(t) ==
    /\ node[t] # Null /\ pc[t] \in Deciding =>
           node[t] \notin Linked /\ \A u \in Threads : held[u] = node[t] => u = t
    /\ pc[t] = "linked" =>
           node[t] \in Linked /\ \A u \in Threads : pc[u] = "linked" /\ node[u] = node[t] => u = t

TableInv == /\ Types /\ Buckets /\ CountsExact
            /\ \A t \in Threads : Call(t) /\ Search(t) /\ Private(t)

\* A record is found in the bucket of its key, and no other has its key.
LEMMA LinkedNodes ==
    ASSUME Assumptions, Buckets
    PROVE  /\ \A k \in Keys : Hash[k] \in Nat /\ Bucket(k) \in 0 .. nBuckets - 1
           /\ \A x \in Linked : /\ x \in Records /\ KeyOf[x] \in Keys
                                /\ x \in Range(chains[Bucket(KeyOf[x])])
           /\ \A x, y \in Linked : KeyOf[x] = KeyOf[y] => x = y
<1>1. nBuckets \in Nat /\ nBuckets >= 1 /\ DOMAIN chains = 0 .. nBuckets - 1
  BY DEF Buckets
<1>2. ASSUME NEW k \in Keys  PROVE Hash[k] \in Nat /\ Bucket(k) \in 0 .. nBuckets - 1
  <2>1. Hash[k] \in Nat
    BY DEF Keys, Assumptions, HashOf
  <2> HIDE DEF nBuckets
  <2>2. Hash[k] % nBuckets \in 0 .. nBuckets - 1
    BY <1>1, <2>1
  <2> QED
    BY <2>1, <2>2 DEF Bucket
<1>3. ASSUME NEW x \in Linked
      PROVE  x \in Records /\ KeyOf[x] \in Keys /\ x \in Range(chains[Bucket(KeyOf[x])])
  <2>1. PICK b \in 0 .. nBuckets - 1 : x \in Range(chains[b])
    BY <1>1 DEF Linked
  <2>2. HashOf(x) % nBuckets = b /\ chains[b] \in Seq(Records)
    BY <2>1 DEF Buckets, Proper
  <2>3. x \in Records
    BY <2>1, <2>2 DEF Range
  <2> QED
    BY <2>1, <2>2, <2>3 DEF Keys, Bucket, HashOf
<1>4. ASSUME NEW x \in Linked, NEW y \in Linked, KeyOf[x] = KeyOf[y]  PROVE x = y
  <2> DEFINE b == Bucket(KeyOf[x])
  <2>1. x \in Range(chains[b]) /\ y \in Range(chains[b]) /\ b \in 0 .. nBuckets - 1
    BY <1>2, <1>3, <1>4
  <2> HIDE DEF b
  <2>2. OneKeyEach(chains[b]) /\ chains[b] \in Seq(Records)
    BY <2>1 DEF Buckets, Proper
  <2>3. Range(chains[b]) = {chains[b][i] : i \in 1 .. Len(chains[b])}
    BY <2>2 DEF Range
  <2> QED
    BY <1>4, <2>1, <2>2, <2>3 DEF OneKeyEach
<1> QED
  BY <1>2, <1>3, <1>4

\* Reading one next pointer.
LEMMA Searched ==
    ASSUME Assumptions, Buckets, Types, NEW t \in Threads, NEW k \in Keys, NEW x,
           Walked(chains[Bucket(k)], x, k), FindNodeInternal(t, x, k)
    PROVE  /\ pc' = [pc EXCEPT ![t] = pc'[t]] /\ pc'[t] \in {"found", "past", "walk"}
           /\ prev' = [prev EXCEPT ![t] = x] /\ next' = [next EXCEPT ![t] = next'[t]]
           /\ ret' = [ret EXCEPT ![t] = ret'[t]]
           /\ pc'[t] = "found" => /\ next'[t] \in Linked /\ KeyOf[next'[t]] = k
                                  /\ ret'[t] = IF node[t] = Null THEN next'[t] ELSE "exists"
           /\ pc'[t] = "past" => /\ next'[t] = Null \/ (next'[t] \in Records /\ HashOf(next'[t]) > Hash[k])
                                 /\ ret'[t] = IF node[t] = Null THEN "none" ELSE Null
                                 /\ \A y \in Linked : KeyOf[y] # k
           /\ pc'[t] = "walk" => next'[t] # Null /\ Walked(chains[Bucket(k)], next'[t], k) /\ ret'[t] = Null
<1> DEFINE c == chains[Bucket(k)]
           n == After(c, x)
           found == n # Null /\ KeyOf[n] = k
           past == n = Null \/ (n # Null /\ HashOf(n) > Hash[k])
           label == IF found THEN "found" ELSE IF past THEN "past" ELSE "walk"
           answer == CASE found -> IF node[t] = Null THEN n ELSE "exists"
                       [] past /\ node[t] = Null -> "none"
                       [] OTHER -> Null
<1>1. Hash[k] \in Nat /\ Bucket(k) \in 0 .. nBuckets - 1
  BY LinkedNodes
<1>2. Proper(c) /\ Bucket(k) \in DOMAIN chains
  BY <1>1 DEF Buckets
<1>3. /\ n # Null => n \in Range(c)
      /\ n = Null \/ HashOf(n) > Hash[k] => \A y \in Range(c) : KeyOf[y] # k
      /\ n # Null /\ KeyOf[n] # k /\ HashOf(n) <= Hash[k] => Walked(c, n, k)
  BY <1>1, <1>2, NextNode
<1>4. /\ prev' = [prev EXCEPT ![t] = x] /\ next' = [next EXCEPT ![t] = n]
      /\ pc' = [pc EXCEPT ![t] = label] /\ ret' = [ret EXCEPT ![t] = answer]
  BY DEF FindNodeInternal, Goto
<1>5. t \in DOMAIN prev /\ t \in DOMAIN next /\ t \in DOMAIN pc /\ t \in DOMAIN ret
  BY DEF Types
<1>6. n # Null => n \in Linked /\ n \in Records /\ HashOf(n) \in Nat
  <2>1. n # Null => n \in Linked
    BY <1>2, <1>3 DEF Linked
  <2>2. n \in Linked => n \in Records
    BY LinkedNodes
  <2> QED
    BY <2>1, <2>2 DEF Assumptions
<1>7. n = Null \/ HashOf(n) > Hash[k] => \A y \in Linked : KeyOf[y] # k
  BY <1>3, LinkedNodes
<1>8. found /\ past => FALSE
  <2>1. n # Null => HashOf(n) \in Nat
    BY <1>6
  <2> QED
    BY <1>1, <2>1 DEF HashOf
<1> HIDE DEF n, c
<1>9. next'[t] = n /\ pc'[t] = label /\ ret'[t] = answer
  BY <1>4, <1>5
<1>10. CASE found
  <2>1. label = "found" /\ answer = IF node[t] = Null THEN n ELSE "exists"
    BY <1>8, <1>10
  <2> HIDE DEF label, answer
  <2> QED
    BY <1>4, <1>6, <1>9, <1>10, <2>1
<1>11. CASE past
  <2>1. label = "past" /\ answer = IF node[t] = Null THEN "none" ELSE Null
    BY <1>8, <1>11
  <2> HIDE DEF label, answer
  <2> QED
    BY <1>4, <1>6, <1>7, <1>9, <1>11, <2>1
<1>12. CASE ~found /\ ~past
  <2>1. label = "walk" /\ answer = Null
    BY <1>12
  <2>2. n # Null /\ Walked(c, n, k)
    BY <1>1, <1>3, <1>6, <1>12
  <2> HIDE DEF label, answer
  <2> QED
    BY <1>4, <1>9, <2>1, <2>2 DEF c
<1> QED
  BY <1>10, <1>11, <1>12

\* What a step of t leaves alone when it links no node.
Local(t) ==
    /\ chains' = chains
    /\ \A u \in Threads \ {t} : /\ pc'[u] = pc[u] /\ key'[u] = key[u] /\ node'[u] = node[u]
                                /\ prev'[u] = prev[u] /\ next'[u] = next[u] /\ ret'[u] = ret[u]
                                /\ held'[u] = held[u]

\* Records that a caller may come to hold.
Takeable(t) == {held[t], Null} \cup Linked \cup {r \in Records : refs[r] = 0}

\* A held record is referenced.
LEMMA HeldReferenced ==
    ASSUME Assumptions, Types, CountsExact, NEW t \in Threads, held[t] # Null
    PROVE  held[t] \in Records /\ refs[held[t]] # 0
<1> DEFINE r == held[t]
           S == {u \in Threads : held[u] = r}
           n == Cardinality(S)
           w == IF r \in Linked /\ \A u \in Pending({"linked"}) : node[u] # r THEN 1 ELSE 0
<1>1. r \in Records
  BY DEF Types
<1>2. refs[r] = n + w
  BY <1>1 DEF CountsExact
<1>3. n \in Nat /\ n # 0
  <2>1. IsFiniteSet(S) /\ S # {}
    BY FS_Subset DEF Assumptions
  <2> HIDE DEF S
  <2> QED
    BY <2>1, FS_EmptySet, FS_CardinalityType
<1>4. w \in {0, 1}
  OBVIOUS
<1> HIDE DEF n, w
<1> QED
  BY <1>1, <1>2, <1>3, <1>4

LEMMA LocalStep ==
    ASSUME Assumptions, TableInv, NEW t \in Threads, Local(t), held'[t] \in Takeable(t),
           pc'[t] # "linked", Types', CountsExact', Call(t)', Search(t)', Private(t)'
    PROVE  TableInv'
<1>1. Types /\ Buckets /\ CountsExact /\ \A u \in Threads : Call(u) /\ Search(u) /\ Private(u)
  BY DEF TableInv
<1>2. Linked' = Linked /\ nBuckets' = nBuckets /\ chains' = chains /\ Buckets'
  BY <1>1 DEF Local, Linked, nBuckets, Buckets
<1>3. ASSUME NEW u \in Threads \ {t}  PROVE Call(u)' /\ Search(u)' /\ Private(u)'
  <2>1. /\ pc'[u] = pc[u] /\ key'[u] = key[u] /\ node'[u] = node[u] /\ prev'[u] = prev[u]
        /\ next'[u] = next[u] /\ ret'[u] = ret[u] /\ held'[u] = held[u]
    BY DEF Local
  <2>2. Call(u) /\ Search(u) /\ Private(u)
    BY <1>1
  <2>3. Call(u)'
    BY <1>2, <2>1, <2>2 DEF Call
  <2>4. Search(u)'
    BY <1>2, <2>1, <2>2 DEF Search, Bucket
  <2>5. Private(u)'
    <3>1. ASSUME node[u] # Null, pc[u] \in Deciding, NEW v \in Threads, held'[v] = node[u]  PROVE v = u
      <4>1. node[u] \notin Linked /\ \A w \in Threads : held[w] = node[u] => w = u
        BY <2>2, <3>1 DEF Private
      <4>2. held[u] = node[u] /\ refs[node[u]] # 0
        <5>1. held[u] = node[u]
          BY <2>2, <3>1 DEF Call
        <5> QED
          BY <1>1, <3>1, <5>1, HeldReferenced
      <4>3. CASE v # t
        BY <3>1, <4>1, <4>3 DEF Local
      <4>4. CASE v = t
        BY <3>1, <4>1, <4>2, <4>4 DEF Takeable
      <4> QED
        BY <4>3, <4>4
    <3>2. ASSUME pc[u] = "linked", NEW v \in Threads, pc'[v] = "linked", node'[v] = node[u]  PROVE v = u
      <4>1. v # t /\ pc[v] = "linked" /\ node[v] = node[u]
        BY <3>2 DEF Local
      <4> QED
        BY <2>2, <3>2, <4>1 DEF Private
    <3>3. node'[u] # Null /\ pc'[u] \in Deciding => node'[u] \notin Linked'
      BY <1>2, <2>1, <2>2 DEF Private
    <3>4. pc'[u] = "linked" => node'[u] \in Linked'
      BY <1>2, <2>1, <2>2 DEF Private
    <3> QED
      BY <2>1, <3>1, <3>2, <3>3, <3>4 DEF Private
  <2> QED
    BY <2>3, <2>4, <2>5
<1> QED
  BY <1>2, <1>3 DEF TableInv

\* Sets of threads that differ in t only.
LEMMA OneThread ==
    ASSUME Assumptions, NEW t \in Threads, NEW A, A \subseteq Threads, NEW B, B \subseteq Threads,
           A \ {t} = B \ {t}
    PROVE  /\ Cardinality(A) \in Nat /\ Cardinality(B) \in Nat
           /\ Cardinality(B) = Cardinality(A) - (IF t \in A THEN 1 ELSE 0) + (IF t \in B THEN 1 ELSE 0)
<1> DEFINE C == A \ {t}
<1>1. IsFiniteSet(A) /\ IsFiniteSet(B)
  BY FS_Subset DEF Assumptions
<1>2. /\ Cardinality(A) \in Nat /\ Cardinality(B) \in Nat
  BY <1>1, FS_CardinalityType
<1>3. Cardinality(C) = IF t \in A THEN Cardinality(A) - 1 ELSE Cardinality(A)
  BY <1>1, FS_RemoveElement
<1>4. Cardinality(C) = IF t \in B THEN Cardinality(B) - 1 ELSE Cardinality(B)
  BY <1>1, FS_RemoveElement
<1> HIDE DEF C
<1> QED
  BY <1>2, <1>3, <1>4

\* The counts after a step of t that links no node, if they are changed as
\* what t holds and where it stands tell.
LEMMA CountsStep ==
    ASSUME Assumptions, TableInv, Types', NEW t \in Threads, Local(t), pc'[t] # "linked",
           nItems' = nItems + (IF pc[t] \in {"linked", "count"} THEN 1 ELSE 0)
                            - (IF pc'[t] \in {"linked", "count"} THEN 1 ELSE 0),
           \A r \in Records :
               refs'[r] = refs[r] - (IF held[t] = r THEN 1 ELSE 0) + (IF held'[t] = r THEN 1 ELSE 0)
                                  + (IF pc[t] = "linked" /\ node[t] = r THEN 1 ELSE 0)
    PROVE  CountsExact'
<1>1. Types /\ Private(t) /\ CountsExact
  BY DEF TableInv
<1>2. Linked' = Linked
  BY DEF Local, Linked
<1>3. nItems' = Cardinality(Linked') - Cardinality(Pending({"linked", "count"})')
  <2> DEFINE A == Pending({"linked", "count"})
             B == Pending({"linked", "count"})'
  <2>1. A \subseteq Threads /\ B \subseteq Threads /\ A \ {t} = B \ {t}
    BY DEF Pending, Local
  <2>2. (t \in A <=> pc[t] \in {"linked", "count"}) /\ (t \in B <=> pc'[t] \in {"linked", "count"})
    BY DEF Pending
  <2>3. nItems = Cardinality(Linked) - Cardinality(A) /\ nItems \in Int
    BY <1>1 DEF CountsExact, Types
  <2>4. Cardinality(Linked) \in Int
    <3>1. Linked \subseteq Records
      BY <1>1, LinkedNodes DEF TableInv
    <3> QED
      BY <3>1, FS_Subset, FS_CardinalityType DEF Assumptions
  <2> HIDE DEF A, B
  <2>5. /\ Cardinality(A) \in Nat /\ Cardinality(B) \in Nat
        /\ Cardinality(B) = Cardinality(A) - (IF t \in A THEN 1 ELSE 0) + (IF t \in B THEN 1 ELSE 0)
    BY <2>1, OneThread
  <2>6. nItems' = Cardinality(Linked) - Cardinality(B)
    BY <2>2, <2>3, <2>4, <2>5
  <2> QED
    BY <1>2, <2>6 DEF B
<1>4. ASSUME NEW r \in Records
      PROVE  refs'[r] = Cardinality({u \in Threads : held[u] = r})'
                 + (IF r \in Linked' /\ \A u \in Pending({"linked"})' : node'[u] # r THEN 1 ELSE 0)
  <2> DEFINE A == {u \in Threads : held[u] = r}
             B == {u \in Threads : held'[u] = r}
             w == IF r \in Linked /\ \A u \in Pending({"linked"}) : node[u] # r THEN 1 ELSE 0
             v == IF r \in Linked' /\ \A u \in Pending({"linked"})' : node'[u] # r THEN 1 ELSE 0
  <2>1. A \subseteq Threads /\ B \subseteq Threads /\ A \ {t} = B \ {t}
    BY DEF Local
  <2>2. (t \in A <=> held[t] = r) /\ (t \in B <=> held'[t] = r)
    OBVIOUS
  <2>3. refs[r] = Cardinality(A) + w /\ refs[r] \in Int
    BY <1>1 DEF CountsExact, Types
  <2>4. v = w + (IF pc[t] = "linked" /\ node[t] = r THEN 1 ELSE 0)
    <3>1. CASE pc[t] = "linked" /\ node[t] = r
      <4>1. r \in Linked /\ \A u \in Threads : pc[u] = "linked" /\ node[u] = r => u = t
        BY <1>1, <3>1 DEF Private
      <4>2. t \in Pending({"linked"})
        BY <3>1 DEF Pending
      <4>3. w = 0
        BY <3>1, <4>2
      <4>4. \A u \in Pending({"linked"})' : node'[u] # r
        BY <4>1 DEF Pending, Local
      <4>5. v = 1
        BY <1>2, <4>1, <4>4
      <4> QED
        BY <3>1, <4>3, <4>5
    <3>2. CASE ~(pc[t] = "linked" /\ node[t] = r)
      <4>1. (\A u \in Pending({"linked"})' : node'[u] # r) <=> \A u \in Pending({"linked"}) : node[u] # r
        BY <3>2 DEF Pending, Local
      <4> QED
        BY <1>2, <3>2, <4>1
    <3> QED
      BY <3>1, <3>2
  <2>5. w \in {0, 1}
    OBVIOUS
  <2> HIDE DEF A, B, w, v
  <2>6. /\ Cardinality(A) \in Nat /\ Cardinality(B) \in Nat
        /\ Cardinality(B) = Cardinality(A) - (IF t \in A THEN 1 ELSE 0) + (IF t \in B THEN 1 ELSE 0)
    BY <2>1, OneThread
  <2>7. refs'[r] = Cardinality(B) + v
    BY <2>2, <2>3, <2>4, <2>5, <2>6
  <2> QED
    BY <2>7 DEF B, v
<1> QED
  BY <1>3, <1>4 DEF CountsExact

\* Steps that change neither the counts nor what t holds.
LEMMA CountsKept ==
    ASSUME Assumptions, TableInv, Types', NEW t \in Threads, Local(t),
           pc[t] \notin {"linked", "count"}, pc'[t] \notin {"linked", "count"},
           nItems' = nItems, refs' = refs, held' = held
    PROVE  CountsExact' /\ held'[t] \in Takeable(t) /\ pc'[t] # "linked"
<1>1. Types
  BY DEF TableInv
<1>2. nItems' = nItems + (IF pc[t] \in {"linked", "count"} THEN 1 ELSE 0)
                       - (IF pc'[t] \in {"linked", "count"} THEN 1 ELSE 0)
  BY <1>1 DEF Types
<1>3. ASSUME NEW r \in Records
      PROVE  refs'[r] = refs[r] - (IF held[t] = r THEN 1 ELSE 0) + (IF held'[t] = r THEN 1 ELSE 0)
                                + (IF pc[t] = "linked" /\ node[t] = r THEN 1 ELSE 0)
  <2>1. refs[r] \in Int
    BY <1>1 DEF Types
  <2> QED
    BY <2>1
<1>4. CountsExact'
  BY <1>2, <1>3, CountsStep
<1> QED
  BY <1>4 DEF Takeable

\* A search goes on.
LEMMA SearchStep ==
    ASSUME Assumptions, TableInv, NEW t \in Threads, pc[t] \in Deciding, NEW x,
           Walked(chains[Bucket(key[t])], x, key[t]), FindNodeInternal(t, x, key[t]),
           readers' = readers \cup {t}, UNCHANGED <<table, key, node, refs, held>>
    PROVE  TableInv'
<1>1. Types /\ Buckets /\ Call(t) /\ Search(t) /\ Private(t)
  BY DEF TableInv
<1>2. key[t] \in Keys /\ t \in DOMAIN pc /\ t \in DOMAIN ret /\ t \in DOMAIN prev /\ t \in DOMAIN next
  BY <1>1 DEF Types, Call, Deciding
<1>3. /\ pc' = [pc EXCEPT ![t] = pc'[t]] /\ pc'[t] \in {"found", "past", "walk"}
      /\ prev' = [prev EXCEPT ![t] = x] /\ next' = [next EXCEPT ![t] = next'[t]]
      /\ ret' = [ret EXCEPT ![t] = ret'[t]]
      /\ pc'[t] = "found" => /\ next'[t] \in Linked /\ KeyOf[next'[t]] = key[t]
                             /\ ret'[t] = IF node[t] = Null THEN next'[t] ELSE "exists"
      /\ pc'[t] = "past" => /\ next'[t] = Null \/ (next'[t] \in Records /\ HashOf(next'[t]) > Hash[key[t]])
                            /\ ret'[t] = IF node[t] = Null THEN "none" ELSE Null
      /\ pc'[t] = "walk" => next'[t] # Null /\ Walked(chains[Bucket(key[t])], next'[t], key[t]) /\ ret'[t] = Null
  BY <1>1, <1>2, Searched
<1>4. /\ chains' = chains /\ nItems' = nItems /\ key' = key /\ node' = node /\ refs' = refs /\ held' = held
      /\ Linked' = Linked /\ nBuckets' = nBuckets
  BY DEF table, Linked, nBuckets
<1>5. Local(t)
  BY <1>1, <1>3, <1>4 DEF Local, Types
<1>6. Types'
  <2>1. ret' = [u \in Threads |-> ret'[u]]
    <3>1. ret = [u \in Threads |-> ret[u]]
      BY <1>1 DEF Types
    <3>2. ret' = [ret EXCEPT ![t] = ret'[t]]
      BY <1>3
    <3> QED
      BY <3>1, <3>2
  <2>2. pc' \in [Threads -> PCs] /\ readers' = {u \in Threads : pc'[u] \in UnderLock}
    BY <1>1, <1>2, <1>3 DEF Types, PCs, Deciding, UnderLock
  <2>3. DOMAIN key' = Threads /\ DOMAIN prev' = Threads /\ DOMAIN next' = Threads
    BY <1>1, <1>3, <1>4 DEF Types
  <2> QED
    BY <1>1, <1>4, <2>1, <2>2, <2>3 DEF Types
<1>7. CountsExact' /\ held'[t] \in Takeable(t) /\ pc'[t] # "linked"
  BY <1>3, <1>4, <1>5, <1>6, CountsKept DEF Deciding
<1>8. Call(t)'
  <2>1. \A y \in Linked : y # Null
    BY <1>1, LinkedNodes DEF Assumptions
  <2>2. "exists" # Null /\ "none" # Null
    BY DEF Assumptions
  <2>3. pc'[t] = "found" => ret'[t] # Null
    BY <1>3, <2>1, <2>2
  <2> QED
    BY <1>1, <1>2, <1>3, <1>4, <2>3 DEF Call, Deciding
<1>9. Search(t)'
  <2>1. prev'[t] = x
    BY <1>2, <1>3
  <2>2. Bucket(key[t])' = Bucket(key[t])
    BY <1>4 DEF Bucket
  <2> QED
    BY <1>3, <1>4, <2>1, <2>2 DEF Search
<1>10. Private(t)'
  BY <1>1, <1>3, <1>4 DEF Private, Deciding
<1> QED
  BY <1>5, <1>6, <1>7, <1>8, <1>9, <1>10, LocalStep

-----------------------------------------------------------------------------
(* The steps of a call.                                                    *)

LEMMA AcquireStep ==
    ASSUME Assumptions, TableInv, NEW t \in Threads, Acquire(t)
    PROVE  TableInv'
BY SearchStep DEF Acquire, Walked, Deciding

LEMMA AdvanceStep ==
    ASSUME Assumptions, TableInv, NEW t \in Threads, Advance(t)
    PROVE  TableInv'
<1>1. Walked(chains[Bucket(key[t])], next[t], key[t]) /\ pc[t] = "walk"
  BY DEF TableInv, Search, Advance
<1>2. readers = readers \cup {t}
  BY <1>1 DEF TableInv, Types, UnderLock
<1> QED
  BY <1>1, <1>2, SearchStep DEF Advance, Deciding

\* Steps of a call that reads no chain and takes or gives back nothing.
LEMMA PlainStep ==
    ASSUME Assumptions, TableInv, Types', NEW t \in Threads, Local(t),
           pc[t] \notin {"linked", "count"}, pc'[t] \notin {"linked", "count", "walk", "found", "past"},
           nItems' = nItems, refs' = refs, held' = held, Call(t)',
           pc'[t] # "acquire" \/ node'[t] = Null
    PROVE  TableInv'
<1>1. CountsExact' /\ held'[t] \in Takeable(t) /\ pc'[t] # "linked"
  BY CountsKept
<1>2. Search(t)' /\ Private(t)'
  BY DEF Search, Private, Deciding
<1> QED
  BY <1>1, <1>2, LocalStep

LEMMA FindKeyStep ==
    ASSUME Assumptions, TableInv, NEW t \in Threads, NEW k \in Keys, FindKey(t, k)
    PROVE  TableInv'
<1>1. Types /\ Call(t)
  BY DEF TableInv
<1>2. Local(t) /\ Types' /\ nItems' = nItems /\ refs' = refs /\ held' = held
  BY <1>1 DEF FindKey, Goto, table, Local, Types, UnderLock, PCs, Deciding
<1>3. /\ pc'[t] = "acquire" /\ key'[t] = k /\ node'[t] = Null /\ held'[t] = Null /\ ret'[t] = Null
      /\ pc[t] = "idle"
  BY <1>1 DEF FindKey, Goto, Call, Types
<1>4. Call(t)'
  <2>1. Keys' = Keys
    BY DEF Keys
  <2> QED
    BY <1>3, <2>1 DEF Call
<1> QED
  BY <1>2, <1>3, <1>4, PlainStep DEF Deciding

LEMMA InsertExistsStep ==
    ASSUME Assumptions, TableInv, NEW t \in Threads, InsertExists(t)
    PROVE  TableInv'
<1>1. Types /\ Call(t)
  BY DEF TableInv
<1>2. Local(t) /\ Types' /\ nItems' = nItems /\ refs' = refs /\ held' = held
  BY <1>1 DEF InsertExists, Goto, table, Local, Types, UnderLock, PCs, Deciding
<1>3. /\ pc'[t] = "return" /\ key'[t] = key[t] /\ node'[t] = node[t] /\ ret'[t] = ret[t]
      /\ pc[t] = "found" /\ node[t] # Null
  BY <1>1 DEF InsertExists, Goto, Types
<1>4. Call(t)'
  BY <1>1, <1>2, <1>3 DEF Call, Deciding
<1> QED
  BY <1>2, <1>3, <1>4, PlainStep DEF Deciding

LEMMA RehashLookStep ==
    ASSUME Assumptions, TableInv, NEW t \in Threads, RehashLook(t)
    PROVE  TableInv'
<1>1. Types /\ Call(t)
  BY DEF TableInv
<1>2. Local(t) /\ Types' /\ nItems' = nItems /\ refs' = refs /\ held' = held
  BY <1>1 DEF RehashLook, Goto, table, Local, Types, UnderLock, PCs, Deciding
<1>3. /\ pc'[t] \in {"rehash", "return"} /\ key'[t] = key[t] /\ node'[t] = node[t] /\ ret'[t] = ret[t]
      /\ pc[t] = "look"
  BY <1>1 DEF RehashLook, Goto, Types
<1>4. Call(t)'
  BY <1>1, <1>2, <1>3 DEF Call, Deciding
<1> QED
  BY <1>2, <1>3, <1>4, PlainStep DEF Deciding

LEMMA ReturnStep ==
    ASSUME Assumptions, TableInv, NEW t \in Threads, Return(t)
    PROVE  TableInv'
<1>1. Types /\ Call(t)
  BY DEF TableInv
<1>2. Local(t) /\ Types' /\ nItems' = nItems /\ refs' = refs /\ held' = held
  BY <1>1 DEF Return, Goto, table, Local, Types, UnderLock, PCs, Deciding
<1>3. pc'[t] = "idle" /\ node'[t] = Null /\ ret'[t] = Null /\ pc[t] = "return"
  BY <1>1 DEF Return, Goto, Types
<1>4. Call(t)'
  BY <1>3 DEF Call, Deciding
<1> QED
  BY <1>2, <1>3, <1>4, PlainStep DEF Deciding

LEMMA FindKeyEndStep ==
    ASSUME Assumptions, TableInv, NEW t \in Threads, FindKeyEnd(t)
    PROVE  TableInv'
<1>1. Types /\ Buckets /\ Call(t)
  BY DEF TableInv
<1>2. /\ pc' = [pc EXCEPT ![t] = "return"] /\ readers' = readers \ {t}
      /\ chains' = chains /\ nItems' = nItems /\ key' = key /\ node' = node
      /\ prev' = prev /\ next' = next /\ ret' = ret /\ pc[t] \in {"found", "past"} /\ node[t] = Null
  BY DEF FindKeyEnd, Goto, table
<1>3. pc'[t] = "return" /\ ret[t] # Null
  <2>1. "none" # Null
    BY DEF Assumptions
  <2> QED
    BY <1>1, <1>2, <2>1 DEF Call, Types
<1>4. CASE pc[t] = "past"
  <2>1. refs' = refs /\ held' = held
    BY <1>4 DEF FindKeyEnd
  <2>2. Local(t) /\ Types'
    BY <1>1, <1>2, <2>1 DEF Local, Types, UnderLock, PCs, Deciding
  <2>3. Call(t)'
    BY <1>1, <1>2, <1>3 DEF Call, Deciding, Keys
  <2> QED
    BY <1>2, <1>3, <1>4, <2>1, <2>2, <2>3, PlainStep DEF Deciding
<1>5. CASE pc[t] = "found"
  <2>1. refs' = [refs EXCEPT ![next[t]] = @ + 1] /\ held' = [held EXCEPT ![t] = next[t]]
    BY <1>5 DEF FindKeyEnd
  <2>2. next[t] \in Linked /\ next[t] \in Records /\ held[t] = Null /\ next[t] # Null
    BY <1>1, <1>2, <1>5, LinkedNodes DEF Call, Deciding, Assumptions
  <2>3. held'[t] = next[t]
    BY <1>1, <2>1 DEF Types
  <2>4. Local(t) /\ Types'
    BY <1>1, <1>2, <2>1, <2>2 DEF Local, Types, UnderLock, PCs, Deciding
  <2>5. ASSUME NEW r \in Records
        PROVE  refs'[r] = refs[r] - (IF held[t] = r THEN 1 ELSE 0) + (IF held'[t] = r THEN 1 ELSE 0)
                                  + (IF pc[t] = "linked" /\ node[t] = r THEN 1 ELSE 0)
    <3>1. refs[r] \in Int /\ held[t] # r
      BY <1>1, <2>2 DEF Types, Assumptions
    <3>2. refs'[r] = refs[r] + (IF next[t] = r THEN 1 ELSE 0)
      BY <1>1, <2>1, <3>1 DEF Types
    <3> QED
      BY <1>5, <2>3, <3>1, <3>2
  <2>6. nItems' = nItems + (IF pc[t] \in {"linked", "count"} THEN 1 ELSE 0)
                         - (IF pc'[t] \in {"linked", "count"} THEN 1 ELSE 0)
    BY <1>1, <1>2, <1>3, <1>5 DEF Types
  <2>7. CountsExact'
    BY <1>3, <2>4, <2>5, <2>6, CountsStep
  <2>8. Call(t)' /\ Search(t)' /\ Private(t)'
    BY <1>1, <1>2, <1>3 DEF Call, Search, Private, Deciding, Keys
  <2>9. held'[t] \in Takeable(t)
    BY <2>2, <2>3 DEF Takeable
  <2> QED
    BY <1>3, <2>4, <2>7, <2>8, <2>9, LocalStep
<1> QED
  BY <1>2, <1>4, <1>5

\* An unreferenced record is in no chain and held by nobody.
LEMMA Unreferenced ==
    ASSUME Assumptions, TableInv, NEW r \in Records, refs[r] = 0
    PROVE  r \notin Linked /\ \A u \in Threads : held[u] # r
<1>1. Types /\ CountsExact /\ \A u \in Threads : Call(u)
  BY DEF TableInv
<1>2. r # Null
  BY DEF Assumptions
<1>3. ASSUME NEW u \in Threads  PROVE held[u] # r
  BY <1>1, <1>2, HeldReferenced
<1>4. ASSUME r \in Linked  PROVE FALSE
  <2> DEFINE S == {u \in Threads : held[u] = r}
  <2>1. \A u \in Pending({"linked"}) : node[u] # r
    BY <1>1, <1>2, <1>3 DEF Pending, Call
  <2>2. refs[r] = Cardinality(S) + 1
    BY <1>1, <1>4, <2>1 DEF CountsExact
  <2>3. Cardinality(S) \in Nat
    BY FS_Subset, FS_CardinalityType DEF Assumptions
  <2> HIDE DEF S
  <2> QED
    BY <2>2, <2>3
<1> QED
  BY <1>3, <1>4

LEMMA InsertRecordStep ==
    ASSUME Assumptions, TableInv, NEW t \in Threads, NEW r \in Records, InsertRecord(t, r)
    PROVE  TableInv'
<1>1. Types /\ Call(t) /\ \A u \in Threads : Call(u)
  BY DEF TableInv
<1>2. /\ pc[t] = "idle" /\ held[t] = Null /\ refs[r] = 0 /\ ret[t] = Null
      /\ refs' = [refs EXCEPT ![r] = 1] /\ held' = [held EXCEPT ![t] = r]
      /\ key' = [key EXCEPT ![t] = KeyOf[r]] /\ node' = [node EXCEPT ![t] = r]
      /\ chains' = chains /\ nItems' = nItems /\ readers' = readers
      /\ prev' = prev /\ next' = next /\ ret' = ret
  BY <1>1 DEF InsertRecord, table, Call
<1>3. /\ pc' = [pc EXCEPT ![t] = pc'[t]] /\ pc'[t] \in {"acquire", "return"}
  BY <1>1 DEF InsertRecord, Goto, Types
<1>4. r \notin Linked /\ \A u \in Threads : held[u] # r
  BY <1>2, Unreferenced
<1>5. Local(t) /\ Types'
  <2>1. Local(t)
    BY <1>1, <1>2, <1>3 DEF Local, Types
  <2>2. pc' \in [Threads -> PCs] /\ readers' = {u \in Threads : pc'[u] \in UnderLock}
    BY <1>1, <1>2, <1>3 DEF Types, UnderLock, PCs, Deciding
  <2>3. nItems' \in Int /\ refs' \in [Records -> Int]
    BY <1>1, <1>2 DEF Types
  <2> QED
    BY <1>1, <1>2, <2>1, <2>2, <2>3 DEF Types
<1>6. held'[t] = r /\ key'[t] = KeyOf[r] /\ node'[t] = r /\ ret'[t] = Null
  BY <1>1, <1>2 DEF Types
<1>7. ASSUME NEW s \in Records
      PROVE  refs'[s] = refs[s] - (IF held[t] = s THEN 1 ELSE 0) + (IF held'[t] = s THEN 1 ELSE 0)
                                + (IF pc[t] = "linked" /\ node[t] = s THEN 1 ELSE 0)
  <2>1. refs[s] \in Int /\ held[t] # s
    BY <1>1, <1>2 DEF Types, Assumptions
  <2>2. refs'[s] = refs[s] + (IF r = s THEN 1 ELSE 0)
    BY <1>1, <1>2, <2>1 DEF Types
  <2> QED
    BY <1>2, <1>6, <2>1, <2>2
<1>8. nItems' = nItems + (IF pc[t] \in {"linked", "count"} THEN 1 ELSE 0)
                       - (IF pc'[t] \in {"linked", "count"} THEN 1 ELSE 0)
  BY <1>1, <1>2, <1>3 DEF Types
<1>9. CountsExact'
  BY <1>3, <1>5, <1>7, <1>8, CountsStep
<1>10. Linked' = Linked
  BY <1>2 DEF Linked
<1>11. Call(t)'
  BY <1>2, <1>3, <1>6 DEF Call, Deciding, Keys, Assumptions
<1>12. Search(t)'
  BY <1>3 DEF Search
<1>13. Private(t)'
  <2>1. \A u \in Threads : held'[u] = r => u = t
    BY <1>1, <1>2, <1>4 DEF Types
  <2> QED
    BY <1>3, <1>4, <1>6, <1>10, <2>1 DEF Private
<1>14. held'[t] \in Takeable(t)
  BY <1>2, <1>6 DEF Takeable
<1> QED
  BY <1>3, <1>5, <1>9, <1>11, <1>12, <1>13, <1>14, LocalStep

LEMMA InsertReferenceStep ==
    ASSUME Assumptions, TableInv, NEW t \in Threads, InsertReference(t)
    PROVE  TableInv'
<1>1. Types /\ Call(t)
  BY DEF TableInv
<1>2. /\ pc[t] = "linked" /\ pc' = [pc EXCEPT ![t] = "count"]
      /\ refs' = [refs EXCEPT ![node[t]] = @ + 1]
      /\ chains' = chains /\ nItems' = nItems /\ readers' = readers /\ key' = key /\ node' = node
      /\ prev' = prev /\ next' = next /\ ret' = ret /\ held' = held
  BY DEF InsertReference, Goto, table
<1>3. pc'[t] = "count" /\ node[t] \in Records
  BY <1>1, <1>2 DEF Types, Call
<1>4. Local(t) /\ Types'
  BY <1>1, <1>2, <1>3 DEF Local, Types, UnderLock, PCs, Deciding
<1>5. ASSUME NEW s \in Records
      PROVE  refs'[s] = refs[s] - (IF held[t] = s THEN 1 ELSE 0) + (IF held'[t] = s THEN 1 ELSE 0)
                                + (IF pc[t] = "linked" /\ node[t] = s THEN 1 ELSE 0)
  <2>1. refs[s] \in Int
    BY <1>1 DEF Types
  <2>2. refs'[s] = refs[s] + (IF node[t] = s THEN 1 ELSE 0)
    BY <1>1, <1>2, <2>1 DEF Types
  <2> QED
    BY <1>2, <2>1, <2>2
<1>6. nItems' = nItems + (IF pc[t] \in {"linked", "count"} THEN 1 ELSE 0)
                       - (IF pc'[t] \in {"linked", "count"} THEN 1 ELSE 0)
  BY <1>1, <1>2, <1>3 DEF Types
<1>7. CountsExact'
  BY <1>3, <1>4, <1>5, <1>6, CountsStep
<1>8. Call(t)' /\ Search(t)' /\ Private(t)'
  BY <1>1, <1>2, <1>3 DEF Call, Search, Private, Deciding
<1>9. held'[t] \in Takeable(t)
  BY <1>2 DEF Takeable
<1> QED
  BY <1>3, <1>4, <1>7, <1>8, <1>9, LocalStep

LEMMA InsertCountStep ==
    ASSUME Assumptions, TableInv, NEW t \in Threads, InsertCount(t)
    PROVE  TableInv'
<1>1. Types /\ Call(t)
  BY DEF TableInv
<1>2. /\ pc[t] = "count" /\ pc' = [pc EXCEPT ![t] = "look"]
      /\ nItems' = nItems + 1 /\ readers' = readers \ {t}
      /\ chains' = chains /\ refs' = refs /\ key' = key /\ node' = node
      /\ prev' = prev /\ next' = next /\ ret' = ret /\ held' = held
  BY DEF InsertCount, Goto
<1>3. pc'[t] = "look"
  BY <1>1, <1>2 DEF Types
<1>4. Local(t) /\ Types'
  BY <1>1, <1>2, <1>3 DEF Local, Types, UnderLock, PCs, Deciding
<1>5. ASSUME NEW s \in Records
      PROVE  refs'[s] = refs[s] - (IF held[t] = s THEN 1 ELSE 0) + (IF held'[t] = s THEN 1 ELSE 0)
                                + (IF pc[t] = "linked" /\ node[t] = s THEN 1 ELSE 0)
  <2>1. refs[s] \in Int
    BY <1>1 DEF Types
  <2> QED
    BY <1>2, <2>1
<1>6. nItems' = nItems + (IF pc[t] \in {"linked", "count"} THEN 1 ELSE 0)
                       - (IF pc'[t] \in {"linked", "count"} THEN 1 ELSE 0)
  BY <1>1, <1>2, <1>3 DEF Types
<1>7. CountsExact'
  BY <1>3, <1>4, <1>5, <1>6, CountsStep
<1>8. Call(t)' /\ Search(t)' /\ Private(t)'
  BY <1>1, <1>2, <1>3 DEF Call, Search, Private, Deciding
<1>9. held'[t] \in Takeable(t)
  BY <1>2 DEF Takeable
<1> QED
  BY <1>3, <1>4, <1>7, <1>8, <1>9, LocalStep

LEMMA DropStep ==
    ASSUME Assumptions, TableInv, NEW t \in Threads, Drop(t)
    PROVE  TableInv'
<1>1. Types /\ Call(t)
  BY DEF TableInv
<1>2. /\ pc[t] = "idle" /\ held[t] # Null /\ held[t] \in Records
      /\ refs' = [refs EXCEPT ![held[t]] = @ - 1] /\ held' = [held EXCEPT ![t] = Null]
      /\ chains' = chains /\ nItems' = nItems /\ readers' = readers /\ pc' = pc
      /\ key' = key /\ node' = node /\ prev' = prev /\ next' = next /\ ret' = ret
  BY <1>1 DEF Drop, table, locals, Types
<1>3. held'[t] = Null
  BY <1>1, <1>2 DEF Types
<1>4. Local(t) /\ Types'
  BY <1>1, <1>2 DEF Local, Types
<1>5. ASSUME NEW s \in Records
      PROVE  refs'[s] = refs[s] - (IF held[t] = s THEN 1 ELSE 0) + (IF held'[t] = s THEN 1 ELSE 0)
                                + (IF pc[t] = "linked" /\ node[t] = s THEN 1 ELSE 0)
  <2>1. refs[s] \in Int /\ held'[t] # s
    BY <1>1, <1>3 DEF Types, Assumptions
  <2>2. refs'[s] = refs[s] - (IF held[t] = s THEN 1 ELSE 0)
    BY <1>1, <1>2, <2>1 DEF Types
  <2> QED
    BY <1>2, <2>1, <2>2
<1>6. nItems' = nItems + (IF pc[t] \in {"linked", "count"} THEN 1 ELSE 0)
                       - (IF pc'[t] \in {"linked", "count"} THEN 1 ELSE 0)
  BY <1>1, <1>2 DEF Types
<1>7. CountsExact'
  BY <1>2, <1>4, <1>5, <1>6, CountsStep
<1>8. Call(t)' /\ Search(t)' /\ Private(t)'
  BY <1>1, <1>2 DEF Call, Search, Private, Deciding
<1>9. held'[t] \in Takeable(t)
  BY <1>3 DEF Takeable
<1> QED
  BY <1>2, <1>4, <1>7, <1>8, <1>9, LocalStep

\* Behind the node that a search has come to is the place of its key.
LEMMA LinkPlace ==
    ASSUME Assumptions, NEW c, Proper(c), NEW r \in Records, NEW x, Walked(c, x, KeyOf[r]),
           After(c, x) = Null \/ HashOf(After(c, x)) > HashOf(r)
    PROVE  LET d == InsertAt(c, Place(c, x) + 1, r) IN
           /\ Proper(d) /\ Range(d) = Range(c) \cup {r}
           /\ \A k, y : Walked(c, y, k) /\ Hash[k] \in Nat => Walked(d, y, k)
<1> DEFINE p == Place(c, x) + 1
<1>1. c \in Seq(Records) /\ Len(c) \in Nat /\ InHashOrder(c)
  BY DEF Proper
<1>2. HashOf(r) = Hash[KeyOf[r]] /\ HashOf(r) \in Nat
  BY DEF Assumptions, HashOf
<1>3. \A y \in Range(c) : KeyOf[y] # KeyOf[r]
  <2> DEFINE n == After(c, x)
  <2>1. n = Null \/ HashOf(n) > Hash[KeyOf[r]] => \A y \in Range(c) : KeyOf[y] # KeyOf[r]
    BY <1>2, NextNode
  <2> QED
    BY <1>2, <2>1
<1>4. \A i \in 1 .. Len(c) : c[i] \in Range(c) /\ c[i] \in Records /\ HashOf(c[i]) \in Nat
  BY <1>1 DEF Range, Assumptions
<1>5. /\ p \in 1 .. Len(c) + 1
      /\ \A i \in 1 .. Len(c) : IF i < p THEN HashOf(c[i]) <= HashOf(r) ELSE HashOf(c[i]) > HashOf(r)
  <2>1. CASE x = Null
    <3>1. p = 1
      BY <2>1 DEF Place
    <3>2. CASE Len(c) = 0
      BY <3>1, <3>2
    <3>3. CASE Len(c) # 0
      <4>1. Place(c, x) = 0 /\ After(c, x) = c[1]
        BY <2>1, <3>3, <1>1 DEF Place, After
      <4>2. 1 \in 1 .. Len(c) /\ c[1] # Null
        <5>1. 1 \in 1 .. Len(c)
          BY <1>1, <3>3
        <5> QED
          BY <5>1, <1>4 DEF Assumptions
      <4>3. HashOf(c[1]) > HashOf(r)
        BY <4>1, <4>2
      <4>4. \A i \in 1 .. Len(c) : i > 1 => HashOf(c[1]) <= HashOf(c[i])
        BY <1>1, <4>2 DEF InHashOrder
      <4>5. ASSUME NEW i \in 1 .. Len(c)  PROVE HashOf(c[i]) > HashOf(r) /\ ~(i < 1)
        <5>1. HashOf(c[i]) \in Nat /\ HashOf(c[1]) \in Nat
          BY <1>4, <4>2
        <5>2. i = 1 \/ HashOf(c[1]) <= HashOf(c[i])
          BY <4>4
        <5> QED
          BY <1>2, <4>3, <5>1, <5>2
      <4> HIDE DEF p
      <4> QED
        BY <3>1, <4>5, <1>1
    <3> QED
      BY <3>2, <3>3
  <2>2. CASE x # Null
    <3>1. PICK j \in 1 .. Len(c) : c[j] = x /\ HashOf(x) <= HashOf(r)
      BY <1>2, <2>2 DEF Walked
    <3>2. Place(c, x) = j
      BY <3>1, PlaceOf
    <3>3. p = j + 1
      BY <3>2
    <3>4. ASSUME NEW i \in 1 .. Len(c), i < p  PROVE HashOf(c[i]) <= HashOf(r)
      <4>1. i = j \/ i < j
        BY <3>3, <3>4
      <4>2. i < j => HashOf(c[i]) <= HashOf(x)
        BY <1>1, <3>1 DEF InHashOrder
      <4>3. HashOf(c[i]) \in Nat /\ HashOf(x) \in Nat
        BY <1>4, <3>1
      <4> QED
        BY <1>2, <3>1, <4>1, <4>2, <4>3
    <3>5. ASSUME NEW i \in 1 .. Len(c), ~(i < p)  PROVE HashOf(c[i]) > HashOf(r)
      <4>1. j + 1 \in 1 .. Len(c) /\ j # Len(c)
        BY <3>3, <3>5, <1>1
      <4>2. After(c, x) = c[j + 1] /\ c[j + 1] # Null
        <5>1. After(c, x) = c[j + 1]
          BY <3>2, <4>1 DEF After
        <5> QED
          BY <5>1, <1>4, <4>1 DEF Assumptions
      <4>3. HashOf(c[j + 1]) > HashOf(r)
        BY <4>2
      <4>4. i = j + 1 \/ HashOf(c[j + 1]) <= HashOf(c[i])
        <5>1. i = j + 1 \/ j + 1 < i
          BY <3>3, <3>5
        <5> QED
          BY <5>1, <4>1, <1>1 DEF InHashOrder
      <4>5. HashOf(c[i]) \in Nat /\ HashOf(c[j + 1]) \in Nat
        BY <1>4, <4>1
      <4> QED
        BY <1>2, <4>3, <4>4, <4>5
    <3>6. p \in 1 .. Len(c) + 1
      BY <3>3, <1>1
    <3> HIDE DEF p
    <3> QED
      BY <3>4, <3>5, <3>6
  <2> QED
    BY <2>1, <2>2
<1>6. \A i \in 1 .. Len(c) : KeyOf[c[i]] # KeyOf[r]
  BY <1>3, <1>4
<1> HIDE DEF p
<1>7. LET d == InsertAt(c, p, r) IN
      /\ Proper(d) /\ Range(d) = Range(c) \cup {r}
      /\ \A k, y : Walked(c, y, k) /\ Hash[k] \in Nat => Walked(d, y, k)
  BY <1>5, <1>6, Inserted
<1> QED
  BY <1>7 DEF p

\* The node of t is linked.
LinksNode(t) ==
    LET b == Bucket(key[t]) IN
    /\ node[t] # Null /\ pc[t] = "past" /\ After(chains[b], prev[t]) = next[t]
    /\ chains' = [chains EXCEPT ![b] = InsertAt(@, Place(@, prev[t]) + 1, node[t])]
    /\ Goto(t, "linked") /\ ret' = [ret EXCEPT ![t] = "ok"]
    /\ prev' = [prev EXCEPT ![t] = Null] /\ next' = [next EXCEPT ![t] = Null]
    /\ UNCHANGED <<nItems, readers, key, node, refs, held>>

LEMMA Linking ==
    ASSUME Assumptions, TableInv, NEW t \in Threads, LinksNode(t)
    PROVE  /\ node[t] \in Records /\ node[t] \notin Linked /\ KeyOf[node[t]] = key[t]
           /\ \A y \in Linked : KeyOf[y] # key[t]
           /\ Linked' = Linked \cup {node[t]} /\ nBuckets' = nBuckets /\ Buckets'
           /\ \A k, y : k \in Keys /\ Walked(chains[Bucket(k)], y, k) => Walked(chains'[Bucket(k)], y, k)
<1>1. Types /\ Buckets /\ Call(t) /\ Search(t) /\ Private(t)
  BY DEF TableInv
<1> DEFINE k == key[t]
           b == Bucket(k)
           c == chains[b]
           x == prev[t]
           r == node[t]
           d == InsertAt(c, Place(c, x) + 1, r)
<1>2. r \in Records /\ r \notin Linked /\ KeyOf[r] = k /\ k \in Keys /\ r # Null
  BY <1>1 DEF LinksNode, Types, Private, Call, Deciding
<1>3. /\ Hash[k] \in Nat /\ b \in 0 .. nBuckets - 1 /\ Hash[k] = HashOf(r)
      /\ Walked(c, x, k)
      /\ After(c, x) = Null \/ HashOf(After(c, x)) > Hash[k]
  <2>1. Hash[k] \in Nat /\ b \in 0 .. nBuckets - 1
    BY <1>1, <1>2, LinkedNodes
  <2>2. Hash[k] = HashOf(r)
    BY <1>2 DEF HashOf
  <2>3. Walked(c, x, k) /\ After(c, x) = next[t] /\ (next[t] = Null \/ HashOf(next[t]) > Hash[k])
    BY <1>1 DEF LinksNode, Search
  <2> QED
    BY <2>1, <2>2, <2>3
<1>4. Proper(c) /\ b \in DOMAIN chains /\ DOMAIN chains = 0 .. nBuckets - 1
  BY <1>1, <1>3 DEF Buckets
<1>5. /\ Proper(d) /\ Range(d) = Range(c) \cup {r}
      /\ \A l, y : Walked(c, y, l) /\ Hash[l] \in Nat => Walked(d, y, l)
  <2> HIDE DEF b, c, x, r, k
  <2>1. Walked(c, x, KeyOf[r]) /\ (After(c, x) = Null \/ HashOf(After(c, x)) > HashOf(r))
    BY <1>2, <1>3
  <2> QED
    BY <1>2, <1>4, <2>1, LinkPlace
<1>6. chains' = [chains EXCEPT ![b] = d]
  BY DEF LinksNode
<1>7. \A y \in Linked : KeyOf[y] # k
  <2>1. \A y \in Range(c) : KeyOf[y] # k
    <3> DEFINE n == After(c, x)
    <3> HIDE DEF b, c, x, k, r
    <3>1. n = Null \/ HashOf(n) > Hash[k] => \A y \in Range(c) : KeyOf[y] # k
      BY <1>3, <1>4, NextNode
    <3> QED
      BY <1>3, <3>1
  <2> QED
    BY <1>1, <2>1, LinkedNodes
<1> HIDE DEF b, d, c, k, r, x
<1>8. /\ DOMAIN chains' = DOMAIN chains /\ chains'[b] = d
      /\ \A i \in DOMAIN chains : i # b => chains'[i] = chains[i]
  BY <1>4, <1>6
<1>9. Linked' = Linked \cup {r}
  <2>1. \A i \in DOMAIN chains : Range(chains'[i]) = IF i = b THEN Range(chains[i]) \cup {r} ELSE Range(chains[i])
    BY <1>5, <1>8 DEF c
  <2> QED
    BY <1>4, <1>8, <2>1 DEF Linked
<1>10. nBuckets' = nBuckets
  BY <1>8 DEF nBuckets
<1>11. Buckets'
  <2>1. HashOf(r) % nBuckets = b
    BY <1>3 DEF b, Bucket
  <2>2. \A y \in Range(d) : HashOf(y) % nBuckets = b
    BY <1>1, <1>3, <1>5, <2>1 DEF Buckets, c
  <2>3. ASSUME NEW i \in 0 .. nBuckets - 1
        PROVE  Proper(chains'[i]) /\ \A y \in Range(chains'[i]) : HashOf(y) % nBuckets = i
    BY <1>1, <1>4, <1>5, <1>8, <2>2 DEF Buckets
  <2>4. nBuckets \in 1 .. Cardinality(Records) + 1 /\ DOMAIN chains = 0 .. nBuckets - 1
    BY <1>1 DEF Buckets
  <2> HIDE DEF nBuckets
  <2> QED
    BY <1>8, <1>10, <2>3, <2>4 DEF Buckets
<1>12. ASSUME NEW l \in Keys, NEW y, Walked(chains[Bucket(l)], y, l)
       PROVE  Walked(chains'[Bucket(l)], y, l)
  <2>1. Hash[l] \in Nat /\ Bucket(l) \in DOMAIN chains
    BY <1>1, <1>4, LinkedNodes
  <2>2. CASE Bucket(l) = b
    BY <1>5, <1>8, <1>12, <2>1, <2>2 DEF c
  <2>3. CASE Bucket(l) # b
    BY <1>8, <1>12, <2>1, <2>3
  <2> QED
    BY <2>2, <2>3
<1> QED
  BY <1>2, <1>7, <1>9, <1>10, <1>11, <1>12 DEF r, k

LEMMA LinkStep ==
    ASSUME Assumptions, TableInv, NEW t \in Threads, LinksNode(t)
    PROVE  TableInv'
<1>1. /\ Types /\ Buckets /\ CountsExact
      /\ \A u \in Threads : Call(u) /\ Search(u) /\ Private(u)
  BY DEF TableInv
<1> DEFINE r == node[t]
<1>2. /\ node[t] # Null /\ pc[t] = "past" /\ pc' = [pc EXCEPT ![t] = "linked"]
      /\ ret' = [ret EXCEPT ![t] = "ok"]
      /\ prev' = [prev EXCEPT ![t] = Null] /\ next' = [next EXCEPT ![t] = Null]
      /\ nItems' = nItems /\ readers' = readers /\ key' = key /\ node' = node /\ refs' = refs /\ held' = held
  BY DEF LinksNode, Goto
<1>3. /\ r \in Records /\ r \notin Linked /\ KeyOf[r] = key[t]
      /\ Linked' = Linked \cup {r} /\ nBuckets' = nBuckets /\ Buckets'
      /\ \A k, y : k \in Keys /\ Walked(chains[Bucket(k)], y, k) => Walked(chains'[Bucket(k)], y, k)
  BY Linking
<1>4. Types'
  BY <1>1, <1>2 DEF Types, UnderLock, PCs, Deciding
<1>5. pc'[t] = "linked" /\ \A u \in Threads \ {t} : /\ pc'[u] = pc[u] /\ ret'[u] = ret[u]
                                                   /\ prev'[u] = prev[u] /\ next'[u] = next[u]
  BY <1>1, <1>2 DEF Types
<1>6. CountsExact'
  <2>1. nItems' = Cardinality(Linked') - Cardinality(Pending({"linked", "count"})')
    <3> DEFINE A == Pending({"linked", "count"})
               B == Pending({"linked", "count"})'
    <3>1. A \subseteq Threads /\ B \subseteq Threads /\ A \ {t} = B \ {t} /\ t \notin A /\ t \in B
      BY <1>2, <1>5 DEF Pending
    <3>2. nItems = Cardinality(Linked) - Cardinality(A) /\ nItems \in Int
      BY <1>1 DEF CountsExact, Types
    <3>3. Cardinality(Linked) \in Int /\ Cardinality(Linked') = Cardinality(Linked) + 1
      <4>1. IsFiniteSet(Linked)
        <5>1. Linked \subseteq Records
          BY <1>1, LinkedNodes
        <5> QED
          BY <5>1, FS_Subset DEF Assumptions
      <4>2. Cardinality(Linked \cup {r}) = Cardinality(Linked) + 1
        BY <1>3, <4>1, FS_AddElement
      <4> QED
        BY <1>3, <4>1, <4>2, FS_CardinalityType
    <3> HIDE DEF A, B
    <3>4. Cardinality(A) \in Nat /\ Cardinality(B) \in Nat /\ Cardinality(B) = Cardinality(A) + 1
      <4>1. /\ Cardinality(A) \in Nat /\ Cardinality(B) \in Nat
            /\ Cardinality(B) = Cardinality(A) - (IF t \in A THEN 1 ELSE 0) + (IF t \in B THEN 1 ELSE 0)
        BY <3>1, OneThread
      <4> QED
        BY <3>1, <4>1
    <3>5. nItems' = Cardinality(Linked') - Cardinality(B)
      BY <1>2, <3>2, <3>3, <3>4
    <3> QED
      BY <3>5 DEF B
  <2>2. ASSUME NEW s \in Records
        PROVE  refs'[s] = Cardinality({u \in Threads : held[u] = s})'
                   + (IF s \in Linked' /\ \A u \in Pending({"linked"})' : node'[u] # s THEN 1 ELSE 0)
    <3> DEFINE A == {u \in Threads : held[u] = s}
               w == IF s \in Linked /\ \A u \in Pending({"linked"}) : node[u] # s THEN 1 ELSE 0
               v == IF s \in Linked' /\ \A u \in Pending({"linked"})' : node'[u] # s THEN 1 ELSE 0
    <3>1. refs[s] = Cardinality(A) + w
      BY <1>1 DEF CountsExact
    <3>2. v = w
      <4>1. CASE s = r
        <5>1. t \in Pending({"linked"})' /\ node'[t] = s
          BY <1>2, <1>5, <4>1 DEF Pending
        <5> QED
          BY <1>3, <4>1, <5>1
      <4>2. CASE s # r
        <5>1. s \in Linked' <=> s \in Linked
          BY <1>3, <4>2
        <5>2. (\A u \in Pending({"linked"})' : node'[u] # s) <=> \A u \in Pending({"linked"}) : node[u] # s
          BY <1>2, <1>5, <4>2 DEF Pending
        <5> QED
          BY <5>1, <5>2
      <4> QED
        BY <4>1, <4>2
    <3>3. {u \in Threads : held'[u] = s} = A
      BY <1>2
    <3> HIDE DEF A, w
    <3> QED
      BY <1>2, <3>1, <3>2, <3>3
  <2> QED
    BY <2>1, <2>2 DEF CountsExact
<1>7. Call(t)' /\ Search(t)' /\ Private(t)'
  <2>1. Call(t) /\ ret'[t] = "ok" /\ key'[t] = key[t] /\ node'[t] = r /\ held'[t] = held[t]
    BY <1>1, <1>2 DEF Types
  <2>2. Call(t)'
    BY <1>2, <1>3, <1>5, <2>1 DEF Call, Deciding
  <2>3. Search(t)'
    BY <1>5 DEF Search
  <2>4. ASSUME NEW u \in Threads \ {t}, pc'[u] = "linked", node'[u] = r  PROVE FALSE
    <3>1. pc[u] = "linked" /\ node[u] = r
      BY <1>2, <1>5, <2>4
    <3> QED
      BY <1>1, <1>3, <3>1 DEF Private
  <2>5. Private(t)'
    BY <1>2, <1>3, <1>5, <2>1, <2>4 DEF Private, Deciding
  <2> QED
    BY <2>2, <2>3, <2>5
<1>8. ASSUME NEW u \in Threads \ {t}  PROVE Call(u)' /\ Search(u)' /\ Private(u)'
  <2>1. /\ pc'[u] = pc[u] /\ ret'[u] = ret[u] /\ prev'[u] = prev[u] /\ next'[u] = next[u]
        /\ key'[u] = key[u] /\ node'[u] = node[u] /\ held'[u] = held[u]
        /\ Call(u) /\ Search(u) /\ Private(u)
    BY <1>1, <1>2, <1>5
  <2>2. Call(u)'
    BY <1>3, <2>1 DEF Call
  <2>3. Search(u)'
    <3>1. CASE pc[u] \in {"walk", "past"}
      <4>1. key[u] \in Keys
        BY <2>1, <3>1 DEF Call, Deciding
      <4>2. Bucket(key[u])' = Bucket(key[u])
        BY <1>3, <2>1 DEF Bucket
      <4>3. pc[u] = "walk" => Walked(chains'[Bucket(key[u])], next[u], key[u])
        BY <1>3, <2>1, <4>1 DEF Search
      <4>4. pc[u] = "past" => Walked(chains'[Bucket(key[u])], prev[u], key[u])
        BY <1>3, <2>1, <4>1 DEF Search
      <4> QED
        BY <2>1, <4>2, <4>3, <4>4 DEF Search
    <3>2. CASE pc[u] \notin {"walk", "past"}
      BY <2>1, <3>2 DEF Search
    <3> QED
      BY <3>1, <3>2
  <2>4. Private(u)'
    <3>1. node[u] # Null /\ pc[u] \in Deciding => node[u] # r
      <4>1. node[u] # Null /\ pc[u] \in Deciding => held[u] = node[u]
        BY <2>1 DEF Call
      <4>2. \A v \in Threads : held[v] = r => v = t
        BY <1>1, <1>2 DEF Private, Deciding
      <4> QED
        BY <4>1, <4>2
    <3>2. node[u] # Null /\ pc[u] \in Deciding => node[u] \notin Linked'
      BY <1>3, <2>1, <3>1 DEF Private
    <3>3. ASSUME pc[u] = "linked", NEW v \in Threads, pc'[v] = "linked", node[v] = node[u]  PROVE v = u
      <4>1. node[u] \in Linked
        BY <2>1, <3>3 DEF Private
      <4>2. v # t
        BY <1>3, <3>3, <4>1
      <4> QED
        BY <1>5, <2>1, <3>3, <4>2 DEF Private
    <3> QED
      BY <1>2, <1>3, <2>1, <3>2, <3>3 DEF Private
  <2> QED
    BY <2>2, <2>3, <2>4
<1> QED
  BY <1>3, <1>4, <1>6, <1>7, <1>8 DEF TableInv

LEMMA InsertLinkStep ==
    ASSUME Assumptions, TableInv, NEW t \in Threads, InsertLink(t)
    PROVE  TableInv'
<1>1. CASE LinksNode(t)
  BY <1>1, LinkStep
<1>2. CASE FindNodeInternal(t, Null, key[t]) /\ pc[t] = "past" /\ UNCHANGED <<table, readers, key, node, refs, held>>
  <2>1. readers' = readers \cup {t}
    BY <1>2 DEF TableInv, Types, UnderLock
  <2> QED
    BY <1>2, <2>1, SearchStep DEF Walked, Deciding
<1> QED
  BY <1>1, <1>2 DEF InsertLink, LinksNode, table

-----------------------------------------------------------------------------
(* The steps under the exclusive lock.                                     *)

\* With no reader the table is at rest: no search has begun and no insert is
\* pending.
LEMMA AtRest ==
    ASSUME Assumptions, TableInv, readers = {}
    PROVE  /\ \A u \in Threads : pc[u] \notin UnderLock
           /\ Linked \subseteq Records /\ IsFiniteSet(Linked)
           /\ Cardinality(Linked) \in Nat /\ Cardinality(Linked) <= Cardinality(Records)
           /\ Cardinality(Records) \in Nat /\ nItems = Cardinality(Linked)
<1>1. Types /\ Buckets /\ CountsExact
  BY DEF TableInv
<1>2. \A u \in Threads : pc[u] \notin UnderLock
  BY <1>1 DEF Types
<1>3. Linked \subseteq Records
  BY <1>1, LinkedNodes
<1>4. /\ IsFiniteSet(Linked) /\ Cardinality(Linked) \in Nat
      /\ Cardinality(Linked) <= Cardinality(Records) /\ Cardinality(Records) \in Nat
  BY <1>3, FS_Subset, FS_CardinalityType DEF Assumptions
<1>5. Pending({"linked", "count"}) = {}
  BY <1>2 DEF Pending, UnderLock
<1>6. nItems = Cardinality(Linked)
  <2>1. nItems = Cardinality(Linked) - Cardinality({})
    BY <1>1, <1>5 DEF CountsExact
  <2> QED
    BY <1>4, <2>1, FS_EmptySet
<1> QED
  BY <1>2, <1>3, <1>4, <1>6

\* A step made under the exclusive lock.
LEMMA QuietStep ==
    ASSUME Assumptions, TableInv, readers = {}, Buckets', Linked' \subseteq Linked,
           UNCHANGED <<readers, key, node, prev, next, ret, held>>,
           pc' \in [Threads -> PCs],
           \A u \in Threads : pc'[u] = pc[u] \/ (pc[u] = "rehash" /\ pc'[u] = "return"),
           nItems' = Cardinality(Linked'), refs' \in [Records -> Int],
           \A r \in Records : refs'[r] = refs[r] - (IF r \in Linked \ Linked' THEN 1 ELSE 0)
    PROVE  TableInv'
<1>1. /\ Types /\ Buckets /\ CountsExact
      /\ \A u \in Threads : Call(u) /\ Search(u) /\ Private(u)
  BY DEF TableInv
<1>2. \A u \in Threads : pc[u] \notin UnderLock /\ pc'[u] \notin UnderLock
  <2>1. \A u \in Threads : pc[u] \notin UnderLock
    BY AtRest
  <2> QED
    BY <2>1 DEF UnderLock
<1>3. Linked' \subseteq Records /\ IsFiniteSet(Linked') /\ Cardinality(Linked') \in Nat
  <2>1. Linked' \subseteq Records
    BY AtRest
  <2> QED
    BY <2>1, FS_Subset, FS_CardinalityType DEF Assumptions
<1>4. Types'
  BY <1>1, <1>2, <1>3 DEF Types
<1>5. CountsExact'
  <2>1. \A l \in {{"linked", "count"}, {"linked"}} : Pending(l) = {} /\ Pending(l)' = {}
    BY <1>2 DEF Pending, UnderLock
  <2>2. nItems' = Cardinality(Linked') - Cardinality(Pending({"linked", "count"})')
    <3>1. nItems' = Cardinality(Linked') - 0
      BY <1>3
    <3> QED
      BY <2>1, <3>1, FS_EmptySet
  <2>3. ASSUME NEW s \in Records
        PROVE  refs'[s] = Cardinality({u \in Threads : held[u] = s})'
                   + (IF s \in Linked' /\ \A u \in Pending({"linked"})' : node'[u] # s THEN 1 ELSE 0)
    <3> DEFINE A == {u \in Threads : held[u] = s}
    <3>1. refs[s] = Cardinality(A)
              + (IF s \in Linked /\ \A u \in Pending({"linked"}) : node[u] # s THEN 1 ELSE 0)
      BY <1>1 DEF CountsExact
    <3>2. refs[s] = Cardinality(A) + (IF s \in Linked THEN 1 ELSE 0)
      BY <2>1, <3>1
    <3>3. Cardinality(A) \in Nat
      BY FS_Subset, FS_CardinalityType DEF Assumptions
    <3>4. {u \in Threads : held'[u] = s} = A
      OBVIOUS
    <3> HIDE DEF A
    <3>5. refs'[s] = Cardinality(A) + (IF s \in Linked' THEN 1 ELSE 0)
      BY <3>2, <3>3
    <3> QED
      BY <2>1, <3>4, <3>5
  <2> QED
    BY <2>2, <2>3 DEF CountsExact
<1>6. ASSUME NEW u \in Threads  PROVE Call(u)' /\ Search(u)' /\ Private(u)'
  <2>1. Call(u) /\ Private(u) /\ pc[u] \notin UnderLock /\ pc'[u] \notin UnderLock
    BY <1>1, <1>2
  <2>2. Call(u)'
    <3>1. /\ key'[u] = key[u] /\ node'[u] = node[u] /\ ret'[u] = ret[u] /\ held'[u] = held[u]
          /\ pc'[u] \notin UnderLock
          /\ pc'[u] = pc[u] \/ (pc[u] = "rehash" /\ pc'[u] = "return")
      BY <2>1
    <3> QED
      BY <2>1, <3>1 DEF Call, Deciding, UnderLock
  <2>3. Search(u)'
    BY <2>1 DEF Search, UnderLock
  <2>4. Private(u)'
    BY <2>1 DEF Private, Deciding, UnderLock
  <2> QED
    BY <2>2, <2>3, <2>4
<1> QED
  BY <1>4, <1>5, <1>6 DEF TableInv

LEMMA RehashStep ==
    ASSUME Assumptions, TableInv, NEW t \in Threads, Rehash(t)
    PROVE  TableInv' /\ Linked' = Linked
<1>1. Types /\ Buckets /\ readers = {}
  BY DEF TableInv, Rehash
<1>2. /\ Linked \subseteq Records /\ nItems = Cardinality(Linked) /\ Cardinality(Linked) \in Nat
      /\ Cardinality(Linked) <= Cardinality(Records) /\ Cardinality(Records) \in Nat
  BY <1>1, AtRest
<1>3. Buckets' /\ Linked' = Linked
  <2>1. CASE chains' = chains
    BY <1>1, <2>1 DEF Buckets, Linked, nBuckets
  <2>2. CASE TooMany /\ chains' = Rechained(GetPrime[2 * nBuckets])
    <3> DEFINE m == GetPrime[2 * nBuckets]
    <3>1. m \in Nat \ {0} /\ nItems > m
      BY <1>1, <2>2 DEF Buckets, Assumptions, TooMany
    <3> HIDE DEF m
    <3>2. m \in 1 .. Cardinality(Records) + 1
      BY <1>2, <3>1
    <3>3. /\ DOMAIN chains' = 0 .. m - 1
          /\ \A b \in 0 .. m - 1 : Proper(chains'[b]) /\ \A y \in Range(chains'[b]) : HashOf(y) % m = b
          /\ UNION {Range(chains'[b]) : b \in 0 .. m - 1} = Linked
      <4>1. chains' = Rechained(m)
        BY <2>2 DEF m
      <4>2. LET d == Rechained(m) IN
            /\ DOMAIN d = 0 .. m - 1
            /\ \A b \in 0 .. m - 1 : Proper(d[b]) /\ \A y \in Range(d[b]) : HashOf(y) % m = b
            /\ UNION {Range(d[b]) : b \in 0 .. m - 1} = Linked
        BY <1>1, <3>1, RechainedTable
      <4> QED
        BY <4>1, <4>2
    <3>4. nBuckets' = m
      <4>1. Cardinality(0 .. m - 1) = IF 0 > m - 1 THEN 0 ELSE m - 1 - 0 + 1
        BY <3>1, FS_Interval
      <4> QED
        BY <3>1, <3>3, <4>1 DEF nBuckets
    <3>5. Linked' = Linked
      BY <3>3 DEF Linked
    <3> QED
      BY <3>2, <3>3, <3>4, <3>5 DEF Buckets
  <2> QED
    BY <2>1, <2>2 DEF Rehash
<1>4. /\ pc[t] = "rehash" /\ pc' = [pc EXCEPT ![t] = "return"] /\ nItems' = nItems /\ refs' = refs
      /\ UNCHANGED <<readers, key, node, prev, next, ret, held>>
  BY DEF Rehash, Goto
<1>5. /\ pc' \in [Threads -> PCs] /\ refs' \in [Records -> Int]
      /\ \A u \in Threads : pc'[u] = pc[u] \/ (pc[u] = "rehash" /\ pc'[u] = "return")
  BY <1>1, <1>4 DEF Types, PCs
<1>6. \A r \in Records : refs'[r] = refs[r] - (IF r \in Linked \ Linked' THEN 1 ELSE 0)
  BY <1>1, <1>3, <1>4 DEF Types
<1> QED
  BY <1>1, <1>2, <1>3, <1>4, <1>5, <1>6, QuietStep

\* Nodes leave the table.
LEMMA DeleteStep ==
    ASSUME Assumptions, TableInv, NEW S, S \subseteq Linked, DeleteNodes(S),
           nItems' = nItems - Cardinality(S)
    PROVE  TableInv' /\ Linked' = Linked \ S
<1>1. Types /\ Buckets /\ readers = {}
  BY DEF TableInv, DeleteNodes
<1>2. /\ Linked \subseteq Records /\ nItems = Cardinality(Linked) /\ Cardinality(Linked) \in Nat
      /\ IsFiniteSet(Linked)
  BY <1>1, AtRest
<1>3. /\ chains' = [b \in DOMAIN chains |-> Filter(chains[b], Records \ S)]
      /\ refs' = [r \in Records |-> IF r \in S THEN refs[r] - 1 ELSE refs[r]]
      /\ UNCHANGED <<readers, pc, key, node, prev, next, ret, held>>
  BY DEF DeleteNodes, locals
<1>4. \A b \in DOMAIN chains : /\ Proper(chains'[b])
                               /\ Range(chains'[b]) = Range(chains[b]) \ S
  <2> SUFFICES ASSUME NEW b \in DOMAIN chains
               PROVE  Proper(chains'[b]) /\ Range(chains'[b]) = Range(chains[b]) \ S
    OBVIOUS
  <2>1. chains[b] \in Seq(Records) /\ Proper(chains[b])
    BY <1>1 DEF Buckets, Proper
  <2>2. chains'[b] = Filter(chains[b], Records \ S)
    BY <1>3
  <2>3. Proper(chains'[b])
    BY <2>1, <2>2, FilterProper
  <2>4. Range(chains'[b]) = Range(chains[b]) \cap (Records \ S)
    BY <2>1, <2>2, FilterRange
  <2>5. Range(chains[b]) \subseteq Records
    BY <2>1 DEF Range
  <2> QED
    BY <2>3, <2>4, <2>5
<1>5. DOMAIN chains' = DOMAIN chains /\ nBuckets' = nBuckets
  BY <1>3 DEF nBuckets
<1>6. Linked' = Linked \ S
  BY <1>4, <1>5 DEF Linked
<1>7. Buckets'
  <2>1. nBuckets \in 1 .. Cardinality(Records) + 1 /\ DOMAIN chains = 0 .. nBuckets - 1
    BY <1>1 DEF Buckets
  <2>2. ASSUME NEW b \in 0 .. nBuckets - 1
        PROVE  Proper(chains'[b]) /\ \A y \in Range(chains'[b]) : HashOf(y) % nBuckets = b
    <3>1. \A y \in Range(chains[b]) : HashOf(y) % nBuckets = b
      BY <1>1 DEF Buckets
    <3> QED
      BY <1>4, <2>1, <3>1
  <2> QED
    BY <1>5, <2>1, <2>2 DEF Buckets
<1>8. nItems' = Cardinality(Linked')
  <2>1. Cardinality(Linked \ S) = Cardinality(Linked) - Cardinality(Linked \cap S)
    BY <1>2, FS_Difference
  <2>2. Linked \cap S = S
    OBVIOUS
  <2> QED
    BY <1>2, <1>6, <2>1, <2>2
<1>9. /\ pc' \in [Threads -> PCs] /\ refs' \in [Records -> Int]
      /\ \A u \in Threads : pc'[u] = pc[u]
  BY <1>1, <1>3 DEF Types
<1>10. \A r \in Records : refs'[r] = refs[r] - (IF r \in Linked \ Linked' THEN 1 ELSE 0)
  BY <1>1, <1>3, <1>6 DEF Types
<1> QED
  BY <1>1, <1>3, <1>6, <1>7, <1>8, <1>9, <1>10, QuietStep

LEMMA DeleteKeyStep ==
    ASSUME Assumptions, TableInv, NEW k \in Keys, DeleteKey(k)
    PROVE  TableInv' /\ Linked' \subseteq Linked
<1> DEFINE S == {r \in Linked : KeyOf[r] = k}
<1>1. S # {} /\ DeleteNodes(S) /\ nItems' = nItems - 1
  BY DEF DeleteKey
<1>2. Cardinality(S) = 1
  <2>1. \A x, y \in Linked : KeyOf[x] = KeyOf[y] => x = y
    BY LinkedNodes DEF TableInv
  <2>2. PICK x \in S : S = {x}
    BY <1>1, <2>1
  <2> QED
    BY <2>2, FS_Singleton
<1>3. S \subseteq Linked
  OBVIOUS
<1> HIDE DEF S
<1> QED
  BY <1>1, <1>2, <1>3, DeleteStep

LEMMA DeleteIfStep ==
    ASSUME Assumptions, TableInv, NEW F \in Filters, DeleteIf(F)
    PROVE  TableInv' /\ Linked' \subseteq Linked
<1> DEFINE S == F \cap Linked
<1>1. DeleteNodes(S) /\ nItems' = nItems - Cardinality(S) /\ S \subseteq Linked
  BY DEF DeleteIf
<1> HIDE DEF S
<1> QED
  BY <1>1, DeleteStep

LEMMA ClearStep ==
    ASSUME Assumptions, TableInv, Clear
    PROVE  TableInv' /\ Linked' \subseteq Linked
<1>1. DeleteNodes(Linked) /\ nItems' = 0 /\ readers = {}
  BY DEF Clear, DeleteNodes
<1>2. nItems = Cardinality(Linked) /\ Cardinality(Linked) \in Nat
  BY <1>1, AtRest
<1>3. nItems' = nItems - Cardinality(Linked)
  BY <1>1, <1>2
<1> QED
  BY <1>1, <1>3, DeleteStep

LEMMA TableInit ==
    ASSUME Assumptions, Init
    PROVE  TableInv
<1>1. chains = [b \in {0} |-> <<>>]
  BY DEF Init
<1>2. nBuckets = 1 /\ DOMAIN chains = 0 .. 0 /\ 0 .. 0 = {0}
  <2>1. DOMAIN chains = {0} /\ 0 .. 0 = {0}
    BY <1>1
  <2> QED
    BY <2>1, FS_Singleton DEF nBuckets
<1>3. chains[0] = <<>> /\ Range(chains[0]) = {}
  BY <1>1 DEF Range
<1>4. Linked = {}
  BY <1>2, <1>3 DEF Linked
<1>5. Cardinality(Records) \in Nat
  BY FS_CardinalityType DEF Assumptions
<1>6. Buckets
  <2>1. Proper(<<>>)
    BY DEF Proper, InHashOrder, OneKeyEach
  <2>2. 1 \in 1 .. Cardinality(Records) + 1 /\ 1 - 1 = 0
    BY <1>5
  <2> QED
    BY <1>2, <1>3, <2>1, <2>2 DEF Buckets
<1>7. Types
  BY DEF Init, Types, PCs, UnderLock
<1>8. CountsExact
  <2>1. Pending({"linked", "count"}) = {}
    BY DEF Init, Pending
  <2>2. nItems = Cardinality(Linked) - Cardinality(Pending({"linked", "count"}))
    BY <1>4, <2>1, FS_EmptySet DEF Init
  <2>3. ASSUME NEW s \in Records  PROVE {u \in Threads : held[u] = s} = {} /\ refs[s] = 0
    BY DEF Init, Assumptions
  <2>4. ASSUME NEW s \in Records
        PROVE  refs[s] = Cardinality({u \in Threads : held[u] = s})
                   + (IF s \in Linked /\ \A u \in Pending({"linked"}) : node[u] # s THEN 1 ELSE 0)
    <3>1. Cardinality({u \in Threads : held[u] = s}) = 0 /\ refs[s] = 0
      BY <2>3, FS_EmptySet
    <3> QED
      BY <1>4, <3>1
  <2> QED
    BY <2>2, <2>4 DEF CountsExact
<1>9. ASSUME NEW u \in Threads  PROVE Call(u) /\ Search(u) /\ Private(u)
  BY DEF Init, Call, Search, Private, Deciding
<1> QED
  BY <1>6, <1>7, <1>8, <1>9 DEF TableInv

LEMMA TableStep ==
    ASSUME Assumptions, TableInv, [Next]_vars
    PROVE  TableInv'
<1>1. CASE UNCHANGED vars
  <2>1. /\ chains' = chains /\ nItems' = nItems /\ readers' = readers /\ pc' = pc /\ key' = key
        /\ node' = node /\ prev' = prev /\ next' = next /\ ret' = ret /\ refs' = refs /\ held' = held
    BY <1>1 DEF vars, table, locals
  <2>2. Linked' = Linked /\ nBuckets' = nBuckets
    BY <2>1 DEF Linked, nBuckets
  <2>3. Types' /\ Buckets' /\ CountsExact'
    BY <2>1, <2>2 DEF TableInv, Types, Buckets, CountsExact, Pending
  <2>4. ASSUME NEW t \in Threads  PROVE Call(t)' /\ Search(t)' /\ Private(t)'
    <3>1. Call(t) /\ Search(t) /\ Private(t)
      BY DEF TableInv
    <3>2. Call(t)' /\ Private(t)'
      BY <2>1, <2>2, <3>1 DEF Call, Private
    <3>3. Search(t)'
      BY <2>1, <2>2, <3>1 DEF Search, Bucket
    <3> QED
      BY <3>2, <3>3
  <2> QED
    BY <2>3, <2>4 DEF TableInv
<1>2. ASSUME NEW t \in Threads,
             \/ Acquire(t) \/ Advance(t) \/ FindKeyEnd(t) \/ Return(t) \/ Drop(t)
             \/ InsertExists(t) \/ InsertLink(t) \/ InsertReference(t) \/ InsertCount(t)
             \/ RehashLook(t) \/ Rehash(t)
      PROVE  TableInv'
  BY <1>2, AcquireStep, AdvanceStep, FindKeyEndStep, ReturnStep, DropStep, InsertExistsStep,
     InsertLinkStep, InsertReferenceStep, InsertCountStep, RehashLookStep, RehashStep
<1>3. ASSUME NEW t \in Threads, NEW k \in Keys, FindKey(t, k)  PROVE TableInv'
  BY <1>3, FindKeyStep
<1>4. ASSUME NEW t \in Threads, NEW r \in Records, InsertRecord(t, r)  PROVE TableInv'
  BY <1>4, InsertRecordStep
<1>5. ASSUME NEW k \in Keys, DeleteKey(k)  PROVE TableInv'
  BY <1>5, DeleteKeyStep
<1>6. ASSUME NEW F \in Filters, DeleteIf(F)  PROVE TableInv'
  BY <1>6, DeleteIfStep
<1>7. ASSUME Clear  PROVE TableInv'
  BY <1>7, ClearStep
<1> QED
  BY <1>1, <1>2, <1>3, <1>4, <1>5, <1>6, <1>7 DEF Next

\* One reference for the table and one for every caller, and the count of the
\* items exact but for inserts on their way (_nItems, ReferenceRecord and
\* DereferenceRecord of hashtable.h), for every number of threads and records.
THEOREM CountsTheorem == ASSUME Assumptions  PROVE Spec => []CountsExact
<1>1. Init => TableInv
  BY TableInit
<1>2. TableInv /\ [Next]_vars => TableInv'
  BY TableStep
<1>3. TableInv => CountsExact
  BY DEF TableInv
<1> QED
  BY <1>1, <1>2, <1>3, PTL DEF Spec

-----------------------------------------------------------------------------
(* The table as a KeyedSet.                                                *)

\* The calls as a KeyedSet sees them.
CallOf(t) ==
    IF pc[t] = "idle" THEN Null
    ELSE IF node[t] = Null THEN [op |-> "find", key |-> key[t]]
    ELSE [op |-> "insert", record |-> node[t]]
Underway == [t \in Threads |-> CallOf(t)]

\* A call that is underway is not Null.
LEMMA CallShown ==
    ASSUME Assumptions, TableInv, NEW t \in Threads, pc[t] # "idle"
    PROVE  /\ node[t] # Null => /\ Underway[t] # Null /\ Underway[t].op = "insert"
                                /\ Underway[t].record = node[t] /\ node[t] \in Records
           /\ node[t] = Null /\ key[t] \in Keys =>
                  Underway[t] # Null /\ Underway[t].op = "find" /\ Underway[t].key = key[t]
<1>1. Underway[t] = CallOf(t) /\ node[t] \in Records \cup {Null}
  BY DEF Underway, TableInv, Types
<1>2. \A k \in Keys : [op |-> "find", key |-> k] # Null
  BY DEF Assumptions
<1>3. \A r \in Records : [op |-> "insert", record |-> r] # Null
  BY DEF Assumptions
<1> QED
  BY <1>1, <1>2, <1>3 DEF CallOf

\* A step changes the call of its thread only.
LEMMA CallChanged ==
    ASSUME NEW t \in Threads,
           \A u \in Threads \ {t} : pc'[u] = pc[u] /\ key'[u] = key[u] /\ node'[u] = node[u]
    PROVE  /\ Underway' = [Underway EXCEPT ![t] = CallOf(t)']
           /\ CallOf(t)' = CallOf(t) => Underway' = Underway
<1>1. \A u \in Threads \ {t} : CallOf(u)' = CallOf(u)
  BY DEF CallOf
<1>2. Underway' = [u \in Threads |-> CallOf(u)'] /\ Underway = [u \in Threads |-> CallOf(u)]
  BY DEF Underway
<1> HIDE DEF Underway
<1> QED
  BY <1>1, <1>2

\* The steps of a KeyedSet in the terms of the table.
LEMMA MapBegin ==
    ASSUME NEW t \in Threads, NEW c \in [op : {"find"}, key : Keys] \cup [op : {"insert"}, record : Records],
           Underway[t] = Null, Underway' = [Underway EXCEPT ![t] = c], Linked' = Linked, ret' = ret
    PROVE  Map!Begin(t)
BY DEF Map!Begin, Map!Calls, Map!Keys, Keys, Underway, CallOf

LEMMA MapFind ==
    ASSUME NEW t \in Threads, Underway[t] # Null, Underway[t].op = "find", ret[t] = Null,
           Underway' = Underway, Linked' = Linked, NEW a, ret' = [ret EXCEPT ![t] = a],
           \/ a \in Linked /\ KeyOf[a] = Underway[t].key
           \/ a = "none" /\ \A r \in Linked : KeyOf[r] # Underway[t].key
    PROVE  Map!Find(t)
BY DEF Map!Find, Map!Matches, Map!Decide, Underway, CallOf

LEMMA MapInsert ==
    ASSUME NEW t \in Threads, Underway[t] # Null, Underway[t].op = "insert", ret[t] = Null,
           Underway' = Underway, NEW a, ret' = [ret EXCEPT ![t] = a],
           \/ /\ a = "ok" /\ Linked' = Linked \cup {Underway[t].record}
              /\ \A r \in Linked : KeyOf[r] # KeyOf[Underway[t].record]
           \/ /\ a = "exists" /\ Linked' = Linked
              /\ \E r \in Linked : KeyOf[r] = KeyOf[Underway[t].record]
    PROVE  Map!Insert(t)
BY DEF Map!Insert, Map!Matches, Map!Decide, Underway, CallOf

LEMMA MapReturn ==
    ASSUME NEW t \in Threads, Underway[t] # Null, ret[t] # Null \/ Underway[t].op = "insert",
           Underway' = [Underway EXCEPT ![t] = Null], ret' = [ret EXCEPT ![t] = Null], Linked' = Linked
    PROVE  Map!Return(t)
BY DEF Map!Return, Underway, CallOf

LEMMA MapRemove ==
    ASSUME Linked' \subseteq Linked, Underway' = Underway, ret' = ret
    PROVE  Map!Remove
BY DEF Map!Remove, Underway, CallOf

LEMMA MapStutters ==
    ASSUME Linked' = Linked, Underway' = Underway, ret' = ret
    PROVE  UNCHANGED Map!vars
BY DEF Map!vars, Underway, CallOf

\* A search that goes on, or decides its call.
LEMMA SearchMaps ==
    ASSUME Assumptions, TableInv, NEW t \in Threads, pc[t] \in Deciding \ {"found"}, ret[t] = Null, NEW x,
           Walked(chains[Bucket(key[t])], x, key[t]), FindNodeInternal(t, x, key[t]),
           UNCHANGED <<table, key, node>>
    PROVE  [Map!Next]_(Map!vars)
<1>1. Types /\ Buckets /\ Call(t)
  BY DEF TableInv
<1>2. key[t] \in Keys
  BY <1>1 DEF Call, Deciding
<1>3. /\ pc' = [pc EXCEPT ![t] = pc'[t]] /\ pc'[t] \in {"found", "past", "walk"}
      /\ ret' = [ret EXCEPT ![t] = ret'[t]]
      /\ pc'[t] = "found" => /\ next'[t] \in Linked /\ KeyOf[next'[t]] = key[t]
                             /\ ret'[t] = IF node[t] = Null THEN next'[t] ELSE "exists"
      /\ pc'[t] = "past" => /\ ret'[t] = IF node[t] = Null THEN "none" ELSE Null
                            /\ \A y \in Linked : KeyOf[y] # key[t]
      /\ pc'[t] = "walk" => ret'[t] = Null
  BY <1>1, <1>2, Searched
<1>4. Linked' = Linked /\ key' = key /\ node' = node
  BY DEF table, Linked
<1>5. Underway' = Underway /\ pc[t] # "idle"
  <2>1. pc[t] # "idle" /\ pc'[t] # "idle"
    BY <1>3 DEF Deciding
  <2>2. CallOf(t)' = CallOf(t)
    BY <1>4, <2>1 DEF CallOf
  <2>3. \A u \in Threads \ {t} : pc'[u] = pc[u] /\ key'[u] = key[u] /\ node'[u] = node[u]
    BY <1>1, <1>3, <1>4 DEF Types
  <2> QED
    BY <2>1, <2>2, <2>3, CallChanged
<1>6. CASE ret'[t] = Null
  <2>1. ret' = ret
    BY <1>1, <1>3, <1>6 DEF Types
  <2> QED
    BY <1>4, <1>5, <2>1, MapStutters
<1>7. CASE ret'[t] # Null /\ node[t] = Null
  <2>1. Underway[t] # Null /\ Underway[t].op = "find" /\ Underway[t].key = key[t]
    BY <1>2, <1>5, <1>7, CallShown
  <2>2. \/ ret'[t] \in Linked /\ KeyOf[ret'[t]] = Underway[t].key
        \/ ret'[t] = "none" /\ \A r \in Linked : KeyOf[r] # Underway[t].key
    BY <1>3, <1>7, <2>1
  <2>3. Map!Find(t)
    BY <1>3, <1>4, <1>5, <2>1, <2>2, MapFind
  <2> QED
    BY <2>3 DEF Map!Next
<1>8. CASE ret'[t] # Null /\ node[t] # Null
  <2>1. Underway[t] # Null /\ Underway[t].op = "insert" /\ Underway[t].record = node[t]
    BY <1>5, <1>8, CallShown
  <2>2. ret'[t] = "exists" /\ \E r \in Linked : KeyOf[r] = KeyOf[Underway[t].record]
    <3>1. KeyOf[node[t]] = key[t]
      BY <1>1, <1>8 DEF Call
    <3>2. pc'[t] = "found" /\ ret'[t] = "exists" /\ next'[t] \in Linked /\ KeyOf[next'[t]] = key[t]
      BY <1>3, <1>8
    <3> QED
      BY <2>1, <3>1, <3>2
  <2>3. Map!Insert(t)
    BY <1>3, <1>4, <1>5, <2>1, <2>2, MapInsert
  <2> QED
    BY <2>3 DEF Map!Next
<1> QED
  BY <1>6, <1>7, <1>8

\* Steps of a call that the set does not see.
LEMMA HiddenMaps ==
    ASSUME Assumptions, TableInv, NEW t \in Threads, pc[t] # "idle", NEW l \in PCs \ {"idle"},
           pc' = [pc EXCEPT ![t] = l], key' = key, node' = node, ret' = ret, Linked' = Linked
    PROVE  [Map!Next]_(Map!vars)
<1>1. pc'[t] = l /\ \A u \in Threads \ {t} : pc'[u] = pc[u]
  BY DEF TableInv, Types
<1>2. CallOf(t)' = CallOf(t)
  BY <1>1 DEF CallOf
<1>3. Underway' = Underway
  BY <1>1, <1>2, CallChanged
<1> QED
  BY <1>3, MapStutters

LEMMA StepMaps ==
    ASSUME Assumptions, TableInv, [Next]_vars
    PROVE  [Map!Next]_(Map!vars)
<1>0. Types /\ Buckets /\ \A t \in Threads : Call(t) /\ Search(t)
  BY DEF TableInv
<1>1. CASE UNCHANGED vars
  <2>1. Linked' = Linked /\ ret' = ret /\ Underway' = Underway
    BY <1>1 DEF vars, table, locals, Linked, Underway, CallOf
  <2> QED
    BY <2>1, MapStutters
<1>2. ASSUME NEW t \in Threads, Acquire(t)  PROVE [Map!Next]_(Map!vars)
  <2>1. ret[t] = Null
    BY <1>0, <1>2 DEF Acquire, Call
  <2> QED
    BY <1>2, <2>1, SearchMaps DEF Acquire, Walked, Deciding
<1>3. ASSUME NEW t \in Threads, Advance(t)  PROVE [Map!Next]_(Map!vars)
  <2>1. ret[t] = Null /\ Walked(chains[Bucket(key[t])], next[t], key[t])
    BY <1>0, <1>3 DEF Advance, Call, Search
  <2> QED
    BY <1>3, <2>1, SearchMaps DEF Advance, Deciding
<1>4. ASSUME NEW t \in Threads, InsertLink(t)  PROVE [Map!Next]_(Map!vars)
  <2>1. ret[t] = Null /\ pc[t] = "past" /\ node[t] # Null
    BY <1>0, <1>4 DEF InsertLink, Call
  <2>2. CASE FindNodeInternal(t, Null, key[t]) /\ UNCHANGED <<table, key, node>>
    BY <2>1, <2>2, SearchMaps DEF Walked, Deciding
  <2>3. CASE LinksNode(t)
    <3>1. /\ KeyOf[node[t]] = key[t] /\ \A y \in Linked : KeyOf[y] # key[t]
          /\ Linked' = Linked \cup {node[t]}
      BY <2>3, Linking
    <3>2. /\ ret' = [ret EXCEPT ![t] = "ok"] /\ pc' = [pc EXCEPT ![t] = "linked"]
          /\ key' = key /\ node' = node
      BY <2>3 DEF LinksNode, Goto
    <3>3. Underway' = Underway
      <4>1. pc'[t] = "linked" /\ \A u \in Threads \ {t} : pc'[u] = pc[u]
        BY <1>0, <3>2 DEF Types
      <4>2. CallOf(t)' = CallOf(t)
        BY <2>1, <3>2, <4>1 DEF CallOf
      <4> QED
        BY <3>2, <4>1, <4>2, CallChanged
    <3>4. Underway[t] # Null /\ Underway[t].op = "insert" /\ Underway[t].record = node[t]
      BY <2>1, CallShown
    <3>5. Map!Insert(t)
      BY <2>1, <3>1, <3>2, <3>3, <3>4, MapInsert
    <3> QED
      BY <3>5 DEF Map!Next
  <2> QED
    BY <1>4, <2>2, <2>3 DEF InsertLink, LinksNode, table
<1>5. ASSUME NEW t \in Threads,
             \/ FindKeyEnd(t) \/ InsertExists(t) \/ InsertReference(t) \/ InsertCount(t)
             \/ RehashLook(t) \/ Rehash(t)
      PROVE  [Map!Next]_(Map!vars)
  <2>1. /\ pc[t] # "idle" /\ key' = key /\ node' = node /\ ret' = ret
        /\ \E l \in PCs \ {"idle"} : pc' = [pc EXCEPT ![t] = l]
    BY <1>5 DEF FindKeyEnd, InsertExists, InsertReference, InsertCount, RehashLook, Rehash, Goto, PCs
  <2>2. Linked' = Linked
    <3>1. CASE Rehash(t)
      BY <3>1, RehashStep
    <3>2. CASE chains' = chains
      BY <3>2 DEF Linked
    <3> QED
      BY <1>5, <3>1, <3>2
         DEF FindKeyEnd, InsertExists, InsertReference, InsertCount, RehashLook, table
  <2> QED
    BY <2>1, <2>2, HiddenMaps
<1>6. ASSUME NEW t \in Threads, Return(t)  PROVE [Map!Next]_(Map!vars)
  <2>1. /\ pc[t] = "return" /\ pc' = [pc EXCEPT ![t] = "idle"] /\ key' = [key EXCEPT ![t] = Null]
        /\ node' = [node EXCEPT ![t] = Null] /\ ret' = [ret EXCEPT ![t] = Null] /\ Linked' = Linked
    BY <1>6 DEF Return, Goto, table, Linked
  <2>2. CallOf(t)' = Null
    BY <1>0, <2>1 DEF CallOf, Types
  <2>3. Underway' = [Underway EXCEPT ![t] = Null]
    BY <1>0, <2>1, <2>2, CallChanged DEF Types
  <2>4. Underway[t] # Null /\ (ret[t] # Null \/ Underway[t].op = "insert")
    <3>1. CASE node[t] # Null
      BY <2>1, <3>1, CallShown
    <3>2. CASE node[t] = Null
      <4>1. ret[t] # Null /\ key[t] \in Keys
        BY <1>0, <2>1, <3>2 DEF Call
      <4> QED
        BY <2>1, <3>2, <4>1, CallShown
    <3> QED
      BY <3>1, <3>2
  <2>5. Map!Return(t)
    BY <2>1, <2>3, <2>4, MapReturn
  <2> QED
    BY <2>5 DEF Map!Next
<1>7. ASSUME NEW t \in Threads, Drop(t)  PROVE [Map!Next]_(Map!vars)
  <2>1. Linked' = Linked /\ ret' = ret /\ Underway' = Underway
    BY <1>7 DEF Drop, table, locals, Linked, Underway, CallOf
  <2> QED
    BY <2>1, MapStutters
<1>8. ASSUME NEW t \in Threads, NEW k \in Keys, FindKey(t, k)  PROVE [Map!Next]_(Map!vars)
  <2>1. /\ pc[t] = "idle" /\ pc' = [pc EXCEPT ![t] = "acquire"] /\ key' = [key EXCEPT ![t] = k]
        /\ node' = node /\ node[t] = Null /\ ret' = ret /\ Linked' = Linked
    BY <1>0, <1>8 DEF FindKey, Goto, table, Linked, Call
  <2>2. CallOf(t)' = [op |-> "find", key |-> k]
    BY <1>0, <2>1 DEF CallOf, Types
  <2>3. Underway' = [Underway EXCEPT ![t] = [op |-> "find", key |-> k]]
    BY <1>0, <2>1, <2>2, CallChanged DEF Types
  <2>4. Underway[t] = Null
    BY <2>1 DEF Underway, CallOf
  <2>5. Map!Begin(t)
    BY <2>1, <2>3, <2>4, MapBegin
  <2> QED
    BY <2>5 DEF Map!Next
<1>9. ASSUME NEW t \in Threads, NEW r \in Records, InsertRecord(t, r)  PROVE [Map!Next]_(Map!vars)
  <2>1. /\ pc[t] = "idle" /\ \E l \in {"acquire", "return"} : pc' = [pc EXCEPT ![t] = l]
        /\ key' = [key EXCEPT ![t] = KeyOf[r]]
        /\ node' = [node EXCEPT ![t] = r] /\ ret' = ret /\ Linked' = Linked
    BY <1>9 DEF InsertRecord, Goto, table, Linked
  <2>2. r # Null
    BY DEF Assumptions
  <2>3. CallOf(t)' = [op |-> "insert", record |-> r]
    BY <1>0, <2>1, <2>2 DEF CallOf, Types
  <2>4. Underway' = [Underway EXCEPT ![t] = [op |-> "insert", record |-> r]]
    BY <1>0, <2>1, <2>3, CallChanged DEF Types
  <2>5. Underway[t] = Null
    BY <2>1 DEF Underway, CallOf
  <2>6. Map!Begin(t)
    BY <2>1, <2>4, <2>5, MapBegin
  <2> QED
    BY <2>6 DEF Map!Next
<1>10. ASSUME \/ \E k \in Keys : DeleteKey(k)
              \/ \E F \in Filters : DeleteIf(F)
              \/ Clear
       PROVE  [Map!Next]_(Map!vars)
  <2>1. Linked' \subseteq Linked
    BY <1>10, DeleteKeyStep, DeleteIfStep, ClearStep
  <2>2. ret' = ret /\ pc' = pc /\ key' = key /\ node' = node
    BY <1>10 DEF DeleteKey, DeleteIf, Clear, DeleteNodes, locals
  <2>3. Underway' = Underway
    BY <2>2 DEF Underway, CallOf
  <2>4. Map!Remove
    BY <2>1, <2>2, <2>3, MapRemove
  <2> QED
    BY <2>4 DEF Map!Next
<1> QED
  BY <1>1, <1>2, <1>3, <1>4, <1>5, <1>6, <1>7, <1>8, <1>9, <1>10 DEF Next

\* The lookups and inserts under the shared lock, with their compare-and-swaps,
\* and what the exclusive lock protects implement a set with one record for
\* each key, in which every call takes effect at one instant.
THEOREM AtomicTheorem == ASSUME Assumptions  PROVE Spec => ActsAtomically
<1>1. Init => TableInv
  BY TableInit
<1>2. TableInv /\ [Next]_vars => TableInv'
  BY TableStep
<1>3. Init => Map!Init
  <2> SUFFICES ASSUME Init  PROVE Map!Init
    OBVIOUS
  <2>1. chains = [b \in {0} |-> <<>>]
    BY DEF Init
  <2>2. Linked = {}
    BY <2>1 DEF Linked, Range
  <2> QED
    BY <2>2 DEF Init, Map!Init
<1>4. TableInv /\ [Next]_vars => [Map!Next]_(Map!vars)
  BY StepMaps
<1> QED
  BY <1>1, <1>2, <1>3, <1>4, PTL DEF Spec, ActsAtomically, Map!Spec
=============================================================================
