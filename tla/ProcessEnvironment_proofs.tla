----------------------- MODULE ProcessEnvironment_proofs -----------------------
(***************************************************************************)
(* A theorem about ProcessEnvironment, for any configuration, command line *)
(* and inherited environment.                                              *)
(***************************************************************************)
EXTENDS ProcessEnvironment, WellFoundedInduction, TLAPS

\* The tokens; the provers do not know that these are strings, too.
Tokens == STRING \cup {"=", "/", "guid", "APPL_PATH", "TOKEN", "PORT", "DEBUG_PORT",
                       "%PORT%", "%DEBUG_PORT%"}
Text == Seq(Tokens)

Assumptions ==
    /\ Collections \subseteq Seq([name : Seq(DOMAIN towupper), value : Text])
    /\ \A x \in DOMAIN towupper : towupper[x] \in Tokens
    /\ AppConfigPaths \subseteq Text /\ Inherited \in Seq(Text)
    /\ \A i \in DOMAIN Inherited : Inherited[i] # <<>> /\ Inherited[i][1] # "="
    /\ Ports \subseteq Tokens \ {"=", "%PORT%", "%DEBUG_PORT%"}

-----------------------------------------------------------------------------
(* The least and the greatest of a set of positions.                       *)

LEMMA MinIs ==
    ASSUME NEW S \in SUBSET Nat, S # {}
    PROVE  Min(S) \in S /\ \A y \in S : Min(S) <= y
<1> DEFINE Less == {r \in Nat \X Nat : r[1] < r[2]}
<1>1. IsWellFoundedOn(Less, Nat)
  BY NatLessThanWellFounded DEF OpToRel
<1> HIDE DEF Less
<1>2. PICK x \in S : \A y \in S : <<y, x>> \notin Less
  BY <1>1, WFMin, Zenon
<1>3. \A y \in S : ~(y < x)
  BY <1>2 DEF Less
<1>4. \A y \in S : x <= y
  BY <1>3
<1> QED
  BY <1>4 DEF Min

LEMMA MinOf ==
    ASSUME NEW S \in SUBSET Nat, NEW m \in S, \A y \in S : m <= y
    PROVE  Min(S) = m
<1>1. Min(S) \in S /\ \A y \in S : Min(S) <= y
  BY MinIs
<1>2. Min(S) <= m /\ m <= Min(S) /\ Min(S) \in Nat /\ m \in Nat
  BY <1>1
<1> QED
  BY <1>2

LEMMA MaxIs ==
    ASSUME NEW n \in Nat, NEW S \in SUBSET (1 .. n), S # {}
    PROVE  Max(S) \in S /\ \A y \in S : y <= Max(S)
<1> DEFINE T == {n - y : y \in S}
<1>1. T \in SUBSET Nat /\ T # {}
  <2>1. \A y \in S : n - y \in Nat
    OBVIOUS
  <2> QED
    BY <2>1
<1>2. PICK x \in S : \A y \in S : n - x <= n - y
  <2>1. Min(T) \in T /\ \A y \in T : Min(T) <= y
    BY <1>1, MinIs
  <2>2. PICK x \in S : Min(T) = n - x
    BY <2>1
  <2> QED
    BY <2>1, <2>2
<1>3. x \in Int /\ \A y \in S : y \in Int /\ x >= y
  BY <1>2
<1>4. Max(S) \in S /\ \A y \in S : Max(S) >= y
  BY <1>3 DEF Max
<1> QED
  BY <1>3, <1>4

-----------------------------------------------------------------------------
(* Texts.                                                                  *)

\* An entry of a block of variables, and how it begins.
Begin(name) == name \o <<"=">>
Entry(name, value) == Begin(name) \o value

LEMMA Lengths == \A text \in Text : Len(text) \in Nat /\ \A i \in 1 .. Len(text) : text[i] \in Tokens
BY DEF Text

LEMMA Single ==
    ASSUME NEW S, NEW x \in S
    PROVE  <<x>> \in Seq(S) /\ Len(<<x>>) = 1 /\ <<x>>[1] = x
OBVIOUS

LEMMA Literals ==
    {"=", "/", "guid", "APPL_PATH", "TOKEN", "PORT", "DEBUG_PORT", "%PORT%", "%DEBUG_PORT%"} \subseteq Tokens
BY DEF Tokens

LEMMA Token ==
    ASSUME NEW x \in Tokens
    PROVE  <<x>> \in Text /\ Len(<<x>>) = 1 /\ <<x>>[1] = x
BY Single DEF Text

LEMMA Catenation ==
    ASSUME NEW S, NEW a \in Seq(S), NEW b \in Seq(S)
    PROVE  /\ a \o b \in Seq(S) /\ Len(a \o b) = Len(a) + Len(b)
           /\ \A i \in 1 .. Len(a) : (a \o b)[i] = a[i]
           /\ \A i \in 1 .. Len(b) : (a \o b)[Len(a) + i] = b[i]
<1>1. a \o b \in Seq(S) /\ Len(a \o b) = Len(a) + Len(b) /\ Len(a) \in Nat /\ Len(b) \in Nat
  OBVIOUS
<1>2. \A i \in 1 .. Len(a) : (a \o b)[i] = a[i]
  OBVIOUS
<1>3. ASSUME NEW i \in 1 .. Len(b)  PROVE (a \o b)[Len(a) + i] = b[i]
  OBVIOUS
<1> QED
  BY <1>1, <1>2, <1>3

LEMMA Joined ==
    ASSUME NEW a \in Text, NEW b \in Text
    PROVE  /\ a \o b \in Text /\ Len(a \o b) = Len(a) + Len(b)
           /\ \A i \in 1 .. Len(a) : (a \o b)[i] = a[i]
           /\ \A i \in 1 .. Len(b) : (a \o b)[Len(a) + i] = b[i]
BY Catenation DEF Text

\* A position in a catenation is in one part or the other.
LEMMA Parts ==
    ASSUME NEW m \in Nat, NEW n \in Nat, NEW i \in 1 .. m + n
    PROVE  i \in 1 .. m \/ \E j \in 1 .. n : i = m + j
<1>1. CASE i <= m
  BY <1>1
<1>2. CASE ~(i <= m)
  <2>1. i - m \in 1 .. n /\ i = m + (i - m)
    BY <1>2
  <2> QED
    BY <2>1
<1> QED
  BY <1>1, <1>2

LEMMA Slice ==
    ASSUME NEW S, NEW l \in Seq(S), NEW m \in 1 .. Len(l) + 1, NEW n \in m - 1 .. Len(l)
    PROVE  /\ SubSeq(l, m, n) \in Seq(S) /\ Len(SubSeq(l, m, n)) = n - m + 1
           /\ \A i \in 1 .. n - m + 1 : SubSeq(l, m, n)[i] = l[m + i - 1]
<1>1. m \in Int /\ n \in Int /\ n - m + 1 \in Nat
  OBVIOUS
<1>2. \A i \in 1 .. n - m + 1 : m + i - 1 \in 1 .. Len(l)
  OBVIOUS
<1>3. Len(SubSeq(l, m, n)) = n - m + 1
  BY <1>1
<1>4. \A i \in 1 .. n - m + 1 : SubSeq(l, m, n)[i] = l[m + i - 1]
  BY <1>1
<1>5. SubSeq(l, m, n) \in Seq(S)
  BY <1>1, <1>2
<1> QED
  BY <1>3, <1>4, <1>5

LEMMA SameText ==
    ASSUME NEW S, NEW a \in Seq(S), NEW b \in Seq(S), Len(a) = Len(b),
           \A i \in 1 .. Len(a) : a[i] = b[i]
    PROVE  a = b
OBVIOUS

\* The places of part in text, token by token.
LEMMA Found ==
    ASSUME NEW text \in Text, NEW part \in Text
    PROVE  \A i \in Nat \ {0} :
             i \in wcsstr(text, part) <=>
                /\ i + Len(part) - 1 <= Len(text)
                /\ \A j \in 1 .. Len(part) : text[i + j - 1] = part[j]
<1> SUFFICES ASSUME NEW i \in Nat \ {0}
             PROVE  i \in wcsstr(text, part) <=>
                       /\ i + Len(part) - 1 <= Len(text)
                       /\ \A j \in 1 .. Len(part) : text[i + j - 1] = part[j]
  OBVIOUS
<1> DEFINE n == i + Len(part) - 1
           s == SubSeq(text, i, n)
<1>1. Len(text) \in Nat /\ Len(part) \in Nat
  BY DEF Text
<1>2. i \in wcsstr(text, part) <=> n <= Len(text) /\ s = part
  BY <1>1 DEF wcsstr
<1>3. ASSUME n <= Len(text)
      PROVE  s \in Text /\ Len(s) = Len(part) /\ \A j \in 1 .. Len(part) : s[j] = text[i + j - 1]
  <2>1. i \in 1 .. Len(text) + 1 /\ n \in i - 1 .. Len(text) /\ n - i + 1 = Len(part)
    BY <1>1, <1>3
  <2> HIDE DEF n
  <2> QED
    BY <2>1, Slice DEF Text
<1> HIDE DEF s
<1>4. n <= Len(text) => (s = part <=> \A j \in 1 .. Len(part) : text[i + j - 1] = part[j])
  <2> HIDE DEF n
  <2>1. ASSUME n <= Len(text), \A j \in 1 .. Len(part) : text[i + j - 1] = part[j]
        PROVE  s = part
    BY <1>3, <2>1, SameText DEF Text
  <2> QED
    BY <1>3, <2>1
<1> QED
  BY <1>2, <1>4

LEMMA FoundAt ==
    ASSUME NEW text \in Text, NEW part \in Text, Len(part) > 0
    PROVE  wcsstr(text, part) \subseteq 1 .. Len(text)
<1>1. Len(text) \in Nat /\ Len(part) \in Nat \ {0}
  BY DEF Text
<1>2. wcsstr(text, part) \subseteq 1 .. Len(text) - Len(part) + 1
  BY DEF wcsstr
<1> QED
  BY <1>1, <1>2

\* A single token.
LEMMA FoundToken ==
    ASSUME NEW text \in Text, NEW x \in Tokens
    PROVE  wcsstr(text, <<x>>) = {i \in 1 .. Len(text) : text[i] = x}
<1>1. Len(text) \in Nat /\ <<x>> \in Text /\ Len(<<x>>) = 1 /\ <<x>>[1] = x
  BY Lengths, Token
<1>2. wcsstr(text, <<x>>) \subseteq 1 .. Len(text)
  BY <1>1, FoundAt
<1>3. ASSUME NEW i \in 1 .. Len(text)
      PROVE  i \in wcsstr(text, <<x>>) <=> text[i] = x
  <2>1. i \in Nat \ {0} /\ i + 1 - 1 <= Len(text) /\ 1 .. 1 = {1} /\ i + 1 - 1 = i
    BY <1>1
  <2>2. i \in wcsstr(text, <<x>>) <=> /\ i + 1 - 1 <= Len(text)
                                      /\ \A j \in 1 .. 1 : text[i + j - 1] = <<x>>[j]
    BY <1>1, <2>1, Found
  <2> QED
    BY <1>1, <2>1, <2>2
<1> QED
  BY <1>2, <1>3

LEMMA Prefix ==
    ASSUME NEW a \in Text, NEW text \in Text
    PROVE  IsPrefix(a, text) <=> Len(a) <= Len(text) /\ \A i \in 1 .. Len(a) : text[i] = a[i]
<1>1. Len(a) \in Nat /\ Len(text) \in Nat
  BY DEF Text
<1>2. SubSeq(a, 1, Len(a)) = a
  BY DEF Text
<1>3. Len(a) <= Len(text) => (SubSeq(text, 1, Len(a)) = a <=> \A i \in 1 .. Len(a) : text[i] = a[i])
  <2> DEFINE s == SubSeq(text, 1, Len(a))
  <2> SUFFICES ASSUME Len(a) <= Len(text)  PROVE s = a <=> \A i \in 1 .. Len(a) : text[i] = a[i]
    OBVIOUS
  <2>1. 1 \in 1 .. Len(text) + 1 /\ Len(a) \in 1 - 1 .. Len(text) /\ Len(a) - 1 + 1 = Len(a)
    BY <1>1
  <2>2. s \in Text /\ Len(s) = Len(a) /\ \A i \in 1 .. Len(a) : s[i] = text[1 + i - 1]
    BY <2>1, Slice DEF Text
  <2>3. \A i \in 1 .. Len(a) : s[i] = text[i]
    BY <1>1, <2>2
  <2> HIDE DEF s
  <2> QED
    BY <2>2, <2>3, SameText DEF Text
<1> QED
  BY <1>2, <1>3 DEF IsPrefix

LEMMA Entered ==
    ASSUME NEW a \in Text, NEW v \in Text
    PROVE  /\ Len(a) \in Nat /\ Len(v) \in Nat
           /\ Begin(a) \in Text /\ Len(Begin(a)) = Len(a) + 1
           /\ \A i \in 1 .. Len(a) : Begin(a)[i] = a[i] /\ Entry(a, v)[i] = a[i]
           /\ Begin(a)[Len(a) + 1] = "=" /\ Entry(a, v)[Len(a) + 1] = "="
           /\ Entry(a, v) \in Text /\ Len(Entry(a, v)) = Len(a) + 1 + Len(v)
           /\ \A i \in 1 .. Len(v) : Entry(a, v)[Len(a) + 1 + i] = v[i]
<1> DEFINE b == Begin(a)
           e == Entry(a, v)
           q == <<"=">>
<1>1. q \in Text /\ Len(q) = 1 /\ q[1] = "="
  BY Literals, Token
<1>2. Len(a) \in Nat /\ Len(v) \in Nat
  BY Lengths
<1> HIDE DEF q, b, e
<1>3. /\ b \in Text /\ Len(b) = Len(a) + Len(q)
      /\ \A i \in 1 .. Len(a) : b[i] = a[i]
      /\ \A i \in 1 .. Len(q) : b[Len(a) + i] = q[i]
  BY <1>1, Joined DEF b, Begin, q
<1>4. Len(b) = Len(a) + 1 /\ b[Len(a) + 1] = "="
  BY <1>1, <1>3
<1>5. /\ e \in Text /\ Len(e) = Len(b) + Len(v)
      /\ \A i \in 1 .. Len(b) : e[i] = b[i]
      /\ \A i \in 1 .. Len(v) : e[Len(b) + i] = v[i]
  BY <1>3, Joined DEF e, b, Entry
<1>6. /\ Len(e) = Len(a) + 1 + Len(v)
      /\ \A i \in 1 .. Len(v) : e[Len(a) + 1 + i] = v[i]
  BY <1>4, <1>5
<1>7. \A i \in 1 .. Len(a) + 1 : e[i] = b[i]
  BY <1>4, <1>5
<1>8. Len(a) + 1 \in 1 .. Len(a) + 1 /\ \A i \in 1 .. Len(a) : i \in 1 .. Len(a) + 1
  BY <1>2
<1>9. (\A i \in 1 .. Len(a) : e[i] = a[i]) /\ e[Len(a) + 1] = "="
  BY <1>3, <1>4, <1>7, <1>8
<1> QED
  BY <1>2, <1>3, <1>4, <1>5, <1>6, <1>9 DEF b, e

\* The name and the value of an entry.
LEMMA Named ==
    ASSUME NEW a \in Text, NEW v \in Text
    PROVE  /\ IsPrefix(Begin(a), Entry(a, v))
           /\ wcsstr(Entry(a, v), Begin(a)) # {}
           /\ SubSeq(Entry(a, v), Len(a) + 2, Len(Entry(a, v))) = v
<1> DEFINE b == Begin(a)
           e == Entry(a, v)
<1> HIDE DEF b, e
<1>1. /\ b \in Text /\ e \in Text /\ Len(a) \in Nat /\ Len(v) \in Nat
      /\ Len(b) = Len(a) + 1 /\ Len(e) = Len(a) + 1 + Len(v)
      /\ b[Len(a) + 1] = e[Len(a) + 1] /\ \A i \in 1 .. Len(a) : b[i] = e[i]
      /\ \A i \in 1 .. Len(v) : e[Len(a) + 1 + i] = v[i]
  <2>1. /\ b \in Text /\ Len(b) = Len(a) + 1 /\ b[Len(a) + 1] = "="
        /\ \A i \in 1 .. Len(a) : b[i] = a[i] /\ e[i] = a[i]
    BY Entered DEF b, e
  <2>2. /\ e \in Text /\ Len(a) \in Nat /\ Len(v) \in Nat /\ Len(e) = Len(a) + 1 + Len(v)
        /\ e[Len(a) + 1] = "=" /\ \A i \in 1 .. Len(v) : e[Len(a) + 1 + i] = v[i]
    BY Entered DEF b, e
  <2> QED
    BY <2>1, <2>2
<1>2. \A i \in 1 .. Len(b) : b[i] = e[i]
  BY <1>1
<1>3. IsPrefix(b, e)
  BY <1>1, <1>2, Prefix
<1>4. 1 \in wcsstr(e, b)
  <2>1. \A i \in 1 .. Len(b) : 1 + i - 1 = i
    BY <1>1
  <2>2. 1 \in Nat \ {0} /\ 1 + Len(b) - 1 <= Len(e)
    BY <1>1
  <2>3. \A i \in 1 .. Len(b) : e[1 + i - 1] = b[i]
    BY <1>2, <2>1
  <2> QED
    BY <1>1, <2>2, <2>3, Found
<1>5. SubSeq(e, Len(a) + 2, Len(e)) = v
  <2> DEFINE m == Len(a) + 2
             s == SubSeq(e, m, Len(e))
  <2>1. m \in 1 .. Len(e) + 1 /\ Len(e) \in m - 1 .. Len(e) /\ Len(e) - m + 1 = Len(v)
    BY <1>1
  <2>2. \A i \in 1 .. Len(v) : m + i - 1 = Len(a) + 1 + i
    BY <1>1
  <2> HIDE DEF m
  <2>3. s \in Text /\ Len(s) = Len(v) /\ \A i \in 1 .. Len(v) : s[i] = e[m + i - 1]
    BY <1>1, <2>1, Slice DEF Text
  <2>4. \A i \in 1 .. Len(v) : s[i] = v[i]
    BY <1>1, <2>2, <2>3
  <2> HIDE DEF s
  <2>5. s = v
    BY <2>3, <2>4, SameText DEF Text
  <2> QED
    BY <2>5 DEF s, m
<1> QED
  BY <1>3, <1>4, <1>5 DEF b, e

LEMMA SameName ==
    ASSUME NEW a \in Text, NEW b \in Text, NEW v \in Text,
           \A i \in 1 .. Len(a) : a[i] # "=", \A i \in 1 .. Len(b) : b[i] # "=",
           IsPrefix(Begin(a), Entry(b, v))
    PROVE  a = b
<1> DEFINE p == Begin(a)
           e == Entry(b, v)
<1>1. /\ p \in Text /\ e \in Text /\ Len(a) \in Nat /\ Len(b) \in Nat
      /\ Len(p) = Len(a) + 1 /\ p[Len(a) + 1] = "=" /\ \A i \in 1 .. Len(a) : p[i] = a[i]
      /\ e[Len(b) + 1] = "=" /\ \A i \in 1 .. Len(b) : e[i] = b[i]
  <2>1. a \in Text /\ v \in Text
    OBVIOUS
  <2> QED
    BY <2>1, Entered
<1> HIDE DEF p, e
<1>2. \A i \in 1 .. Len(a) + 1 : e[i] = p[i]
  BY <1>1, Prefix DEF p, e
<1>3. Len(a) = Len(b)
  <2>1. CASE Len(a) < Len(b)
    <3>1. Len(a) + 1 \in 1 .. Len(b) /\ Len(a) + 1 \in 1 .. Len(a) + 1
      BY <1>1, <2>1
    <3> QED
      BY <1>1, <1>2, <3>1
  <2>2. CASE Len(b) < Len(a)
    <3>1. Len(b) + 1 \in 1 .. Len(a) /\ Len(b) + 1 \in 1 .. Len(a) + 1
      BY <1>1, <2>2
    <3> QED
      BY <1>1, <1>2, <3>1
  <2> QED
    BY <1>1, <2>1, <2>2
<1>4. \A i \in 1 .. Len(a) : a[i] = b[i]
  BY <1>1, <1>2, <1>3
<1> QED
  BY <1>3, <1>4, SameText DEF Text

-----------------------------------------------------------------------------
(* Placeholders.                                                           *)

Put(text, m, v) == [text EXCEPT ![m] = v]

LEMMA Changed ==
    ASSUME NEW text \in Text, NEW m \in 1 .. Len(text), NEW v \in Tokens
    PROVE  /\ Put(text, m, v) \in Text /\ Len(Put(text, m, v)) = Len(text) /\ Put(text, m, v)[m] = v
           /\ \A i \in 1 .. Len(text) : i # m => Put(text, m, v)[i] = text[i]
BY DEF Text, Put

LEMMA ReplaceFirst ==
    ASSUME NEW text \in Text, NEW x \in Tokens, NEW v \in Tokens
    PROVE  \/ /\ \A i \in 1 .. Len(text) : text[i] # x
              /\ Replace(text, x, v) = text
           \/ \E m \in 1 .. Len(text) :
                /\ text[m] = x /\ \A i \in 1 .. m - 1 : text[i] # x
                /\ Replace(text, x, v) = Put(text, m, v)
<1> DEFINE S == wcsstr(text, <<x>>)
<1>1. S = {i \in 1 .. Len(text) : text[i] = x} /\ Len(text) \in Nat
  BY FoundToken, Lengths
<1>2. Replace(text, x, v) = IF S = {} THEN text ELSE Put(text, Min(S), v)
  BY DEF Replace, Put
<1> HIDE DEF S
<1>3. CASE S = {}
  BY <1>1, <1>2, <1>3
<1>4. CASE S # {}
  <2>1. S \in SUBSET Nat
    BY <1>1
  <2>2. Min(S) \in S /\ \A y \in S : Min(S) <= y
    BY <1>4, <2>1, MinIs
  <2> DEFINE m == Min(S)
  <2>3. m \in 1 .. Len(text) /\ text[m] = x
    BY <1>1, <2>2
  <2>4. \A i \in 1 .. m - 1 : text[i] # x
    BY <1>1, <2>2, <2>3
  <2> QED
    BY <1>2, <1>4, <2>3, <2>4
<1> QED
  BY <1>3, <1>4

LEMMA ReplaceAfter ==
    ASSUME NEW a \in Text, NEW b \in Text, NEW x \in Tokens, NEW v \in Tokens,
           x # "=", \A i \in 1 .. Len(a) : a[i] # x
    PROVE  Replace(b, x, v) \in Text /\ Replace(Entry(a, b), x, v) = Entry(a, Replace(b, x, v))
<1> DEFINE t == Entry(a, b)
           r == Replace(b, x, v)
           c == Entry(a, r)
           u == Replace(t, x, v)
           k == Len(a) + 1
<1> HIDE DEF t, r, c, u, k
<1>1. /\ Len(a) \in Nat /\ Len(b) \in Nat /\ k \in Nat /\ k = Len(a) + 1
      /\ t \in Text /\ Len(t) = k + Len(b)
      /\ \A i \in 1 .. Len(a) : t[i] = a[i]
      /\ t[k] = "=" /\ \A i \in 1 .. Len(b) : t[k + i] = b[i]
  <2>1. /\ Len(a) \in Nat /\ Len(b) \in Nat /\ t \in Text /\ Len(t) = Len(a) + 1 + Len(b)
    BY Entered DEF t
  <2>2. /\ \A i \in 1 .. Len(a) : t[i] = a[i]
        /\ t[Len(a) + 1] = "=" /\ \A i \in 1 .. Len(b) : t[Len(a) + 1 + i] = b[i]
    BY Entered DEF t
  <2> QED
    BY <2>1, <2>2 DEF k
<1>0. Len(a) \in Nat /\ Len(b) \in Nat /\ k \in Nat /\ t \in Text /\ Len(t) = k + Len(b)
  BY <1>1
<1>2. \A i \in 1 .. k : t[i] # x
  <2>1. \A i \in 1 .. k : i = k \/ i \in 1 .. Len(a)
    BY <1>1
  <2> QED
    BY <1>1, <2>1
<1>3. CASE \A i \in 1 .. Len(b) : b[i] # x
  <2>1. r = b
    BY <1>3, ReplaceFirst DEF r
  <2>2. ASSUME NEW i \in 1 .. Len(t)  PROVE t[i] # x
    <3>1. i \in 1 .. k \/ \E j \in 1 .. Len(b) : i = k + j
      BY <1>0, Parts
    <3> QED
      BY <1>1, <1>2, <1>3, <3>1
  <2>3. u = t
    BY <1>0, <2>2, ReplaceFirst DEF u
  <2> QED
    BY <2>1, <2>3 DEF t, u, r
<1>4. ASSUME NEW m \in 1 .. Len(b), b[m] = x, \A i \in 1 .. m - 1 : b[i] # x, r = Put(b, m, v)
      PROVE  r \in Text /\ u = c
  <2>1. r \in Text /\ Len(r) = Len(b) /\ r[m] = v /\ \A i \in 1 .. Len(b) : i # m => r[i] = b[i]
    <3>1. m \in 1 .. Len(b) /\ r = Put(b, m, v)
      BY <1>4
    <3>2. LET p == Put(b, m, v) IN
          p \in Text /\ Len(p) = Len(b) /\ p[m] = v /\ \A i \in 1 .. Len(b) : i # m => p[i] = b[i]
      BY <3>1, Changed, Zenon
    <3> QED
      BY <3>1, <3>2, Zenon
  <2> DEFINE n == k + m
  <2>2. n \in 1 .. Len(t) /\ t[n] = x
    BY <1>1, <1>4
  <2>3. ASSUME NEW i \in 1 .. n - 1  PROVE t[i] # x
    <3>1. i \in 1 .. k \/ \E j \in 1 .. m - 1 : i = k + j
      <4>1. m - 1 \in Nat /\ i \in 1 .. k + (m - 1)
        BY <1>0
      <4> QED
        BY <1>0, <4>1, Parts
    <3>2. CASE i \in 1 .. k
      BY <1>2, <3>2
    <3>3. ASSUME NEW j \in 1 .. m - 1, i = k + j  PROVE t[i] # x
      <4>1. j \in 1 .. Len(b)
        BY <1>1
      <4> QED
        BY <1>1, <1>4, <3>3, <4>1
    <3> QED
      BY <3>1, <3>2, <3>3
  <2> HIDE DEF n
  <2>4. u = Put(t, n, v)
    <3>1. PICK l \in 1 .. Len(t) : /\ t[l] = x /\ \A i \in 1 .. l - 1 : t[i] # x
                                   /\ u = Put(t, l, v)
      <4>1. ~ \A i \in 1 .. Len(t) : t[i] # x
        BY <2>2
      <4>2. \/ \A i \in 1 .. Len(t) : t[i] # x
            \/ \E l \in 1 .. Len(t) : /\ t[l] = x /\ \A i \in 1 .. l - 1 : t[i] # x
                                      /\ u = Put(t, l, v)
        BY <1>0, ReplaceFirst DEF u
      <4> QED
        BY <4>1, <4>2
    <3>2. l = n
      <4>1. l \in Int /\ n \in Int /\ 1 <= l /\ 1 <= n
        BY <1>0, <2>2, <3>1
      <4>2. ~(l < n)
        <5>1. l < n => l \in 1 .. n - 1
          BY <4>1
        <5> QED
          BY <2>3, <3>1, <5>1
      <4>3. ~(n < l)
        <5>1. n < l => n \in 1 .. l - 1
          BY <4>1
        <5> QED
          BY <2>2, <3>1, <5>1
      <4> QED
        BY <4>1, <4>2, <4>3
    <3> QED
      BY <3>1, <3>2
  <2>5. u \in Text /\ Len(u) = Len(t) /\ u[n] = v /\ \A i \in 1 .. Len(t) : i # n => u[i] = t[i]
    <3>1. t \in Text /\ n \in 1 .. Len(t)
      BY <1>0, <2>2
    <3>2. LET p == Put(t, n, v) IN
          p \in Text /\ Len(p) = Len(t) /\ p[n] = v /\ \A i \in 1 .. Len(t) : i # n => p[i] = t[i]
      BY <3>1, Changed, Zenon
    <3> QED
      BY <2>4, <3>2, Zenon
  <2>6. /\ c \in Text /\ Len(c) = k + Len(b)
        /\ \A i \in 1 .. Len(a) : c[i] = a[i]
        /\ c[k] = "=" /\ \A i \in 1 .. Len(b) : c[k + i] = r[i]
    <3>1. c \in Text /\ Len(c) = Len(a) + 1 + Len(r)
      BY <2>1, Entered DEF c
    <3>2. /\ \A i \in 1 .. Len(a) : c[i] = a[i]
          /\ c[Len(a) + 1] = "=" /\ \A i \in 1 .. Len(r) : c[Len(a) + 1 + i] = r[i]
      BY <2>1, Entered DEF c
    <3> QED
      BY <1>1, <2>1, <3>1, <3>2
  <2>7. \A i \in 1 .. k : u[i] = c[i]
    <3>1. \A i \in 1 .. k : (i = k \/ i \in 1 .. Len(a)) /\ i \in 1 .. Len(t) /\ i # n
      <4>1. k = Len(a) + 1
        BY <1>1
      <4> QED
        BY <1>0, <4>1 DEF n
    <3> QED
      BY <1>1, <2>5, <2>6, <3>1
  <2>8. ASSUME NEW j \in 1 .. Len(b)  PROVE u[k + j] = c[k + j]
    <3>1. k + j \in 1 .. Len(t) /\ (k + j = n <=> j = m)
      BY <1>0 DEF n
    <3> QED
      BY <1>1, <2>1, <2>5, <2>6, <3>1
  <2>9. \A i \in 1 .. Len(u) : u[i] = c[i]
    <3>1. Len(u) = k + Len(b)
      BY <1>0, <2>5
    <3>2. \A i \in 1 .. Len(u) : i \in 1 .. k \/ \E j \in 1 .. Len(b) : i = k + j
      BY <1>0, <3>1, Parts
    <3> QED
      BY <2>7, <2>8, <3>2
  <2>10. u = c
    BY <1>1, <2>5, <2>6, <2>9, SameText DEF Text
  <2> QED
    BY <2>1, <2>10
<1>5. r \in Text /\ u = c
  BY <1>3, <1>4, ReplaceFirst DEF r, u, c, t
<1> QED
  BY <1>5 DEF c, u, t, r

\* A placeholder is not part of an ordinary name.
LEMMA ReplacedAfter ==
    ASSUME NEW a \in Text, NEW b \in Text, m_dwPort \in Tokens, m_dwDebugPort \in Tokens,
           \A i \in 1 .. Len(a) : a[i] \notin {"%PORT%", "%DEBUG_PORT%"}
    PROVE  Replaced(b) \in Text /\ Replaced(Entry(a, b)) = Entry(a, Replaced(b))
<1> DEFINE r == Replace(b, "%PORT%", m_dwPort)
<1>1. /\ (\A i \in 1 .. Len(a) : a[i] # "%PORT%") /\ (\A i \in 1 .. Len(a) : a[i] # "%DEBUG_PORT%")
      /\ "%PORT%" \in Tokens /\ "%DEBUG_PORT%" \in Tokens
      /\ "%PORT%" # "=" /\ "%DEBUG_PORT%" # "="
  BY Literals
<1>2. r \in Text /\ Replace(Entry(a, b), "%PORT%", m_dwPort) = Entry(a, r)
  BY <1>1, ReplaceAfter
<1> HIDE DEF r
<1>3. /\ Replace(r, "%DEBUG_PORT%", m_dwDebugPort) \in Text
      /\ Replace(Entry(a, r), "%DEBUG_PORT%", m_dwDebugPort) = Entry(a, Replace(r, "%DEBUG_PORT%", m_dwDebugPort))
  BY <1>1, <1>2, ReplaceAfter
<1> QED
  BY <1>2, <1>3 DEF Replaced, r

-----------------------------------------------------------------------------
(* The entries a process finds.                                            *)

\* The first entry of a name counts, so an equal one before it does no harm.
LEMMA Looked ==
    ASSUME NEW E \in Seq(Text), NEW n \in Text, NEW v \in Text, NEW k \in 1 .. Len(E),
           E[k] = Entry(n, v),
           \A j \in 1 .. k - 1 : IsPrefix(Begin(n), E[j]) => E[j] = Entry(n, v)
    PROVE  LookupIn(E, n) = v
<1> DEFINE S == {i \in DOMAIN E : IsPrefix(Begin(n), E[i])}
           m == Min(S)
           e == Entry(n, v)
<1>1. DOMAIN E = 1 .. Len(E) /\ Len(E) \in Nat
  OBVIOUS
<1>2. IsPrefix(Begin(n), e) /\ SubSeq(e, Len(n) + 2, Len(e)) = v
  BY Named
<1>3. k \in S
  BY <1>1, <1>2
<1>4. S \in SUBSET Nat
  BY <1>1
<1>5. m \in S /\ m <= k
  <2> HIDE DEF S
  <2> QED
    BY <1>3, <1>4, MinIs
<1>6. LookupIn(E, n) = IF S = {} THEN <<>> ELSE SubSeq(E[m], Len(n) + 2, Len(E[m]))
  BY DEF LookupIn, Begin
<1>7. m \in DOMAIN E /\ IsPrefix(Begin(n), E[m])
  BY <1>5
<1> HIDE DEF S, m, e
<1>8. E[m] = e
  <2>1. CASE m = k
    BY <2>1 DEF e
  <2>2. CASE m # k
    <3>1. m \in 1 .. k - 1
      BY <1>1, <1>5, <1>7, <2>2
    <3> QED
      BY <1>7, <3>1 DEF e
  <2> QED
    BY <2>1, <2>2
<1>9. S # {}
  BY <1>3
<1> QED
  BY <1>2, <1>6, <1>8, <1>9

\* What precedes the first entry of a name does not matter.
LEMMA LookedPast ==
    ASSUME NEW B \in Seq(Text), NEW I \in Seq(Text), NEW n \in Text,
           \A k \in 1 .. Len(B) : ~ IsPrefix(Begin(n), B[k])
    PROVE  LookupIn(B \o I, n) = LookupIn(I, n)
<1> DEFINE E == B \o I
           S == {i \in DOMAIN E : IsPrefix(Begin(n), E[i])}
           T == {i \in DOMAIN I : IsPrefix(Begin(n), I[i])}
<1>1. LookupIn(E, n) = IF S = {} THEN <<>> ELSE SubSeq(E[Min(S)], Len(n) + 2, Len(E[Min(S)]))
  BY DEF LookupIn, Begin
<1>2. LookupIn(I, n) = IF T = {} THEN <<>> ELSE SubSeq(I[Min(T)], Len(n) + 2, Len(I[Min(T)]))
  BY DEF LookupIn, Begin
<1> HIDE DEF E
<1>3. /\ E \in Seq(Text) /\ Len(E) = Len(B) + Len(I)
      /\ \A i \in 1 .. Len(B) : E[i] = B[i]
      /\ \A i \in 1 .. Len(I) : E[Len(B) + i] = I[i]
  BY Catenation DEF E
<1>4. /\ Len(B) \in Nat /\ Len(I) \in Nat
      /\ DOMAIN I = 1 .. Len(I) /\ DOMAIN E = 1 .. Len(B) + Len(I)
  BY <1>3
<1>5. ASSUME NEW i \in S  PROVE \E j \in T : i = Len(B) + j
  <2>1. i \in 1 .. Len(B) \/ \E j \in 1 .. Len(I) : i = Len(B) + j
    <3>1. i \in 1 .. Len(B) + Len(I)
      BY <1>4, <1>5
    <3> QED
      BY <1>4, <3>1, Parts
  <2>2. IsPrefix(Begin(n), E[i])
    BY <1>5
  <2>3. i \notin 1 .. Len(B)
    BY <1>3, <2>2
  <2>4. PICK j \in 1 .. Len(I) : i = Len(B) + j
    BY <2>1, <2>3
  <2>5. j \in T
    BY <1>3, <1>4, <2>2, <2>4
  <2> QED
    BY <2>4, <2>5
<1>6. ASSUME NEW j \in T  PROVE Len(B) + j \in S
  <2>1. j \in 1 .. Len(I) /\ IsPrefix(Begin(n), I[j])
    BY <1>4, <1>6
  <2>2. E[Len(B) + j] = I[j]
    BY <1>3, <2>1
  <2>3. Len(B) + j \in DOMAIN E
    BY <1>4, <2>1
  <2> QED
    BY <2>1, <2>2, <2>3
<1>7. S \in SUBSET Nat /\ T \in SUBSET (1 .. Len(I)) /\ T \in SUBSET Nat
  BY <1>4
<1> HIDE DEF S, T
<1>8. CASE T = {}
  <2>1. S = {}
    BY <1>5, <1>8
  <2> QED
    BY <1>1, <1>2, <1>8, <2>1 DEF E
<1>9. CASE T # {}
  <2> DEFINE m == Min(T)
  <2>1. m \in T /\ \A j \in T : m <= j
    BY <1>7, <1>9, MinIs
  <2> HIDE DEF m
  <2>2. Len(B) + m \in S
    BY <1>6, <2>1
  <2>3. \A i \in S : Len(B) + m <= i
    <3>1. ASSUME NEW i \in S  PROVE Len(B) + m <= i
      <4>1. PICK j \in T : i = Len(B) + j
        BY <1>5
      <4>2. m <= j /\ m \in Nat /\ j \in Nat
        BY <1>7, <2>1
      <4> QED
        BY <1>4, <4>1, <4>2
    <3> QED
      BY <3>1
  <2>4. Min(S) = Len(B) + m
    BY <1>7, <2>2, <2>3, MinOf
  <2>5. E[Len(B) + m] = I[m]
    BY <1>3, <1>7, <2>1
  <2>6. S # {}
    BY <2>2
  <2> QED
    BY <1>1, <1>2, <1>9, <2>4, <2>5, <2>6 DEF E, m
<1> QED
  BY <1>8, <1>9

\* What the module itself writes into a block.
LEMMA Whole ==
    ASSUME NEW S, NEW a \in Seq(S), NEW b \in Seq(S), NEW c \in Seq(S), Len(c) = Len(a) + Len(b),
           \A i \in 1 .. Len(a) : c[i] = a[i], \A i \in 1 .. Len(b) : c[Len(a) + i] = b[i]
    PROVE  a \o b = c
<1> DEFINE d == a \o b
<1>1. /\ d \in Seq(S) /\ Len(d) = Len(a) + Len(b) /\ Len(a) \in Nat /\ Len(b) \in Nat
      /\ \A i \in 1 .. Len(a) : d[i] = a[i]
      /\ \A i \in 1 .. Len(b) : d[Len(a) + i] = b[i]
  BY Catenation
<1> HIDE DEF d
<1>2. ASSUME NEW i \in 1 .. Len(d)  PROVE d[i] = c[i]
  <2>1. i \in 1 .. Len(a) \/ \E j \in 1 .. Len(b) : i = Len(a) + j
    <3>1. i \in 1 .. Len(a) + Len(b) /\ Len(a) \in Nat /\ Len(b) \in Nat
      BY <1>1
    <3> QED
      BY <3>1, Parts
  <2> QED
    BY <1>1, <2>1
<1>3. d = c
  BY <1>1, <1>2, SameText
<1> QED
  BY <1>3 DEF d

LEMMA Written ==
    ASSUME NEW x \in Tokens, NEW y \in Tokens
    PROVE  Begin(<<x>>) = <<x, "=">> /\ Entry(<<x>>, <<y>>) = <<x, "=", y>>
<1> DEFINE a == <<x>>
           q == <<"=">>
           z == <<y>>
           b == <<x, "=">>
           c == <<x, "=", y>>
<1>1. a \in Text /\ Len(a) = 1 /\ a[1] = x /\ z \in Text /\ Len(z) = 1 /\ z[1] = y
  BY Token
<1>2. "=" \in Tokens
  BY Literals
<1>3. q \in Text /\ Len(q) = 1 /\ q[1] = "="
  BY <1>2, Token
<1>4. b \in Text /\ Len(b) = 2 /\ b[1] = x /\ b[2] = "="
  BY <1>2 DEF Text
<1>5. c \in Text /\ Len(c) = 3 /\ c[1] = x /\ c[2] = "=" /\ c[3] = y
  BY <1>2 DEF Text
<1> HIDE DEF a, q, z, b, c
<1>6. a \o q = b
  <2>1. (\A i \in 1 .. Len(a) : b[i] = a[i]) /\ \A i \in 1 .. Len(q) : b[Len(a) + i] = q[i]
    BY <1>1, <1>3, <1>4
  <2>2. Len(b) = Len(a) + Len(q)
    BY <1>1, <1>3, <1>4
  <2>3. a \in Text /\ q \in Text /\ b \in Text
    BY <1>1, <1>3, <1>4
  <2> QED
    BY <2>1, <2>2, <2>3, Whole, Zenon DEF Text
<1>7. b \o z = c
  <2>1. (\A i \in 1 .. Len(b) : c[i] = b[i]) /\ \A i \in 1 .. Len(z) : c[Len(b) + i] = z[i]
    BY <1>1, <1>4, <1>5
  <2>2. Len(c) = Len(b) + Len(z)
    BY <1>1, <1>4, <1>5
  <2>3. b \in Text /\ z \in Text /\ c \in Text
    BY <1>1, <1>4, <1>5
  <2> QED
    BY <2>1, <2>2, <2>3, Whole, Zenon DEF Text
<1> QED
  BY <1>6, <1>7, Zenon DEF a, q, z, b, c, Begin, Entry

LEMMA ReplacedIs ==
    ASSUME NEW text \in Text, m_dwPort \in Tokens, m_dwDebugPort \in Tokens
    PROVE  Replaced(text) \in Text
<1>1. ASSUME NEW t \in Text, NEW x \in Tokens, NEW v \in Tokens
      PROVE  Replace(t, x, v) \in Text
  <2>1. CASE Replace(t, x, v) = t
    BY <2>1
  <2>2. ASSUME NEW m \in 1 .. Len(t), Replace(t, x, v) = Put(t, m, v)
        PROVE  Replace(t, x, v) \in Text
    <3>1. Put(t, m, v) \in Text
      BY Changed, Zenon
    <3> QED
      BY <2>2, <3>1
  <2> QED
    BY <2>1, <2>2, ReplaceFirst
<1>2. "%PORT%" \in Tokens /\ "%DEBUG_PORT%" \in Tokens
  BY Literals
<1>3. Replace(text, "%PORT%", m_dwPort) \in Text
  BY <1>1, <1>2
<1> QED
  BY <1>1, <1>2, <1>3 DEF Replaced

LEMMA AppPathIs ==
    ASSUME pszPath \in Text
    PROVE  AppPath \in Text /\ AppPath[1] = "/"
<1> DEFINE S == wcsstr(pszPath, <<"/">>)
           fourth == {i \in S : Cardinality({j \in S : j <= i}) = 4}
<1>1. "/" \in Tokens
  BY Literals
<1>2. S = {i \in 1 .. Len(pszPath) : pszPath[i] = "/"} /\ Len(pszPath) \in Nat
  BY <1>1, FoundToken, Lengths
<1>3. AppPath = IF fourth = {} THEN <<"/">> ELSE SubSeq(pszPath, Min(fourth), Len(pszPath))
  BY DEF AppPath
<1>4. fourth \subseteq S
  OBVIOUS
<1> HIDE DEF S, fourth
<1>5. CASE fourth = {}
  BY <1>1, <1>3, <1>5, Token
<1>6. CASE fourth # {}
  <2> DEFINE m == Min(fourth)
             s == SubSeq(pszPath, m, Len(pszPath))
  <2>1. fourth \in SUBSET Nat
    BY <1>2, <1>4
  <2>2. m \in fourth
    BY <1>6, <2>1, MinIs
  <2> HIDE DEF m
  <2>3. m \in 1 .. Len(pszPath) /\ pszPath[m] = "/"
    BY <1>2, <1>4, <2>2
  <2>4. /\ m \in 1 .. Len(pszPath) + 1 /\ Len(pszPath) \in m - 1 .. Len(pszPath)
        /\ 1 \in 1 .. Len(pszPath) - m + 1 /\ m + 1 - 1 = m
    BY <1>2, <2>3
  <2>5. s \in Text /\ \A i \in 1 .. Len(pszPath) - m + 1 : s[i] = pszPath[m + i - 1]
    BY <2>4, Slice DEF Text
  <2> HIDE DEF s
  <2>6. s \in Text /\ s[1] = "/"
    BY <2>3, <2>4, <2>5
  <2> QED
    BY <1>3, <1>6, <2>6 DEF s, m
<1> QED
  BY <1>5, <1>6

-----------------------------------------------------------------------------
(* The configured variables.                                               *)

Name(i) == Upper(variables[i].name)
Full(i) == Entry(Name(i), variables[i].value)
Latest(name) == Max({i \in DOMAIN variables : Name(i) = name})

LEMMA UpperIs ==
    ASSUME NEW D, NEW text \in Seq(D), \A x \in D : towupper[x] \in Tokens
    PROVE  Upper(text) \in Text
<1>1. \A i \in 1 .. Len(text) : towupper[text[i]] \in Tokens
  OBVIOUS
<1>2. Len(text) \in Nat /\ DOMAIN text = 1 .. Len(text)
  OBVIOUS
<1>3. Upper(text) = [i \in 1 .. Len(text) |-> towupper[text[i]]]
  BY <1>2 DEF Upper
<1> QED
  BY <1>1, <1>2, <1>3 DEF Text

LEMMA Variables ==
    ASSUME Assumptions, variables \in Collections
    PROVE  /\ Len(variables) \in Nat /\ DOMAIN variables = 1 .. Len(variables)
           /\ \A i \in 1 .. Len(variables) :
                Name(i) \in Text /\ variables[i].value \in Text /\ Full(i) \in Text
<1> DEFINE V == [name : Seq(DOMAIN towupper), value : Text]
<1>1. variables \in Seq(V)
  BY DEF Assumptions
<1>2. /\ Len(variables) \in Nat /\ DOMAIN variables = 1 .. Len(variables)
      /\ \A i \in 1 .. Len(variables) : variables[i] \in V
  <2> HIDE DEF V
  <2> QED
    BY <1>1
<1>3. ASSUME NEW i \in 1 .. Len(variables)
      PROVE  Name(i) \in Text /\ variables[i].value \in Text /\ Full(i) \in Text
  <2>1. variables[i].name \in Seq(DOMAIN towupper) /\ variables[i].value \in Text
    BY <1>2
  <2>2. Name(i) \in Text
    BY <2>1, UpperIs DEF Name, Assumptions
  <2>3. Full(i) \in Text
    BY <2>1, <2>2, Entered DEF Full
  <2> QED
    BY <2>1, <2>2, <2>3
<1> QED
  BY <1>2, <1>3

LEMMA LatestIs ==
    ASSUME Assumptions, variables \in Collections, NEW name \in Configured
    PROVE  /\ Latest(name) \in 1 .. Len(variables) /\ Name(Latest(name)) = name /\ name \in Text
           /\ \A i \in 1 .. Len(variables) : Name(i) = name => i <= Latest(name)
<1> DEFINE S == {i \in 1 .. Len(variables) : Name(i) = name}
<1>1. Len(variables) \in Nat /\ DOMAIN variables = 1 .. Len(variables)
  BY Variables
<1>2. PICK i \in 1 .. Len(variables) : name = Name(i)
  BY <1>1 DEF Configured, Name
<1>3. i \in S /\ name \in Text
  BY <1>2, Variables
<1>4. Latest(name) = Max(S)
  BY <1>1 DEF Latest
<1>5. S \in SUBSET (1 .. Len(variables)) /\ S # {}
  BY <1>3
<1>6. Max(S) \in S /\ \A y \in S : y <= Max(S)
  <2> HIDE DEF S
  <2> QED
    BY <1>1, <1>5, MaxIs
<1> QED
  BY <1>3, <1>4, <1>6

-----------------------------------------------------------------------------
(* What Populate collects and Initialize copies.                           *)

\* The first n variables are read.
Recorded(n) ==
    /\ mszEnvironment \in Seq(Text) /\ Len(mszEnvironment) = n
    /\ \A i \in 1 .. n : mszEnvironment[i] = Full(i)
    /\ mszEnvNames \in Seq(Text)
    /\ \A j \in 1 .. Len(mszEnvNames) : \E i \in 1 .. n : mszEnvNames[j] = Begin(Name(i))
    /\ \A i \in 1 .. n : \E j \in 1 .. Len(mszEnvNames) : mszEnvNames[j] = Begin(Name(i))

\* The last variable whose string has part in it.
Chosen(text, part) ==
    \E k \in 1 .. Len(variables) :
        /\ text = Full(k) /\ wcsstr(Full(k), part) # {}
        /\ \A l \in 1 .. Len(variables) : k < l => wcsstr(Full(l), part) = {}

\* The strings of the first n names are selected.
Selected(n) ==
    /\ m_mszEnvironment \in Seq(Text) /\ Len(m_mszEnvironment) = n
    /\ \A j \in 1 .. n : Chosen(m_mszEnvironment[j], mszEnvNames[j])

\* Strings of configured variables.
Collected(list) ==
    /\ list \in Seq(Text)
    /\ \A i \in 1 .. Len(list) : \E k \in 1 .. Len(variables) : list[i] = Full(k)

\* The last n strings are in the reversed list, while nothing is dropped.
Reversing(n) ==
    /\ Collected(mszEnvironmentListReverse)
    /\ dropped = 0 =>
         /\ Len(mszEnvironmentListReverse) = n
         /\ \A i \in 1 .. n : mszEnvironmentListReverse[i] = Full(Len(variables) - i + 1)

\* An environment of configured variables, if it is complete each of them
\* with its last value.
Passed(E, complete) ==
    /\ E \in Seq(Text)
    /\ \A j \in 1 .. Len(E) : \E k \in 1 .. Len(variables) : E[j] = Full(k)
    /\ complete /\ ~Confused =>
         /\ \A j \in 1 .. Len(E) : \E name \in Configured : E[j] = Full(Latest(name))
         /\ \A name \in Configured : \E j \in 1 .. Len(E) : E[j] = Full(Latest(name))

LEMMA SelectedOne ==
    ASSUME Assumptions, variables \in Collections, Recorded(Len(variables)),
           Reversing(Len(variables)), dropped = 0, NEW j \in 1 .. Len(mszEnvNames)
    PROVE  LET reversed == mszEnvironmentListReverse
               found == {i \in DOMAIN reversed : wcsstr(reversed[i], mszEnvNames[j]) # {}}
           IN  found # {} /\ Chosen(reversed[Min(found)], mszEnvNames[j])
<1> DEFINE R == mszEnvironmentListReverse
           p == mszEnvNames[j]
           F == {i \in DOMAIN R : wcsstr(R[i], p) # {}}
           N == Len(variables)
           m == Min(F)
           k == N - m + 1
<1>1. /\ N \in Nat
      /\ \A i \in 1 .. N : Name(i) \in Text /\ variables[i].value \in Text /\ Full(i) \in Text
  BY Variables
<1>2. \E i \in 1 .. N : p = Begin(Name(i))
  BY DEF Recorded
<1>3. DOMAIN R = 1 .. N
  BY DEF Reversing, Collected
<1>5. \A i \in 1 .. N : R[i] = Full(N - i + 1)
  BY DEF Reversing
<1> HIDE DEF R, p, N
<1>4. \A i \in 1 .. N : N - i + 1 \in 1 .. N /\ N - (N - i + 1) + 1 = i
  BY <1>1
<1>6. F # {}
  <2>1. PICK i \in 1 .. N : p = Begin(Name(i))
    BY <1>2
  <2>2. wcsstr(Full(i), p) # {}
    BY <1>1, <2>1, Named DEF Full
  <2>3. N - i + 1 \in 1 .. N /\ R[N - i + 1] = Full(i)
    <3>1. N - i + 1 \in 1 .. N /\ N - (N - i + 1) + 1 = i
      BY <1>4
    <3>2. R[N - i + 1] = Full(N - (N - i + 1) + 1)
      BY <1>5, <3>1
    <3> QED
      BY <3>1, <3>2
  <2>4. N - i + 1 \in F
    BY <1>3, <2>2, <2>3
  <2> QED
    BY <2>4
<1>7. F \in SUBSET Nat
  BY <1>1, <1>3
<1>8. m \in F /\ \A y \in F : m <= y
  <2> HIDE DEF F
  <2> QED
    BY <1>6, <1>7, MinIs
<1>9. m \in 1 .. N /\ wcsstr(R[m], p) # {}
  BY <1>3, <1>8
<1>10. k \in 1 .. N /\ R[m] = Full(k)
  BY <1>4, <1>5, <1>9
<1>11. ASSUME NEW l \in 1 .. N, k < l  PROVE wcsstr(Full(l), p) = {}
  <2>1. N - l + 1 \in 1 .. N /\ N - (N - l + 1) + 1 = l
    BY <1>4
  <2>2. N - l + 1 < m
    <3>1. m \in Int /\ l \in Int /\ N \in Int
      BY <1>1, <1>9
    <3> HIDE DEF m
    <3> QED
      BY <1>11, <3>1
  <2>3. R[N - l + 1] = Full(N - (N - l + 1) + 1)
    BY <1>5, <2>1
  <2>4. R[N - l + 1] = Full(l)
    BY <2>1, <2>3
  <2>5. N - l + 1 \notin F
    <3>1. m \in Int /\ N - l + 1 \in Int
      BY <1>9, <2>1
    <3> HIDE DEF F, m
    <3> QED
      BY <1>8, <2>2, <3>1
  <2> QED
    BY <1>3, <2>1, <2>4, <2>5
<1>12. Chosen(R[m], p)
  <2> HIDE DEF m, k, F
  <2> QED
    BY <1>9, <1>10, <1>11 DEF Chosen, N
<1> QED
  BY <1>6, <1>12 DEF R, p

LEMMA PassedAll ==
    ASSUME Assumptions, variables \in Collections, Recorded(Len(variables)),
           Selected(Len(mszEnvNames))
    PROVE  Passed(m_mszEnvironment, TRUE)
<1> DEFINE N == Len(variables)
           E == m_mszEnvironment
<1>1. /\ N \in Nat /\ DOMAIN variables = 1 .. N
      /\ \A i \in 1 .. N : Name(i) \in Text /\ variables[i].value \in Text /\ Full(i) \in Text
  BY Variables
<1>2. /\ E \in Seq(Text) /\ Len(E) = Len(mszEnvNames)
      /\ \A j \in 1 .. Len(E) : Chosen(E[j], mszEnvNames[j])
  BY DEF Selected
<1>3. /\ \A j \in 1 .. Len(mszEnvNames) : \E i \in 1 .. N : mszEnvNames[j] = Begin(Name(i))
      /\ \A i \in 1 .. N : \E j \in 1 .. Len(mszEnvNames) : mszEnvNames[j] = Begin(Name(i))
  BY DEF Recorded
<1>4. \A name : name \in Configured <=> \E i \in 1 .. N : name = Name(i)
  BY <1>1 DEF Configured, Name
<1> HIDE DEF N, E
<1>5. \A j \in 1 .. Len(E) : \E k \in 1 .. N : E[j] = Full(k)
  BY <1>2 DEF Chosen, N
<1>6. ASSUME ~Confused, NEW text, NEW name \in Configured, Chosen(text, Begin(name))
      PROVE  text = Full(Latest(name))
  <2>1. PICK k \in 1 .. N : /\ text = Full(k) /\ wcsstr(Full(k), Begin(name)) # {}
                            /\ \A l \in 1 .. N : k < l => wcsstr(Full(l), Begin(name)) = {}
    BY <1>6 DEF Chosen, N
  <2>2. Name(k) = name
    BY <1>1, <1>6, <2>1 DEF Confused, Full, Entry, Begin, Name
  <2> DEFINE l == Latest(name)
  <2>3. l \in 1 .. N /\ Name(l) = name /\ k <= l
    BY <2>2, LatestIs DEF N
  <2> HIDE DEF l
  <2>4. wcsstr(Full(l), Begin(name)) # {}
    BY <1>1, <2>3, Named DEF Full
  <2>5. ~(k < l)
    BY <2>1, <2>3, <2>4
  <2>6. k = l
    BY <1>1, <2>3, <2>5
  <2> QED
    BY <2>1, <2>6 DEF l
<1>7. ASSUME ~Confused
      PROVE  /\ \A j \in 1 .. Len(E) : \E name \in Configured : E[j] = Full(Latest(name))
             /\ \A name \in Configured : \E j \in 1 .. Len(E) : E[j] = Full(Latest(name))
  <2>1. ASSUME NEW j \in 1 .. Len(E)  PROVE \E name \in Configured : E[j] = Full(Latest(name))
    <3>1. PICK i \in 1 .. N : mszEnvNames[j] = Begin(Name(i))
      BY <1>2, <1>3
    <3>2. Name(i) \in Configured
      BY <1>4
    <3>3. Chosen(E[j], Begin(Name(i)))
      BY <1>2, <3>1
    <3>4. E[j] = Full(Latest(Name(i)))
      BY <1>6, <1>7, <3>2, <3>3
    <3> QED
      BY <3>2, <3>4
  <2>2. ASSUME NEW name \in Configured  PROVE \E j \in 1 .. Len(E) : E[j] = Full(Latest(name))
    <3>1. PICK i \in 1 .. N : name = Name(i)
      BY <1>4
    <3>2. PICK j \in 1 .. Len(E) : mszEnvNames[j] = Begin(name)
      BY <1>2, <1>3, <3>1
    <3>3. Chosen(E[j], Begin(name))
      BY <1>2, <3>2
    <3> QED
      BY <1>6, <1>7, <3>3
  <2> QED
    BY <2>1, <2>2
<1> QED
  BY <1>2, <1>5, <1>7 DEF Passed, E, N

LEMMA PassedNone ==
    Passed(<<>>, FALSE)
BY DEF Passed

\* Without something that was dropped an environment need not be complete.
LEMMA PassedSome ==
    ASSUME NEW E, Collected(E), dropped = 0 => Passed(E, TRUE), NEW c \in BOOLEAN
    PROVE  Passed(E, c /\ dropped = 0)
BY DEF Passed, Collected

-----------------------------------------------------------------------------
(* The block StartProcess builds.                                          *)

\* The command line (f) or one of the first n strings asks for the debug port.
Asks(text) == wcsstr(text, <<"%DEBUG_PORT%">>) # {}
Asked(f, n) == f \/ \E j \in 1 .. n : Asks(m_Environment[j])

\* The block after the first n strings: the module's own entries, then those
\* strings, with entries of the debug port between them if it is asked for.
Made(B, f, n) ==
    /\ B \in Seq(Text) /\ Len(B) >= 3
    /\ B[1] = Entry(<<"APPL_PATH">>, AppPath)
    /\ B[2] = Entry(<<"TOKEN">>, <<"guid">>)
    /\ B[3] = Entry(<<"PORT">>, <<m_dwPort>>)
    /\ \A k \in 4 .. Len(B) :
         \/ \E j \in 1 .. n : B[k] = Replaced(m_Environment[j])
         \/ B[k] = DebugPort /\ Asked(f, n)
    /\ \A j \in 1 .. n : \E k \in 4 .. Len(B) : B[k] = Replaced(m_Environment[j])
    /\ Asked(f, n) => \E k \in 4 .. Len(B) : B[k] = DebugPort

LEMMA DebugPortIs ==
    ASSUME m_dwDebugPort \in Tokens
    PROVE  /\ DebugPort = Entry(<<"DEBUG_PORT">>, <<m_dwDebugPort>>) /\ DebugPort \in Text
           /\ <<"DEBUG_PORT">> \in Text /\ <<m_dwDebugPort>> \in Text
<1>1. "DEBUG_PORT" \in Tokens
  BY Literals
<1>2. <<"DEBUG_PORT">> \in Text /\ <<m_dwDebugPort>> \in Text
  BY <1>1, Token
<1>3. DebugPort = Entry(<<"DEBUG_PORT">>, <<m_dwDebugPort>>)
  BY <1>1, Written, Zenon DEF DebugPort
<1> QED
  BY <1>2, <1>3, Entered

LEMMA Extended ==
    ASSUME NEW S, NEW b \in Seq(S), NEW x \in S
    PROVE  /\ b \o <<x>> \in Seq(S) /\ Len(b) \in Nat /\ Len(b \o <<x>>) = Len(b) + 1
           /\ \A i \in 1 .. Len(b) : (b \o <<x>>)[i] = b[i]
           /\ (b \o <<x>>)[Len(b) + 1] = x
<1> DEFINE a == <<x>>
           c == b \o a
<1>1. a \in Seq(S) /\ Len(a) = 1 /\ a[1] = x
  BY Single
<1> HIDE DEF a
<1>2. a \in Seq(S) /\ b \in Seq(S)
  BY <1>1
<1>3. /\ c \in Seq(S) /\ Len(c) = Len(b) + Len(a)
      /\ \A i \in 1 .. Len(b) : c[i] = b[i]
      /\ \A i \in 1 .. Len(a) : c[Len(b) + i] = a[i]
  BY <1>2, Catenation
<1>4. Len(b) \in Nat
  OBVIOUS
<1> HIDE DEF c
<1>5. Len(c) = Len(b) + 1 /\ c[Len(b) + 1] = x
  BY <1>1, <1>3
<1> QED
  BY <1>3, <1>4, <1>5 DEF c, a

\* What the module writes first: the path, the token and the port.
OwnEntry(i) == Entry(<<OwnName[i]>>, OwnValue[i])
Begun(B, n) == B \in Seq(Text) /\ Len(B) = n /\ \A i \in 1 .. n : B[i] = OwnEntry(i)

LEMMA OwnEntryIs ==
    ASSUME m_dwPort \in Tokens, pszPath \in Text
    PROVE  /\ \A i \in 1 .. 3 : /\ <<OwnName[i]>> \in Text /\ OwnValue[i] \in Text
                              /\ <<OwnName[i], "=">> = Begin(<<OwnName[i]>>)
                              /\ OwnEntry(i) \in Text
           /\ OwnEntry(1) = Entry(<<"APPL_PATH">>, AppPath)
           /\ OwnEntry(2) = Entry(<<"TOKEN">>, <<"guid">>)
           /\ OwnEntry(3) = Entry(<<"PORT">>, <<m_dwPort>>)
<1>1. /\ OwnName[1] = "APPL_PATH" /\ OwnName[2] = "TOKEN" /\ OwnName[3] = "PORT"
      /\ OwnValue[1] = AppPath /\ OwnValue[2] = <<"guid">> /\ OwnValue[3] = <<m_dwPort>>
  BY DEF OwnName, OwnValue
<1>2. "APPL_PATH" \in Tokens /\ "TOKEN" \in Tokens /\ "PORT" \in Tokens /\ "guid" \in Tokens
  BY Literals
<1>3. AppPath \in Text /\ <<"guid">> \in Text /\ <<m_dwPort>> \in Text
  BY <1>2, AppPathIs, Token
<1>4. ASSUME NEW i \in 1 .. 3
      PROVE  /\ <<OwnName[i]>> \in Text /\ OwnValue[i] \in Text
             /\ <<OwnName[i], "=">> = Begin(<<OwnName[i]>>)
             /\ OwnEntry(i) \in Text
  <2>1. OwnName[i] \in Tokens /\ OwnValue[i] \in Text
    <3>1. i = 1 \/ i = 2 \/ i = 3
      OBVIOUS
    <3> QED
      BY <1>1, <1>2, <1>3, <3>1
  <2>2. <<OwnName[i], "=">> = Begin(<<OwnName[i]>>)
    BY <2>1, Written, Zenon
  <2>3. <<OwnName[i]>> \in Text
    BY <2>1, Token
  <2> QED
    BY <2>1, <2>2, <2>3, Entered DEF OwnEntry
<1>5. /\ OwnEntry(1) = Entry(<<"APPL_PATH">>, AppPath)
      /\ OwnEntry(2) = Entry(<<"TOKEN">>, <<"guid">>)
      /\ OwnEntry(3) = Entry(<<"PORT">>, <<m_dwPort>>)
  BY <1>1 DEF OwnEntry
<1> QED
  BY <1>4, <1>5

LEMMA Appended ==
    ASSUME NEW S, NEW b \in Seq(S), NEW x \in S
    PROVE  /\ Append(b, x) \in Seq(S) /\ Len(b) \in Nat /\ Len(Append(b, x)) = Len(b) + 1
           /\ \A i \in 1 .. Len(b) : Append(b, x)[i] = b[i]
           /\ Append(b, x)[Len(b) + 1] = x
OBVIOUS

LEMMA MadeFirst ==
    ASSUME m_dwPort \in Tokens, m_dwDebugPort \in Tokens, pszPath \in Text, NEW f \in BOOLEAN,
           NEW l, Begun(l, 3)
    PROVE  Made(IF f THEN Append(l, DebugPort) ELSE l, f, 0)
<1> DEFINE B == IF f THEN Append(l, DebugPort) ELSE l
           d == DebugPort
<1>1. d \in Text
  BY DebugPortIs
<1>2. /\ l \in Seq(Text) /\ Len(l) = 3
      /\ l[1] = OwnEntry(1) /\ l[2] = OwnEntry(2) /\ l[3] = OwnEntry(3)
  BY DEF Begun
<1> HIDE DEF d
<1>3. /\ B \in Seq(Text) /\ Len(B) = IF f THEN 4 ELSE 3
      /\ \A i \in 1 .. 3 : B[i] = l[i]
      /\ f => B[4] = d
  <2>1. CASE f
    <3> DEFINE c == Append(l, d)
    <3>1. B = c
      BY <2>1 DEF d
    <3>0. l \in Seq(Text) /\ d \in Text
      BY <1>1, <1>2
    <3>2. /\ c \in Seq(Text) /\ Len(c) = Len(l) + 1
          /\ \A i \in 1 .. Len(l) : c[i] = l[i]
          /\ c[Len(l) + 1] = d
      BY <3>0, Appended
    <3>3. Len(l) = 3
      BY <1>2
    <3> HIDE DEF B, c
    <3>4. c \in Seq(Text) /\ Len(c) = 4 /\ c[4] = d /\ \A i \in 1 .. 3 : c[i] = l[i]
      BY <3>2, <3>3
    <3> QED
      BY <2>1, <3>1, <3>4
  <2>2. CASE ~f
    <3>1. B = l
      BY <2>2
    <3> HIDE DEF B
    <3> QED
      BY <1>2, <2>2, <3>1
  <2> QED
    BY <2>1, <2>2
<1> HIDE DEF B
<1>4. B[1] = OwnEntry(1) /\ B[2] = OwnEntry(2) /\ B[3] = OwnEntry(3) /\ Len(B) >= 3
  BY <1>2, <1>3
<1>5. ASSUME NEW k \in 4 .. Len(B)  PROVE B[k] = d /\ Asked(f, 0)
  <2>1. f /\ k = 4
    BY <1>3
  <2> QED
    BY <1>3, <2>1 DEF Asked
<1>6. Asked(f, 0) => \E k \in 4 .. Len(B) : B[k] = d
  <2>1. Asked(f, 0) => f
    BY DEF Asked
  <2> QED
    BY <1>3, <2>1
<1>7. \A j \in 1 .. 0 : FALSE
  OBVIOUS
<1>8. Made(B, f, 0)
  BY <1>3, <1>4, <1>5, <1>6, <1>7, OwnEntryIs DEF Made, d
<1> QED
  BY <1>8 DEF B, d

LEMMA MadeNext ==
    ASSUME m_dwPort \in Tokens, m_dwDebugPort \in Tokens, m_Environment \in Seq(Text),
           NEW f \in BOOLEAN, NEW n \in 1 .. Len(m_Environment), NEW B, Made(B, f, n - 1)
    PROVE  Made(B \o (IF Asks(m_Environment[n]) /\ ~f THEN <<DebugPort>> ELSE <<>>)
                  \o <<Replaced(m_Environment[n])>>, f, n)
<1> DEFINE d == DebugPort
           y == Replaced(m_Environment[n])
           asks == Asks(m_Environment[n])
           C == B \o (IF asks /\ ~f THEN <<d>> ELSE <<>>)
           D == C \o <<y>>
<1>1. /\ B \in Seq(Text) /\ Len(B) \in Nat /\ Len(B) >= 3
      /\ B[1] = Entry(<<"APPL_PATH">>, AppPath)
      /\ B[2] = Entry(<<"TOKEN">>, <<"guid">>)
      /\ B[3] = Entry(<<"PORT">>, <<m_dwPort>>)
  BY DEF Made
<1>2. /\ \A k \in 4 .. Len(B) : \/ \E j \in 1 .. n - 1 : B[k] = Replaced(m_Environment[j])
                                \/ B[k] = d /\ Asked(f, n - 1)
      /\ \A j \in 1 .. n - 1 : \E k \in 4 .. Len(B) : B[k] = Replaced(m_Environment[j])
      /\ Asked(f, n - 1) => \E k \in 4 .. Len(B) : B[k] = d
  BY DEF Made
<1>3. n \in Nat /\ n \in 1 .. n /\ \A j \in 1 .. n : j = n \/ j \in 1 .. n - 1
  OBVIOUS
<1>4. \A j \in 1 .. n - 1 : j \in 1 .. n
  OBVIOUS
<1>5. Asked(f, n) <=> Asked(f, n - 1) \/ asks
  BY <1>3, <1>4 DEF Asked
<1>6. d \in Text
  BY DebugPortIs
<1>7. y \in Text
  BY ReplacedIs
<1> HIDE DEF d, y, asks
<1>8. /\ C \in Seq(Text) /\ Len(C) \in Nat /\ Len(C) >= Len(B)
      /\ \A i \in 1 .. Len(B) : C[i] = B[i]
      /\ \A i \in Len(B) + 1 .. Len(C) : C[i] = d /\ asks
      /\ asks => f \/ (Len(C) = Len(B) + 1 /\ C[Len(C)] = d)
  <2>1. CASE asks /\ ~f
    <3>1. C = B \o <<d>>
      BY <2>1
    <3> HIDE DEF C
    <3>2. /\ C \in Seq(Text) /\ Len(C) = Len(B) + 1
          /\ \A i \in 1 .. Len(B) : C[i] = B[i]
          /\ C[Len(B) + 1] = d
      BY <1>1, <1>6, <3>1, Extended
    <3>3. \A i \in Len(B) + 1 .. Len(C) : i = Len(B) + 1
      BY <1>1, <3>2
    <3> QED
      BY <1>1, <2>1, <3>2, <3>3
  <2>2. CASE ~(asks /\ ~f)
    <3>1. C = B
      BY <1>1, <2>2
    <3> HIDE DEF C
    <3> QED
      BY <1>1, <2>2, <3>1
  <2> QED
    BY <2>1, <2>2
<1> HIDE DEF C
<1>9. /\ D \in Seq(Text) /\ Len(D) = Len(C) + 1
      /\ \A i \in 1 .. Len(C) : D[i] = C[i]
      /\ D[Len(C) + 1] = y
  BY <1>7, <1>8, Extended
<1> HIDE DEF D
<1>10. \A i \in 1 .. Len(B) : D[i] = B[i]
  <2>1. \A i \in 1 .. Len(B) : i \in 1 .. Len(C)
    BY <1>1, <1>8
  <2> QED
    BY <1>8, <1>9, <2>1
<1>11. /\ Len(D) >= 3 /\ D[1] = Entry(<<"APPL_PATH">>, AppPath)
       /\ D[2] = Entry(<<"TOKEN">>, <<"guid">>) /\ D[3] = Entry(<<"PORT">>, <<m_dwPort>>)
  <2>1. 1 \in 1 .. Len(B) /\ 2 \in 1 .. Len(B) /\ 3 \in 1 .. Len(B)
    BY <1>1
  <2>2. D[1] = B[1] /\ D[2] = B[2] /\ D[3] = B[3]
    BY <1>10, <2>1
  <2>3. Len(D) >= 3
    BY <1>1, <1>8, <1>9
  <2> QED
    BY <1>1, <2>2, <2>3
<1>12. ASSUME NEW k \in 4 .. Len(D)
       PROVE  \/ \E j \in 1 .. n : D[k] = Replaced(m_Environment[j])
              \/ D[k] = d /\ Asked(f, n)
  <2>1. \/ k \in 4 .. Len(B) \/ k \in Len(B) + 1 .. Len(C) \/ k = Len(C) + 1
    BY <1>1, <1>8, <1>9
  <2>2. CASE k \in 4 .. Len(B)
    <3>1. D[k] = B[k]
      BY <1>10, <2>2
    <3> QED
      BY <1>2, <1>4, <1>5, <2>2, <3>1
  <2>3. CASE k \in Len(B) + 1 .. Len(C)
    <3>1. k \in 1 .. Len(C)
      BY <1>1, <2>3
    <3> QED
      BY <1>5, <1>8, <1>9, <2>3, <3>1
  <2>4. CASE k = Len(C) + 1
    BY <1>3, <1>9, <2>4 DEF y
  <2> QED
    BY <2>1, <2>2, <2>3, <2>4
<1>13. \A k \in 4 .. Len(B) : k \in 4 .. Len(D) /\ D[k] = B[k]
  <2>1. \A k \in 4 .. Len(B) : k \in 1 .. Len(B) /\ k \in 4 .. Len(D)
    BY <1>1, <1>8, <1>9
  <2> QED
    BY <1>10, <2>1
<1>14. ASSUME NEW j \in 1 .. n  PROVE \E k \in 4 .. Len(D) : D[k] = Replaced(m_Environment[j])
  <2>1. CASE j \in 1 .. n - 1
    BY <1>2, <1>13, <2>1
  <2>2. CASE j = n
    <3>1. Len(C) + 1 \in 4 .. Len(D)
      BY <1>1, <1>8, <1>9
    <3> QED
      BY <1>9, <2>2, <3>1 DEF y
  <2> QED
    BY <1>3, <2>1, <2>2
<1>15. ASSUME Asked(f, n)  PROVE \E k \in 4 .. Len(D) : D[k] = d
  <2>1. CASE Asked(f, n - 1)
    BY <1>2, <1>13, <2>1
  <2>2. CASE asks /\ ~f
    <3>1. Len(C) \in 1 .. Len(C) /\ Len(C) \in 4 .. Len(D) /\ C[Len(C)] = d
      BY <1>1, <1>8, <1>9, <2>2
    <3> QED
      BY <1>9, <3>1
  <2>3. f => Asked(f, n - 1)
    BY DEF Asked
  <2> QED
    BY <1>5, <1>15, <2>1, <2>2, <2>3
<1>16. Made(D, f, n)
  BY <1>9, <1>11, <1>12, <1>14, <1>15 DEF Made, d
<1> QED
  BY <1>16 DEF D, C, asks, y, d

-----------------------------------------------------------------------------
(* What the process finds.                                                 *)

\* A name without "=".
Free(name) == name \in Text /\ \A i \in 1 .. Len(name) : name[i] # "="

LEMMA FreeName ==
    ASSUME NEW a, Free(a), NEW b, Free(b), NEW v \in Text, IsPrefix(Begin(a), Entry(b, v))
    PROVE  a = b
<1>1. /\ a \in Text /\ b \in Text
      /\ \A i \in 1 .. Len(a) : a[i] # "="
      /\ \A i \in 1 .. Len(b) : b[i] # "="
  BY DEF Free
<1> QED
  BY <1>1, SameName

LEMMA FreeToken ==
    ASSUME NEW x \in Tokens, x # "="
    PROVE  Free(<<x>>)
<1> DEFINE a == <<x>>
<1>1. a \in Text /\ Len(a) = 1 /\ a[1] = x
  BY Token
<1> HIDE DEF a
<1>2. \A i \in 1 .. Len(a) : a[i] # "="
  BY <1>1
<1>3. Free(a)
  BY <1>1, <1>2 DEF Free
<1> QED
  BY <1>3 DEF a

LEMMA OwnNames ==
    /\ Free(<<"APPL_PATH">>) /\ Free(<<"TOKEN">>) /\ Free(<<"PORT">>) /\ Free(<<"DEBUG_PORT">>)
    /\ <<"PORT">> # <<"APPL_PATH">> /\ <<"PORT">> # <<"TOKEN">>
    /\ <<"DEBUG_PORT">> \notin {<<"APPL_PATH">>, <<"TOKEN">>, <<"PORT">>}
<1>1. /\ "APPL_PATH" \in Tokens /\ "TOKEN" \in Tokens /\ "PORT" \in Tokens /\ "DEBUG_PORT" \in Tokens
      /\ "APPL_PATH" # "=" /\ "TOKEN" # "=" /\ "PORT" # "=" /\ "DEBUG_PORT" # "="
  BY Literals
<1>2. ASSUME NEW x, NEW y, <<x>> = <<y>>  PROVE x = y
  <2>1. <<x>>[1] = <<y>>[1]
    BY <1>2
  <2> QED
    BY <2>1
<1>3. /\ <<"PORT">> # <<"APPL_PATH">> /\ <<"PORT">> # <<"TOKEN">>
      /\ <<"DEBUG_PORT">> \notin {<<"APPL_PATH">>, <<"TOKEN">>, <<"PORT">>}
  BY <1>2
<1> QED
  BY <1>1, <1>3, FreeToken

\* Which entry of the block can have a name.
LEMMA Bearer ==
    ASSUME m_dwPort \in Tokens, m_dwDebugPort \in Tokens, pszPath \in Text,
           NEW f \in BOOLEAN, NEW n \in Nat, NEW B, Made(B, f, n),
           NEW name, Free(name), NEW k \in 1 .. Len(B), IsPrefix(Begin(name), B[k])
    PROVE  \/ k = 1 /\ name = <<"APPL_PATH">>
           \/ k = 2 /\ name = <<"TOKEN">>
           \/ k = 3 /\ name = <<"PORT">>
           \/ name = <<"DEBUG_PORT">> /\ B[k] = DebugPort /\ Asked(f, n)
           \/ \E j \in 1 .. n : B[k] = Replaced(m_Environment[j])
<1>1. /\ Len(B) \in Nat
      /\ B[1] = Entry(<<"APPL_PATH">>, AppPath)
      /\ B[2] = Entry(<<"TOKEN">>, <<"guid">>)
      /\ B[3] = Entry(<<"PORT">>, <<m_dwPort>>)
  BY DEF Made
<1>2. \A i \in 4 .. Len(B) : \/ \E j \in 1 .. n : B[i] = Replaced(m_Environment[j])
                             \/ B[i] = DebugPort /\ Asked(f, n)
  BY DEF Made
<1>3. AppPath \in Text /\ <<"guid">> \in Text /\ <<m_dwPort>> \in Text
  BY AppPathIs, Literals, Token
<1>4. DebugPort = Entry(<<"DEBUG_PORT">>, <<m_dwDebugPort>>) /\ <<m_dwDebugPort>> \in Text
  BY DebugPortIs
<1>5. k = 1 \/ k = 2 \/ k = 3 \/ k \in 4 .. Len(B)
  BY <1>1
<1>6. CASE k = 1
  <2>1. IsPrefix(Begin(name), Entry(<<"APPL_PATH">>, AppPath)) /\ Free(<<"APPL_PATH">>)
    BY <1>1, <1>6, OwnNames
  <2>2. name = <<"APPL_PATH">>
    BY <1>3, <2>1, FreeName
  <2> QED
    BY <1>6, <2>2
<1>7. CASE k = 2
  <2>1. IsPrefix(Begin(name), Entry(<<"TOKEN">>, <<"guid">>)) /\ Free(<<"TOKEN">>)
    BY <1>1, <1>7, OwnNames
  <2>2. name = <<"TOKEN">>
    BY <1>3, <2>1, FreeName
  <2> QED
    BY <1>7, <2>2
<1>8. CASE k = 3
  <2>1. IsPrefix(Begin(name), Entry(<<"PORT">>, <<m_dwPort>>)) /\ Free(<<"PORT">>)
    BY <1>1, <1>8, OwnNames
  <2>2. name = <<"PORT">>
    BY <1>3, <2>1, FreeName
  <2> QED
    BY <1>8, <2>2
<1>9. ASSUME B[k] = DebugPort  PROVE name = <<"DEBUG_PORT">>
  <2>1. IsPrefix(Begin(name), Entry(<<"DEBUG_PORT">>, <<m_dwDebugPort>>)) /\ Free(<<"DEBUG_PORT">>)
    BY <1>4, <1>9, OwnNames
  <2> QED
    BY <1>4, <2>1, FreeName
<1> QED
  BY <1>2, <1>5, <1>6, <1>7, <1>8, <1>9

\* With ordinary names a variable keeps its name.
LEMMA OrdinaryNames ==
    ASSUME Assumptions, variables \in Collections, m_dwPort \in Tokens, m_dwDebugPort \in Tokens,
           Ordinary, NEW i \in 1 .. Len(variables)
    PROVE  /\ Name(i) \in Configured /\ Free(Name(i)) /\ Name(i) \notin Own
           /\ Replaced(variables[i].value) \in Text
           /\ Replaced(Full(i)) = Entry(Name(i), Replaced(variables[i].value))
<1>1. /\ Name(i) \in Text /\ variables[i].value \in Text /\ i \in DOMAIN variables
      /\ Name(i) \in Configured
  <2>1. Name(i) \in Text /\ variables[i].value \in Text /\ i \in DOMAIN variables
    BY Variables
  <2> QED
    BY <2>1 DEF Configured, Name
<1>2. /\ Name(i) \notin Own
      /\ \A j \in DOMAIN Name(i) : Name(i)[j] \notin {"=", "%PORT%", "%DEBUG_PORT%"}
  BY <1>1 DEF Ordinary
<1>3. DOMAIN Name(i) = 1 .. Len(Name(i))
  BY <1>1 DEF Text
<1>4. /\ \A j \in 1 .. Len(Name(i)) : Name(i)[j] \notin {"%PORT%", "%DEBUG_PORT%"}
      /\ \A j \in 1 .. Len(Name(i)) : Name(i)[j] # "="
  BY <1>2, <1>3
<1>5. /\ Replaced(variables[i].value) \in Text
      /\ Replaced(Full(i)) = Entry(Name(i), Replaced(variables[i].value))
  BY <1>1, <1>4, ReplacedAfter DEF Full
<1> QED
  BY <1>1, <1>2, <1>4, <1>5 DEF Free

\* What EnvironmentDelivered says of a process for which nothing was dropped.
Complete ==
    /\ Lookup(<<"PORT">>) = <<m_dwPort>> /\ Lookup(<<"APPL_PATH">>)[1] = "/"
    /\ Ordinary /\ copied /\ ~Confused =>
         \A name \in Configured : Lookup(name) = Wanted(name)
    /\ Ordinary => \A i \in DOMAIN Inherited :
         LET name == <<Inherited[i][1]>> IN
         name \notin Own /\ Configured \cap {name, Upper(name)} = {} =>
            Lookup(name) = LookupIn(Inherited, name)
    /\ Ordinary => Lookup(<<"DEBUG_PORT">>) =
         IF DebugPortAsked THEN <<m_dwDebugPort>> ELSE LookupIn(Inherited, <<"DEBUG_PORT">>)

LEMMA Delivery ==
    ASSUME Assumptions, variables \in Collections, pszPath \in AppConfigPaths,
           m_dwPort \in Ports, m_dwDebugPort \in Ports \ {m_dwPort},
           Passed(m_Environment, copied), fDebugPortEnvSet \in BOOLEAN,
           NEW B, Made(B, fDebugPortEnvSet, Len(m_Environment)), mszNewEnvironment = B \o Inherited
    PROVE  Complete
<1> DEFINE E == mszNewEnvironment
           f == fDebugPortEnvSet
           n == Len(m_Environment)
<1>1. /\ m_dwPort \in Tokens /\ m_dwDebugPort \in Tokens /\ pszPath \in Text
      /\ Inherited \in Seq(Text) /\ m_dwPort # m_dwDebugPort
  BY DEF Assumptions
<1>2. /\ B \in Seq(Text) /\ Len(B) >= 3 /\ Len(B) \in Nat
      /\ B[1] = Entry(<<"APPL_PATH">>, AppPath)
      /\ B[3] = Entry(<<"PORT">>, <<m_dwPort>>)
      /\ \A j \in 1 .. n : \E k \in 4 .. Len(B) : B[k] = Replaced(m_Environment[j])
      /\ Asked(f, n) => \E k \in 4 .. Len(B) : B[k] = DebugPort
  BY DEF Made
<1>3. /\ m_Environment \in Seq(Text) /\ n \in Nat /\ DOMAIN m_Environment = 1 .. n
      /\ \A j \in 1 .. n : \E i \in 1 .. Len(variables) : m_Environment[j] = Full(i)
  BY DEF Passed
<1>4. E \in Seq(Text) /\ Len(E) = Len(B) + Len(Inherited) /\ \A i \in 1 .. Len(B) : E[i] = B[i]
  BY <1>1, <1>2, Catenation
<1>5. Len(Inherited) \in Nat /\ DOMAIN Inherited = 1 .. Len(Inherited)
  BY <1>1
<1> HIDE DEF E, f, n
<1>6. ASSUME NEW name \in Text, NEW v \in Text, NEW k \in 1 .. Len(B), B[k] = Entry(name, v),
             \A j \in 1 .. k - 1 : IsPrefix(Begin(name), B[j]) => B[j] = Entry(name, v)
      PROVE  Lookup(name) = v
  <2>1. k \in 1 .. Len(E) /\ E[k] = Entry(name, v)
    BY <1>2, <1>4, <1>5, <1>6
  <2>2. \A j \in 1 .. k - 1 : j \in 1 .. Len(B)
    BY <1>2
  <2>3. \A j \in 1 .. k - 1 : IsPrefix(Begin(name), E[j]) => E[j] = Entry(name, v)
    BY <1>4, <1>6, <2>2
  <2>4. LookupIn(E, name) = v
    BY <1>4, <2>1, <2>3, Looked
  <2> QED
    BY <2>4 DEF Lookup, E
<1>7. ASSUME NEW name \in Text, \A k \in 1 .. Len(B) : ~ IsPrefix(Begin(name), B[k])
      PROVE  Lookup(name) = LookupIn(Inherited, name)
  <2>1. LookupIn(B \o Inherited, name) = LookupIn(Inherited, name)
    BY <1>1, <1>2, <1>7, LookedPast
  <2> QED
    BY <2>1 DEF Lookup
<1>8. ASSUME NEW name, Free(name), NEW k \in 1 .. Len(B), IsPrefix(Begin(name), B[k])
      PROVE  \/ k = 1 /\ name = <<"APPL_PATH">>
             \/ k = 2 /\ name = <<"TOKEN">>
             \/ k = 3 /\ name = <<"PORT">>
             \/ name = <<"DEBUG_PORT">> /\ B[k] = DebugPort /\ Asked(f, n)
             \/ \E j \in 1 .. n : B[k] = Replaced(m_Environment[j])
  <2>1. Made(B, f, n) /\ f \in BOOLEAN
    BY DEF f, n
  <2> QED
    BY <1>1, <1>3, <1>8, <2>1, Bearer
<1>9. /\ AppPath \in Text /\ AppPath[1] = "/" /\ <<m_dwPort>> \in Text
      /\ <<"APPL_PATH">> \in Text /\ <<"PORT">> \in Text /\ <<"DEBUG_PORT">> \in Text
  BY <1>1, AppPathIs, Literals, Token
<1>10. Lookup(<<"APPL_PATH">>) = AppPath
  <2>1. 1 \in 1 .. Len(B) /\ \A j \in 1 .. 1 - 1 : FALSE
    BY <1>2
  <2> QED
    BY <1>2, <1>6, <1>9, <2>1
<1>11. Lookup(<<"PORT">>) = <<m_dwPort>>
  <2>1. 3 \in 1 .. Len(B) /\ \A j \in 1 .. 3 - 1 : j = 1 \/ j = 2
    BY <1>2
  <2>2. ~ IsPrefix(Begin(<<"PORT">>), B[1])
    <3>1. IsPrefix(Begin(<<"PORT">>), B[1]) => <<"PORT">> = <<"APPL_PATH">>
      BY <1>2, <1>9, OwnNames, FreeName
    <3> QED
      BY <3>1, OwnNames
  <2>3. ~ IsPrefix(Begin(<<"PORT">>), B[2])
    <3>1. B[2] = Entry(<<"TOKEN">>, <<"guid">>) /\ <<"guid">> \in Text
      BY Literals, Token DEF Made
    <3>2. IsPrefix(Begin(<<"PORT">>), B[2]) => <<"PORT">> = <<"TOKEN">>
      BY <3>1, OwnNames, FreeName
    <3> QED
      BY <3>2, OwnNames
  <2> QED
    BY <1>2, <1>6, <1>9, <2>1, <2>2, <2>3
\* An ordinary variable of the block.
<1>12. ASSUME Ordinary, NEW name, Free(name), NEW j \in 1 .. n,
              IsPrefix(Begin(name), Replaced(m_Environment[j]))
       PROVE  \A i \in 1 .. Len(variables) :
                m_Environment[j] = Full(i) =>
                  Name(i) = name /\ Replaced(m_Environment[j]) = Entry(name, Replaced(variables[i].value))
  <2> SUFFICES ASSUME NEW i \in 1 .. Len(variables), m_Environment[j] = Full(i)
               PROVE  /\ Name(i) = name
                      /\ Replaced(m_Environment[j]) = Entry(name, Replaced(variables[i].value))
    OBVIOUS
  <2>1. /\ Free(Name(i)) /\ Replaced(variables[i].value) \in Text
        /\ Replaced(m_Environment[j]) = Entry(Name(i), Replaced(variables[i].value))
    BY <1>1, <1>12, OrdinaryNames
  <2>2. name = Name(i)
    BY <1>12, <2>1, FreeName
  <2> QED
    BY <2>1, <2>2
<1>13. ASSUME Ordinary, copied, ~Confused, NEW name \in Configured
       PROVE  Lookup(name) = Wanted(name)
  <2> DEFINE l == Latest(name)
             v == Replaced(variables[l].value)
  <2>1. l \in 1 .. Len(variables) /\ Name(l) = name /\ name \in Text
    BY LatestIs
  <2>2. /\ Free(name) /\ name \notin Own /\ v \in Text
        /\ Replaced(Full(l)) = Entry(name, v)
    BY <1>1, <1>13, <2>1, OrdinaryNames
  <2>3. /\ \A j \in 1 .. n : \E other \in Configured : m_Environment[j] = Full(Latest(other))
        /\ \E j \in 1 .. n : m_Environment[j] = Full(l)
    BY <1>13 DEF Passed, n
  <2>4. Wanted(name) = v
    BY DEF Wanted, Latest, Name
  <2> HIDE DEF l, v
  <2>5. PICK k \in 4 .. Len(B) : B[k] = Entry(name, v)
    BY <1>2, <2>2, <2>3
  <2>6. ASSUME NEW j \in 1 .. Len(B), IsPrefix(Begin(name), B[j])  PROVE B[j] = Entry(name, v)
    <3>1. PICK i \in 1 .. n : B[j] = Replaced(m_Environment[i])
      BY <1>8, <2>2, <2>6 DEF Own
    <3>2. PICK other \in Configured : m_Environment[i] = Full(Latest(other))
      BY <2>3
    <3>3. Latest(other) \in 1 .. Len(variables) /\ Name(Latest(other)) = other
      BY LatestIs
    <3>4. Name(Latest(other)) = name
      BY <1>12, <1>13, <2>2, <2>6, <3>1, <3>2, <3>3
    <3>5. m_Environment[i] = Full(l)
      BY <3>2, <3>3, <3>4 DEF l
    <3> QED
      BY <2>2, <3>1, <3>5
  <2>7. k \in 1 .. Len(B) /\ \A j \in 1 .. k - 1 : j \in 1 .. Len(B)
    BY <1>2
  <2> QED
    BY <1>6, <2>1, <2>2, <2>4, <2>5, <2>6, <2>7
<1>14. ASSUME Ordinary, NEW name, Free(name), name \notin Own, name \notin Configured
       PROVE  Lookup(name) = LookupIn(Inherited, name)
  <2>1. ASSUME NEW k \in 1 .. Len(B), IsPrefix(Begin(name), B[k])  PROVE FALSE
    <3>1. PICK j \in 1 .. n : B[k] = Replaced(m_Environment[j])
      BY <1>8, <1>14, <2>1 DEF Own
    <3>2. PICK i \in 1 .. Len(variables) : m_Environment[j] = Full(i)
      BY <1>3
    <3>3. Name(i) = name
      BY <1>12, <1>14, <2>1, <3>1, <3>2
    <3> QED
      BY <1>1, <1>14, <3>3, OrdinaryNames
  <2>2. name \in Text
    BY <1>14 DEF Free
  <2> QED
    BY <1>7, <2>1, <2>2
<1>15. ASSUME NEW i \in DOMAIN Inherited  PROVE Free(<<Inherited[i][1]>>)
  <2>1. Inherited[i] \in Text /\ Inherited[i] # <<>> /\ Inherited[i][1] # "="
    BY <1>1 DEF Assumptions
  <2>2. Inherited[i][1] \in Tokens
    BY <2>1 DEF Text
  <2> QED
    BY <2>1, <2>2, FreeToken
<1>16. ASSUME Ordinary
       PROVE  Lookup(<<"DEBUG_PORT">>) =
                IF Asked(f, n) THEN <<m_dwDebugPort>> ELSE LookupIn(Inherited, <<"DEBUG_PORT">>)
  <2> DEFINE d == <<"DEBUG_PORT">>
             v == <<m_dwDebugPort>>
  <2>1. d \in Text /\ v \in Text /\ DebugPort = Entry(d, v)
    BY <1>1, DebugPortIs
  <2>2. Free(d) /\ d \in Own /\ d \notin {<<"APPL_PATH">>, <<"TOKEN">>, <<"PORT">>}
    BY OwnNames DEF Own
  <2> HIDE DEF d, v
  <2>3. ASSUME NEW k \in 1 .. Len(B), IsPrefix(Begin(d), B[k])
        PROVE  B[k] = Entry(d, v) /\ Asked(f, n)
    <3>1. ~ \E j \in 1 .. n : B[k] = Replaced(m_Environment[j])
      <4>1. ASSUME NEW j \in 1 .. n, B[k] = Replaced(m_Environment[j])  PROVE FALSE
        <5>1. PICK i \in 1 .. Len(variables) : m_Environment[j] = Full(i)
          BY <1>3
        <5>2. Name(i) = d
          BY <1>12, <1>16, <2>2, <2>3, <4>1, <5>1
        <5> QED
          BY <1>1, <1>16, <2>2, <5>2, OrdinaryNames
      <4> QED
        BY <4>1
    <3> QED
      BY <1>8, <2>1, <2>2, <2>3, <3>1
  <2>4. CASE Asked(f, n)
    <3>1. PICK k \in 4 .. Len(B) : B[k] = Entry(d, v)
      BY <1>2, <2>1, <2>4
    <3>2. k \in 1 .. Len(B) /\ \A j \in 1 .. k - 1 : j \in 1 .. Len(B)
      BY <1>2
    <3>3. Lookup(d) = v
      BY <1>6, <2>1, <2>3, <3>1, <3>2
    <3> QED
      BY <2>4, <3>3 DEF d, v
  <2>5. CASE ~Asked(f, n)
    <3>1. Lookup(d) = LookupIn(Inherited, d)
      BY <1>7, <2>1, <2>3, <2>5
    <3> QED
      BY <2>5, <3>1 DEF d, v
  <2> QED
    BY <2>4, <2>5
<1>17. Asked(f, n) <=> DebugPortAsked
  BY <1>3 DEF Asked, Asks, DebugPortAsked, f, n
<1>18. Ordinary => Lookup(<<"DEBUG_PORT">>) =
         IF DebugPortAsked THEN <<m_dwDebugPort>> ELSE LookupIn(Inherited, <<"DEBUG_PORT">>)
  BY <1>16, <1>17, Zenon
<1>19. Ordinary => \A i \in DOMAIN Inherited :
         LET name == <<Inherited[i][1]>> IN
         name \notin Own /\ Configured \cap {name, Upper(name)} = {} =>
            Lookup(name) = LookupIn(Inherited, name)
  BY <1>14, <1>15
<1> QED
  BY <1>9, <1>10, <1>11, <1>13, <1>18, <1>19, Zenon DEF Complete

-----------------------------------------------------------------------------
(* Whatever was dropped.                                                   *)

\* Every text that can get into the block.
Known(text) ==
    /\ text \in Text
    /\ \/ text \in {AppPath, <<"guid">>}
       \/ text \in {Entry(<<"APPL_PATH">>, AppPath), Entry(<<"APPL_PATH">>, <<>>)}
       \/ text \in {Entry(<<"TOKEN">>, <<"guid">>), Entry(<<"TOKEN">>, <<>>)}
       \/ text \in {Entry(<<"PORT">>, <<m_dwPort>>), DebugPort}
       \/ \E k \in 1 .. Len(variables) : text = Replaced(Full(k))

KnownBlock(B) == B \in Seq(Text) /\ \A i \in 1 .. Len(B) : Known(B[i])

LEMMA KnownNone == KnownBlock(<<>>)
BY DEF KnownBlock

LEMMA KnownMore ==
    ASSUME NEW B, KnownBlock(B), NEW x, Known(x)
    PROVE  KnownBlock(Append(B, x)) /\ KnownBlock(B \o <<x>>)
<1>1. x \in Text /\ B \in Seq(Text) /\ \A i \in 1 .. Len(B) : Known(B[i])
  BY DEF Known, KnownBlock
<1>2. ASSUME NEW C \in Seq(Text), Len(C) = Len(B) + 1, C[Len(B) + 1] = x,
             \A i \in 1 .. Len(B) : C[i] = B[i]
      PROVE  KnownBlock(C)
  <2>1. \A i \in 1 .. Len(C) : i = Len(B) + 1 \/ i \in 1 .. Len(B)
    BY <1>1, <1>2
  <2>2. \A i \in 1 .. Len(C) : Known(C[i])
    BY <1>1, <1>2, <2>1
  <2> QED
    BY <2>2 DEF KnownBlock
<1>3. KnownBlock(B \o <<x>>)
  <2> DEFINE C == B \o <<x>>
  <2>1. /\ C \in Seq(Text) /\ Len(C) = Len(B) + 1 /\ C[Len(B) + 1] = x
        /\ \A i \in 1 .. Len(B) : C[i] = B[i]
    BY <1>1, Extended
  <2> HIDE DEF C
  <2> QED
    BY <1>2, <2>1 DEF C
<1>4. KnownBlock(Append(B, x))
  <2> DEFINE C == Append(B, x)
  <2>1. /\ C \in Seq(Text) /\ Len(C) = Len(B) + 1 /\ C[Len(B) + 1] = x
        /\ \A i \in 1 .. Len(B) : C[i] = B[i]
    BY <1>1, Appended
  <2> HIDE DEF C
  <2> QED
    BY <1>2, <2>1 DEF C
<1> QED
  BY <1>3, <1>4

LEMMA KnownOwn ==
    ASSUME m_dwPort \in Tokens, pszPath \in Text, NEW i \in 1 .. 3
    PROVE  /\ Known(OwnEntry(i))
           /\ i # 3 => Known(<<OwnName[i], "=">>) /\ Known(OwnValue[i])
<1>1. i = 1 \/ i = 2 \/ i = 3
  OBVIOUS
<1>2. OwnEntry(i) \in Text /\ OwnValue[i] \in Text /\ <<OwnName[i]>> \in Text
  BY OwnEntryIs
<1>3. Known(OwnEntry(i))
  BY <1>1, <1>2, OwnEntryIs DEF Known
<1>4. ASSUME i # 3  PROVE Known(OwnValue[i])
  <2>1. OwnValue[i] \in {AppPath, <<"guid">>}
    BY <1>1, <1>4 DEF OwnValue
  <2> QED
    BY <1>2, <2>1 DEF Known
<1>5. ASSUME NEW a \in Text  PROVE Entry(a, <<>>) = Begin(a) /\ Begin(a) \in Text
  <2>1. Begin(a) \in Text
    BY Lengths, Entered DEF Text
  <2> QED
    BY <2>1 DEF Entry, Text
<1>6. ASSUME i # 3  PROVE Known(<<OwnName[i], "=">>)
  <2>1. <<OwnName[i], "=">> = Entry(<<OwnName[i]>>, <<>>) /\ <<OwnName[i], "=">> \in Text
    BY <1>2, <1>5, OwnEntryIs
  <2>2. OwnName[i] \in {"APPL_PATH", "TOKEN"}
    BY <1>1, <1>6 DEF OwnName
  <2> QED
    BY <2>1, <2>2 DEF Known
<1> QED
  BY <1>3, <1>4, <1>6

LEMMA KnownDebugPort ==
    ASSUME m_dwDebugPort \in Tokens
    PROVE  Known(DebugPort)
BY DebugPortIs DEF Known

LEMMA KnownVariable ==
    ASSUME m_dwPort \in Tokens, m_dwDebugPort \in Tokens, Collected(m_Environment),
           NEW j \in 1 .. Len(m_Environment)
    PROVE  Known(Replaced(m_Environment[j]))
<1>1. m_Environment[j] \in Text /\ \E k \in 1 .. Len(variables) : m_Environment[j] = Full(k)
  BY DEF Collected
<1>2. Replaced(m_Environment[j]) \in Text
  BY <1>1, ReplacedIs
<1> QED
  BY <1>1, <1>2 DEF Known

\* The values that are meant for a name.
LEMMA KnownBearer ==
    ASSUME Assumptions, variables \in Collections, pszPath \in Text,
           m_dwPort \in Tokens, m_dwDebugPort \in Tokens, Ordinary,
           NEW name, Free(name), ~IsPrefix(<<"/">>, name),
           NEW text, Known(text), IsPrefix(Begin(name), text)
    PROVE  \/ name \in {<<"APPL_PATH">>, <<"TOKEN">>}
           \/ name = <<"PORT">> /\ text = Entry(name, <<m_dwPort>>)
           \/ name = <<"DEBUG_PORT">> /\ text = Entry(name, <<m_dwDebugPort>>)
           \/ \E k \in 1 .. Len(variables) :
                /\ Name(k) = name /\ Replaced(variables[k].value) \in Text
                /\ text = Entry(name, Replaced(variables[k].value))
<1>1. /\ name \in Text /\ Begin(name) \in Text /\ text \in Text
      /\ Len(name) \in Nat /\ Len(Begin(name)) = Len(name) + 1 /\ Begin(name)[Len(name) + 1] = "="
      /\ \A i \in 1 .. Len(name) : Begin(name)[i] = name[i]
  <2>1. name \in Text /\ text \in Text
    BY DEF Free, Known
  <2> QED
    BY <2>1, Entered
<1>2. /\ Len(text) \in Nat /\ Len(name) + 1 <= Len(text)
      /\ \A i \in 1 .. Len(name) + 1 : text[i] = Begin(name)[i]
  BY <1>1, Prefix, Lengths
<1>3. text[1] # "/"
  <2>1. CASE Len(name) = 0
    BY <1>1, <1>2, <2>1
  <2>2. CASE Len(name) > 0
    <3> DEFINE slash == <<"/">>
    <3>1. slash \in Text /\ Len(slash) = 1 /\ slash[1] = "/" /\ ~IsPrefix(slash, name)
      BY Literals, Token
    <3> HIDE DEF slash
    <3>2. name[1] # "/"
      <4>1. \A i \in 1 .. Len(slash) : i = 1
        BY <3>1
      <4>2. Len(slash) <= Len(name)
        BY <1>1, <2>2, <3>1
      <4> QED
        BY <1>1, <3>1, <4>1, <4>2, Prefix
    <3>3. 1 \in 1 .. Len(name) /\ 1 \in 1 .. Len(name) + 1
      BY <1>1, <2>2
    <3> QED
      BY <1>1, <1>2, <3>2, <3>3
  <2> QED
    BY <1>1, <2>1, <2>2
<1>4. text # AppPath
  BY <1>3, AppPathIs
<1>5. text # <<"guid">>
  <2> SUFFICES ASSUME text = <<"guid">>  PROVE FALSE
    OBVIOUS
  <2>1. Len(text) = 1 /\ text[1] = "guid"
    BY Literals, Token
  <2>2. Len(name) = 0
    BY <1>1, <1>2, <2>1
  <2> QED
    BY <1>1, <1>2, <2>1, <2>2
<1>6. AppPath \in Text /\ <<"guid">> \in Text /\ <<>> \in Text /\ <<m_dwPort>> \in Text
  BY AppPathIs, Literals, Token DEF Text
<1>7. ASSUME NEW a, Free(a), NEW v \in Text, text = Entry(a, v)  PROVE name = a
  BY <1>7, FreeName
<1>8. CASE text \in {Entry(<<"APPL_PATH">>, AppPath), Entry(<<"APPL_PATH">>, <<>>)}
  BY <1>6, <1>7, <1>8, OwnNames
<1>9. CASE text \in {Entry(<<"TOKEN">>, <<"guid">>), Entry(<<"TOKEN">>, <<>>)}
  BY <1>6, <1>7, <1>9, OwnNames
<1>10. CASE text = Entry(<<"PORT">>, <<m_dwPort>>)
  BY <1>6, <1>7, <1>10, OwnNames
<1>11. CASE text = DebugPort
  <2>1. text = Entry(<<"DEBUG_PORT">>, <<m_dwDebugPort>>) /\ <<m_dwDebugPort>> \in Text
    BY <1>11, DebugPortIs
  <2> QED
    BY <1>7, <2>1, OwnNames
<1>12. ASSUME NEW k \in 1 .. Len(variables), text = Replaced(Full(k))
       PROVE  /\ Name(k) = name /\ Replaced(variables[k].value) \in Text
              /\ text = Entry(name, Replaced(variables[k].value))
  <2>1. /\ Free(Name(k)) /\ Replaced(variables[k].value) \in Text
        /\ text = Entry(Name(k), Replaced(variables[k].value))
    BY <1>12, OrdinaryNames
  <2> QED
    BY <1>7, <2>1
<1> QED
  BY <1>4, <1>5, <1>8, <1>9, <1>10, <1>11, <1>12 DEF Known

\* If all entries of a name have such a value, so has the first, unless there
\* is none.
LEMMA LookedAny ==
    ASSUME NEW B \in Seq(Text), NEW I \in Seq(Text), NEW n \in Text, NEW W \in SUBSET Text,
           \A k \in 1 .. Len(B) : IsPrefix(Begin(n), B[k]) => \E v \in W : B[k] = Entry(n, v)
    PROVE  LookupIn(B \o I, n) \in W \cup {LookupIn(I, n)}
<1> DEFINE E == B \o I
           S == {i \in DOMAIN E : IsPrefix(Begin(n), E[i])}
           m == Min(S)
<1>1. CASE \A k \in 1 .. Len(B) : ~ IsPrefix(Begin(n), B[k])
  BY <1>1, LookedPast
<1>2. ASSUME NEW k \in 1 .. Len(B), IsPrefix(Begin(n), B[k])
      PROVE  LookupIn(E, n) \in W
  <2>1. LookupIn(E, n) = IF S = {} THEN <<>> ELSE SubSeq(E[m], Len(n) + 2, Len(E[m]))
    BY DEF LookupIn, Begin
  <2> HIDE DEF E
  <2>2. E \in Seq(Text) /\ Len(E) = Len(B) + Len(I) /\ \A i \in 1 .. Len(B) : E[i] = B[i]
    BY Catenation DEF E
  <2>3. Len(B) \in Nat /\ Len(I) \in Nat /\ DOMAIN E = 1 .. Len(B) + Len(I)
    BY <2>2
  <2>4. k \in S /\ S \in SUBSET Nat
    BY <1>2, <2>2, <2>3
  <2>5. m \in S /\ m <= k
    <3> HIDE DEF S
    <3> QED
      BY <2>4, MinIs
  <2>6. m \in 1 .. Len(B) + Len(I) /\ IsPrefix(Begin(n), E[m])
    BY <2>3, <2>5
  <2>7. S # {}
    BY <2>4
  <2> HIDE DEF S, m
  <2>8. m \in 1 .. Len(B) /\ E[m] = B[m]
    BY <2>2, <2>3, <2>5, <2>6
  <2>9. PICK v \in W : E[m] = Entry(n, v)
    BY <2>6, <2>8
  <2>10. SubSeq(Entry(n, v), Len(n) + 2, Len(Entry(n, v))) = v
    BY Named
  <2> QED
    BY <2>1, <2>7, <2>9, <2>10
<1> QED
  BY <1>1, <1>2

\* A name never brings what is meant for another.
Meant ==
    Ordinary =>
      /\ Lookup(<<"PORT">>) \in {<<m_dwPort>>, LookupIn(Inherited, <<"PORT">>), <<>>}
      /\ Lookup(<<"DEBUG_PORT">>) \in
           {<<m_dwDebugPort>>, LookupIn(Inherited, <<"DEBUG_PORT">>), <<>>}
      /\ \A name \in Configured : ~IsPrefix(<<"/">>, name) =>
           Lookup(name) \in Values(name) \cup {LookupIn(Inherited, name), <<>>}

LEMMA DeliveryAnyway ==
    ASSUME Assumptions, variables \in Collections, pszPath \in AppConfigPaths,
           m_dwPort \in Ports, m_dwDebugPort \in Ports \ {m_dwPort},
           NEW B, KnownBlock(B), mszNewEnvironment \in {B, B \o Inherited}
    PROVE  Meant
<1>1. m_dwPort \in Tokens /\ m_dwDebugPort \in Tokens /\ pszPath \in Text /\ Inherited \in Seq(Text)
  BY DEF Assumptions
<1>2. B \in Seq(Text) /\ \A k \in 1 .. Len(B) : Known(B[k])
  BY DEF KnownBlock
<1>3. B = B \o <<>> /\ <<>> \in Seq(Text)
  BY <1>2
<1>4. \A n : LookupIn(<<>>, n) = <<>>
  BY DEF LookupIn
<1>5. ASSUME NEW name \in Text, NEW W \in SUBSET Text,
             \A k \in 1 .. Len(B) : IsPrefix(Begin(name), B[k]) => \E v \in W : B[k] = Entry(name, v)
      PROVE  Lookup(name) \in W \cup {LookupIn(Inherited, name), <<>>}
  <2>1. CASE mszNewEnvironment = B \o Inherited
    <3>1. LookupIn(B \o Inherited, name) \in W \cup {LookupIn(Inherited, name)}
      BY <1>1, <1>2, <1>5, LookedAny
    <3> QED
      BY <2>1, <3>1 DEF Lookup
  <2>2. CASE mszNewEnvironment = B
    <3>1. LookupIn(B \o <<>>, name) \in W \cup {LookupIn(<<>>, name)}
      BY <1>2, <1>3, <1>5, LookedAny
    <3>2. LookupIn(B, name) \in W \cup {<<>>}
      BY <1>3, <1>4, <3>1
    <3> QED
      BY <2>2, <3>2 DEF Lookup
  <2> QED
    BY <2>1, <2>2
<1>6. SUFFICES ASSUME Ordinary
               PROVE  /\ Lookup(<<"PORT">>) \in {<<m_dwPort>>, LookupIn(Inherited, <<"PORT">>), <<>>}
                      /\ Lookup(<<"DEBUG_PORT">>) \in
                           {<<m_dwDebugPort>>, LookupIn(Inherited, <<"DEBUG_PORT">>), <<>>}
                      /\ \A name \in Configured : ~IsPrefix(<<"/">>, name) =>
                           Lookup(name) \in Values(name) \cup {LookupIn(Inherited, name), <<>>}
  BY DEF Meant
<1>7. ASSUME NEW name, Free(name), ~IsPrefix(<<"/">>, name), name \notin {<<"APPL_PATH">>, <<"TOKEN">>},
             NEW k \in 1 .. Len(B), IsPrefix(Begin(name), B[k])
      PROVE  \/ name = <<"PORT">> /\ B[k] = Entry(name, <<m_dwPort>>)
             \/ name = <<"DEBUG_PORT">> /\ B[k] = Entry(name, <<m_dwDebugPort>>)
             \/ \E i \in 1 .. Len(variables) :
                  /\ Name(i) = name /\ Replaced(variables[i].value) \in Text
                  /\ B[k] = Entry(name, Replaced(variables[i].value))
  BY <1>1, <1>2, <1>6, <1>7, KnownBearer
<1>8. \A i \in 1 .. Len(variables) : Name(i) \in Configured /\ Free(Name(i)) /\ Name(i) \notin Own
  BY <1>1, <1>6, OrdinaryNames
<1>9. /\ "PORT" \in Tokens /\ "DEBUG_PORT" \in Tokens
      /\ <<m_dwPort>> \in Text /\ <<m_dwDebugPort>> \in Text
      /\ <<"PORT">> \in Text /\ <<"DEBUG_PORT">> \in Text
  BY <1>1, Literals, Token
<1>10. ASSUME NEW x \in Tokens, x # "/"  PROVE ~IsPrefix(<<"/">>, <<x>>)
  <2> DEFINE a == <<"/">>
             b == <<x>>
  <2>1. a \in Text /\ b \in Text /\ Len(a) = 1 /\ a[1] = "/" /\ b[1] = x
    BY Literals, Token
  <2> HIDE DEF a, b
  <2>2. ~IsPrefix(a, b)
    BY <1>10, <2>1, Prefix
  <2> QED
    BY <2>2 DEF a, b
<1>11. ~IsPrefix(<<"/">>, <<"PORT">>) /\ ~IsPrefix(<<"/">>, <<"DEBUG_PORT">>)
  BY <1>9, <1>10
<1>12. <<"PORT">> \in Own /\ <<"DEBUG_PORT">> \in Own /\ <<"PORT">> # <<"DEBUG_PORT">>
  BY OwnNames DEF Own
<1>13. Lookup(<<"PORT">>) \in {<<m_dwPort>>, LookupIn(Inherited, <<"PORT">>), <<>>}
  <2> DEFINE name == <<"PORT">>
             v == <<m_dwPort>>
  <2>1. Free(name) /\ name \in Text /\ name \notin {<<"APPL_PATH">>, <<"TOKEN">>}
    BY <1>9, OwnNames
  <2>2. ~IsPrefix(<<"/">>, name) /\ name # <<"DEBUG_PORT">> /\ name \in Own /\ v \in Text
    BY <1>9, <1>11, <1>12
  <2> HIDE DEF name, v
  <2>3. \A k \in 1 .. Len(B) : IsPrefix(Begin(name), B[k]) => B[k] = Entry(name, v)
    BY <1>7, <1>8, <2>1, <2>2 DEF v
  <2>4. Lookup(name) \in {v} \cup {LookupIn(Inherited, name), <<>>}
    BY <1>5, <2>1, <2>2, <2>3
  <2> QED
    BY <2>4 DEF name, v
<1>14. Lookup(<<"DEBUG_PORT">>) \in {<<m_dwDebugPort>>, LookupIn(Inherited, <<"DEBUG_PORT">>), <<>>}
  <2> DEFINE name == <<"DEBUG_PORT">>
             v == <<m_dwDebugPort>>
  <2>1. Free(name) /\ name \in Text /\ name \notin {<<"APPL_PATH">>, <<"TOKEN">>}
    BY <1>9, OwnNames
  <2>2. ~IsPrefix(<<"/">>, name) /\ name # <<"PORT">> /\ name \in Own /\ v \in Text
    BY <1>9, <1>11, <1>12
  <2> HIDE DEF name, v
  <2>3. \A k \in 1 .. Len(B) : IsPrefix(Begin(name), B[k]) => B[k] = Entry(name, v)
    BY <1>7, <1>8, <2>1, <2>2 DEF v
  <2>4. Lookup(name) \in {v} \cup {LookupIn(Inherited, name), <<>>}
    BY <1>5, <2>1, <2>2, <2>3
  <2> QED
    BY <2>4 DEF name, v
<1>15. ASSUME NEW name \in Configured, ~IsPrefix(<<"/">>, name)
       PROVE  Lookup(name) \in Values(name) \cup {LookupIn(Inherited, name), <<>>}
  <2> DEFINE W == Values(name) \cap Text
  <2>1. Len(variables) \in Nat /\ DOMAIN variables = 1 .. Len(variables)
    BY Variables
  <2>2. PICK l \in 1 .. Len(variables) : Name(l) = name
    BY <2>1 DEF Configured, Name
  <2>3. Free(name) /\ name \in Text /\ name \notin Own
    BY <1>8, <2>2 DEF Free
  <2>4. \A i \in 1 .. Len(variables) : Name(i) = name => Replaced(variables[i].value) \in Values(name)
    BY <2>1 DEF Values, Name
  <2>5. \A k \in 1 .. Len(B) : IsPrefix(Begin(name), B[k]) => \E v \in W : B[k] = Entry(name, v)
    <3>1. ASSUME NEW k \in 1 .. Len(B), IsPrefix(Begin(name), B[k])
          PROVE  \E v \in W : B[k] = Entry(name, v)
      <4>1. name \notin {<<"APPL_PATH">>, <<"TOKEN">>, <<"PORT">>, <<"DEBUG_PORT">>}
        BY <2>3 DEF Own
      <4>2. PICK i \in 1 .. Len(variables) :
              /\ Name(i) = name /\ Replaced(variables[i].value) \in Text
              /\ B[k] = Entry(name, Replaced(variables[i].value))
        BY <1>7, <1>15, <2>3, <3>1, <4>1
      <4> QED
        BY <2>4, <4>2
    <3> QED
      BY <3>1
  <2> HIDE DEF W
  <2>6. W \in SUBSET Text /\ W \subseteq Values(name)
    BY DEF W
  <2>7. Lookup(name) \in W \cup {LookupIn(Inherited, name), <<>>}
    BY <1>5, <2>3, <2>5, <2>6
  <2> QED
    BY <2>6, <2>7
<1> QED
  BY <1>13, <1>14, <1>15

-----------------------------------------------------------------------------
(* The inductive invariant: what each stage hands to the next one.         *)

Prepared == {"command", "variables", "launched"}
Started == {"port", "debugport"} \cup Prepared
Early == {"read", "reverse", "select", "port", "debugport"}

IInv ==
    /\ variables \in Collections /\ pszPath \in AppConfigPaths /\ dropped \in Nat
    /\ pc \in {"failed"} \cup Early \cup Prepared
    /\ pc \in Early => mszNewEnvironment = <<>>
    /\ pc \in {"read", "reverse"} => m_mszEnvironment = <<>>
    /\ pc = "read" =>
         /\ index \in 1 .. Len(variables) + 1 /\ Recorded(index - 1)
         /\ mszEnvironmentListReverse = <<>>
    /\ pc \in {"reverse", "select"} => Recorded(Len(variables))
    /\ pc = "reverse" => index \in 1 .. Len(variables) + 1 /\ Reversing(index - 1)
    /\ pc = "select" =>
         /\ index \in 1 .. Len(mszEnvNames) + 1 /\ Reversing(Len(variables))
         /\ Collected(m_mszEnvironment)
         /\ dropped = 0 => Selected(index - 1)
    /\ pc \in Started => Passed(m_Environment, copied /\ dropped = 0) /\ copied \in BOOLEAN
    /\ pc \in Started \ {"port"} => m_dwPort \in Ports
    /\ pc \in Prepared => m_dwDebugPort \in Ports \ {m_dwPort}
    /\ pc \in {"variables", "launched"} => fDebugPortEnvSet \in BOOLEAN
    /\ pc \in Prepared \ {"launched"} => KnownBlock(mszNewEnvironment)
    /\ pc = "command" =>
         /\ index \in 1 .. 4
         /\ dropped = 0 => Begun(mszNewEnvironment, index - 1)
    /\ pc = "variables" =>
         /\ index \in 1 .. Len(m_Environment) + 1
         /\ dropped = 0 => Made(mszNewEnvironment, fDebugPortEnvSet, index - 1)
    /\ pc = "launched" =>
         /\ \E B : KnownBlock(B) /\ mszNewEnvironment \in {B, B \o Inherited}
         /\ dropped = 0 =>
              \E B : /\ Made(B, fDebugPortEnvSet, Len(m_Environment))
                    /\ mszNewEnvironment = B \o Inherited

\* The definitions depend on these variables only.
LEMMA SameRecorded ==
    ASSUME NEW n, UNCHANGED <<variables, mszEnvNames, mszEnvironment>>, Recorded(n)
    PROVE  Recorded(n)'
BY DEF Recorded, Full, Name

LEMMA SameSelected ==
    ASSUME NEW n, UNCHANGED <<variables, mszEnvNames, m_mszEnvironment>>, Selected(n)
    PROVE  Selected(n)'
BY DEF Selected, Chosen, Full, Name

LEMMA SameVariables ==
    ASSUME UNCHANGED variables
    PROVE  /\ Configured' = Configured /\ (\A i : Full(i)' = Full(i)) /\ (Confused' <=> Confused)
           /\ \A name : Latest(name)' = Latest(name)
<1>1. Configured' = Configured /\ \A i : Full(i)' = Full(i)
  BY DEF Configured, Full, Name
<1>2. Confused' <=> Confused
  BY <1>1 DEF Confused
<1>3. \A name : Latest(name)' = Latest(name)
  BY DEF Latest, Name
<1> QED
  BY <1>1, <1>2, <1>3

LEMMA SameCollected ==
    ASSUME NEW list, UNCHANGED variables, Collected(list)
    PROVE  Collected(list)'
BY SameVariables DEF Collected

LEMMA SameReversing ==
    ASSUME NEW n, UNCHANGED <<variables, mszEnvironmentListReverse, dropped>>, Reversing(n)
    PROVE  Reversing(n)'
BY SameVariables DEF Reversing, Collected

\* Dropping something asks less of what was passed.
LEMMA SamePassed ==
    ASSUME UNCHANGED <<variables, m_Environment, copied>>, dropped' = 0 => dropped = 0,
           Passed(m_Environment, copied /\ dropped = 0)
    PROVE  Passed(m_Environment, copied /\ dropped = 0)'
<1>1. /\ Configured' = Configured /\ (\A i : Full(i)' = Full(i)) /\ (Confused' <=> Confused)
      /\ \A name : Latest(name)' = Latest(name)
  BY SameVariables
<1> QED
  BY <1>1 DEF Passed

LEMMA SameOwn ==
    ASSUME UNCHANGED <<pszPath, ports>>
    PROVE  /\ AppPath' = AppPath /\ DebugPort' = DebugPort
           /\ \A i : OwnEntry(i)' = OwnEntry(i)
<1>1. m_dwPort' = m_dwPort /\ m_dwDebugPort' = m_dwDebugPort
  BY DEF ports
<1>2. AppPath' = AppPath
  BY DEF AppPath
<1>3. DebugPort' = DebugPort
  BY <1>1 DEF DebugPort
<1>4. \A i : OwnEntry(i)' = OwnEntry(i)
  BY <1>1, <1>2 DEF OwnEntry, OwnName, OwnValue
<1> QED
  BY <1>2, <1>3, <1>4

LEMMA SameBegun ==
    ASSUME NEW B, NEW n, UNCHANGED <<pszPath, ports>>, Begun(B, n)
    PROVE  Begun(B, n)'
BY SameOwn DEF Begun

LEMMA SameKnown ==
    ASSUME NEW B, UNCHANGED <<variables, pszPath, ports>>, KnownBlock(B)
    PROVE  KnownBlock(B)'
<1>1. m_dwPort' = m_dwPort /\ m_dwDebugPort' = m_dwDebugPort
  BY DEF ports
<1>2. \A i : Full(i)' = Full(i)
  BY SameVariables
<1>3. \A i : Replaced(Full(i))' = Replaced(Full(i))
  BY <1>1, <1>2 DEF Replaced
<1>4. ASSUME NEW text, Known(text)  PROVE Known(text)'
  BY <1>1, <1>3, <1>4, SameOwn DEF Known
<1> QED
  BY <1>4 DEF KnownBlock

\* An entry that is not checked.
LEMMA UncheckedBlock ==
    ASSUME NEW intended, NEW left, dropped \in Nat,
           Unchecked(mszNewEnvironment, intended, left)
    PROVE  /\ mszNewEnvironment' = intended \/ mszNewEnvironment' \in left
           /\ dropped' \in Nat
           /\ dropped' = 0 => dropped = 0 /\ mszNewEnvironment' = intended
BY DEF Unchecked

LEMMA SameMade ==
    ASSUME NEW B, NEW f, NEW n, UNCHANGED <<pszPath, m_Environment, ports>>, Made(B, f, n)
    PROVE  Made(B, f, n)'
<1>1. m_Environment' = m_Environment /\ m_dwPort' = m_dwPort /\ m_dwDebugPort' = m_dwDebugPort
  BY DEF ports
<1>2. AppPath' = AppPath
  BY DEF AppPath
<1>3. DebugPort' = DebugPort
  BY <1>1 DEF DebugPort
<1>4. \A j : Replaced(m_Environment[j])' = Replaced(m_Environment[j])
  BY <1>1 DEF Replaced
<1>5. Asked(f, n)' <=> Asked(f, n)
  BY <1>1 DEF Asked
<1> QED
  BY <1>1, <1>2, <1>3, <1>4, <1>5 DEF Made

-----------------------------------------------------------------------------
(* Populate.                                                               *)

LEMMA ReadStep ==
    ASSUME Assumptions, IInv, ReadVariable
    PROVE  IInv'
<1> DEFINE N == Len(variables)
           n == Name(index)
           p == Begin(n)
           e == Full(index)
           L == mszEnvironment
           M == mszEnvNames
<1>1. /\ pc = "read" /\ index \in 1 .. N + 1 /\ index <= N /\ Recorded(index - 1)
      /\ variables \in Collections /\ pszPath \in AppConfigPaths /\ m_mszEnvironment = <<>>
      /\ dropped \in Nat /\ mszNewEnvironment = <<>> /\ mszEnvironmentListReverse = <<>>
  BY DEF IInv, ReadVariable, Early
<1>2. /\ pc' = "read" /\ index' = index + 1 /\ m_mszEnvironment' = m_mszEnvironment
      /\ variables' = variables /\ pszPath' = pszPath /\ dropped' = dropped
      /\ mszNewEnvironment' = mszNewEnvironment
      /\ mszEnvironmentListReverse' = mszEnvironmentListReverse
  BY DEF ReadVariable, Goto, inputs, block
<1>3. /\ N \in Nat /\ \A i \in 1 .. N : Name(i) \in Text /\ Full(i) \in Text
  BY <1>1, Variables
<1>4. index \in 1 .. N /\ index - 1 + 1 = index /\ index' \in 1 .. N + 1 /\ index' - 1 = index
  BY <1>1, <1>2, <1>3
<1>5. /\ L' = Append(L, e)
      /\ M' = IF Contains(M, p) THEN M ELSE Append(M, p)
  BY DEF ReadVariable, Full, Entry, Begin, Name
<1>6. p \in Text /\ e \in Text
  BY <1>3, <1>4, Entered
<1>7. /\ L \in Seq(Text) /\ Len(L) = index - 1 /\ \A i \in 1 .. index - 1 : L[i] = Full(i)
      /\ M \in Seq(Text)
      /\ \A j \in 1 .. Len(M) : \E i \in 1 .. index - 1 : M[j] = Begin(Name(i))
      /\ \A i \in 1 .. index - 1 : \E j \in 1 .. Len(M) : M[j] = Begin(Name(i))
  BY <1>1 DEF Recorded
<1>8. \A i \in 1 .. index : i = index \/ i \in 1 .. index - 1
  BY <1>4
<1>9. \A i \in 1 .. index - 1 : i \in 1 .. index
  BY <1>4
<1>10. \A i : Full(i)' = Full(i) /\ Name(i)' = Name(i)
  BY <1>2 DEF Full, Name
<1> HIDE DEF L, M, N, n, p, e
<1>11. L' \in Seq(Text) /\ Len(L') = index /\ \A i \in 1 .. index : L'[i] = Full(i)
  <2>1. /\ Append(L, e) \in Seq(Text) /\ Len(Append(L, e)) = Len(L) + 1
        /\ \A i \in 1 .. Len(L) : Append(L, e)[i] = L[i]
        /\ Append(L, e)[Len(L) + 1] = e
    BY <1>6, <1>7
  <2>2. L'[index] = e /\ Len(L') = index
    BY <1>4, <1>5, <1>7, <2>1
  <2>3. \A i \in 1 .. index - 1 : L'[i] = Full(i)
    BY <1>5, <1>7, <2>1
  <2> QED
    BY <1>5, <1>8, <2>1, <2>2, <2>3 DEF e
<1>12. /\ M' \in Seq(Text)
       /\ \A j \in 1 .. Len(M') : \E i \in 1 .. index : M'[j] = Begin(Name(i))
       /\ \A i \in 1 .. index : \E j \in 1 .. Len(M') : M'[j] = Begin(Name(i))
  <2>1. CASE Contains(M, p)
    <3>1. M' = M /\ \E j \in 1 .. Len(M) : M[j] = p
      BY <1>5, <2>1 DEF Contains
    <3>2. \A j \in 1 .. Len(M) : \E i \in 1 .. index : M[j] = Begin(Name(i))
      BY <1>7, <1>9
    <3>3. \A i \in 1 .. index : \E j \in 1 .. Len(M) : M[j] = Begin(Name(i))
      BY <1>7, <1>8, <3>1 DEF p, n
    <3> QED
      BY <1>7, <3>1, <3>2, <3>3
  <2>2. CASE ~Contains(M, p)
    <3>1. M' = Append(M, p)
      BY <1>5, <2>2
    <3>2. /\ M' \in Seq(Text) /\ Len(M') = Len(M) + 1 /\ Len(M) \in Nat
          /\ \A j \in 1 .. Len(M) : M'[j] = M[j]
          /\ M'[Len(M) + 1] = p
      BY <1>6, <1>7, <3>1
    <3>3. /\ \A j \in 1 .. Len(M') : j = Len(M) + 1 \/ j \in 1 .. Len(M)
          /\ \A j \in 1 .. Len(M) : j \in 1 .. Len(M')
          /\ Len(M) + 1 \in 1 .. Len(M')
      BY <3>2
    <3>4. index \in 1 .. index
      BY <1>4
    <3>5. \A j \in 1 .. Len(M') : \E i \in 1 .. index : M'[j] = Begin(Name(i))
      BY <1>7, <1>9, <3>2, <3>3, <3>4 DEF p, n
    <3>6. \A i \in 1 .. index : \E j \in 1 .. Len(M') : M'[j] = Begin(Name(i))
      BY <1>7, <1>8, <3>2, <3>3 DEF p, n
    <3> QED
      BY <3>2, <3>5, <3>6
  <2> QED
    BY <2>1, <2>2
<1>13. Recorded(index - 1)'
  <2>1. /\ mszEnvironment' \in Seq(Text) /\ Len(mszEnvironment') = index' - 1
        /\ \A i \in 1 .. index' - 1 : mszEnvironment'[i] = Full(i)'
        /\ mszEnvNames' \in Seq(Text)
    BY <1>4, <1>10, <1>11, <1>12 DEF L, M
  <2>2. /\ \A j \in 1 .. Len(mszEnvNames') : \E i \in 1 .. index' - 1 : mszEnvNames'[j] = Begin(Name(i))'
        /\ \A i \in 1 .. index' - 1 : \E j \in 1 .. Len(mszEnvNames') : mszEnvNames'[j] = Begin(Name(i))'
    BY <1>4, <1>10, <1>12 DEF M
  <2> QED
    BY <2>1, <2>2 DEF Recorded
<1> QED
  BY <1>1, <1>2, <1>4, <1>13 DEF IInv, Started, Prepared, Early, N

LEMMA ReadEndStep ==
    ASSUME Assumptions, IInv, ReadEnd
    PROVE  IInv'
<1>1. /\ pc = "read" /\ index \in 1 .. Len(variables) + 1 /\ index > Len(variables)
      /\ Recorded(index - 1) /\ m_mszEnvironment = <<>> /\ mszEnvironmentListReverse = <<>>
      /\ variables \in Collections /\ pszPath \in AppConfigPaths
      /\ dropped \in Nat /\ mszNewEnvironment = <<>>
  BY DEF IInv, ReadEnd, Early
<1>2. /\ pc' = "reverse" /\ index' = 1 /\ UNCHANGED <<variables, mszEnvNames, mszEnvironment>>
      /\ UNCHANGED <<pszPath, m_mszEnvironment, mszEnvironmentListReverse, dropped, mszNewEnvironment>>
  BY DEF ReadEnd, Goto, inputs, populated, block
<1>3. Len(variables) \in Nat /\ index - 1 = Len(variables)
  BY <1>1, Variables
<1>4. Recorded(Len(variables))'
  <2>1. Recorded(Len(variables))
    BY <1>1, <1>3
  <2>2. Len(variables)' = Len(variables)
    BY <1>2
  <2> QED
    BY <1>2, <2>1, <2>2 DEF Recorded, Full, Name
<1>5. index' - 1 = 0 /\ 1 .. 0 = {}
  BY <1>2
<1>6. Reversing(index - 1)'
  BY <1>1, <1>2, <1>5 DEF Reversing, Collected
<1>7. index' \in 1 .. Len(variables') + 1
  BY <1>2, <1>3
<1> QED
  BY <1>1, <1>2, <1>4, <1>6, <1>7 DEF IInv, Started, Prepared, Early

LEMMA ReverseStep ==
    ASSUME Assumptions, IInv, ReverseVariable
    PROVE  IInv'
<1> DEFINE N == Len(variables)
           R == mszEnvironmentListReverse
           next == mszEnvironment[Len(mszEnvironment) - index + 1]
<1>1. /\ pc = "reverse" /\ index \in 1 .. N + 1 /\ index <= Len(mszEnvironment)
      /\ Recorded(N) /\ Reversing(index - 1) /\ m_mszEnvironment = <<>>
      /\ variables \in Collections /\ pszPath \in AppConfigPaths
      /\ dropped \in Nat /\ mszNewEnvironment = <<>>
  BY DEF IInv, ReverseVariable, Early
<1>2. /\ pc' = "reverse" /\ index' = index + 1 /\ UNCHANGED <<variables, mszEnvNames, mszEnvironment>>
      /\ UNCHANGED <<pszPath, m_mszEnvironment, mszNewEnvironment>>
      /\ \/ R' = Append(R, next) /\ dropped' = dropped
         \/ R' = R /\ dropped' = dropped + 1
  BY DEF ReverseVariable, Unchecked, Goto, inputs, block
<1>3. /\ N \in Nat /\ Len(mszEnvironment) = N /\ \A i \in 1 .. N : mszEnvironment[i] = Full(i)
      /\ \A i \in 1 .. N : Full(i) \in Text
  BY <1>1, Variables DEF Recorded
<1>4. /\ index \in 1 .. N /\ N - index + 1 \in 1 .. N /\ index' \in 1 .. N + 1
      /\ index' - 1 = index /\ index - 1 + 1 = index
  BY <1>1, <1>2, <1>3
<1>5. next = Full(N - index + 1) /\ next \in Text
  BY <1>3, <1>4
<1>6. /\ R \in Seq(Text) /\ \A i \in 1 .. Len(R) : \E k \in 1 .. N : R[i] = Full(k)
      /\ dropped = 0 => Len(R) = index - 1 /\ \A i \in 1 .. index - 1 : R[i] = Full(N - i + 1)
  BY <1>1 DEF Reversing, Collected
<1>7. \A i : Full(i)' = Full(i)
  BY <1>2, SameVariables
<1>8. N' = N
  BY <1>2
<1> HIDE DEF R, next, N
<1>9. Reversing(index - 1)'
  <2>1. CASE R' = Append(R, next) /\ dropped' = dropped
    <3>1. /\ R' \in Seq(Text) /\ Len(R') = Len(R) + 1 /\ R'[Len(R) + 1] = next /\ Len(R) \in Nat
          /\ \A i \in 1 .. Len(R) : R'[i] = R[i]
      BY <1>5, <1>6, <2>1
    <3>2. \A i \in 1 .. Len(R') : i = Len(R) + 1 \/ i \in 1 .. Len(R)
      BY <3>1
    <3>3. \A i \in 1 .. Len(R') : \E k \in 1 .. N : R'[i] = Full(k)
      BY <1>4, <1>5, <1>6, <3>1, <3>2
    <3>4. ASSUME dropped = 0
          PROVE  Len(R') = index /\ \A i \in 1 .. index : R'[i] = Full(N - i + 1)
      BY <1>4, <1>5, <1>6, <3>1, <3>2, <3>4
    <3>5. Collected(R)'
      BY <1>7, <1>8, <3>1, <3>3 DEF Collected, N
    <3> QED
      BY <1>4, <1>7, <1>8, <2>1, <3>4, <3>5 DEF Reversing, R, N
  <2>2. CASE R' = R /\ dropped' = dropped + 1
    <3>1. Collected(R)'
      BY <1>6, <1>7, <1>8, <2>2 DEF Collected, N
    <3>2. dropped' # 0
      BY <1>1, <2>2
    <3> QED
      BY <3>1, <3>2 DEF Reversing, R
  <2> QED
    BY <1>2, <2>1, <2>2
<1>10. Recorded(Len(variables))'
  <2>1. Recorded(Len(variables))
    BY <1>1 DEF N
  <2> QED
    BY <1>2, <2>1 DEF Recorded, Full, Name
<1>11. dropped' \in Nat
  BY <1>1, <1>2
<1>12. index' \in 1 .. Len(variables') + 1
  BY <1>2, <1>4 DEF N
<1> QED
  BY <1>1, <1>2, <1>9, <1>10, <1>11, <1>12 DEF IInv, Started, Prepared, Early

LEMMA ReverseEndStep ==
    ASSUME Assumptions, IInv, ReverseEnd
    PROVE  IInv'
<1>1. /\ pc = "reverse" /\ index \in 1 .. Len(variables) + 1 /\ index > Len(mszEnvironment)
      /\ Recorded(Len(variables)) /\ Reversing(index - 1) /\ m_mszEnvironment = <<>>
      /\ variables \in Collections /\ pszPath \in AppConfigPaths
      /\ dropped \in Nat /\ mszNewEnvironment = <<>>
  BY DEF IInv, ReverseEnd, Early
<1>2. /\ pc' = "select" /\ index' = 1 /\ UNCHANGED <<variables, mszEnvNames, mszEnvironment>>
      /\ UNCHANGED <<pszPath, m_mszEnvironment, mszEnvironmentListReverse, dropped, mszNewEnvironment>>
  BY DEF ReverseEnd, Goto, inputs, populated, block
<1>3. Len(variables) \in Nat /\ index - 1 = Len(variables)
  <2>1. Len(variables) \in Nat /\ Len(mszEnvironment) = Len(variables)
    BY <1>1, Variables DEF Recorded
  <2> QED
    BY <1>1, <2>1
<1>4. Recorded(Len(variables))'
  BY <1>1, <1>2 DEF Recorded, Full, Name
<1>5. Reversing(Len(variables))'
  <2>1. Reversing(Len(variables))
    BY <1>1, <1>3
  <2>2. \A i : Full(i)' = Full(i)
    BY <1>2, SameVariables
  <2> QED
    BY <1>2, <2>1, <2>2 DEF Reversing, Collected
<1>6. index' - 1 = 0 /\ 1 .. 0 = {}
  BY <1>2
<1>7. Selected(index - 1)' /\ Collected(m_mszEnvironment)'
  BY <1>1, <1>2, <1>6 DEF Selected, Collected
<1>8. index' \in 1 .. Len(mszEnvNames') + 1
  <2>1. Len(mszEnvNames) \in Nat
    BY <1>1 DEF Recorded
  <2> QED
    BY <1>2, <2>1
<1> QED
  BY <1>1, <1>2, <1>4, <1>5, <1>7, <1>8 DEF IInv, Started, Prepared, Early

LEMMA SelectStep ==
    ASSUME Assumptions, IInv, SelectVariable
    PROVE  IInv'
<1> DEFINE reversed == mszEnvironmentListReverse
           found == {i \in DOMAIN reversed : wcsstr(reversed[i], mszEnvNames[index]) # {}}
           e == reversed[Min(found)]
           M == m_mszEnvironment
<1>1. /\ pc = "select" /\ index \in 1 .. Len(mszEnvNames) + 1 /\ index <= Len(mszEnvNames)
      /\ Recorded(Len(variables)) /\ Reversing(Len(variables)) /\ Collected(M)
      /\ dropped = 0 => Selected(index - 1)
      /\ variables \in Collections /\ pszPath \in AppConfigPaths
      /\ dropped \in Nat /\ mszNewEnvironment = <<>>
  BY DEF IInv, SelectVariable, Early
<1>2. /\ pc' = "select" /\ index' = index + 1 /\ UNCHANGED <<variables, mszEnvNames, mszEnvironment>>
      /\ M' = (IF found = {} THEN M ELSE Append(M, e))
      /\ UNCHANGED <<pszPath, mszEnvironmentListReverse, dropped, mszNewEnvironment>>
  BY DEF SelectVariable, Goto, inputs, block
<1>3. Len(mszEnvNames) \in Nat
  BY <1>1 DEF Recorded
<1>4. /\ index \in 1 .. Len(mszEnvNames) /\ index' \in 1 .. Len(mszEnvNames') + 1
      /\ index' - 1 = index /\ index - 1 + 1 = index
  BY <1>1, <1>2, <1>3
<1>5. dropped = 0 => found # {} /\ Chosen(e, mszEnvNames[index])
  BY <1>1, <1>4, SelectedOne
<1>6. ASSUME found # {}  PROVE e \in Text /\ \E k \in 1 .. Len(variables) : e = Full(k)
  <2>1. /\ reversed \in Seq(Text)
        /\ \A i \in 1 .. Len(reversed) : \E k \in 1 .. Len(variables) : reversed[i] = Full(k)
    BY <1>1 DEF Reversing, Collected
  <2> HIDE DEF reversed
  <2>2. found \in SUBSET Nat /\ found \subseteq 1 .. Len(reversed)
    BY <2>1
  <2> HIDE DEF found
  <2>3. PICK m \in found : m = Min(found)
    BY <1>6, <2>2, MinIs
  <2>4. m \in 1 .. Len(reversed) /\ e = reversed[m]
    BY <2>2, <2>3
  <2> HIDE DEF e
  <2> QED
    BY <2>1, <2>4
<1>7. \A i : Full(i)' = Full(i)
  BY <1>2, SameVariables
<1> HIDE DEF e, M, found
<1>8. Collected(M)'
  <2>1. M \in Seq(Text) /\ \A i \in 1 .. Len(M) : \E k \in 1 .. Len(variables) : M[i] = Full(k)
    BY <1>1 DEF Collected
  <2>2. CASE found = {}
    BY <1>2, <1>7, <2>1, <2>2 DEF Collected
  <2>3. CASE found # {}
    <3>1. /\ M' \in Seq(Text) /\ Len(M') = Len(M) + 1 /\ M'[Len(M) + 1] = e /\ Len(M) \in Nat
          /\ \A i \in 1 .. Len(M) : M'[i] = M[i]
      BY <1>2, <1>6, <2>1, <2>3
    <3>2. \A i \in 1 .. Len(M') : i = Len(M) + 1 \/ i \in 1 .. Len(M)
      BY <3>1
    <3>3. \A i \in 1 .. Len(M') : \E k \in 1 .. Len(variables) : M'[i] = Full(k)
      BY <1>6, <2>1, <2>3, <3>1, <3>2
    <3> QED
      BY <1>2, <1>7, <3>1, <3>3 DEF Collected
  <2> QED
    BY <2>2, <2>3
<1>9. ASSUME dropped = 0  PROVE Selected(index - 1)'
  <2>1. /\ M \in Seq(Text) /\ Len(M) = index - 1
        /\ \A j \in 1 .. index - 1 : Chosen(M[j], mszEnvNames[j])
    BY <1>1, <1>9 DEF Selected, M
  <2>2. /\ M' \in Seq(Text) /\ Len(M') = index
        /\ \A j \in 1 .. index - 1 : M'[j] = M[j]
        /\ M'[index] = e
    <3>1. e \in Text /\ M' = Append(M, e)
      BY <1>2, <1>5, <1>6, <1>9
    <3> QED
      BY <1>4, <2>1, <3>1
  <2>3. \A j \in 1 .. index : j = index \/ j \in 1 .. index - 1
    BY <1>4
  <2>4. \A j \in 1 .. index : Chosen(M'[j], mszEnvNames[j])
    BY <1>5, <1>9, <2>1, <2>2, <2>3
  <2>5. \A j \in 1 .. index' - 1 : Chosen(m_mszEnvironment[j], mszEnvNames[j])'
    BY <1>2, <1>4, <2>4 DEF M, Chosen, Full, Name
  <2> QED
    BY <1>4, <2>2, <2>5 DEF Selected, M
<1>10. Recorded(Len(variables))'
  BY <1>1, <1>2 DEF Recorded, Full, Name
<1>11. Reversing(Len(variables))'
  BY <1>1, <1>2, <1>7 DEF Reversing, Collected
<1> QED
  BY <1>1, <1>2, <1>4, <1>8, <1>9, <1>10, <1>11 DEF IInv, Started, Prepared, Early, M

-----------------------------------------------------------------------------
(* Initialize and StartProcess.                                            *)

LEMMA CopyStep ==
    ASSUME Assumptions, IInv, CopyEnvironment
    PROVE  IInv'
<1>1. /\ pc = "select" /\ index \in 1 .. Len(mszEnvNames) + 1 /\ index > Len(mszEnvNames)
      /\ Recorded(Len(variables)) /\ Collected(m_mszEnvironment)
      /\ dropped = 0 => Selected(index - 1)
      /\ variables \in Collections /\ pszPath \in AppConfigPaths
      /\ dropped \in Nat /\ mszNewEnvironment = <<>>
  BY DEF IInv, CopyEnvironment, Early
<1>2. /\ pc' = "port" /\ UNCHANGED <<variables, pszPath, dropped, mszNewEnvironment>>
      /\ \/ m_Environment' = m_mszEnvironment /\ copied' = TRUE
         \/ m_Environment' = <<>> /\ copied' = FALSE
  BY DEF CopyEnvironment, Goto, inputs, block
<1>3. index - 1 = Len(mszEnvNames)
  <2>1. Len(mszEnvNames) \in Nat
    BY <1>1 DEF Recorded
  <2> QED
    BY <1>1, <2>1
<1>4. Passed(m_mszEnvironment, dropped = 0)
  <2>1. dropped = 0 => Passed(m_mszEnvironment, TRUE)
    BY <1>1, <1>3, PassedAll
  <2> QED
    BY <1>1, <2>1 DEF Passed, Collected
<1>5. Passed(<<>>, FALSE)
  BY PassedNone
<1>6. /\ Configured' = Configured /\ (\A i : Full(i)' = Full(i)) /\ (Confused' <=> Confused)
      /\ \A name : Latest(name)' = Latest(name)
  BY <1>2, SameVariables
<1>7. Passed(m_Environment, copied /\ dropped = 0)'
  <2>1. CASE m_Environment' = m_mszEnvironment /\ copied' = TRUE
    BY <1>2, <1>4, <1>6, <2>1 DEF Passed
  <2>2. CASE m_Environment' = <<>> /\ copied' = FALSE
    BY <1>2, <1>5, <1>6, <2>2 DEF Passed
  <2> QED
    BY <1>2, <2>1, <2>2
<1>8. copied' \in BOOLEAN
  BY <1>2
<1> QED
  BY <1>1, <1>2, <1>7, <1>8 DEF IInv, Started, Prepared, Early

LEMMA PortStep ==
    ASSUME Assumptions, IInv, PickPort \/ PickDebugPort
    PROVE  IInv'
<1>1. /\ variables \in Collections /\ pszPath \in AppConfigPaths
      /\ Passed(m_Environment, copied /\ dropped = 0) /\ copied \in BOOLEAN
      /\ dropped \in Nat /\ mszNewEnvironment = <<>>
  BY DEF IInv, PickPort, PickDebugPort, Started, Prepared, Early
<1>2. UNCHANGED <<variables, pszPath, m_Environment, copied, dropped, mszNewEnvironment>>
  BY DEF PickPort, PickDebugPort, inputs, process, block
<1>3. Passed(m_Environment, copied /\ dropped = 0)'
  BY <1>1, <1>2, SamePassed
<1>4. Begun(<<>>, 0)' /\ KnownBlock(<<>>)'
  BY DEF Begun, KnownBlock
<1>5. CASE PickPort
  <2>1. m_dwPort' \in Ports /\ pc' \in {"port", "debugport", "failed"}
    BY <1>5 DEF PickPort, Retry, Goto
  <2> QED
    BY <1>1, <1>2, <1>3, <2>1 DEF IInv, Started, Prepared, Early
<1>6. CASE PickDebugPort
  <2>1. /\ m_dwPort \in Ports /\ m_dwPort' = m_dwPort /\ m_dwDebugPort' \in Ports \ {m_dwPort}
        /\ pc' \in {"debugport", "command", "failed"} /\ index' = 1
    BY <1>6 DEF IInv, PickDebugPort, Retry, Goto, Started
  <2>2. index' \in 1 .. 4 /\ index' - 1 = 0
    BY <2>1
  <2>3. mszNewEnvironment' = <<>>
    BY <1>1, <1>2
  <2>4. Begun(mszNewEnvironment, index - 1)' /\ KnownBlock(mszNewEnvironment)'
    BY <1>4, <2>2, <2>3
  <2> QED
    BY <1>1, <1>2, <1>3, <2>1, <2>2, <2>3, <2>4 DEF IInv, Started, Prepared, Early
<1> QED
  BY <1>5, <1>6

\* What holds from the own entries on.
LEMMA PreparedStep ==
    ASSUME Assumptions, IInv, pc \in {"command", "variables"},
           UNCHANGED <<inputs, process, ports>>, dropped' \in Nat, dropped' = 0 => dropped = 0
    PROVE  /\ variables' \in Collections /\ pszPath' \in AppConfigPaths
           /\ Passed(m_Environment, copied /\ dropped = 0)' /\ copied' \in BOOLEAN
           /\ m_dwPort' \in Ports /\ m_dwDebugPort' \in Ports \ {m_dwPort'}
           /\ Passed(m_Environment, copied /\ dropped = 0)
           /\ UNCHANGED <<variables, pszPath, m_Environment, m_dwPort, m_dwDebugPort>>
           /\ m_dwPort \in Tokens /\ m_dwDebugPort \in Tokens /\ pszPath \in Text
           /\ variables \in Collections /\ KnownBlock(mszNewEnvironment)
           /\ Collected(m_Environment) /\ Len(m_Environment) \in Nat
<1>1. /\ variables \in Collections /\ pszPath \in AppConfigPaths
      /\ Passed(m_Environment, copied /\ dropped = 0) /\ copied \in BOOLEAN
      /\ m_dwPort \in Ports /\ m_dwDebugPort \in Ports \ {m_dwPort}
      /\ KnownBlock(mszNewEnvironment)
  BY DEF IInv, Started, Prepared
<1>2. UNCHANGED <<variables, pszPath, m_Environment, copied, m_dwPort, m_dwDebugPort>>
  BY DEF inputs, process, ports
<1>3. Passed(m_Environment, copied /\ dropped = 0)'
  BY <1>1, <1>2, SamePassed
<1>4. m_dwPort \in Tokens /\ m_dwDebugPort \in Tokens /\ pszPath \in Text
  BY <1>1 DEF Assumptions
<1>5. Collected(m_Environment)
  BY <1>1 DEF Passed, Collected
<1>6. Len(m_Environment) \in Nat
  BY <1>5 DEF Collected
<1> QED
  BY <1>1, <1>2, <1>3, <1>4, <1>5, <1>6

LEMMA OwnStep ==
    ASSUME Assumptions, IInv, AppendOwn
    PROVE  IInv'
<1> DEFINE l == mszNewEnvironment
           name == <<OwnName[index], "=">>
           value == OwnValue[index]
           left == {l} \cup {Append(l, text) : text \in IF index = 3 THEN {} ELSE {name, value}}
<1>1. /\ pc = "command" /\ index \in 1 .. 4 /\ index <= 3 /\ dropped \in Nat
      /\ dropped = 0 => Begun(l, index - 1)
  BY DEF IInv, AppendOwn
<1>2. /\ pc' = "command" /\ index' = index + 1 /\ UNCHANGED <<inputs, process, ports>>
      /\ Unchecked(mszNewEnvironment, Append(l, name \o value), left)
  BY DEF AppendOwn, Goto
<1>3. /\ l' = Append(l, name \o value) \/ l' \in left
      /\ dropped' \in Nat
      /\ dropped' = 0 => dropped = 0 /\ l' = Append(l, name \o value)
  <2> HIDE DEF left, name, value
  <2> QED
    BY <1>1, <1>2 DEF Unchecked
<1>4. pc \in {"command", "variables"} /\ dropped' = 0 => dropped = 0
  BY <1>1, <1>3
<1>5. /\ variables' \in Collections /\ pszPath' \in AppConfigPaths
      /\ Passed(m_Environment, copied /\ dropped = 0)' /\ copied' \in BOOLEAN
      /\ m_dwPort' \in Ports /\ m_dwDebugPort' \in Ports \ {m_dwPort'}
      /\ m_dwPort \in Tokens /\ m_dwDebugPort \in Tokens /\ pszPath \in Text
      /\ UNCHANGED <<variables, pszPath>> /\ KnownBlock(l)
  BY <1>1, <1>2, <1>3, PreparedStep
<1>6. index \in 1 .. 3 /\ index' \in 1 .. 4 /\ index' - 1 = index /\ index - 1 + 1 = index
  BY <1>1, <1>2
<1>7. name \o value = OwnEntry(index) /\ OwnEntry(index) \in Text
  BY <1>5, <1>6, OwnEntryIs DEF OwnEntry, Entry
<1>8. Known(OwnEntry(index)) /\ (index # 3 => Known(name) /\ Known(value))
  BY <1>5, <1>6, KnownOwn
<1>9. PICK C : C = l'
  OBVIOUS
<1>10. C = Append(l, OwnEntry(index)) \/ C = l \/ (index # 3 /\ C \in {Append(l, name), Append(l, value)})
  BY <1>3, <1>7, <1>9
<1> HIDE DEF name, value, left
<1>11. KnownBlock(C)
  BY <1>5, <1>8, <1>10, KnownMore
<1>12. KnownBlock(mszNewEnvironment)'
  <2>1. KnownBlock(C)'
    BY <1>2, <1>5, <1>11, SameKnown
  <2> QED
    BY <1>9, <2>1 DEF l
<1>13. ASSUME dropped' = 0  PROVE Begun(mszNewEnvironment, index - 1)'
  <2>1. dropped = 0 /\ C = Append(l, OwnEntry(index))
    BY <1>3, <1>7, <1>9, <1>13
  <2>2. l \in Seq(Text) /\ Len(l) = index - 1 /\ \A i \in 1 .. index - 1 : l[i] = OwnEntry(i)
    BY <1>1, <2>1 DEF Begun
  <2> HIDE DEF l
  <2>3. /\ C \in Seq(Text) /\ Len(C) = index /\ C[index] = OwnEntry(index)
        /\ \A i \in 1 .. index - 1 : C[i] = l[i]
    BY <1>6, <1>7, <2>1, <2>2
  <2>4. \A i \in 1 .. index : i = index \/ i \in 1 .. index - 1
    BY <1>6
  <2>5. Begun(C, index)
    BY <2>2, <2>3, <2>4 DEF Begun
  <2>6. PICK n : n = index
    OBVIOUS
  <2>7. Begun(C, n)'
    BY <1>2, <1>5, <2>5, <2>6, SameBegun
  <2>8. mszNewEnvironment' = C /\ index' - 1 = n
    BY <1>6, <1>9, <2>6 DEF l
  <2> QED
    BY <2>7, <2>8
<1> QED
  BY <1>2, <1>3, <1>5, <1>6, <1>12, <1>13 DEF IInv, Started, Prepared, Early

LEMMA CommandStep ==
    ASSUME Assumptions, IInv, PrepareCommandLine
    PROVE  IInv'
<1> DEFINE f == Asks(pszCommandLine)
           l == mszNewEnvironment
           B == IF f THEN Append(l, DebugPort) ELSE l
<1>1. /\ pc = "command" /\ index \in 1 .. 4 /\ index > 3 /\ dropped \in Nat
      /\ dropped = 0 => Begun(l, index - 1)
  BY DEF IInv, PrepareCommandLine
<1>2. /\ pc' = "variables" /\ index' = 1 /\ UNCHANGED <<inputs, process, ports>>
      /\ fDebugPortEnvSet' = f
      /\ f => Unchecked(mszNewEnvironment, Append(l, DebugPort), {l})
      /\ ~f => UNCHANGED <<mszNewEnvironment, dropped>>
  BY DEF PrepareCommandLine, Goto, Asks
<1>3. f \in BOOLEAN
  BY DEF Asks
<1> HIDE DEF f
<1>4. /\ l' = B \/ l' = l
      /\ dropped' \in Nat
      /\ dropped' = 0 => dropped = 0 /\ l' = B
  BY <1>1, <1>2, <1>3 DEF Unchecked
<1>5. /\ variables' \in Collections /\ pszPath' \in AppConfigPaths
      /\ Passed(m_Environment, copied /\ dropped = 0)' /\ copied' \in BOOLEAN
      /\ m_dwPort' \in Ports /\ m_dwDebugPort' \in Ports \ {m_dwPort'}
      /\ m_dwPort \in Tokens /\ m_dwDebugPort \in Tokens /\ pszPath \in Text
      /\ UNCHANGED <<variables, pszPath, m_Environment>> /\ KnownBlock(l)
      /\ Len(m_Environment) \in Nat
  BY <1>1, <1>2, <1>4, PreparedStep
<1>6. PICK C : C = l'
  OBVIOUS
<1>7. KnownBlock(C)
  BY <1>4, <1>5, <1>6, KnownDebugPort, KnownMore
<1>8. KnownBlock(mszNewEnvironment)'
  <2>1. KnownBlock(C)'
    BY <1>2, <1>5, <1>7, SameKnown
  <2> QED
    BY <1>6, <2>1 DEF l
<1>9. index' - 1 = 0 /\ index - 1 = 3
  BY <1>1, <1>2
<1>10. ASSUME dropped' = 0  PROVE Made(mszNewEnvironment, fDebugPortEnvSet, index - 1)'
  <2>1. Begun(l, 3) /\ C = B
    BY <1>1, <1>4, <1>6, <1>9, <1>10
  <2>2. Made(C, f, 0)
    BY <1>3, <1>5, <2>1, MadeFirst
  <2>3. ASSUME NEW b, NEW g, NEW n, Made(b, g, n)  PROVE Made(b, g, n)'
    BY <1>2, <1>5, <2>3, SameMade
  <2>4. mszNewEnvironment' = C /\ fDebugPortEnvSet' = f
    BY <1>2, <1>6 DEF l
  <2> QED
    BY <1>9, <2>2, <2>3, <2>4
<1>11. index' \in 1 .. Len(m_Environment') + 1
  BY <1>2, <1>5
<1> QED
  BY <1>2, <1>3, <1>4, <1>5, <1>8, <1>10, <1>11 DEF IInv, Started, Prepared, Early

LEMMA AppendStep ==
    ASSUME Assumptions, IInv, AppendVariable
    PROVE  IInv'
<1> DEFINE f == fDebugPortEnvSet
           l == mszNewEnvironment
           x == Replaced(m_Environment[index])
           d == IF Asks(m_Environment[index]) /\ ~f THEN <<DebugPort>> ELSE <<>>
           D == l \o d \o <<x>>
<1>1. /\ pc = "variables" /\ dropped \in Nat /\ f \in BOOLEAN
      /\ index \in 1 .. Len(m_Environment) + 1 /\ index <= Len(m_Environment)
      /\ dropped = 0 => Made(l, f, index - 1)
  BY DEF IInv, AppendVariable
<1>2. /\ pc' = "variables" /\ index' = index + 1 /\ UNCHANGED <<inputs, process, ports, f>>
      /\ Unchecked(mszNewEnvironment, D, {l, l \o d, Append(l, x)})
  BY DEF AppendVariable, Goto, Asks
<1>3. /\ l' = D \/ l' \in {l, l \o d, Append(l, x)}
      /\ dropped' \in Nat
      /\ dropped' = 0 => dropped = 0 /\ l' = D
  <2> HIDE DEF D, d, x
  <2> QED
    BY <1>1, <1>2 DEF Unchecked
<1>4. /\ variables' \in Collections /\ pszPath' \in AppConfigPaths
      /\ Passed(m_Environment, copied /\ dropped = 0)' /\ copied' \in BOOLEAN
      /\ m_dwPort' \in Ports /\ m_dwDebugPort' \in Ports \ {m_dwPort'}
      /\ m_dwPort \in Tokens /\ m_dwDebugPort \in Tokens /\ pszPath \in Text
      /\ UNCHANGED <<variables, pszPath, m_Environment>> /\ KnownBlock(l)
      /\ Collected(m_Environment) /\ Len(m_Environment) \in Nat
  BY <1>1, <1>2, <1>3, PreparedStep
<1>5. /\ index \in 1 .. Len(m_Environment) /\ index' \in 1 .. Len(m_Environment') + 1
      /\ index' - 1 = index
  BY <1>1, <1>2, <1>4
<1>6. Known(x) /\ Known(DebugPort)
  BY <1>4, <1>5, KnownVariable, KnownDebugPort
<1>7. KnownBlock(l \o d)
  <2>1. CASE Asks(m_Environment[index]) /\ ~f
    BY <1>4, <1>6, <2>1, KnownMore
  <2>2. CASE ~(Asks(m_Environment[index]) /\ ~f)
    <3>1. l \in Seq(Text)
      BY <1>4 DEF KnownBlock
    <3>2. l \o d = l
      BY <2>2, <3>1
    <3> QED
      BY <1>4, <3>2
  <2> QED
    BY <2>1, <2>2
<1>8. PICK C : C = l'
  OBVIOUS
<1>9. KnownBlock(C)
  <2> DEFINE e == l \o d
  <2>1. KnownBlock(e) /\ KnownBlock(l) /\ Known(x) /\ D = e \o <<x>>
    BY <1>4, <1>6, <1>7
  <2>2. C = e \o <<x>> \/ C \in {l, e, Append(l, x)}
    BY <1>3, <1>8
  <2> HIDE DEF e, d, x, D, l
  <2> QED
    BY <2>1, <2>2, KnownMore
<1>10. KnownBlock(mszNewEnvironment)'
  <2>1. KnownBlock(C)'
    BY <1>2, <1>4, <1>9, SameKnown
  <2> QED
    BY <1>8, <2>1 DEF l
<1>11. ASSUME dropped' = 0  PROVE Made(mszNewEnvironment, fDebugPortEnvSet, index - 1)'
  <2>1. Made(l, f, index - 1) /\ C = D /\ m_Environment \in Seq(Text)
    BY <1>1, <1>3, <1>4, <1>8, <1>11 DEF Collected
  <2>2. Made(D, f, index)
    BY <1>1, <1>4, <1>5, <2>1, MadeNext
  <2> HIDE DEF D, f
  <2>3. ASSUME NEW b, NEW g, NEW n, Made(b, g, n)  PROVE Made(b, g, n)'
    BY <1>2, <1>4, <2>3, SameMade
  <2>4. mszNewEnvironment' = C /\ fDebugPortEnvSet' = f
    BY <1>2, <1>8 DEF l, f
  <2> QED
    BY <1>5, <2>1, <2>2, <2>3, <2>4
<1> QED
  BY <1>1, <1>2, <1>3, <1>4, <1>5, <1>10, <1>11 DEF IInv, Started, Prepared, Early, f

LEMMA InheritStep ==
    ASSUME Assumptions, IInv, AppendInherited
    PROVE  IInv'
<1> DEFINE l == mszNewEnvironment
<1>1. /\ pc = "variables" /\ dropped \in Nat /\ fDebugPortEnvSet \in BOOLEAN
      /\ index \in 1 .. Len(m_Environment) + 1 /\ index > Len(m_Environment)
      /\ dropped = 0 => Made(l, fDebugPortEnvSet, index - 1)
  BY DEF IInv, AppendInherited
<1>2. /\ pc' = "launched" /\ UNCHANGED <<inputs, process, ports, fDebugPortEnvSet>>
      /\ l' \in {l, l \o Inherited} /\ dropped' \in Nat
      /\ dropped' = 0 => dropped = 0 /\ l' = l \o Inherited
  BY <1>1 DEF AppendInherited, Goto, Unchecked
<1>3. /\ variables' \in Collections /\ pszPath' \in AppConfigPaths
      /\ Passed(m_Environment, copied /\ dropped = 0)' /\ copied' \in BOOLEAN
      /\ m_dwPort' \in Ports /\ m_dwDebugPort' \in Ports \ {m_dwPort'}
      /\ UNCHANGED <<variables, pszPath, m_Environment>> /\ KnownBlock(l)
      /\ Len(m_Environment) \in Nat
  BY <1>1, <1>2, PreparedStep
<1>4. index - 1 = Len(m_Environment)
  BY <1>1, <1>3
<1>5. PICK B : B = l
  OBVIOUS
<1>6. KnownBlock(B)' /\ mszNewEnvironment' \in {B, B \o Inherited}
  BY <1>2, <1>3, <1>5, SameKnown
<1>7. ASSUME dropped' = 0
      PROVE  Made(B, fDebugPortEnvSet, Len(m_Environment))' /\ mszNewEnvironment' = B \o Inherited
  <2>1. Made(B, fDebugPortEnvSet, Len(m_Environment)) /\ l' = B \o Inherited
    BY <1>1, <1>2, <1>4, <1>5, <1>7
  <2>2. ASSUME NEW g, NEW n, Made(B, g, n)  PROVE Made(B, g, n)'
    BY <1>2, <1>3, <2>2, SameMade
  <2> QED
    BY <1>2, <1>3, <2>1, <2>2
<1> QED
  BY <1>1, <1>2, <1>3, <1>6, <1>7 DEF IInv, Started, Prepared, Early

LEMMA FailStep ==
    ASSUME IInv, Fail
    PROVE  IInv'
BY DEF IInv, Fail, Goto, inputs, Started, Prepared, Early

LEMMA StutterStep ==
    ASSUME IInv, UNCHANGED vars
    PROVE  IInv'
<1>1. UNCHANGED <<variables, pszPath, pc, index, m_dwPort, m_dwDebugPort, ports, m_Environment, copied,
                  fDebugPortEnvSet, mszNewEnvironment, mszEnvNames, mszEnvironment, m_mszEnvironment,
                  mszEnvironmentListReverse, dropped>>
  BY DEF vars, inputs, populated, process, ports, block
<1>2. Recorded(index - 1)' <=> Recorded(index - 1)
  BY <1>1 DEF Recorded, Full, Name
<1>3. Recorded(Len(variables))' <=> Recorded(Len(variables))
  BY <1>1 DEF Recorded, Full, Name
<1>4. Selected(index - 1)' <=> Selected(index - 1)
  BY <1>1 DEF Selected, Chosen, Full, Name
<1>5. Passed(m_Environment, copied /\ dropped = 0) => Passed(m_Environment, copied /\ dropped = 0)'
  BY <1>1, SamePassed
<1>6. ASSUME NEW B, NEW f, NEW n, Made(B, f, n)  PROVE Made(B, f, n)'
  BY <1>1, <1>6, SameMade
<1>7. /\ Made(mszNewEnvironment, fDebugPortEnvSet, index - 1)
           => Made(mszNewEnvironment, fDebugPortEnvSet, index - 1)'
      /\ \A B : Made(B, fDebugPortEnvSet, Len(m_Environment))
                  => Made(B, fDebugPortEnvSet, Len(m_Environment))'
  BY <1>1, <1>6
<1>8. /\ Reversing(index - 1) => Reversing(index - 1)'
      /\ Reversing(Len(variables)) => Reversing(Len(variables))'
  <2>1. ASSUME NEW n, Reversing(n)  PROVE Reversing(n)'
    BY <1>1, <2>1, SameReversing
  <2> QED
    BY <1>1, <2>1
<1>9. Collected(m_mszEnvironment) => Collected(m_mszEnvironment)'
  <2>1. ASSUME NEW list, Collected(list)  PROVE Collected(list)'
    BY <1>1, <2>1, SameCollected
  <2> QED
    BY <1>1, <2>1
<1>10. /\ KnownBlock(mszNewEnvironment) => KnownBlock(mszNewEnvironment)'
       /\ \A B : KnownBlock(B) => KnownBlock(B)'
  <2>1. ASSUME NEW B, KnownBlock(B)  PROVE KnownBlock(B)'
    BY <1>1, <2>1, SameKnown
  <2> QED
    BY <1>1, <2>1
<1>11. Begun(mszNewEnvironment, index - 1) => Begun(mszNewEnvironment, index - 1)'
  <2>1. ASSUME NEW B, NEW n, Begun(B, n)  PROVE Begun(B, n)'
    BY <1>1, <2>1, SameBegun
  <2> QED
    BY <1>1, <2>1
<1> QED
  BY <1>1, <1>2, <1>3, <1>4, <1>5, <1>7, <1>8, <1>9, <1>10, <1>11 DEF IInv

-----------------------------------------------------------------------------
(* The theorem.                                                            *)

LEMMA InitIInv ==
    ASSUME Assumptions, Init
    PROVE  IInv
<1>1. /\ variables \in Collections /\ pszPath \in AppConfigPaths /\ pc = "read" /\ index = 1
      /\ mszEnvNames = <<>> /\ mszEnvironment = <<>> /\ m_mszEnvironment = <<>>
      /\ mszEnvironmentListReverse = <<>> /\ mszNewEnvironment = <<>> /\ dropped = 0
  BY DEF Init
<1>2. Len(variables) \in Nat
  BY <1>1, Variables
<1>3. index \in 1 .. Len(variables) + 1 /\ index - 1 = 0 /\ 1 .. 0 = {}
  BY <1>1, <1>2
<1>4. Recorded(0)
  BY <1>1, <1>3 DEF Recorded
<1> QED
  BY <1>1, <1>3, <1>4 DEF IInv, Started, Prepared, Early

LEMMA NextIInv ==
    ASSUME Assumptions, IInv, [Next]_vars
    PROVE  IInv'
BY ReadStep, ReadEndStep, ReverseStep, ReverseEndStep, SelectStep, CopyStep, PortStep, OwnStep,
   CommandStep, AppendStep, InheritStep, FailStep, StutterStep DEF Next

\* However the configuration, the command line and the worker's environment
\* look, a process that starts, and for which no Append failed unnoticed, finds
\* its own port and path; if the configured names are ordinary, the debug port
\* exactly when it is asked for and the inherited value of what is not
\* configured; and, if its variables were copied and no string is taken for
\* another, the last configured value of each.  Whatever failed, an ordinary
\* name brings a value meant for it, the worker's or none (aspnetcoreconfig.cxx
\* Populate, serverprocess.cxx StartProcess).
THEOREM EnvironmentDeliveredTheorem ==
    ASSUME Assumptions
    PROVE  Spec => []EnvironmentDelivered
<1>1. Init => IInv
  BY InitIInv
<1>2. IInv /\ [Next]_vars => IInv'
  BY NextIInv
<1>3. IInv => EnvironmentDelivered
  <2>1. CASE pc # "launched"
    BY <2>1 DEF EnvironmentDelivered
  <2>2. ASSUME IInv, pc = "launched"  PROVE EnvironmentDelivered
    <3>1. /\ variables \in Collections /\ pszPath \in AppConfigPaths
          /\ Passed(m_Environment, copied /\ dropped = 0) /\ copied \in BOOLEAN
          /\ m_dwPort \in Ports /\ m_dwDebugPort \in Ports \ {m_dwPort} /\ fDebugPortEnvSet \in BOOLEAN
      BY <2>2 DEF IInv, Started, Prepared
    <3>2. PICK B : KnownBlock(B) /\ mszNewEnvironment \in {B, B \o Inherited}
      BY <2>2 DEF IInv
    <3>3. Meant
      BY <3>1, <3>2, DeliveryAnyway
    <3>4. ASSUME dropped = 0  PROVE Complete
      <4>1. PICK C : /\ Made(C, fDebugPortEnvSet, Len(m_Environment))
                     /\ mszNewEnvironment = C \o Inherited
        BY <2>2, <3>4 DEF IInv
      <4>2. Passed(m_Environment, copied)
        BY <3>1, <3>4 DEF Passed
      <4> QED
        BY <3>1, <4>1, <4>2, Delivery
    <3>5. m_dwDebugPort # m_dwPort
      BY <3>1
    <3> QED
      BY <3>3, <3>4, <3>5, Zenon DEF EnvironmentDelivered, Complete, Meant
  <2> QED
    BY <2>1, <2>2
<1> QED
  BY <1>1, <1>2, <1>3, PTL DEF Spec
=============================================================================
