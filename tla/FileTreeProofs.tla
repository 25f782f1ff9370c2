--------------------------- MODULE FileTreeProofs ---------------------------
(***************************************************************************)
(* Proofs about FileTree, for any names, module versions, toolchains and   *)
(* escapes: that every front end serves the layout, and that files are     *)
(* read as they are through the cache by path.                             *)
(***************************************************************************)
EXTENDS FileTree, SequenceTheorems, FiniteSetTheorems, WellFoundedInduction, TLAPS

-----------------------------------------------------------------------------
(* Numbers and sequences *)

\* A set of numbers that is not empty has a least one.
LEMMA Least ==
  ASSUME NEW T, T \subseteq Nat, T # {}
  PROVE  \E x \in T : \A y \in T : x <= y
<1>. DEFINE R == OpToRel(<, Nat)
<1>1. IsWellFoundedOn(R, Nat) BY NatLessThanWellFounded
<1>2. \A x, y \in Nat : x < y => <<x, y>> \in R BY DEF OpToRel
<1>. HIDE DEF R
<1>3. PICK x \in T : \A y \in T : ~ (<<y, x>> \in R) BY <1>1, WFMin
<1>4. ASSUME NEW y \in T PROVE x <= y
  <2>1. x \in Nat /\ y \in Nat OBVIOUS
  <2>2. ~(y < x) BY <1>2, <1>3, <2>1
  <2>3. QED BY <2>1, <2>2
<1>5. QED BY <1>4

\* Min of a set that has an element.
LEMMA MinIsLeast ==
  ASSUME NEW T, T \subseteq Nat, T # {}
  PROVE  Min(T) \in T /\ \A y \in T : Min(T) <= y
<1>1. PICK x \in T : \A y \in T : x <= y BY Least
<1>2. QED BY <1>1, Zenon DEF Min

\* Min of a set whose least element is known.
LEMMA MinIs ==
  ASSUME NEW T, T \subseteq Nat, NEW k \in T, \A y \in T : k <= y
  PROVE  Min(T) = k
<1>1. Min(T) \in T /\ \A y \in T : Min(T) <= y BY MinIsLeast
<1>2. Min(T) <= k /\ k <= Min(T) /\ Min(T) \in Nat /\ k \in Nat BY <1>1
<1>3. QED BY <1>2

\* Max of a set of numbers up to m.
LEMMA MaxIsGreatest ==
  ASSUME NEW m \in Nat, NEW T, T \subseteq 0..m, T # {}
  PROVE  Max(T) \in T
<1>. DEFINE U == {m - i : i \in T}
<1>1. \A i \in T : m - i \in Nat OBVIOUS
<1>2. U \subseteq Nat /\ U # {} BY <1>1
<1>3. PICK x \in U : \A y \in U : x <= y BY <1>2, Least
<1>4. PICK i \in T : x = m - i BY <1>3
<1>5. ASSUME NEW j \in T PROVE i >= j
  <2>1. m - i <= m - j BY <1>3, <1>4
  <2>2. i \in Nat /\ j \in Nat OBVIOUS
  <2>3. QED BY <2>1, <2>2
<1>6. \E z \in T : \A y \in T : z >= y BY <1>5
<1>7. QED BY <1>6, Zenon DEF Max

\* a, x and b one after the other.
Join(a, x, b) == a \o <<x>> \o b

\* Where they are then.
Joined(s, a, x, b) ==
  /\ Len(s) = Len(a) + 1 + Len(b)
  /\ \A i \in 1..Len(a) : s[i] = a[i]
  /\ s[Len(a) + 1] = x
  /\ \A i \in 1..Len(b) : s[Len(a) + 1 + i] = b[i]

LEMMA JoinPlaces ==
  ASSUME NEW S, NEW a \in Seq(S), NEW x \in S, NEW b \in Seq(S)
  PROVE  Join(a, x, b) \in Seq(S) /\ Joined(Join(a, x, b), a, x, b)
<1>1. Len(a) \in Nat /\ Len(b) \in Nat OBVIOUS
<1>2. /\ a \o <<x>> \in Seq(S) /\ Len(a \o <<x>>) = Len(a) + 1
      /\ \A i \in 1..Len(a) : (a \o <<x>>)[i] = a[i]
      /\ (a \o <<x>>)[Len(a) + 1] = x
  BY <1>1
<1>. DEFINE c == a \o <<x>>
<1>. HIDE DEF c
<1>3. /\ c \o b \in Seq(S) /\ Len(c \o b) = Len(c) + Len(b)
      /\ \A i \in 1..(Len(c) + Len(b)) : (c \o b)[i] = IF i <= Len(c) THEN c[i] ELSE b[i - Len(c)]
  BY <1>2, ConcatProperties DEF c
<1>4. Len(c) = Len(a) + 1 BY <1>2 DEF c
<1>5. \A i \in 1..(Len(a) + 1) : (c \o b)[i] = c[i] BY <1>1, <1>3, <1>4
<1>6. \A i \in 1..Len(b) : (c \o b)[Len(a) + 1 + i] = b[i]
  <2>1. SUFFICES ASSUME NEW i \in 1..Len(b) PROVE (c \o b)[Len(a) + 1 + i] = b[i] OBVIOUS
  <2>2. /\ Len(a) + 1 + i \in 1..(Len(c) + Len(b)) /\ ~(Len(a) + 1 + i <= Len(c))
        /\ Len(a) + 1 + i - Len(c) = i
    BY <1>1, <1>4
  <2>3. QED BY <1>3, <2>2
<1>7. QED BY <1>1, <1>2, <1>3, <1>4, <1>5, <1>6 DEF c, Join, Joined

\* Two sequences with the same elements are equal.
LEMMA SameSeq ==
  ASSUME NEW S, NEW s \in Seq(S), NEW t \in Seq(S), Len(s) = Len(t),
         \A i \in 1..Len(s) : s[i] = t[i]
  PROVE  s = t
BY SeqEqual

\* A part of a sequence.
LEMMA PartPlaces ==
  ASSUME NEW S, NEW s \in Seq(S), NEW m \in 1..(Len(s) + 1), NEW n \in 0..Len(s), m <= n + 1
  PROVE  /\ SubSeq(s, m, n) \in Seq(S)
         /\ Len(SubSeq(s, m, n)) = n - m + 1
         /\ \A i \in 1..(n - m + 1) : SubSeq(s, m, n)[i] = s[m + i - 1]
<1>1. Len(s) \in Nat OBVIOUS
<1>2. m \in Int /\ n \in Int /\ \A i \in m..n : s[i] \in S BY <1>1
<1>3. (IF m <= n THEN n - m + 1 ELSE 0) = n - m + 1 BY <1>1
<1>4. /\ SubSeq(s, m, n) \in Seq(S)
      /\ Len(SubSeq(s, m, n)) = IF m <= n THEN n - m + 1 ELSE 0
      /\ \A i \in 1..(n - m + 1) : SubSeq(s, m, n)[i] = s[m + i - 1]
  BY <1>2, SubSeqProperties
<1>5. QED BY <1>3, <1>4

\* What was joined are the parts of the whole.
LEMMA JoinParts ==
  ASSUME NEW S, NEW a \in Seq(S), NEW x \in S, NEW b \in Seq(S)
  PROVE  /\ SubSeq(Join(a, x, b), 1, Len(a)) = a
         /\ SubSeq(Join(a, x, b), Len(a) + 2, Len(Join(a, x, b))) = b
<1>. DEFINE s == Join(a, x, b)
<1>1. s \in Seq(S) /\ Joined(s, a, x, b) BY JoinPlaces
<1>2. /\ s \in Seq(S) /\ Len(s) = Len(a) + 1 + Len(b)
      /\ \A i \in 1..Len(a) : s[i] = a[i]
      /\ \A i \in 1..Len(b) : s[Len(a) + 1 + i] = b[i]
  BY <1>1 DEF Joined
<1>3. Len(a) \in Nat /\ Len(b) \in Nat OBVIOUS
<1>. HIDE DEF s
<1>4. SubSeq(s, 1, Len(a)) = a
  <2>. DEFINE n == Len(a)
  <2>1. 1 \in 1..(Len(s) + 1) /\ n \in 0..Len(s) /\ 1 <= n + 1 BY <1>2, <1>3
  <2>2. /\ SubSeq(s, 1, n) \in Seq(S)
        /\ Len(SubSeq(s, 1, n)) = n - 1 + 1
        /\ \A i \in 1..(n - 1 + 1) : SubSeq(s, 1, n)[i] = s[1 + i - 1]
    BY <1>2, <2>1, PartPlaces
  <2>3. Len(SubSeq(s, 1, n)) = n /\ \A i \in 1..n : SubSeq(s, 1, n)[i] = a[i] BY <1>2, <1>3, <2>2
  <2>4. QED BY <2>2, <2>3, SameSeq
<1>5. SubSeq(s, Len(a) + 2, Len(s)) = b
  <2>. DEFINE m == Len(a) + 2
              n == Len(s)
  <2>1. m \in 1..(Len(s) + 1) /\ n \in 0..Len(s) /\ m <= n + 1 BY <1>2, <1>3
  <2>2. n - m + 1 = Len(b) /\ \A i \in 1..Len(b) : m + i - 1 = Len(a) + 1 + i BY <1>2, <1>3
  <2>. HIDE DEF m, n
  <2>3. /\ SubSeq(s, m, n) \in Seq(S)
        /\ Len(SubSeq(s, m, n)) = n - m + 1
        /\ \A i \in 1..(n - m + 1) : SubSeq(s, m, n)[i] = s[m + i - 1]
    BY <1>2, <2>1, PartPlaces
  <2>4. \A i \in 1..Len(b) : SubSeq(s, m, n)[i] = b[i] BY <1>2, <2>2, <2>3
  <2>5. SubSeq(s, m, n) = b BY <2>2, <2>3, <2>4, SameSeq
  <2>6. QED BY <2>5 DEF m, n
<1>6. QED BY <1>4, <1>5 DEF s

\* A sequence is what is before one of its elements, the element, and what is after it.
LEMMA Split ==
  ASSUME NEW S, NEW s \in Seq(S), NEW i \in 1..Len(s)
  PROVE  /\ SubSeq(s, 1, i - 1) \in Seq(S) /\ Len(SubSeq(s, 1, i - 1)) = i - 1
         /\ SubSeq(s, i + 1, Len(s)) \in Seq(S) /\ Len(SubSeq(s, i + 1, Len(s))) = Len(s) - i
         /\ s = Join(SubSeq(s, 1, i - 1), s[i], SubSeq(s, i + 1, Len(s)))
<1>. DEFINE m == i - 1
            a == SubSeq(s, 1, m)
            k == i + 1
            b == SubSeq(s, k, Len(s))
            j == Join(a, s[i], b)
<1>1. Len(s) \in Nat /\ s[i] \in S OBVIOUS
<1>2. a \in Seq(S) /\ Len(a) = i - 1 /\ \A l \in 1..(i - 1) : a[l] = s[l]
  <2>1. 1 \in 1..(Len(s) + 1) /\ m \in 0..Len(s) /\ 1 <= m + 1 BY <1>1
  <2>2. m - 1 + 1 = i - 1 /\ \A l \in 1..(i - 1) : 1 + l - 1 = l BY <1>1
  <2>. HIDE DEF m
  <2>3. /\ SubSeq(s, 1, m) \in Seq(S)
        /\ Len(SubSeq(s, 1, m)) = m - 1 + 1
        /\ \A l \in 1..(m - 1 + 1) : SubSeq(s, 1, m)[l] = s[1 + l - 1]
    BY <2>1, PartPlaces
  <2>4. QED BY <2>2, <2>3
<1>3. b \in Seq(S) /\ Len(b) = Len(s) - i /\ \A l \in 1..(Len(s) - i) : b[l] = s[i + l]
  <2>1. k \in 1..(Len(s) + 1) /\ Len(s) \in 0..Len(s) /\ k <= Len(s) + 1 BY <1>1
  <2>2. Len(s) - k + 1 = Len(s) - i /\ \A l \in 1..(Len(s) - i) : k + l - 1 = i + l BY <1>1
  <2>. HIDE DEF k
  <2>3. /\ SubSeq(s, k, Len(s)) \in Seq(S)
        /\ Len(SubSeq(s, k, Len(s))) = Len(s) - k + 1
        /\ \A l \in 1..(Len(s) - k + 1) : SubSeq(s, k, Len(s))[l] = s[k + l - 1]
    BY <2>1, PartPlaces
  <2>4. QED BY <2>2, <2>3
<1>. HIDE DEF a, b
<1>4. j \in Seq(S) /\ Joined(j, a, s[i], b) BY <1>1, <1>2, <1>3, JoinPlaces
<1>. HIDE DEF j
<1>5. /\ Len(j) = Len(a) + 1 + Len(b)
      /\ \A l \in 1..Len(a) : j[l] = a[l]
      /\ j[Len(a) + 1] = s[i]
      /\ \A l \in 1..Len(b) : j[Len(a) + 1 + l] = b[l]
  BY <1>4 DEF Joined
<1>6. ASSUME NEW l \in 1..Len(s) PROVE s[l] = j[l]
  <2>1. CASE l < i BY <1>1, <1>2, <1>5, <2>1
  <2>2. CASE l = i
    <3>1. Len(a) + 1 = i BY <1>1, <1>2
    <3>2. QED BY <1>5, <2>2, <3>1
  <2>3. CASE l > i
    <3>1. l - i \in 1..(Len(s) - i) /\ i + (l - i) = l /\ Len(a) + 1 + (l - i) = l BY <1>1, <1>2, <2>3
    <3>2. b[l - i] = s[l] BY <1>3, <3>1
    <3>3. l - i \in 1..Len(b) BY <1>3, <3>1
    <3>4. j[Len(a) + 1 + (l - i)] = b[l - i] BY <1>5, <3>3
    <3>5. QED BY <3>1, <3>2, <3>4
  <2>4. QED BY <1>1, <2>1, <2>2, <2>3
<1>7. Len(j) = Len(s) BY <1>1, <1>2, <1>3, <1>5
<1>8. s = j BY <1>4, <1>6, <1>7, SameSeq
<1>9. QED BY <1>2, <1>3, <1>8 DEF a, b, j

-----------------------------------------------------------------------------
(* Cuts and escapes *)

\* The cut of a name at a separator that it has before nothing else of the kind.
LEMMA CutOf ==
  ASSUME NEW S, NEW a \in Seq(S), NEW sep \in S, NEW b \in Seq(S), ~Contains(a, sep)
  PROVE  CutAt(Join(a, sep, b), sep) = <<a, b>> /\ Contains(Join(a, sep, b), sep)
<1>. DEFINE s == Join(a, sep, b)
            is == {i \in DOMAIN s : s[i] = sep}
            k == Len(a) + 1
<1>1. s \in Seq(S) /\ Joined(s, a, sep, b) BY JoinPlaces
<1>2. /\ s \in Seq(S) /\ Len(s) = Len(a) + 1 + Len(b)
      /\ \A i \in 1..Len(a) : s[i] = a[i]
      /\ s[Len(a) + 1] = sep
  BY <1>1 DEF Joined
<1>3. SubSeq(s, 1, Len(a)) = a /\ SubSeq(s, Len(a) + 2, Len(s)) = b BY JoinParts
<1>4. Len(a) \in Nat /\ Len(b) \in Nat OBVIOUS
<1>. HIDE DEF s
<1>5. DOMAIN s = 1..Len(s) /\ Len(s) \in Nat BY <1>2
<1>6. k \in is BY <1>2, <1>4, <1>5
<1>7. \A y \in is : k <= y BY <1>2, <1>4, <1>5 DEF Contains
<1>8. is \subseteq Nat BY <1>5
<1>. HIDE DEF is, k
<1>9. Min(is) = k BY <1>6, <1>7, <1>8, MinIs
<1>10. k - 1 = Len(a) /\ k + 1 = Len(a) + 2 BY <1>4 DEF k
<1>11. CutAt(s, sep) = <<SubSeq(s, 1, k - 1), SubSeq(s, k + 1, Len(s))>> BY <1>6, <1>9 DEF CutAt, is
<1>12. Contains(s, sep) BY <1>5, <1>6 DEF Contains, is
<1>13. QED BY <1>3, <1>10, <1>11, <1>12 DEF s

\* A name without the separator is not cut.
LEMMA NoCut ==
  ASSUME NEW S, NEW s \in Seq(S), NEW sep, ~Contains(s, sep)
  PROVE  CutAt(s, sep) = <<s>>
BY DEF CutAt, Contains

\* What a name is cut into.
LEMMA CutParts ==
  ASSUME NEW S, NEW s \in Seq(S), NEW sep, Contains(s, sep)
  PROVE  \E a, b \in Seq(S) :
           s = Join(a, sep, b) /\ ~Contains(a, sep) /\ CutAt(s, sep) = <<a, b>>
<1>. DEFINE is == {i \in DOMAIN s : s[i] = sep}
            k == Min(is)
            a == SubSeq(s, 1, k - 1)
            b == SubSeq(s, k + 1, Len(s))
<1>1. DOMAIN s = 1..Len(s) /\ Len(s) \in Nat OBVIOUS
<1>2. is # {} /\ is \subseteq Nat BY <1>1 DEF Contains
<1>3. k \in is /\ \A y \in is : k <= y
  <2>. HIDE DEF is
  <2>1. QED BY <1>2, MinIsLeast
<1>4. k \in 1..Len(s) /\ s[k] = sep BY <1>1, <1>3
<1>5. CutAt(s, sep) = <<a, b>> BY <1>2 DEF CutAt
<1>. HIDE DEF k
<1>6. /\ a \in Seq(S) /\ Len(a) = k - 1 /\ b \in Seq(S) /\ s = Join(a, s[k], b)
  BY <1>4, Split
<1>7. ~Contains(a, sep)
  <2>1. SUFFICES ASSUME NEW i \in 1..Len(a), a[i] = sep PROVE FALSE BY DEF Contains
  <2>2. s[k] \in S BY <1>4
  <2>. HIDE DEF a, b
  <2>3. Joined(Join(a, s[k], b), a, s[k], b) BY <1>6, <2>2, JoinPlaces
  <2>4. \A j \in 1..Len(a) : s[j] = a[j] BY <1>6, <2>3 DEF Joined
  <2>5. s[i] = sep BY <1>6, <2>1, <2>4
  <2>6. i \in is /\ i < k BY <1>1, <1>4, <1>6, <2>1, <2>5
  <2>7. QED BY <1>3, <1>4, <2>6
<1>8. QED BY <1>4, <1>5, <1>6, <1>7

\* A piece that is not itself an escape is got back from its escape.
LEMMA EscapeThenUnescape ==
  ASSUME NEW s \in Piece
  PROVE  /\ Escape(s) \in Piece
         /\ s \notin DOMAIN Unescaped => Unescape(Escape(s)) = s
<1>1. CASE \E e \in DOMAIN Unescaped : Unescaped[e] = s
  <2>1. Escape(s) \in DOMAIN Unescaped /\ Unescaped[Escape(s)] = s BY <1>1 DEF Escape
  <2>2. QED BY <2>1, EscapesAssumption DEF Unescape
<1>2. CASE ~\E e \in DOMAIN Unescaped : Unescaped[e] = s
  <2>1. Escape(s) = s BY <1>2 DEF Escape
  <2>2. QED BY <2>1 DEF Unescape
<1>3. QED BY <1>1, <1>2

\* A piece without upper-case letters is got back from what it stands for.
LEMMA UnescapeThenEscape ==
  ASSUME NEW s \in Piece
  PROVE  Unescape(s) \in Piece /\ (s \notin Invalid => Escape(Unescape(s)) = s)
<1>1. CASE s \in DOMAIN Unescaped
  <2>1. Unescape(s) = Unescaped[s] BY <1>1 DEF Unescape
  <2>2. Escape(Unescaped[s]) \in DOMAIN Unescaped /\ Unescaped[Escape(Unescaped[s])] = Unescaped[s]
    BY <1>1 DEF Escape
  <2>3. Escape(Unescaped[s]) = s BY <1>1, <2>2, EscapesAssumption DEF IsInjective
  <2>4. QED BY <1>1, <2>1, <2>3, EscapesAssumption
<1>2. CASE s \notin DOMAIN Unescaped
  <2>1. Unescape(s) = s BY <1>2 DEF Unescape
  <2>2. s \notin Invalid => ~\E e \in DOMAIN Unescaped : Unescaped[e] = s BY EscapesAssumption
  <2>3. s \notin Invalid => Escape(s) = s BY <2>2 DEF Escape
  <2>4. QED BY <2>1, <2>3
<1>3. QED BY <1>1, <1>2

\* Names are escaped piece by piece, and keep their length.
LEMMA EscapedName ==
  ASSUME NEW n \in Seq(Piece)
  PROVE  /\ EscapeAll(n) \in Seq(Piece) /\ Len(EscapeAll(n)) = Len(n)
         /\ \A i \in 1..Len(n) : EscapeAll(n)[i] = Escape(n[i])
         /\ Range(n) \cap DOMAIN Unescaped = {} => UnescapeAll(EscapeAll(n)) = n
<1>. DEFINE e == EscapeAll(n)
<1>1. DOMAIN n = 1..Len(n) /\ Len(n) \in Nat /\ \A i \in 1..Len(n) : n[i] \in Piece OBVIOUS
<1>2. e = [i \in 1..Len(n) |-> Escape(n[i])] BY <1>1 DEF EscapeAll
<1>3. \A i \in 1..Len(n) : Escape(n[i]) \in Piece BY <1>1, EscapeThenUnescape
<1>4. e \in Seq(Piece) /\ Len(e) = Len(n) /\ \A i \in 1..Len(n) : e[i] = Escape(n[i]) BY <1>1, <1>2, <1>3
<1>. HIDE DEF e
<1>5. ASSUME Range(n) \cap DOMAIN Unescaped = {} PROVE UnescapeAll(e) = n
  <2>1. \A i \in 1..Len(n) : n[i] \notin DOMAIN Unescaped BY <1>1, <1>5 DEF Range
  <2>2. \A i \in 1..Len(n) : Unescape(Escape(n[i])) = n[i] BY <1>1, <2>1, EscapeThenUnescape
  <2>3. DOMAIN e = 1..Len(n) BY <1>4
  <2>4. UnescapeAll(e) = [i \in 1..Len(n) |-> Unescape(e[i])] BY <2>3 DEF UnescapeAll
  <2>5. UnescapeAll(e) = [i \in 1..Len(n) |-> n[i]] BY <1>4, <2>2, <2>4
  <2>6. QED BY <1>1, <2>5
<1>6. QED BY <1>4, <1>5 DEF e

LEMMA UnescapedName ==
  ASSUME NEW n \in Seq(Piece)
  PROVE  /\ UnescapeAll(n) \in Seq(Piece) /\ Len(UnescapeAll(n)) = Len(n)
         /\ Range(n) \cap Invalid = {} => EscapeAll(UnescapeAll(n)) = n
<1>. DEFINE e == UnescapeAll(n)
<1>1. DOMAIN n = 1..Len(n) /\ Len(n) \in Nat /\ \A i \in 1..Len(n) : n[i] \in Piece OBVIOUS
<1>2. e = [i \in 1..Len(n) |-> Unescape(n[i])] BY <1>1 DEF UnescapeAll
<1>3. \A i \in 1..Len(n) : Unescape(n[i]) \in Piece BY <1>1, UnescapeThenEscape
<1>4. e \in Seq(Piece) /\ Len(e) = Len(n) /\ \A i \in 1..Len(n) : e[i] = Unescape(n[i]) BY <1>1, <1>2, <1>3
<1>. HIDE DEF e
<1>5. ASSUME Range(n) \cap Invalid = {} PROVE EscapeAll(e) = n
  <2>1. \A i \in 1..Len(n) : n[i] \notin Invalid BY <1>1, <1>5 DEF Range
  <2>2. \A i \in 1..Len(n) : Escape(Unescape(n[i])) = n[i] BY <1>1, <2>1, UnescapeThenEscape
  <2>3. DOMAIN e = 1..Len(n) BY <1>4
  <2>4. EscapeAll(e) = [i \in 1..Len(n) |-> Escape(e[i])] BY <2>3 DEF EscapeAll
  <2>5. EscapeAll(e) = [i \in 1..Len(n) |-> n[i]] BY <1>4, <2>2, <2>4
  <2>6. QED BY <1>1, <2>5
<1>6. QED BY <1>4, <1>5 DEF e

\* And paths name by name.
LEMMA EscapedPath ==
  ASSUME NEW m \in Seq(Name)
  PROVE  /\ EscapePath(m) \in Seq(Name) /\ Len(EscapePath(m)) = Len(m)
         /\ (\A n \in Range(m) : Range(n) \cap DOMAIN Unescaped = {}) => UnescapePath(EscapePath(m)) = m
<1>. DEFINE e == EscapePath(m)
<1>1. DOMAIN m = 1..Len(m) /\ Len(m) \in Nat /\ \A i \in 1..Len(m) : m[i] \in Name OBVIOUS
<1>2. e = [i \in 1..Len(m) |-> EscapeAll(m[i])] BY <1>1 DEF EscapePath
<1>3. \A n \in Name : EscapeAll(n) \in Name
  <2>1. SUFFICES ASSUME NEW n \in Name PROVE EscapeAll(n) \in Name OBVIOUS
  <2>2. n \in Seq(Piece) /\ Len(n) # 0 BY DEF Name
  <2>3. EscapeAll(n) \in Seq(Piece) /\ Len(EscapeAll(n)) # 0 BY <2>2, EscapedName
  <2>4. QED BY <2>3 DEF Name
<1>4. e \in Seq(Name) /\ Len(e) = Len(m) /\ \A i \in 1..Len(m) : e[i] = EscapeAll(m[i]) BY <1>1, <1>2, <1>3
<1>. HIDE DEF e
<1>5. ASSUME \A n \in Range(m) : Range(n) \cap DOMAIN Unescaped = {} PROVE UnescapePath(e) = m
  <2>1. \A i \in 1..Len(m) : Range(m[i]) \cap DOMAIN Unescaped = {} BY <1>1, <1>5 DEF Range
  <2>2. \A i \in 1..Len(m) : UnescapeAll(EscapeAll(m[i])) = m[i]
    <3>1. SUFFICES ASSUME NEW i \in 1..Len(m) PROVE UnescapeAll(EscapeAll(m[i])) = m[i] OBVIOUS
    <3>2. m[i] \in Seq(Piece) BY <1>1 DEF Name
    <3>3. QED BY <2>1, <3>2, EscapedName
  <2>3. DOMAIN e = 1..Len(m) BY <1>4
  <2>4. UnescapePath(e) = [i \in 1..Len(m) |-> UnescapeAll(e[i])] BY <2>3 DEF UnescapePath
  <2>5. UnescapePath(e) = [i \in 1..Len(m) |-> m[i]] BY <1>4, <2>2, <2>4
  <2>6. QED BY <1>1, <2>5
<1>6. QED BY <1>4, <1>5 DEF e

LEMMA UnescapedPath ==
  ASSUME NEW m \in Seq(Seq(Piece)), ValidPath(m)
  PROVE  /\ m \in Seq(Name) /\ m # <<>>
         /\ UnescapePath(m) \in Seq(Name) /\ Len(UnescapePath(m)) = Len(m)
         /\ EscapePath(UnescapePath(m)) = m
<1>. DEFINE e == UnescapePath(m)
<1>1. DOMAIN m = 1..Len(m) /\ Len(m) \in Nat /\ \A i \in 1..Len(m) : m[i] \in Seq(Piece) OBVIOUS
<1>2. \A i \in 1..Len(m) : m[i] # <<>> /\ Range(m[i]) \cap Invalid = {}
  BY <1>1 DEF ValidPath, ValidVersion
<1>3. \A i \in 1..Len(m) : m[i] \in Name BY <1>1, <1>2 DEF Name
<1>4. m \in Seq(Name) BY <1>1, <1>3
<1>5. e = [i \in 1..Len(m) |-> UnescapeAll(m[i])] BY <1>1 DEF UnescapePath
<1>6. \A n \in Name : UnescapeAll(n) \in Name
  <2>1. SUFFICES ASSUME NEW n \in Name PROVE UnescapeAll(n) \in Name OBVIOUS
  <2>2. n \in Seq(Piece) /\ Len(n) # 0 BY DEF Name
  <2>3. UnescapeAll(n) \in Seq(Piece) /\ Len(UnescapeAll(n)) # 0 BY <2>2, UnescapedName
  <2>4. QED BY <2>3 DEF Name
<1>7. e \in Seq(Name) /\ Len(e) = Len(m) /\ \A i \in 1..Len(m) : e[i] = UnescapeAll(m[i])
  BY <1>1, <1>3, <1>5, <1>6
<1>. HIDE DEF e
<1>8. EscapePath(e) = m
  <2>1. \A i \in 1..Len(m) : EscapeAll(UnescapeAll(m[i])) = m[i] BY <1>1, <1>2, UnescapedName
  <2>2. DOMAIN e = 1..Len(m) BY <1>7
  <2>3. EscapePath(e) = [i \in 1..Len(m) |-> EscapeAll(e[i])] BY <2>2 DEF EscapePath
  <2>4. EscapePath(e) = [i \in 1..Len(m) |-> m[i]] BY <1>7, <2>1, <2>3
  <2>5. QED BY <1>1, <2>4
<1>9. m # <<>> BY DEF ValidPath
<1>10. QED BY <1>4, <1>7, <1>8, <1>9 DEF e

-----------------------------------------------------------------------------
(* What parsePath finds at the places of the layout, and where it finds it *)

\* Front and Last of a sequence that is not empty.
LEMMA FrontLast ==
  ASSUME NEW S, NEW s \in Seq(S), s # <<>>
  PROVE  /\ Front(s) \in Seq(S) /\ Last(s) \in S
         /\ Len(Front(s)) = Len(s) - 1
         /\ Front(s) \o <<Last(s)>> = s
         /\ \A i \in 1..(Len(s) - 1) : Front(s)[i] = s[i]
<1>. DEFINE n == Len(s)
            b == SubSeq(s, n + 1, Len(s))
<1>1. n \in Nat /\ n # 0 /\ n \in 1..Len(s) OBVIOUS
<1>. HIDE DEF n
<1>2. /\ SubSeq(s, 1, n - 1) \in Seq(S) /\ Len(SubSeq(s, 1, n - 1)) = n - 1
      /\ b \in Seq(S) /\ Len(b) = Len(s) - n
      /\ s = Join(SubSeq(s, 1, n - 1), s[n], b)
  BY <1>1, Split
<1>3. b = <<>> BY <1>1, <1>2 DEF n
<1>4. Front(s) = SubSeq(s, 1, n - 1) /\ Last(s) = s[n] BY DEF Front, Last, n
<1>. HIDE DEF b
<1>5. s[n] \in S BY <1>1
<1>6. Front(s) \in Seq(S) /\ Last(s) \in S /\ Len(Front(s)) = Len(s) - 1
  BY <1>1, <1>2, <1>4, <1>5 DEF n
<1>7. Front(s) \o <<Last(s)>> \in Seq(S) BY <1>6
<1>8. s = Front(s) \o <<Last(s)>>
  <2>1. (Front(s) \o <<Last(s)>>) \o <<>> = Front(s) \o <<Last(s)>> BY <1>7, ConcatEmptySeq
  <2>2. QED BY <1>2, <1>3, <1>4, <2>1 DEF Join
<1>9. \A i \in 1..(Len(s) - 1) : Front(s)[i] = s[i] BY <1>1, <1>6, <1>8
<1>10. QED BY <1>6, <1>8, <1>9

\* What parseModVersion makes of an escaped path and version can be escaped back.
LEMMA ParsedModVersion ==
  ASSUME NEW m \in Seq(Seq(Piece)), NEW v \in Seq(Piece), NEW mv, mv = ParseModVersion(m, v), mv # None
  PROVE  /\ ValidPath(m) /\ ValidVersion(v)
         /\ mv = [mod |-> UnescapePath(m), ver |-> UnescapeAll(v)]
         /\ m \in Seq(Name) /\ m # <<>> /\ EscapePath(mv.mod) = m /\ EscapeAll(mv.ver) = v
<1>1. ValidPath(m) /\ ValidVersion(v) /\ mv = [mod |-> UnescapePath(m), ver |-> UnescapeAll(v)]
  BY DEF ParseModVersion
<1>2. m \in Seq(Name) /\ m # <<>> /\ EscapePath(mv.mod) = m BY <1>1, UnescapedPath
<1>3. Range(v) \cap Invalid = {} BY <1>1 DEF ValidVersion
<1>4. EscapeAll(mv.ver) = v BY <1>1, <1>3, UnescapedName
<1>5. QED BY <1>1, <1>2, <1>4

\* A module version is got back from its escaped path and version.
LEMMA ModVersionOf ==
  ASSUME NEW mv \in DOMAIN Files \ Toolchains
  PROVE  /\ ParseModVersion(EscapePath(mv.mod), EscapeAll(mv.ver)) = mv /\ mv # None
         /\ EscapePath(mv.mod) \in Seq(Name) /\ EscapePath(mv.mod) # <<>>
         /\ EscapeAll(mv.ver) \in Seq(Piece) /\ Len(EscapeAll(mv.ver)) # 0
         /\ \A i \in 1..Len(EscapePath(mv.mod)) : ~Contains(EscapePath(mv.mod)[i], "@")
<1>. DEFINE m == EscapePath(mv.mod)
            v == EscapeAll(mv.ver)
<1>1. mv \in [mod : Seq(Name), ver : Name] BY FilesAssumption
<1>2. /\ \A n \in Range(mv.mod) \cup {mv.ver} : Range(n) \cap DOMAIN Unescaped = {}
      /\ ValidPath(m) /\ ValidVersion(v)
  BY ModulesAssumption
<1>3. mv.mod \in Seq(Name) /\ mv.ver \in Seq(Piece) /\ Len(mv.ver) # 0 /\ mv.ver # <<>> BY <1>1 DEF Name
<1>4. UnescapePath(m) = mv.mod /\ m \in Seq(Name) BY <1>2, <1>3, EscapedPath
<1>5. UnescapeAll(v) = mv.ver /\ v \in Seq(Piece) /\ Len(v) = Len(mv.ver)
  <2>1. Range(mv.ver) \cap DOMAIN Unescaped = {} BY <1>2
  <2>2. QED BY <1>3, <2>1, EscapedName
<1>. HIDE DEF m, v
<1>6. ParseModVersion(m, v) = [mod |-> mv.mod, ver |-> mv.ver] BY <1>2, <1>4, <1>5 DEF ParseModVersion
<1>7. mv = [mod |-> mv.mod, ver |-> mv.ver] BY <1>1
<1>8. mv # None BY <1>3 DEF None
<1>9. m # <<>> /\ \A i \in 1..Len(m) : ~Contains(m[i], "@") BY <1>2, <1>4 DEF ValidPath
<1>10. QED BY <1>3, <1>4, <1>5, <1>6, <1>7, <1>8, <1>9 DEF m, v

\* The pieces that the code cuts at.
LEMMA Separators == "@" \in Piece /\ "." \in Piece /\ "-" \in Piece /\ "tsgo-" \in Piece
BY NamesAssumption

\* A path that is cut at the first @, and what it is cut into.
ZipPath(a, c, v, b) == Join(a, Join(c, "@", v), b)
IsZipPath(a, c, v, b) ==
  /\ a \in Seq(Name) /\ c \in Seq(Piece) /\ v \in Seq(Piece) /\ b \in Seq(Name)
  /\ \A i \in 1..Len(a) : ~Contains(a[i], "@")
  /\ ~Contains(c, "@")

LEMMA ZipPathNames ==
  ASSUME NEW a, NEW c, NEW v, NEW b, IsZipPath(a, c, v, b)
  PROVE  /\ Join(c, "@", v) \in Name /\ Contains(Join(c, "@", v), "@")
         /\ CutAt(Join(c, "@", v), "@") = <<c, v>>
         /\ ZipPath(a, c, v, b) \in Seq(Name)
         /\ Joined(ZipPath(a, c, v, b), a, Join(c, "@", v), b)
         /\ \E i \in DOMAIN ZipPath(a, c, v, b) : Contains(ZipPath(a, c, v, b)[i], "@")
<1>. DEFINE n == Join(c, "@", v)
            p == ZipPath(a, c, v, b)
<1>1. /\ a \in Seq(Name) /\ c \in Seq(Piece) /\ v \in Seq(Piece) /\ b \in Seq(Name)
      /\ \A i \in 1..Len(a) : ~Contains(a[i], "@")
      /\ ~Contains(c, "@")
  BY DEF IsZipPath
<1>2. n \in Seq(Piece) /\ Joined(n, c, "@", v) BY <1>1, Separators, JoinPlaces
<1>3. CutAt(n, "@") = <<c, v>> /\ Contains(n, "@") BY <1>1, Separators, CutOf
<1>4. n \in Name
  <2>. HIDE DEF n
  <2>1. Len(n) # 0 BY <1>1, <1>2 DEF Joined
  <2>2. QED BY <1>2, <2>1 DEF Name
<1>. HIDE DEF n
<1>5. p = Join(a, n, b) BY DEF ZipPath, n
<1>6. p \in Seq(Name) /\ Joined(p, a, n, b) BY <1>1, <1>4, <1>5, JoinPlaces
<1>. HIDE DEF p
<1>7. Len(a) + 1 \in DOMAIN p /\ p[Len(a) + 1] = n BY <1>1, <1>6 DEF Joined
<1>8. QED BY <1>3, <1>4, <1>6, <1>7 DEF n, p

LEMMA ZipPathParsed ==
  ASSUME NEW a, NEW c, NEW v, NEW b, IsZipPath(a, c, v, b),
         NEW mv, mv = ParseModVersion(a \o <<c>>, v)
  PROVE  ParseZip(ZipPath(a, c, v, b)) = IF mv = None THEN Is("ENOENT") ELSE Obj("zip", mv, b)
<1>. DEFINE n == Join(c, "@", v)
            p == ZipPath(a, c, v, b)
            T == {j \in DOMAIN p : Contains(p[j], "@")}
            k == Len(a) + 1
<1>1. /\ a \in Seq(Name) /\ b \in Seq(Name) /\ Len(a) \in Nat /\ Len(b) \in Nat
      /\ \A i \in 1..Len(a) : ~Contains(a[i], "@")
  BY DEF IsZipPath
<1>2. n \in Name /\ Contains(n, "@") /\ CutAt(n, "@") = <<c, v>> BY ZipPathNames
<1>3. p \in Seq(Name) /\ Joined(p, a, n, b) BY ZipPathNames
<1>4. SubSeq(p, 1, Len(a)) = a /\ SubSeq(p, Len(a) + 2, Len(p)) = b
  <2>1. p = Join(a, n, b) BY DEF ZipPath
  <2>. HIDE DEF p, n
  <2>2. QED BY <1>1, <1>2, <2>1, JoinParts
<1>. HIDE DEF n, p
<1>5. /\ DOMAIN p = 1..Len(p) /\ Len(p) \in Nat /\ Len(p) = Len(a) + 1 + Len(b)
      /\ \A i \in 1..Len(a) : p[i] = a[i]
      /\ p[k] = n
  BY <1>3 DEF Joined
<1>6. k \in T /\ (\A y \in T : k <= y) /\ T \subseteq Nat BY <1>1, <1>2, <1>5
<1>. HIDE DEF T, k
<1>7. Min(T) = k BY <1>6, MinIs
<1>8. k - 1 = Len(a) /\ k + 1 = Len(a) + 2 BY <1>1 DEF k
<1>9. CutAt(p[Min(T)], "@") = <<c, v>> BY <1>2, <1>5, <1>7
<1>10. SubSeq(p, 1, Min(T) - 1) = a /\ SubSeq(p, Min(T) + 1, Len(p)) = b BY <1>4, <1>7, <1>8
<1>11. ParseModVersion(SubSeq(p, 1, Min(T) - 1) \o <<CutAt(p[Min(T)], "@")[1]>>, CutAt(p[Min(T)], "@")[2]) = mv
  <2>1. CutAt(p[Min(T)], "@")[1] = c /\ CutAt(p[Min(T)], "@")[2] = v BY <1>9
  <2>2. QED BY <1>10, <2>1, Zenon
<1>12. ParseZip(p) = IF mv = None THEN Is("ENOENT") ELSE Obj("zip", mv, b) BY <1>10, <1>11 DEF ParseZip, T
<1>13. QED BY <1>12 DEF p

LEMMA ZipPathParts ==
  ASSUME NEW p \in Seq(Name), \E i \in DOMAIN p : Contains(p[i], "@")
  PROVE  \E a, c, v, b : IsZipPath(a, c, v, b) /\ p = ZipPath(a, c, v, b)
<1>. DEFINE T == {j \in DOMAIN p : Contains(p[j], "@")}
            k == Min(T)
            a == SubSeq(p, 1, k - 1)
            b == SubSeq(p, k + 1, Len(p))
<1>1. DOMAIN p = 1..Len(p) /\ Len(p) \in Nat OBVIOUS
<1>2. T # {} /\ T \subseteq Nat BY <1>1
<1>3. k \in T /\ \A y \in T : k <= y
  <2>. HIDE DEF T
  <2>1. QED BY <1>2, MinIsLeast
<1>. HIDE DEF k
<1>4. k \in 1..Len(p) /\ Contains(p[k], "@") /\ p[k] \in Name /\ p[k] \in Seq(Piece) BY <1>1, <1>3 DEF Name
<1>5. a \in Seq(Name) /\ Len(a) = k - 1 /\ b \in Seq(Name) /\ p = Join(a, p[k], b) BY <1>4, Split
<1>6. PICK c \in Seq(Piece), v \in Seq(Piece) : p[k] = Join(c, "@", v) /\ ~Contains(c, "@")
  BY <1>4, CutParts
<1>. HIDE DEF a, b
<1>7. ASSUME NEW i \in 1..Len(a) PROVE ~Contains(a[i], "@")
  <2>1. Joined(p, a, p[k], b) BY <1>4, <1>5, JoinPlaces
  <2>2. p[i] = a[i] BY <2>1 DEF Joined
  <2>3. i < k /\ i \in 1..Len(p) BY <1>1, <1>4, <1>5
  <2>4. i \notin T BY <1>3, <1>4, <2>3
  <2>5. QED BY <1>1, <2>2, <2>3, <2>4
<1>8. IsZipPath(a, c, v, b) BY <1>5, <1>6, <1>7 DEF IsZipPath
<1>9. p = ZipPath(a, c, v, b) BY <1>5, <1>6 DEF ZipPath
<1>10. QED BY <1>8, <1>9

\* The names of the code that have no @.
LEMMA NamesWithoutAt ==
  /\ cache \in Name /\ download \in Name /\ statusFile \in Name /\ atV \in Name
  /\ ~Contains(cache, "@") /\ ~Contains(download, "@") /\ ~Contains(statusFile, "@") /\ Contains(atV, "@")
  /\ cache[1] # "tsgo-" /\ statusFile[1] = "." /\ atV[1] # "."
<1>1. cache \in Name /\ download \in Name BY NamesAssumption DEF cache, download, Name
<1>2. statusFile \in Name BY NamesAssumption DEF statusFile, Name
<1>3. atV \in Name BY NamesAssumption DEF atV, Name
<1>4. ~Contains(cache, "@") /\ ~Contains(download, "@") BY DEF cache, download, Contains
<1>5. ~Contains(statusFile, "@") BY DEF statusFile, Contains
<1>6. Contains(atV, "@") BY DEF atV, Contains
<1>7. cache[1] # "tsgo-" /\ statusFile[1] = "." /\ atV[1] # "." BY DEF cache, statusFile, atV
<1>8. QED BY <1>1, <1>2, <1>3, <1>4, <1>5, <1>6, <1>7

\* The first name of a path that is cut at an @.
LEMMA ZipPathFirst ==
  ASSUME NEW a, NEW c, NEW v, NEW b, IsZipPath(a, c, v, b)
  PROVE  /\ a # <<>> => ZipPath(a, c, v, b)[1] = a[1]
         /\ a = <<>> => /\ Contains(ZipPath(a, c, v, b)[1], "@")
                        /\ c # <<>> => ZipPath(a, c, v, b)[1][1] = c[1]
<1>. DEFINE n == Join(c, "@", v)
            p == ZipPath(a, c, v, b)
<1>1. a \in Seq(Name) /\ c \in Seq(Piece) /\ v \in Seq(Piece) BY DEF IsZipPath
<1>2. Joined(p, a, n, b) /\ Contains(n, "@") BY ZipPathNames
<1>3. Joined(n, c, "@", v) BY <1>1, Separators, JoinPlaces
<1>. HIDE DEF n, p
<1>4. a # <<>> => p[1] = a[1] BY <1>1, <1>2 DEF Joined
<1>5. a = <<>> => p[1] = n
  <2>1. a = <<>> => Len(a) + 1 = 1 OBVIOUS
  <2>2. QED BY <1>2, <2>1 DEF Joined
<1>6. c # <<>> => n[1] = c[1] BY <1>1, <1>3 DEF Joined
<1>7. QED BY <1>2, <1>4, <1>5, <1>6 DEF p

\* parsePath cuts a path with an @ there, unless it is one of a toolchain or under
\* cache/download.
LEMMA ParsedZipPath ==
  ASSUME NEW p \in Seq(Name), \E i \in DOMAIN p : Contains(p[i], "@"), ~IsTSGo(p),
         ~(Len(p) > 2 /\ SubSeq(p, 1, 2) = <<cache, download>>)
  PROVE  Parsed(p) = ParseZip(p)
<1>1. p # <<statusFile>> BY NamesWithoutAt
<1>2. QED BY <1>1 DEF Parsed, ParsePath

\* The first two names of a path.
LEMMA FirstTwo ==
  ASSUME NEW p \in Seq(Name), Len(p) >= 2
  PROVE  SubSeq(p, 1, 2) = <<p[1], p[2]>>
<1>1. 1 \in 1..(Len(p) + 1) /\ 2 \in 0..Len(p) /\ 1 <= 2 + 1 /\ 2 - 1 + 1 = 2 OBVIOUS
<1>2. /\ SubSeq(p, 1, 2) \in Seq(Name)
      /\ Len(SubSeq(p, 1, 2)) = 2 - 1 + 1
      /\ \A i \in 1..(2 - 1 + 1) : SubSeq(p, 1, 2)[i] = p[1 + i - 1]
  BY <1>1, PartPlaces
<1>3. Len(SubSeq(p, 1, 2)) = 2 /\ SubSeq(p, 1, 2)[1] = p[1] /\ SubSeq(p, 1, 2)[2] = p[2] BY <1>2
<1>. DEFINE s == SubSeq(p, 1, 2)
            t == <<p[1], p[2]>>
<1>4. t \in Seq(Name) /\ Len(t) = 2 /\ t[1] = p[1] /\ t[2] = p[2] OBVIOUS
<1>5. s \in Seq(Name) /\ Len(s) = 2 /\ s[1] = p[1] /\ s[2] = p[2] BY <1>2, <1>3
<1>. HIDE DEF s, t
<1>6. s = t BY <1>4, <1>5, SameSeq
<1>7. QED BY <1>6 DEF s, t

\* What parsePath makes of a path in a module is that path in that module.
LEMMA ModulePath ==
  ASSUME NEW mv \in DOMAIN Files \ Toolchains, NEW q \in Seq(Name)
  PROVE  /\ ModuleDir(mv) \o q \in Seq(Name) /\ ~IsTSGo(ModuleDir(mv) \o q)
         /\ Parsed(ModuleDir(mv) \o q) = Obj("zip", mv, q)
         /\ (ModuleDir(mv) \o q)[1] # cache
<1>. DEFINE m == EscapePath(mv.mod)
            v == EscapeAll(mv.ver)
            a == Front(m)
            c == Last(m)
            p == ZipPath(a, c, v, q)
<1>1. /\ ParseModVersion(m, v) = mv /\ mv # None
      /\ m \in Seq(Name) /\ m # <<>> /\ v \in Seq(Piece)
      /\ \A i \in 1..Len(m) : ~Contains(m[i], "@")
  BY ModVersionOf
<1>2. m[1] # cache /\ m[1][1] # "tsgo-" BY ModulesAssumption
<1>3. ModuleDir(mv) \o q = p BY DEF ModuleDir, ZipPath, Join
<1>. HIDE DEF m, v
<1>4. /\ a \in Seq(Name) /\ c \in Name
      /\ Len(a) = Len(m) - 1
      /\ a \o <<c>> = m
      /\ \A i \in 1..(Len(m) - 1) : a[i] = m[i]
  BY <1>1, FrontLast
<1>5. Len(m) \in Nat /\ Len(m) # 0 /\ c = m[Len(m)] BY <1>1 DEF Last
<1>. HIDE DEF a, c
<1>6. IsZipPath(a, c, v, q) BY <1>1, <1>4, <1>5 DEF IsZipPath, Name
<1>7. c # <<>> BY <1>4 DEF Name
<1>8. ParseZip(p) = Obj("zip", mv, q)
  <2>1. mv = ParseModVersion(a \o <<c>>, v) BY <1>1, <1>4
  <2>2. ParseZip(p) = IF mv = None THEN Is("ENOENT") ELSE Obj("zip", mv, q) BY <1>6, <2>1, ZipPathParsed
  <2>3. QED BY <1>1, <2>2
<1>9. p \in Seq(Name) /\ \E i \in DOMAIN p : Contains(p[i], "@") BY <1>6, ZipPathNames
<1>10. p[1] # cache /\ p[1][1] # "tsgo-"
  <2>1. CASE a = <<>>
    <3>1. Len(m) = 1 /\ c = m[1] BY <1>4, <1>5, <2>1
    <3>2. QED BY <1>2, <1>6, <1>7, <2>1, <3>1, ZipPathFirst, NamesWithoutAt
  <2>2. CASE a # <<>>
    <3>1. a[1] = m[1] BY <1>4, <1>5, <2>2
    <3>2. QED BY <1>2, <1>6, <2>2, <3>1, ZipPathFirst
  <2>3. QED BY <2>1, <2>2
<1>. HIDE DEF p
<1>11. ~IsTSGo(p) BY <1>10 DEF IsTSGo
<1>12. ~(Len(p) > 2 /\ SubSeq(p, 1, 2) = <<cache, download>>) BY <1>9, <1>10, FirstTwo
<1>13. Parsed(p) = Obj("zip", mv, q) BY <1>8, <1>9, <1>11, <1>12, ParsedZipPath
<1>14. QED BY <1>3, <1>9, <1>10, <1>11, <1>13

\* A name with an extension, and what is left without it.
LEMMA ExtOf ==
  ASSUME NEW v \in Seq(Piece), v # <<>>, NEW e \in Piece
  PROVE  /\ v \o <<".", e>> \in Name /\ (v \o <<".", e>>)[1] = v[1]
         /\ Len(v \o <<".", e>>) = Len(v) + 2
         /\ Ext(v \o <<".", e>>) = e /\ TrimExt(v \o <<".", e>>) = v
<1>. DEFINE n == v \o <<".", e>>
            k == Len(v)
<1>1. k \in Nat /\ k # 0 /\ <<".", e>> \in Seq(Piece) /\ Len(<<".", e>>) = 2 BY Separators
<1>2. /\ n \in Seq(Piece) /\ Len(n) = k + 2
      /\ \A i \in 1..(k + 2) : n[i] = IF i <= k THEN v[i] ELSE <<".", e>>[i - k]
  BY <1>1, ConcatProperties
<1>. HIDE DEF n
<1>3. n[k + 1] = "." /\ n[k + 2] = e /\ \A i \in 1..k : n[i] = v[i]
  <2>1. k + 1 \in 1..(k + 2) /\ ~(k + 1 <= k) /\ (k + 1) - k = 1 BY <1>1
  <2>2. k + 2 \in 1..(k + 2) /\ ~(k + 2 <= k) /\ (k + 2) - k = 2 BY <1>1
  <2>3. \A i \in 1..k : i \in 1..(k + 2) /\ i <= k BY <1>1
  <2>. HIDE DEF k
  <2>4. n[k + 1] = <<".", e>>[1] /\ n[k + 2] = <<".", e>>[2] BY <1>2, <2>1, <2>2
  <2>5. \A i \in 1..k : n[i] = v[i] BY <1>2, <2>3
  <2>6. QED BY <2>4, <2>5
<1>4. Len(n) - 1 = k + 1 /\ Len(n) > 2 /\ Len(n) - 2 = k BY <1>1, <1>2
<1>5. Ext(n) = e BY <1>2, <1>3, <1>4 DEF Ext, Last
<1>6. TrimExt(n) = v
  <2>1. 1 \in 1..(Len(n) + 1) /\ k \in 0..Len(n) /\ 1 <= k + 1 /\ k - 1 + 1 = k BY <1>1, <1>2
  <2>2. \A i \in 1..k : 1 + i - 1 = i OBVIOUS
  <2>. HIDE DEF k
  <2>3. /\ SubSeq(n, 1, k) \in Seq(Piece)
        /\ Len(SubSeq(n, 1, k)) = k - 1 + 1
        /\ \A i \in 1..(k - 1 + 1) : SubSeq(n, 1, k)[i] = n[1 + i - 1]
    BY <1>2, <2>1, PartPlaces
  <2>4. \A i \in 1..k : SubSeq(n, 1, k)[i] = v[i] BY <1>3, <2>1, <2>2, <2>3
  <2>5. SubSeq(n, 1, k) = v BY <2>1, <2>3, <2>4, SameSeq DEF k
  <2>6. QED BY <1>4, <2>5 DEF TrimExt
<1>7. n \in Name /\ n[1] = v[1] BY <1>1, <1>2, <1>3 DEF Name
<1>8. QED BY <1>2, <1>5, <1>6, <1>7 DEF n, k

\* A sequence and its last two elements.
LEMMA LastTwo ==
  ASSUME NEW S, NEW n \in Seq(S), Len(n) > 2
  PROVE  /\ SubSeq(n, 1, Len(n) - 2) \in Seq(S) /\ SubSeq(n, 1, Len(n) - 2) # <<>>
         /\ SubSeq(n, 1, Len(n) - 2)[1] = n[1]
         /\ n = SubSeq(n, 1, Len(n) - 2) \o <<n[Len(n) - 1], n[Len(n)]>>
<1>. DEFINE k == Len(n) - 2
            t == SubSeq(n, 1, k)
            x == n[Len(n) - 1]
            y == n[Len(n)]
<1>1. Len(n) \in Nat /\ x \in S /\ y \in S OBVIOUS
<1>2. k \in Nat /\ k # 0 /\ Len(n) = k + 2 /\ x = n[k + 1] /\ y = n[k + 2] BY <1>1
<1>. HIDE DEF k, x, y
<1>3. t \in Seq(S) /\ Len(t) = k /\ \A i \in 1..k : t[i] = n[i]
  <2>1. 1 \in 1..(Len(n) + 1) /\ k \in 0..Len(n) /\ 1 <= k + 1 /\ k - 1 + 1 = k BY <1>1, <1>2
  <2>2. \A i \in 1..k : 1 + i - 1 = i BY <1>2
  <2>3. /\ SubSeq(n, 1, k) \in Seq(S)
        /\ Len(SubSeq(n, 1, k)) = k - 1 + 1
        /\ \A i \in 1..(k - 1 + 1) : SubSeq(n, 1, k)[i] = n[1 + i - 1]
    BY <2>1, PartPlaces
  <2>4. QED BY <2>1, <2>2, <2>3
<1>. HIDE DEF t
<1>. DEFINE e == <<x, y>>
<1>4. e \in Seq(S) /\ Len(e) = 2 /\ e[1] = x /\ e[2] = y BY <1>1
<1>. HIDE DEF e
<1>5. /\ t \o e \in Seq(S) /\ Len(t \o e) = k + 2
      /\ \A i \in 1..(k + 2) : (t \o e)[i] = IF i <= k THEN t[i] ELSE e[i - k]
  <2>1. /\ t \o e \in Seq(S) /\ Len(t \o e) = Len(t) + Len(e)
        /\ \A i \in 1..(Len(t) + Len(e)) : (t \o e)[i] = IF i <= Len(t) THEN t[i] ELSE e[i - Len(t)]
    BY <1>3, <1>4, ConcatProperties
  <2>2. QED BY <1>3, <1>4, <2>1
<1>6. ASSUME NEW i \in 1..(k + 2) PROVE n[i] = (t \o e)[i]
  <2>1. CASE i <= k BY <1>2, <1>3, <1>5, <2>1
  <2>2. CASE i = k + 1
    <3>1. ~(i <= k) /\ i - k = 1 BY <1>2, <2>2
    <3>2. QED BY <1>2, <1>4, <1>5, <2>2, <3>1
  <2>3. CASE i = k + 2
    <3>1. ~(i <= k) /\ i - k = 2 BY <1>2, <2>3
    <3>2. QED BY <1>2, <1>4, <1>5, <2>3, <3>1
  <2>4. i <= k \/ i = k + 1 \/ i = k + 2 BY <1>2
  <2>5. QED BY <2>1, <2>2, <2>3, <2>4
<1>7. n = t \o e BY <1>2, <1>5, <1>6, SameSeq
<1>8. t # <<>> /\ t[1] = n[1] BY <1>2, <1>3
<1>9. QED BY <1>3, <1>7, <1>8 DEF e, t, k, x, y

HasExt(n) == Ext(n) # ""

LEMMA ExtParts ==
  ASSUME NEW n \in Seq(Piece), HasExt(n)
  PROVE  /\ TrimExt(n) \in Seq(Piece) /\ TrimExt(n) # <<>> /\ TrimExt(n)[1] = n[1]
         /\ n = TrimExt(n) \o <<".", Ext(n)>>
<1>1. Len(n) > 2 /\ n[Len(n) - 1] = "." /\ Ext(n) = n[Len(n)] BY Zenon DEF HasExt, Ext, Last
<1>2. /\ SubSeq(n, 1, Len(n) - 2) \in Seq(Piece) /\ SubSeq(n, 1, Len(n) - 2) # <<>>
      /\ SubSeq(n, 1, Len(n) - 2)[1] = n[1]
      /\ n = SubSeq(n, 1, Len(n) - 2) \o <<n[Len(n) - 1], n[Len(n)]>>
  BY <1>1, LastTwo
<1>3. QED BY <1>1, <1>2, Zenon DEF TrimExt

\* The name of a platform's directory, and what it is cut into.
PlatformName(o) == <<"tsgo-", o[1], "-", o[2]>>

LEMMA PlatformCut ==
  ASSUME NEW o \in Platforms
  PROVE  /\ PlatformName(o) \in Name /\ PlatformName(o)[1] = "tsgo-" /\ Len(PlatformName(o)) = 4
         /\ CutAt(Tail(PlatformName(o)), "-") = <<<<o[1]>>, <<o[2]>>>>
<1>1. o[1] \in Piece /\ o[1] # "-" /\ o[2] \in Piece BY ToolchainsAssumption
<1>. DEFINE n == PlatformName(o)
            j == Join(<<o[1]>>, "-", <<o[2]>>)
<1>2. n \in Seq(Piece) /\ Len(n) = 4 /\ n[1] = "tsgo-" BY <1>1, Separators DEF PlatformName
<1>3. Tail(n) = j BY <1>1 DEF PlatformName, Join
<1>4. <<o[1]>> \in Seq(Piece) /\ <<o[2]>> \in Seq(Piece) /\ ~Contains(<<o[1]>>, "-") BY <1>1 DEF Contains
<1>5. CutAt(j, "-") = <<<<o[1]>>, <<o[2]>>>> BY <1>4, Separators, CutOf
<1>6. n \in Name
  <2>. HIDE DEF n
  <2>1. n # <<>> BY <1>2
  <2>2. QED BY <1>2, <2>1 DEF Name
<1>. HIDE DEF n
<1>7. CutAt(Tail(n), "-") = <<<<o[1]>>, <<o[2]>>>> BY <1>3, <1>5, Zenon
<1>8. QED BY <1>2, <1>6, <1>7, Zenon DEF n

\* A name that is cut into two pieces after its first.
LEMMA CutInTwo ==
  ASSUME NEW S, NEW n \in Seq(S), n # <<>>, NEW x, n[1] = x, NEW sep, NEW u, NEW w,
         CutAt(Tail(n), sep) = <<<<u>>, <<w>>>>
  PROVE  n = <<x, u, sep, w>>
<1>. DEFINE t == Tail(n)
<1>1. Len(n) \in Nat /\ \A i \in 1..Len(n) : n[i] \in S OBVIOUS
<1>2. t \in Seq(S) /\ Len(t) = Len(n) - 1 /\ \A i \in 1..Len(t) : t[i] = n[i + 1] OBVIOUS
<1>. HIDE DEF t
<1>3. Contains(t, sep)
  <2>1. SUFFICES ASSUME ~Contains(t, sep) PROVE FALSE OBVIOUS
  <2>2. CutAt(t, sep) = <<t>> BY <1>2, <2>1, NoCut
  <2>3. <<t>> = <<<<u>>, <<w>>>> BY <2>2 DEF t
  <2>4. QED BY <2>3
<1>4. PICK a \in Seq(S), b \in Seq(S) : t = Join(a, sep, b) /\ CutAt(t, sep) = <<a, b>>
  BY <1>2, <1>3, CutParts
<1>5. a = <<u>> /\ b = <<w>> BY <1>4 DEF t
<1>6. sep \in S BY <1>2, <1>3 DEF Contains
<1>7. Joined(t, a, sep, b) BY <1>4, <1>6, JoinPlaces
<1>8. Len(t) = 3 /\ t[1] = u /\ t[2] = sep /\ t[3] = w
  <2>1. Len(a) = 1 /\ Len(b) = 1 /\ a[1] = u /\ b[1] = w BY <1>5
  <2>2. Len(t) = 1 + 1 + 1 /\ t[1] = a[1] /\ t[1 + 1] = sep /\ t[1 + 1 + 1] = b[1] BY <1>7, <2>1 DEF Joined
  <2>3. QED BY <2>1, <2>2
<1>9. Len(n) = 4
  <2>1. Len(n) - 1 = 3 BY <1>2, <1>8
  <2>2. QED BY ONLY <1>1, <2>1
<1>10. n[2] = u /\ n[3] = sep /\ n[4] = w
  <2>1. t[1] = n[1 + 1] /\ t[2] = n[2 + 1] /\ t[3] = n[3 + 1] BY <1>2, <1>8
  <2>2. QED BY <1>8, <2>1
<1>. DEFINE s == <<x, u, sep, w>>
<1>11. x \in S /\ u \in S /\ sep \in S /\ w \in S
  <2>1. \A i \in 1..4 : n[i] \in S BY ONLY <1>1, <1>9
  <2>2. n[1] \in S /\ n[2] \in S /\ n[3] \in S /\ n[4] \in S BY <2>1
  <2>3. QED BY <1>10, <2>2
<1>12. s \in Seq(S) /\ Len(s) = 4 /\ s[1] = x /\ s[2] = u /\ s[3] = sep /\ s[4] = w BY <1>11
<1>. HIDE DEF s
<1>13. \A i \in 1..4 : n[i] = s[i] BY <1>10, <1>12
<1>14. n = s BY <1>9, <1>12, <1>13, SameSeq
<1>15. QED BY <1>14 DEF s

LEMMA PlatformOfCut ==
  ASSUME NEW n \in Name, n[1] = "tsgo-", NEW o \in Platforms, CutAt(Tail(n), "-") = <<<<o[1]>>, <<o[2]>>>>
  PROVE  n = PlatformName(o)
<1>1. n \in Seq(Piece) /\ n # <<>> BY DEF Name
<1>2. QED BY <1>1, CutInTwo DEF PlatformName

\* The version of a toolchain.
TSGo(o, h) == [mod |-> TailscaleGo, ver |-> TSGoVersion(o[1], o[2], h)]

LEMMA ToolchainParsed ==
  ASSUME NEW o \in Platforms, NEW h \in Hashes, NEW p \in Seq(Name), Len(p) >= 2, p[1] = PlatformName(o)
  PROVE  /\ IsTSGo(p)
         /\ p[2] = <<h>> => ParseTSGoPath(p) = Obj("zip", TSGo(o, h), SubSeq(p, 3, Len(p)))
         /\ p[2] = <<h, ".", "extracted">> => ParseTSGoPath(p) = Obj("extracted", TSGo(o, h), <<>>)
<1>. DEFINE platform == CutAt(Tail(p[1]), "-")
<1>1. platform = <<<<o[1]>>, <<o[2]>>>> BY PlatformCut
<1>2. p[1][1] = "tsgo-" BY PlatformCut
<1>3. IsTSGo(p)
  <2>1. p # <<>> OBVIOUS
  <2>2. QED BY <1>2, <2>1, Zenon DEF IsTSGo
<1>4. IsPlatform(platform) BY <1>1, Zenon DEF IsPlatform
<1>5. Len(platform) = 2 /\ platform[1][1] = o[1] /\ platform[2][1] = o[2] BY <1>1
<1>. HIDE DEF platform
<1>6. Len(p) # 1 /\ Len(platform) # 1
  <2>1. \A n : n >= 2 => n # 1 OBVIOUS
  <2>2. Len(p) # 1 BY <2>1
  <2>3. QED BY <1>5, <2>2
<1>7. ASSUME p[2] = <<h>> PROVE ParseTSGoPath(p) = Obj("zip", TSGo(o, h), SubSeq(p, 3, Len(p)))
  <2>1. ~(Len(p[2]) > 2) /\ Len(p[2]) = 1 /\ p[2][1] = h BY <1>7
  <2>2. Ext(p[2]) # "extracted" BY <2>1 DEF Ext
  <2>3. QED BY <1>4, <1>5, <1>6, <2>1, <2>2 DEF ParseTSGoPath, platform, TSGo
<1>8. ASSUME p[2] = <<h, ".", "extracted">> PROVE ParseTSGoPath(p) = Obj("extracted", TSGo(o, h), <<>>)
  <2>1. <<h>> \in Seq(Piece) /\ <<h>> # <<>> /\ "extracted" \in Piece BY ToolchainsAssumption, NamesAssumption
  <2>2. p[2] = <<h>> \o <<".", "extracted">> BY <1>8
  <2>3. Ext(p[2]) = "extracted" /\ TrimExt(p[2]) = <<h>> BY <2>1, <2>2, ExtOf
  <2>4. Len(<<h>>) = 1 /\ <<h>>[1] = h OBVIOUS
  <2>5. QED BY <1>4, <1>5, <1>6, <2>3, <2>4 DEF ParseTSGoPath, platform, TSGo
<1>9. QED BY <1>3, <1>7, <1>8

\* parseTSGoPath finds nothing else.
LEMMA ToolchainFound ==
  ASSUME NEW p \in Seq(Name), IsTSGo(p), NEW gm, gm = ParseTSGoPath(p), gm.kind \in {"zip", "extracted"}
  PROVE  \E o \in Platforms, h \in Hashes :
           /\ Len(p) >= 2 /\ p[1] = PlatformName(o)
           /\ \/ p[2] = <<h>> /\ gm = Obj("zip", TSGo(o, h), SubSeq(p, 3, Len(p)))
              \/ p[2] = <<h, ".", "extracted">> /\ gm = Obj("extracted", TSGo(o, h), <<>>)
<1>. DEFINE platform == CutAt(Tail(p[1]), "-")
            extracted == Ext(p[2]) = "extracted"
            hash == IF extracted THEN TrimExt(p[2]) ELSE p[2]
<1>1. /\ Len(p) # 1 /\ IsPlatform(platform) /\ Len(hash) = 1 /\ hash[1] \in Hashes
      /\ gm = IF extracted
                THEN Obj("extracted", [mod |-> TailscaleGo, ver |-> TSGoVersion(platform[1][1], platform[2][1], hash[1])], <<>>)
                ELSE Obj("zip", [mod |-> TailscaleGo, ver |-> TSGoVersion(platform[1][1], platform[2][1], hash[1])],
                         SubSeq(p, 3, Len(p)))
  BY DEF ParseTSGoPath, Is, Obj
<1>2. p # <<>> /\ p[1][1] = "tsgo-" /\ Len(p) \in Nat /\ p[1] \in Name BY DEF IsTSGo
<1>3. Len(p) >= 2 /\ p[2] \in Name /\ p[2] \in Seq(Piece)
  <2>1. Len(p) # 0 BY <1>2
  <2>2. \A n \in Nat : n # 0 /\ n # 1 => n >= 2 /\ 2 \in 1..n OBVIOUS
  <2>3. Len(p) >= 2 /\ 2 \in 1..Len(p) BY <1>1, <1>2, <2>1, <2>2
  <2>4. QED BY <2>3 DEF Name
<1>4. PICK o \in Platforms : platform = <<<<o[1]>>, <<o[2]>>>> BY <1>1 DEF IsPlatform
<1>5. p[1] = PlatformName(o) BY <1>2, <1>4, PlatformOfCut
<1>6. platform[1][1] = o[1] /\ platform[2][1] = o[2] BY <1>4
<1>. DEFINE h == hash[1]
<1>7. h \in Hashes BY <1>1
<1>. HIDE DEF platform
<1>8. CASE extracted
  <2>1. HasExt(p[2]) BY <1>8 DEF HasExt
  <2>2. TrimExt(p[2]) \in Seq(Piece) /\ p[2] = TrimExt(p[2]) \o <<".", "extracted">> BY <1>3, <1>8, <2>1, ExtParts
  <2>3. Len(TrimExt(p[2])) = 1 /\ TrimExt(p[2])[1] = h BY <1>1, <1>8
  <2>4. TrimExt(p[2]) = <<h>> BY <2>2, <2>3
  <2>5. p[2] = <<h>> \o <<".", "extracted">> BY <2>2, <2>4
  <2>6. p[2] = <<h, ".", "extracted">> BY <2>5
  <2>7. gm = Obj("extracted", TSGo(o, h), <<>>) BY <1>1, <1>6, <1>8 DEF TSGo
  <2>8. QED BY <1>3, <1>5, <1>7, <2>6, <2>7
<1>9. CASE ~extracted
  <2>1. Len(p[2]) = 1 /\ p[2][1] = h BY <1>1, <1>9
  <2>2. p[2] = <<h>> BY <1>3, <2>1
  <2>3. gm = Obj("zip", TSGo(o, h), SubSeq(p, 3, Len(p))) BY <1>1, <1>6, <1>9 DEF TSGo
  <2>4. QED BY <1>3, <1>5, <1>7, <2>2, <2>3
<1>10. QED BY <1>8, <1>9

\* Two names and the rest of a path.
LEMMA TwoAndRest ==
  ASSUME NEW S, NEW x \in S, NEW y \in S, NEW q \in Seq(S)
  PROVE  /\ <<x, y>> \o q \in Seq(S) /\ Len(<<x, y>> \o q) = Len(q) + 2
         /\ (<<x, y>> \o q)[1] = x /\ (<<x, y>> \o q)[2] = y
         /\ \A i \in 1..Len(q) : (<<x, y>> \o q)[i + 2] = q[i]
         /\ SubSeq(<<x, y>> \o q, 3, Len(<<x, y>> \o q)) = q
<1>. DEFINE t == <<x, y>>
            s == t \o q
            k == Len(q)
<1>1. t \in Seq(S) /\ Len(t) = 2 /\ t[1] = x /\ t[2] = y /\ k \in Nat OBVIOUS
<1>. HIDE DEF t
<1>2. /\ s \in Seq(S) /\ Len(s) = Len(t) + Len(q)
      /\ \A i \in 1..(Len(t) + Len(q)) : s[i] = IF i <= Len(t) THEN t[i] ELSE q[i - Len(t)]
  BY <1>1, ConcatProperties
<1>. HIDE DEF s
<1>3. Len(s) = k + 2 /\ s[1] = x /\ s[2] = y
  <2>1. 1 \in 1..(2 + k) /\ 2 \in 1..(2 + k) BY <1>1
  <2>2. QED BY <1>1, <1>2, <2>1
<1>4. \A i \in 1..k : s[i + 2] = q[i]
  <2>1. SUFFICES ASSUME NEW i \in 1..k PROVE s[i + 2] = q[i] OBVIOUS
  <2>2. i + 2 \in 1..(2 + k) /\ ~(i + 2 <= 2) /\ i + 2 - 2 = i BY <1>1
  <2>3. QED BY <1>1, <1>2, <2>2
<1>5. SubSeq(s, 3, k + 2) = q
  <2>. DEFINE n == k + 2
  <2>1. 3 \in 1..(Len(s) + 1) /\ n \in 0..Len(s) /\ 3 <= n + 1 /\ n - 3 + 1 = k BY <1>1, <1>3
  <2>2. \A i \in 1..k : 3 + i - 1 = i + 2 BY <1>1
  <2>. HIDE DEF n
  <2>3. /\ SubSeq(s, 3, n) \in Seq(S)
        /\ Len(SubSeq(s, 3, n)) = n - 3 + 1
        /\ \A i \in 1..(n - 3 + 1) : SubSeq(s, 3, n)[i] = s[3 + i - 1]
    BY <1>2, <2>1, PartPlaces
  <2>4. Len(SubSeq(s, 3, n)) = k /\ \A i \in 1..k : SubSeq(s, 3, n)[i] = q[i] BY <1>4, <2>1, <2>2, <2>3
  <2>5. SubSeq(s, 3, n) = q BY <2>3, <2>4, SameSeq
  <2>6. QED BY <2>5 DEF n
<1>6. QED BY <1>2, <1>3, <1>4, <1>5 DEF s, t

LEMMA RestOfTwo ==
  ASSUME NEW S, NEW p \in Seq(S), Len(p) >= 2
  PROVE  SubSeq(p, 3, Len(p)) \in Seq(S) /\ p = <<p[1], p[2]>> \o SubSeq(p, 3, Len(p))
<1>. DEFINE n == Len(p)
            q == SubSeq(p, 3, n)
            s == <<p[1], p[2]>> \o q
<1>1. n \in Nat /\ n >= 2 /\ p[1] \in S /\ p[2] \in S OBVIOUS
<1>2. q \in Seq(S) /\ Len(q) = n - 2 /\ \A i \in 1..(n - 2) : q[i] = p[i + 2]
  <2>1. 3 \in 1..(Len(p) + 1) /\ n \in 0..Len(p) /\ 3 <= n + 1 /\ n - 3 + 1 = n - 2 BY <1>1
  <2>2. \A i \in 1..(n - 2) : 3 + i - 1 = i + 2 BY <1>1
  <2>. HIDE DEF n
  <2>3. /\ SubSeq(p, 3, n) \in Seq(S)
        /\ Len(SubSeq(p, 3, n)) = n - 3 + 1
        /\ \A i \in 1..(n - 3 + 1) : SubSeq(p, 3, n)[i] = p[3 + i - 1]
    BY <2>1, PartPlaces
  <2>4. QED BY <2>1, <2>2, <2>3
<1>. HIDE DEF q
<1>3. /\ s \in Seq(S) /\ Len(s) = Len(q) + 2
      /\ s[1] = p[1] /\ s[2] = p[2]
      /\ \A i \in 1..Len(q) : s[i + 2] = q[i]
  BY <1>1, <1>2, TwoAndRest
<1>. HIDE DEF s
<1>4. Len(s) = n BY <1>1, <1>2, <1>3
<1>5. ASSUME NEW i \in 1..n PROVE p[i] = s[i]
  <2>1. CASE i = 1 BY <1>3, <2>1
  <2>2. CASE i = 2 BY <1>3, <2>2
  <2>3. CASE i > 2
    <3>1. i - 2 \in 1..(n - 2) /\ (i - 2) + 2 = i BY <1>1, <2>3
    <3>2. QED BY <1>2, <1>3, <3>1
  <2>4. i = 1 \/ i = 2 \/ i > 2 BY <1>1
  <2>5. QED BY <2>1, <2>2, <2>3, <2>4
<1>6. p = s BY <1>3, <1>4, <1>5, SameSeq
<1>7. QED BY <1>2, <1>6 DEF q, s

\* To append to the second of two sequences is to append to both.
LEMMA AppendSecond ==
  ASSUME NEW S, NEW a \in Seq(S), NEW b \in Seq(S), NEW x \in S
  PROVE  Append(a \o b, x) = a \o Append(b, x)
<1>1. <<x>> \in Seq(S) /\ a \o b \in Seq(S) OBVIOUS
<1>2. Append(a \o b, x) = (a \o b) \o <<x>> /\ Append(b, x) = b \o <<x>> BY <1>1, AppendIsConcat
<1>3. (a \o b) \o <<x>> = a \o (b \o <<x>>) BY <1>1, ConcatAssociative
<1>4. QED BY <1>2, <1>3

\* A path in a toolchain, and the .extracted file of it.
LEMMA ToolchainPath ==
  ASSUME NEW mv \in Toolchains, NEW q \in Seq(Name)
  PROVE  /\ ToolchainDir(mv) \o q \in Seq(Name) /\ IsTSGo(ToolchainDir(mv) \o q)
         /\ Parsed(ToolchainDir(mv) \o q) = Obj("zip", mv, q)
         /\ Extracted(mv) \in Seq(Name) /\ Len(Extracted(mv)) = 2 /\ IsTSGo(Extracted(mv))
         /\ Parsed(Extracted(mv)) = Obj("extracted", mv, <<>>)
<1>1. mv \in [mod : Seq(Name), ver : Name] /\ mv.mod = TailscaleGo BY FilesAssumption DEF Toolchains
<1>2. PICK o \in Platforms, h \in Hashes : mv.ver = TSGoVersion(o[1], o[2], h) BY ToolchainsAssumption
<1>3. mv = TSGo(o, h) BY <1>1, <1>2 DEF TSGo
<1>4. h \in Piece BY ToolchainsAssumption
<1>5. mv.ver[2] = o[1] /\ mv.ver[4] = o[2] /\ mv.ver[6] = h BY <1>2 DEF TSGoVersion
<1>. DEFINE x == PlatformName(o)
            y == <<h>>
            z == <<h, ".", "extracted">>
            p == <<x, y>> \o q
            e == <<x, z>>
<1>6. ToolchainDir(mv) = <<x, y>> /\ Extracted(mv) = e BY <1>5 DEF ToolchainDir, Extracted, PlatformName
<1>7. x \in Name BY PlatformCut
<1>8. y \in Name BY <1>4 DEF Name
<1>9. z \in Name BY <1>4, NamesAssumption DEF Name
<1>10. e \in Seq(Name) /\ Len(e) = 2 /\ e[1] = x /\ e[2] = z
  <2>. HIDE DEF x, z
  <2>1. QED BY <1>7, <1>9
<1>11. p \in Seq(Name) /\ Len(p) = Len(q) + 2 /\ p[1] = x /\ p[2] = y /\ SubSeq(p, 3, Len(p)) = q
  <2>. HIDE DEF x, y
  <2>1. QED BY <1>7, <1>8, TwoAndRest
<1>12. Len(p) >= 2 /\ Len(e) >= 2
  <2>1. Len(q) \in Nat OBVIOUS
  <2>2. \A n \in Nat : n + 2 >= 2 OBVIOUS
  <2>3. QED BY <1>10, <1>11, <2>1, <2>2
<1>. HIDE DEF p, e
<1>13. IsTSGo(p) /\ ParseTSGoPath(p) = Obj("zip", TSGo(o, h), q) BY <1>11, <1>12, ToolchainParsed
<1>14. IsTSGo(e) /\ ParseTSGoPath(e) = Obj("extracted", TSGo(o, h), <<>>) BY <1>10, <1>12, ToolchainParsed
<1>15. QED BY <1>3, <1>6, <1>10, <1>11, <1>13, <1>14 DEF Parsed, p

\* A path to metadata: the escaped path of a module, and a name.
DownloadPath(segs, n) == <<cache, download>> \o segs \o <<atV, n>>

\* Where its names are.
IsDownload(p, segs, n) ==
  /\ Len(p) = Len(segs) + 4
  /\ p[1] = cache /\ p[2] = download
  /\ \A i \in 1..Len(segs) : p[i + 2] = segs[i]
  /\ p[Len(segs) + 3] = atV /\ p[Len(segs) + 4] = n

LEMMA DownloadPlaces ==
  ASSUME NEW segs \in Seq(Name), NEW n \in Name
  PROVE  DownloadPath(segs, n) \in Seq(Name) /\ IsDownload(DownloadPath(segs, n), segs, n)
<1>. DEFINE k == Len(segs)
            t == <<cache, download>> \o segs
            u == <<atV, n>>
            p == t \o u
<1>1. cache \in Name /\ download \in Name /\ atV \in Name BY NamesWithoutAt
<1>2. k \in Nat OBVIOUS
<1>3. t \in Seq(Name) /\ Len(t) = k + 2 /\ t[1] = cache /\ t[2] = download /\ \A i \in 1..k : t[i + 2] = segs[i]
  BY <1>1, TwoAndRest
<1>4. u \in Seq(Name) /\ Len(u) = 2 /\ u[1] = atV /\ u[2] = n BY <1>1
<1>. HIDE DEF t, u, k
<1>5. /\ p \in Seq(Name) /\ Len(p) = Len(t) + Len(u)
      /\ \A i \in 1..(Len(t) + Len(u)) : p[i] = IF i <= Len(t) THEN t[i] ELSE u[i - Len(t)]
  BY <1>3, <1>4, ConcatProperties
<1>. HIDE DEF p
<1>6. Len(p) = k + 4 BY <1>2, <1>3, <1>4, <1>5
<1>7. p[1] = cache /\ p[2] = download
  <2>1. 1 \in 1..(k + 2 + 2) /\ 1 <= k + 2 /\ 2 \in 1..(k + 2 + 2) /\ 2 <= k + 2 BY <1>2
  <2>2. QED BY <1>3, <1>4, <1>5, <2>1
<1>8. ASSUME NEW i \in 1..k PROVE p[i + 2] = segs[i]
  <2>1. i + 2 \in 1..(k + 2 + 2) /\ i + 2 <= k + 2 BY <1>2
  <2>2. QED BY <1>3, <1>4, <1>5, <2>1
<1>9. p[k + 3] = atV /\ p[k + 4] = n
  <2>1. k + 3 \in 1..(k + 2 + 2) /\ ~(k + 3 <= k + 2) /\ (k + 3) - (k + 2) = 1 BY <1>2
  <2>2. k + 4 \in 1..(k + 2 + 2) /\ ~(k + 4 <= k + 2) /\ (k + 4) - (k + 2) = 2 BY <1>2
  <2>3. QED BY <1>3, <1>4, <1>5, <2>1, <2>2
<1>10. p = DownloadPath(segs, n) BY DEF DownloadPath, p, t, u
<1>11. QED BY <1>5, <1>6, <1>7, <1>8, <1>9, <1>10 DEF IsDownload, k

LEMMA DownloadOf ==
  ASSUME NEW p \in Seq(Name), NEW segs \in Seq(Name), NEW n \in Name, IsDownload(p, segs, n)
  PROVE  p = DownloadPath(segs, n) /\ SubSeq(p, 3, Len(segs) + 2) = segs
<1>. DEFINE k == Len(segs)
            q == DownloadPath(segs, n)
<1>1. k \in Nat OBVIOUS
<1>2. /\ Len(p) = k + 4
      /\ p[1] = cache /\ p[2] = download
      /\ \A i \in 1..k : p[i + 2] = segs[i]
      /\ p[k + 3] = atV /\ p[k + 4] = n
  BY DEF IsDownload
<1>3. q \in Seq(Name) /\ IsDownload(q, segs, n) BY DownloadPlaces
<1>. HIDE DEF q
<1>4. /\ Len(q) = k + 4
      /\ q[1] = cache /\ q[2] = download
      /\ \A i \in 1..k : q[i + 2] = segs[i]
      /\ q[k + 3] = atV /\ q[k + 4] = n
  BY <1>3 DEF IsDownload
<1>. HIDE DEF k
<1>5. ASSUME NEW i \in 1..Len(p) PROVE p[i] = q[i]
  <2>1. CASE i = 1 \/ i = 2 \/ i = k + 3 \/ i = k + 4 BY <1>2, <1>4, <2>1
  <2>2. CASE i > 2 /\ i < k + 3
    <3>1. i - 2 \in 1..k /\ (i - 2) + 2 = i BY <1>1, <1>2, <2>2
    <3>2. QED BY <1>2, <1>4, <3>1
  <2>3. i = 1 \/ i = 2 \/ i = k + 3 \/ i = k + 4 \/ (i > 2 /\ i < k + 3) BY <1>1, <1>2
  <2>4. QED BY <2>1, <2>2, <2>3
<1>6. p = q BY <1>2, <1>3, <1>4, <1>5, SameSeq
<1>7. SubSeq(p, 3, k + 2) = segs
  <2>. DEFINE m == k + 2
  <2>1. 3 \in 1..(Len(p) + 1) /\ m \in 0..Len(p) /\ 3 <= m + 1 /\ m - 3 + 1 = k BY <1>1, <1>2
  <2>2. \A i \in 1..k : 3 + i - 1 = i + 2 BY <1>1
  <2>. HIDE DEF m
  <2>3. /\ SubSeq(p, 3, m) \in Seq(Name)
        /\ Len(SubSeq(p, 3, m)) = m - 3 + 1
        /\ \A i \in 1..(m - 3 + 1) : SubSeq(p, 3, m)[i] = p[3 + i - 1]
    BY <2>1, PartPlaces
  <2>4. Len(SubSeq(p, 3, m)) = k /\ \A i \in 1..k : SubSeq(p, 3, m)[i] = segs[i] BY <1>2, <2>1, <2>2, <2>3
  <2>5. SubSeq(p, 3, m) = segs BY <2>3, <2>4, SameSeq DEF k
  <2>6. QED BY <2>5 DEF m
<1>8. QED BY <1>6, <1>7 DEF q, k

\* A path under cache/download goes to that part of parsePath.
LEMMA ParsedDownload ==
  ASSUME NEW p \in Seq(Name), Len(p) > 2, p[1] = cache, p[2] = download
  PROVE  ~IsTSGo(p) /\ Parsed(p) = ParseDownload(p)
<1>1. cache[1] # "tsgo-" BY NamesWithoutAt
<1>2. ~IsTSGo(p) BY <1>1 DEF IsTSGo
<1>3. Len(p) >= 2 /\ Len(p) # 1 OBVIOUS
<1>4. SubSeq(p, 1, 2) = <<cache, download>> BY <1>3, FirstTwo
<1>5. p # <<statusFile>> BY <1>3
<1>6. QED BY <1>2, <1>4, <1>5 DEF Parsed, ParsePath

\* What that part makes of a path to metadata.
LEMMA DownloadParsed ==
  ASSUME NEW p \in Seq(Name), NEW segs \in Seq(Name), NEW n \in Name, IsDownload(p, segs, n),
         segs # <<>>, \A i \in 2..Len(segs) : segs[i] # atV,
         NEW mv, mv = ParseModVersion(segs, TrimExt(n))
  PROVE  ParseDownload(p) = IF n[1] = "." THEN Is("ENOENT")
                            ELSE IF Ext(n) = "" THEN Is("dir")
                            ELSE IF Ext(n) \notin Exts \/ mv = None THEN Is("ENOENT")
                            ELSE Obj("meta", mv, <<<<Ext(n)>>>>)
<1>. DEFINE k == Len(segs)
            j == k + 3
            is == {i \in 4..(Len(p) - 1) : p[i] = atV}
<1>1. k \in Nat /\ k # 0 OBVIOUS
<1>2. /\ Len(p) = k + 4
      /\ \A i \in 1..k : p[i + 2] = segs[i]
      /\ p[k + 3] = atV /\ p[k + 4] = n
  BY DEF IsDownload
<1>3. j \in is BY <1>1, <1>2
<1>4. ASSUME NEW i \in is PROVE j <= i
  <2>1. i \in 4..(k + 3) /\ p[i] = atV BY <1>2
  <2>2. CASE i < j
    <3>1. i - 2 \in 1..k /\ i - 2 \in 2..k /\ (i - 2) + 2 = i BY <1>1, <2>1, <2>2
    <3>2. p[i] = segs[i - 2] BY <1>2, <3>1
    <3>3. QED BY <2>1, <3>1, <3>2
  <2>3. CASE ~(i < j) BY <1>1, <2>1, <2>3
  <2>4. QED BY <2>2, <2>3
<1>5. is \subseteq Nat BY <1>1, <1>2
<1>. HIDE DEF is
<1>6. Min(is) = j
  <2>. HIDE DEF j
  <2>1. QED BY <1>3, <1>4, <1>5, MinIs
<1>7. Last(p) = n /\ p # <<>> BY <1>1, <1>2 DEF Last
<1>8. SubSeq(p, 3, Min(is) - 1) = segs
  <2>1. j - 1 = Len(segs) + 2 BY <1>1
  <2>2. SubSeq(p, 3, Len(segs) + 2) = segs BY DownloadOf
  <2>3. QED BY <1>6, <2>1, <2>2
<1>9. ~(Len(p) > Min(is) + 1) BY <1>1, <1>2, <1>6
<1>10. is # {} BY <1>3
<1>11. IsDotFile(p) <=> n[1] = "." BY <1>7, Zenon DEF IsDotFile
<1>12. ParseModVersion(SubSeq(p, 3, Min(is) - 1), TrimExt(Last(p))) = mv BY <1>7, <1>8
<1>13. QED BY <1>7, <1>9, <1>10, <1>11, <1>12 DEF ParseDownload, is

\* And of one that is not.
LEMMA DownloadNotParsed ==
  ASSUME NEW p \in Seq(Name),
         \/ \A i \in 4..(Len(p) - 1) : p[i] # atV
         \/ \E i \in 4..(Len(p) - 1) : p[i] = atV /\ i + 1 < Len(p)
  PROVE  ParseDownload(p) \in {Is("dir"), Is("ENOENT")}
<1>. DEFINE is == {i \in 4..(Len(p) - 1) : p[i] = atV}
<1>1. CASE \A i \in 4..(Len(p) - 1) : p[i] # atV
  <2>1. is = {} BY <1>1
  <2>2. QED BY <2>1 DEF ParseDownload
<1>2. CASE \E i \in 4..(Len(p) - 1) : p[i] = atV /\ i + 1 < Len(p)
  <2>1. PICK i \in 4..(Len(p) - 1) : p[i] = atV /\ i + 1 < Len(p) BY <1>2
  <2>2. i \in is /\ is \subseteq Nat /\ is # {} /\ Len(p) \in Nat BY <2>1
  <2>. HIDE DEF is
  <2>3. Min(is) \in is /\ \A y \in is : Min(is) <= y BY <2>2, MinIsLeast
  <2>4. Min(is) \in Nat /\ Min(is) <= i /\ i \in Nat BY <2>2, <2>3
  <2>5. Len(p) > Min(is) + 1 BY <2>1, <2>2, <2>4
  <2>6. QED BY <2>5 DEF ParseDownload, is
<1>3. QED BY <1>1, <1>2

\* A path that has one, is one to metadata.
LEMMA DownloadFound ==
  ASSUME NEW p \in Seq(Name), Len(p) > 2, p[1] = cache, p[2] = download,
         ParseDownload(p) \notin {Is("dir"), Is("ENOENT")}
  PROVE  \E segs \in Seq(Name), n \in Name :
           IsDownload(p, segs, n) /\ segs # <<>> /\ \A i \in 2..Len(segs) : segs[i] # atV
<1>1. PICK j \in 4..(Len(p) - 1) : p[j] = atV BY DownloadNotParsed
<1>2. \A i \in 4..(Len(p) - 1) : p[i] = atV => ~(i + 1 < Len(p)) BY DownloadNotParsed
<1>. DEFINE k == Len(p) - 4
            m == k + 2
            segs == SubSeq(p, 3, m)
<1>3. Len(p) \in Nat BY LenProperties
<1>4. Len(p) = k + 4 /\ k \in Nat /\ k # 0 /\ j = k + 3
  <2>1. ~(j + 1 < Len(p)) BY <1>1, <1>2
  <2>2. j \in Nat /\ 4 <= j /\ j <= Len(p) - 1 BY <1>3
  <2>3. \A n \in Nat, i \in Nat : 4 <= i /\ i <= n - 1 /\ ~(i + 1 < n) =>
          n = (n - 4) + 4 /\ n - 4 \in Nat /\ n - 4 # 0 /\ i = (n - 4) + 3
    OBVIOUS
  <2>4. QED BY <1>3, <2>1, <2>2, <2>3
<1>. HIDE DEF k
<1>5. segs \in Seq(Name) /\ Len(segs) = k /\ \A i \in 1..k : segs[i] = p[i + 2]
  <2>1. 3 \in 1..(Len(p) + 1) /\ m \in 0..Len(p) /\ 3 <= m + 1 /\ m - 3 + 1 = k BY <1>3, <1>4
  <2>2. \A i \in 1..k : 3 + i - 1 = i + 2 BY <1>4
  <2>. HIDE DEF m
  <2>3. /\ SubSeq(p, 3, m) \in Seq(Name)
        /\ Len(SubSeq(p, 3, m)) = m - 3 + 1
        /\ \A i \in 1..(m - 3 + 1) : SubSeq(p, 3, m)[i] = p[3 + i - 1]
    BY <2>1, PartPlaces
  <2>4. QED BY <2>1, <2>2, <2>3
<1>. HIDE DEF segs
<1>6. p[k + 4] \in Name BY <1>4
<1>7. IsDownload(p, segs, p[k + 4]) BY <1>1, <1>4, <1>5 DEF IsDownload
<1>8. segs # <<>> BY <1>4, <1>5
<1>9. ASSUME NEW i \in 2..Len(segs) PROVE segs[i] # atV
  <2>1. i \in 1..k /\ i + 2 \in 4..(Len(p) - 1) /\ i + 2 + 1 < Len(p) BY <1>4, <1>5
  <2>2. segs[i] = p[i + 2] BY <1>5, <2>1
  <2>3. QED BY <1>2, <2>1, <2>2
<1>10. QED BY <1>5, <1>6, <1>7, <1>8, <1>9

\* A metadata file of the layout.
LEMMA MetaPath ==
  ASSUME NEW mv \in DOMAIN Files \ Toolchains, NEW ext \in Exts
  PROVE  /\ MetaFile(mv, ext) \in Seq(Name)
         /\ IsDownload(MetaFile(mv, ext), EscapePath(mv.mod), EscapeAll(mv.ver) \o <<".", ext>>)
         /\ EscapePath(mv.mod) \in Seq(Name) /\ EscapePath(mv.mod) # <<>>
         /\ \A i \in 1..Len(EscapePath(mv.mod)) : EscapePath(mv.mod)[i] # atV
         /\ ~IsTSGo(MetaFile(mv, ext))
         /\ Parsed(MetaFile(mv, ext)) = Obj("meta", mv, <<<<ext>>>>)
<1>. DEFINE segs == EscapePath(mv.mod)
            v == EscapeAll(mv.ver)
            n == v \o <<".", ext>>
            p == MetaFile(mv, ext)
<1>1. /\ ParseModVersion(segs, v) = mv /\ mv # None
      /\ segs \in Seq(Name) /\ segs # <<>>
      /\ v \in Seq(Piece) /\ Len(v) # 0
      /\ \A i \in 1..Len(segs) : ~Contains(segs[i], "@")
  BY ModVersionOf
<1>2. v[1] # "." BY ModulesAssumption
<1>3. ext \in Piece BY NamesAssumption
<1>4. p = DownloadPath(segs, n) BY DEF MetaFile, DownloadPath
<1>. HIDE DEF segs, v
<1>5. v # <<>> BY <1>1
<1>6. n \in Name /\ n[1] = v[1] /\ Ext(n) = ext /\ TrimExt(n) = v BY <1>1, <1>3, <1>5, ExtOf
<1>. HIDE DEF n, p
<1>7. p \in Seq(Name) /\ IsDownload(p, segs, n) BY <1>1, <1>4, <1>6, DownloadPlaces
<1>8. \A i \in 1..Len(segs) : segs[i] # atV BY <1>1, NamesWithoutAt
<1>9. \A i \in 2..Len(segs) : segs[i] # atV BY <1>1, <1>8
<1>10. ParseDownload(p) = IF n[1] = "." THEN Is("ENOENT")
                          ELSE IF Ext(n) = "" THEN Is("dir")
                          ELSE IF Ext(n) \notin Exts \/ mv = None THEN Is("ENOENT")
                          ELSE Obj("meta", mv, <<<<Ext(n)>>>>)
  <2>1. mv = ParseModVersion(segs, TrimExt(n)) BY <1>1, <1>6
  <2>2. segs \in Seq(Name) /\ segs # <<>> /\ n \in Name BY <1>1, <1>6
  <2>3. QED BY ONLY <1>7, <1>9, <2>1, <2>2, DownloadParsed, Zenon
<1>11. ext # "" BY DEF Exts
<1>12. ParseDownload(p) = Obj("meta", mv, <<<<ext>>>>) BY <1>1, <1>2, <1>6, <1>10, <1>11, Zenon
<1>13. Len(p) > 2 /\ p[1] = cache /\ p[2] = download
  <2>1. Len(segs) \in Nat /\ Len(p) = Len(segs) + 4 BY <1>1, <1>7 DEF IsDownload
  <2>2. Len(p) > 2 BY <2>1
  <2>3. QED BY <1>7, <2>2 DEF IsDownload
<1>14. ~IsTSGo(p) /\ Parsed(p) = ParseDownload(p) BY <1>7, <1>13, ParsedDownload
<1>15. QED BY <1>1, <1>7, <1>8, <1>12, <1>14 DEF p, segs, v, n

\* The status file.
LEMMA StatusPath ==
  /\ <<statusFile>> \in Seq(Name) /\ <<statusFile>>[1] # cache /\ ~IsTSGo(<<statusFile>>)
  /\ Parsed(<<statusFile>>) = Is("status")
<1>1. statusFile \in Name /\ statusFile[1] = "." /\ cache # statusFile
  <2>1. cache # statusFile BY DEF cache, statusFile
  <2>2. QED BY <2>1, NamesWithoutAt
<1>2. "." # "tsgo-" OBVIOUS
<1>3. ~IsTSGo(<<statusFile>>) BY <1>1, <1>2 DEF IsTSGo
<1>4. QED BY <1>1, <1>3 DEF Parsed, ParsePath
-----------------------------------------------------------------------------
(* What parsePath finds is what the layout has *)

\* The files and directories of a module version.
LEMMA FilesAndDirs ==
  ASSUME NEW mv \in DOMAIN Files
  PROVE  /\ Files[mv] \subseteq Seq(Name) /\ Dirs(mv) \subseteq Seq(Name)
         /\ <<>> \in Dirs(mv) /\ <<>> \notin Files[mv]
         /\ \A q \in Files[mv] : q \notin Dirs(mv) /\ StoreStat(mv, q) = Obj("file", mv, q)
         /\ \A q \in Dirs(mv) : q \notin Files[mv] /\ StoreStat(mv, q) = Obj("zipdir", mv, q)
<1>1. Files[mv] # {} /\ Files[mv] \subseteq Seq(Name) /\ <<>> \notin Files[mv] BY FilesAssumption
<1>2. ASSUME NEW q \in Dirs(mv) PROVE q \in Seq(Name)
  <2>1. PICK f \in Files[mv] : q \in Prefixes(f) BY DEF Dirs
  <2>2. PICK l \in 0..Len(f) : q = SubSeq(f, 1, l) BY <2>1 DEF Prefixes
  <2>3. f \in Seq(Name) /\ Len(f) \in Nat BY <1>1
  <2>4. 1 \in 1..(Len(f) + 1) /\ 1 <= l + 1 BY <2>3
  <2>5. QED BY <2>2, <2>3, <2>4, PartPlaces
<1>3. <<>> \in Dirs(mv)
  <2>1. PICK f \in Files[mv] : f \in Seq(Name) BY <1>1
  <2>2. 0 \in 0..Len(f) BY <2>1
  <2>3. SubSeq(f, 1, 0) = <<>> BY <2>1
  <2>4. <<>> \in Prefixes(f) BY <2>2, <2>3 DEF Prefixes
  <2>5. QED BY <1>1, <2>4 DEF Dirs
<1>4. \A q \in Dirs(mv) : q \notin Files[mv] BY DEF Dirs
<1>5. QED BY <1>1, <1>2, <1>3, <1>4 DEF StoreStat

\* There is a file or a directory.
IsThere(mv, q) == mv \in DOMAIN Files /\ (q \in Files[mv] \/ q \in Dirs(mv))

\* Where the layout has what.
InModule(p, o) == \E mv \in DOMAIN Files, q \in Seq(Name) : p = RootOf(mv) \o q /\ IsThere(mv, q) /\ o = StoreStat(mv, q)
IsMeta(p, o) == \E mv \in DOMAIN Files \ Toolchains, ext \in Exts : p = MetaFile(mv, ext) /\ o = Obj("meta", mv, <<<<ext>>>>)
IsExtracted(p, o) == \E mv \in Toolchains : p = Extracted(mv) /\ o = Obj("extracted", mv, <<>>)
IsStatus(p, o) == p = <<statusFile>> /\ o = Is("status")

LEMMA AtPlaces ==
  ASSUME NEW p, NEW o
  PROVE  o \in At(p) <=> InModule(p, o) \/ IsMeta(p, o) \/ IsExtracted(p, o) \/ IsStatus(p, o)
<1>. DEFINE A == UNION {{<<RootOf(mv) \o f, Obj("file", mv, f)>> : f \in Files[mv]} : mv \in DOMAIN Files}
            B == UNION {{<<RootOf(mv) \o d, Obj("zipdir", mv, d)>> : d \in Dirs(mv)} : mv \in DOMAIN Files}
            C == {<<MetaFile(mv, ext), Obj("meta", mv, <<<<ext>>>>)>> : mv \in DOMAIN Files \ Toolchains, ext \in Exts}
            D == {<<Extracted(mv), Obj("extracted", mv, <<>>)>> : mv \in Toolchains}
            E == {<<<<statusFile>>, Is("status")>>}
<1>1. o \in At(p) <=> \E y \in Placed : y[1] = p /\ y[2] = o BY DEF At
<1>2. Placed = A \cup B \cup C \cup D \cup E BY DEF Placed
<1>3. ASSUME NEW y \in A, y[1] = p, y[2] = o PROVE InModule(p, o)
  <2>1. PICK mv \in DOMAIN Files : \E f \in Files[mv] : y = <<RootOf(mv) \o f, Obj("file", mv, f)>> OBVIOUS
  <2>2. PICK f \in Files[mv] : y = <<RootOf(mv) \o f, Obj("file", mv, f)>> BY <2>1
  <2>3. p = RootOf(mv) \o f /\ o = Obj("file", mv, f) BY <1>3, <2>2
  <2>4. f \in Seq(Name) /\ StoreStat(mv, f) = Obj("file", mv, f) BY FilesAndDirs
  <2>5. QED BY <2>3, <2>4 DEF InModule, IsThere
<1>4. ASSUME NEW y \in B, y[1] = p, y[2] = o PROVE InModule(p, o)
  <2>1. PICK mv \in DOMAIN Files : \E d \in Dirs(mv) : y = <<RootOf(mv) \o d, Obj("zipdir", mv, d)>> OBVIOUS
  <2>2. PICK d \in Dirs(mv) : y = <<RootOf(mv) \o d, Obj("zipdir", mv, d)>> BY <2>1
  <2>3. p = RootOf(mv) \o d /\ o = Obj("zipdir", mv, d) BY <1>4, <2>2
  <2>4. d \in Seq(Name) /\ StoreStat(mv, d) = Obj("zipdir", mv, d) BY FilesAndDirs
  <2>5. QED BY <2>3, <2>4 DEF InModule, IsThere
<1>5. ASSUME NEW y \in C, y[1] = p, y[2] = o PROVE IsMeta(p, o) BY <1>5 DEF IsMeta
<1>6. ASSUME NEW y \in D, y[1] = p, y[2] = o PROVE IsExtracted(p, o) BY <1>6 DEF IsExtracted
<1>7. ASSUME NEW y \in E, y[1] = p, y[2] = o PROVE IsStatus(p, o) BY <1>7 DEF IsStatus
<1>8. ASSUME InModule(p, o) PROVE <<p, o>> \in A \cup B
  <2>1. PICK mv \in DOMAIN Files, q \in Seq(Name) : p = RootOf(mv) \o q /\ IsThere(mv, q) /\ o = StoreStat(mv, q)
    BY <1>8 DEF InModule
  <2>2. CASE q \in Files[mv]
    <3>1. o = Obj("file", mv, q) BY <2>1, <2>2, FilesAndDirs
    <3>2. <<p, o>> \in {<<RootOf(mv) \o f, Obj("file", mv, f)>> : f \in Files[mv]} BY <2>1, <2>2, <3>1
    <3>3. <<p, o>> \in A BY <3>2
    <3>4. QED BY <3>3
  <2>3. CASE q \in Dirs(mv)
    <3>1. o = Obj("zipdir", mv, q) BY <2>1, <2>3, FilesAndDirs
    <3>2. <<p, o>> \in {<<RootOf(mv) \o d, Obj("zipdir", mv, d)>> : d \in Dirs(mv)} BY <2>1, <2>3, <3>1
    <3>3. <<p, o>> \in B BY <3>2
    <3>4. QED BY <3>3
  <2>4. QED BY <2>1, <2>2, <2>3 DEF IsThere
<1>9. IsMeta(p, o) => <<p, o>> \in C BY DEF IsMeta
<1>10. IsExtracted(p, o) => <<p, o>> \in D BY DEF IsExtracted
<1>11. IsStatus(p, o) => <<p, o>> \in E BY DEF IsStatus
<1>. HIDE DEF A, B, C, D, E
<1>12. \A y \in Placed : y \in A \/ y \in B \/ y \in C \/ y \in D \/ y \in E BY <1>2
<1>13. \A y : y \in A \cup B \/ y \in C \/ y \in D \/ y \in E => y \in Placed BY <1>2
<1>14. <<p, o>>[1] = p /\ <<p, o>>[2] = o OBVIOUS
<1>15. QED BY <1>1, <1>3, <1>4, <1>5, <1>6, <1>7, <1>8, <1>9, <1>10, <1>11, <1>12, <1>13, <1>14, Zenon

\* A path in a module version, be it a toolchain.
LEMMA RootPath ==
  ASSUME NEW mv \in DOMAIN Files, NEW q \in Seq(Name)
  PROVE  /\ RootOf(mv) \o q \in Seq(Name) /\ (RootOf(mv) \o q)[1] # cache
         /\ Parsed(RootOf(mv) \o q) = Obj("zip", mv, q)
<1>1. CASE mv \in Toolchains
  <2>. DEFINE p == ToolchainDir(mv) \o q
  <2>1. RootOf(mv) \o q = p BY <1>1 DEF RootOf
  <2>2. p \in Seq(Name) /\ IsTSGo(p) /\ Parsed(p) = Obj("zip", mv, q) BY <1>1, ToolchainPath
  <2>. HIDE DEF p
  <2>3. p[1] # cache BY <2>2, NamesWithoutAt, Zenon DEF IsTSGo
  <2>4. QED BY <2>1, <2>2, <2>3
<1>2. CASE mv \notin Toolchains
  <2>1. RootOf(mv) = ModuleDir(mv) BY <1>2 DEF RootOf
  <2>2. QED BY <1>2, <2>1, ModulePath
<1>3. QED BY <1>1, <1>2

\* The kinds of what the layout has.
Kinds == {"file", "zipdir", "meta", "extracted", "status"}

\* parsePath finds what the layout has at a path, unless the store fails.
LEMMA Complete ==
  ASSUME NEW p, NEW o, o \in At(p)
  PROVE  /\ p \in Seq(Name) /\ o.kind \in Kinds
         /\ Describe(Parsed(p), TRUE) = o
         /\ Describe(Parsed(p), FALSE) \in {o, Is("EIO")}
<1>1. CASE InModule(p, o)
  <2>1. PICK mv \in DOMAIN Files, q \in Seq(Name) : p = RootOf(mv) \o q /\ IsThere(mv, q) /\ o = StoreStat(mv, q)
    BY <1>1 DEF InModule
  <2>2. p \in Seq(Name) /\ Parsed(p) = Obj("zip", mv, q) BY <2>1, RootPath
  <2>3. o.kind \in Kinds BY <2>1, FilesAndDirs DEF IsThere, Kinds, Obj
  <2>4. QED BY <2>1, <2>2, <2>3 DEF Describe, Found, Obj
<1>2. CASE IsMeta(p, o)
  <2>1. PICK mv \in DOMAIN Files \ Toolchains, ext \in Exts : p = MetaFile(mv, ext) /\ o = Obj("meta", mv, <<<<ext>>>>)
    BY <1>2 DEF IsMeta
  <2>2. p \in Seq(Name) /\ Parsed(p) = o BY <2>1, MetaPath
  <2>3. o.kind = "meta" /\ o.mv = mv BY <2>1 DEF Obj
  <2>4. QED BY <2>2, <2>3 DEF Describe, FoundMeta, Kinds
<1>3. CASE IsExtracted(p, o)
  <2>1. PICK mv \in Toolchains : p = Extracted(mv) /\ o = Obj("extracted", mv, <<>>) BY <1>3 DEF IsExtracted
  <2>2. <<>> \in Seq(Name) OBVIOUS
  <2>3. p \in Seq(Name) /\ Parsed(p) = o BY <2>1, <2>2, ToolchainPath
  <2>4. o.kind = "extracted" BY <2>1 DEF Obj
  <2>5. QED BY <2>3, <2>4 DEF Describe, Kinds
<1>4. CASE IsStatus(p, o)
  <2>1. p \in Seq(Name) /\ Parsed(p) = o /\ o.kind = "status" BY <1>4, StatusPath DEF IsStatus, Is, Obj
  <2>2. QED BY <2>1 DEF Describe, Kinds
<1>5. QED BY <1>1, <1>2, <1>3, <1>4, AtPlaces

\* So there is nothing where it finds a directory or an error.
LEMMA NothingThere ==
  ASSUME NEW p, Describe(Parsed(p), TRUE).kind \notin Kinds
  PROVE  At(p) = {}
BY Complete

\* Under cache there is only metadata.
LEMMA CachePlaces ==
  ASSUME NEW p, p[1] = cache, NEW o, o \in At(p)
  PROVE  IsMeta(p, o)
<1>1. ~InModule(p, o) BY RootPath DEF InModule
<1>2. ~IsExtracted(p, o)
  <2>1. SUFFICES ASSUME NEW mv \in Toolchains, p = Extracted(mv) PROVE FALSE BY DEF IsExtracted
  <2>2. <<>> \in Seq(Name) OBVIOUS
  <2>3. IsTSGo(p) BY <2>1, <2>2, ToolchainPath
  <2>4. QED BY <2>3, NamesWithoutAt DEF IsTSGo
<1>3. ~IsStatus(p, o) BY StatusPath DEF IsStatus
<1>4. QED BY <1>1, <1>2, <1>3, AtPlaces

\* What is before the last of a sequence.
LEMMA FrontOf ==
  ASSUME NEW S, NEW a \in Seq(S), NEW x \in S
  PROVE  a \o <<x>> \in Seq(S) /\ Front(a \o <<x>>) = a /\ Last(a \o <<x>>) = x
<1>. DEFINE s == a \o <<x>>
<1>1. Len(a) \in Nat OBVIOUS
<1>2. s \in Seq(S) /\ Len(s) = Len(a) + 1 /\ s[Len(a) + 1] = x /\ \A i \in 1..Len(a) : s[i] = a[i] BY <1>1
<1>. HIDE DEF s
<1>3. s # <<>> BY <1>1, <1>2
<1>4. Front(s) \in Seq(S) /\ Len(Front(s)) = Len(s) - 1 /\ \A i \in 1..(Len(s) - 1) : Front(s)[i] = s[i]
  BY <1>2, <1>3, FrontLast
<1>5. Len(Front(s)) = Len(a) /\ \A i \in 1..Len(a) : Front(s)[i] = a[i] BY <1>1, <1>2, <1>4
<1>6. Front(s) = a BY <1>4, <1>5, SameSeq
<1>7. QED BY <1>2, <1>6 DEF s, Last

\* What is cut at an @ by parsePath.
LEMMA ZipShape ==
  ASSUME NEW p \in Seq(Name), ~IsTSGo(p), Parsed(p).kind = "zip"
  PROVE  /\ ~(Len(p) > 2 /\ SubSeq(p, 1, 2) = <<cache, download>>)
         /\ \E a, c, v, b, mv :
              /\ IsZipPath(a, c, v, b) /\ p = ZipPath(a, c, v, b)
              /\ mv = ParseModVersion(a \o <<c>>, v) /\ mv # None
              /\ Parsed(p) = Obj("zip", mv, b)
<1>1. Parsed(p) = ParsePath(p) BY DEF Parsed
<1>2. ParseDownload(p).kind # "zip" BY DEF ParseDownload, Is, Obj
<1>3. ~(Len(p) > 2 /\ SubSeq(p, 1, 2) = <<cache, download>>) /\ \E i \in DOMAIN p : Contains(p[i], "@")
  BY <1>1, <1>2 DEF ParsePath, Is, Obj
<1>4. PICK a, c, v, b : IsZipPath(a, c, v, b) /\ p = ZipPath(a, c, v, b) BY <1>3, ZipPathParts
<1>. DEFINE mv == ParseModVersion(a \o <<c>>, v)
<1>5. Parsed(p) = ParseZip(p) BY <1>3, ParsedZipPath
<1>6. ParseZip(p) = IF mv = None THEN Is("ENOENT") ELSE Obj("zip", mv, b) BY <1>4, ZipPathParsed
<1>. HIDE DEF mv
<1>7. mv # None /\ Parsed(p) = Obj("zip", mv, b) BY <1>5, <1>6 DEF Is, Obj
<1>8. QED BY <1>3, <1>4, <1>7 DEF mv

\* A path that parsePath takes for one in a module version is that path.
LEMMA ZipSound ==
  ASSUME NEW p \in Seq(Name), NEW mv, NEW q, Parsed(p) = Obj("zip", mv, q)
  PROVE  /\ q \in Seq(Name)
         /\ ~IsTSGo(p) => p = ModuleDir(mv) \o q
         /\ IsTSGo(p) /\ mv \in DOMAIN Files => mv \in Toolchains /\ p = ToolchainDir(mv) \o q
<1>1. CASE IsTSGo(p)
  <2>. DEFINE gm == ParseTSGoPath(p)
  <2>1. gm = Obj("zip", mv, q) /\ gm.kind = "zip" BY <1>1 DEF Parsed, Obj
  <2>. HIDE DEF gm
  <2>2. PICK o \in Platforms, h \in Hashes :
          /\ Len(p) >= 2 /\ p[1] = PlatformName(o)
          /\ \/ p[2] = <<h>> /\ gm = Obj("zip", TSGo(o, h), SubSeq(p, 3, Len(p)))
             \/ p[2] = <<h, ".", "extracted">> /\ gm = Obj("extracted", TSGo(o, h), <<>>)
    <3>1. gm = ParseTSGoPath(p) /\ gm.kind \in {"zip", "extracted"} BY <2>1 DEF gm
    <3>2. QED BY <1>1, <3>1, ToolchainFound
  <2>3. p[2] = <<h>> /\ mv = TSGo(o, h) /\ q = SubSeq(p, 3, Len(p)) BY <2>1, <2>2 DEF Obj
  <2>4. q \in Seq(Name) /\ p = <<p[1], p[2]>> \o q BY <2>2, <2>3, RestOfTwo
  <2>5. mv.mod = TailscaleGo /\ mv.ver = TSGoVersion(o[1], o[2], h) BY <2>3 DEF TSGo
  <2>6. mv.ver[1] = "tsgo-" /\ mv.ver[2] = o[1] /\ mv.ver[4] = o[2] /\ mv.ver[6] = h BY <2>5 DEF TSGoVersion
  <2>7. mv \in DOMAIN Files => mv \in Toolchains BY <2>5, <2>6 DEF Toolchains
  <2>8. ToolchainDir(mv) = <<p[1], p[2]>> BY <2>2, <2>3, <2>6 DEF ToolchainDir, PlatformName
  <2>9. QED BY <1>1, <2>4, <2>7, <2>8
<1>2. CASE ~IsTSGo(p)
  <2>1. Parsed(p).kind = "zip" BY DEF Obj
  <2>2. PICK a, c, v, b, w :
          /\ IsZipPath(a, c, v, b) /\ p = ZipPath(a, c, v, b)
          /\ w = ParseModVersion(a \o <<c>>, v) /\ w # None
          /\ Parsed(p) = Obj("zip", w, b)
    BY <1>2, <2>1, ZipShape
  <2>3. w = mv /\ b = q BY <2>2 DEF Obj
  <2>4. a \in Seq(Name) /\ c \in Seq(Piece) /\ v \in Seq(Piece) /\ b \in Seq(Name) BY <2>2 DEF IsZipPath
  <2>5. a \in Seq(Seq(Piece)) BY <2>4 DEF Name
  <2>. DEFINE m == a \o <<c>>
  <2>6. m \in Seq(Seq(Piece)) /\ Front(m) = a /\ Last(m) = c BY <2>4, <2>5, FrontOf
  <2>7. EscapePath(mv.mod) = m /\ EscapeAll(mv.ver) = v
    <3>. HIDE DEF m
    <3>1. mv = ParseModVersion(m, v) /\ mv # None BY <2>2, <2>3 DEF m
    <3>2. QED BY <2>4, <2>6, <3>1, ParsedModVersion
  <2>8. ModuleDir(mv) = a \o <<c \o <<"@">> \o v>> BY <2>6, <2>7, Zenon DEF ModuleDir
  <2>9. p = ModuleDir(mv) \o q BY <2>2, <2>3, <2>8, Zenon DEF ZipPath, Join
  <2>10. QED BY <1>2, <2>3, <2>4, <2>9
<1>3. QED BY <1>1, <1>2

\* And so is one that it takes for metadata.
LEMMA MetaSound ==
  ASSUME NEW p \in Seq(Name), NEW mv \in DOMAIN Files \ Toolchains, NEW x, Parsed(p) = Obj("meta", mv, x)
  PROVE  IsMeta(p, Obj("meta", mv, x))
<1>1. Parsed(p).kind = "meta" /\ Parsed(p).mv = mv /\ Parsed(p).path = x BY DEF Obj
<1>2. ParseTSGoPath(p).kind # "meta" BY DEF ParseTSGoPath, Is, Obj
<1>3. ParseZip(p).kind # "meta" BY DEF ParseZip, Is, Obj
<1>4. Len(p) > 2 /\ SubSeq(p, 1, 2) = <<cache, download>> /\ Parsed(p) = ParseDownload(p)
  BY <1>1, <1>2, <1>3 DEF Parsed, ParsePath, Is, Obj
<1>5. p[1] = cache /\ p[2] = download
  <2>1. Len(p) >= 2 BY <1>4
  <2>2. SubSeq(p, 1, 2) = <<p[1], p[2]>> BY <2>1, FirstTwo
  <2>3. QED BY <1>4, <2>2
<1>6. ParseDownload(p) \notin {Is("dir"), Is("ENOENT")} BY <1>1, <1>4 DEF Is, Obj
<1>7. PICK segs \in Seq(Name), n \in Name :
        IsDownload(p, segs, n) /\ segs # <<>> /\ \A i \in 2..Len(segs) : segs[i] # atV
  BY <1>4, <1>5, <1>6, DownloadFound
<1>. DEFINE w == ParseModVersion(segs, TrimExt(n))
<1>8. ParseDownload(p) = IF n[1] = "." THEN Is("ENOENT")
                         ELSE IF Ext(n) = "" THEN Is("dir")
                         ELSE IF Ext(n) \notin Exts \/ w = None THEN Is("ENOENT")
                         ELSE Obj("meta", w, <<<<Ext(n)>>>>)
  BY <1>7, DownloadParsed, Zenon
<1>. HIDE DEF w
<1>9. Ext(n) # "" /\ Ext(n) \in Exts /\ w # None /\ Parsed(p) = Obj("meta", w, <<<<Ext(n)>>>>)
  BY <1>4, <1>6, <1>8, Zenon
<1>10. w = mv /\ x = <<<<Ext(n)>>>>
  <2>1. \A e : Obj("meta", w, e).mv = w /\ Obj("meta", w, e).path = e BY DEF Obj
  <2>2. QED BY <1>1, <1>9, <2>1, Zenon
<1>11. n \in Seq(Piece) /\ HasExt(n) BY <1>9 DEF Name, HasExt
<1>12. TrimExt(n) \in Seq(Piece) /\ n = TrimExt(n) \o <<".", Ext(n)>> BY <1>11, ExtParts
<1>13. EscapePath(mv.mod) = segs /\ EscapeAll(mv.ver) = TrimExt(n)
  <2>1. segs \in Seq(Seq(Piece)) BY <1>7 DEF Name
  <2>2. QED BY <1>9, <1>10, <1>12, <2>1, ParsedModVersion DEF w
<1>14. p = DownloadPath(segs, n) BY <1>7, DownloadOf
<1>15. p = MetaFile(mv, Ext(n)) BY <1>12, <1>13, <1>14, Zenon DEF MetaFile, DownloadPath
<1>16. QED BY <1>9, <1>10, <1>15 DEF IsMeta

\* The kinds of what parsePath makes of a path.
LEMMA ParsedKinds ==
  ASSUME NEW p
  PROVE  /\ \/ Parsed(p) \in {Is("dir"), Is("ENOENT"), Is("status")}
            \/ \E mv, q : Parsed(p) = Obj("zip", mv, q)
            \/ \E mv, q : Parsed(p) = Obj("meta", mv, q)
            \/ \E mv, q : Parsed(p) = Obj("extracted", mv, q)
         /\ Parsed(p) = Is("status") => p = <<statusFile>>
<1>1. \/ ParseTSGoPath(p) \in {Is("dir"), Is("ENOENT")}
      \/ \E mv, q : ParseTSGoPath(p) \in {Obj("zip", mv, q), Obj("extracted", mv, q)}
  BY DEF ParseTSGoPath
<1>2. ParseDownload(p) \in {Is("dir"), Is("ENOENT")} \/ \E mv, q : ParseDownload(p) = Obj("meta", mv, q)
  BY DEF ParseDownload
<1>3. ParseZip(p) = Is("ENOENT") \/ \E mv, q : ParseZip(p) = Obj("zip", mv, q) BY DEF ParseZip
<1>4. \A mv, q : /\ Is("status") # Obj("zip", mv, q) /\ Is("status") # Obj("meta", mv, q)
                 /\ Is("status") # Obj("extracted", mv, q)
  BY DEF Is, Obj
<1>5. Is("status") # Is("dir") /\ Is("status") # Is("ENOENT") BY DEF Is, Obj
<1>6. CASE IsTSGo(p) BY <1>1, <1>4, <1>5, <1>6 DEF Parsed
<1>7. CASE ~IsTSGo(p) BY <1>2, <1>3, <1>4, <1>5, <1>7 DEF Parsed, ParsePath
<1>8. QED BY <1>6, <1>7

\* A toolchain by the path of its module.
IsByModulePath(p, o) ==
  o.kind \in {"file", "zipdir"} /\ o.mv \in Toolchains /\ p = ModuleDir(o.mv) \o o.path

\* What parsePath finds at a path, the layout has there, but for the exceptions.
LEMMA Sound ==
  ASSUME NEW p \in Seq(Name), NEW ok \in BOOLEAN, NEW o, o = Describe(Parsed(p), ok)
  PROVE  \/ o \in At(p)
         \/ o.kind \in {"dir", "ENOENT", "EIO"}
         \/ o.kind = "extracted"
         \/ IsByModulePath(p, o)
<1>1. CASE Parsed(p) \in {Is("dir"), Is("ENOENT")} BY <1>1 DEF Describe, Is, Obj
<1>2. CASE Parsed(p) = Is("status")
  <2>1. o = Is("status") /\ p = <<statusFile>> BY <1>2, ParsedKinds DEF Describe, Is, Obj
  <2>2. QED BY <2>1, AtPlaces DEF IsStatus
<1>3. CASE \E mv, q : Parsed(p) = Obj("zip", mv, q)
  <2>1. PICK mv, q : Parsed(p) = Obj("zip", mv, q) BY <1>3
  <2>2. o = IF Found(mv, ok) THEN StoreStat(mv, q) ELSE Is("EIO") BY <2>1 DEF Describe, Obj
  <2>3. CASE ~Found(mv, ok) BY <2>2, <2>3 DEF Is, Obj
  <2>4. CASE Found(mv, ok) /\ ~IsThere(mv, q)
    <3>1. o = Is("ENOENT") BY <2>2, <2>4 DEF StoreStat, IsThere, Found
    <3>2. QED BY <3>1 DEF Is, Obj
  <2>5. CASE Found(mv, ok) /\ IsThere(mv, q)
    <3>1. mv \in DOMAIN Files /\ o = StoreStat(mv, q) BY <2>2, <2>5 DEF Found
    <3>2. o.kind \in {"file", "zipdir"} /\ o.mv = mv /\ o.path = q BY <2>5, <3>1, FilesAndDirs DEF IsThere, Obj
    <3>3. /\ q \in Seq(Name)
          /\ ~IsTSGo(p) => p = ModuleDir(mv) \o q
          /\ IsTSGo(p) => mv \in Toolchains /\ p = ToolchainDir(mv) \o q
      BY <2>1, <3>1, ZipSound
    <3>4. p = RootOf(mv) \o q \/ (mv \in Toolchains /\ p = ModuleDir(mv) \o q) BY <3>3 DEF RootOf
    <3>5. p = RootOf(mv) \o q => InModule(p, o) BY <2>5, <3>1, <3>3 DEF InModule
    <3>6. QED BY <3>2, <3>4, <3>5, AtPlaces DEF IsByModulePath
  <2>6. QED BY <2>3, <2>4, <2>5
<1>4. CASE \E mv, q : Parsed(p) = Obj("meta", mv, q)
  <2>1. PICK mv, q : Parsed(p) = Obj("meta", mv, q) BY <1>4
  <2>2. o = IF FoundMeta(mv, ok) THEN Parsed(p) ELSE Is("EIO") BY <2>1 DEF Describe, Obj
  <2>3. CASE ~FoundMeta(mv, ok) BY <2>2, <2>3 DEF Is, Obj
  <2>4. CASE FoundMeta(mv, ok)
    <3>1. mv \in DOMAIN Files \ Toolchains /\ o = Obj("meta", mv, q) BY <2>1, <2>2, <2>4 DEF FoundMeta
    <3>2. QED BY <2>1, <3>1, MetaSound, AtPlaces
  <2>5. QED BY <2>3, <2>4
<1>5. CASE \E mv, q : Parsed(p) = Obj("extracted", mv, q) BY <1>5 DEF Describe, Obj
<1>6. QED BY <1>1, <1>2, <1>3, <1>4, <1>5, ParsedKinds

\* One more name in a path that is appended to.
LEMMA Appended ==
  ASSUME NEW p \in Seq(Name), NEW n \in Name
  PROVE  /\ Append(p, n) \in Seq(Name) /\ Len(Append(p, n)) = Len(p) + 1 /\ Append(p, n) # <<>>
         /\ \A i \in 1..Len(p) : Append(p, n)[i] = p[i]
         /\ Append(p, n)[Len(p) + 1] = n
         /\ Front(Append(p, n)) = p /\ Last(Append(p, n)) = n
<1>1. Append(p, n) = p \o <<n>> BY AppendIsConcat
<1>2. Front(Append(p, n)) = p /\ Last(Append(p, n)) = n BY <1>1, FrontOf
<1>3. QED BY <1>2

\* A name in a directory of a module version is parsed as one.
LEMMA Extend ==
  ASSUME NEW p \in Seq(Name), NEW mv, NEW q, Parsed(p) = Obj("zip", mv, q), NEW n \in Name
  PROVE  q \in Seq(Name) /\ Parsed(Append(p, n)) = Obj("zip", mv, Append(q, n))
<1>. DEFINE r == Append(p, n)
<1>1. /\ r \in Seq(Name) /\ Len(r) = Len(p) + 1 /\ r # <<>>
      /\ \A i \in 1..Len(p) : r[i] = p[i]
  BY Appended
<1>2. q \in Seq(Name) /\ Len(p) \in Nat BY ZipSound
<1>3. CASE IsTSGo(p)
  <2>. DEFINE gm == ParseTSGoPath(p)
  <2>1. gm = Obj("zip", mv, q) /\ gm.kind = "zip" BY <1>3 DEF Parsed, Obj
  <2>. HIDE DEF gm
  <2>2. PICK o \in Platforms, h \in Hashes :
          /\ Len(p) >= 2 /\ p[1] = PlatformName(o)
          /\ \/ p[2] = <<h>> /\ gm = Obj("zip", TSGo(o, h), SubSeq(p, 3, Len(p)))
             \/ p[2] = <<h, ".", "extracted">> /\ gm = Obj("extracted", TSGo(o, h), <<>>)
    <3>1. gm = ParseTSGoPath(p) /\ gm.kind \in {"zip", "extracted"} BY <2>1 DEF gm
    <3>2. QED BY <1>3, <3>1, ToolchainFound
  <2>3. p[2] = <<h>> /\ mv = TSGo(o, h) /\ q = SubSeq(p, 3, Len(p)) BY <2>1, <2>2 DEF Obj
  <2>4. p = <<p[1], p[2]>> \o q /\ p[1] \in Name /\ p[2] \in Name BY <2>2, <2>3, RestOfTwo
  <2>5. r = <<p[1], p[2]>> \o Append(q, n)
    <3>1. <<p[1], p[2]>> \in Seq(Name) BY <2>4
    <3>2. QED BY <1>2, <2>4, <3>1, AppendSecond
  <2>6. r[1] = p[1] /\ r[2] = p[2] /\ SubSeq(r, 3, Len(r)) = Append(q, n)
    <3>1. Append(q, n) \in Seq(Name) BY <1>2
    <3>. HIDE DEF r
    <3>2. QED BY <2>4, <2>5, <3>1, TwoAndRest
  <2>7. Len(r) >= 2
    <3>. HIDE DEF r
    <3>1. QED BY <1>1, <1>2, <2>2
  <2>. HIDE DEF r
  <2>8. IsTSGo(r) /\ ParseTSGoPath(r) = Obj("zip", TSGo(o, h), SubSeq(r, 3, Len(r)))
    BY <1>1, <2>2, <2>3, <2>6, <2>7, ToolchainParsed
  <2>9. QED BY <1>2, <2>3, <2>6, <2>8 DEF Parsed, r
<1>4. CASE ~IsTSGo(p)
  <2>1. Parsed(p).kind = "zip" BY DEF Obj
  <2>2. ~(Len(p) > 2 /\ SubSeq(p, 1, 2) = <<cache, download>>) BY <1>4, <2>1, ZipShape
  <2>3. PICK a, c, v, b, w :
          /\ IsZipPath(a, c, v, b) /\ p = ZipPath(a, c, v, b)
          /\ w = ParseModVersion(a \o <<c>>, v) /\ w # None
          /\ Parsed(p) = Obj("zip", w, b)
    BY <1>4, <2>1, ZipShape
  <2>4. w = mv /\ b = q BY <2>3 DEF Obj
  <2>. DEFINE s == Append(q, n)
  <2>5. IsZipPath(a, c, v, s) BY <1>2, <2>3 DEF IsZipPath
  <2>6. r = ZipPath(a, c, v, s)
    <3>. DEFINE x == Join(c, "@", v)
    <3>1. x \in Name /\ a \in Seq(Name) BY <2>3, ZipPathNames DEF IsZipPath
    <3>2. p = (a \o <<x>>) \o q BY <2>3, <2>4 DEF ZipPath, Join
    <3>. HIDE DEF x
    <3>3. a \o <<x>> \in Seq(Name) BY <3>1
    <3>4. r = (a \o <<x>>) \o s BY <1>2, <3>2, <3>3, AppendSecond
    <3>5. QED BY <3>4 DEF ZipPath, Join, x
  <2>7. ParseZip(r) = Obj("zip", mv, s)
    <3>1. mv = ParseModVersion(a \o <<c>>, v) /\ mv # None BY <2>3, <2>4
    <3>. HIDE DEF r, s
    <3>2. ParseZip(r) = IF mv = None THEN Is("ENOENT") ELSE Obj("zip", mv, s) BY <2>5, <2>6, <3>1, ZipPathParsed
    <3>3. QED BY <3>1, <3>2
  <2>8. \E i \in DOMAIN r : Contains(r[i], "@")
    <3>. HIDE DEF r, s
    <3>1. QED BY <2>5, <2>6, ZipPathNames
  <2>9. \E i \in DOMAIN p : Contains(p[i], "@") BY <2>3, ZipPathNames
  <2>. HIDE DEF r
  <2>10. p # <<>> /\ r[1] = p[1] BY <1>1, <1>2, <2>9
  <2>11. ~IsTSGo(r) BY <1>1, <1>4, <2>10, Zenon DEF IsTSGo
  <2>12. ~(Len(r) > 2 /\ SubSeq(r, 1, 2) = <<cache, download>>)
    <3>1. SUFFICES ASSUME Len(r) > 2, SubSeq(r, 1, 2) = <<cache, download>> PROVE FALSE OBVIOUS
    <3>2. Len(p) >= 2 /\ Len(r) >= 2 BY <1>1, <1>2, <3>1
    <3>3. r[1] = p[1] /\ r[2] = p[2] BY <1>1, <3>2
    <3>4. SubSeq(p, 1, 2) = <<p[1], p[2]>> /\ SubSeq(r, 1, 2) = <<r[1], r[2]>> BY <1>1, <3>2, FirstTwo
    <3>5. SubSeq(p, 1, 2) = <<cache, download>> /\ p[1] = cache /\ p[2] = download BY <3>1, <3>3, <3>4
    <3>6. Len(p) = 2
      <4>1. ~(Len(p) > 2) BY <2>2, <3>5
      <4>2. \A k \in Nat : k >= 2 /\ ~(k > 2) => k = 2 OBVIOUS
      <4>3. QED BY <1>2, <3>2, <4>1, <4>2
    <3>7. DOMAIN p = 1..2 BY <3>6
    <3>8. \A i \in 1..2 : i = 1 \/ i = 2 OBVIOUS
    <3>9. QED BY <2>9, <3>5, <3>7, <3>8, NamesWithoutAt
  <2>13. Parsed(r) = ParseZip(r) BY <1>1, <2>8, <2>11, <2>12, ParsedZipPath
  <2>14. QED BY <1>2, <2>7, <2>13 DEF r
<1>5. QED BY <1>3, <1>4

\* Both together: what a front end that parses paths answers.
LEMMA Served ==
  ASSUME NEW p \in Seq(Name), NEW ok \in BOOLEAN, NEW o, o = Describe(Parsed(p), ok)
  PROVE  \/ o \in At(p)
         \/ At(p) = {} /\ (o.kind \in {"dir", "ENOENT", "EIO"} \/ o.kind = "extracted" \/ IsByModulePath(p, o))
         \/ o.kind = "EIO" /\ ~ok
<1>1. CASE At(p) = {} BY <1>1, Sound
<1>2. CASE At(p) # {}
  <2>1. PICK x : x \in At(p) BY <1>2
  <2>2. Describe(Parsed(p), TRUE) = x /\ Describe(Parsed(p), FALSE) \in {x, Is("EIO")} BY <2>1, Complete
  <2>3. CASE ok = TRUE BY <2>1, <2>2, <2>3
  <2>4. CASE ok = FALSE
    <3>1. o = Describe(Parsed(p), FALSE) BY <2>4, Zenon
    <3>2. Is("EIO").kind = "EIO" BY DEF Is, Obj
    <3>3. QED BY <2>1, <2>2, <2>4, <3>1, <3>2, Zenon
  <2>5. QED BY <2>3, <2>4
<1>3. QED BY <1>1, <1>2

-----------------------------------------------------------------------------
(* The paths that are asked for *)

LEMMA PrefixPath ==
  ASSUME NEW s \in Seq(Name)
  PROVE  Prefixes(s) \subseteq Seq(Name) /\ <<>> \in Prefixes(s) /\ s \in Prefixes(s)
<1>1. Len(s) \in Nat OBVIOUS
<1>2. ASSUME NEW l \in 0..Len(s) PROVE SubSeq(s, 1, l) \in Seq(Name)
  <2>1. 1 \in 1..(Len(s) + 1) /\ 1 <= l + 1 BY <1>1
  <2>2. QED BY <2>1, PartPlaces
<1>3. 0 \in 0..Len(s) /\ Len(s) \in 0..Len(s) BY <1>1
<1>4. SubSeq(s, 1, 0) = <<>> OBVIOUS
<1>5. SubSeq(s, 1, Len(s)) = s BY SubSeqFull
<1>6. QED BY <1>2, <1>3, <1>4, <1>5 DEF Prefixes

\* The path of a toolchain as a module is one.
LEMMA ToolchainModule ==
  ASSUME NEW mv \in Toolchains, NEW q \in Seq(Name)
  PROVE  ModuleDir(mv) \o q \in Seq(Name)
<1>. DEFINE m == EscapePath(mv.mod)
            v == EscapeAll(mv.ver)
            x == Join(Last(m), "@", v)
<1>1. mv \in [mod : Seq(Name), ver : Name] /\ mv.mod = TailscaleGo BY FilesAssumption DEF Toolchains
<1>2. mv.mod \in Seq(Name) /\ mv.ver \in Seq(Piece) BY <1>1 DEF Name
<1>3. mv.mod # <<>> BY <1>1 DEF TailscaleGo
<1>4. m \in Seq(Name) /\ Len(m) = Len(mv.mod) BY <1>2, EscapedPath
<1>5. v \in Seq(Piece) BY <1>2, EscapedName
<1>6. ModuleDir(mv) = Front(m) \o <<x>> BY DEF ModuleDir, Join
<1>. HIDE DEF m, v
<1>7. m # <<>> BY <1>2, <1>3, <1>4
<1>8. Front(m) \in Seq(Name) /\ Last(m) \in Name BY <1>4, <1>7, FrontLast
<1>9. Last(m) \in Seq(Piece) BY <1>8 DEF Name
<1>10. x \in Seq(Piece) /\ Joined(x, Last(m), "@", v) BY <1>5, <1>9, Separators, JoinPlaces
<1>. HIDE DEF x
<1>11. x \in Name
  <2>1. Len(x) # 0 BY <1>5, <1>9, <1>10 DEF Joined
  <2>2. QED BY <1>10, <2>1 DEF Name
<1>12. Front(m) \o <<x>> \in Seq(Name) BY <1>8, <1>11
<1>13. QED BY <1>6, <1>12

LEMMA PathsAre ==
  /\ Ways \subseteq Paths /\ Paths \subseteq Seq(Name) /\ <<>> \in Paths
  /\ \A mv \in DOMAIN Files : \A f \in Files[mv] : RootOf(mv) \o f \in Paths
<1>1. ASSUME NEW y \in Placed PROVE y[1] \in Seq(Name)
  <2>1. y[2] \in At(y[1]) BY DEF At
  <2>2. QED BY <2>1, Complete
<1>2. ASSUME NEW p \in Ways PROVE p \in Seq(Name)
  <2>1. CASE \E y \in Placed : p \in Prefixes(y[1]) BY <1>1, <2>1, PrefixPath
  <2>2. CASE \E mv \in Toolchains : \E f \in Files[mv] : p \in Prefixes(ModuleDir(mv) \o f)
    <3>1. PICK mv \in Toolchains : \E f \in Files[mv] : p \in Prefixes(ModuleDir(mv) \o f) BY <2>2
    <3>2. PICK f \in Files[mv] : p \in Prefixes(ModuleDir(mv) \o f) BY <3>1
    <3>3. f \in Seq(Name) BY FilesAndDirs DEF Toolchains
    <3>4. ModuleDir(mv) \o f \in Seq(Name) BY <3>3, ToolchainModule
    <3>5. QED BY <3>2, <3>4, PrefixPath
  <2>3. QED BY <2>1, <2>2 DEF Ways
<1>3. Ways \subseteq Paths BY DEF Paths
<1>4. Names \subseteq Name BY NamesAssumption
<1>5. ASSUME NEW p \in Paths PROVE p \in Seq(Name)
  <2>1. CASE p \in Ways BY <1>2, <2>1
  <2>2. CASE \E q \in Ways, n \in Names : p = Append(q, n)
    <3>1. PICK q \in Ways, n \in Names : p = Append(q, n) BY <2>2
    <3>2. QED BY <1>2, <1>4, <3>1
  <2>3. QED BY <2>1, <2>2 DEF Paths
<1>6. \A p, o : o \in At(p) => \E y \in Placed : y[1] = p BY DEF At
<1>7. ASSUME NEW p, NEW o, o \in At(p) PROVE p \in Ways /\ <<>> \in Ways
  <2>1. PICK y \in Placed : y[1] = p BY <1>6, <1>7
  <2>2. p \in Seq(Name) BY <1>7, Complete
  <2>3. QED BY <2>1, <2>2, PrefixPath DEF Ways
<1>8. <<>> \in Paths
  <2>1. Is("status") \in At(<<statusFile>>) BY AtPlaces DEF IsStatus
  <2>2. QED BY <1>3, <1>7, <2>1
<1>9. ASSUME NEW mv \in DOMAIN Files, NEW f \in Files[mv] PROVE RootOf(mv) \o f \in Paths
  <2>1. f \in Seq(Name) BY FilesAndDirs
  <2>2. InModule(RootOf(mv) \o f, StoreStat(mv, f)) BY <2>1 DEF InModule, IsThere
  <2>3. StoreStat(mv, f) \in At(RootOf(mv) \o f) BY <2>2, AtPlaces
  <2>4. QED BY <1>3, <1>7, <2>3
<1>10. QED BY <1>3, <1>5, <1>8, <1>9

-----------------------------------------------------------------------------
(* FUSE: the nodes of a path *)

Types == {"moduleName", "underZipRoot", "cacheRoot", "download", "atV", "tsgoRoot", "statusFile", "memFile", "errno"}

\* What FUSE may answer for a path.
FuseServes(p, o, ok) ==
  \/ o \in At(p)
  \/ At(p) = {} /\ (o.kind \in {"dir", "ENOENT", "ENOTDIR", "EIO"} \/ AsWritten(o) \/ IsByModulePath(p, o))
  \/ o.kind = "EIO" /\ (~ok \/ \E x \in At(p) : AsWritten(x))

\* A node that is right for a path.
GoodChild(d, p, ok) == NodeAt(d, p) /\ d.t \in Types /\ FuseServes(p, d.obj, ok)

\* An error where there is nothing, or when the store fails.
LEMMA GoodErrno ==
  ASSUME NEW p, NEW ok, NEW e \in {"ENOENT", "ENOTDIR", "EIO"}, At(p) = {} \/ (e = "EIO" /\ ~ok)
  PROVE  GoodChild(Errno(e), p, ok)
<1>1. Errno(e) = [t |-> "errno", segs |-> <<>>, obj |-> Is(e), have |-> FALSE] BY DEF Errno, NodeOf
<1>2. Is(e).kind = e BY DEF Is, Obj
<1>. DEFINE d == Errno(e)
<1>3. d.t = "errno" /\ d.obj = Is(e) /\ d = [t |-> d.t, segs |-> d.segs, obj |-> d.obj, have |-> d.have] BY <1>1
<1>. HIDE DEF d
<1>4. NodeAt(d, p) BY <1>3 DEF NodeAt
<1>5. FuseServes(p, d.obj, ok) BY <1>2, <1>3 DEF FuseServes
<1>6. QED BY <1>3, <1>4, <1>5 DEF GoodChild, Types, d

\* A directory where the layout has nothing.
LEMMA GoodDir ==
  ASSUME NEW p, NEW ok, NEW t, NEW segs, At(p) = {}, NodeAt(Node(t, segs), p), t \in Types
  PROVE  GoodChild(Node(t, segs), p, ok)
<1>1. Node(t, segs).t = t /\ Node(t, segs).obj.kind = "dir" BY DEF Node, Is, Obj
<1>2. QED BY <1>1 DEF GoodChild, FuseServes

\* There is nothing at a path that parsePath finds to be a directory or an error.
LEMMA NotFound ==
  ASSUME NEW p, Parsed(p) \in {Is("dir"), Is("ENOENT")}
  PROVE  At(p) = {}
<1>1. Describe(Is("dir"), TRUE) = Is("dir") /\ Describe(Is("ENOENT"), TRUE) = Is("ENOENT")
  BY DEF Describe, Is, Obj
<1>2. Is("dir").kind \notin Kinds /\ Is("ENOENT").kind \notin Kinds BY DEF Is, Obj, Kinds
<1>3. Describe(Parsed(p), TRUE).kind \notin Kinds BY <1>1, <1>2
<1>4. QED BY <1>3, NothingThere

\* Nor where no part of parsePath has a say.
LEMMA PlainPath ==
  ASSUME NEW p \in Seq(Name), p # <<statusFile>>, \A i \in DOMAIN p : ~Contains(p[i], "@"), ~IsTSGo(p),
         Len(p) > 2 => p[1] # cache
  PROVE  At(p) = {}
<1>1. ~(Len(p) > 2 /\ SubSeq(p, 1, 2) = <<cache, download>>)
  <2>1. SUFFICES ASSUME Len(p) > 2, SubSeq(p, 1, 2) = <<cache, download>> PROVE FALSE OBVIOUS
  <2>2. Len(p) >= 2 BY <2>1
  <2>3. SubSeq(p, 1, 2) = <<p[1], p[2]>> BY <2>2, FirstTwo
  <2>4. QED BY <2>1, <2>3
<1>2. Parsed(p) \in {Is("dir"), Is("ENOENT")} BY <1>1 DEF Parsed, ParsePath
<1>3. QED BY <1>2, NotFound

\* The root of a module version that is found, or what is found under it.
LEMMA GoodUnderZipRoot ==
  ASSUME NEW p \in Seq(Name), NEW ok \in BOOLEAN, NEW mv, NEW q, Parsed(p) = Obj("zip", mv, q),
         IsThere(mv, q), ok
  PROVE  GoodChild(NodeOf("underZipRoot", StoreStat(mv, q)), p, ok)
<1>. DEFINE o == StoreStat(mv, q)
            d == NodeOf("underZipRoot", o)
<1>1. mv \in DOMAIN Files /\ o.kind \in {"file", "zipdir"} /\ o.mv = mv /\ o.path = q
  BY FilesAndDirs DEF IsThere, Obj
<1>2. o = Describe(Parsed(p), ok) BY <1>1 DEF Describe, Found, Obj
<1>3. d = [t |-> "underZipRoot", segs |-> <<>>, obj |-> o, have |-> FALSE] BY DEF NodeOf
<1>. HIDE DEF o
<1>4. FuseServes(p, o, ok) BY <1>1, <1>2, Served DEF FuseServes
<1>5. d.t = "underZipRoot" /\ d.obj = o /\ d = [t |-> d.t, segs |-> d.segs, obj |-> d.obj, have |-> d.have]
  BY <1>3
<1>. HIDE DEF d
<1>6. o = StoreStat(o.mv, o.path) /\ Parsed(p) = Obj("zip", o.mv, o.path) BY <1>1 DEF o
<1>7. NodeAt(d, p) BY <1>1, <1>5, <1>6 DEF NodeAt
<1>8. QED BY <1>4, <1>5, <1>7 DEF GoodChild, Types, d, o

\* The names at the top.
LEMMA TopChild ==
  ASSUME NEW n \in Name, n \in {cache, statusFile} \/ n[1] = "tsgo-", NEW ok
  PROVE  GoodChild(LookupTop(n), <<n>>, ok)
<1>. DEFINE platform == CutAt(Tail(n), "-")
            p == <<n>>
<1>1. p \in Seq(Name) /\ p # <<>> /\ p[1] = n /\ Len(p) = 1 /\ DOMAIN p = {1} OBVIOUS
<1>2. cache # statusFile BY DEF cache, statusFile
<1>3. cache[1] # "tsgo-" /\ statusFile[1] # "tsgo-" BY NamesWithoutAt
<1>. HIDE DEF p
<1>4. CASE n = cache
  <2>1. LookupTop(n) = Node("cacheRoot", <<>>) BY <1>4 DEF LookupTop
  <2>2. ~IsTSGo(p) BY <1>1, <1>3, <1>4 DEF IsTSGo
  <2>3. p # <<statusFile>> BY <1>1, <1>2, <1>4
  <2>4. At(p) = {}
    <3>1. \A i \in DOMAIN p : ~Contains(p[i], "@") BY <1>1, <1>4, NamesWithoutAt
    <3>2. ~(Len(p) > 2) BY <1>1
    <3>3. QED BY <1>1, <2>2, <2>3, <3>1, <3>2, PlainPath
  <2>5. NodeAt(Node("cacheRoot", <<>>), p) BY <1>4 DEF NodeAt, Node, p
  <2>6. QED BY <2>1, <2>4, <2>5, GoodDir DEF Types, p
<1>5. CASE n = statusFile
  <2>. DEFINE d == NodeOf("statusFile", Is("status"))
  <2>1. LookupTop(n) = d BY <1>2, <1>5 DEF LookupTop
  <2>2. d.t = "statusFile" /\ d.obj = Is("status") /\ d = [t |-> d.t, segs |-> d.segs, obj |-> d.obj, have |-> d.have]
    BY DEF NodeOf
  <2>3. Is("status") \in At(p) BY <1>5, AtPlaces DEF IsStatus, p
  <2>. HIDE DEF d
  <2>4. NodeAt(d, p) BY <1>5, <2>2 DEF NodeAt, p
  <2>5. QED BY <2>1, <2>2, <2>3, <2>4 DEF GoodChild, FuseServes, Types, p
<1>6. CASE n \notin {cache, statusFile}
  <2>1. n[1] = "tsgo-" BY <1>6
  <2>2. IsTSGo(p) BY <1>1, <2>1 DEF IsTSGo
  <2>3. Parsed(p) = Is("dir") BY <1>1, <2>2 DEF Parsed, ParseTSGoPath
  <2>4. At(p) = {} BY <2>3, NotFound
  <2>5. CASE IsPlatform(platform)
    <3>1. PICK o \in Platforms : platform = <<<<o[1]>>, <<o[2]>>>> BY <2>5 DEF IsPlatform
    <3>2. platform[1][1] = o[1] /\ platform[2][1] = o[2] BY <3>1
    <3>3. o = <<o[1], o[2]>> BY ToolchainsAssumption
    <3>4. LookupTop(n) = Node("tsgoRoot", <<platform[1][1], platform[2][1]>>) BY <1>6, <2>5 DEF LookupTop
    <3>5. LookupTop(n) = Node("tsgoRoot", o) BY <3>2, <3>3, <3>4
    <3>6. n = PlatformName(o) BY <2>1, <3>1, PlatformOfCut
    <3>7. NodeAt(Node("tsgoRoot", o), p) BY <3>6 DEF NodeAt, Node, PlatformName, p
    <3>8. QED BY <2>4, <3>5, <3>7, GoodDir DEF Types, p
  <2>6. CASE ~IsPlatform(platform)
    <3>1. LookupTop(n) = Errno("ENOENT") BY <1>6, <2>6 DEF LookupTop
    <3>2. QED BY <2>4, <3>1, GoodErrno DEF p
  <2>7. QED BY <2>5, <2>6
<1>7. QED BY <1>4, <1>5, <1>6

LEMMA ModuleNameChild ==
  ASSUME NEW p \in Seq(Name), NEW d, NodeAt(d, p), d.t = "moduleName", NEW n \in Name, NEW ok \in BOOLEAN
  PROVE  GoodChild(Child(d, n, ok), Append(p, n), ok)
<1>. DEFINE r == Append(p, n)
            top == p = <<>> /\ (n \in {cache, statusFile} \/ n[1] = "tsgo-")
<1>1. /\ d.segs = p /\ \A i \in DOMAIN p : ~Contains(p[i], "@")
      /\ p # <<>> => p[1] \notin {cache, statusFile} /\ p[1][1] # "tsgo-"
  BY DEF NodeAt
<1>2. Child(d, n, ok) = LookupModuleName(p, n, ok) BY <1>1 DEF Child
<1>3. /\ r \in Seq(Name) /\ Len(r) = Len(p) + 1 /\ r # <<>>
      /\ \A i \in 1..Len(p) : r[i] = p[i]
      /\ r[Len(p) + 1] = n
  BY Appended
<1>4. Len(p) \in Nat OBVIOUS
<1>. HIDE DEF r
<1>5. CASE top
  <2>1. Child(d, n, ok) = LookupTop(n) BY <1>2, <1>5 DEF LookupModuleName
  <2>2. r = <<n>> BY <1>5 DEF r
  <2>3. QED BY <1>5, <2>1, <2>2, TopChild DEF r
<1>6. ASSUME ~top PROVE r[1] \notin {cache, statusFile} /\ r[1][1] # "tsgo-"
  <2>1. CASE p = <<>>
    <3>1. Len(p) + 1 = 1 BY <2>1
    <3>2. r[1] = n BY <1>3, <3>1
    <3>3. QED BY <1>6, <2>1, <3>2
  <2>2. CASE p # <<>>
    <3>1. r[1] = p[1] BY <1>3, <1>4, <2>2
    <3>2. QED BY <1>1, <2>2, <3>1
  <2>3. QED BY <2>1, <2>2
<1>7. CASE ~top /\ ~Contains(n, "@")
  <2>1. Child(d, n, ok) = Node("moduleName", r) BY <1>2, <1>7 DEF LookupModuleName, r
  <2>2. r[1] \notin {cache, statusFile} /\ r[1][1] # "tsgo-" BY <1>6, <1>7
  <2>3. \A i \in DOMAIN r : ~Contains(r[i], "@")
    <3>1. DOMAIN r = 1..(Len(p) + 1) BY <1>3
    <3>2. \A i \in 1..(Len(p) + 1) : i \in 1..Len(p) \/ i = Len(p) + 1 BY <1>4
    <3>3. QED BY <1>1, <1>3, <1>7, <3>1, <3>2
  <2>4. ~IsTSGo(r) BY <2>2 DEF IsTSGo
  <2>5. r # <<statusFile>> BY <2>2
  <2>6. At(r) = {} BY <1>3, <2>2, <2>3, <2>4, <2>5, PlainPath
  <2>7. NodeAt(Node("moduleName", r), r) BY <2>2, <2>3 DEF NodeAt, Node
  <2>8. QED BY <2>1, <2>6, <2>7, GoodDir DEF Types, r
<1>8. CASE ~top /\ Contains(n, "@")
  <2>1. n \in Seq(Piece) BY DEF Name
  <2>2. PICK c \in Seq(Piece), v \in Seq(Piece) :
          n = Join(c, "@", v) /\ ~Contains(c, "@") /\ CutAt(n, "@") = <<c, v>>
    BY <1>8, <2>1, CutParts
  <2>. DEFINE mv == ParseModVersion(p \o <<c>>, v)
  <2>3. IsZipPath(p, c, v, <<>>) BY <1>1, <2>2 DEF IsZipPath
  <2>4. r = ZipPath(p, c, v, <<>>)
    <3>1. p \o <<n>> \in Seq(Name) BY <2>1
    <3>2. (p \o <<n>>) \o <<>> = p \o <<n>> BY <3>1, ConcatEmptySeq
    <3>3. r = p \o <<n>> BY AppendIsConcat DEF r
    <3>4. QED BY <2>2, <3>2, <3>3, Zenon DEF ZipPath, Join
  <2>5. r[1] \notin {cache, statusFile} /\ r[1][1] # "tsgo-" BY <1>6, <1>8
  <2>6. ~IsTSGo(r) BY <2>5 DEF IsTSGo
  <2>7. ~(Len(r) > 2 /\ SubSeq(r, 1, 2) = <<cache, download>>) BY <1>3, <2>5, FirstTwo
  <2>8. \E i \in DOMAIN r : Contains(r[i], "@") BY <2>3, <2>4, ZipPathNames
  <2>9. Parsed(r) = ParseZip(r) BY <1>3, <2>6, <2>7, <2>8, ParsedZipPath
  <2>10. ParseZip(r) = IF mv = None THEN Is("ENOENT") ELSE Obj("zip", mv, <<>>) BY <2>3, <2>4, ZipPathParsed
  <2>11. CutAt(n, "@")[1] = c /\ CutAt(n, "@")[2] = v BY <2>2
  <2>12. Child(d, n, ok) = IF mv = None \/ ~Found(mv, ok) THEN Errno("EIO")
                           ELSE NodeOf("underZipRoot", Obj("zipdir", mv, <<>>))
    BY <1>2, <1>8, <2>11 DEF LookupModuleName
  <2>. HIDE DEF mv
  <2>13. CASE mv = None
    <3>1. At(r) = {} BY <2>9, <2>10, <2>13, NotFound
    <3>2. QED BY <2>12, <2>13, <3>1, GoodErrno DEF r
  <2>14. CASE mv # None /\ ~Found(mv, ok)
    <3>1. Parsed(r) = Obj("zip", mv, <<>>) BY <2>9, <2>10, <2>14
    <3>2. ASSUME ok PROVE At(r) = {}
      <4>1. ~Found(mv, TRUE) BY <2>14, <3>2 DEF Found
      <4>2. Describe(Parsed(r), TRUE) = Is("EIO") BY <3>1, <4>1 DEF Describe, Obj
      <4>3. Is("EIO").kind \notin Kinds BY DEF Is, Obj, Kinds
      <4>4. QED BY <4>2, <4>3, NothingThere
    <3>3. Child(d, n, ok) = Errno("EIO") BY <2>12, <2>14
    <3>4. QED BY <3>2, <3>3, GoodErrno DEF r
  <2>15. CASE mv # None /\ Found(mv, ok)
    <3>1. Parsed(r) = Obj("zip", mv, <<>>) BY <2>9, <2>10, <2>15
    <3>2. mv \in DOMAIN Files /\ ok BY <2>15 DEF Found
    <3>3. IsThere(mv, <<>>) /\ StoreStat(mv, <<>>) = Obj("zipdir", mv, <<>>) BY <3>2, FilesAndDirs DEF IsThere
    <3>4. Child(d, n, ok) = NodeOf("underZipRoot", StoreStat(mv, <<>>)) BY <2>12, <2>15, <3>3
    <3>5. QED BY <1>3, <3>1, <3>2, <3>3, <3>4, GoodUnderZipRoot DEF r
  <2>16. QED BY <2>13, <2>14, <2>15
<1>9. QED BY <1>5, <1>7, <1>8

\* What is appended to is a prefix, too.
LEMMA ShorterPrefix ==
  ASSUME NEW q \in Seq(Name), NEW n \in Name, NEW f \in Seq(Name), Append(q, n) \in Prefixes(f)
  PROVE  IsPrefix(q, f) /\ Len(q) < Len(f)
<1>. DEFINE s == Append(q, n)
            k == Len(q)
            t == SubSeq(f, 1, k)
<1>1. PICK l \in 0..Len(f) : s = SubSeq(f, 1, l) BY DEF Prefixes
<1>2. Len(f) \in Nat /\ k \in Nat /\ Len(s) = k + 1 /\ \A i \in 1..k : s[i] = q[i] OBVIOUS
<1>3. 1 \in 1..(Len(f) + 1) /\ 1 <= l + 1 /\ l - 1 + 1 = l BY <1>2
<1>4. /\ Len(SubSeq(f, 1, l)) = l - 1 + 1
      /\ \A i \in 1..(l - 1 + 1) : SubSeq(f, 1, l)[i] = f[1 + i - 1]
  BY <1>3, PartPlaces
<1>. HIDE DEF s, k
<1>5. l = k + 1 BY <1>1, <1>2, <1>3, <1>4
<1>6. \A i \in 1..k : i \in 1..(l - 1 + 1) /\ 1 + i - 1 = i BY <1>2, <1>5
<1>7. \A i \in 1..k : f[i] = q[i] BY <1>1, <1>2, <1>4, <1>6
<1>8. k \in 0..Len(f) /\ 1 <= k + 1 /\ k - 1 + 1 = k /\ k < Len(f) /\ k <= Len(f) BY <1>2, <1>5
<1>9. /\ t \in Seq(Name)
      /\ Len(t) = k - 1 + 1
      /\ \A i \in 1..(k - 1 + 1) : t[i] = f[1 + i - 1]
  BY <1>3, <1>8, PartPlaces
<1>10. Len(t) = Len(q) /\ \A i \in 1..Len(t) : t[i] = q[i]
  <2>1. Len(t) = k /\ \A i \in 1..k : t[i] = f[i] BY <1>6, <1>8, <1>9
  <2>2. QED BY <1>7, <2>1 DEF k
<1>. HIDE DEF t
<1>11. t = q BY <1>9, <1>10, SameSeq
<1>12. SubSeq(q, 1, Len(q)) = q BY SubSeqFull
<1>13. QED BY <1>8, <1>11, <1>12 DEF IsPrefix, t, k

LEMMA UnderZipRootChild ==
  ASSUME NEW p \in Seq(Name), NEW d, NodeAt(d, p), d.t = "underZipRoot", NEW n \in Name, NEW ok \in BOOLEAN
  PROVE  GoodChild(Child(d, n, ok), Append(p, n), ok)
<1>. DEFINE r == Append(p, n)
            mv == d.obj.mv
            q == d.obj.path
            s == Append(q, n)
<1>1. /\ mv \in DOMAIN Files /\ d.obj.kind \in {"file", "zipdir"} /\ d.obj = StoreStat(mv, q)
      /\ Parsed(p) = Obj("zip", mv, q)
  BY DEF NodeAt
<1>2. Child(d, n, ok) = LookupUnderZipRoot(d.obj, n, ok) BY DEF Child
<1>3. r \in Seq(Name) BY Appended
<1>4. q \in Seq(Name) /\ Parsed(r) = Obj("zip", mv, s) BY <1>1, Extend
<1>5. Describe(Parsed(r), TRUE) = StoreStat(mv, s) BY <1>1, <1>4 DEF Describe, Found, Obj
<1>6. ~IsThere(mv, s) => At(r) = {}
  <2>1. SUFFICES ASSUME ~IsThere(mv, s) PROVE At(r) = {} OBVIOUS
  <2>2. StoreStat(mv, s) = Is("ENOENT") BY <1>1, <2>1 DEF IsThere, StoreStat
  <2>3. Is("ENOENT").kind \notin Kinds BY DEF Is, Obj, Kinds
  <2>4. QED BY <1>5, <2>2, <2>3, NothingThere
<1>7. CASE d.obj.kind # "zipdir"
  <2>1. Child(d, n, ok) = Errno("ENOTDIR") BY <1>2, <1>7 DEF LookupUnderZipRoot
  <2>2. q \in Files[mv] BY <1>1, <1>7 DEF StoreStat, Is, Obj
  <2>3. ASSUME IsThere(mv, s) PROVE FALSE
    <3>1. PICK f \in Files[mv] : s \in Prefixes(f)
      <4>1. s \in Seq(Name) BY <1>4
      <4>2. QED BY <2>3, <4>1, PrefixPath DEF IsThere, Dirs
    <3>2. f \in Seq(Name) BY <1>1, FilesAndDirs
    <3>3. IsPrefix(q, f) /\ Len(q) < Len(f) BY <1>4, <3>1, <3>2, ShorterPrefix
    <3>4. q = f BY <1>1, <2>2, <3>3, FilesAssumption
    <3>5. QED BY <3>2, <3>3, <3>4
  <2>4. QED BY <1>6, <2>1, <2>3, GoodErrno
<1>8. CASE d.obj.kind = "zipdir" /\ ~ok
  <2>1. Child(d, n, ok) = Errno("EIO") BY <1>2, <1>8 DEF LookupUnderZipRoot
  <2>2. QED BY <1>8, <2>1, GoodErrno
<1>9. CASE d.obj.kind = "zipdir" /\ ok /\ ~IsThere(mv, s)
  <2>1. StoreStat(mv, s).kind = "ENOENT" BY <1>1, <1>9 DEF IsThere, StoreStat, Is, Obj
  <2>2. Child(d, n, ok) = Errno("ENOENT") BY <1>2, <1>9, <2>1 DEF LookupUnderZipRoot
  <2>3. QED BY <1>6, <1>9, <2>2, GoodErrno
<1>10. CASE d.obj.kind = "zipdir" /\ ok /\ IsThere(mv, s)
  <2>1. StoreStat(mv, s).kind # "ENOENT" BY <1>1, <1>10, FilesAndDirs DEF IsThere, Obj
  <2>2. Child(d, n, ok) = NodeOf("underZipRoot", StoreStat(mv, s)) BY <1>2, <1>10, <2>1 DEF LookupUnderZipRoot
  <2>3. QED BY <1>3, <1>4, <1>10, <2>2, GoodUnderZipRoot
<1>11. QED BY <1>7, <1>8, <1>9, <1>10

\* Where the metadata files are, under cache.
LEMMA CacheMeta ==
  ASSUME NEW p \in Seq(Name), p[1] = cache, At(p) # {}
  PROVE  Len(p) >= 5 /\ p[Len(p) - 1] = atV /\ \A i \in 3..(Len(p) - 2) : p[i] # atV
<1>1. PICK o : o \in At(p) OBVIOUS
<1>2. PICK mv \in DOMAIN Files \ Toolchains, ext \in Exts : p = MetaFile(mv, ext) BY <1>1, CachePlaces DEF IsMeta
<1>. DEFINE segs == EscapePath(mv.mod)
            n == EscapeAll(mv.ver) \o <<".", ext>>
            k == Len(segs)
<1>3. segs \in Seq(Name) /\ segs # <<>> /\ (\A i \in 1..k : segs[i] # atV) /\ IsDownload(p, segs, n) BY <1>2, MetaPath
<1>. HIDE DEF segs, n
<1>4. Len(p) = k + 4 /\ (\A i \in 1..k : p[i + 2] = segs[i]) /\ p[k + 3] = atV BY <1>3 DEF IsDownload
<1>5. k \in Nat /\ k # 0 BY <1>3
<1>. HIDE DEF k
<1>6. Len(p) >= 5 /\ Len(p) - 1 = k + 3 BY <1>4, <1>5
<1>7. ASSUME NEW i \in 3..(Len(p) - 2) PROVE p[i] # atV
  <2>1. i - 2 \in 1..k /\ (i - 2) + 2 = i BY <1>4, <1>5
  <2>2. QED BY <1>3, <1>4, <2>1 DEF k
<1>8. QED BY <1>4, <1>6, <1>7

\* A second name.
LEMMA SecondName ==
  ASSUME NEW S, NEW x \in S, NEW y \in S
  PROVE  Append(<<x>>, y) = <<x, y>>
<1>. DEFINE s == Append(<<x>>, y)
            t == <<x, y>>
<1>1. <<x>> \in Seq(S) /\ Len(<<x>>) = 1 /\ <<x>>[1] = x OBVIOUS
<1>2. s \in Seq(S) /\ Len(s) = 2 /\ s[1] = x /\ s[2] = y BY <1>1
<1>3. t \in Seq(S) /\ Len(t) = 2 /\ t[1] = x /\ t[2] = y OBVIOUS
<1>. HIDE DEF s, t
<1>4. s = t BY <1>2, <1>3, SameSeq
<1>5. QED BY <1>4 DEF s, t

LEMMA CacheRootChild ==
  ASSUME NEW p \in Seq(Name), NEW d, NodeAt(d, p), d.t = "cacheRoot", NEW n \in Name, NEW ok \in BOOLEAN
  PROVE  GoodChild(Child(d, n, ok), Append(p, n), ok)
<1>. DEFINE r == Append(p, n)
<1>1. p = <<cache>> BY DEF NodeAt
<1>2. r = <<cache, n>> BY <1>1, NamesWithoutAt, SecondName
<1>3. r \in Seq(Name) /\ Len(r) = 2 /\ r[1] = cache BY <1>2, NamesWithoutAt
<1>. HIDE DEF r
<1>4. At(r) = {}
  <2>1. ~(Len(r) >= 5) BY <1>3
  <2>2. QED BY <1>3, <2>1, CacheMeta
<1>5. Child(d, n, ok) = IF n = download THEN Node("download", <<>>) ELSE Errno("ENOENT") BY DEF Child, LookupCacheRoot
<1>6. CASE n = download
  <2>1. <<cache, n>> \o <<>> = <<cache, n>> /\ <<>> \in Seq(Name) OBVIOUS
  <2>2. r = <<cache, download>> \o <<>> BY <1>2, <1>6, <2>1
  <2>3. NodeAt(Node("download", <<>>), r) BY <2>1, <2>2 DEF NodeAt, Node
  <2>4. QED BY <1>4, <1>5, <1>6, <2>3, GoodDir DEF Types, r
<1>7. CASE n # download BY <1>4, <1>5, <1>7, GoodErrno DEF r
<1>8. QED BY <1>6, <1>7

\* What is between two names and a third.
LEMMA MiddleOf ==
  ASSUME NEW S, NEW x \in S, NEW y \in S, NEW q \in Seq(S), NEW z \in S, NEW r, r = Append(<<x, y>> \o q, z)
  PROVE  /\ r \in Seq(S) /\ r[1] = x /\ r[2] = y /\ Len(r) = Len(q) + 3
         /\ \A i \in 1..Len(q) : r[i + 2] = q[i]
         /\ r = <<x, y>> \o q \o <<z>> /\ SubSeq(r, 3, Len(r) - 1) = q
<1>. DEFINE s == <<x, y>> \o q
            k == Len(q)
            m == k + 2
            t == SubSeq(r, 3, m)
<1>1. k \in Nat OBVIOUS
<1>2. s \in Seq(S) /\ Len(s) = k + 2 /\ s[1] = x /\ s[2] = y /\ \A i \in 1..k : s[i + 2] = q[i] BY TwoAndRest
<1>. HIDE DEF s
<1>3. r = Append(s, z) BY DEF s
<1>4. r \in Seq(S) /\ Len(r) = Len(s) + 1 /\ \A i \in 1..Len(s) : r[i] = s[i] BY <1>2, <1>3
<1>5. r = s \o <<z>> BY <1>2, <1>3, AppendIsConcat
<1>. HIDE DEF k
<1>6. Len(r) = k + 3 /\ r[1] = x /\ r[2] = y /\ \A i \in 1..k : r[i + 2] = q[i]
  <2>1. 1 \in 1..(k + 2) /\ 2 \in 1..(k + 2) /\ \A i \in 1..k : i + 2 \in 1..(k + 2) BY <1>1
  <2>2. QED BY <1>1, <1>2, <1>4, <2>1
<1>7. t = q
  <2>1. 3 \in 1..(Len(r) + 1) /\ m \in 0..Len(r) /\ 3 <= m + 1 /\ m - 3 + 1 = k BY <1>1, <1>6
  <2>2. \A i \in 1..k : 3 + i - 1 = i + 2 BY <1>1
  <2>. HIDE DEF m
  <2>3. /\ t \in Seq(S)
        /\ Len(t) = m - 3 + 1
        /\ \A i \in 1..(m - 3 + 1) : t[i] = r[3 + i - 1]
    BY <1>4, <2>1, PartPlaces
  <2>. HIDE DEF t
  <2>4. Len(t) = k /\ \A i \in 1..k : t[i] = q[i] BY <1>6, <2>1, <2>2, <2>3
  <2>5. QED BY <2>3, <2>4, SameSeq DEF k
<1>8. Len(r) - 1 = m BY <1>1, <1>6
<1>9. QED BY <1>4, <1>5, <1>6, <1>7, <1>8 DEF s, k

LEMMA DownloadChild ==
  ASSUME NEW p \in Seq(Name), NEW d, NodeAt(d, p), d.t = "download", NEW n \in Name, NEW ok \in BOOLEAN
  PROVE  GoodChild(Child(d, n, ok), Append(p, n), ok)
<1>. DEFINE r == Append(p, n)
            segs == d.segs
            k == Len(segs)
<1>1. segs \in Seq(Name) /\ p = <<cache, download>> \o segs /\ \A i \in DOMAIN segs : segs[i] # atV BY DEF NodeAt
<1>2. cache \in Name /\ download \in Name /\ atV \in Name BY NamesWithoutAt
<1>3. /\ r \in Seq(Name) /\ r[1] = cache /\ r[2] = download /\ Len(r) = Len(segs) + 3
      /\ \A i \in 1..Len(segs) : r[i + 2] = segs[i]
      /\ r = <<cache, download>> \o segs \o <<n>> /\ SubSeq(r, 3, Len(r) - 1) = segs
  <2>1. r = Append(<<cache, download>> \o segs, n) BY <1>1
  <2>. HIDE DEF r, segs
  <2>2. QED BY <1>1, <1>2, <2>1, MiddleOf
<1>4. r = <<cache, download>> \o Append(segs, n)
  <2>1. <<cache, download>> \in Seq(Name) BY <1>2
  <2>2. QED BY <1>1, <2>1, AppendSecond
<1>5. k \in Nat /\ DOMAIN segs = 1..k /\ Len(segs) = k BY <1>1
<1>. HIDE DEF r, segs, k
<1>6. At(r) = {}
  <2>1. SUFFICES ASSUME At(r) # {} PROVE FALSE OBVIOUS
  <2>2. Len(r) >= 5 /\ r[Len(r) - 1] = atV BY <1>3, <2>1, CacheMeta
  <2>3. k \in 1..k /\ Len(r) - 1 = k + 2 BY <1>3, <1>5, <2>2
  <2>4. QED BY <1>1, <1>3, <1>5, <2>2, <2>3
<1>7. Child(d, n, ok) = LookupDownload(segs, n) BY DEF Child, segs
<1>8. CASE n # atV
  <2>. DEFINE s == Append(segs, n)
  <2>1. Child(d, n, ok) = Node("download", s) BY <1>7, <1>8 DEF LookupDownload
  <2>2. s \in Seq(Name) /\ Len(s) = k + 1 /\ s[k + 1] = n /\ \A i \in 1..k : s[i] = segs[i] BY <1>1 DEF k
  <2>. HIDE DEF s
  <2>3. \A i \in DOMAIN s : s[i] # atV
    <3>1. DOMAIN s = 1..(k + 1) BY <2>2
    <3>2. \A i \in 1..(k + 1) : i \in 1..k \/ i = k + 1 BY <1>5
    <3>3. QED BY <1>1, <1>5, <1>8, <2>2, <3>1, <3>2
  <2>4. NodeAt(Node("download", s), r) BY <1>4, <2>2, <2>3 DEF NodeAt, Node, s
  <2>5. QED BY <1>6, <2>1, <2>4, GoodDir DEF Types, r
<1>9. CASE n = atV /\ ValidPath(segs)
  <2>1. Child(d, n, ok) = Node("atV", UnescapePath(segs)) BY <1>7, <1>9 DEF LookupDownload
  <2>2. NodeAt(Node("atV", UnescapePath(segs)), r)
    <3>. DEFINE c == Node("atV", UnescapePath(segs))
    <3>1. c.t = "atV" /\ c.segs = UnescapePath(segs) /\ c = [t |-> c.t, segs |-> c.segs, obj |-> c.obj, have |-> c.have]
      BY DEF Node
    <3>. HIDE DEF c
    <3>2. segs \in {SubSeq(r, 3, Len(r) - 1)} \cap Seq(Name) BY <1>1, <1>3
    <3>3. r = <<cache, download>> \o segs \o <<atV>> BY <1>3, <1>9
    <3>4. \E s \in {SubSeq(r, 3, Len(r) - 1)} \cap Seq(Name) :
            r = <<cache, download>> \o s \o <<atV>> /\ ValidPath(s) /\ c.segs = UnescapePath(s)
      BY <1>9, <3>1, <3>2, <3>3, Zenon
    <3>5. QED BY <3>1, <3>4 DEF NodeAt, c
  <2>3. QED BY <1>6, <2>1, <2>2, GoodDir DEF Types, r
<1>10. CASE n = atV /\ ~ValidPath(segs)
  <2>1. Child(d, n, ok) = Errno("EIO") BY <1>7, <1>10 DEF LookupDownload
  <2>2. QED BY <1>6, <2>1, GoodErrno DEF r
<1>11. QED BY <1>8, <1>9, <1>10

LEMMA StatusFileChild ==
  ASSUME NEW p \in Seq(Name), NEW d, NodeAt(d, p), d.t = "statusFile", NEW n \in Name, NEW ok \in BOOLEAN
  PROVE  GoodChild(Child(d, n, ok), Append(p, n), ok)
<1>. DEFINE r == Append(p, n)
<1>1. p = <<statusFile>> BY DEF NodeAt
<1>2. r = <<statusFile, n>> BY <1>1, NamesWithoutAt, SecondName
<1>3. r \in Seq(Name) /\ Len(r) = 2 /\ r[1] = statusFile /\ r # <<statusFile>> BY <1>2, NamesWithoutAt
<1>. HIDE DEF r
<1>4. statusFile[1] = "." /\ ~Contains(statusFile, "@") BY NamesWithoutAt
<1>5. ~IsTSGo(r) BY <1>3, <1>4 DEF IsTSGo
<1>6. ~(Len(r) > 2) BY <1>3
<1>7. At(r) = {}
  <2>1. CASE \A i \in DOMAIN r : ~Contains(r[i], "@") BY <1>3, <1>5, <1>6, <2>1, PlainPath
  <2>2. CASE \E i \in DOMAIN r : Contains(r[i], "@")
    <3>1. Parsed(r) = ParseZip(r) BY <1>3, <1>5, <1>6, <2>2, ParsedZipPath
    <3>2. PICK a, c, v, b : IsZipPath(a, c, v, b) /\ r = ZipPath(a, c, v, b) BY <1>3, <2>2, ZipPathParts
    <3>3. a # <<>> /\ a[1] = statusFile BY <1>3, <1>4, <3>2, ZipPathFirst
    <3>. DEFINE m == a \o <<c>>
                mv == ParseModVersion(m, v)
    <3>4. a \in Seq(Seq(Piece)) /\ c \in Seq(Piece) BY <3>2 DEF IsZipPath, Name
    <3>5. 1 \in DOMAIN m /\ m[1] = statusFile BY <3>3, <3>4
    <3>. HIDE DEF m
    <3>6. ~ValidPath(m) BY <1>4, <3>5 DEF ValidPath
    <3>7. mv = None BY <3>6 DEF ParseModVersion
    <3>8. ParseZip(r) = IF mv = None THEN Is("ENOENT") ELSE Obj("zip", mv, b) BY <3>2, ZipPathParsed DEF m
    <3>9. Parsed(r) = Is("ENOENT") BY <3>1, <3>7, <3>8
    <3>10. QED BY <3>9, NotFound
  <2>3. QED BY <2>1, <2>2
<1>8. Child(d, n, ok) = Errno("ENOTDIR") BY DEF Child
<1>9. QED BY <1>7, <1>8, GoodErrno DEF r

LEMMA MemFileChild ==
  ASSUME NEW p \in Seq(Name), NEW d, NodeAt(d, p), d.t = "memFile", NEW n \in Name, NEW ok \in BOOLEAN
  PROVE  GoodChild(Child(d, n, ok), Append(p, n), ok)
<1>. DEFINE r == Append(p, n)
<1>1. UnderAtV(p) \/ (d.obj.mv \in Toolchains /\ p = Extracted(d.obj.mv)) BY DEF NodeAt
<1>2. r \in Seq(Name) /\ Len(r) = Len(p) + 1 /\ r # <<>> /\ \A i \in 1..Len(p) : r[i] = p[i] BY Appended
<1>3. Len(p) \in Nat OBVIOUS
<1>. HIDE DEF r
<1>4. ASSUME UnderAtV(p) PROVE At(r) = {}
  <2>1. Len(p) >= 5 /\ SubSeq(p, 1, 2) = <<cache, download>> /\ p[Len(p) - 1] = atV BY <1>4 DEF UnderAtV
  <2>2. p[1] = cache
    <3>1. Len(p) >= 2 BY <1>3, <2>1
    <3>2. SubSeq(p, 1, 2) = <<p[1], p[2]>> BY <3>1, FirstTwo
    <3>3. QED BY <2>1, <3>2
  <2>3. r[1] = cache /\ r[Len(r) - 2] = atV
    <3>1. 1 \in 1..Len(p) /\ Len(p) - 1 \in 1..Len(p) /\ Len(r) - 2 = Len(p) - 1 BY <1>2, <1>3, <2>1
    <3>2. QED BY <1>2, <2>1, <2>2, <3>1
  <2>4. Len(r) - 2 \in 3..(Len(r) - 2) BY <1>2, <1>3, <2>1
  <2>5. QED BY <1>2, <2>3, <2>4, CacheMeta
<1>5. ASSUME d.obj.mv \in Toolchains, p = Extracted(d.obj.mv) PROVE At(r) = {}
  <2>. DEFINE mv == d.obj.mv
  <2>1. <<>> \in Seq(Name) OBVIOUS
  <2>2. Len(p) = 2 /\ IsTSGo(p) /\ Parsed(p) = Obj("extracted", mv, <<>>) BY <1>5, <2>1, ToolchainPath
  <2>. DEFINE gm == ParseTSGoPath(p)
  <2>3. gm = Obj("extracted", mv, <<>>) /\ gm.kind = "extracted" BY <2>2 DEF Parsed, Obj
  <2>. HIDE DEF gm, mv
  <2>4. PICK o \in Platforms, h \in Hashes :
          /\ Len(p) >= 2 /\ p[1] = PlatformName(o)
          /\ \/ p[2] = <<h>> /\ gm = Obj("zip", TSGo(o, h), SubSeq(p, 3, Len(p)))
             \/ p[2] = <<h, ".", "extracted">> /\ gm = Obj("extracted", TSGo(o, h), <<>>)
    <3>1. gm = ParseTSGoPath(p) /\ gm.kind \in {"zip", "extracted"} BY <2>3 DEF gm
    <3>2. IsTSGo(p) BY <2>2
    <3>3. QED BY <3>1, <3>2, ToolchainFound
  <2>5. p[2] = <<h, ".", "extracted">> BY <2>3, <2>4 DEF Obj
  <2>6. Len(r) = 3 /\ r[1] = p[1] /\ r[2] = p[2] BY <1>2, <2>2
  <2>7. Len(r) >= 2 BY <2>6
  <2>8. IsTSGo(r) /\ ParseTSGoPath(r) = Obj("extracted", TSGo(o, h), <<>>)
    BY <1>2, <2>4, <2>5, <2>6, <2>7, ToolchainParsed
  <2>9. Describe(Parsed(r), TRUE).kind = "extracted" BY <2>8 DEF Parsed, Describe, Obj
  <2>10. SUFFICES ASSUME NEW x, x \in At(r) PROVE FALSE OBVIOUS
  <2>11. x.kind = "extracted" BY <2>9, <2>10, Complete
  <2>12. ~IsMeta(r, x) /\ ~IsStatus(r, x) BY <2>11 DEF IsMeta, IsStatus, Is, Obj
  <2>13. ~InModule(r, x) BY <2>11, FilesAndDirs DEF InModule, IsThere, Obj
  <2>14. ~IsExtracted(r, x)
    <3>1. \A w \in Toolchains : Len(Extracted(w)) = 2 BY <2>1, ToolchainPath
    <3>2. Len(r) # 2 BY <2>6
    <3>3. QED BY <3>1, <3>2, Zenon DEF IsExtracted
  <2>15. QED BY <2>10, <2>12, <2>13, <2>14, AtPlaces
<1>6. At(r) = {} BY <1>1, <1>4, <1>5
<1>7. Child(d, n, ok) = Errno("ENOTDIR") BY DEF Child
<1>8. QED BY <1>6, <1>7, GoodErrno DEF r

\* A memFile that is right for a path.
LEMMA GoodMemFile ==
  ASSUME NEW p, NEW o, NEW ok, o \in At(p) \/ (At(p) = {} /\ AsWritten(o)),
         \/ o.kind = "meta" /\ UnderAtV(p)
         \/ o.kind = "extracted" /\ o.mv \in Toolchains /\ p = Extracted(o.mv)
  PROVE  GoodChild(NodeOf("memFile", o), p, ok)
<1>. DEFINE d == NodeOf("memFile", o)
<1>1. d = [t |-> "memFile", segs |-> <<>>, obj |-> o, have |-> TRUE] BY DEF NodeOf
<1>2. d.t = "memFile" /\ d.obj = o /\ d = [t |-> d.t, segs |-> d.segs, obj |-> d.obj, have |-> d.have] BY <1>1
<1>. HIDE DEF d
<1>3. NodeAt(d, p) BY <1>2 DEF NodeAt
<1>4. FuseServes(p, o, ok) BY DEF FuseServes
<1>5. QED BY <1>2, <1>3, <1>4 DEF GoodChild, Types, d

LEMMA TSGoRootChild ==
  ASSUME NEW p \in Seq(Name), NEW d, NodeAt(d, p), d.t = "tsgoRoot", NEW n \in Name, NEW ok \in BOOLEAN
  PROVE  GoodChild(Child(d, n, ok), Append(p, n), ok)
<1>. DEFINE r == Append(p, n)
            o == d.segs
            x == PlatformName(o)
            extracted == Ext(n) = "extracted"
            hash == IF extracted THEN TrimExt(n) ELSE n
            h == hash[1]
            mv == TSGo(o, h)
            good == Len(hash) = 1 /\ h \in Hashes
            lower == h \in LowerHashes
<1>1. o \in Platforms /\ p = <<x>> BY DEF NodeAt, PlatformName
<1>2. x \in Name /\ x[1] = "tsgo-" /\ CutAt(Tail(x), "-") = <<<<o[1]>>, <<o[2]>>>> BY <1>1, PlatformCut
<1>3. r = <<x, n>>
  <2>. HIDE DEF x
  <2>1. QED BY <1>1, <1>2, SecondName
<1>4. r \in Seq(Name) /\ Len(r) = 2 /\ r[1] = x /\ r[2] = n /\ r # <<>>
  <2>. HIDE DEF x, r
  <2>1. QED BY <1>2, <1>3
<1>. HIDE DEF r, x, o
<1>5. SubSeq(r, 3, Len(r)) = <<>>
  <2>1. <<>> \in Seq(Name) /\ Len(r) >= 2 BY <1>4
  <2>2. SubSeq(<<x, n>> \o <<>>, 3, Len(<<x, n>> \o <<>>)) = <<>> BY <1>2, <2>1, TwoAndRest
  <2>3. r \o <<>> = r BY <1>4, ConcatEmptySeq
  <2>4. QED BY <1>3, <2>2, <2>3
<1>6. IsTSGo(r) BY <1>2, <1>4, Zenon DEF IsTSGo
<1>7. Child(d, n, ok) = IF ~(good /\ lower) THEN Errno("ENOENT")
                        ELSE IF ~Found(mv, ok) THEN Errno("EIO")
                        ELSE IF extracted THEN NodeOf("memFile", Obj("extracted", mv, <<>>))
                        ELSE NodeOf("underZipRoot", Obj("zipdir", mv, <<>>))
  <2>1. good /\ lower <=> Len(hash) = 1 /\ lower BY ToolchainsAssumption
  <2>2. QED BY <2>1 DEF Child, LookupTSGoRoot, TSGo, o
<1>8. Parsed(r) = IF ~good THEN Is("ENOENT")
                  ELSE IF extracted THEN Obj("extracted", mv, <<>>) ELSE Obj("zip", mv, <<>>)
  <2>. DEFINE platform == CutAt(Tail(r[1]), "-")
  <2>1. platform = <<<<o[1]>>, <<o[2]>>>> BY <1>2, <1>4
  <2>2. IsPlatform(platform) BY <1>1, <2>1 DEF IsPlatform
  <2>3. Len(platform) = 2 /\ platform[1][1] = o[1] /\ platform[2][1] = o[2] BY <2>1
  <2>. HIDE DEF platform
  <2>4. Len(r) # 1 /\ Len(platform) # 1 BY <1>4, <2>3
  <2>5. ParseTSGoPath(r) = IF ~good THEN Is("ENOENT")
                           ELSE IF extracted THEN Obj("extracted", mv, <<>>) ELSE Obj("zip", mv, <<>>)
    BY <1>4, <1>5, <2>2, <2>3, <2>4 DEF ParseTSGoPath, TSGo, platform
  <2>6. QED BY <1>6, <2>5 DEF Parsed
<1>9. CASE ~good
  <2>1. At(r) = {} BY <1>8, <1>9, NotFound
  <2>2. Child(d, n, ok) = Errno("ENOENT") BY <1>7, <1>9
  <2>3. QED BY <2>1, <2>2, GoodErrno DEF r
<1>10. mv.mod = TailscaleGo /\ mv.ver = TSGoVersion(o[1], o[2], h) BY DEF TSGo
<1>11. mv.ver[1] = "tsgo-" /\ mv.ver[2] = o[1] /\ mv.ver[4] = o[2] /\ mv.ver[6] = h BY <1>10 DEF TSGoVersion
<1>12. mv \in DOMAIN Files => mv \in Toolchains BY <1>10, <1>11 DEF Toolchains
<1>13. ASSUME good, mv \notin DOMAIN Files
       PROVE  At(r) = {}
  <2>1. SUFFICES ASSUME NEW y, y \in At(r) PROVE FALSE OBVIOUS
  <2>2. y = Describe(Parsed(r), TRUE) /\ y.kind \in Kinds BY <2>1, Complete
  <2>3. extracted
    <3>1. SUFFICES ASSUME ~extracted PROVE FALSE OBVIOUS
    <3>2. Parsed(r) = Obj("zip", mv, <<>>) BY <1>8, <1>13, <3>1
    <3>3. y = Is("EIO") BY <1>13, <2>2, <3>2 DEF Describe, Found, Obj
    <3>4. Is("EIO").kind \notin Kinds BY DEF Is, Obj, Kinds
    <3>5. QED BY <2>2, <3>3, <3>4, Zenon
  <2>4. y = Obj("extracted", mv, <<>>)
    <3>1. Parsed(r) = Obj("extracted", mv, <<>>) BY <1>8, <1>13, <2>3
    <3>2. QED BY <2>2, <3>1 DEF Describe, Obj
  <2>5. y.kind = "extracted" /\ y.mv = mv BY <2>4 DEF Obj
  <2>. HIDE DEF mv
  <2>6. ~IsMeta(r, y) /\ ~IsStatus(r, y) BY <2>5 DEF IsMeta, IsStatus, Is, Obj
  <2>7. ~InModule(r, y) BY <2>5, FilesAndDirs DEF InModule, IsThere, Obj
  <2>8. IsExtracted(r, y) BY <2>1, <2>6, <2>7, AtPlaces
  <2>9. mv \in Toolchains BY <2>5, <2>8 DEF IsExtracted, Obj
  <2>10. QED BY <1>13, <2>9 DEF Toolchains
<1>14. ASSUME ~lower PROVE mv \notin DOMAIN Files
  <2>1. SUFFICES ASSUME mv \in DOMAIN Files PROVE FALSE OBVIOUS
  <2>2. PICK w \in Platforms, g \in LowerHashes : mv.ver = TSGoVersion(w[1], w[2], g)
    <3>1. mv \in Toolchains BY <1>12, <2>1
    <3>. HIDE DEF mv
    <3>2. QED BY <3>1, ToolchainsAssumption
  <2>3. mv.ver[6] = g BY <2>2 DEF TSGoVersion
  <2>4. QED BY <1>11, <1>14, <2>3
<1>15. CASE good /\ ~lower
  <2>1. At(r) = {} BY <1>13, <1>14, <1>15
  <2>2. Child(d, n, ok) = Errno("ENOENT") BY <1>7, <1>15
  <2>3. QED BY <2>1, <2>2, GoodErrno DEF r
<1>16. CASE good /\ lower /\ ~Found(mv, ok)
  <2>1. Child(d, n, ok) = Errno("EIO") BY <1>7, <1>16
  <2>2. ASSUME ok PROVE At(r) = {}
    <3>1. mv \notin DOMAIN Files BY <1>16, <2>2 DEF Found
    <3>2. QED BY <1>13, <1>16, <3>1
  <2>3. QED BY <2>1, <2>2, GoodErrno DEF r
<1>17. CASE good /\ lower /\ Found(mv, ok) /\ extracted
  <2>1. mv \in Toolchains BY <1>12, <1>17 DEF Found
  <2>2. n = <<h, ".", "extracted">>
    <3>1. n \in Seq(Piece) /\ HasExt(n) BY <1>17 DEF Name, HasExt
    <3>2. TrimExt(n) \in Seq(Piece) /\ n = TrimExt(n) \o <<".", "extracted">> BY <1>17, <3>1, ExtParts
    <3>3. Len(TrimExt(n)) = 1 /\ TrimExt(n)[1] = h BY <1>17
    <3>4. TrimExt(n) = <<h>> BY <3>2, <3>3
    <3>5. n = <<h>> \o <<".", "extracted">> BY <3>2, <3>4
    <3>6. QED BY <3>5
  <2>3. Extracted(mv) = r
    <3>1. Extracted(mv) = <<x, n>> BY <1>11, <2>2, Zenon DEF Extracted, PlatformName, x
    <3>2. QED BY <1>3, <3>1
  <2>. DEFINE y == Obj("extracted", mv, <<>>)
  <2>4. y.kind = "extracted" /\ y.mv = mv BY DEF Obj
  <2>5. y \in At(r) BY <2>1, <2>3, AtPlaces DEF IsExtracted
  <2>6. Child(d, n, ok) = NodeOf("memFile", y) BY <1>7, <1>17
  <2>. HIDE DEF y, mv
  <2>7. QED BY <2>1, <2>3, <2>4, <2>5, <2>6, GoodMemFile DEF r
<1>18. CASE good /\ lower /\ Found(mv, ok) /\ ~extracted
  <2>1. Parsed(r) = Obj("zip", mv, <<>>) BY <1>8, <1>18
  <2>2. mv \in DOMAIN Files /\ ok BY <1>18 DEF Found
  <2>3. Child(d, n, ok) = NodeOf("underZipRoot", Obj("zipdir", mv, <<>>)) BY <1>7, <1>18
  <2>. HIDE DEF mv
  <2>4. IsThere(mv, <<>>) /\ StoreStat(mv, <<>>) = Obj("zipdir", mv, <<>>) BY <2>2, FilesAndDirs DEF IsThere
  <2>5. QED BY <1>4, <2>1, <2>2, <2>3, <2>4, GoodUnderZipRoot DEF r
<1>19. QED BY <1>9, <1>17, <1>18, <1>15, <1>16

\* A version that is not escaped and is the escape of one, is that one.
LEMMA EscapeOf ==
  ASSUME NEW v \in Seq(Piece), NEW w \in Seq(Piece), v = EscapeAll(w), Range(v) \cap DOMAIN Unescaped = {}
  PROVE  v = w
<1>1. Len(v) = Len(w) /\ \A i \in 1..Len(w) : v[i] = Escape(w[i]) BY EscapedName
<1>2. DOMAIN v = 1..Len(v) OBVIOUS
<1>3. ASSUME NEW i \in 1..Len(v) PROVE v[i] = w[i]
  <2>1. v[i] \notin DOMAIN Unescaped BY <1>2 DEF Range
  <2>2. v[i] = Escape(w[i]) BY <1>1
  <2>3. QED BY <2>1, <2>2 DEF Escape
<1>4. QED BY <1>1, <1>3, SameSeq

LEMMA AtVChild ==
  ASSUME NEW p \in Seq(Name), NEW d, NodeAt(d, p), d.t = "atV", NEW n \in Name, NEW ok \in BOOLEAN
  PROVE  GoodChild(Child(d, n, ok), Append(p, n), ok)
<1>. DEFINE r == Append(p, n)
<1>1. PICK segs \in Seq(Name) :
        p = <<cache, download>> \o segs \o <<atV>> /\ ValidPath(segs) /\ d.segs = UnescapePath(segs)
  BY DEF NodeAt
<1>. DEFINE v == TrimExt(n)
            mv == [mod |-> UnescapePath(segs), ver |-> v]
            k == Len(segs)
<1>2. cache \in Name /\ download \in Name /\ atV \in Name /\ Contains(atV, "@") BY NamesWithoutAt
<1>3. r = DownloadPath(segs, n)
  <2>. DEFINE t == <<cache, download>> \o segs
  <2>1. t \in Seq(Name) BY <1>2, TwoAndRest
  <2>2. <<atV>> \in Seq(Name) BY <1>2
  <2>3. p = t \o <<atV>> BY <1>1
  <2>. HIDE DEF t
  <2>4. Append(t \o <<atV>>, n) = t \o Append(<<atV>>, n) BY <2>1, <2>2, AppendSecond
  <2>5. Append(<<atV>>, n) = <<atV, n>> BY <1>2, SecondName
  <2>6. QED BY <2>3, <2>4, <2>5 DEF DownloadPath, t
<1>4. r \in Seq(Name) /\ IsDownload(r, segs, n) BY <1>3, DownloadPlaces
<1>. HIDE DEF r
<1>5. segs # <<>> /\ \A i \in 1..k : segs[i] # atV BY <1>1, <1>2 DEF ValidPath
<1>6. k \in Nat /\ k # 0 BY <1>5
<1>7. Len(r) = k + 4 /\ r[1] = cache /\ r[2] = download /\ r[k + 3] = atV BY <1>4 DEF IsDownload
<1>8. UnderAtV(r)
  <2>1. Len(r) >= 5 /\ Len(r) >= 2 /\ Len(r) - 1 = k + 3 BY <1>6, <1>7
  <2>2. SubSeq(r, 1, 2) = <<r[1], r[2]>> BY <1>4, <2>1, FirstTwo
  <2>3. QED BY <1>7, <2>1, <2>2 DEF UnderAtV
<1>9. Child(d, n, ok) = LookupUnderModule(UnescapePath(segs), n, ok) BY <1>1 DEF Child
<1>10. ASSUME NEW y, y \in At(r)
       PROVE  \E w \in DOMAIN Files \ Toolchains :
                /\ y = Obj("meta", w, <<<<Ext(n)>>>>) /\ Ext(n) \in Exts
                /\ w.mod = UnescapePath(segs) /\ EscapeAll(w.ver) = v
  <2>1. PICK w \in DOMAIN Files \ Toolchains, ext \in Exts : r = MetaFile(w, ext) /\ y = Obj("meta", w, <<<<ext>>>>)
    <3>1. IsMeta(r, y) BY <1>7, <1>10, CachePlaces
    <3>2. QED BY <3>1, Zenon DEF IsMeta
  <2>. DEFINE s == EscapePath(w.mod)
              m == EscapeAll(w.ver) \o <<".", ext>>
  <2>2. s \in Seq(Name) /\ IsDownload(r, s, m) BY <2>1, MetaPath
  <2>3. EscapeAll(w.ver) \in Seq(Piece) /\ EscapeAll(w.ver) # <<>> /\ ext \in Piece BY ModVersionOf, NamesAssumption
  <2>4. Ext(m) = ext /\ TrimExt(m) = EscapeAll(w.ver) BY <2>3, ExtOf
  <2>. HIDE DEF s, m
  <2>5. Len(s) = k /\ r[Len(s) + 4] = m
    <3>1. Len(s) \in Nat /\ Len(s) + 4 = k + 4 BY <1>7, <2>2 DEF IsDownload
    <3>2. Len(s) = k BY <1>6, <3>1
    <3>3. QED BY <2>2, <3>2 DEF IsDownload
  <2>6. m = n BY <1>4, <2>5 DEF IsDownload
  <2>7. s = segs
    <3>1. \A i \in 1..k : s[i] = r[i + 2] /\ segs[i] = r[i + 2] BY <1>4, <2>2, <2>5 DEF IsDownload
    <3>2. \A i \in 1..Len(s) : s[i] = segs[i] BY <2>5, <3>1
    <3>3. QED BY <2>2, <2>5, <3>2, SameSeq
  <2>8. w.mod = UnescapePath(segs)
    <3>1. w.mod \in Seq(Name) BY FilesAssumption
    <3>2. \A z \in Range(w.mod) : Range(z) \cap DOMAIN Unescaped = {} BY ModulesAssumption
    <3>3. UnescapePath(EscapePath(w.mod)) = w.mod BY <3>1, <3>2, EscapedPath
    <3>4. QED BY <2>7, <3>3 DEF s
  <2>9. QED BY <2>1, <2>4, <2>6, <2>8, Zenon
<1>. DEFINE meta == Ext(n) \in Exts /\ FoundMeta(mv, ok)
<1>. DEFINE other == Ext(n) = "partial" \/ IsInfoTmp(n)
<1>11. CASE other
  <2>1. Child(d, n, ok) = Errno("ENOENT") BY <1>9, <1>11 DEF LookupUnderModule
  <2>2. Ext(n) \notin Exts BY <1>11 DEF Exts, IsInfoTmp
  <2>3. At(r) = {} BY <1>10, <2>2
  <2>4. QED BY <2>1, <2>3, GoodErrno DEF r
<1>12. CASE ~other /\ ~meta
  <2>1. Child(d, n, ok) = Errno("EIO") BY <1>9, <1>12 DEF LookupUnderModule
  <2>2. CASE ~ok \/ At(r) = {} BY <2>1, <2>2, GoodErrno DEF r
  <2>3. CASE ok /\ At(r) # {}
    <3>1. PICK y : y \in At(r) BY <2>3
    <3>2. PICK w \in DOMAIN Files \ Toolchains :
            /\ y = Obj("meta", w, <<<<Ext(n)>>>>) /\ Ext(n) \in Exts
            /\ w.mod = UnescapePath(segs) /\ EscapeAll(w.ver) = v
      BY <1>10, <3>1
    <3>3. mv \notin DOMAIN Files \ Toolchains BY <1>12, <2>3, <3>2 DEF FoundMeta
    <3>4. w = [mod |-> w.mod, ver |-> w.ver]
      <4>1. w \in [mod : Seq(Name), ver : Name] BY FilesAssumption
      <4>2. QED BY <4>1
    <3>5. w.ver # v BY <3>2, <3>3, <3>4
    <3>6. y.kind = "meta" /\ y.mv = w
      <4>1. \A e : Obj("meta", w, e).kind = "meta" /\ Obj("meta", w, e).mv = w BY DEF Obj
      <4>2. QED BY <3>2, <4>1, Zenon
    <3>7. AsWritten(y) BY <3>2, <3>5, <3>6, Zenon DEF AsWritten
    <3>. DEFINE c == Errno("EIO")
    <3>8. c.t = "errno" /\ c.obj.kind = "EIO" /\ c = [t |-> c.t, segs |-> c.segs, obj |-> c.obj, have |-> c.have]
      BY DEF Errno, NodeOf, Is, Obj
    <3>. HIDE DEF c
    <3>9. NodeAt(c, r) BY <3>8 DEF NodeAt
    <3>10. FuseServes(r, c.obj, ok) BY <3>1, <3>7, <3>8 DEF FuseServes
    <3>11. QED BY <2>1, <3>8, <3>9, <3>10 DEF GoodChild, Types, c, r
  <2>4. QED BY <2>2, <2>3
<1>13. CASE ~other /\ meta
  <2>. DEFINE y == Obj("meta", mv, <<<<Ext(n)>>>>)
  <2>1. Child(d, n, ok) = NodeOf("memFile", y) BY <1>9, <1>13 DEF LookupUnderModule
  <2>2. mv \in DOMAIN Files \ Toolchains /\ Ext(n) \in Exts BY <1>13 DEF FoundMeta
  <2>3. mv.mod = UnescapePath(segs) /\ mv.ver = v OBVIOUS
  <2>4. y.kind = "meta" /\ y.mv = mv BY DEF Obj
  <2>. HIDE DEF mv
  <2>5. HasExt(n) BY <2>2 DEF HasExt, Exts
  <2>6. v \in Seq(Piece) /\ n = v \o <<".", Ext(n)>>
    <3>1. n \in Seq(Piece) BY DEF Name
    <3>2. QED BY <2>5, <3>1, ExtParts
  <2>7. EscapePath(mv.mod) = segs
    <3>1. segs \in Seq(Seq(Piece)) BY DEF Name
    <3>2. QED BY <1>1, <2>3, <3>1, UnescapedPath
  <2>8. CASE EscapeAll(v) = v
    <3>1. MetaFile(mv, Ext(n)) = r BY <1>3, <2>3, <2>6, <2>7, <2>8, Zenon DEF MetaFile, DownloadPath
    <3>2. IsMeta(r, y) BY <2>2, <3>1 DEF IsMeta
    <3>3. y \in At(r) BY <3>2, AtPlaces
    <3>. HIDE DEF y
    <3>4. QED BY <1>8, <2>1, <2>4, <3>3, GoodMemFile DEF r
  <2>9. CASE EscapeAll(v) # v
    <3>1. AsWritten(y) BY <2>3, <2>4, <2>9 DEF AsWritten
    <3>2. At(r) = {}
      <4>1. SUFFICES ASSUME NEW z, z \in At(r) PROVE FALSE OBVIOUS
      <4>2. PICK w \in DOMAIN Files \ Toolchains : EscapeAll(w.ver) = v BY <1>10, <4>1
      <4>3. w.ver \in Seq(Piece) BY FilesAssumption DEF Name
      <4>4. Range(v) \cap DOMAIN Unescaped = {} BY <2>2, <2>3, ModulesAssumption
      <4>5. v = w.ver BY <2>6, <4>2, <4>3, <4>4, EscapeOf
      <4>6. QED BY <2>9, <4>2, <4>5
    <3>. HIDE DEF y
    <3>3. QED BY <1>8, <2>1, <2>4, <3>1, <3>2, GoodMemFile DEF r
  <2>10. QED BY <2>8, <2>9
<1>14. QED BY <1>11, <1>12, <1>13

\* A walk that goes on from a node for its path gets one for its path.
LEMMA GoodChildren ==
  ASSUME NEW p \in Seq(Name), NEW d, NodeAt(d, p), d.t \in Types, d.t # "errno", NEW n \in Name, NEW ok \in BOOLEAN
  PROVE  GoodChild(Child(d, n, ok), Append(p, n), ok)
<1>1. CASE d.t = "moduleName" BY <1>1, ModuleNameChild
<1>2. CASE d.t = "underZipRoot" BY <1>2, UnderZipRootChild
<1>3. CASE d.t = "cacheRoot" BY <1>3, CacheRootChild
<1>4. CASE d.t = "download" BY <1>4, DownloadChild
<1>5. CASE d.t = "atV" BY <1>5, AtVChild
<1>6. CASE d.t = "tsgoRoot" BY <1>6, TSGoRootChild
<1>7. CASE d.t = "statusFile" BY <1>7, StatusFileChild
<1>8. CASE d.t = "memFile" BY <1>8, MemFileChild
<1>9. QED BY <1>1, <1>2, <1>3, <1>4, <1>5, <1>6, <1>7, <1>8 DEF Types

-----------------------------------------------------------------------------
(* The front ends that parse paths *)

\* What they may answer for a path.
ParseServes(p, o, ok) ==
  \/ o \in At(p)
  \/ At(p) = {} /\ (o.kind \in {"dir", "ENOENT", "EIO", "hello"} \/ o.kind = "extracted" \/ IsByModulePath(p, o))
  \/ o.kind = "EIO" /\ ~ok
  \/ o.kind = "ENOENT" /\ IsTSGo(p) /\ IsDotFile(p)

\* parsePath hides the dot files of toolchains, and no others.
LEMMA Hidden ==
  ASSUME NEW p
  PROVE  ParsePath(p) = Parsed(p) \/ (ParsePath(p) = Is("ENOENT") /\ IsTSGo(p) /\ IsDotFile(p))
<1>1. CASE IsTSGo(p)
  <2>1. p # <<statusFile>> BY <1>1, StatusPath
  <2>2. QED BY <1>1, <2>1 DEF ParsePath, Parsed
<1>2. CASE ~IsTSGo(p) BY <1>2 DEF Parsed
<1>3. QED BY <1>1, <1>2

LEMMA ParsePathServes ==
  ASSUME NEW p \in Seq(Name), NEW ok \in BOOLEAN
  PROVE  ParseServes(p, Describe(ParsePath(p), ok), ok)
<1>1. CASE ParsePath(p) = Parsed(p) BY <1>1, Served DEF ParseServes
<1>2. CASE ParsePath(p) = Is("ENOENT") /\ IsTSGo(p) /\ IsDotFile(p)
  <2>1. Describe(ParsePath(p), ok).kind = "ENOENT" BY <1>2 DEF Describe, Is, Obj
  <2>2. QED BY <1>2, <2>1 DEF ParseServes
<1>3. QED BY <1>1, <1>2, Hidden

\* What parsePath makes of the two paths that WinFsp has answers of its own for.
LEMMA OwnPaths == Parsed(<<>>) = Is("dir") /\ Parsed(<<hello>>) = Is("dir")
<1>1. ~IsTSGo(<<>>) BY DEF IsTSGo
<1>2. hello[1] # "tsgo-" /\ hello[1] # "." /\ ~Contains(hello, "@") /\ hello # statusFile
  <2>1. hello[1] # "tsgo-" /\ hello[1] # "." /\ Len(hello) = 1 BY DEF hello
  <2>2. ~Contains(hello, "@")
    <3>1. \A i \in 1..Len(hello) : i = 1 BY <2>1
    <3>2. hello[1] # "@" BY DEF hello
    <3>3. QED BY <3>1, <3>2, Zenon DEF Contains
  <2>3. Len(statusFile) = 2 BY DEF statusFile
  <2>4. QED BY <2>1, <2>2, <2>3
<1>. DEFINE p == <<hello>>
<1>3. Len(p) = 1 /\ p[1] = hello /\ p # <<>> /\ DOMAIN p = {1} /\ Last(p) = hello BY DEF Last
<1>4. <<>> # <<statusFile>> /\ DOMAIN <<>> = {} /\ ~(Len(<<>>) > 2) OBVIOUS
<1>5. Parsed(<<>>) = Is("dir") BY <1>1, <1>4 DEF Parsed, ParsePath, IsDotFile
<1>. HIDE DEF p
<1>6. ~IsTSGo(p) BY <1>2, <1>3, Zenon DEF IsTSGo
<1>7. ~IsDotFile(p) BY <1>2, <1>3, Zenon DEF IsDotFile
<1>8. p # <<statusFile>> BY <1>2, <1>3
<1>9. ~(Len(p) > 2) BY <1>3
<1>10. ~\E i \in DOMAIN p : Contains(p[i], "@") BY <1>2, <1>3
<1>11. Parsed(p) = Is("dir") BY <1>6, <1>7, <1>8, <1>9, <1>10, Zenon DEF Parsed, ParsePath
<1>12. QED BY <1>5, <1>11 DEF p

\* And of the names that NFS lists outside modules.
LEMMA OutsidePaths ==
  /\ Lstat(<<statusFile>>, TRUE).kind = "status"
  /\ Lstat(<<cache>>, TRUE).kind = "dir" /\ Lstat(<<cache, download>>, TRUE).kind = "dir"
<1>1. ASSUME NEW p, p # <<>>, ~(Len(p) > 2), p[1] = cache, Last(p) \in {cache, download}, p # <<statusFile>>,
             \A i \in DOMAIN p : p[i] \in {cache, download}
      PROVE  Lstat(p, TRUE) = Is("dir")
  <2>1. \A n \in {cache, download} : ~Contains(n, "@") /\ n[1] # "."
    BY NamesWithoutAt DEF cache, download
  <2>2. cache[1] # "tsgo-" BY DEF cache
  <2>3. ~IsTSGo(p) BY <1>1, <2>2, Zenon DEF IsTSGo
  <2>4. ~IsDotFile(p) BY <1>1, <2>1, Zenon DEF IsDotFile
  <2>5. ~\E i \in DOMAIN p : Contains(p[i], "@") BY <1>1, <2>1, Zenon
  <2>6. ParsePath(p) = Is("dir") BY <1>1, <2>3, <2>4, <2>5, Zenon DEF ParsePath
  <2>7. QED BY <2>6 DEF Lstat, Describe, Is, Obj
<1>2. Is("dir").kind = "dir" /\ Is("status").kind = "status" BY DEF Is, Obj
<1>3. cache # statusFile BY DEF cache, statusFile
<1>4. Lstat(<<cache>>, TRUE).kind = "dir"
  <2>. DEFINE p == <<cache>>
  <2>1. /\ p # <<>> /\ ~(Len(p) > 2) /\ p[1] = cache /\ Last(p) = cache /\ p # <<statusFile>>
        /\ \A i \in DOMAIN p : p[i] = cache
    BY <1>3 DEF Last
  <2>. HIDE DEF p
  <2>2. Lstat(p, TRUE) = Is("dir") BY <1>1, <2>1
  <2>3. QED BY <1>2, <2>2 DEF p
<1>5. Lstat(<<cache, download>>, TRUE).kind = "dir"
  <2>. DEFINE p == <<cache, download>>
  <2>1. /\ p # <<>> /\ ~(Len(p) > 2) /\ p[1] = cache /\ Last(p) = download /\ p # <<statusFile>>
        /\ \A i \in DOMAIN p : p[i] \in {cache, download}
    BY <1>3 DEF Last
  <2>. HIDE DEF p
  <2>2. Lstat(p, TRUE) = Is("dir") BY <1>1, <2>1
  <2>3. QED BY <1>2, <2>2 DEF p
<1>6. Lstat(<<statusFile>>, TRUE).kind = "status"
  <2>1. ParsePath(<<statusFile>>) = Is("status") BY DEF ParsePath
  <2>2. Lstat(<<statusFile>>, TRUE) = Is("status") BY <1>2, <2>1 DEF Lstat, Describe
  <2>3. QED BY <1>2, <2>2
<1>7. QED BY <1>4, <1>5, <1>6

LEMMA FspStatServes ==
  ASSUME NEW p \in Seq(Name), NEW ok \in BOOLEAN
  PROVE  ParseServes(p, FspStat(p, ok), ok)
<1>1. CASE p = <<>> \/ p = <<hello>>
  <2>1. At(p) = {} BY <1>1, OwnPaths, NotFound
  <2>2. FspStat(p, ok).kind \in {"dir", "hello"} BY <1>1 DEF FspStat, Is, Obj
  <2>3. QED BY <2>1, <2>2 DEF ParseServes
<1>2. CASE p # <<>> /\ p # <<hello>>
  <2>1. FspStat(p, ok) = Describe(ParsePath(p), ok) BY <1>2 DEF FspStat
  <2>2. QED BY <2>1, ParsePathServes
<1>3. QED BY <1>1, <1>2

\* A directory that was found is one of a module version that is there.
LEMMA FoundDir ==
  ASSUME NEW p, NEW ok \in BOOLEAN, NEW o, o = Describe(ParsePath(p), ok), o.kind = "zipdir" \/ o.kind = "file"
  PROVE  /\ Parsed(p) = Obj("zip", o.mv, o.path) /\ o.mv \in DOMAIN Files
         /\ o.kind = "file" => o.path \in Files[o.mv] /\ o = Obj("file", o.mv, o.path)
<1>1. ParsePath(p) = Parsed(p) BY Hidden DEF Describe, Is, Obj
<1>2. CASE \E mv, q : Parsed(p) = Obj("zip", mv, q)
  <2>1. PICK mv, q : Parsed(p) = Obj("zip", mv, q) BY <1>2
  <2>2. Found(mv, ok) /\ o = StoreStat(mv, q) BY <1>1, <2>1 DEF Describe, Is, Obj
  <2>3. mv \in DOMAIN Files BY <2>2 DEF Found
  <2>4. o.mv = mv /\ o.path = q /\ (o.kind = "file" => q \in Files[mv] /\ o = Obj("file", mv, q))
    BY <2>2 DEF StoreStat, Is, Obj
  <2>5. QED BY <2>1, <2>3, <2>4
<1>3. CASE ~\E mv, q : Parsed(p) = Obj("zip", mv, q)
  <2>1. CASE \E mv, q : Parsed(p) = Obj("meta", mv, q) BY <1>1, <2>1 DEF Describe, Is, Obj
  <2>2. CASE \E mv, q : Parsed(p) = Obj("extracted", mv, q) BY <1>1, <2>2 DEF Describe, Is, Obj
  <2>3. CASE Parsed(p) \in {Is("dir"), Is("ENOENT"), Is("status")} BY <1>1, <2>3 DEF Describe, Is, Obj
  <2>4. QED BY <1>3, <2>1, <2>2, <2>3, ParsedKinds
<1>4. QED BY <1>2, <1>3

\* A name that a directory has is one of a file or directory that is there.
LEMMA Listed ==
  ASSUME NEW p \in Seq(Name), NEW mv \in DOMAIN Files, NEW q, Parsed(p) = Obj("zip", mv, q),
         NEW e, e \in StoreReaddir(mv, q)
  PROVE  /\ e[1] \in Name /\ IsThere(mv, Append(q, e[1]))
         /\ StoreStat(mv, Append(q, e[1])).kind = e[2]
         /\ Parsed(Append(p, e[1])) = Obj("zip", mv, Append(q, e[1]))
<1>1. PICK s \in Files[mv] \cup Dirs(mv) :
        s # <<>> /\ Front(s) = q /\ e = <<s[Len(s)], StoreStat(mv, s).kind>>
  BY DEF StoreReaddir
<1>2. s \in Seq(Name) BY FilesAndDirs
<1>3. Front(s) \in Seq(Name) /\ Last(s) \in Name /\ Front(s) \o <<Last(s)>> = s BY <1>1, <1>2, FrontLast
<1>4. e[1] = Last(s) /\ e[2] = StoreStat(mv, s).kind BY <1>1 DEF Last
<1>5. s = Append(q, e[1]) BY <1>1, <1>3, <1>4, AppendIsConcat
<1>6. e[1] \in Name BY <1>3, <1>4
<1>7. Parsed(Append(p, e[1])) = Obj("zip", mv, Append(q, e[1])) BY <1>6, Extend
<1>8. QED BY <1>1, <1>4, <1>5, <1>6, <1>7 DEF IsThere

\* So those that parse paths find it.
LEMMA ListedFound ==
  ASSUME NEW p \in Seq(Name), NEW mv \in DOMAIN Files, NEW q, Parsed(p) = Obj("zip", mv, q),
         NEW e, e \in StoreReaddir(mv, q), NEW r, r = Append(p, e[1])
  PROVE  \/ Describe(ParsePath(r), TRUE).kind = e[2] /\ FspStat(r, TRUE).kind = e[2]
         \/ IsTSGo(r) /\ IsDotFile(r)
<1>1. /\ e[1] \in Name /\ StoreStat(mv, Append(q, e[1])).kind = e[2]
      /\ Parsed(r) = Obj("zip", mv, Append(q, e[1]))
  BY Listed
<1>2. Describe(Parsed(r), TRUE).kind = e[2] BY <1>1 DEF Describe, Found, Obj
<1>3. r # <<>> /\ r # <<hello>> BY <1>1, OwnPaths DEF Is, Obj
<1>4. FspStat(r, TRUE) = Describe(ParsePath(r), TRUE) BY <1>3 DEF FspStat
<1>5. QED BY <1>2, <1>4, Hidden

-----------------------------------------------------------------------------
(* The cache by path *)

KeysDiffer(s) == \A i, j \in DOMAIN s : s[i].key = s[j].key => i = j

\* An element that is put in front of the others.
LEMMA InFrontOf ==
  ASSUME NEW S, NEW s \in Seq(S), NEW e \in S, NEW t, t = <<e>> \o s
  PROVE  t \in Seq(S) /\ Len(t) = Len(s) + 1 /\ t[1] = e /\ \A i \in 2..Len(t) : t[i] = s[i - 1]
OBVIOUS

\* t has the elements of s in another order.
Reordered(t, s) ==
  /\ Len(t) = Len(s)
  /\ \E g \in [1..Len(s) -> 1..Len(s)] :
       /\ \A i \in 1..Len(s) : t[i] = s[g[i]]
       /\ \A i, j \in 1..Len(s) : g[i] = g[j] => i = j
       /\ \A k \in 1..Len(s) : \E i \in 1..Len(s) : g[i] = k

\* An element that moves to the front: the others keep their order.
LEMMA Moved ==
  ASSUME NEW S, NEW s \in Seq(S), NEW m \in 1..Len(s), NEW t,
         t = <<s[m]>> \o (SubSeq(s, 1, m - 1) \o SubSeq(s, m + 1, Len(s)))
  PROVE  t \in Seq(S) /\ Reordered(t, s)
<1>. DEFINE n == Len(s)
            a == SubSeq(s, 1, m - 1)
            b == SubSeq(s, m + 1, n)
            g == [i \in 1..n |-> IF i = 1 THEN m ELSE IF i <= m THEN i - 1 ELSE i]
<1>1. n \in Nat /\ m \in Nat /\ 1 <= m /\ m <= n OBVIOUS
<1>2. a \in Seq(S) /\ Len(a) = m - 1 /\ \A i \in 1..(m - 1) : a[i] = s[i] BY <1>1
<1>3. b \in Seq(S) /\ Len(b) = n - m /\ \A i \in 1..(n - m) : b[i] = s[m + i] BY <1>1
<1>. HIDE DEF a, b
<1>4. a \o b \in Seq(S) /\ Len(a \o b) = n - 1
  <2>1. a \o b \in Seq(S) /\ Len(a \o b) = Len(a) + Len(b) BY <1>2, <1>3, ConcatProperties
  <2>2. (m - 1) + (n - m) = n - 1 BY <1>1
  <2>3. QED BY <1>2, <1>3, <2>1, <2>2
<1>5. \A i \in 1..(n - 1) : (a \o b)[i] = IF i <= m - 1 THEN a[i] ELSE b[i - (m - 1)] BY <1>1, <1>2, <1>3
<1>6. \A i \in 1..(n - 1) : (a \o b)[i] = s[IF i <= m - 1 THEN i ELSE i + 1]
  <2>1. SUFFICES ASSUME NEW i \in 1..(n - 1) PROVE (a \o b)[i] = s[IF i <= m - 1 THEN i ELSE i + 1] OBVIOUS
  <2>2. CASE i <= m - 1 BY <1>1, <1>2, <1>5, <2>2
  <2>3. CASE ~(i <= m - 1)
    <3>1. i - (m - 1) \in 1..(n - m) /\ m + (i - (m - 1)) = i + 1 BY <1>1, <2>3
    <3>2. QED BY <1>3, <1>5, <2>3, <3>1
  <2>4. QED BY <2>2, <2>3
<1>7. t = <<s[m]>> \o (a \o b) BY DEF a, b
<1>8. /\ t \in Seq(S) /\ Len(t) = Len(a \o b) + 1 /\ t[1] = s[m]
      /\ \A i \in 2..Len(t) : t[i] = (a \o b)[i - 1]
  <2>1. s[m] \in S OBVIOUS
  <2>2. QED BY ONLY <1>4, <1>7, <2>1, InFrontOf
<1>9. Len(t) = n /\ \A i \in 2..n : t[i] = (a \o b)[i - 1]
  <2>1. n - 1 + 1 = n BY <1>1
  <2>2. QED BY <1>4, <1>8, <2>1
<1>10. \A i \in 1..n : t[i] = s[g[i]]
  <2>1. SUFFICES ASSUME NEW i \in 1..n PROVE t[i] = s[g[i]] OBVIOUS
  <2>2. CASE i = 1 BY <1>1, <1>8, <2>2
  <2>3. CASE i # 1
    <3>1. i \in 2..n /\ i - 1 \in 1..(n - 1) BY <1>1, <2>3
    <3>2. t[i] = s[IF i - 1 <= m - 1 THEN i - 1 ELSE (i - 1) + 1] BY <1>6, <1>9, <3>1
    <3>3. (IF i - 1 <= m - 1 THEN i - 1 ELSE (i - 1) + 1) = IF i <= m THEN i - 1 ELSE i BY <1>1
    <3>4. QED BY <2>3, <3>2, <3>3
  <2>4. QED BY <2>2, <2>3
<1>11. g \in [1..n -> 1..n] BY <1>1
<1>12. \A i, j \in 1..n : g[i] = g[j] => i = j BY <1>1
<1>13. ASSUME NEW k \in 1..n PROVE \E i \in 1..n : g[i] = k
  <2>1. CASE k = m BY <1>1, <2>1
  <2>2. CASE k < m
    <3>1. k + 1 \in 1..n /\ g[k + 1] = k BY <1>1, <2>2
    <3>2. QED BY <3>1
  <2>3. CASE k > m
    <3>1. g[k] = k BY <1>1, <2>3
    <3>2. QED BY <3>1
  <2>4. QED BY <1>1, <2>1, <2>2, <2>3
<1>. HIDE DEF g
<1>14. QED BY <1>8, <1>9, <1>10, <1>11, <1>12, <1>13 DEF Reordered

LEMMA EntryOf ==
  ASSUME NEW e \in Entries
  PROVE  \E mv \in DOMAIN Files : \E f \in Files[mv] :
           e = Entry(mv, f) /\ e.key = PathContentsKey(mv, f) /\ e.val = Obj("file", mv, f)
<1>1. PICK mv \in DOMAIN Files : e \in {Entry(mv, f) : f \in Files[mv]} BY DEF Entries
<1>2. PICK f \in Files[mv] : e = Entry(mv, f) BY <1>1
<1>3. e.key = PathContentsKey(mv, f) /\ e.val = Obj("file", mv, f) BY <1>2 DEF Entry, PathContentsKey
<1>4. QED BY <1>2, <1>3

\* The entry of a key is the only one.
LEMMA SameEntry ==
  ASSUME NEW d \in Entries, NEW e \in Entries, d.key = e.key
  PROVE  d = e
<1>1. PICK mv \in DOMAIN Files : \E f \in Files[mv] : d = Entry(mv, f) /\ d.key = PathContentsKey(mv, f) BY EntryOf
<1>2. PICK f \in Files[mv] : d = Entry(mv, f) /\ d.key = PathContentsKey(mv, f) BY <1>1
<1>3. PICK mw \in DOMAIN Files : \E g \in Files[mw] : e = Entry(mw, g) /\ e.key = PathContentsKey(mw, g) BY EntryOf
<1>4. PICK g \in Files[mw] : e = Entry(mw, g) /\ e.key = PathContentsKey(mw, g) BY <1>3
<1>5. mv = mw /\ f = g BY <1>2, <1>4 DEF PathContentsKey
<1>6. QED BY <1>2, <1>4, <1>5

\* The bytes of the entries that are in the cache.
BytesOf(s) == UNION {{s[i].key} \X (1..SizeOf(s[i].val)) : i \in DOMAIN s}

\* An entry that was used comes first, and the rest stays.
LEMMA UsedKeeps ==
  ASSUME CacheInv, KeysDiffer(pathContents), NEW e \in Entries
  PROVE  /\ Used(e) \in Seq(Entries) /\ KeysDiffer(Used(e))
         /\ Places(e.key) # {} => TotalSize(Used(e)) = TotalSize(pathContents)
<1>. DEFINE s == pathContents
            t == Used(e)
<1>1. s \in Seq(Entries) BY DEF CacheInv
<1>2. DOMAIN s = 1..Len(s) /\ Len(s) \in Nat BY <1>1
<1>3. CASE Places(e.key) = {}
  <2>1. t = <<e>> \o s BY <1>3 DEF Used, Others
  <2>2. \A i \in 1..Len(s) : s[i].key # e.key BY <1>2, <1>3 DEF Places
  <2>. HIDE DEF s, t
  <2>3. t \in Seq(Entries) /\ Len(t) = Len(s) + 1 /\ t[1] = e /\ \A i \in 2..Len(t) : t[i] = s[i - 1]
    BY <1>1, <2>1, InFrontOf
  <2>4. DOMAIN t = 1..Len(t) BY <2>3
  <2>5. ASSUME NEW i \in DOMAIN t, NEW j \in DOMAIN t, t[i].key = t[j].key PROVE i = j
    <3>1. \A k \in 1..Len(t) : k # 1 => k \in 2..Len(t) /\ k - 1 \in 1..Len(s) BY <1>2, <2>3
    <3>2. CASE i = 1 /\ j # 1 BY <2>2, <2>3, <2>4, <2>5, <3>1, <3>2
    <3>3. CASE i # 1 /\ j = 1 BY <2>2, <2>3, <2>4, <2>5, <3>1, <3>3
    <3>4. CASE i # 1 /\ j # 1
      <4>1. i - 1 \in 1..Len(s) /\ j - 1 \in 1..Len(s) /\ s[i - 1].key = s[j - 1].key
        BY <2>3, <2>4, <2>5, <3>1, <3>4
      <4>2. i - 1 = j - 1 BY <1>2, <4>1 DEF KeysDiffer, s
      <4>3. i \in Int /\ j \in Int BY <2>3, <2>4
      <4>4. QED BY <4>2, <4>3
    <3>5. QED BY <3>2, <3>3, <3>4
  <2>6. KeysDiffer(t) BY <2>5 DEF KeysDiffer
  <2>7. QED BY <1>3, <2>3, <2>6 DEF t
<1>4. CASE Places(e.key) # {}
  <2>. DEFINE m == Min(Places(e.key))
  <2>1. Places(e.key) \subseteq Nat BY <1>2 DEF Places
  <2>2. m \in Places(e.key) BY <1>4, <2>1, MinIsLeast
  <2>3. m \in 1..Len(s) /\ s[m].key = e.key BY <1>2, <2>2 DEF Places
  <2>. HIDE DEF m
  <2>4. s[m] \in Entries BY <1>1, <2>3
  <2>5. s[m] = e BY <2>3, <2>4, SameEntry
  <2>6. t = <<s[m]>> \o (SubSeq(s, 1, m - 1) \o SubSeq(s, m + 1, Len(s))) BY <1>4, <2>5 DEF Used, Others, m
  <2>. HIDE DEF s, t
  <2>7. t \in Seq(Entries) /\ Reordered(t, s) BY <1>1, <2>3, <2>6, Moved
  <2>8. PICK g \in [1..Len(s) -> 1..Len(s)] :
          /\ \A i \in 1..Len(s) : t[i] = s[g[i]]
          /\ \A i, j \in 1..Len(s) : g[i] = g[j] => i = j
          /\ \A k \in 1..Len(s) : \E i \in 1..Len(s) : g[i] = k
    BY <2>7 DEF Reordered
  <2>9. DOMAIN t = DOMAIN s BY <1>2, <2>7 DEF Reordered
  <2>10. KeysDiffer(t)
    <3>1. KeysDiffer(s) BY DEF s
    <3>2. SUFFICES ASSUME NEW i \in DOMAIN t, NEW j \in DOMAIN t, t[i].key = t[j].key PROVE i = j BY DEF KeysDiffer
    <3>3. g[i] \in DOMAIN s /\ g[j] \in DOMAIN s /\ t[i] = s[g[i]] /\ t[j] = s[g[j]] BY <1>2, <2>8, <2>9
    <3>4. g[i] = g[j] BY <3>1, <3>2, <3>3 DEF KeysDiffer
    <3>5. QED BY <1>2, <2>8, <2>9, <3>4
  <2>11. BytesOf(t) = BytesOf(s)
    <3>. DEFINE B(d) == {d.key} \X (1..SizeOf(d.val))
    <3>1. ASSUME NEW y, y \in BytesOf(t) PROVE y \in BytesOf(s)
      <4>1. PICK i \in DOMAIN t : y \in B(t[i]) BY <3>1 DEF BytesOf
      <4>2. g[i] \in DOMAIN s /\ y \in B(s[g[i]]) BY <1>2, <2>8, <2>9, <4>1
      <4>. HIDE DEF B
      <4>3. y \in UNION {B(s[k]) : k \in DOMAIN s} BY <4>2
      <4>4. QED BY <4>3 DEF BytesOf, B
    <3>2. ASSUME NEW y, y \in BytesOf(s) PROVE y \in BytesOf(t)
      <4>1. PICK k \in DOMAIN s : y \in B(s[k]) BY <3>2 DEF BytesOf
      <4>2. PICK i \in DOMAIN t : g[i] = k BY <1>2, <2>8, <2>9
      <4>3. y \in B(t[i]) BY <1>2, <2>8, <2>9, <4>1, <4>2
      <4>. HIDE DEF B
      <4>4. y \in UNION {B(t[j]) : j \in DOMAIN t} BY <4>3
      <4>5. QED BY <4>4 DEF BytesOf, B
    <3>3. QED BY <3>1, <3>2
  <2>12. TotalSize(t) = TotalSize(s) BY <2>11 DEF TotalSize, BytesOf
  <2>13. QED BY <2>7, <2>10, <2>12 DEF s, t
<1>5. QED BY <1>3, <1>4

\* What is kept is the first part, and fits.
LEMMA FitsKeeps ==
  ASSUME NEW s \in Seq(Entries), KeysDiffer(s)
  PROVE  Fits(s) \in Seq(Entries) /\ KeysDiffer(Fits(s)) /\ TotalSize(Fits(s)) <= MaxSize
<1>. DEFINE T == {n \in 0..Len(s) : TotalSize(SubSeq(s, 1, n)) <= MaxSize}
            m == Max(T)
<1>1. Len(s) \in Nat OBVIOUS
<1>2. 0 \in T
  <2>1. SubSeq(s, 1, 0) = <<>> OBVIOUS
  <2>2. BytesOf(<<>>) = {} BY DEF BytesOf
  <2>3. TotalSize(SubSeq(s, 1, 0)) = 0
    <3>1. TotalSize(<<>>) = Cardinality(BytesOf(<<>>)) BY DEF TotalSize, BytesOf
    <3>2. Cardinality({}) = 0 BY FS_EmptySet
    <3>3. QED BY <2>1, <2>2, <3>1, <3>2
  <2>4. 0 <= MaxSize BY BoundsAssumption
  <2>5. QED BY <1>1, <2>3, <2>4
<1>3. T \subseteq 0..Len(s) OBVIOUS
<1>. HIDE DEF T
<1>4. m \in T BY <1>1, <1>2, <1>3, MaxIsGreatest
<1>5. m \in 0..Len(s) /\ TotalSize(SubSeq(s, 1, m)) <= MaxSize BY <1>4 DEF T
<1>6. Fits(s) = SubSeq(s, 1, m) BY DEF Fits, T
<1>. HIDE DEF m
<1>7. /\ SubSeq(s, 1, m) \in Seq(Entries) /\ Len(SubSeq(s, 1, m)) = m
      /\ \A i \in 1..m : SubSeq(s, 1, m)[i] = s[i]
  BY <1>1, <1>5
<1>8. DOMAIN SubSeq(s, 1, m) = 1..m /\ 1..m \subseteq DOMAIN s BY <1>1, <1>5, <1>7
<1>9. KeysDiffer(SubSeq(s, 1, m)) BY <1>7, <1>8 DEF KeysDiffer
<1>10. QED BY <1>5, <1>6, <1>7, <1>9

-----------------------------------------------------------------------------
(* The steps of the front ends that parse paths *)

\* They answer what they may for the path.
LEMMA AnswerServes ==
  ASSUME frontend' # "fuse", ParseServes(at', answer'.what, answer'.ok)
  PROVE  LayoutIsServed'
BY DEF LayoutIsServed, ParseServes, OfAnyHash, HiddenDotFile, ByModulePath, IsByModulePath

\* They list names of a directory of a module that is found at the path.
LEMMA AnswerLists ==
  ASSUME frontend' # "fuse", at' \in Seq(Name), NEW mv \in DOMAIN Files, NEW q,
         Parsed(at') = Obj("zip", mv, q), answer'.ents \subseteq StoreReaddir(mv, q)
  PROVE  ListedIsThere'
<1>1. SUFFICES ASSUME NEW e \in answer'.ents, NEW r, r = Append(at', e[1])
               PROVE  /\ frontend' = "webdav" => WebdavStat(r, TRUE).kind = e[2] \/ (IsTSGo(r) /\ IsDotFile(r))
                      /\ frontend' = "winfsp" => FspStat(r, TRUE).kind = e[2] \/ (IsTSGo(r) /\ IsDotFile(r))
                      /\ Lstat(r, TRUE).kind = e[2] \/ (IsTSGo(r) /\ IsDotFile(r))
  BY DEF ListedIsThere, HiddenDotFile, IsOpenSet
<1>2. \/ Describe(ParsePath(r), TRUE).kind = e[2] /\ FspStat(r, TRUE).kind = e[2]
      \/ IsTSGo(r) /\ IsDotFile(r)
  BY <1>1, ListedFound
<1>3. QED BY <1>2 DEF WebdavStat, Lstat

\* NFS lists what it has outside modules.
LEMMA AnswerListsOutside ==
  ASSUME frontend' = "nfs", NEW p, at' = p, answer'.ents = OutsideZip(p)
  PROVE  ListedIsThere'
<1>1. SUFFICES ASSUME NEW e \in OutsideZip(p), e[1] # openSetFile
               PROVE  Lstat(Append(p, e[1]), TRUE).kind = e[2]
  BY DEF ListedIsThere, HiddenDotFile, IsOpenSet
<1>2. CASE p = <<>> /\ e = <<statusFile, "status">>
  <2>1. Append(p, e[1]) = <<statusFile>> /\ e[2] = "status" BY <1>2
  <2>2. QED BY <2>1, OutsidePaths, Zenon
<1>3. CASE p = <<>> /\ e = <<cache, "dir">>
  <2>1. Append(p, e[1]) = <<cache>> /\ e[2] = "dir" BY <1>3
  <2>2. QED BY <2>1, OutsidePaths, Zenon
<1>4. CASE p = <<cache>> /\ e = <<download, "dir">>
  <2>1. cache \in Name /\ download \in Name BY NamesWithoutAt
  <2>2. Append(<<cache>>, download) = <<cache, download>> BY <2>1, SecondName
  <2>3. e[1] = download /\ e[2] = "dir" BY <1>4
  <2>4. QED BY <1>4, <2>2, <2>3, OutsidePaths, Zenon
<1>5. QED
  <2>1. e # <<openSetFile, "file">> BY <1>1
  <2>2. QED BY <1>1, <1>2, <1>3, <1>4, <2>1 DEF OutsideZip

LEMMA NothingListed ==
  ASSUME answer'.ents = {}
  PROVE  ListedIsThere'
BY DEF ListedIsThere

LEMMA NothingRead ==
  ASSUME answer'.op # "read"
  PROVE  ReadsTheFile'
BY DEF ReadsTheFile

\* What a request that parses a path leaves alone.
LEMMA Asking ==
  ASSUME IInv, frontend # "fuse", at' \in Paths, UNCHANGED <<frontend, node, file, pathContents>>
  PROVE  TypeOK' /\ FilesInv' /\ CacheInv' /\ NodeInv'
<1>1. TypeOK'
  <2>1. TotalSize(pathContents') = TotalSize(pathContents) BY Zenon
  <2>2. QED BY <2>1 DEF IInv, TypeOK
<1>2. FilesInv' BY DEF IInv, FilesInv
<1>3. CacheInv' BY DEF IInv, CacheInv
<1>4. NodeInv' BY DEF NodeInv
<1>5. QED BY <1>1, <1>2, <1>3, <1>4

LEMMA StatKeeps ==
  ASSUME IInv, NEW p \in Paths, NEW ok \in BOOLEAN, Stat(p, ok)
  PROVE  IInv'
<1>1. PICK o : /\ o = Describe(ParsePath(p), ok) \/ o = FspStat(p, ok)
               /\ answer' = [op |-> "stat", what |-> o, ok |-> ok, ents |-> {}, range |-> <<>>]
  BY DEF Stat, Ask, WebdavStat, Lstat
<1>2. frontend # "fuse" /\ at' = p /\ UNCHANGED <<frontend, node, file, pathContents>> BY DEF Stat, Ask
<1>3. answer'.op = "stat" /\ answer'.what = o /\ answer'.ok = ok /\ answer'.ents = {} BY <1>1
<1>4. p \in Seq(Name) BY PathsAre
<1>5. ParseServes(p, o, ok) BY <1>1, <1>4, ParsePathServes, FspStatServes
<1>6. LayoutIsServed' BY <1>2, <1>3, <1>5, AnswerServes
<1>7. ListedIsThere' /\ ReadsTheFile' BY <1>3, NothingListed, NothingRead
<1>8. TypeOK' /\ FilesInv' /\ CacheInv' /\ NodeInv' BY <1>2, Asking
<1>9. QED BY <1>6, <1>7, <1>8 DEF IInv

LEMMA OpenToWriteKeeps ==
  ASSUME IInv, NEW p \in Paths, OpenToWrite(p)
  PROVE  IInv'
<1>1. frontend # "fuse" /\ at' = p /\ UNCHANGED <<frontend, node, file, pathContents>> BY DEF OpenToWrite, Ask
<1>2. answer'.op = "write" /\ answer'.ents = {} BY DEF OpenToWrite, Ask
<1>3. LayoutIsServed' BY <1>2 DEF LayoutIsServed
<1>4. ListedIsThere' /\ ReadsTheFile' BY <1>2, NothingListed, NothingRead
<1>5. TypeOK' /\ FilesInv' /\ CacheInv' /\ NodeInv' BY <1>1, Asking
<1>6. QED BY <1>3, <1>4, <1>5 DEF IInv

LEMMA SeeKeeps ==
  ASSUME IInv, See
  PROVE  IInv'
<1>1. frontend # "fuse" /\ at' = <<>> /\ UNCHANGED <<frontend, node, file, pathContents>> BY DEF See
<1>2. answer'.op = "none" /\ answer'.ents = {} BY DEF See, NoAnswer
<1>3. LayoutIsServed' BY <1>2 DEF LayoutIsServed
<1>4. ListedIsThere' /\ ReadsTheFile' BY <1>2, NothingListed, NothingRead
<1>5. TypeOK' /\ FilesInv' /\ CacheInv' /\ NodeInv' BY <1>1, PathsAre, Asking
<1>6. QED BY <1>3, <1>4, <1>5 DEF IInv

\* The names that come with a directory.
LEMMA OpenLists ==
  ASSUME frontend' # "fuse", at' \in Seq(Name), NEW ok \in BOOLEAN, NEW o, o = Describe(ParsePath(at'), ok),
         answer'.ents = IF o.kind = "zipdir" THEN StoreReaddir(o.mv, o.path) ELSE {}
  PROVE  ListedIsThere'
<1>1. CASE o.kind = "zipdir"
  <2>1. Parsed(at') = Obj("zip", o.mv, o.path) /\ o.mv \in DOMAIN Files BY <1>1, FoundDir
  <2>2. QED BY <1>1, <2>1, AnswerLists
<1>2. CASE o.kind # "zipdir" BY <1>2, NothingListed
<1>3. QED BY <1>1, <1>2

LEMMA WebdavOpenFileKeeps ==
  ASSUME IInv, NEW p \in Paths, NEW ok \in BOOLEAN, WebdavOpenFile(p, ok)
  PROVE  IInv'
<1>. DEFINE o == Describe(ParsePath(p), ok)
<1>1. frontend # "fuse" /\ at' = p /\ UNCHANGED <<frontend, node, file, pathContents>> BY DEF WebdavOpenFile
<1>2. /\ answer'.op = "open" /\ answer'.what = o /\ answer'.ok = ok
      /\ answer'.ents = IF o.kind = "zipdir" THEN StoreReaddir(o.mv, o.path) ELSE {}
  BY DEF WebdavOpenFile, WebdavStat
<1>3. p \in Seq(Name) BY PathsAre
<1>4. ParseServes(p, o, ok) BY <1>3, ParsePathServes
<1>. HIDE DEF o
<1>5. LayoutIsServed' BY <1>1, <1>2, <1>4, AnswerServes
<1>6. ListedIsThere' BY <1>1, <1>2, <1>3, OpenLists DEF o
<1>7. ReadsTheFile' BY <1>2, NothingRead
<1>8. TypeOK' /\ FilesInv' /\ CacheInv' /\ NodeInv' BY <1>1, Asking
<1>9. QED BY <1>5, <1>6, <1>7, <1>8 DEF IInv

LEMMA ReadDirKeeps ==
  ASSUME IInv, NEW p \in Paths, NEW found \in BOOLEAN, NEW ok \in BOOLEAN, ReadDir(p, found, ok)
  PROVE  IInv'
<1>. DEFINE gm == ParsePath(p)
            there == gm.kind = "zip" /\ Found(gm.mv, found)
<1>1. frontend = "nfs" /\ at' = p /\ UNCHANGED <<frontend, node, file, pathContents>> BY DEF ReadDir
<1>2. /\ answer'.op = "readdir"
      /\ answer'.ents = IF there /\ ok THEN StoreReaddir(gm.mv, gm.path)
                        ELSE IF gm.kind = "zip" \/ gm.kind = "ENOENT" THEN {} ELSE OutsideZip(p)
  BY DEF ReadDir
<1>3. p \in Seq(Name) BY PathsAre
<1>4. ListedIsThere'
  <2>1. CASE there /\ ok
    <3>1. gm.kind = "zip" /\ gm.mv \in DOMAIN Files BY <2>1 DEF Found
    <3>2. gm = Parsed(p) BY <3>1, Hidden DEF Is, Obj
    <3>3. Parsed(p) = Obj("zip", gm.mv, gm.path) BY <3>1, <3>2, ParsedKinds DEF Is, Obj
    <3>4. answer'.ents = StoreReaddir(gm.mv, gm.path) BY <1>2, <2>1
    <3>. HIDE DEF gm
    <3>5. QED BY <1>1, <1>3, <3>1, <3>3, <3>4, AnswerLists
  <2>2. CASE ~(there /\ ok)
    <3>1. CASE answer'.ents = {} BY <3>1, NothingListed
    <3>2. CASE answer'.ents = OutsideZip(p) BY <1>1, <3>2, AnswerListsOutside
    <3>3. QED BY <1>2, <2>2, <3>1, <3>2
  <2>3. QED BY <2>1, <2>2
<1>5. LayoutIsServed' BY <1>2 DEF LayoutIsServed
<1>6. ReadsTheFile' BY <1>2, NothingRead
<1>7. TypeOK' /\ FilesInv' /\ CacheInv' /\ NodeInv' BY <1>1, Asking
<1>8. QED BY <1>4, <1>5, <1>6, <1>7 DEF IInv

-----------------------------------------------------------------------------
(* The steps of WinFsp's files *)

Pcs == {"closed", "open", "miss"}

\* The same file, with another state.
LEMMA FileChanged ==
  ASSUME FilesInv, NEW h \in Handles, NEW pc, NEW obj, NEW contents, NEW off \in Nat,
         file' = [file EXCEPT ![h] = [pc |-> pc, obj |-> obj, contents |-> contents, off |-> off]],
         frontend' = frontend, pc # "closed" => frontend = "winfsp" /\ IsFile(obj), contents \in {Is("none"), obj}
  PROVE  FilesInv'
<1>1. DOMAIN file = Handles BY DEF FilesInv
<1>2. file'[h] = [pc |-> pc, obj |-> obj, contents |-> contents, off |-> off] BY <1>1
<1>3. \A k \in Handles \ {h} : file'[k] = file[k] BY <1>1
<1>4. file'[h].pc = pc /\ file'[h].obj = obj /\ file'[h].contents = contents /\ file'[h].off = off BY <1>2
<1>5. ASSUME NEW k \in Handles
      PROVE  /\ file'[k] = [pc |-> file'[k].pc, obj |-> file'[k].obj, contents |-> file'[k].contents, off |-> file'[k].off]
             /\ file'[k].pc # "closed" => frontend' = "winfsp" /\ IsFile(file'[k].obj)
             /\ file'[k].contents \in {Is("none"), file'[k].obj} /\ file'[k].off \in Nat
  <2>1. CASE k = h BY <1>2, <1>4, <2>1
  <2>2. CASE k # h
    <3>1. file'[k] = file[k] BY <1>3, <2>2
    <3>2. file[k] = [pc |-> file[k].pc, obj |-> file[k].obj, contents |-> file[k].contents, off |-> file[k].off]
      <4>. DEFINE F == [j \in Handles |-> [pc |-> file[j].pc, obj |-> file[j].obj,
                                          contents |-> file[j].contents, off |-> file[j].off]]
      <4>1. file = F BY DEF FilesInv
      <4>2. F[k] = [pc |-> file[k].pc, obj |-> file[k].obj, contents |-> file[k].contents, off |-> file[k].off] OBVIOUS
      <4>. HIDE DEF F
      <4>3. QED BY <4>1, <4>2
    <3>3. /\ file[k].pc # "closed" => frontend = "winfsp" /\ IsFile(file[k].obj)
          /\ file[k].contents \in {Is("none"), file[k].obj} /\ file[k].off \in Nat
      BY DEF FilesInv
    <3>4. QED BY <3>1, <3>2, <3>3
  <2>3. QED BY <2>1, <2>2
<1>6. file' = [k \in Handles |-> file'[k]] BY <1>1
<1>7. file' = [k \in Handles |-> [pc |-> file'[k].pc, obj |-> file'[k].obj,
                                  contents |-> file'[k].contents, off |-> file'[k].off]]
  BY <1>5, <1>6
<1>8. QED BY <1>5, <1>7 DEF FilesInv

\* What is left of TypeOK when the cache and a file change.
LEMMA TypeKept ==
  ASSUME IInv, at' \in Paths, UNCHANGED <<frontend, node>>,
         \A k \in Handles : file'[k].pc \in Pcs,
         TotalSize(pathContents') <= MaxSize, KeysDiffer(pathContents')
  PROVE  TypeOK'
BY DEF IInv, TypeOK, KeysDiffer, Pcs

LEMMA FspOpenFileKeeps ==
  ASSUME IInv, NEW h \in Handles, NEW p \in Paths, NEW ok \in BOOLEAN, FspOpenFile(h, p, ok)
  PROVE  IInv'
<1>. DEFINE o == FspStat(p, ok)
            opened == [pc |-> "open", obj |-> o, contents |-> Is("none"), off |-> 0]
<1>1. frontend = "winfsp" /\ at' = p /\ UNCHANGED <<frontend, node, pathContents>> BY DEF FspOpenFile
<1>2. /\ answer'.op = "open" /\ answer'.what = o /\ answer'.ok = ok
      /\ answer'.ents = IF o.kind = "zipdir" THEN StoreReaddir(o.mv, o.path) ELSE {}
  BY DEF FspOpenFile
<1>3. file' = [file EXCEPT ![h] = IF o.kind = "file" THEN opened ELSE Closed] BY DEF FspOpenFile
<1>4. p \in Seq(Name) BY PathsAre
<1>5. ParseServes(p, o, ok) BY <1>4, FspStatServes
<1>6. o.kind \in {"file", "zipdir"} => o = Describe(ParsePath(p), ok) BY DEF FspStat, Is, Obj
<1>. HIDE DEF o
<1>7. LayoutIsServed' BY <1>1, <1>2, <1>5, AnswerServes
<1>8. ListedIsThere'
  <2>1. CASE o.kind = "zipdir" BY <1>1, <1>2, <1>4, <1>6, <2>1, OpenLists
  <2>2. CASE o.kind # "zipdir" BY <1>2, <2>2, NothingListed
  <2>3. QED BY <2>1, <2>2
<1>9. ReadsTheFile' BY <1>2, NothingRead
<1>10. FilesInv'
  <2>1. FilesInv BY DEF IInv
  <2>2. CASE o.kind = "file"
    <3>1. o.mv \in DOMAIN Files /\ o.path \in Files[o.mv] /\ o = Obj("file", o.mv, o.path) BY <1>6, <2>2, FoundDir
    <3>2. IsFile(o) BY <3>1 DEF IsFile
    <3>3. QED BY <1>1, <1>3, <2>1, <2>2, <3>2, FileChanged
  <2>3. CASE o.kind # "file"
    <3>1. file' = [file EXCEPT ![h] = [pc |-> "closed", obj |-> Is("none"), contents |-> Is("none"), off |-> 0]]
      BY <1>3, <2>3 DEF Closed
    <3>2. QED BY <1>1, <2>1, <3>1, FileChanged
  <2>4. QED BY <2>2, <2>3
<1>11. TypeOK'
  <2>1. DOMAIN file = Handles BY DEF IInv, FilesInv
  <2>2. opened.pc = "open" /\ Closed.pc = "closed" BY DEF Closed
  <2>3. \A k \in Handles : file'[k].pc \in Pcs
    <3>1. SUFFICES ASSUME NEW k \in Handles PROVE file'[k].pc \in Pcs OBVIOUS
    <3>2. CASE k = h BY <1>3, <2>1, <2>2, <3>2 DEF Pcs
    <3>3. CASE k # h BY <1>3, <2>1, <3>3 DEF IInv, TypeOK, Pcs
    <3>4. QED BY <3>2, <3>3
  <2>4. TotalSize(pathContents) <= MaxSize /\ KeysDiffer(pathContents) BY DEF IInv, TypeOK, KeysDiffer
  <2>5. TotalSize(pathContents') <= MaxSize /\ KeysDiffer(pathContents') BY <1>1, <2>4
  <2>6. QED BY <1>1, <2>3, <2>5, TypeKept
<1>12. CacheInv' /\ NodeInv' BY <1>1 DEF IInv, CacheInv, NodeInv
<1>13. QED BY <1>7, <1>8, <1>9, <1>10, <1>11, <1>12 DEF IInv

\* A file of a module, read where the layout has it.
LEMMA FileIsThere ==
  ASSUME NEW o, IsFile(o)
  PROVE  /\ RootOf(o.mv) \o o.path \in Paths /\ o \in At(RootOf(o.mv) \o o.path)
         /\ StoreStat(o.mv, o.path) = o /\ SizeOf(o) \in Nat /\ o.kind = "file"
         /\ Entry(o.mv, o.path) \in Entries
<1>1. o.mv \in DOMAIN Files /\ o.path \in Files[o.mv] /\ o = Obj("file", o.mv, o.path) BY DEF IsFile
<1>2. RootOf(o.mv) \o o.path \in Paths BY <1>1, PathsAre
<1>3. StoreStat(o.mv, o.path) = o /\ o.path \in Seq(Name) BY <1>1, FilesAndDirs
<1>4. InModule(RootOf(o.mv) \o o.path, o) BY <1>1, <1>3 DEF InModule, IsThere
<1>5. o \in At(RootOf(o.mv) \o o.path) BY <1>4, AtPlaces
<1>6. o.kind = "file" BY <1>1 DEF Obj
<1>7. SizeOf(o) \in Nat BY <1>1, <1>6, FilesAssumption DEF SizeOf
<1>8. Entry(o.mv, o.path) \in {Entry(o.mv, f) : f \in Files[o.mv]} BY <1>1
<1>9. Entry(o.mv, o.path) \in Entries BY <1>1, <1>8 DEF Entries
<1>10. QED BY <1>2, <1>3, <1>5, <1>6, <1>7, <1>9

\* The bytes that are read are in the file.
LEMMA BytesRead ==
  ASSUME NEW o, SizeOf(o) \in Nat, NEW off \in Nat, Bytes(o, off) # <<>>
  PROVE  Bytes(o, off)[2] <= SizeOf(o)
<1>1. off < SizeOf(o) /\ Bytes(o, off) = <<off, off + 1>> BY DEF Bytes
<1>2. Bytes(o, off)[2] = off + 1 BY <1>1
<1>3. \A n \in Nat : off < n => off + 1 <= n OBVIOUS
<1>4. QED BY <1>1, <1>2, <1>3

\* A file that was read is the one of the layout.
LEMMA FileRead ==
  ASSUME NEW o, IsFile(o), NEW off \in Nat, at' = RootOf(o.mv) \o o.path,
         answer'.op = "read", answer'.ents = {},
         \/ answer'.what = o /\ answer'.range = Bytes(o, off)
         \/ answer'.what.kind = "EIO"
  PROVE  LayoutIsServed' /\ ListedIsThere' /\ ReadsTheFile' /\ at' \in Paths
<1>1. LayoutIsServed' BY DEF LayoutIsServed
<1>2. ListedIsThere' BY NothingListed
<1>3. at' \in Paths /\ o \in At(at') /\ SizeOf(o) \in Nat BY FileIsThere
<1>4. CASE answer'.what.kind = "EIO" BY <1>1, <1>2, <1>3, <1>4 DEF ReadsTheFile
<1>5. CASE answer'.what = o /\ answer'.range = Bytes(o, off)
  <2>1. answer'.range # <<>> => answer'.range[2] <= SizeOf(o) BY <1>3, <1>5, BytesRead
  <2>2. SizeOf(answer'.what) = SizeOf(o) BY <1>5
  <2>3. ReadsTheFile' BY <1>3, <1>5, <2>1, <2>2 DEF ReadsTheFile
  <2>4. QED BY <1>1, <1>2, <1>3, <2>3
<1>6. QED BY <1>4, <1>5

\* An open file.
LEMMA OpenFile ==
  ASSUME FilesInv, NEW h \in Handles, file[h].pc # "closed"
  PROVE  /\ frontend = "winfsp" /\ IsFile(file[h].obj) /\ file[h].off \in Nat /\ file[h].contents \in {Is("none"), file[h].obj}
         /\ file[h] = [pc |-> file[h].pc, obj |-> file[h].obj, contents |-> file[h].contents, off |-> file[h].off]
         /\ DOMAIN file = Handles
<1>. DEFINE F == [j \in Handles |-> [pc |-> file[j].pc, obj |-> file[j].obj,
                                    contents |-> file[j].contents, off |-> file[j].off]]
<1>1. file = F BY DEF FilesInv
<1>2. /\ F[h] = [pc |-> file[h].pc, obj |-> file[h].obj, contents |-> file[h].contents, off |-> file[h].off]
      /\ DOMAIN F = Handles
  OBVIOUS
<1>. HIDE DEF F
<1>3. /\ frontend = "winfsp" /\ IsFile(file[h].obj) /\ file[h].off \in Nat
      /\ file[h].contents \in {Is("none"), file[h].obj}
  BY DEF FilesInv
<1>4. QED BY <1>1, <1>2, <1>3

OpenFileOf(pc, obj, contents, off) == [pc |-> pc, obj |-> obj, contents |-> contents, off |-> off]

LEMMA ChangedTwice ==
  ASSUME NEW f, NEW h \in DOMAIN f, NEW x, NEW y
  PROVE  [[f EXCEPT ![h] = x] EXCEPT ![h] = y] = [f EXCEPT ![h] = y]
OBVIOUS

\* A record of f that is changed, as a whole or in some fields.
Put(f, h, r) == [f EXCEPT ![h] = r]
PutContents(f, h, z) == [f EXCEPT ![h].contents = z]
PutState(f, h, x, y) == [f EXCEPT ![h].pc = x, ![h].off = y]
PutFields(f, h, x, y, z) == [f EXCEPT ![h].pc = x, ![h].off = y, ![h].contents = z]

LEMMA FieldsChanged ==
  ASSUME NEW f, NEW h \in DOMAIN f, NEW a, NEW b, NEW c, NEW d, f[h] = OpenFileOf(a, b, c, d), NEW x, NEW y, NEW z
  PROVE  /\ PutContents(f, h, z) = Put(f, h, OpenFileOf(a, b, z, d))
         /\ PutState(f, h, x, y) = Put(f, h, OpenFileOf(x, b, c, y))
         /\ PutFields(f, h, x, y, z) = Put(f, h, OpenFileOf(x, b, z, y))
<1>. DEFINE f1 == [f EXCEPT ![h] = OpenFileOf(x, b, c, d)]
            f2 == [f EXCEPT ![h] = OpenFileOf(x, b, c, y)]
<1>1. [f EXCEPT ![h].pc = x] = f1
  <2>1. [f[h] EXCEPT !.pc = x] = OpenFileOf(x, b, c, d) BY DEF OpenFileOf
  <2>2. QED BY <2>1
<1>2. h \in DOMAIN f1 /\ f1[h] = OpenFileOf(x, b, c, d) OBVIOUS
<1>3. [f1 EXCEPT ![h] = OpenFileOf(x, b, c, y)] = f2 BY ChangedTwice
<1>. HIDE DEF f1
<1>4. [f1 EXCEPT ![h].off = y] = f2
  <2>1. [f1[h] EXCEPT !.off = y] = OpenFileOf(x, b, c, y) BY <1>2 DEF OpenFileOf
  <2>. HIDE DEF f2
  <2>2. QED BY <1>3, <2>1
<1>5. h \in DOMAIN f2 /\ f2[h] = OpenFileOf(x, b, c, y) OBVIOUS
<1>6. [f2 EXCEPT ![h] = OpenFileOf(x, b, z, y)] = [f EXCEPT ![h] = OpenFileOf(x, b, z, y)] BY ChangedTwice
<1>. HIDE DEF f2
<1>7. [f2 EXCEPT ![h].contents = z] = [f EXCEPT ![h] = OpenFileOf(x, b, z, y)]
  <2>1. [f2[h] EXCEPT !.contents = z] = OpenFileOf(x, b, z, y) BY <1>5 DEF OpenFileOf
  <2>2. QED BY <1>6, <2>1
<1>8. [f EXCEPT ![h].pc = x, ![h].off = y] = f2 BY <1>1, <1>4
<1>9. [f EXCEPT ![h].pc = x, ![h].off = y, ![h].contents = z] = [f2 EXCEPT ![h].contents = z] BY <1>1, <1>4
<1>10. [f EXCEPT ![h].contents = z] = [f EXCEPT ![h] = OpenFileOf(a, b, z, d)]
  <2>1. [f[h] EXCEPT !.contents = z] = OpenFileOf(a, b, z, d) BY DEF OpenFileOf
  <2>2. QED BY <2>1
<1>11. QED BY <1>7, <1>8, <1>9, <1>10 DEF f2, Put, PutContents, PutState, PutFields

\* The cache has for a file's key that file.
LEMMA CacheHit ==
  ASSUME CacheInv, NEW h \in Handles, IsFile(file[h].obj), Places(Key(h)) # {},
         NEW e, e = pathContents[Min(Places(Key(h)))]
  PROVE  e \in Entries /\ e.val = file[h].obj /\ e.key = Key(h)
<1>. DEFINE i == Min(Places(Key(h)))
            o == file[h].obj
<1>1. pathContents \in Seq(Entries) BY DEF CacheInv
<1>2. DOMAIN pathContents = 1..Len(pathContents) BY <1>1
<1>3. Places(Key(h)) \subseteq Nat BY <1>2 DEF Places
<1>4. i \in Places(Key(h)) BY <1>3, MinIsLeast
<1>5. i \in DOMAIN pathContents /\ e.key = Key(h) BY <1>4 DEF Places
<1>6. e \in Entries BY <1>1, <1>2, <1>5
<1>7. Entry(o.mv, o.path) \in Entries /\ o = Obj("file", o.mv, o.path) BY FileIsThere DEF IsFile
<1>8. Entry(o.mv, o.path).key = Key(h) /\ Entry(o.mv, o.path).val = Obj("file", o.mv, o.path)
  BY DEF Entry, Key, PathContentsKey
<1>9. e = Entry(o.mv, o.path) BY <1>5, <1>6, <1>7, <1>8, SameEntry
<1>10. QED BY <1>5, <1>6, <1>7, <1>8, <1>9

LEMMA ReadAtKeeps ==
  ASSUME IInv, NEW h \in Handles, NEW off \in 0..MaxOffset, ReadAt(h, off)
  PROVE  IInv'
<1>. DEFINE hit == Places(Key(h))
            has == file[h].contents # Is("none")
            e == pathContents[Min(hit)]
            data == IF has THEN file[h].contents ELSE e.val
            o == file[h].obj
<1>1. frontend # "fuse" /\ file[h].pc = "open" /\ UNCHANGED <<frontend, node>> BY DEF ReadAt
<1>2. FilesInv /\ CacheInv /\ TypeOK /\ KeysDiffer(pathContents) BY DEF IInv, TypeOK, KeysDiffer
<1>3. /\ frontend = "winfsp" /\ IsFile(o) /\ file[h].off \in Nat /\ file[h].contents \in {Is("none"), o}
      /\ file[h] = [pc |-> file[h].pc, obj |-> o, contents |-> file[h].contents, off |-> file[h].off]
      /\ DOMAIN file = Handles
  BY <1>1, <1>2, OpenFile
<1>4. off \in Nat BY BoundsAssumption
<1>5. NodeInv' BY <1>1 DEF NodeInv
<1>6. CASE has \/ hit # {}
  <2>1. /\ file' = [file EXCEPT ![h].contents = data] /\ at' = RootOf(o.mv) \o o.path
        /\ pathContents' = IF has THEN pathContents ELSE Used(e)
        /\ answer' = [op |-> "read", what |-> data, ok |-> TRUE, ents |-> {}, range |-> Bytes(data, off)]
    BY <1>6 DEF ReadAt, Answer
  <2>2. ~has => e \in Entries /\ e.val = o /\ e.key = Key(h) BY <1>2, <1>3, <1>6, CacheHit
  <2>3. data = o BY <1>3, <2>2
  <2>. HIDE DEF data
  <2>4. file' = [file EXCEPT ![h] = [pc |-> "open", obj |-> o, contents |-> o, off |-> file[h].off]]
    <3>1. file[h] = OpenFileOf("open", o, file[h].contents, file[h].off) BY <1>1, <1>3 DEF OpenFileOf
    <3>2. PutContents(file, h, o) = Put(file, h, OpenFileOf("open", o, o, file[h].off)) BY <1>3, <3>1, FieldsChanged
    <3>3. QED BY <2>1, <2>3, <3>2 DEF Put, PutContents, OpenFileOf
  <2>5. FilesInv' BY <1>1, <1>2, <1>3, <2>4, FileChanged
  <2>6. answer'.op = "read" /\ answer'.what = o /\ answer'.ents = {} /\ answer'.range = Bytes(o, off) BY <2>1, <2>3
  <2>. HIDE DEF o
  <2>7. LayoutIsServed' /\ ListedIsThere' /\ ReadsTheFile' /\ at' \in Paths BY <1>3, <1>4, <2>1, <2>6, FileRead
  <2>. HIDE DEF hit, has, e
  <2>8. pathContents' \in Seq(Entries) /\ KeysDiffer(pathContents') /\ TotalSize(pathContents') = TotalSize(pathContents)
    <3>1. CASE has
      <4>1. pathContents' = pathContents BY <2>1, <3>1
      <4>2. QED BY <1>2, <4>1 DEF CacheInv
    <3>2. CASE ~has
      <4>1. pathContents' = Used(e) /\ Places(e.key) # {} BY <1>6, <2>1, <2>2, <3>2 DEF hit
      <4>2. QED BY <1>2, <2>2, <3>2, <4>1, UsedKeeps
    <3>3. QED BY <3>1, <3>2
  <2>9. TotalSize(pathContents') <= MaxSize BY <1>2, <2>8 DEF TypeOK
  <2>10. \A k \in Handles : file'[k].pc \in Pcs BY <1>2, <1>3, <2>4 DEF TypeOK, Pcs
  <2>11. TypeOK' BY <1>1, <2>7, <2>8, <2>9, <2>10, TypeKept
  <2>12. CacheInv' BY <2>8 DEF CacheInv
  <2>13. QED BY <1>5, <2>5, <2>7, <2>11, <2>12 DEF IInv
<1>7. CASE ~has /\ hit = {}
  <2>1. file' = [file EXCEPT ![h].pc = "miss", ![h].off = off] /\ UNCHANGED <<at, answer, pathContents>>
    BY <1>7 DEF ReadAt
  <2>2. file' = [file EXCEPT ![h] = [pc |-> "miss", obj |-> o, contents |-> file[h].contents, off |-> off]]
    <3>1. file[h] = OpenFileOf("open", o, file[h].contents, file[h].off) BY <1>1, <1>3 DEF OpenFileOf
    <3>2. PutState(file, h, "miss", off) = Put(file, h, OpenFileOf("miss", o, file[h].contents, off))
      BY <1>3, <3>1, FieldsChanged
    <3>3. QED BY <2>1, <3>2 DEF Put, PutState, OpenFileOf
  <2>3. FilesInv' BY <1>1, <1>2, <1>3, <1>4, <2>2, FileChanged
  <2>4. \A k \in Handles : file'[k].pc \in Pcs BY <1>2, <1>3, <2>2 DEF TypeOK, Pcs
  <2>5. at' \in Paths /\ TotalSize(pathContents') <= MaxSize /\ KeysDiffer(pathContents') BY <1>2, <2>1 DEF TypeOK
  <2>6. TypeOK' BY <1>1, <2>4, <2>5, TypeKept
  <2>7. CacheInv' BY <1>2, <2>1 DEF CacheInv
  <2>8. LayoutIsServed' /\ ListedIsThere' /\ ReadsTheFile'
    <3>1. LayoutIsServed /\ ListedIsThere /\ ReadsTheFile BY DEF IInv
    <3>2. LayoutIsServed'
      BY <1>1, <2>1, <3>1 DEF LayoutIsServed, OfAnyHash, WrittenVersion, ByModulePath, HiddenDotFile
    <3>3. ListedIsThere' BY <1>1, <2>1, <3>1 DEF ListedIsThere, HiddenDotFile, IsOpenSet
    <3>4. ReadsTheFile' BY <1>1, <2>1, <3>1 DEF ReadsTheFile, WrittenVersion, ByModulePath
    <3>5. QED BY <3>2, <3>3, <3>4
  <2>9. QED BY <1>5, <2>3, <2>6, <2>7, <2>8 DEF IInv
<1>8. QED BY <1>6, <1>7

LEMMA ReadMissKeeps ==
  ASSUME IInv, NEW h \in Handles, NEW ok \in BOOLEAN, ReadMiss(h, ok)
  PROVE  IInv'
<1>. DEFINE o == file[h].obj
            e == [key |-> Key(h), val |-> o]
            contents == IF ok THEN o ELSE file[h].contents
<1>1. file[h].pc = "miss" /\ at' = RootOf(o.mv) \o o.path /\ UNCHANGED <<frontend, node>> BY DEF ReadMiss
<1>2. FilesInv /\ CacheInv /\ TypeOK /\ KeysDiffer(pathContents) BY DEF IInv, TypeOK, KeysDiffer
<1>3. /\ frontend = "winfsp" /\ IsFile(o) /\ file[h].off \in Nat /\ file[h].contents \in {Is("none"), o}
      /\ file[h] = [pc |-> file[h].pc, obj |-> o, contents |-> file[h].contents, off |-> file[h].off]
      /\ DOMAIN file = Handles
  BY <1>1, <1>2, OpenFile
<1>4. StoreStat(o.mv, o.path) = o /\ Entry(o.mv, o.path) \in Entries BY <1>3, FileIsThere
<1>5. e \in Entries
  <2>1. o = Obj("file", o.mv, o.path) BY <1>3 DEF IsFile
  <2>2. e = Entry(o.mv, o.path) BY <2>1, Zenon DEF Key, PathContentsKey, Entry
  <2>3. QED BY <1>4, <2>2
<1>6. /\ file' = [file EXCEPT ![h].pc = "open", ![h].off = 0, ![h].contents = IF ok THEN o ELSE @]
      /\ pathContents' = IF ok THEN Fits(Used(e)) ELSE pathContents
      /\ answer' = IF ok THEN [op |-> "read", what |-> o, ok |-> ok, ents |-> {}, range |-> Bytes(o, file[h].off)]
                   ELSE [op |-> "read", what |-> Is("EIO"), ok |-> ok, ents |-> {}, range |-> <<>>]
  BY <1>4 DEF ReadMiss, Answer
<1>. HIDE DEF e
<1>7. file' = [file EXCEPT ![h] = [pc |-> "open", obj |-> o, contents |-> contents, off |-> 0]]
  <2>1. file' = PutFields(file, h, "open", 0, contents) BY <1>6 DEF PutFields
  <2>2. file[h] = OpenFileOf("miss", o, file[h].contents, file[h].off) BY <1>1, <1>3 DEF OpenFileOf
  <2>. HIDE DEF contents
  <2>3. PutFields(file, h, "open", 0, contents) = Put(file, h, OpenFileOf("open", o, contents, 0))
    BY <1>3, <2>2, FieldsChanged
  <2>4. QED BY <2>1, <2>3 DEF Put, OpenFileOf
<1>8. contents \in {Is("none"), o} BY <1>3
<1>. HIDE DEF contents
<1>9. FilesInv' BY <1>1, <1>2, <1>3, <1>7, <1>8, FileChanged
<1>10. /\ answer'.op = "read" /\ answer'.ents = {}
       /\ \/ answer'.what = o /\ answer'.range = Bytes(o, file[h].off)
          \/ answer'.what.kind = "EIO"
  BY <1>6 DEF Is, Obj
<1>11. LayoutIsServed' /\ ListedIsThere' /\ ReadsTheFile' /\ at' \in Paths BY <1>1, <1>3, <1>10, FileRead
<1>12. pathContents' \in Seq(Entries) /\ KeysDiffer(pathContents') /\ TotalSize(pathContents') <= MaxSize
  <2>1. CASE ok
    <3>1. Used(e) \in Seq(Entries) /\ KeysDiffer(Used(e)) BY <1>2, <1>5, UsedKeeps
    <3>2. QED BY <1>6, <2>1, <3>1, FitsKeeps
  <2>2. CASE ~ok
    <3>1. pathContents' = pathContents BY <1>6, <2>2
    <3>2. QED BY <1>2, <3>1 DEF CacheInv, TypeOK
  <2>3. QED BY <2>1, <2>2
<1>13. \A k \in Handles : file'[k].pc \in Pcs BY <1>2, <1>3, <1>7 DEF TypeOK, Pcs
<1>14. TypeOK' BY <1>1, <1>11, <1>12, <1>13, TypeKept
<1>15. CacheInv' BY <1>12 DEF CacheInv
<1>16. NodeInv' BY <1>1, <1>3 DEF NodeInv
<1>17. QED BY <1>9, <1>11, <1>14, <1>15, <1>16 DEF IInv

-----------------------------------------------------------------------------
(* The steps of FUSE *)

\* What a request of FUSE leaves alone.
LEMMA Walking ==
  ASSUME IInv, frontend = "fuse", at' \in Paths, node'.t \in Types, NodeAt(node', at'),
         UNCHANGED <<frontend, file, pathContents>>
  PROVE  TypeOK' /\ FilesInv' /\ CacheInv' /\ NodeInv'
<1>1. TypeOK'
  <2>1. TotalSize(pathContents') = TotalSize(pathContents) BY Zenon
  <2>2. QED BY <2>1 DEF IInv, TypeOK, Types
<1>2. FilesInv' BY DEF IInv, FilesInv
<1>3. CacheInv' BY DEF IInv, CacheInv
<1>4. NodeInv' BY DEF NodeInv
<1>5. QED BY <1>1, <1>2, <1>3, <1>4

LEMMA WalkKeeps ==
  ASSUME IInv, Walk
  PROVE  IInv'
<1>1. frontend = "fuse" /\ at' = <<>> /\ node' = RootNode /\ UNCHANGED <<frontend, file, pathContents>> BY DEF Walk
<1>2. answer'.op = "none" /\ answer'.ents = {} BY DEF Walk, NoAnswer
<1>3. LayoutIsServed' BY <1>2 DEF LayoutIsServed
<1>4. ListedIsThere' /\ ReadsTheFile' BY <1>2, NothingListed, NothingRead
<1>5. RootNode.t = "moduleName" /\ RootNode.segs = <<>> BY DEF RootNode
<1>6. NodeAt(RootNode, <<>>)
  <2>1. RootNode = [t |-> RootNode.t, segs |-> RootNode.segs, obj |-> RootNode.obj, have |-> RootNode.have] BY DEF RootNode
  <2>2. DOMAIN <<>> = {} OBVIOUS
  <2>3. QED BY <1>5, <2>1, <2>2 DEF NodeAt
<1>7. TypeOK' /\ FilesInv' /\ CacheInv' /\ NodeInv' BY <1>1, <1>5, <1>6, PathsAre, Walking DEF Types
<1>8. QED BY <1>3, <1>4, <1>7 DEF IInv

LEMMA LookupKeeps ==
  ASSUME IInv, NEW n \in Names, NEW ok \in BOOLEAN, Lookup(n, ok)
  PROVE  IInv'
<1>. DEFINE child == Child(node, n, ok)
<1>1. /\ frontend = "fuse" /\ node.t # "errno" /\ Append(at, n) \in Paths /\ at' = Append(at, n) /\ node' = child
      /\ UNCHANGED <<frontend, file, pathContents>>
  BY DEF Lookup
<1>2. answer'.op = "stat" /\ answer'.what = child.obj /\ answer'.ok = ok /\ answer'.ents = {} BY DEF Lookup, Answer
<1>3. NodeAt(node, at) /\ node.t \in Types /\ at \in Seq(Name) BY <1>1, PathsAre DEF IInv, NodeInv, TypeOK, Types
<1>4. n \in Name BY NamesAssumption
<1>5. GoodChild(child, at', ok) BY <1>1, <1>3, <1>4, GoodChildren
<1>. HIDE DEF child
<1>6. TypeOK' /\ FilesInv' /\ CacheInv' /\ NodeInv' BY <1>1, <1>5, Walking DEF GoodChild
<1>7. LayoutIsServed'
  BY <1>1, <1>2, <1>5 DEF GoodChild, FuseServes, LayoutIsServed, WrittenVersion, ByModulePath, IsByModulePath
<1>8. ListedIsThere' /\ ReadsTheFile' BY <1>2, NothingListed, NothingRead
<1>9. QED BY <1>6, <1>7, <1>8 DEF IInv

\* A name in a directory is found from the node of the directory.
LEMMA ReaddirKeeps ==
  ASSUME IInv, NEW ok \in BOOLEAN, Readdir(ok)
  PROVE  IInv'
<1>. DEFINE o == node.obj
<1>1. /\ frontend = "fuse" /\ node.t = "underZipRoot" /\ o.kind = "zipdir"
      /\ UNCHANGED <<frontend, at, node, file, pathContents>>
  BY DEF Readdir
<1>2. answer'.op = "readdir" /\ answer'.ents = IF ok THEN StoreReaddir(o.mv, o.path) ELSE {} BY DEF Readdir
<1>3. NodeAt(node, at) /\ node.t \in Types /\ at \in Paths BY <1>1 DEF IInv, NodeInv, TypeOK, Types
<1>4. o.mv \in DOMAIN Files /\ Parsed(at) = Obj("zip", o.mv, o.path) BY <1>1, <1>3 DEF NodeAt
<1>5. ASSUME NEW e \in answer'.ents PROVE Child(node, e[1], TRUE).obj.kind = e[2]
  <2>. DEFINE c == StoreStat(o.mv, Append(o.path, e[1]))
  <2>1. e \in StoreReaddir(o.mv, o.path) BY <1>2
  <2>2. at \in Seq(Name) BY <1>3, PathsAre
  <2>3. c.kind = e[2] /\ IsThere(o.mv, Append(o.path, e[1])) BY <1>4, <2>1, <2>2, Listed
  <2>4. c.kind # "ENOENT" BY <2>3 DEF IsThere, StoreStat, Obj
  <2>5. Child(node, e[1], TRUE) = NodeOf("underZipRoot", c) BY <1>1, <2>4 DEF Child, LookupUnderZipRoot
  <2>. HIDE DEF c
  <2>6. NodeOf("underZipRoot", c).obj = c BY DEF NodeOf
  <2>7. QED BY <2>3, <2>5, <2>6
<1>6. ListedIsThere' BY <1>1, <1>5 DEF ListedIsThere
<1>7. LayoutIsServed' BY <1>2 DEF LayoutIsServed
<1>8. ReadsTheFile' BY <1>2, NothingRead
<1>9. TypeOK' /\ FilesInv' /\ CacheInv' /\ NodeInv' BY <1>1, <1>3, Walking
<1>10. QED BY <1>6, <1>7, <1>8, <1>9 DEF IInv

\* What a file's node has is what the layout has at its path.
LEMMA NodeIsThere ==
  ASSUME NEW p \in Seq(Name), NEW d, NodeAt(d, p), d.t = "memFile" \/ (d.t = "underZipRoot" /\ d.obj.kind = "file")
  PROVE  /\ d.obj \in At(p) \/ AsWritten(d.obj) \/ IsByModulePath(p, d.obj)
         /\ SizeOf(d.obj) \in Nat
<1>1. CASE d.t = "memFile"
  <2>1. d.obj \in At(p) \/ AsWritten(d.obj) BY <1>1 DEF NodeAt
  <2>2. d.obj.kind = "meta" \/ d.obj.kind = "extracted" BY <1>1 DEF NodeAt
  <2>3. SizeOf(d.obj) = 1 BY <2>2 DEF SizeOf
  <2>4. QED BY <2>1, <2>3
<1>2. CASE d.t = "underZipRoot" /\ d.obj.kind = "file"
  <2>. DEFINE o == d.obj
  <2>1. o.mv \in DOMAIN Files /\ o = StoreStat(o.mv, o.path) /\ Parsed(p) = Obj("zip", o.mv, o.path)
    BY <1>2 DEF NodeAt
  <2>2. o.path \in Files[o.mv] BY <1>2, <2>1 DEF StoreStat, Is, Obj
  <2>3. SizeOf(o) \in Nat BY <1>2, <2>1, <2>2, FilesAssumption DEF SizeOf
  <2>4. Describe(Parsed(p), TRUE) = o BY <2>1 DEF Describe, Found, Obj
  <2>. HIDE DEF o
  <2>5. o.kind = "file" BY <1>2 DEF o
  <2>6. o \in At(p) \/ IsByModulePath(p, o) BY <2>4, <2>5, Served
  <2>7. QED BY <2>3, <2>6 DEF o
<1>3. QED BY <1>1, <1>2

LEMMA ReadKeeps ==
  ASSUME IInv, NEW off \in 0..MaxOffset, NEW ok \in BOOLEAN, Read(off, ok)
  PROVE  IInv'
<1>. DEFINE o == node.obj
<1>1. /\ frontend = "fuse" /\ (node.t = "memFile" \/ (node.t = "underZipRoot" /\ o.kind = "file"))
      /\ node' = [node EXCEPT !.have = @ \/ ok] /\ UNCHANGED <<frontend, at, file, pathContents>>
  BY DEF Read
<1>2. /\ answer'.op = "read" /\ answer'.ents = {}
      /\ (answer'.what = o /\ answer'.range = Bytes(o, off)) \/ answer'.what.kind = "EIO"
  BY DEF Read, Answer, Is, Obj
<1>3. NodeAt(node, at) /\ node.t \in Types /\ at \in Paths BY <1>1 DEF IInv, NodeInv, TypeOK, Types
<1>4. at \in Seq(Name) /\ off \in Nat BY <1>3, PathsAre, BoundsAssumption
<1>5. /\ o \in At(at) \/ AsWritten(o) \/ IsByModulePath(at, o)
      /\ SizeOf(o) \in Nat
  BY <1>1, <1>3, <1>4, NodeIsThere
<1>6. /\ node'.t = node.t /\ node'.segs = node.segs /\ node'.obj = node.obj
      /\ node' = [t |-> node'.t, segs |-> node'.segs, obj |-> node'.obj, have |-> node'.have]
  BY <1>1, <1>3 DEF NodeAt
<1>7. NodeAt(node', at) BY <1>3, <1>6 DEF NodeAt
<1>8. TypeOK' /\ FilesInv' /\ CacheInv' /\ NodeInv' BY <1>1, <1>3, <1>6, <1>7, Walking
<1>. HIDE DEF o
<1>9. Bytes(o, off) # <<>> => Bytes(o, off)[2] <= SizeOf(o) BY <1>4, <1>5, BytesRead
<1>10. ReadsTheFile' BY <1>1, <1>2, <1>5, <1>9 DEF ReadsTheFile, WrittenVersion, ByModulePath, IsByModulePath
<1>11. LayoutIsServed' /\ ListedIsThere' BY <1>2, NothingListed DEF LayoutIsServed
<1>12. QED BY <1>8, <1>10, <1>11 DEF IInv

LEMMA ReadStatusKeeps ==
  ASSUME IInv, NEW off \in 0..MaxOffset, ReadStatus(off)
  PROVE  IInv'
<1>. DEFINE o == node.obj
<1>1. frontend = "fuse" /\ node.t = "statusFile" /\ UNCHANGED <<frontend, at, node, file, pathContents>> BY DEF ReadStatus
<1>2. /\ answer'.op = "read" /\ answer'.ents = {} /\ answer'.range = Bytes(o, off)
      /\ answer'.what = o \/ answer'.what.kind = "panic"
  BY DEF ReadStatus, Answer, Is, Obj
<1>3. NodeAt(node, at) /\ node.t \in Types /\ at \in Paths BY <1>1 DEF IInv, NodeInv, TypeOK, Types
<1>4. at = <<statusFile>> /\ o = Is("status") BY <1>1, <1>3 DEF NodeAt
<1>5. o \in At(at) BY <1>4, AtPlaces DEF IsStatus
<1>6. SizeOf(o) = 1 BY <1>4 DEF SizeOf, Is, Obj
<1>7. SizeOf(o) \in Nat /\ off \in Nat BY <1>6, BoundsAssumption
<1>. HIDE DEF o
<1>8. Bytes(o, off) # <<>> => Bytes(o, off)[2] <= SizeOf(o) BY <1>7, BytesRead
<1>9. ReadsTheFile' BY <1>1, <1>2, <1>5, <1>8 DEF ReadsTheFile
<1>10. LayoutIsServed' /\ ListedIsThere' BY <1>2, NothingListed DEF LayoutIsServed
<1>11. TypeOK' /\ FilesInv' /\ CacheInv' /\ NodeInv' BY <1>1, <1>3, Walking
<1>12. QED BY <1>9, <1>10, <1>11 DEF IInv

-----------------------------------------------------------------------------
(* The theorems *)

LEMMA InitInv == Init => IInv
<1>. SUFFICES ASSUME Init PROVE IInv OBVIOUS
<1>1. /\ frontend \in {"fuse", "webdav", "winfsp", "nfs"} /\ at = <<>> /\ node = RootNode
      /\ file = [h \in Handles |-> Closed] /\ pathContents = <<>>
      /\ answer.op = "none" /\ answer.ents = {}
  BY DEF Init, NoAnswer
<1>2. RootNode.t = "moduleName" /\ RootNode.segs = <<>> BY DEF RootNode
<1>3. Closed.pc = "closed" /\ Closed.contents = Is("none") /\ Closed.off = 0 BY DEF Closed
<1>4. TypeOK
  <2>1. BytesOf(<<>>) = {} BY DEF BytesOf
  <2>2. Cardinality({}) = 0 BY FS_EmptySet
  <2>3. TotalSize(<<>>) = 0 BY <2>1, <2>2 DEF TotalSize, BytesOf
  <2>4. TotalSize(pathContents) <= MaxSize BY <1>1, <2>3, BoundsAssumption
  <2>5. DOMAIN pathContents = {} BY <1>1
  <2>6. \A h \in Handles : file[h].pc = "closed" BY <1>1, <1>3
  <2>7. QED BY <1>1, <1>2, <2>4, <2>5, <2>6, PathsAre DEF TypeOK
<1>5. FilesInv
  <2>1. Closed = [pc |-> Closed.pc, obj |-> Closed.obj, contents |-> Closed.contents, off |-> Closed.off] BY DEF Closed
  <2>2. \A h \in Handles : file[h] = Closed BY <1>1
  <2>3. file = [h \in Handles |-> [pc |-> file[h].pc, obj |-> file[h].obj, contents |-> file[h].contents, off |-> file[h].off]]
    BY <1>1, <2>1, <2>2
  <2>4. QED BY <1>3, <2>2, <2>3 DEF FilesInv
<1>6. CacheInv BY <1>1 DEF CacheInv
<1>7. NodeInv
  <2>1. RootNode = [t |-> RootNode.t, segs |-> RootNode.segs, obj |-> RootNode.obj, have |-> RootNode.have] BY DEF RootNode
  <2>2. DOMAIN <<>> = {} OBVIOUS
  <2>3. NodeAt(RootNode, <<>>) BY <1>2, <2>1, <2>2 DEF NodeAt
  <2>4. QED BY <1>1, <2>3 DEF NodeInv
<1>8. LayoutIsServed /\ ListedIsThere /\ ReadsTheFile BY <1>1 DEF LayoutIsServed, ListedIsThere, ReadsTheFile
<1>9. QED BY <1>4, <1>5, <1>6, <1>7, <1>8 DEF IInv

LEMMA NextInv == IInv /\ [Next]_vars => IInv'
<1>. SUFFICES ASSUME IInv, [Next]_vars PROVE IInv' OBVIOUS
<1>1. Asked \subseteq Paths BY PathsAre DEF Asked
<1>2. ASSUME NEW p \in Asked, NEW ok \in BOOLEAN, Stat(p, ok) PROVE IInv' BY <1>1, <1>2, StatKeeps
<1>3. ASSUME NEW p \in Asked, NEW ok \in BOOLEAN, WebdavOpenFile(p, ok) PROVE IInv' BY <1>1, <1>3, WebdavOpenFileKeeps
<1>4. ASSUME NEW p \in Asked, NEW ok \in BOOLEAN, NEW found \in BOOLEAN, ReadDir(p, found, ok) PROVE IInv'
  BY <1>1, <1>4, ReadDirKeeps
<1>5. ASSUME NEW p \in Asked, NEW ok \in BOOLEAN, NEW h \in Handles, FspOpenFile(h, p, ok) PROVE IInv'
  BY <1>1, <1>5, FspOpenFileKeeps
<1>6. ASSUME NEW p \in Asked, OpenToWrite(p) PROVE IInv' BY <1>1, <1>6, OpenToWriteKeeps
<1>7. ASSUME See PROVE IInv' BY <1>7, SeeKeeps
<1>8. ASSUME NEW h \in Handles, NEW off \in 0..MaxOffset, ReadAt(h, off) PROVE IInv' BY <1>8, ReadAtKeeps
<1>9. ASSUME NEW h \in Handles, NEW ok \in BOOLEAN, ReadMiss(h, ok) PROVE IInv' BY <1>9, ReadMissKeeps
<1>10. ASSUME NEW n \in Names, NEW ok \in BOOLEAN, Lookup(n, ok) PROVE IInv' BY <1>10, LookupKeeps
<1>11. ASSUME Walk PROVE IInv' BY <1>11, WalkKeeps
<1>12. ASSUME NEW ok \in BOOLEAN, Readdir(ok) PROVE IInv' BY <1>12, ReaddirKeeps
<1>13. ASSUME NEW off \in 0..MaxOffset, NEW ok \in BOOLEAN, Read(off, ok) PROVE IInv' BY <1>13, ReadKeeps
<1>14. ASSUME NEW off \in 0..MaxOffset, ReadStatus(off) PROVE IInv' BY <1>14, ReadStatusKeeps
<1>15. ASSUME UNCHANGED vars PROVE IInv'
  <2>1. /\ frontend' = frontend /\ at' = at /\ node' = node /\ answer' = answer /\ file' = file
        /\ pathContents' = pathContents
    BY <1>15 DEF vars
  <2>2. TypeOK'
    <3>1. TotalSize(pathContents') = TotalSize(pathContents) BY <2>1
    <3>2. QED BY <2>1, <3>1 DEF IInv, TypeOK
  <2>3. FilesInv' /\ CacheInv' /\ NodeInv' BY <2>1 DEF IInv, FilesInv, CacheInv, NodeInv
  <2>4. LayoutIsServed'
    BY <2>1 DEF IInv, LayoutIsServed, OfAnyHash, WrittenVersion, ByModulePath, HiddenDotFile
  <2>5. ListedIsThere' BY <2>1 DEF IInv, ListedIsThere, HiddenDotFile, IsOpenSet
  <2>6. ReadsTheFile' BY <2>1 DEF IInv, ReadsTheFile, WrittenVersion, ByModulePath
  <2>7. QED BY <2>2, <2>3, <2>4, <2>5, <2>6 DEF IInv
<1>16. QED
  BY <1>2, <1>3, <1>4, <1>5, <1>6, <1>7, <1>8, <1>9, <1>10, <1>11, <1>12, <1>13, <1>14, <1>15 DEF Next

\* The paths, nodes, open files and the cache by path are what they should be, always.
THEOREM Invariance == Spec => []IInv
<1>1. Init => IInv BY InitInv
<1>2. IInv /\ [Next]_vars => IInv' BY NextInv
<1>3. QED BY <1>1, <1>2, PTL DEF Spec

\* The variables have their types, and what FS.pathContents keeps is not larger than
\* GetFileCacheSize, after every read and whatever other read has put the file there.
THEOREM TypesAndSize == Spec => []TypeOK
<1>1. IInv => TypeOK BY DEF IInv
<1>2. QED BY <1>1, Invariance, PTL

\* parsePath, FUSE's nodes, and the Stat, Lstat and OpenFile on top of them find at every
\* path what GOMODCACHE has there, and no file where it has none.
THEOREM EveryFrontEndServesTheLayout == Spec => []LayoutIsServed
<1>1. IInv => LayoutIsServed BY DEF IInv
<1>2. QED BY <1>1, Invariance, PTL

\* The names that ReadDir, OpenFile and Readdir list can be looked up by the same front end.
THEOREM ListedNamesAreFound == Spec => []ListedIsThere
<1>1. IInv => ListedIsThere BY DEF IInv
<1>2. QED BY <1>1, Invariance, PTL

\* winFSPRegularFile.ReadAt, getFileContents and the Reads of FUSE return the bytes of
\* the file at the path, from the cache and after failures too.
THEOREM ReadsReturnTheFile == Spec => []ReadsTheFile
<1>1. IInv => ReadsTheFile BY DEF IInv
<1>2. QED BY <1>1, Invariance, PTL

-----------------------------------------------------------------------------
(* Directories *)

\* A path that begins another one.
Begins(p, s) == Len(p) <= Len(s) /\ \A i \in 1..Len(p) : p[i] = s[i]

\* A prefix agrees with its sequence place by place.
LEMMA PrefixBegins ==
  ASSUME NEW S, NEW p \in Seq(S), NEW s \in Seq(S), IsPrefix(p, s)
  PROVE  Begins(p, s)
<1>. DEFINE k == Len(p)
<1>1. k \in Nat /\ Len(s) \in Nat /\ k <= Len(s) /\ SubSeq(p, 1, k) = SubSeq(s, 1, k) BY DEF IsPrefix
<1>2. 1 \in 1..(k + 1) /\ 1 \in 1..(Len(s) + 1) /\ k \in 0..k /\ k \in 0..Len(s) /\ 1 <= k + 1 /\ k - 1 + 1 = k BY <1>1
<1>3. \A i \in 1..(k - 1 + 1) : SubSeq(p, 1, k)[i] = p[1 + i - 1] BY <1>2, PartPlaces
<1>4. \A i \in 1..(k - 1 + 1) : SubSeq(s, 1, k)[i] = s[1 + i - 1] BY <1>2, PartPlaces
<1>5. \A i \in 1..k : i \in 1..(k - 1 + 1) /\ 1 + i - 1 = i BY <1>1
<1>6. \A i \in 1..k : p[i] = s[i] BY <1>1, <1>3, <1>4, <1>5
<1>7. QED BY <1>1, <1>6 DEF Begins

\* One that goes on after the first part of another one ends in the second.
LEMMA BeginsAfter ==
  ASSUME NEW S, NEW a \in Seq(S), NEW q \in Seq(S), NEW p \in Seq(S), Begins(p, a \o q), Len(p) >= Len(a)
  PROVE  \E l \in 0..Len(q) : p = a \o SubSeq(q, 1, l)
<1>. DEFINE k == Len(a)
            l == Len(p) - k
            b == SubSeq(q, 1, l)
<1>1. k \in Nat /\ Len(q) \in Nat /\ Len(p) \in Nat BY DEF Begins
<1>2. /\ Len(a \o q) = k + Len(q)
      /\ \A i \in 1..k : (a \o q)[i] = a[i]
      /\ \A i \in 1..Len(q) : (a \o q)[k + i] = q[i]
  OBVIOUS
<1>3. Len(p) <= k + Len(q) /\ \A i \in 1..Len(p) : p[i] = (a \o q)[i] BY <1>2 DEF Begins
<1>4. l \in 0..Len(q) /\ 1 \in 1..(Len(q) + 1) /\ 1 <= l + 1 /\ l - 1 + 1 = l /\ k + l = Len(p) BY <1>1, <1>3
<1>5. b \in Seq(S) /\ Len(b) = l - 1 + 1 /\ \A i \in 1..(l - 1 + 1) : b[i] = q[1 + i - 1] BY <1>4, PartPlaces
<1>6. \A i \in 1..l : i \in 1..(l - 1 + 1) /\ 1 + i - 1 = i /\ i \in 1..Len(q) /\ k + i \in 1..Len(p) BY <1>1, <1>4
<1>7. Len(b) = l /\ \A i \in 1..l : b[i] = q[i] BY <1>4, <1>5, <1>6
<1>. HIDE DEF b
<1>8. a \o b \in Seq(S) /\ Len(a \o b) = k + l BY <1>5, <1>7
<1>9. (\A i \in 1..k : (a \o b)[i] = a[i]) /\ \A i \in 1..l : (a \o b)[k + i] = b[i] BY <1>5, <1>7
<1>10. ASSUME NEW i \in 1..Len(p) PROVE p[i] = (a \o b)[i]
  <2>1. CASE i <= k
    <3>1. i \in 1..k BY <1>1, <2>1
    <3>2. QED BY <1>2, <1>3, <1>9, <3>1
  <2>2. CASE i > k
    <3>1. i - k \in 1..l /\ k + (i - k) = i BY <1>1, <1>4, <2>2
    <3>. DEFINE j == i - k
    <3>2. j \in 1..l /\ k + j = i BY <3>1
    <3>. HIDE DEF j, l, k
    <3>3. (a \o b)[k + j] = b[j] /\ b[j] = q[j] /\ j \in 1..Len(q) BY <1>6, <1>7, <1>9, <3>2
    <3>4. (a \o q)[k + j] = q[j] BY <1>2, <3>3
    <3>5. QED BY <1>3, <3>2, <3>3, <3>4
  <2>3. i <= k \/ i > k BY <1>1
  <2>4. QED BY <2>1, <2>2, <2>3
<1>11. p = a \o b BY <1>4, <1>8, <1>10, SameSeq
<1>12. QED BY <1>4, <1>11 DEF b

\* What leads to a file or directory of a module version is there.
LEMMA ThereBefore ==
  ASSUME NEW mv, NEW q \in Seq(Name), IsThere(mv, q), NEW l \in 0..Len(q)
  PROVE  SubSeq(q, 1, l) \in Seq(Name) /\ IsThere(mv, SubSeq(q, 1, l))
<1>. DEFINE b == SubSeq(q, 1, l)
<1>1. PICK f \in Files[mv] : q \in Prefixes(f)
  <2>1. CASE q \in Files[mv] BY <2>1, PrefixPath
  <2>2. CASE q \in Dirs(mv) BY <2>2 DEF Dirs
  <2>3. QED BY <2>1, <2>2 DEF IsThere
<1>2. mv \in DOMAIN Files /\ f \in Seq(Name) /\ Len(f) \in Nat /\ Len(q) \in Nat BY FilesAndDirs DEF IsThere
<1>3. PICK m \in 0..Len(f) : q = SubSeq(f, 1, m) BY <1>1 DEF Prefixes
<1>4. 1 \in 1..(Len(f) + 1) /\ 1 <= m + 1 /\ m - 1 + 1 = m BY <1>2
<1>5. Len(q) = m - 1 + 1 /\ \A i \in 1..(m - 1 + 1) : q[i] = f[1 + i - 1] BY <1>2, <1>3, <1>4, PartPlaces
<1>6. Len(q) = m /\ l \in 0..Len(f) /\ 1 <= l + 1 /\ 1 \in 1..(Len(q) + 1) /\ l - 1 + 1 = l BY <1>2, <1>4, <1>5
<1>7. b \in Seq(Name) /\ Len(b) = l - 1 + 1 /\ \A i \in 1..(l - 1 + 1) : b[i] = q[1 + i - 1] BY <1>6, PartPlaces
<1>. DEFINE c == SubSeq(f, 1, l)
<1>8. c \in Seq(Name) /\ Len(c) = l - 1 + 1 /\ \A i \in 1..(l - 1 + 1) : c[i] = f[1 + i - 1]
  BY <1>2, <1>4, <1>6, PartPlaces
<1>9. \A i \in 1..l : i \in 1..(l - 1 + 1) /\ 1 + i - 1 = i /\ i \in 1..(m - 1 + 1) BY <1>2, <1>5, <1>6
<1>. HIDE DEF b, c
<1>10. Len(b) = l /\ Len(c) = l /\ \A i \in 1..l : b[i] = c[i] BY <1>5, <1>6, <1>7, <1>8, <1>9
<1>11. b = c BY <1>7, <1>8, <1>10, SameSeq
<1>12. b \in Prefixes(f) BY <1>6, <1>11 DEF Prefixes, c
<1>13. b \in Files[mv] \/ b \in Dirs(mv) BY <1>12 DEF Dirs
<1>14. QED BY <1>2, <1>7, <1>13 DEF IsThere, b

\* The paths to module versions and to metadata, and the directories of toolchains.
ModuleAbove(p) == \E mv \in DOMAIN Files \ Toolchains : Len(p) < Len(EscapePath(mv.mod)) /\ Begins(p, EscapePath(mv.mod))
MetaAbove(p) ==
  \E mv \in DOMAIN Files \ Toolchains, ext \in Exts : Len(p) < Len(MetaFile(mv, ext)) /\ Begins(p, MetaFile(mv, ext))
PlatformAbove(p) == \E o \in Platforms : p = <<PlatformName(o)>>

\* Where the root of a module version is.
LEMMA ModuleRoot ==
  ASSUME NEW mv \in DOMAIN Files \ Toolchains
  PROVE  /\ ModuleDir(mv) \in Seq(Name) /\ Len(ModuleDir(mv)) = Len(EscapePath(mv.mod))
         /\ \A i \in 1..(Len(EscapePath(mv.mod)) - 1) : ModuleDir(mv)[i] = EscapePath(mv.mod)[i]
<1>. DEFINE m == EscapePath(mv.mod)
            v == EscapeAll(mv.ver)
            a == Front(m)
            n == Last(m) \o <<"@">> \o v
<1>1. m \in Seq(Name) /\ m # <<>> /\ v \in Seq(Piece) BY ModVersionOf
<1>2. ModuleDir(mv) = a \o <<n>> BY DEF ModuleDir
<1>. HIDE DEF m, v
<1>3. /\ a \in Seq(Name) /\ Last(m) \in Name /\ Len(a) = Len(m) - 1
      /\ \A i \in 1..(Len(m) - 1) : a[i] = m[i]
  BY <1>1, FrontLast
<1>4. n \in Name
  <2>1. Last(m) \in Seq(Piece) /\ "@" \in Piece BY <1>3, Separators DEF Name
  <2>2. Join(Last(m), "@", v) \in Seq(Piece) /\ Joined(Join(Last(m), "@", v), Last(m), "@", v) BY <1>1, <2>1, JoinPlaces
  <2>3. n = Join(Last(m), "@", v) BY DEF Join
  <2>4. Len(n) # 0 BY <1>1, <2>1, <2>2, <2>3 DEF Joined
  <2>5. n \in Seq(Piece) BY <2>2, <2>3, Zenon
  <2>. HIDE DEF n
  <2>6. n # <<>> BY <2>4
  <2>7. QED BY <2>5, <2>6, Zenon DEF Name
<1>. HIDE DEF a, n
<1>5. /\ a \o <<n>> \in Seq(Name) /\ Len(a \o <<n>>) = Len(a) + 1
      /\ \A i \in 1..Len(a) : (a \o <<n>>)[i] = a[i]
  BY <1>3, <1>4
<1>6. Len(m) \in Nat /\ Len(a) + 1 = Len(m) BY <1>1, <1>3
<1>7. QED BY <1>2, <1>3, <1>5, <1>6 DEF m

\* The directory of a toolchain and its .extracted file share the platform's name.
LEMMA ToolchainRoot ==
  ASSUME NEW mv \in Toolchains
  PROVE  /\ ToolchainDir(mv) \in Seq(Name) /\ Len(ToolchainDir(mv)) = 2 /\ ToolchainDir(mv) # <<>>
         /\ \E o \in Platforms : ToolchainDir(mv)[1] = PlatformName(o) /\ Extracted(mv)[1] = PlatformName(o)
<1>1. PICK o \in Platforms, h \in LowerHashes : mv.ver = TSGoVersion(o[1], o[2], h) BY ToolchainsAssumption
<1>2. mv.ver[2] = o[1] /\ mv.ver[4] = o[2] /\ mv.ver[6] = h BY <1>1 DEF TSGoVersion
<1>3. ToolchainDir(mv) = <<PlatformName(o), <<h>>>> BY <1>2 DEF ToolchainDir, PlatformName
<1>4. Extracted(mv)[1] = PlatformName(o) BY <1>2 DEF Extracted, PlatformName
<1>5. PlatformName(o) \in Name /\ <<h>> \in Name
  <2>1. h \in Piece BY ToolchainsAssumption
  <2>2. <<h>> \in Name BY <2>1 DEF Name
  <2>3. QED BY <2>2, PlatformCut
<1>6. QED BY <1>3, <1>4, <1>5

\* A length that is not zero and below two is one.
LEMMA OneLong ==
  ASSUME NEW k \in Nat, k # 0, k < 2
  PROVE  k = 1
OBVIOUS

\* What is joined behind a sequence leaves its first place alone.
LEMMA FirstOf ==
  ASSUME NEW S, NEW a \in Seq(S), NEW b \in Seq(S), a # <<>>
  PROVE  (a \o b)[1] = a[1]
<1>1. \A i \in 1..Len(a) : (a \o b)[i] = a[i] OBVIOUS
<1>2. 1 \in 1..Len(a) OBVIOUS
<1>3. QED BY <1>1, <1>2

\* So a path above something placed is one of these.
LEMMA AboveShapes ==
  ASSUME NEW p \in Seq(Name), p # <<>>, Above(p)
  PROVE  ModuleAbove(p) \/ MetaAbove(p) \/ PlatformAbove(p)
<1>1. PICK y \in Placed : IsPrefix(p, y[1]) BY DEF Above
<1>. DEFINE z == y[1]
            o == y[2]
<1>2. o \in At(z) BY DEF At
<1>3. z \in Seq(Name) BY <1>2, Complete
<1>4. At(p) = {} BY DEF Above
<1>. HIDE DEF z, o
<1>5. Begins(p, z) BY <1>1, <1>3, PrefixBegins DEF z
<1>6. Len(p) \in Nat /\ Len(z) \in Nat /\ Len(p) # 0 BY <1>3
<1>7. Len(p) < Len(z)
  <2>1. SUFFICES ASSUME Len(p) = Len(z) PROVE FALSE BY <1>5, <1>6 DEF Begins
  <2>2. p = z BY <1>3, <1>5, <2>1, SameSeq DEF Begins
  <2>3. QED BY <1>2, <1>4, <2>2
<1>8. ASSUME NEW w \in Platforms, z[1] = PlatformName(w), Len(p) = 1 PROVE PlatformAbove(p)
  <2>1. p[1] = PlatformName(w) BY <1>5, <1>8 DEF Begins
  <2>2. p = <<p[1]>> BY <1>8
  <2>3. QED BY <2>1, <2>2 DEF PlatformAbove
<1>9. CASE InModule(z, o)
  <2>1. PICK mv \in DOMAIN Files, q \in Seq(Name) : z = RootOf(mv) \o q /\ IsThere(mv, q) BY <1>9 DEF InModule
  <2>2. ASSUME RootOf(mv) \in Seq(Name) PROVE Len(p) < Len(RootOf(mv))
    <3>1. Len(RootOf(mv)) \in Nat BY <2>2
    <3>2. SUFFICES ASSUME Len(p) >= Len(RootOf(mv)) PROVE FALSE BY <1>6, <3>1
    <3>3. PICK l \in 0..Len(q) : p = RootOf(mv) \o SubSeq(q, 1, l) BY <1>5, <2>1, <2>2, <3>2, BeginsAfter
    <3>. DEFINE b == SubSeq(q, 1, l)
    <3>4. b \in Seq(Name) /\ IsThere(mv, b) BY <2>1, ThereBefore
    <3>5. p = RootOf(mv) \o b BY <3>3
    <3>. HIDE DEF b
    <3>6. StoreStat(mv, b) \in At(p) BY <3>4, <3>5, AtPlaces DEF InModule
    <3>7. QED BY <1>4, <3>6
  <2>3. CASE mv \in Toolchains
    <3>1. RootOf(mv) = ToolchainDir(mv) BY <2>3 DEF RootOf
    <3>2. PICK w \in Platforms : ToolchainDir(mv)[1] = PlatformName(w) BY <2>3, ToolchainRoot
    <3>3. ToolchainDir(mv) \in Seq(Name) /\ Len(ToolchainDir(mv)) = 2 BY <2>3, ToolchainRoot
    <3>4. Len(p) < 2 BY <2>2, <3>1, <3>3
    <3>5. Len(p) = 1 BY <1>6, <3>4, OneLong
    <3>6. z[1] = ToolchainDir(mv)[1]
      <4>1. ToolchainDir(mv) # <<>> BY <2>3, ToolchainRoot
      <4>2. QED BY <2>1, <3>1, <3>3, <4>1, FirstOf
    <3>7. QED BY <1>8, <3>2, <3>5, <3>6
  <2>4. CASE mv \notin Toolchains
    <3>. DEFINE m == EscapePath(mv.mod)
                dir == ModuleDir(mv)
    <3>1. RootOf(mv) = dir BY <2>4 DEF RootOf
    <3>2. dir \in Seq(Name) /\ Len(dir) = Len(m) /\ \A i \in 1..(Len(m) - 1) : dir[i] = m[i] BY <2>4, ModuleRoot
    <3>3. z = dir \o q BY <2>1, <3>1
    <3>4. Len(p) < Len(dir) BY <2>2, <3>1, <3>2
    <3>. HIDE DEF dir, m
    <3>5. \A i \in 1..Len(dir) : z[i] = dir[i] BY <3>2, <3>3
    <3>6. Len(dir) \in Nat BY <3>2
    <3>7. \A i \in 1..Len(p) : i \in 1..Len(dir) /\ i \in 1..(Len(m) - 1) BY <1>6, <3>2, <3>4, <3>6
    <3>8. \A i \in 1..Len(p) : p[i] = m[i] BY <1>5, <3>2, <3>5, <3>7 DEF Begins
    <3>9. Len(p) < Len(m) /\ Len(p) <= Len(m) BY <1>6, <3>2, <3>4, <3>6
    <3>10. QED BY <2>4, <3>8, <3>9 DEF ModuleAbove, Begins, m
  <2>5. QED BY <2>3, <2>4
<1>10. CASE IsMeta(z, o)
  <2>1. PICK mv \in DOMAIN Files \ Toolchains, ext \in Exts : z = MetaFile(mv, ext) BY <1>10 DEF IsMeta
  <2>2. QED BY <1>5, <1>7, <2>1 DEF MetaAbove
<1>11. CASE IsExtracted(z, o)
  <2>1. PICK mv \in Toolchains : z = Extracted(mv) BY <1>11 DEF IsExtracted
  <2>2. PICK w \in Platforms : Extracted(mv)[1] = PlatformName(w) BY ToolchainRoot
  <2>3. Len(z) = 2 BY <2>1, ToolchainPath
  <2>4. Len(p) < 2 BY <1>7, <2>3, Zenon
  <2>5. Len(p) = 1 BY <1>6, <2>4, OneLong
  <2>6. QED BY <1>8, <2>1, <2>2, <2>5
<1>12. CASE IsStatus(z, o)
  <2>1. Len(z) = 1 BY <1>12 DEF IsStatus
  <2>2. QED BY <1>6, <1>7, <2>1
<1>13. QED BY <1>2, <1>9, <1>10, <1>11, <1>12, AtPlaces

\* What is known of each.
LEMMA ModuleAboveIs ==
  ASSUME NEW p \in Seq(Name), p # <<>>, ModuleAbove(p)
  PROVE  /\ p[1] # cache /\ p[1][1] # "tsgo-"
         /\ p[1] # hello
         /\ \A i \in 1..Len(p) : ~Contains(p[i], "@") /\ p[i][1] # "."
<1>1. PICK mv \in DOMAIN Files \ Toolchains : Len(p) < Len(EscapePath(mv.mod)) /\ Begins(p, EscapePath(mv.mod))
  BY DEF ModuleAbove
<1>. DEFINE m == EscapePath(mv.mod)
<1>2. m \in Seq(Name) BY ModVersionOf
<1>3. m[1] # cache /\ m[1] # hello /\ m[1][1] # "tsgo-" /\ ValidPath(m) BY ModulesAssumption
<1>. HIDE DEF m
<1>4. \A i \in 1..Len(p) : p[i] = m[i] BY <1>1 DEF Begins, m
<1>5. \A i \in 1..Len(p) : i \in DOMAIN m
  <2>1. Len(p) \in Nat /\ Len(m) \in Nat /\ Len(p) < Len(m) /\ DOMAIN m = 1..Len(m) BY <1>1, <1>2 DEF m
  <2>2. QED BY <2>1
<1>6. 1 \in 1..Len(p) OBVIOUS
<1>7. \A i \in 1..Len(p) : ~Contains(m[i], "@") /\ m[i][1] # "." BY <1>3, <1>5, Zenon DEF ValidPath
<1>8. QED BY <1>3, <1>4, <1>6, <1>7

\* The names of a path above a metadata file: cache, download, the escaped path, @v.
LEMMA MetaAboveIs ==
  ASSUME NEW p \in Seq(Name), p # <<>>, MetaAbove(p)
  PROVE  \E mv \in DOMAIN Files \ Toolchains : \E segs \in Seq(Name) :
           /\ segs = EscapePath(mv.mod) /\ ValidPath(segs) /\ \A i \in 1..Len(segs) : segs[i] # atV
           /\ Len(p) <= Len(segs) + 3
           /\ p[1] = cache /\ (Len(p) >= 2 => p[2] = download)
           /\ \A i \in 3..Len(p) : i <= Len(segs) + 2 => p[i] = segs[i - 2]
           /\ Len(p) = Len(segs) + 3 => p[Len(p)] = atV
<1>1. PICK mv \in DOMAIN Files \ Toolchains, ext \in Exts : Len(p) < Len(MetaFile(mv, ext)) /\ Begins(p, MetaFile(mv, ext))
  BY DEF MetaAbove
<1>. DEFINE segs == EscapePath(mv.mod)
            m == MetaFile(mv, ext)
            n == EscapeAll(mv.ver) \o <<".", ext>>
<1>2. m \in Seq(Name) /\ IsDownload(m, segs, n) /\ segs \in Seq(Name) /\ \A i \in 1..Len(segs) : segs[i] # atV BY MetaPath
<1>3. ValidPath(segs) BY ModulesAssumption
<1>4. Len(p) < Len(m) /\ Begins(p, m) BY <1>1
<1>. HIDE DEF segs, m, n
<1>5. Len(p) \in Nat /\ Len(segs) \in Nat /\ Len(m) = Len(segs) + 4 /\ Len(p) # 0 BY <1>2 DEF IsDownload
<1>6. Len(p) <= Len(segs) + 3 BY <1>4, <1>5
<1>7. 1 \in 1..Len(p) /\ (Len(p) >= 2 => 2 \in 1..Len(p)) BY <1>5
<1>8. p[1] = cache /\ (Len(p) >= 2 => p[2] = download) BY <1>2, <1>4, <1>7 DEF Begins, IsDownload
<1>9. ASSUME NEW i \in 3..Len(p), i <= Len(segs) + 2 PROVE p[i] = segs[i - 2]
  <2>1. i \in 1..Len(p) /\ i - 2 \in 1..Len(segs) /\ (i - 2) + 2 = i BY <1>5, <1>9
  <2>2. m[(i - 2) + 2] = segs[i - 2] BY <1>2, <2>1 DEF IsDownload
  <2>3. QED BY <1>4, <2>1, <2>2 DEF Begins
<1>10. ASSUME Len(p) = Len(segs) + 3 PROVE p[Len(p)] = atV
  <2>1. Len(p) \in 1..Len(p) BY <1>5
  <2>2. QED BY <1>2, <1>4, <1>10, <2>1 DEF Begins, IsDownload
<1>11. QED BY <1>2, <1>3, <1>6, <1>8, <1>9, <1>10 DEF segs

\* @v is at the end of a path above metadata, and nowhere before.
LEMMA MetaAboveAtV ==
  ASSUME NEW p \in Seq(Name), p # <<>>, MetaAbove(p), NEW i \in 3..(Len(p) - 1)
  PROVE  p[i] # atV
<1>1. PICK segs \in Seq(Name) :
        /\ \A j \in 1..Len(segs) : segs[j] # atV
        /\ Len(p) <= Len(segs) + 3
        /\ \A j \in 3..Len(p) : j <= Len(segs) + 2 => p[j] = segs[j - 2]
  BY MetaAboveIs
<1>2. i \in 3..Len(p) /\ i <= Len(segs) + 2 /\ i - 2 \in 1..Len(segs) BY <1>1
<1>3. QED BY <1>1, <1>2

\* A path above a toolchain is the platform's name alone.
LEMMA PlatformAboveIs ==
  ASSUME NEW p, PlatformAbove(p)
  PROVE  Len(p) = 1 /\ p[1][1] = "tsgo-" /\ p[1] # cache /\ \E o \in Platforms : p[1] = PlatformName(o)
<1>1. PICK o \in Platforms : p = <<PlatformName(o)>> BY DEF PlatformAbove
<1>2. PlatformName(o)[1] = "tsgo-" /\ cache[1] # "tsgo-" BY PlatformCut, NamesWithoutAt
<1>3. Len(p) = 1 /\ p[1] = PlatformName(o) BY <1>1
<1>4. QED BY <1>2, <1>3

\* Which it is shows in the first name.
LEMMA AboveFirst ==
  ASSUME NEW p \in Seq(Name), p # <<>>, Above(p)
  PROVE  /\ p[1][1] # "."
         /\ p[1] = cache => MetaAbove(p)
         /\ p[1][1] = "tsgo-" => PlatformAbove(p)
         /\ p[1] # cache /\ p[1][1] # "tsgo-" => ModuleAbove(p)
<1>1. cache[1] # "tsgo-" /\ cache[1] # "." BY DEF cache
<1>2. 1 \in 1..Len(p) OBVIOUS
<1>3. CASE ModuleAbove(p) BY <1>2, <1>3, ModuleAboveIs, Zenon
<1>4. CASE MetaAbove(p)
  <2>1. p[1] = cache BY <1>4, MetaAboveIs
  <2>2. QED BY <1>1, <1>4, <2>1, Zenon
<1>5. CASE PlatformAbove(p) BY <1>5, PlatformAboveIs
<1>6. QED BY <1>3, <1>4, <1>5, AboveShapes

\* What parsePath makes of a path with nothing special in it.
LEMMA PlainDir ==
  ASSUME NEW p \in Seq(Name), p # <<>>, \A i \in 1..Len(p) : ~Contains(p[i], "@") /\ p[i][1] # ".",
         p[1][1] # "tsgo-", Len(p) > 2 => p[1] # cache
  PROVE  ParsePath(p) = Is("dir")
<1>1. 1 \in 1..Len(p) /\ Len(p) \in 1..Len(p) /\ DOMAIN p = 1..Len(p) /\ Last(p) = p[Len(p)] BY DEF Last
<1>2. ~IsTSGo(p) BY Zenon DEF IsTSGo
<1>3. ~IsDotFile(p) BY <1>1, Zenon DEF IsDotFile
<1>4. p # <<statusFile>>
  <2>1. statusFile[1] = "." BY NamesWithoutAt
  <2>2. p[1] # statusFile BY <1>1, <2>1, Zenon
  <2>3. QED BY <2>2
<1>5. ~(Len(p) > 2 /\ SubSeq(p, 1, 2) = <<cache, download>>)
  <2>1. SUFFICES ASSUME Len(p) > 2, SubSeq(p, 1, 2) = <<cache, download>> PROVE FALSE OBVIOUS
  <2>2. Len(p) >= 2 BY <2>1
  <2>3. SubSeq(p, 1, 2) = <<p[1], p[2]>> BY <2>2, FirstTwo
  <2>4. QED BY <2>1, <2>3
<1>6. ~\E i \in DOMAIN p : Contains(p[i], "@") BY <1>1, Zenon
<1>7. QED BY <1>2, <1>3, <1>4, <1>5, <1>6, Zenon DEF ParsePath

\* parsePath takes what is above something placed for a directory.
LEMMA AboveParsed ==
  ASSUME NEW p \in Seq(Name), Above(p)
  PROVE  ParsePath(p) = Is("dir") /\ Parsed(p) = Is("dir")
<1>1. ASSUME ParsePath(p) = Is("dir") PROVE Parsed(p) = Is("dir")
  <2>1. Is("dir") # Is("ENOENT") BY DEF Is, Obj
  <2>2. QED BY <1>1, <2>1, Hidden
<1>2. ASSUME ~IsTSGo(p) PROVE ParsePath(p) = Parsed(p) BY <1>2, Hidden
<1>3. CASE p = <<>>
  <2>1. ~IsTSGo(p) BY <1>3 DEF IsTSGo
  <2>2. QED BY <1>2, <1>3, <2>1, OwnPaths
<1>4. CASE p # <<>> /\ ModuleAbove(p)
  <2>1. ParsePath(p) = Is("dir") BY <1>4, ModuleAboveIs, PlainDir
  <2>2. QED BY <1>1, <2>1
<1>5. CASE p # <<>> /\ MetaAbove(p)
  <2>1. PICK mv \in DOMAIN Files \ Toolchains, segs \in Seq(Name) :
          /\ ValidPath(segs) /\ Len(p) <= Len(segs) + 3
          /\ p[1] = cache /\ (Len(p) >= 2 => p[2] = download)
          /\ \A i \in 3..Len(p) : i <= Len(segs) + 2 => p[i] = segs[i - 2]
          /\ Len(p) = Len(segs) + 3 => p[Len(p)] = atV
    BY <1>5, MetaAboveIs
  <2>2. Len(p) \in Nat /\ Len(p) # 0 /\ Len(segs) \in Nat BY <1>5
  <2>3. \A n \in {cache, download} : ~Contains(n, "@") /\ n[1] # "." BY NamesWithoutAt DEF cache, download
  <2>4. CASE Len(p) <= 2
    <3>1. \A i \in 1..Len(p) : i = 1 \/ (i = 2 /\ Len(p) >= 2) BY <2>2, <2>4
    <3>2. \A i \in 1..Len(p) : ~Contains(p[i], "@") /\ p[i][1] # "." BY <2>1, <2>3, <3>1
    <3>3. ~(Len(p) > 2) BY <2>2, <2>4
    <3>4. p[1][1] # "tsgo-" BY <2>1, NamesWithoutAt
    <3>5. ParsePath(p) = Is("dir") BY <1>5, <3>2, <3>3, <3>4, PlainDir
    <3>6. QED BY <1>1, <3>5
  <2>5. CASE Len(p) > 2
    <3>1. p[2] = download /\ Len(p) >= 2 BY <2>1, <2>2, <2>5
    <3>2. ~IsTSGo(p) /\ Parsed(p) = ParseDownload(p) BY <2>1, <2>5, <3>1, ParsedDownload
    <3>3. ~IsDotFile(p)
      <4>1. Last(p)[1] # "."
        <5>1. CASE Len(p) = Len(segs) + 3
          <6>1. Last(p) = atV BY <2>1, <5>1 DEF Last
          <6>2. QED BY <6>1, NamesWithoutAt
        <5>2. CASE Len(p) # Len(segs) + 3
          <6>1. Len(p) \in 3..Len(p) /\ Len(p) <= Len(segs) + 2 /\ Len(p) - 2 \in 1..Len(segs) BY <2>1, <2>2, <2>5, <5>2
          <6>2. Last(p) = segs[Len(p) - 2] BY <2>1, <6>1 DEF Last
          <6>3. DOMAIN segs = 1..Len(segs) OBVIOUS
          <6>4. QED BY <2>1, <6>1, <6>2, <6>3, Zenon DEF ValidPath
        <5>3. QED BY <5>1, <5>2
      <4>2. QED BY <4>1 DEF IsDotFile
    <3>4. {i \in 4..(Len(p) - 1) : p[i] = atV} = {}
      <4>1. \A i \in 4..(Len(p) - 1) : i \in 3..(Len(p) - 1) BY <2>2
      <4>2. QED BY <1>5, <4>1, MetaAboveAtV
    <3>5. ParseDownload(p) = Is("dir") BY <3>3, <3>4, Zenon DEF ParseDownload
    <3>6. QED BY <1>2, <3>2, <3>5
  <2>6. QED BY <2>2, <2>4, <2>5
<1>6. CASE p # <<>> /\ PlatformAbove(p)
  <2>1. Len(p) = 1 /\ p[1][1] = "tsgo-" BY <1>6, PlatformAboveIs
  <2>2. IsTSGo(p) BY <1>6, <2>1 DEF IsTSGo
  <2>3. ~IsDotFile(p) BY <2>1 DEF IsDotFile, Last
  <2>4. ParseTSGoPath(p) = Is("dir") BY <2>1 DEF ParseTSGoPath
  <2>5. p # <<statusFile>>
    <3>1. statusFile[1] # "tsgo-" BY NamesWithoutAt
    <3>2. QED BY <2>1, <3>1
  <2>6. ParsePath(p) = Is("dir") BY <2>2, <2>3, <2>4, <2>5, Zenon DEF ParsePath
  <2>7. QED BY <1>1, <2>6
<1>7. QED BY <1>3, <1>4, <1>5, <1>6, AboveShapes

\* A node for a directory.
LEMMA DirNode ==
  ASSUME NEW t, NEW segs
  PROVE  Node(t, segs).obj = Is("dir")
BY DEF Node

\* And FUSE gets one by one name more, from every node that is not an error.
LEMMA AboveWalked ==
  ASSUME NEW p \in Seq(Name), NEW d, NodeAt(d, p), d.t \in Types, d.t # "errno", NEW n \in Name, NEW ok \in BOOLEAN,
         NEW r, r = Append(p, n), Above(r)
  PROVE  Child(d, n, ok).obj = Is("dir")
<1>1. /\ r \in Seq(Name) /\ Len(r) = Len(p) + 1 /\ r # <<>>
      /\ \A i \in 1..Len(p) : r[i] = p[i]
      /\ r[Len(p) + 1] = n
  BY Appended
<1>2. Len(p) \in Nat /\ Len(r) \in 1..Len(r) /\ r[Len(r)] = n /\ (p # <<>> => 1 \in 1..Len(p)) BY <1>1
<1>3. p # <<>> => r[1] = p[1] BY <1>1, <1>2
<1>4. /\ r[1][1] # "."
      /\ r[1] = cache => MetaAbove(r)
      /\ r[1][1] = "tsgo-" => PlatformAbove(r)
      /\ r[1] # cache /\ r[1][1] # "tsgo-" => ModuleAbove(r)
  BY <1>1, AboveFirst
<1>5. cache # statusFile /\ cache[1] # "tsgo-" /\ statusFile[1] = "." BY NamesWithoutAt DEF cache, statusFile
<1>6. p # <<>> => Len(r) # 1 BY <1>1, <1>2
<1>7. CASE d.t = "moduleName"
  <2>1. /\ d.segs = p
        /\ p # <<>> => p[1] \notin {cache, statusFile} /\ p[1][1] # "tsgo-"
    BY <1>7 DEF NodeAt
  <2>2. Child(d, n, ok) = LookupModuleName(p, n, ok) BY <1>7, <2>1 DEF Child
  <2>. DEFINE top == p = <<>> /\ (n \in {cache, statusFile} \/ n[1] = "tsgo-")
  <2>3. CASE top
    <3>1. Child(d, n, ok) = LookupTop(n) BY <2>2, <2>3 DEF LookupModuleName
    <3>2. Len(r) = 1 /\ r[1] = n BY <1>1, <2>3
    <3>3. CASE n = cache
      <4>1. LookupTop(n) = Node("cacheRoot", <<>>) BY <3>3 DEF LookupTop
      <4>2. QED BY <3>1, <4>1, DirNode
    <3>4. CASE n # cache
      <4>1. n # statusFile BY <1>4, <1>5, <3>2, Zenon
      <4>2. n[1] = "tsgo-" BY <2>3, <3>4, <4>1
      <4>3. PICK o \in Platforms : n = PlatformName(o) BY <1>4, <3>2, <4>2, PlatformAboveIs
      <4>4. IsPlatform(CutAt(Tail(n), "-")) BY <4>3, PlatformCut DEF IsPlatform
      <4>5. \E segs : LookupTop(n) = Node("tsgoRoot", segs) BY <3>4, <4>1, <4>4 DEF LookupTop
      <4>6. QED BY <3>1, <4>5, DirNode
    <3>5. QED BY <3>3, <3>4
  <2>4. CASE ~top
    <3>1. r[1] # cache /\ r[1][1] # "tsgo-"
      <4>1. CASE p = <<>>
        <5>1. r[1] = n BY <1>1, <4>1
        <5>2. QED BY <2>4, <4>1, <5>1
      <4>2. CASE p # <<>> BY <1>3, <2>1, <4>2
      <4>3. QED BY <4>1, <4>2
    <3>2. ModuleAbove(r) BY <1>4, <3>1
    <3>3. ~Contains(r[Len(r)], "@") BY <1>1, <1>2, <3>2, ModuleAboveIs
    <3>4. ~Contains(n, "@") BY <1>2, <3>3
    <3>5. Child(d, n, ok) = Node("moduleName", Append(p, n)) BY <2>2, <2>4, <3>4 DEF LookupModuleName
    <3>6. QED BY <3>5, DirNode
  <2>5. QED BY <2>3, <2>4
<1>8. CASE d.t = "cacheRoot"
  <2>1. p = <<cache>> BY <1>8 DEF NodeAt
  <2>2. Len(p) = 1 /\ p # <<>> /\ p[1] = cache BY <2>1
  <2>3. Len(r) = 2 /\ r[2] = n /\ r[1] = cache BY <1>1, <1>3, <2>2
  <2>4. MetaAbove(r) BY <1>4, <2>3
  <2>5. Len(r) >= 2 => r[2] = download BY <1>1, <2>4, MetaAboveIs
  <2>6. Len(r) >= 2 BY <2>3
  <2>7. n = download BY <2>3, <2>5, <2>6
  <2>8. Child(d, n, ok) = Node("download", <<>>) BY <1>8, <2>7 DEF Child, LookupCacheRoot
  <2>9. QED BY <2>8, DirNode
<1>9. CASE d.t = "download"
  <2>. DEFINE segs == d.segs
  <2>1. segs \in Seq(Name) /\ p = <<cache, download>> \o segs BY <1>9 DEF NodeAt
  <2>2. Child(d, n, ok) = LookupDownload(segs, n) BY <1>9 DEF Child
  <2>. HIDE DEF segs
  <2>3. CASE n # atV
    <3>1. Child(d, n, ok) = Node("download", Append(segs, n)) BY <2>2, <2>3 DEF LookupDownload
    <3>2. QED BY <3>1, DirNode
  <2>4. CASE n = atV
    <3>1. /\ Len(p) = Len(segs) + 2 /\ p[1] = cache
          /\ \A i \in 1..Len(segs) : p[i + 2] = segs[i]
      BY <2>1, NamesWithoutAt, TwoAndRest
    <3>2. p # <<>> BY <1>2, <2>1, <3>1
    <3>3. MetaAbove(r) BY <1>3, <1>4, <3>1, <3>2
    <3>4. PICK s \in Seq(Name) :
            /\ ValidPath(s) /\ (\A i \in 1..Len(s) : s[i] # atV) /\ Len(r) <= Len(s) + 3
            /\ \A i \in 3..Len(r) : i <= Len(s) + 2 => r[i] = s[i - 2]
      BY <1>1, <3>3, MetaAboveIs
    <3>. DEFINE k == Len(segs)
    <3>5. k \in Nat /\ Len(s) \in Nat /\ Len(r) = k + 3 /\ Len(p) = k + 2 BY <1>1, <2>1, <3>1
    <3>6. Len(s) = k
      <4>1. SUFFICES ASSUME Len(s) # k PROVE FALSE OBVIOUS
      <4>2. k + 3 \in 3..Len(r) /\ k + 3 <= Len(s) + 2 /\ (k + 3) - 2 \in 1..Len(s) BY <3>4, <3>5, <4>1
      <4>3. r[k + 3] = s[(k + 3) - 2] BY <3>4, <4>2
      <4>4. QED BY <1>2, <2>4, <3>4, <3>5, <4>2, <4>3
    <3>7. ASSUME NEW i \in 1..k PROVE segs[i] = s[i]
      <4>1. i + 2 \in 3..Len(r) /\ i + 2 <= Len(s) + 2 /\ (i + 2) - 2 = i /\ i + 2 \in 1..Len(p) BY <3>5, <3>6
      <4>2. r[i + 2] = s[i] BY <3>4, <4>1
      <4>3. r[i + 2] = segs[i] BY <1>1, <3>1, <4>1
      <4>4. QED BY <4>2, <4>3
    <3>8. segs = s BY <2>1, <3>6, <3>7, SameSeq
    <3>9. Child(d, n, ok) = Node("atV", UnescapePath(segs)) BY <2>2, <2>4, <3>4, <3>8 DEF LookupDownload
    <3>10. QED BY <3>9, DirNode
  <2>5. QED BY <2>3, <2>4
<1>10. CASE d.t = "atV"
  <2>1. PICK segs \in Seq(Name) : p = <<cache, download>> \o segs \o <<atV>> /\ ValidPath(segs) BY <1>10 DEF NodeAt
  <2>. DEFINE t == <<cache, download>> \o segs
  <2>2. t \in Seq(Name) /\ Len(t) = Len(segs) + 2 /\ t[1] = cache BY NamesWithoutAt, TwoAndRest
  <2>3. atV \in Name /\ p = t \o <<atV>> BY <2>1, NamesWithoutAt
  <2>. HIDE DEF t
  <2>4. p = Append(t, atV) BY <2>2, <2>3, AppendIsConcat
  <2>5. Len(p) = Len(t) + 1 /\ p[Len(t) + 1] = atV /\ \A i \in 1..Len(t) : p[i] = t[i] BY <2>2, <2>3, <2>4, Appended
  <2>6. Len(segs) \in Nat /\ Len(segs) # 0 BY <2>1 DEF ValidPath
  <2>7. Len(p) \in 3..(Len(r) - 1) /\ Len(p) \in 1..Len(p) /\ 1 \in 1..Len(t) BY <1>1, <1>2, <2>2, <2>5, <2>6
  <2>8. r[Len(p)] = atV BY <1>1, <2>5, <2>7
  <2>9. r[1] = cache
    <3>1. p[1] = cache BY <2>2, <2>5, <2>7
    <3>2. 1 \in 1..Len(p) BY <2>7
    <3>3. QED BY <1>1, <3>1, <3>2
  <2>10. QED BY <1>1, <1>4, <2>7, <2>8, <2>9, MetaAboveAtV
<1>11. ASSUME p # <<>>, p[1][1] = "tsgo-" PROVE FALSE
  <2>1. PlatformAbove(r) BY <1>3, <1>4, <1>11
  <2>2. QED BY <1>6, <1>11, <2>1, PlatformAboveIs
<1>12. CASE d.t = "tsgoRoot"
  <2>1. d.segs \in Platforms /\ p = <<PlatformName(d.segs)>> BY <1>12 DEF NodeAt, PlatformName
  <2>2. PlatformName(d.segs)[1] = "tsgo-" BY <2>1, PlatformCut
  <2>3. p # <<>> /\ p[1] = PlatformName(d.segs) BY <2>1
  <2>4. QED BY <1>11, <2>2, <2>3
<1>13. CASE d.t = "statusFile"
  <2>1. p = <<statusFile>> BY <1>13 DEF NodeAt
  <2>2. p # <<>> /\ p[1] = statusFile BY <2>1
  <2>3. QED BY <1>3, <1>4, <1>5, <2>2
<1>14. CASE d.t = "memFile"
  <2>1. CASE UnderAtV(p)
    <3>1. Len(p) >= 5 /\ p[Len(p) - 1] = atV /\ SubSeq(p, 1, 2) = <<cache, download>> BY <2>1 DEF UnderAtV
    <3>2. Len(p) >= 2 /\ p # <<>> /\ Len(p) - 1 \in 3..(Len(r) - 1) /\ Len(p) - 1 \in 1..Len(p) BY <1>1, <1>2, <3>1
    <3>3. SubSeq(p, 1, 2) = <<p[1], p[2]>> BY <3>2, FirstTwo
    <3>4. r[1] = cache BY <1>3, <3>1, <3>2, <3>3
    <3>5. r[Len(p) - 1] = atV BY <1>1, <3>1, <3>2
    <3>6. QED BY <1>1, <1>4, <3>2, <3>4, <3>5, MetaAboveAtV
  <2>2. CASE \E mv \in Toolchains : p = Extracted(mv)
    <3>1. IsTSGo(p) BY <2>2, ToolchainPath
    <3>2. QED BY <1>11, <3>1 DEF IsTSGo
  <2>3. QED BY <1>14, <2>1, <2>2 DEF NodeAt
<1>15. CASE d.t = "underZipRoot"
  <2>1. Parsed(p) = Obj("zip", d.obj.mv, d.obj.path) BY <1>15 DEF NodeAt
  <2>2. Parsed(r) = Obj("zip", d.obj.mv, Append(d.obj.path, n)) BY <2>1, Extend
  <2>3. Parsed(r) = Is("dir") BY <1>1, AboveParsed
  <2>4. QED BY <2>2, <2>3 DEF Is, Obj
<1>16. QED BY <1>7, <1>8, <1>9, <1>10, <1>12, <1>13, <1>14, <1>15 DEF Types

\* parsePath takes the paths that lead to something for directories, and a FUSE walk to it
\* gets a directory by every name before the last, whatever the store does.
THEOREM PathsToThingsAreServed == Spec => []DirectoriesAreServed
<1>1. Init => DirectoriesAreServed BY DEF Init, NoAnswer, DirectoriesAreServed
<1>2. ASSUME IInv, DirectoriesAreServed, [Next]_vars PROVE DirectoriesAreServed'
  <2>1. Asked \subseteq Paths BY PathsAre DEF Asked
  <2>2. Is("dir").kind = "dir" BY DEF Is, Obj
  <2>3. ASSUME NEW p \in Seq(Name), NEW ok \in BOOLEAN, Above(p)
        PROVE  Describe(ParsePath(p), ok).kind = "dir" /\ FspStat(p, ok).kind = "dir"
    <3>1. ParsePath(p) = Is("dir") BY <2>3, AboveParsed
    <3>2. Describe(ParsePath(p), ok) = Is("dir") BY <2>2, <3>1 DEF Describe
    <3>3. p # <<hello>>
      <4>1. SUFFICES ASSUME p = <<hello>> PROVE FALSE OBVIOUS
      <4>2. p # <<>> /\ p[1] = hello /\ Len(p) = 1 BY <4>1
      <4>3. hello[1] # "tsgo-" /\ hello # cache BY DEF hello, cache
      <4>4. ModuleAbove(p) BY <2>3, <4>2, <4>3, AboveFirst
      <4>5. QED BY <4>2, <4>4, ModuleAboveIs
    <3>4. QED BY <2>2, <3>2, <3>3 DEF FspStat
  <2>4. ASSUME NEW p \in Asked, NEW ok \in BOOLEAN, Stat(p, ok) PROVE DirectoriesAreServed'
    <3>1. p \in Seq(Name) BY <2>1, PathsAre
    <3>2. at' = p BY <2>4 DEF Stat, Ask
    <3>3. answer'.what = Describe(ParsePath(p), ok) \/ answer'.what = FspStat(p, ok) BY <2>4 DEF Stat, Ask, WebdavStat, Lstat
    <3>4. QED BY <2>3, <3>1, <3>2, <3>3 DEF DirectoriesAreServed
  <2>5. ASSUME NEW p \in Asked, NEW ok \in BOOLEAN,
               WebdavOpenFile(p, ok) \/ \E h \in Handles : FspOpenFile(h, p, ok)
        PROVE  DirectoriesAreServed'
    <3>1. p \in Seq(Name) BY <2>1, PathsAre
    <3>2. at' = p BY <2>5 DEF WebdavOpenFile, FspOpenFile
    <3>3. answer'.what = Describe(ParsePath(p), ok) \/ answer'.what = FspStat(p, ok)
      BY <2>5 DEF WebdavOpenFile, FspOpenFile, WebdavStat
    <3>4. QED BY <2>3, <3>1, <3>2, <3>3 DEF DirectoriesAreServed
  <2>6. ASSUME NEW n \in Names, NEW ok \in BOOLEAN, Lookup(n, ok) PROVE DirectoriesAreServed'
    <3>. DEFINE child == Child(node, n, ok)
    <3>1. frontend = "fuse" /\ node.t # "errno" /\ at' = Append(at, n) BY <2>6 DEF Lookup
    <3>2. answer'.what = child.obj BY <2>6 DEF Lookup, Answer
    <3>3. NodeAt(node, at) /\ node.t \in Types /\ at \in Seq(Name)
      BY <1>2, <3>1, PathsAre DEF IInv, NodeInv, TypeOK, Types
    <3>4. n \in Name BY NamesAssumption
    <3>. HIDE DEF child
    <3>5. Above(Append(at, n)) => child.obj = Is("dir") BY <3>1, <3>3, <3>4, AboveWalked DEF child
    <3>6. QED BY <2>2, <3>1, <3>2, <3>5 DEF DirectoriesAreServed
  <2>7. ASSUME answer'.op \notin {"stat", "open"} PROVE DirectoriesAreServed' BY <2>7 DEF DirectoriesAreServed
  <2>8. ASSUME NEW p \in Asked, NEW ok \in BOOLEAN, NEW found \in BOOLEAN, ReadDir(p, found, ok)
        PROVE  DirectoriesAreServed'
    BY <2>7, <2>8 DEF ReadDir
  <2>9. ASSUME NEW p \in Asked, OpenToWrite(p) PROVE DirectoriesAreServed' BY <2>7, <2>9 DEF OpenToWrite, Ask
  <2>10. ASSUME See \/ Walk PROVE DirectoriesAreServed' BY <2>7, <2>10 DEF See, Walk, NoAnswer
  <2>11. ASSUME NEW h \in Handles, NEW off \in 0..MaxOffset, ReadAt(h, off) PROVE DirectoriesAreServed'
    <3>1. CASE UNCHANGED <<at, answer>> BY <1>2, <3>1 DEF DirectoriesAreServed
    <3>2. CASE \E what, range : Answer("read", what, range, TRUE) BY <2>7, <3>2 DEF Answer
    <3>3. QED BY <2>11, <3>1, <3>2, Zenon DEF ReadAt
  <2>12. ASSUME NEW h \in Handles, NEW ok \in BOOLEAN, ReadMiss(h, ok) PROVE DirectoriesAreServed'
    BY <2>7, <2>12 DEF ReadMiss, Answer
  <2>13. ASSUME NEW ok \in BOOLEAN, Readdir(ok) PROVE DirectoriesAreServed' BY <2>7, <2>13 DEF Readdir
  <2>14. ASSUME NEW off \in 0..MaxOffset, NEW ok \in BOOLEAN, Read(off, ok) PROVE DirectoriesAreServed'
    BY <2>7, <2>14 DEF Read, Answer
  <2>15. ASSUME NEW off \in 0..MaxOffset, ReadStatus(off) PROVE DirectoriesAreServed'
    BY <2>7, <2>15 DEF ReadStatus, Answer
  <2>16. ASSUME UNCHANGED vars PROVE DirectoriesAreServed' BY <1>2, <2>16 DEF vars, DirectoriesAreServed
  <2>17. QED
    BY <1>2, <2>4, <2>5, <2>6, <2>8, <2>9, <2>10, <2>11, <2>12, <2>13, <2>14, <2>15, <2>16 DEF Next
<1>3. QED BY <1>1, <1>2, Invariance, PTL DEF Spec

=============================================================================
