---------------------------- MODULE LruRingProofs ----------------------------
(***************************************************************************)
(* Proofs about LruRing, for any keys, values and sizes.  That the links   *)
(* are each other's inverse is not inductive: of two rings beside each     *)
(* other it holds as well, and deleteElement of the only entry of one of   *)
(* them would lose the other.  The invariant is that the entries of the    *)
(* map can be put in an order that the ring goes through from its head,    *)
(* and that the sizes, added up in that order, come to curSize.  The pairs *)
(* of keys and values in that order, as far as they fit, are the state of  *)
(* LruCache, which the ring implements.                                    *)
(***************************************************************************)
EXTENDS LruRing, SequenceTheorems, FiniteSetTheorems, WellFoundedInduction, TLAPS

-----------------------------------------------------------------------------
(* The sizes of the elements, and how many of them fit *)

\* A set of numbers that is not empty has a least one: what induction over the places of
\* a sequence rests on.
LEMMA Least ==
  ASSUME NEW T, T \subseteq Nat, T # {}
  PROVE  \E x \in T : \A y \in T : x <= y
<1>. DEFINE R == OpToRel(<, Nat)
<1>1. IsWellFoundedOn(R, Nat) BY NatLessThanWellFounded
<1>2. \A x, y \in Nat : x < y => <<x, y>> \in R BY DEF OpToRel
<1>. HIDE DEF R
<1>3. PICK x \in T : \A y \in T : ~ (<<y, x>> \in R) BY <1>1, WFMin
<1>4. ASSUME NEW y \in T PROVE x <= y
  <2>1. x \in Nat /\ y \in Nat OBVIOUS
  <2>2. ~(y < x) BY <1>2, <1>3, <2>1
  <2>3. QED BY <2>1, <2>2
<1>5. QED BY <1>4

\* sums[i] is the sum of the first i of the n sizes.
Sums(n, sizes, sums) ==
  /\ sizes \in [1..n -> Nat] /\ sums \in [0..n -> Nat]
  /\ sums[0] = 0
  /\ \A i \in 1..n : sums[i] = sums[i - 1] + sizes[i]
  /\ \A i, j \in 0..n : i <= j => sums[i] <= sums[j]

\* f without its element j, and f with x in front.
Without(n, f, j) == [i \in 1..(n - 1) |-> IF i < j THEN f[i] ELSE f[i + 1]]
With(n, f, x) == [i \in 1..(n + 1) |-> IF i = 1 THEN x ELSE f[i - 1]]

\* Hypotheses of the lemmas about them: j is one of n places, of which m are others, and
\* there is one more place, m, than n; and the same for sizes.
Shorter(m, n, j) == n \in Nat /\ j \in 1..n /\ m = n - 1
Longer(m, n) == n \in Nat /\ m = n + 1
IsSum(c, a, b) == c = a + b
IsDifference(c, a, b) == c = a - b

\* To put an element in front is to prepend it.
LEMMA InFront ==
  ASSUME NEW S, NEW n \in Nat, NEW f \in [1..n -> S], NEW x \in S
  PROVE  <<x>> \o f = With(n, f, x)
<1>1. f \in Seq(S) /\ Len(f) = n /\ <<x>> \in Seq(S) /\ Len(<<x>>) = 1 /\ <<x>>[1] = x OBVIOUS
<1>2. With(n, f, x) \in [1..(n + 1) -> S] BY DEF With
<1>3. With(n, f, x) \in Seq(S) /\ Len(With(n, f, x)) = n + 1 BY <1>2
<1>4. /\ <<x>> \o f \in Seq(S) /\ Len(<<x>> \o f) = n + 1
      /\ \A i \in 1..(n + 1) : (<<x>> \o f)[i] = IF i <= 1 THEN <<x>>[i] ELSE f[i - 1]
  BY <1>1, ConcatProperties
<1>5. \A i \in 1..(n + 1) : (<<x>> \o f)[i] = With(n, f, x)[i] BY <1>1, <1>4 DEF With
<1>6. QED BY <1>3, <1>4, <1>5, SeqEqual

\* Delete, as LruCache writes it, takes one element out.
LEMMA AllBut ==
  ASSUME NEW S, NEW n \in Nat, NEW f \in [1..n -> S], NEW j \in 1..n
  PROVE  /\ SubSeq(f, 1, j - 1) \o SubSeq(f, j + 1, n) = Without(n, f, j)
         /\ Without(n, f, j) \in [1..(n - 1) -> S]
<1>. DEFINE a == SubSeq(f, 1, j - 1)
            b == SubSeq(f, j + 1, n)
            w == Without(n, f, j)
<1>1. /\ a \in Seq(S) /\ Len(a) = j - 1 /\ \A i \in 1..(j - 1) : a[i] = f[i]
  <2>1. j - 1 \in Int /\ \A i \in 1..(j - 1) : f[i] \in S OBVIOUS
  <2>2. QED BY <2>1, SubSeqProperties
<1>2. /\ b \in Seq(S) /\ Len(b) = n - j /\ \A i \in 1..(n - j) : b[i] = f[j + i]
  <2>1. j + 1 \in Int /\ n \in Int /\ \A i \in (j + 1)..n : f[i] \in S OBVIOUS
  <2>2. QED BY <2>1, SubSeqProperties
<1>3. w \in [1..(n - 1) -> S] /\ \A i \in 1..(n - 1) : w[i] = IF i < j THEN f[i] ELSE f[i + 1]
  BY DEF Without
<1>4. w \in Seq(S) /\ Len(w) = n - 1 BY <1>3
<1>. HIDE DEF a, b, w
<1>5. /\ a \o b \in Seq(S) /\ Len(a \o b) = n - 1
      /\ \A i \in 1..(n - 1) : (a \o b)[i] = IF i <= j - 1 THEN a[i] ELSE b[i - (j - 1)]
  <2>1. Len(a) + Len(b) = n - 1 BY <1>1, <1>2
  <2>2. /\ a \o b \in Seq(S) /\ Len(a \o b) = Len(a) + Len(b)
        /\ \A i \in 1..(Len(a) + Len(b)) :
             (a \o b)[i] = IF i <= Len(a) THEN a[i] ELSE b[i - Len(a)]
    BY <1>1, <1>2, ConcatProperties
  <2>3. QED BY <1>1, <2>1, <2>2
<1>6. ASSUME NEW i \in 1..(n - 1) PROVE (a \o b)[i] = w[i]
  <2>1. CASE i < j BY <1>1, <1>3, <1>5, <2>1
  <2>2. CASE ~(i < j)
    <3>1. i - (j - 1) \in 1..(n - j) /\ j + (i - (j - 1)) = i + 1 BY <2>2
    <3>2. (a \o b)[i] = b[i - (j - 1)] BY <1>5, <2>2
    <3>3. b[i - (j - 1)] = f[j + (i - (j - 1))] BY <1>2, <3>1
    <3>4. QED BY <1>3, <2>2, <3>1, <3>2, <3>3
  <2>3. QED BY <2>1, <2>2
<1>7. a \o b = w BY <1>4, <1>5, <1>6, SeqEqual
<1>8. QED BY <1>3, <1>7 DEF a, b, w

\* What SizeOf adds up.
LEMMA SizeOfSums ==
  ASSUME NEW n \in Nat, NEW s, Len(s) = n, NEW size, NEW sums,
         Sums(n, [i \in 1..n |-> size[s[i]]], sums)
  PROVE  \A i \in 0..n : SizeOf(s, size, i) = sums[i]
<1>. DEFINE D(f) == [i \in 0..n |-> IF i = 0 THEN 0 ELSE f[i - 1] + size[s[i]]]
            g == CHOOSE f : f = D(f)
<1>1. \A i \in 0..n : SizeOf(s, size, i) = g[i] BY DEF SizeOf
<1>2. /\ sums \in [0..n -> Nat] /\ sums[0] = 0
      /\ \A i \in 1..n : sums[i] = sums[i - 1] + size[s[i]]
  BY DEF Sums
<1>3. sums = D(sums)
  <2>1. \A i \in 0..n : sums[i] = D(sums)[i] BY <1>2
  <2>2. sums = [i \in 0..n |-> sums[i]] BY <1>2
  <2>3. QED BY <2>1, <2>2
<1>4. g = D(g)
  <2>. HIDE DEF D
  <2>1. QED BY <1>3
<1>. HIDE DEF g
<1>5. g[0] = 0 /\ \A i \in 1..n : g[i] = g[i - 1] + size[s[i]]
  <2>1. \A i \in 0..n : g[i] = D(g)[i] BY <1>4
  <2>2. D(g)[0] = 0 /\ \A i \in 1..n : D(g)[i] = g[i - 1] + size[s[i]] OBVIOUS
  <2>3. QED BY <2>1, <2>2
<1>. DEFINE T == {i \in 0..n : g[i] # sums[i]}
<1>6. T = {}
  <2>1. SUFFICES ASSUME T # {} PROVE FALSE OBVIOUS
  <2>2. T \subseteq Nat OBVIOUS
  <2>3. \E x \in T : \A y \in T : x <= y BY <2>1, <2>2, Least
  <2>4. PICK x \in T : \A y \in T : x <= y BY <2>3
  <2>5. x \in 1..n BY <1>2, <1>5, <2>4
  <2>6. x - 1 \in 0..n /\ x - 1 \notin T BY <2>4, <2>5
  <2>7. g[x - 1] = sums[x - 1] BY <2>6
  <2>8. QED BY <1>2, <1>5, <2>4, <2>5, <2>7
<1>7. QED BY <1>1, <1>6

\* When all fit together, nothing is dropped.
LEMMA AllFit ==
  ASSUME NEW n \in Nat, NEW s, Len(s) = n, NEW size, NEW sums,
         Sums(n, [i \in 1..n |-> size[s[i]]], sums),
         NEW max \in Nat, ~(max # 0 /\ sums[n] > max)
  PROVE  Fitting(s, size, max) = n
<1>1. CASE max = 0 BY <1>1 DEF Fitting
<1>2. CASE max # 0
  <2>1. SizeOf(s, size, n) = sums[n] /\ sums[n] \in Nat
    <3>1. sums[n] \in Nat BY DEF Sums
    <3>2. QED BY <3>1, SizeOfSums
  <2>2. SizeOf(s, size, n) <= max BY <1>2, <2>1
  <2>. DEFINE P(x) == /\ SizeOf(s, size, x) <= max
                      /\ \A m \in 0..n : SizeOf(s, size, m) <= max => m <= x
  <2>3. Fitting(s, size, max) = CHOOSE x \in 0..n : P(x) BY <1>2 DEF Fitting
  <2>4. n \in 0..n /\ P(n) BY <2>2
  <2>5. \A x \in 0..n : P(x) => x = n BY <2>2
  <2>. HIDE DEF P
  <2>6. QED BY <2>3, <2>4, <2>5
<1>3. QED BY <1>1, <1>2

\* When not all fit, the oldest element makes no difference.
LEMMA OldestDropped ==
  ASSUME NEW n \in Nat, n # 0, NEW s, Len(s) = n, NEW size, NEW sums,
         Sums(n, [i \in 1..n |-> size[s[i]]], sums),
         NEW max \in Nat, max # 0, sums[n] > max,
         NEW t, Len(t) = n - 1, \A i \in 1..(n - 1) : t[i] = s[i]
  PROVE  Fitting(t, size, max) = Fitting(s, size, max) /\ Fitting(s, size, max) \in 0..(n - 1)
<1>. DEFINE m == n - 1
            some == [i \in 0..m |-> sums[i]]
            T == {i \in 0..n : SizeOf(s, size, i) <= max}
            IsMax(x) == x \in T /\ \A y \in T : y <= x
<1>1. /\ sums \in [0..n -> Nat] /\ sums[0] = 0
      /\ \A i \in 1..n : size[s[i]] \in Nat /\ sums[i] = sums[i - 1] + size[s[i]]
      /\ \A i, j \in 0..n : i <= j => sums[i] <= sums[j]
  BY DEF Sums
<1>2. Sums(m, [i \in 1..m |-> size[t[i]]], some)
  <2>1. \A i \in 1..m : size[t[i]] = size[s[i]] /\ size[t[i]] \in Nat
    <3>1. \A i \in 1..m : i \in 1..n /\ t[i] = s[i] OBVIOUS
    <3>2. QED BY <1>1, <3>1
  <2>2. [i \in 1..m |-> size[t[i]]] \in [1..m -> Nat] BY <2>1
  <2>3. \A i \in 1..m : some[i] = some[i - 1] + [k \in 1..m |-> size[t[k]]][i]
    <3>1. \A i \in 1..m : i \in 0..m /\ i - 1 \in 0..m /\ i \in 1..n OBVIOUS
    <3>2. \A i \in 1..m : some[i] = sums[i] /\ some[i - 1] = sums[i - 1] BY <3>1
    <3>. HIDE DEF some
    <3>3. QED BY <1>1, <2>1, <3>1, <3>2
  <2>4. some \in [0..m -> Nat] /\ some[0] = 0 BY <1>1
  <2>5. \A i, j \in 0..m : i <= j => some[i] <= some[j] BY <1>1
  <2>6. QED BY <2>2, <2>3, <2>4, <2>5 DEF Sums
<1>3. \A i \in 0..n : SizeOf(s, size, i) = sums[i] BY SizeOfSums
<1>4. m \in Nat /\ Len(t) = m OBVIOUS
<1>5. \A i \in 0..m : SizeOf(t, size, i) = some[i]
  <2>. HIDE DEF m, some
  <2>1. QED BY ONLY <1>2, <1>4, SizeOfSums
<1>6. \A i \in 0..m : SizeOf(t, size, i) = SizeOf(s, size, i) BY <1>3, <1>5
<1>7. T = {i \in 0..m : SizeOf(t, size, i) <= max}
  <2>1. ~(SizeOf(s, size, n) <= max) BY <1>1, <1>3
  <2>2. 0..n = 0..m \cup {n} /\ n \notin 0..m OBVIOUS
  <2>3. QED BY <1>6, <2>1, <2>2
<1>8. Fitting(s, size, max) = CHOOSE x \in 0..n : IsMax(x)
  <2>1. \A x \in 0..n : IsMax(x) <=> /\ SizeOf(s, size, x) <= max
                                     /\ \A y \in 0..n : SizeOf(s, size, y) <= max => y <= x
    OBVIOUS
  <2>2. QED BY <2>1, Zenon DEF Fitting
<1>9. Fitting(t, size, max) = CHOOSE x \in 0..m : IsMax(x)
  <2>1. \A x \in 0..m : IsMax(x) <=> /\ SizeOf(t, size, x) <= max
                                     /\ \A y \in 0..m : SizeOf(t, size, y) <= max => y <= x
    BY <1>7
  <2>2. QED BY <2>1, Zenon DEF Fitting
<1>10. \E x \in 0..m : IsMax(x)
  <2>. DEFINE U == {i \in 0..m : m - i \in T}
  <2>1. T \subseteq 0..m /\ 0 \in T BY <1>1, <1>3, <1>7
  <2>. HIDE DEF T
  <2>2. m \in U BY <2>1
  <2>3. \E x \in U : \A y \in U : x <= y
    <3>1. U \subseteq Nat /\ U # {}
      <4>1. U \subseteq 0..m /\ 0..m \subseteq Nat OBVIOUS
      <4>2. QED BY <2>2, <4>1
    <3>. HIDE DEF U
    <3>2. QED BY <3>1, Least
  <2>4. PICK x \in U : \A y \in U : x <= y BY <2>3
  <2>5. m - x \in T /\ m - x \in 0..m BY <2>4
  <2>6. ASSUME NEW y \in T PROVE y <= m - x
    <3>1. y \in 0..m /\ m - y \in 0..m /\ m - (m - y) = y BY <2>1
    <3>2. m - y \in U BY <3>1
    <3>3. x <= m - y /\ x \in 0..m BY <2>4, <3>2
    <3>. HIDE DEF U
    <3>4. QED BY <3>1, <3>3
  <2>7. QED BY <2>5, <2>6
<1>11. \A x, y : IsMax(x) /\ IsMax(y) => x = y BY <1>7
<1>. HIDE DEF IsMax
<1>12. \A x : IsMax(x) => x \in 0..m BY <1>7 DEF IsMax
<1>13. PICK x \in 0..m : IsMax(x) BY <1>10
<1>14. x \in 0..n OBVIOUS
<1>15. (CHOOSE z \in 0..n : IsMax(z)) = x BY <1>11, <1>13, <1>14
<1>16. (CHOOSE z \in 0..m : IsMax(z)) = x BY <1>11, <1>13
<1>17. QED BY <1>8, <1>9, <1>13, <1>15, <1>16

-----------------------------------------------------------------------------
(* The ring as an order of n entries *)

\* The ring with this head and these links goes through order[1], ..., order[n].
Links(hd, pv, nx, n, order) ==
  /\ order \in [1..n -> Entries]
  /\ \A i, j \in 1..n : order[i] = order[j] => i = j
  /\ hd = IF n = 0 THEN Nil ELSE order[1]
  /\ \A i \in 1..n : /\ nx[order[i]] = order[IF i = n THEN 1 ELSE i + 1]
                     /\ pv[order[i]] = order[IF i = 1 THEN n ELSE i - 1]

Pointers == [Entries -> Entries \cup {Nil}]

\* An entry that is next to itself is the only one.
LEMMA OnlyEntry ==
  ASSUME NEW hd, NEW pv, NEW nx, NEW n \in Nat, NEW order,
         Links(hd, pv, nx, n, order), NEW j \in 1..n, NEW e, e = order[j]
  PROVE  nx[e] = e <=> n = 1
<1>. DEFINE s == IF j = n THEN 1 ELSE j + 1
<1>1. nx[e] = order[s] /\ s \in 1..n BY DEF Links
<1>2. order[s] = order[j] <=> s = j BY <1>1 DEF Links
<1>3. s = j <=> n = 1 OBVIOUS
<1>4. QED BY <1>1, <1>2, <1>3

\* An entry is taken out of the ring.
LEMMA TakeOut ==
  ASSUME NEW hd, NEW pv \in Pointers, NEW nx \in Pointers, NEW n \in Nat, NEW order,
         Links(hd, pv, nx, n, order), NEW j \in 1..n, NEW e, e = order[j],
         NEW h2, h2 = IF nx[e] = e THEN Nil ELSE IF hd = e THEN nx[e] ELSE hd
  PROVE  Links(h2, [pv EXCEPT ![nx[e]] = pv[e]], [nx EXCEPT ![pv[e]] = nx[e]],
               n - 1, Without(n, order, j))
<1>. DEFINE from(i) == IF i < j THEN i ELSE i + 1
            succ(i) == IF i = n THEN 1 ELSE i + 1
            pred(i) == IF i = 1 THEN n ELSE i - 1
            m == n - 1
            o == Without(n, order, j)
            p2 == [pv EXCEPT ![nx[e]] = pv[e]]
            n2 == [nx EXCEPT ![pv[e]] = nx[e]]
<1>1. \A i \in 1..n : succ(i) \in 1..n /\ pred(i) \in 1..n OBVIOUS
<1>2. \A i \in 1..m : from(i) \in 1..n /\ from(i) # j OBVIOUS
<1>3. \A i, k \in 1..m : from(i) = from(k) => i = k OBVIOUS
<1>4. \A i \in 1..m : o[i] = order[from(i)] BY <1>2 DEF Without
<1>5. /\ \A i \in 1..n : order[i] \in Entries
      /\ \A i, k \in 1..n : order[i] = order[k] => i = k
      /\ \A i \in 1..n : nx[order[i]] = order[succ(i)] /\ pv[order[i]] = order[pred(i)]
      /\ hd = order[1]
  BY DEF Links
<1>6. nx[e] = order[succ(j)] /\ pv[e] = order[pred(j)] BY <1>5
<1>7. nx[e] = e <=> n = 1 BY OnlyEntry
<1>8. o \in [1..m -> Entries] BY <1>2, <1>5 DEF Without
<1>9. \A i, k \in 1..m : o[i] = o[k] => i = k BY <1>2, <1>3, <1>4, <1>5
<1>10. h2 = IF m = 0 THEN Nil ELSE o[1]
  <2>1. CASE n = 1 BY <1>7, <2>1
  <2>2. CASE n # 1
    <3>1. h2 = (IF order[1] = order[j] THEN order[succ(j)] ELSE order[1]) /\ m # 0 /\ 1 \in 1..m
      BY <1>5, <1>6, <1>7, <2>2
    <3>2. o[1] = order[from(1)] BY <1>4, <3>1
    <3>3. order[1] = order[j] <=> j = 1 BY <1>5
    <3>4. QED BY <2>2, <3>1, <3>2, <3>3
  <2>3. QED BY <2>1, <2>2
<1>11. ASSUME NEW i \in 1..m
       PROVE  /\ n2[o[i]] = o[IF i = m THEN 1 ELSE i + 1]
              /\ p2[o[i]] = o[IF i = 1 THEN m ELSE i - 1]
  <2>. DEFINE f == from(i)
              s == IF i = m THEN 1 ELSE i + 1
              t == IF i = 1 THEN m ELSE i - 1
  <2>1. f \in 1..n /\ o[i] = order[f] /\ f # j /\ s \in 1..m /\ t \in 1..m BY <1>2, <1>4
  <2>2. o[s] = order[from(s)] /\ o[t] = order[from(t)] /\ from(s) \in 1..n /\ from(t) \in 1..n
    BY <1>2, <1>4, <2>1
  <2>3. /\ n2[order[f]] = IF order[f] = order[pred(j)] THEN order[succ(j)] ELSE order[succ(f)]
        /\ p2[order[f]] = IF order[f] = order[succ(j)] THEN order[pred(j)] ELSE order[pred(f)]
    BY <1>5, <1>6, <2>1 DEF Pointers
  <2>4. /\ order[f] = order[pred(j)] <=> f = pred(j)
        /\ order[f] = order[succ(j)] <=> f = succ(j)
    BY <1>1, <1>5, <2>1
  <2>5. /\ IF f = pred(j) THEN succ(j) = from(s) ELSE succ(f) = from(s)
        /\ IF f = succ(j) THEN pred(j) = from(t) ELSE pred(f) = from(t)
    OBVIOUS
  <2>. HIDE DEF f, s, t, from, succ, pred, o, n2, p2
  <2>6. n2[o[i]] = o[s] /\ p2[o[i]] = o[t] BY <2>1, <2>2, <2>3, <2>4, <2>5
  <2>7. QED BY <2>6 DEF s, t
<1>. HIDE DEF o, p2, n2
<1>12. Links(h2, p2, n2, m, o) BY <1>8, <1>9, <1>10, <1>11 DEF Links
<1>13. QED BY <1>12 DEF p2, n2, o

\* The links that newAtFront sets, of e and of its neighbours.
LinkedInFront(hd, pv, nx, e, p2, n2) ==
  /\ p2 = IF hd = Nil THEN [pv EXCEPT ![e] = e] ELSE [pv EXCEPT ![e] = pv[hd], ![hd] = e]
  /\ n2 = IF hd = Nil THEN [nx EXCEPT ![e] = e] ELSE [nx EXCEPT ![e] = hd, ![pv[hd]] = e]

\* An entry that is not in the ring becomes its head, as newAtFront links it.
LEMMA PutInFront ==
  ASSUME NEW hd, NEW pv \in Pointers, NEW nx \in Pointers, NEW n \in Nat, NEW order,
         Links(hd, pv, nx, n, order), NEW e \in Entries, \A i \in 1..n : order[i] # e,
         NEW p2, NEW n2, LinkedInFront(hd, pv, nx, e, p2, n2)
  PROVE  Links(e, p2, n2, n + 1, With(n, order, e))
<1>. DEFINE m == n + 1
            o == With(n, order, e)
<1>1. o[1] = e /\ (\A i \in 2..m : o[i] = order[i - 1] /\ i - 1 \in 1..n) BY DEF With
<1>2. /\ \A i \in 1..n : order[i] \in Entries /\ order[i] # e
      /\ \A i, k \in 1..n : order[i] = order[k] => i = k
      /\ \A i \in 1..n : /\ nx[order[i]] = order[IF i = n THEN 1 ELSE i + 1]
                         /\ pv[order[i]] = order[IF i = 1 THEN n ELSE i - 1]
      /\ hd = IF n = 0 THEN Nil ELSE order[1]
  BY DEF Links
<1>3. o \in [1..m -> Entries] BY <1>2 DEF With
<1>4. \A i, k \in 1..m : o[i] = o[k] => i = k
  <2>1. SUFFICES ASSUME NEW i \in 1..m, NEW k \in 1..m, o[i] = o[k] PROVE i = k OBVIOUS
  <2>2. CASE i = 1 /\ k = 1 BY <2>2
  <2>3. CASE i = 1 /\ k # 1 BY <1>1, <1>2, <2>1, <2>3
  <2>4. CASE i # 1 /\ k = 1 BY <1>1, <1>2, <2>1, <2>4
  <2>5. CASE i # 1 /\ k # 1
    <3>1. i - 1 \in 1..n /\ k - 1 \in 1..n /\ order[i - 1] = order[k - 1] BY <1>1, <2>1, <2>5
    <3>2. i - 1 = k - 1 BY <1>2, <3>1
    <3>3. QED BY <3>2
  <2>6. QED BY <2>2, <2>3, <2>4, <2>5
<1>5. m # 0 /\ e = o[1] BY <1>1
<1>6. ASSUME NEW i \in 1..m
      PROVE  /\ n2[o[i]] = o[IF i = m THEN 1 ELSE i + 1]
             /\ p2[o[i]] = o[IF i = 1 THEN m ELSE i - 1]
  <2>1. CASE n = 0 BY <1>1, <1>2, <2>1 DEF Pointers, LinkedInFront
  <2>2. CASE n # 0
    <3>1. hd = order[1] /\ hd # Nil /\ hd \in Entries /\ pv[hd] = order[n] /\ order[n] \in Entries
      BY <1>2, <2>2, LruAssumption
    <3>2. \A x \in Entries : /\ n2[x] = IF x = order[n] THEN e ELSE IF x = e THEN hd ELSE nx[x]
                             /\ p2[x] = IF x = hd THEN e ELSE IF x = e THEN order[n] ELSE pv[x]
      BY <3>1 DEF Pointers, LinkedInFront
    <3>3. CASE i = 1
      <4>1. o[i] = e /\ e # order[n] /\ e # hd /\ i # m BY <1>1, <1>2, <2>2, <3>1, <3>3
      <4>2. n2[o[i]] = order[1] /\ p2[o[i]] = order[n] BY <3>1, <3>2, <4>1
      <4>3. o[2] = order[1] /\ o[m] = order[n] BY <1>1, <2>2
      <4>4. QED BY <3>3, <4>1, <4>2, <4>3
    <3>4. CASE i # 1
      <4>. DEFINE k == i - 1
      <4>1. k \in 1..n /\ o[i] = order[k] /\ order[k] \in Entries /\ order[k] # e
        BY <1>1, <1>2, <3>4
      <4>2. /\ n2[order[k]] = IF order[k] = order[n] THEN e ELSE nx[order[k]]
            /\ p2[order[k]] = IF order[k] = order[1] THEN e ELSE pv[order[k]]
        BY <3>1, <3>2, <4>1
      <4>3. /\ order[k] = order[n] <=> k = n
            /\ order[k] = order[1] <=> k = 1
        BY <1>2, <2>2, <4>1
      <4>4. n2[o[i]] = o[IF i = m THEN 1 ELSE i + 1]
        <5>1. CASE k = n BY <1>1, <4>1, <4>2, <5>1
        <5>2. CASE k # n
          <6>1. n2[o[i]] = order[k + 1] BY <1>2, <4>1, <4>2, <4>3, <5>2
          <6>2. i # m /\ i + 1 \in 2..m /\ (i + 1) - 1 = k + 1 BY <4>1, <5>2
          <6>3. o[i + 1] = order[k + 1] BY <1>1, <6>2
          <6>4. QED BY <6>1, <6>2, <6>3
        <5>3. QED BY <5>1, <5>2
      <4>5. p2[o[i]] = o[i - 1]
        <5>1. CASE k = 1 BY <1>1, <4>1, <4>2, <5>1
        <5>2. CASE k # 1
          <6>1. p2[o[i]] = order[k - 1] BY <1>2, <4>1, <4>2, <4>3, <5>2
          <6>2. i - 1 \in 2..m /\ (i - 1) - 1 = k - 1 BY <4>1, <5>2
          <6>3. o[i - 1] = order[k - 1] BY <1>1, <6>2
          <6>4. QED BY <6>1, <6>3
        <5>3. QED BY <5>1, <5>2
      <4>6. QED BY <3>4, <4>4, <4>5
    <3>5. QED BY <3>3, <3>4
  <2>3. QED BY <2>1, <2>2
<1>. HIDE DEF o
<1>7. Links(e, p2, n2, m, o) BY <1>3, <1>4, <1>5, <1>6 DEF Links
<1>8. QED BY <1>7 DEF o

\* The links of entries that are not in the ring do not matter.
LEMMA OtherLinks ==
  ASSUME NEW hd, NEW pv, NEW nx, NEW n \in Nat, NEW order, Links(hd, pv, nx, n, order),
         NEW p2, NEW n2, \A i \in 1..n : /\ p2[order[i]] = pv[order[i]]
                                         /\ n2[order[i]] = nx[order[i]]
  PROVE  Links(hd, p2, n2, n, order)
BY DEF Links

-----------------------------------------------------------------------------
(* The sizes of the entries *)

\* An entry is taken out: its size is subtracted.
LEMMA SumsWithout ==
  ASSUME NEW n \in Nat, NEW sizes, NEW sums, Sums(n, sizes, sums), NEW j \in 1..n
  PROVE  \E t : Sums(n - 1, Without(n, sizes, j), t) /\ t[n - 1] = sums[n] - sizes[j]
<1>. DEFINE w == Without(n, sizes, j)
            m == n - 1
            t == [i \in 0..m |-> IF i < j THEN sums[i] ELSE sums[i + 1] - sizes[j]]
<1>1. /\ \A i \in 1..n : sizes[i] \in Nat
      /\ \A i \in 0..n : sums[i] \in Nat
      /\ sums[0] = 0
      /\ \A i \in 1..n : sums[i] = sums[i - 1] + sizes[i]
      /\ \A i, k \in 0..n : i <= k => sums[i] <= sums[k]
  BY DEF Sums
<1>2. w \in [1..m -> Nat] BY <1>1 DEF Without
<1>3. \A i \in 0..m : i < j => t[i] = sums[i] BY <1>1
<1>4. \A i \in 0..m : i >= j => t[i] = sums[i + 1] - sizes[j] BY <1>1
<1>5. \A i \in j..n : sums[i] >= sums[j - 1] + sizes[j] BY <1>1
<1>6. \A i \in 0..m : t[i] \in Nat
  <2>1. SUFFICES ASSUME NEW i \in 0..m PROVE t[i] \in Nat OBVIOUS
  <2>2. CASE i < j BY <1>1, <1>3, <2>2
  <2>3. CASE i >= j
    <3>1. i + 1 \in j..n /\ i + 1 \in 0..n /\ j - 1 \in 0..n BY <2>3
    <3>2. sums[i + 1] >= sums[j - 1] + sizes[j] BY <1>5, <3>1
    <3>3. sums[i + 1] \in Nat /\ sums[j - 1] \in Nat /\ sizes[j] \in Nat BY <1>1, <3>1
    <3>4. QED BY <1>4, <2>3, <3>2, <3>3
  <2>4. QED BY <2>2, <2>3
<1>7. t[0] = 0 BY <1>1
<1>8. ASSUME NEW i \in 1..m PROVE t[i] = t[i - 1] + w[i]
  <2>1. w[i] = IF i < j THEN sizes[i] ELSE sizes[i + 1] BY DEF Without
  <2>2. CASE i < j BY <1>1, <1>3, <2>1, <2>2
  <2>3. CASE i >= j
    <3>1. i + 1 \in 1..n /\ (i + 1) - 1 = i /\ i \in 1..n BY <2>3
    <3>2. sums[i + 1] = sums[i] + sizes[i + 1] /\ sums[i] = sums[i - 1] + sizes[i] BY <1>1, <3>1
    <3>3. sums[i] \in Nat /\ sums[i - 1] \in Nat /\ sizes[i + 1] \in Nat /\ sizes[j] \in Nat
      BY <1>1, <3>1
    <3>4. t[i - 1] = sums[i] - sizes[j]
      <4>1. CASE i = j BY <1>3, <3>2, <3>3, <4>1
      <4>2. CASE i > j
        <5>1. i - 1 \in 0..m /\ i - 1 >= j /\ (i - 1) + 1 = i BY <4>2
        <5>2. QED BY <1>4, <5>1
      <4>3. QED BY <2>3, <4>1, <4>2
    <3>5. t[i] = sums[i + 1] - sizes[j] /\ w[i] = sizes[i + 1] BY <1>4, <2>1, <2>3
    <3>. HIDE DEF t, w
    <3>6. QED BY <3>2, <3>3, <3>4, <3>5
  <2>4. QED BY <2>2, <2>3
<1>9. ASSUME NEW i \in 0..m, NEW k \in 0..m, i <= k PROVE t[i] <= t[k]
  <2>1. i + 1 \in 0..n /\ k + 1 \in 0..n /\ i \in 0..n /\ k \in 0..n BY <1>9
  <2>2. CASE k < j BY <1>1, <1>3, <1>9, <2>1, <2>2
  <2>3. CASE i >= j
    <3>1. sums[i + 1] <= sums[k + 1] /\ sums[i + 1] \in Nat /\ sums[k + 1] \in Nat /\ sizes[j] \in Nat
      BY <1>1, <1>9, <2>1
    <3>2. QED BY <1>4, <1>9, <2>3, <3>1
  <2>4. CASE i < j /\ k >= j
    <3>1. sums[i] <= sums[j - 1] /\ sums[k + 1] >= sums[j - 1] + sizes[j] BY <1>1, <1>5, <2>1, <2>4
    <3>2. sums[i] \in Nat /\ sums[j - 1] \in Nat /\ sums[k + 1] \in Nat /\ sizes[j] \in Nat
      BY <1>1, <2>1
    <3>3. QED BY <1>3, <1>4, <2>4, <3>1, <3>2
  <2>5. QED BY <2>2, <2>3, <2>4
<1>10. t[m] = sums[n] - sizes[j]
  <2>1. CASE j = n
    <3>1. t[m] = sums[n - 1] /\ sums[n] = sums[n - 1] + sizes[n] BY <1>1, <1>3, <2>1
    <3>2. sums[n - 1] \in Nat /\ sizes[n] \in Nat BY <1>1, <2>1
    <3>3. QED BY <2>1, <3>1, <3>2
  <2>2. CASE j # n BY <1>4, <2>2
  <2>3. QED BY <2>1, <2>2
<1>11. t \in [0..m -> Nat] BY <1>6
<1>. HIDE DEF t, w
<1>12. Sums(m, w, t) BY <1>2, <1>7, <1>8, <1>9, <1>11 DEF Sums
<1>13. QED BY <1>10, <1>12 DEF w

\* An entry is put in front: its size is added.
LEMMA SumsWith ==
  ASSUME NEW n \in Nat, NEW sizes, NEW sums, Sums(n, sizes, sums), NEW x \in Nat
  PROVE  \E t : Sums(n + 1, With(n, sizes, x), t) /\ t[n + 1] = sums[n] + x
<1>. DEFINE w == With(n, sizes, x)
            m == n + 1
            t == [i \in 0..m |-> IF i = 0 THEN 0 ELSE sums[i - 1] + x]
<1>1. /\ \A i \in 1..n : sizes[i] \in Nat
      /\ \A i \in 0..n : sums[i] \in Nat
      /\ sums[0] = 0
      /\ \A i \in 1..n : sums[i] = sums[i - 1] + sizes[i]
      /\ \A i, k \in 0..n : i <= k => sums[i] <= sums[k]
  BY DEF Sums
<1>2. w \in [1..m -> Nat] BY <1>1 DEF With
<1>3. t \in [0..m -> Nat] BY <1>1
<1>4. t[0] = 0 /\ (\A i \in 1..m : t[i] = sums[i - 1] + x /\ i - 1 \in 0..n) OBVIOUS
<1>5. ASSUME NEW i \in 1..m PROVE t[i] = t[i - 1] + w[i]
  <2>1. w[i] = IF i = 1 THEN x ELSE sizes[i - 1] BY DEF With
  <2>2. CASE i = 1 BY <1>1, <1>4, <2>1, <2>2
  <2>3. CASE i # 1
    <3>1. i - 1 \in 1..n /\ i - 1 \in 1..m BY <2>3
    <3>2. sums[i - 1] = sums[(i - 1) - 1] + sizes[i - 1] /\ t[i - 1] = sums[(i - 1) - 1] + x
      BY <1>1, <1>4, <3>1
    <3>3. sums[(i - 1) - 1] \in Nat /\ sizes[i - 1] \in Nat BY <1>1, <3>1
    <3>4. QED BY <1>4, <2>1, <2>3, <3>2, <3>3
  <2>4. QED BY <2>2, <2>3
<1>6. ASSUME NEW i \in 0..m, NEW k \in 0..m, i <= k PROVE t[i] <= t[k]
  <2>1. CASE i = 0 BY <1>3, <1>4, <2>1
  <2>2. CASE i # 0 BY <1>1, <1>4, <1>6, <2>2
  <2>3. QED BY <2>1, <2>2
<1>7. t[m] = sums[n] + x OBVIOUS
<1>. HIDE DEF t, w
<1>8. Sums(m, w, t) BY <1>2, <1>3, <1>4, <1>5, <1>6 DEF Sums
<1>9. QED BY <1>7, <1>8 DEF w

-----------------------------------------------------------------------------
(* The ring over a set of entries *)

\* The ring goes through the n entries of S, in this order, and their sizes sum up to total.
RingIn(n, order, hd, pv, nx, S, size, total) ==
  \E sums :
    /\ Links(hd, pv, nx, n, order)
    /\ S = {order[i] : i \in 1..n}
    /\ Sums(n, [i \in 1..n |-> size[order[i]]], sums)
    /\ sums[n] = total

Ring(hd, pv, nx, S, size, total) ==
  \E n \in Nat : \E order : RingIn(n, order, hd, pv, nx, S, size, total)

\* What a ring is for a caller of its functions.
LEMMA RingFacts ==
  ASSUME NEW hd, NEW pv, NEW nx, NEW S, NEW size, NEW total,
         Ring(hd, pv, nx, S, size, total)
  PROVE  /\ S \subseteq Entries /\ total \in Nat
         /\ hd \in S \cup {Nil}
         /\ hd = Nil <=> S = {}
         /\ hd = Nil => total = 0
         /\ \A e \in S : /\ nx[e] \in S /\ pv[nx[e]] = e
                         /\ pv[e] \in S /\ nx[pv[e]] = e
                         /\ size[e] \in Nat
<1>0. PICK n \in Nat : \E order : RingIn(n, order, hd, pv, nx, S, size, total) BY DEF Ring
<1>1. PICK order, sums :
           /\ Links(hd, pv, nx, n, order)
           /\ S = {order[i] : i \in 1..n}
           /\ Sums(n, [i \in 1..n |-> size[order[i]]], sums)
           /\ sums[n] = total
  BY <1>0 DEF RingIn
<1>2. S \subseteq Entries BY <1>1 DEF Links
<1>3. total \in Nat BY <1>1 DEF Sums
<1>4. hd \in S \cup {Nil} /\ (hd = Nil <=> S = {})
  <2>1. CASE n = 0 BY <1>1, <2>1 DEF Links
  <2>2. CASE n # 0
    <3>1. hd = order[1] /\ 1 \in 1..n BY <1>1, <2>2 DEF Links
    <3>2. QED BY <1>1, <1>2, <3>1, LruAssumption
  <2>3. QED BY <2>1, <2>2
<1>5. hd = Nil => total = 0
  <2>1. hd = Nil => n = 0 BY <1>1, <1>2, LruAssumption DEF Links
  <2>2. QED BY <1>1, <2>1 DEF Sums
<1>6. ASSUME NEW e \in S
      PROVE  nx[e] \in S /\ pv[nx[e]] = e /\ pv[e] \in S /\ nx[pv[e]] = e /\ size[e] \in Nat
  <2>1. PICK i \in 1..n : e = order[i] BY <1>1
  <2>. DEFINE s == IF i = n THEN 1 ELSE i + 1
              t == IF i = 1 THEN n ELSE i - 1
  <2>2. s \in 1..n /\ t \in 1..n OBVIOUS
  <2>3. nx[e] = order[s] /\ pv[e] = order[t] BY <1>1, <2>1 DEF Links
  <2>4. pv[order[s]] = order[IF s = 1 THEN n ELSE s - 1] /\ nx[order[t]] = order[IF t = n THEN 1 ELSE t + 1]
    BY <1>1, <2>2 DEF Links
  <2>5. (IF s = 1 THEN n ELSE s - 1) = i /\ (IF t = n THEN 1 ELSE t + 1) = i OBVIOUS
  <2>6. size[e] \in Nat BY <1>1, <2>1 DEF Sums
  <2>. HIDE DEF s, t
  <2>7. QED BY <1>1, <2>1, <2>2, <2>3, <2>4, <2>5, <2>6
<1>7. QED BY <1>2, <1>3, <1>4, <1>5, <1>6

\* No entry: no ring.
LEMMA EmptyRing ==
  ASSUME NEW pv, NEW nx, NEW size PROVE Ring(Nil, pv, nx, {}, size, 0)
<1>. DEFINE order == [i \in 1..0 |-> Nil]
            sums == [i \in 0..0 |-> 0]
<1>1. Links(Nil, pv, nx, 0, order) BY DEF Links
<1>2. {} = {order[i] : i \in 1..0} OBVIOUS
<1>3. Sums(0, [i \in 1..0 |-> size[order[i]]], sums) BY DEF Sums
<1>4. sums[0] = 0 OBVIOUS
<1>5. RingIn(0, order, Nil, pv, nx, {}, size, 0) BY <1>1, <1>2, <1>3, <1>4 DEF RingIn
<1>6. QED BY <1>5 DEF Ring

\* The head when e is taken out, the links that remain, and the sizes.
HeadWithout(hd, nx, e) == IF nx[e] = e THEN Nil ELSE IF hd = e THEN nx[e] ELSE hd
Unlinked(pv, nx, S, size, e, p2, n2, size2) ==
  \A x \in S \ {e} : /\ p2[x] = IF x = nx[e] THEN pv[e] ELSE pv[x]
                     /\ n2[x] = IF x = pv[e] THEN nx[e] ELSE nx[x]
                     /\ size2[x] = size[x]

\* An entry is taken out, with its size; what becomes of its own links does not matter.
LEMMA RingWithout ==
  ASSUME NEW hd, NEW pv \in Pointers, NEW nx \in Pointers, NEW S, NEW size, NEW total,
         NEW n, NEW order, RingIn(n, order, hd, pv, nx, S, size, total),
         NEW j, NEW m, Shorter(m, n, j), NEW e, e = order[j],
         NEW h2, h2 = HeadWithout(hd, nx, e),
         NEW p2, NEW n2, NEW size2, Unlinked(pv, nx, S, size, e, p2, n2, size2),
         NEW S2, S2 = S \ {e},
         NEW total2, IsDifference(total2, total, size[e])
  PROVE  RingIn(m, Without(n, order, j), h2, p2, n2, S2, size2, total2)
<1>. USE DEF Shorter, IsDifference
<1>. DEFINE p1 == [pv EXCEPT ![nx[e]] = pv[e]]
            n1 == [nx EXCEPT ![pv[e]] = nx[e]]
<1>1. PICK sums :
           /\ Links(hd, pv, nx, n, order)
           /\ S = {order[i] : i \in 1..n}
           /\ Sums(n, [i \in 1..n |-> size[order[i]]], sums)
           /\ sums[n] = total
  BY DEF RingIn
<1>2. e \in S BY <1>1
<1>. DEFINE o == Without(n, order, j)
            w == [i \in 1..n |-> size[order[i]]]
<1>3. Links(h2, p1, n1, m, o) BY <1>1, TakeOut DEF HeadWithout
<1>4. PICK t : Sums(m, Without(n, w, j), t) /\ t[m] = sums[n] - w[j]
  <2>1. Sums(n, w, sums) BY <1>1
  <2>. HIDE DEF w
  <2>2. QED BY <2>1, SumsWithout
<1>5. \A i \in 1..n : order[i] = e => i = j BY <1>1, <1>2 DEF Links
<1>6. \A i \in 1..m : o[i] = order[IF i < j THEN i ELSE i + 1] /\ (IF i < j THEN i ELSE i + 1) \in 1..n \ {j}
  BY DEF Without
<1>7. S \ {e} = {o[i] : i \in 1..m}
  <2>1. \A i \in 1..m : o[i] \in S \ {e} BY <1>1, <1>5, <1>6
  <2>2. ASSUME NEW x \in S \ {e} PROVE \E i \in 1..m : o[i] = x
    <3>1. PICK i \in 1..n : x = order[i] /\ i # j BY <1>1, <1>2
    <3>2. CASE i < j
      <4>1. i \in 1..m /\ o[i] = order[i] BY <1>6, <3>2
      <4>2. QED BY <3>1, <4>1
    <3>3. CASE i > j
      <4>1. i - 1 \in 1..m /\ o[i - 1] = order[(i - 1) + 1] /\ (i - 1) + 1 = i BY <1>6, <3>3
      <4>2. QED BY <3>1, <4>1
    <3>4. QED BY <3>1, <3>2, <3>3
  <2>. HIDE DEF o
  <2>3. QED BY <2>1, <2>2
<1>8. Links(h2, p2, n2, m, o)
  <2>1. nx[e] \in Entries /\ pv[e] \in Entries /\ S \subseteq Entries
    <3>1. Ring(hd, pv, nx, S, size, total) BY DEF Ring
    <3>2. QED BY <1>2, <3>1, RingFacts
  <2>2. \A i \in 1..m : p2[o[i]] = p1[o[i]] /\ n2[o[i]] = n1[o[i]]
    <3>1. \A x \in S \ {e} : p2[x] = p1[x] /\ n2[x] = n1[x] BY <2>1 DEF Pointers, Unlinked
    <3>. HIDE DEF o, p1, n1
    <3>2. QED BY <1>7, <3>1
  <2>. HIDE DEF p1, n1, o
  <2>3. m \in Nat OBVIOUS
  <2>4. QED BY <1>3, <2>2, <2>3, OtherLinks
<1>9. [i \in 1..m |-> size2[o[i]]] = Without(n, w, j)
  <2>1. \A i \in 1..m : Without(n, w, j)[i] = size[o[i]] BY <1>6 DEF Without
  <2>2. \A i \in 1..m : size2[o[i]] = size[o[i]] BY <1>7 DEF Unlinked
  <2>3. Without(n, w, j) = [i \in 1..m |-> Without(n, w, j)[i]] BY DEF Without
  <2>. HIDE DEF o
  <2>4. QED BY <2>1, <2>2, <2>3
<1>10. m \in Nat /\ t[m] = total - size[e] BY <1>1, <1>2, <1>4
<1>. HIDE DEF o, w
<1>11. Sums(m, [i \in 1..m |-> size2[o[i]]], t) BY <1>4, <1>9
<1>12. RingIn(m, o, h2, p2, n2, S2, size2, total2) BY <1>7, <1>8, <1>10, <1>11 DEF RingIn
<1>13. QED BY <1>12 DEF o

\* An entry is put in front, with its size.
LEMMA RingWith ==
  ASSUME NEW hd, NEW pv \in Pointers, NEW nx \in Pointers, NEW S, NEW size, NEW total,
         NEW n, NEW order, NEW m, Longer(m, n),
         RingIn(n, order, hd, pv, nx, S, size, total),
         NEW e \in Entries \ S,
         NEW p2, NEW n2, LinkedInFront(hd, pv, nx, e, p2, n2),
         NEW size2, size2[e] \in Nat, \A x \in S : size2[x] = size[x],
         NEW S2, S2 = S \cup {e},
         NEW total2, IsSum(total2, total, size2[e])
  PROVE  RingIn(m, With(n, order, e), e, p2, n2, S2, size2, total2)
<1>. USE DEF Longer, IsSum
<1>1. PICK sums :
           /\ Links(hd, pv, nx, n, order)
           /\ S = {order[i] : i \in 1..n}
           /\ Sums(n, [i \in 1..n |-> size[order[i]]], sums)
           /\ sums[n] = total
  BY DEF RingIn
<1>. DEFINE o == With(n, order, e)
            w == [i \in 1..n |-> size[order[i]]]
<1>2. Links(e, p2, n2, m, o)
  <2>1. \A i \in 1..n : order[i] # e BY <1>1
  <2>2. QED BY <1>1, <2>1, PutInFront
<1>3. PICK t : Sums(m, With(n, w, size2[e]), t) /\ t[m] = sums[n] + size2[e]
  <2>1. Sums(n, w, sums) BY <1>1
  <2>. HIDE DEF w
  <2>2. QED BY <2>1, SumsWith
<1>4. o[1] = e /\ (\A i \in 2..m : o[i] = order[i - 1] /\ i - 1 \in 1..n) BY DEF With
<1>5. S \cup {e} = {o[i] : i \in 1..m}
  <2>1. \A i \in 1..m : o[i] \in S \cup {e} BY <1>1, <1>4
  <2>2. ASSUME NEW x \in S PROVE \E i \in 1..m : o[i] = x
    <3>1. PICK i \in 1..n : x = order[i] BY <1>1
    <3>2. i + 1 \in 2..m /\ (i + 1) - 1 = i OBVIOUS
    <3>3. o[i + 1] = x BY <1>4, <3>1, <3>2
    <3>4. QED BY <3>2, <3>3
  <2>3. 1 \in 1..m OBVIOUS
  <2>. HIDE DEF o
  <2>4. QED BY <1>4, <2>1, <2>2, <2>3
<1>6. [i \in 1..m |-> size2[o[i]]] = With(n, w, size2[e])
  <2>1. ASSUME NEW i \in 1..m PROVE With(n, w, size2[e])[i] = size2[o[i]]
    <3>1. CASE i = 1 BY <1>4, <3>1 DEF With
    <3>2. CASE i # 1
      <4>1. i \in 2..m /\ i - 1 \in 1..n /\ o[i] = order[i - 1] BY <1>4, <3>2
      <4>2. With(n, w, size2[e])[i] = size[order[i - 1]] BY <3>2, <4>1 DEF With
      <4>3. order[i - 1] \in S BY <1>1, <4>1
      <4>4. QED BY <4>1, <4>2, <4>3
    <3>3. QED BY <3>1, <3>2
  <2>2. With(n, w, size2[e]) = [i \in 1..m |-> With(n, w, size2[e])[i]] BY DEF With
  <2>. HIDE DEF o
  <2>3. QED BY <2>1, <2>2
<1>7. m \in Nat /\ t[m] = total + size2[e] BY <1>1, <1>3
<1>. HIDE DEF o, w
<1>8. Sums(m, [i \in 1..m |-> size2[o[i]]], t) BY <1>3, <1>6
<1>9. RingIn(m, o, e, p2, n2, S2, size2, total2) BY <1>2, <1>5, <1>7, <1>8 DEF RingIn
<1>10. QED BY <1>9 DEF o

\* The head stays, and its size changes.
LEMMA RingResized ==
  ASSUME NEW hd, NEW pv, NEW nx, NEW S, NEW size, NEW total,
         NEW n \in Nat, NEW order, RingIn(n, order, hd, pv, nx, S, size, total), hd # Nil,
         NEW size2, size2[hd] \in Nat, \A x \in S \ {hd} : size2[x] = size[x]
  PROVE  RingIn(n, order, hd, pv, nx, S, size2, total - size[hd] + size2[hd])
<1>1. PICK sums :
           /\ Links(hd, pv, nx, n, order)
           /\ S = {order[i] : i \in 1..n}
           /\ Sums(n, [i \in 1..n |-> size[order[i]]], sums)
           /\ sums[n] = total
  BY DEF RingIn
<1>. DEFINE w == [i \in 1..n |-> size[order[i]]]
            m == n - 1
            x == size2[hd]
<1>2. n # 0 /\ hd = order[1] /\ 1 \in 1..n BY <1>1 DEF Links
<1>3. PICK t : Sums(m, Without(n, w, 1), t) /\ t[m] = sums[n] - w[1]
  <2>1. Sums(n, w, sums) BY <1>1
  <2>. HIDE DEF w
  <2>2. QED BY <1>2, <2>1, SumsWithout
<1>4. m \in Nat /\ m + 1 = n BY <1>2
<1>5. PICK u : Sums(m + 1, With(m, Without(n, w, 1), x), u) /\ u[m + 1] = t[m] + x
  <2>. DEFINE short == Without(n, w, 1)
  <2>1. x \in Nat /\ Sums(m, short, t) BY <1>3
  <2>. HIDE DEF m, x, short
  <2>2. \E u : Sums(m + 1, With(m, short, x), u) /\ u[m + 1] = t[m] + x BY <1>4, <2>1, SumsWith
  <2>3. QED BY <2>2 DEF short
<1>6. ASSUME NEW i \in 1..n PROVE With(m, Without(n, w, 1), x)[i] = size2[order[i]]
  <2>1. CASE i = 1 BY <1>2, <1>4, <2>1 DEF With
  <2>2. CASE i # 1
    <3>1. i - 1 \in 1..m /\ (i - 1) + 1 = i /\ ~(i - 1 < 1) BY <2>2
    <3>2. With(m, Without(n, w, 1), x)[i] = Without(n, w, 1)[i - 1] BY <1>4, <2>2 DEF With
    <3>3. Without(n, w, 1)[i - 1] = w[i] BY <3>1 DEF Without
    <3>4. order[i] \in S \ {hd} BY <1>1, <1>2, <2>2 DEF Links
    <3>5. QED BY <3>2, <3>3, <3>4
  <2>3. QED BY <2>1, <2>2
<1>7. With(m, Without(n, w, 1), x) = [i \in 1..n |-> With(m, Without(n, w, 1), x)[i]]
  BY <1>4 DEF With
<1>8. With(m, Without(n, w, 1), x) = [i \in 1..n |-> size2[order[i]]] BY <1>6, <1>7
<1>9. u[n] = total - size[hd] + size2[hd] BY <1>1, <1>2, <1>3, <1>4, <1>5
<1>10. Sums(n, [i \in 1..n |-> size2[order[i]]], u) BY <1>4, <1>5, <1>8
<1>11. QED BY <1>1, <1>9, <1>10 DEF RingIn

-----------------------------------------------------------------------------
(* The invariant *)

Sizes == [e \in Entries |-> EntrySize[key[e], value[e]]]

\* The map finds entries by their keys.
KeysFindEntries ==
  \A k \in Keys : lookup[k] # Nil => key[lookup[k]] = k /\ value[lookup[k]] \in Values

\* The ring goes through these n entries, in this order.
InOrder(n, order) == RingIn(n, order, head, prev, next, Present, Sizes, curSize)

IInv ==
  /\ RingType
  /\ KeysFindEntries
  /\ evicting <=> TooLarge(curSize)
  /\ Ring(head, prev, next, Present, Sizes, curSize)

\* An entry of the ring is found by its key, and has a size.
LEMMA PresentEntry ==
  ASSUME IInv, NEW e \in Present
  PROVE  /\ e \in Entries /\ e # Nil
         /\ key[e] \in Keys /\ value[e] \in Values /\ lookup[key[e]] = e
         /\ Sizes[e] = EntrySize[key[e], value[e]] /\ Sizes[e] \in Nat
         /\ next[e] \in Present /\ prev[e] \in Present
<1>1. PICK k \in Keys : lookup[k] = e /\ e # Nil BY DEF Present
<1>2. key[e] = k /\ value[e] \in Values BY <1>1 DEF IInv, KeysFindEntries
<1>3. e \in Entries /\ next[e] \in Present /\ prev[e] \in Present /\ Sizes[e] \in Nat
  BY RingFacts DEF IInv
<1>4. QED BY <1>1, <1>2, <1>3 DEF Sizes

\* An entry of the ring has a place in its order.
LEMMA PlaceInRing ==
  ASSUME IInv, NEW e \in Present
  PROVE  \E n \in Nat : \E order : InOrder(n, order) /\ \E j \in 1..n : e = order[j]
<1>1. PICK n \in Nat : \E order : InOrder(n, order) BY DEF IInv, Ring, InOrder
<1>2. PICK order : InOrder(n, order) BY <1>1
<1>3. Present = {order[i] : i \in 1..n} BY <1>2 DEF InOrder, RingIn
<1>4. \E j \in 1..n : e = order[j] BY <1>3
<1>5. QED BY <1>2, <1>4

\* deleteElement keeps the invariant, whoever calls it, and the order of the others.
LEMMA DeleteElementIInv ==
  ASSUME IInv, NEW e \in Present, deleteElement(e),
         NEW n \in Nat, NEW order, InOrder(n, order), NEW j \in 1..n, e = order[j],
         evicting' \in BOOLEAN, evicting' <=> TooLarge(curSize')
  PROVE  /\ InOrder(n - 1, Without(n, order, j))'
         /\ IInv'
<1>. DEFINE h2 == IF next[e] = e THEN Nil ELSE IF head = e THEN next[e] ELSE head
<1>1. /\ head' = h2
      /\ prev' = [[prev EXCEPT ![next[e]] = prev[e]] EXCEPT ![e] = Nil]
      /\ next' = [[next EXCEPT ![prev[e]] = next[e]] EXCEPT ![e] = Nil]
      /\ key' = [key EXCEPT ![e] = Nil]
      /\ value' = [value EXCEPT ![e] = Nil]
      /\ lookup' = [lookup EXCEPT ![key[e]] = Nil]
      /\ curSize' = curSize - EntrySize[key[e], value[e]]
  BY DEF deleteElement
<1>2. /\ e \in Entries /\ e # Nil
      /\ key[e] \in Keys /\ value[e] \in Values /\ lookup[key[e]] = e
      /\ Sizes[e] = EntrySize[key[e], value[e]] /\ next[e] \in Present /\ prev[e] \in Present
  BY PresentEntry
<1>3. Present \subseteq Entries BY RingFacts DEF IInv
<1>4. RingType'
  BY <1>1, <1>2, <1>3 DEF IInv, RingType
<1>5. \A k \in Keys : lookup'[k] = IF lookup[k] = e THEN Nil ELSE lookup[k]
  BY <1>1, <1>2 DEF IInv, RingType, KeysFindEntries
<1>6. Present' = Present \ {e} BY <1>5 DEF Present
<1>7. KeysFindEntries'
  <2>1. SUFFICES ASSUME NEW k \in Keys, lookup'[k] # Nil
                 PROVE  key'[lookup'[k]] = k /\ value'[lookup'[k]] \in Values
    BY DEF KeysFindEntries
  <2>2. lookup'[k] = lookup[k] /\ lookup[k] # e /\ lookup[k] \in Entries
    BY <1>5, <2>1 DEF IInv, RingType
  <2>3. key'[lookup[k]] = key[lookup[k]] /\ value'[lookup[k]] = value[lookup[k]]
    BY <1>1, <2>2 DEF IInv, RingType
  <2>4. QED BY <2>1, <2>2, <2>3 DEF IInv, KeysFindEntries
<1>8. RingIn(n - 1, Without(n, order, j), head', prev', next', Present', Sizes', curSize')
  <2>1. Unlinked(prev, next, Present, Sizes, e, prev', next', Sizes')
    <3>. SUFFICES ASSUME NEW x \in Present \ {e}
                  PROVE  /\ prev'[x] = IF x = next[e] THEN prev[e] ELSE prev[x]
                         /\ next'[x] = IF x = prev[e] THEN next[e] ELSE next[x]
                         /\ Sizes'[x] = Sizes[x]
      BY DEF Unlinked
    <3>1. x \in Entries /\ x # e BY <1>3
    <3>2. prev'[x] = IF x = next[e] THEN prev[e] ELSE prev[x] BY <1>1, <3>1 DEF IInv, RingType
    <3>3. next'[x] = IF x = prev[e] THEN next[e] ELSE next[x] BY <1>1, <3>1 DEF IInv, RingType
    <3>4. key'[x] = key[x] /\ value'[x] = value[x] BY <1>1, <3>1 DEF IInv, RingType
    <3>5. QED BY <3>1, <3>2, <3>3, <3>4 DEF Sizes
  <2>2. prev \in Pointers /\ next \in Pointers BY DEF IInv, RingType, Pointers
  <2>3. RingIn(n, order, head, prev, next, Present, Sizes, curSize) BY DEF InOrder
  <2>4. IsDifference(curSize', curSize, Sizes[e]) /\ head' = HeadWithout(head, next, e)
    BY <1>1, <1>2 DEF HeadWithout, IsDifference
  <2>5. PICK m : m = n - 1 /\ Shorter(m, n, j) BY DEF Shorter
  <2>6. RingIn(m, Without(n, order, j), head', prev', next', Present', Sizes', curSize')
    <3>1. Shorter(m, n, j) /\ e = order[j] /\ Present' = Present \ {e} BY <1>6, <2>5
    <3>2. QED BY ONLY <2>1, <2>2, <2>3, <2>4, <3>1, RingWithout
  <2>7. QED BY <2>5, <2>6
<1>9. Ring(head', prev', next', Present', Sizes', curSize')
  <2>1. n - 1 \in Nat OBVIOUS
  <2>2. QED BY <1>8, <2>1 DEF Ring
<1>10. QED BY <1>4, <1>7, <1>8, <1>9 DEF IInv, InOrder

\* moveToFront takes the entry from its place in the order to the first one, also if its
\* size is to change.
LEMMA MoveToFrontRing ==
  ASSUME IInv, NEW e \in Present, moveToFront(e),
         NEW n \in Nat, NEW order, InOrder(n, order), NEW j \in 1..n, e = order[j],
         NEW size2, size2[e] \in Nat, \A x \in Present \ {e} : size2[x] = Sizes[x],
         NEW total2, total2 = curSize - Sizes[e] + size2[e]
  PROVE  /\ RingIn(n, With(n - 1, Without(n, order, j), e),
                   head', prev', next', Present, size2, total2)
         /\ head' \in Entries /\ prev' \in Pointers /\ next' \in Pointers
<1>. DEFINE o == Without(n, order, j)
            m == n - 1
<1>1. prev \in Pointers /\ next \in Pointers BY DEF IInv, RingType, Pointers
<1>2. e \in Entries /\ e # Nil /\ next[e] \in Present /\ prev[e] \in Present BY PresentEntry
<1>3. Present \subseteq Entries /\ head \in Present \cup {Nil} BY RingFacts DEF IInv
<1>4. Links(head, prev, next, n, order) BY DEF InOrder, RingIn
<1>5. CASE head = e
  <2>1. UNCHANGED <<head, prev, next>> BY <1>5 DEF moveToFront
  <2>2. RingIn(n, order, head, prev, next, Present, size2, total2)
    BY <1>2, <1>5, RingResized DEF InOrder
  <2>3. j = 1 BY <1>4, <1>5 DEF Links
  <2>4. With(m, o, e) = order
    <3>1. DOMAIN order = 1..n /\ order = [i \in 1..n |-> order[i]] BY <1>4 DEF Links
    <3>2. \A i \in 1..n : With(m, o, e)[i] = order[i] BY <2>3 DEF With, Without
    <3>3. With(m, o, e) = [i \in 1..n |-> With(m, o, e)[i]] BY DEF With
    <3>4. QED BY <3>1, <3>2, <3>3
  <2>5. QED BY <1>1, <1>2, <1>5, <2>1, <2>2, <2>4
<1>6. CASE head # e
  <2>. DEFINE p == [prev EXCEPT ![next[e]] = prev[e]]
              q == [next EXCEPT ![prev[e]] = next[e]]
              S2 == Present \ {e}
              less == curSize - Sizes[e]
  <2>1. /\ prev' = [p EXCEPT ![e] = p[head], ![head] = e]
        /\ next' = [q EXCEPT ![e] = head, ![p[head]] = e]
        /\ head' = e
    BY <1>6 DEF moveToFront
  <2>2. p \in Pointers /\ q \in Pointers BY <1>1, <1>2, <1>3 DEF Pointers
  <2>3. head # Nil /\ head \in Present BY <1>3, RingFacts DEF IInv
  <2>4. next[e] # e
    <3>1. next[e] = e => n = 1 BY <1>4, OnlyEntry
    <3>2. n # 1 BY <1>4, <1>6 DEF Links
    <3>3. QED BY <3>1, <3>2
  <2>5. Unlinked(prev, next, Present, Sizes, e, p, q, size2) BY <1>1, <1>3 DEF Pointers, Unlinked
  <2>. HIDE DEF p, q
  <2>6. RingIn(m, o, head, p, q, S2, size2, less)
    <3>1. head = HeadWithout(head, next, e) BY <1>6, <2>4 DEF HeadWithout
    <3>2. RingIn(n, order, head, prev, next, Present, Sizes, curSize) BY DEF InOrder
    <3>3. /\ S2 = Present \ {e} /\ IsDifference(less, curSize, Sizes[e])
          /\ Shorter(m, n, j) /\ e = order[j]
      BY DEF IsDifference, Shorter
    <3>. HIDE DEF S2, less, m
    <3>4. QED BY ONLY <1>1, <2>5, <3>1, <3>2, <3>3, RingWithout
  <2>7. m \in Nat /\ Longer(n, m) BY DEF Longer
  <2>8. /\ e \in Entries \ S2 /\ Present = S2 \cup {e}
        /\ size2[e] \in Nat /\ IsSum(total2, less, size2[e])
    BY <1>2 DEF IsSum
  <2>9. LinkedInFront(head, p, q, e, prev', next') BY <2>1, <2>3 DEF LinkedInFront
  <2>10. p[head] \in S2
    <3>1. Ring(head, p, q, S2, size2, less) BY <2>6, <2>7 DEF Ring
    <3>2. head \in S2 BY <1>6, <2>3
    <3>. HIDE DEF S2, less
    <3>3. QED BY <3>1, <3>2, RingFacts
  <2>11. prev' \in Pointers /\ next' \in Pointers
    BY <1>2, <1>3, <2>1, <2>2, <2>3, <2>10 DEF Pointers
  <2>12. RingIn(n, With(m, o, e), e, prev', next', Present, size2, total2)
    <3>. HIDE DEF S2, less, m, o
    <3>1. QED BY ONLY <2>2, <2>6, <2>7, <2>8, <2>9, RingWith
  <2>. HIDE DEF o
  <2>13. QED BY <1>2, <2>1, <2>7, <2>11, <2>12 DEF o
<1>7. QED BY <1>5, <1>6

-----------------------------------------------------------------------------
(* The methods *)

\* Set of a key that is present: the entry goes to the front, with the size of its new
\* value.
LEMMA SetExistingIInv ==
  ASSUME IInv, NEW k \in Keys, NEW v \in Values, SetExisting(k, v),
         NEW e \in Present, e = lookup[k],
         NEW n \in Nat, NEW order, InOrder(n, order), NEW j \in 1..n, e = order[j]
  PROVE  /\ InOrder(n, With(n - 1, Without(n, order, j), e))'
         /\ IInv'
<1>1. /\ e # Nil /\ moveToFront(e)
      /\ curSize' = curSize - EntrySize[k, value[e]] + EntrySize[k, v]
      /\ value' = [value EXCEPT ![e] = v]
      /\ evicting' = TooLarge(curSize')
      /\ UNCHANGED <<key, lookup>>
  BY DEF SetExisting
<1>3. e \in Entries /\ key[e] = k /\ Sizes[e] = EntrySize[k, value[e]]
  <2>1. key[e] = k BY <1>1 DEF IInv, KeysFindEntries
  <2>2. QED BY <2>1, PresentEntry
<1>4. /\ Sizes'[e] = EntrySize[k, v] /\ Sizes'[e] \in Nat
      /\ \A x \in Present \ {e} : Sizes'[x] = Sizes[x]
  <2>1. value'[e] = v /\ key'[e] = k BY <1>1, <1>3 DEF IInv, RingType
  <2>2. EntrySize[k, v] \in Nat BY LruAssumption
  <2>3. \A x \in Entries \ {e} : value'[x] = value[x] /\ key'[x] = key[x]
    BY <1>1, <1>3 DEF IInv, RingType
  <2>4. Present \subseteq Entries BY RingFacts DEF IInv
  <2>5. QED BY <1>3, <2>1, <2>2, <2>3, <2>4 DEF Sizes
<1>5. /\ RingIn(n, With(n - 1, Without(n, order, j), e),
                head', prev', next', Present, Sizes', curSize')
      /\ head' \in Entries /\ prev' \in Pointers /\ next' \in Pointers
  <2>1. curSize' = curSize - Sizes[e] + Sizes'[e] BY <1>1, <1>3, <1>4
  <2>2. QED BY <1>1, <1>4, <2>1, MoveToFrontRing
<1>6. Present' = Present BY <1>1 DEF Present
<1>7. Ring(head', prev', next', Present', Sizes', curSize') BY <1>5, <1>6 DEF Ring
<1>8. RingType'
  <2>1. evicting' \in BOOLEAN BY <1>1 DEF TooLarge
  <2>2. QED BY <1>1, <1>3, <1>5, <2>1 DEF IInv, RingType, Pointers
<1>9. KeysFindEntries'
  BY <1>1, <1>3 DEF IInv, RingType, KeysFindEntries
<1>10. QED BY <1>1, <1>5, <1>6, <1>7, <1>8, <1>9 DEF IInv, InOrder

\* Set of a key that is not present: a new entry goes to the front.
LEMMA SetNewIInv ==
  ASSUME IInv, NEW k \in Keys, NEW v \in Values, SetNew(k, v),
         NEW n \in Nat, NEW order, InOrder(n, order)
  PROVE  /\ \E e \in Entries \ Present :
              /\ InOrder(n + 1, With(n, order, e))'
              /\ key'[e] = k /\ value'[e] = v
              /\ \A x \in Present : key'[x] = key[x] /\ value'[x] = value[x]
         /\ IInv'
<1>1. PICK e \in Entries \ Present :
           /\ newAtFront(e)
           /\ key' = [key EXCEPT ![e] = k]
           /\ value' = [value EXCEPT ![e] = v]
           /\ lookup' = [lookup EXCEPT ![k] = e]
  BY DEF SetNew
<1>2. /\ lookup[k] = Nil
      /\ curSize' = curSize + EntrySize[k, v]
      /\ evicting' = TooLarge(curSize')
  BY DEF SetNew
<1>3. LinkedInFront(head, prev, next, e, prev', next') /\ head' = e
  BY <1>1 DEF newAtFront, LinkedInFront
<1>4. prev \in Pointers /\ next \in Pointers BY DEF IInv, RingType, Pointers
<1>5. Present \subseteq Entries /\ (head # Nil => head \in Present /\ prev[head] \in Present)
  BY RingFacts DEF IInv
<1>6. e # Nil BY LruAssumption
<1>7. \A j \in Keys : lookup'[j] = IF j = k THEN e ELSE lookup[j] BY <1>1 DEF IInv, RingType
<1>8. Present' = Present \cup {e} BY <1>2, <1>6, <1>7 DEF Present
<1>f. /\ value'[e] = v /\ key'[e] = k
      /\ \A x \in Present : key'[x] = key[x] /\ value'[x] = value[x]
  BY <1>1, <1>5 DEF IInv, RingType
<1>9. /\ Sizes'[e] = EntrySize[k, v] /\ Sizes'[e] \in Nat
      /\ \A x \in Present : Sizes'[x] = Sizes[x]
  <2>1. EntrySize[k, v] \in Nat BY LruAssumption
  <2>2. QED BY <1>5, <1>f, <2>1 DEF Sizes
<1>10. RingIn(n, order, head, prev, next, Present, Sizes, curSize) BY DEF InOrder
<1>11. /\ RingIn(n + 1, With(n, order, e), head', prev', next', Present', Sizes', curSize')
       /\ Ring(head', prev', next', Present', Sizes', curSize')
  <2>1. IsSum(curSize', curSize, Sizes'[e]) BY <1>2, <1>9 DEF IsSum
  <2>2. PICK m : m = n + 1 /\ Longer(m, n) BY DEF Longer
  <2>3. RingIn(m, With(n, order, e), e, prev', next', Present', Sizes', curSize')
    BY <1>3, <1>4, <1>8, <1>9, <1>10, <2>1, <2>2, RingWith
  <2>4. QED BY <1>3, <2>2, <2>3 DEF Ring
<1>12. prev' \in Pointers /\ next' \in Pointers BY <1>3, <1>4, <1>5 DEF Pointers, LinkedInFront
<1>13. RingType'
  <2>1. evicting' \in BOOLEAN BY <1>2 DEF TooLarge
  <2>2. QED BY <1>1, <1>3, <1>12, <2>1 DEF IInv, RingType, Pointers
<1>14. KeysFindEntries'
  <2>1. SUFFICES ASSUME NEW j \in Keys, lookup'[j] # Nil
                 PROVE  key'[lookup'[j]] = j /\ value'[lookup'[j]] \in Values
    BY DEF KeysFindEntries
  <2>2. CASE j = k BY <1>1, <1>7, <2>2 DEF IInv, RingType
  <2>3. CASE j # k
    <3>1. lookup'[j] = lookup[j] /\ lookup[j] \in Present BY <1>7, <2>1, <2>3 DEF Present
    <3>2. key'[lookup[j]] = key[lookup[j]] /\ value'[lookup[j]] = value[lookup[j]]
      BY <1>1, <1>5, <3>1 DEF IInv, RingType
    <3>3. QED BY <2>1, <3>1, <3>2 DEF IInv, KeysFindEntries
  <2>4. QED BY <2>2, <2>3
<1>15. InOrder(n + 1, With(n, order, e))' BY <1>11 DEF InOrder
<1>16. IInv' BY <1>2, <1>11, <1>13, <1>14 DEF IInv
<1>17. QED BY <1>15, <1>16, <1>f

\* A ring that is not touched stays.
LEMMA SameRingIInv == ASSUME IInv, UNCHANGED <<ring, evicting>> PROVE IInv'
<1>1. /\ head' = head /\ prev' = prev /\ next' = next /\ key' = key /\ value' = value
      /\ lookup' = lookup /\ curSize' = curSize /\ evicting' = evicting
  BY DEF ring
<1>2. Present' = Present /\ Sizes' = Sizes BY <1>1 DEF Present, Sizes
<1>3. RingType' /\ KeysFindEntries' BY <1>1 DEF IInv, RingType, KeysFindEntries
<1>4. Ring(head', prev', next', Present', Sizes', curSize') BY <1>1, <1>2 DEF IInv
<1>5. QED BY <1>1, <1>3, <1>4 DEF IInv

\* GetOk moves the entry that it finds.
LEMMA GetOkIInv ==
  ASSUME IInv, NEW k \in Keys, GetOk(k), NEW e \in Present, e = lookup[k],
         NEW n \in Nat, NEW order, InOrder(n, order), NEW j \in 1..n, e = order[j]
  PROVE  /\ InOrder(n, With(n - 1, Without(n, order, j), e))'
         /\ IInv'
<1>1. UNCHANGED <<key, value, lookup, curSize, evicting>> BY DEF GetOk
<1>2. moveToFront(e) BY PresentEntry DEF GetOk
<1>3. Present' = Present /\ Sizes' = Sizes BY <1>1 DEF Present, Sizes
<1>4. Sizes[e] \in Nat /\ curSize \in Nat BY PresentEntry, RingFacts DEF IInv
<1>5. /\ RingIn(n, With(n - 1, Without(n, order, j), e),
                head', prev', next', Present, Sizes, curSize')
      /\ head' \in Entries /\ prev' \in Pointers /\ next' \in Pointers
  <2>1. curSize' = curSize - Sizes[e] + Sizes[e] BY <1>1, <1>4
  <2>2. QED BY <1>2, <1>4, <2>1, MoveToFrontRing
<1>6. Ring(head', prev', next', Present', Sizes', curSize') BY <1>3, <1>5 DEF Ring
<1>7. RingType' /\ KeysFindEntries'
  BY <1>1, <1>5 DEF IInv, RingType, KeysFindEntries, Pointers
<1>8. QED BY <1>1, <1>3, <1>5, <1>6, <1>7 DEF IInv, InOrder

\* What is left after deleteElement fits when all did.
LEMMA LessFits ==
  ASSUME IInv, NEW e \in Present, deleteElement(e), ~evicting
  PROVE  ~TooLarge(curSize')
<1>1. Sizes[e] \in Nat /\ curSize \in Nat BY PresentEntry, RingFacts DEF IInv
<1>2. curSize' = curSize - Sizes[e] BY PresentEntry DEF deleteElement
<1>3. ~TooLarge(curSize) BY DEF IInv
<1>4. MaxSize \in Nat BY LruAssumption
<1>5. QED BY ONLY <1>1, <1>2, <1>3, <1>4 DEF TooLarge

\* The entry that deleteOldest deletes is the last one.
LEMMA OldestIsLast ==
  ASSUME IInv, head # Nil, NEW n \in Nat, NEW order, InOrder(n, order)
  PROVE  n \in 1..n /\ prev[head] = order[n] /\ prev[head] \in Present
<1>1. Links(head, prev, next, n, order) BY DEF InOrder, RingIn
<1>2. n # 0 /\ head = order[1] BY <1>1 DEF Links
<1>3. 1 \in 1..n /\ prev[order[1]] = order[n] BY <1>1, <1>2 DEF Links
<1>4. prev[head] \in Present BY RingFacts DEF IInv
<1>5. QED BY <1>2, <1>3, <1>4

\* A round of the loop of Set.
LEMMA EvictIInv ==
  ASSUME IInv, Evict, NEW n \in Nat, NEW order, InOrder(n, order)
  PROVE  /\ n \in 1..n /\ InOrder(n - 1, Without(n, order, n))'
         /\ IInv'
<1>1. head # Nil /\ deleteOldest /\ evicting' = TooLarge(curSize') BY DEF Evict
<1>b. evicting' \in BOOLEAN /\ (evicting' <=> TooLarge(curSize')) BY <1>1 DEF TooLarge
<1>2. n \in 1..n /\ prev[head] = order[n] /\ prev[head] \in Present BY <1>1, OldestIsLast
<1>3. PICK e \in Present : e = prev[head] BY <1>2
<1>4. deleteElement(e) BY <1>1, <1>3 DEF deleteOldest
<1>5. QED BY <1>b, <1>2, <1>3, <1>4, DeleteElementIInv

\* Delete of a key that is present.
LEMMA DeleteIInv ==
  ASSUME IInv, NEW k \in Keys, Delete(k), NEW e \in Present, e = lookup[k],
         NEW n \in Nat, NEW order, InOrder(n, order), NEW j \in 1..n, e = order[j]
  PROVE  /\ InOrder(n - 1, Without(n, order, j))'
         /\ IInv'
<1>1. ~evicting /\ evicting' = evicting /\ e # Nil BY PresentEntry DEF Delete
<1>2. deleteElement(e) BY <1>1 DEF Delete
<1>3. ~TooLarge(curSize') BY <1>1, <1>2, LessFits
<1>4. evicting' \in BOOLEAN /\ (evicting' <=> TooLarge(curSize')) BY <1>1, <1>3 DEF IInv, RingType
<1>5. QED BY <1>2, <1>4, DeleteElementIInv

\* DeleteOldest of a cache that is not empty.
LEMMA DeleteOldestIInv ==
  ASSUME IInv, DeleteOldest, head # Nil, NEW n \in Nat, NEW order, InOrder(n, order)
  PROVE  /\ n \in 1..n /\ InOrder(n - 1, Without(n, order, n))'
         /\ IInv'
<1>1. n \in 1..n /\ prev[head] = order[n] /\ prev[head] \in Present BY OldestIsLast
<1>2. PICK e \in Present : e = prev[head] BY <1>1
<1>3. ~evicting /\ evicting' = evicting /\ deleteElement(e)
  BY <1>2 DEF DeleteOldest, deleteOldest
<1>4. ~TooLarge(curSize') BY <1>3, LessFits
<1>5. evicting' \in BOOLEAN /\ (evicting' <=> TooLarge(curSize')) BY <1>3, <1>4 DEF IInv, RingType
<1>6. QED BY <1>1, <1>2, <1>3, <1>5, DeleteElementIInv

\* An empty cache, at first and after Clear.
LEMMA EmptyIInv ==
  ASSUME head = Nil, prev = [e \in Entries |-> Nil], next = [e \in Entries |-> Nil],
         key = [e \in Entries |-> Nil], value = [e \in Entries |-> Nil],
         lookup = [k \in Keys |-> Nil], curSize = 0, evicting = FALSE
  PROVE  IInv
<1>1. Present = {} BY DEF Present
<1>2. RingType /\ KeysFindEntries BY DEF RingType, KeysFindEntries
<1>3. Ring(head, prev, next, Present, Sizes, curSize) BY <1>1, EmptyRing
<1>4. ~evicting /\ ~TooLarge(curSize) BY LruAssumption DEF TooLarge
<1>5. QED BY <1>2, <1>3, <1>4 DEF IInv

-----------------------------------------------------------------------------
(* The theorems *)

\* Every call, and every round of the loop of Set, keeps the invariant.
LEMMA NextIInv == ASSUME IInv, [Next]_vars PROVE IInv'
<1>1. CASE UNCHANGED vars
  <2>1. UNCHANGED <<ring, evicting>> BY <1>1 DEF vars, ring
  <2>2. QED BY <2>1, SameRingIInv
<1>r. \E n \in Nat : \E order : InOrder(n, order) BY DEF IInv, Ring, InOrder
<1>2. ASSUME NEW k \in Keys, NEW v \in Values, SetExisting(k, v) PROVE IInv'
  <2>1. lookup[k] # Nil BY <1>2 DEF SetExisting
  <2>2. PICK e \in Present : e = lookup[k] BY <2>1 DEF Present
  <2>3. QED BY <1>2, <2>2, PlaceInRing, SetExistingIInv
<1>3. ASSUME NEW k \in Keys, NEW v \in Values, SetNew(k, v) PROVE IInv'
  BY <1>3, <1>r, SetNewIInv
<1>4. ASSUME NEW k \in Keys, GetOk(k) \/ Delete(k) PROVE IInv'
  <2>1. CASE lookup[k] = Nil
    <3>1. UNCHANGED <<ring, evicting>> BY <1>4, <2>1 DEF GetOk, Delete, ring
    <3>2. QED BY <3>1, SameRingIInv
  <2>2. CASE lookup[k] # Nil
    <3>1. PICK e \in Present : e = lookup[k] BY <2>2 DEF Present
    <3>2. QED BY <1>4, <3>1, PlaceInRing, GetOkIInv, DeleteIInv
  <2>3. QED BY <2>1, <2>2
<1>5. ASSUME NEW k \in Keys, PeekOk(k) PROVE IInv' BY <1>5, SameRingIInv DEF PeekOk
<1>6. CASE Evict BY <1>6, <1>r, EvictIInv
<1>d. CASE DeleteOldest
  <2>1. CASE head = Nil BY <1>d, <2>1, SameRingIInv DEF DeleteOldest
  <2>2. CASE head # Nil BY <1>d, <1>r, <2>2, DeleteOldestIInv
  <2>3. QED BY <2>1, <2>2
<1>7. CASE Clear
  <2>1. /\ head' = Nil /\ prev' = [e \in Entries |-> Nil] /\ next' = [e \in Entries |-> Nil]
        /\ key' = [e \in Entries |-> Nil] /\ value' = [e \in Entries |-> Nil]
        /\ lookup' = [k \in Keys |-> Nil] /\ curSize' = 0 /\ evicting' = evicting /\ ~evicting
    BY <1>7 DEF Clear
  <2>2. evicting' = FALSE BY <2>1 DEF IInv, RingType
  <2>3. Present' = {} BY <2>1 DEF Present
  <2>4. RingType' /\ KeysFindEntries' BY <2>1, <2>2 DEF RingType, KeysFindEntries
  <2>5. Ring(head', prev', next', Present', Sizes', curSize') BY <2>1, <2>3, EmptyRing
  <2>6. ~TooLarge(curSize') BY <2>1, LruAssumption DEF TooLarge
  <2>7. QED BY <2>2, <2>4, <2>5, <2>6 DEF IInv
<1>8. CASE ForEach BY <1>8, SameRingIInv DEF ForEach
<1>9. CASE LenAndSize BY <1>9, SameRingIInv DEF LenAndSize
<1>10. QED BY <1>1, <1>2, <1>3, <1>4, <1>5, <1>6, <1>d, <1>7, <1>8, <1>9 DEF Next

\* Whatever is called in whatever order, the entries of the map are in one ring in the
\* order of their use, and curSize is the sum of their sizes.
THEOREM InvariantIInv == Spec => []IInv
<1>1. Init => IInv BY EmptyIInv DEF Init
<1>2. IInv /\ [Next]_vars => IInv' BY NextIInv
<1>3. QED BY <1>1, <1>2, PTL DEF Spec

\* The fields have their types, and curSize is never negative though it is only added
\* to and subtracted from.
THEOREM TypeCorrect == Spec => []TypeOK
<1>1. IInv => TypeOK
  <2>1. ASSUME IInv PROVE TypeOK BY <2>1, RingFacts DEF IInv, TypeOK
  <2>2. QED BY <2>1
<1>2. QED BY <1>1, InvariantIInv, PTL

\* The ring of moveToFront, newAtFront and deleteElement is linked both ways, over
\* exactly the entries of the map, and the loop of Set never runs out of them.
THEOREM RingIsLinked == Spec => []RingLinked
<1>1. ASSUME IInv PROVE RingLinked
  <2>1. Ring(head, prev, next, Present, Sizes, curSize) BY <1>1 DEF IInv
  <2>2. /\ head \in Present \cup {Nil}
        /\ head = Nil <=> Present = {}
        /\ \A e \in Present : /\ next[e] \in Present /\ prev[next[e]] = e
                              /\ prev[e] \in Present /\ next[prev[e]] = e
    BY <2>1, RingFacts
  <2>3. \A k \in Keys : lookup[k] # Nil => key[lookup[k]] = k /\ value[lookup[k]] # Nil
    BY <1>1, LruAssumption DEF IInv, KeysFindEntries
  <2>4. evicting => head # Nil
    <3>1. head = Nil => curSize = 0 BY <2>1, RingFacts
    <3>2. QED BY <1>1, <3>1, LruAssumption DEF IInv, TooLarge
  <2>5. QED BY <2>2, <2>3, <2>4 DEF RingLinked
<1>2. IInv => RingLinked BY <1>1
<1>3. QED BY <1>2, InvariantIInv, PTL

-----------------------------------------------------------------------------
(* ForEach goes through the order *)

\* The entries of order from the place i on.
Rest(n, order, i) == [k \in 1..(n - i + 1) |-> order[i + k - 1]]

\* At the last place one entry is left,
LEMMA RestLast ==
  ASSUME NEW n \in Nat, NEW order \in [1..n -> Entries], NEW i \in 1..n, i = n
  PROVE  Rest(n, order, i) = <<order[i]>>
<1>. DEFINE r == Rest(n, order, i)
<1>1. PICK m \in Nat : m = 1 OBVIOUS
<1>2. n - i + 1 = m /\ i + 1 - 1 = i BY <1>1
<1>3. r \in [1..m -> Entries] /\ r[1] = order[i] BY <1>1, <1>2 DEF Rest
<1>. HIDE DEF r
<1>4. r \in Seq(Entries) /\ Len(r) = m BY <1>3
<1>5. <<order[i]>> \in Seq(Entries) /\ Len(<<order[i]>>) = 1 /\ <<order[i]>>[1] = order[i] OBVIOUS
<1>6. \A k \in 1..Len(r) : r[k] = <<order[i]>>[k] BY <1>1, <1>3, <1>4, <1>5
<1>7. r = <<order[i]>> BY <1>1, <1>4, <1>5, <1>6, SeqEqual
<1>8. QED BY <1>7 DEF r

\* elsewhere the entry there and what is left after it,
LEMMA RestNext ==
  ASSUME NEW n \in Nat, NEW order \in [1..n -> Entries], NEW i \in 1..n, i # n
  PROVE  Rest(n, order, i) = <<order[i]>> \o Rest(n, order, i + 1)
<1>. DEFINE r == Rest(n, order, i + 1)
            m == n - i
            x == order[i]
<1>1. m \in Nat /\ x \in Entries /\ n - (i + 1) + 1 = m OBVIOUS
<1>2. r = [k \in 1..m |-> order[(i + 1) + k - 1]] BY <1>1 DEF Rest
<1>3. r \in [1..m -> Entries] BY <1>2
<1>4. <<x>> \o r = With(m, r, x)
  <2>. HIDE DEF r, m, x
  <2>1. QED BY <1>1, <1>3, InFront
<1>5. With(m, r, x) = Rest(n, order, i)
  <2>1. Rest(n, order, i) = [k \in 1..(m + 1) |-> order[i + k - 1]] BY DEF Rest
  <2>2. ASSUME NEW k \in 1..(m + 1) PROVE (IF k = 1 THEN x ELSE r[k - 1]) = order[i + k - 1]
    <3>1. CASE k = 1 BY <3>1
    <3>2. CASE k # 1
      <4>1. k - 1 \in 1..m /\ (i + 1) + (k - 1) - 1 = i + k - 1 BY <3>2
      <4>2. r[k - 1] = order[(i + 1) + (k - 1) - 1] BY <1>2, <4>1
      <4>3. QED BY <3>2, <4>1, <4>2
    <3>3. QED BY <3>1, <3>2
  <2>. HIDE DEF r, x
  <2>3. QED BY <2>1, <2>2 DEF With
<1>. HIDE DEF r, m, x
<1>6. Rest(n, order, i) = <<x>> \o r BY <1>4, <1>5
<1>7. QED BY <1>6 DEF r, x

\* and at the first place all of them.
LEMMA RestAll ==
  ASSUME NEW n \in Nat, NEW order \in [1..n -> Entries]
  PROVE  Rest(n, order, 1) = order
<1>1. n - 1 + 1 = n /\ \A k \in 1..n : 1 + k - 1 = k OBVIOUS
<1>2. Rest(n, order, 1) = [k \in 1..n |-> order[k]] BY <1>1 DEF Rest
<1>3. QED BY <1>2

\* The loop of ForEach goes through the entries of the ring, in its order, and ends.
LEMMA Visits ==
  ASSUME NEW hd, NEW pv, NEW nx, NEW n \in Nat, NEW order, Links(hd, pv, nx, n, order),
         NEW S, S = {order[i] : i \in 1..n}
  PROVE  Visited(hd, nx, S) = order
<1>1. /\ order \in [1..n -> Entries]
      /\ \A i, j \in 1..n : order[i] = order[j] => i = j
      /\ hd = IF n = 0 THEN Nil ELSE order[1]
      /\ \A i \in 1..n : nx[order[i]] = order[IF i = n THEN 1 ELSE i + 1]
  BY DEF Links
<1>2. CASE n = 0
  <2>1. order \in Seq(Entries) /\ Len(order) = 0 BY <1>1, <1>2
  <2>2. order = <<>> BY <2>1, EmptySeq
  <2>3. hd = Nil BY <1>1, <1>2
  <2>4. QED BY <2>2, <2>3 DEF Visited
<1>3. CASE n # 0
  <2>. DEFINE D(f) == [e \in S |-> IF nx[e] = hd THEN <<e>> ELSE <<e>> \o f[nx[e]]]
              From == CHOOSE f : f = D(f)
              at(e) == CHOOSE i \in 1..n : order[i] = e
              g == [e \in S |-> Rest(n, order, at(e))]
  <2>1. 1 \in 1..n /\ hd = order[1] /\ hd \in Entries BY <1>1, <1>3
  <2>2. hd # Nil BY <2>1, LruAssumption
  <2>3. Visited(hd, nx, S) = From[hd] BY <2>2 DEF Visited
  <2>4. \A i \in 1..n : at(order[i]) = i BY <1>1
  <2>. HIDE DEF at
  <2>5. \A i \in 1..n : g[order[i]] = Rest(n, order, i) BY <2>4
  <2>6. \A i \in 1..n : nx[order[i]] = hd <=> i = n
    <3>1. ASSUME NEW i \in 1..n PROVE nx[order[i]] = hd <=> i = n
      <4>. DEFINE s == IF i = n THEN 1 ELSE i + 1
      <4>1. s \in 1..n /\ nx[order[i]] = order[s] BY <1>1
      <4>2. order[s] = order[1] <=> s = 1 BY <1>1, <2>1, <4>1
      <4>3. s = 1 <=> i = n OBVIOUS
      <4>. HIDE DEF s
      <4>4. QED BY <2>1, <4>1, <4>2, <4>3
    <3>2. QED BY <3>1
  <2>7. \A i \in 1..n : i # n => i + 1 \in 1..n /\ nx[order[i]] = order[i + 1] BY <1>1
  <2>8. \A i \in 1..n : g[order[i]] = D(g)[order[i]]
    <3>1. ASSUME NEW i \in 1..n PROVE g[order[i]] = D(g)[order[i]]
      <4>1. D(g)[order[i]] = IF i = n THEN <<order[i]>> ELSE <<order[i]>> \o g[nx[order[i]]]
        BY <2>6
      <4>. HIDE DEF g, D
      <4>2. CASE i = n
        <5>1. Rest(n, order, i) = <<order[i]>> BY <1>1, <4>2, RestLast
        <5>2. QED BY <2>5, <4>1, <4>2, <5>1
      <4>3. CASE i # n
        <5>1. Rest(n, order, i) = <<order[i]>> \o Rest(n, order, i + 1) BY <1>1, <4>3, RestNext
        <5>2. g[nx[order[i]]] = Rest(n, order, i + 1) BY <2>5, <2>7, <4>3
        <5>3. QED BY <2>5, <4>1, <4>3, <5>1, <5>2
      <4>4. QED BY <4>2, <4>3
    <3>2. QED BY <3>1
  <2>9. g = D(g)
    <3>1. \A e \in S : g[e] = D(g)[e]
      <4>. HIDE DEF g, D
      <4>1. QED BY <2>8
    <3>2. g = [e \in S |-> g[e]] /\ D(g) = [e \in S |-> D(g)[e]] OBVIOUS
    <3>. HIDE DEF g, D
    <3>3. QED BY <3>1, <3>2
  <2>10. From = D(From)
    <3>. HIDE DEF D
    <3>1. QED BY <2>9
  <2>. HIDE DEF From
  <2>11. ASSUME NEW i \in 1..n
         PROVE  From[order[i]] = IF i = n THEN <<order[i]>> ELSE <<order[i]>> \o From[order[i + 1]]
    <3>1. From[order[i]] = D(From)[order[i]] BY <2>10
    <3>2. D(From)[order[i]] = IF i = n THEN <<order[i]>> ELSE <<order[i]>> \o From[nx[order[i]]]
      BY <2>6
    <3>. HIDE DEF D
    <3>3. QED BY <2>7, <3>1, <3>2
  <2>. DEFINE T == {d \in 0..(n - 1) : From[order[n - d]] # Rest(n, order, n - d)}
  <2>12. T = {}
    <3>1. SUFFICES ASSUME T # {} PROVE FALSE OBVIOUS
    <3>2. T \subseteq Nat
      <4>1. T \subseteq 0..(n - 1) /\ 0..(n - 1) \subseteq Nat OBVIOUS
      <4>2. QED BY <4>1
    <3>3. \E d \in T : \A y \in T : d <= y
      <4>. HIDE DEF T
      <4>1. QED BY <3>1, <3>2, Least
    <3>4. PICK d \in T : \A y \in T : d <= y BY <3>3
    <3>5. d \in 0..(n - 1) /\ From[order[n - d]] # Rest(n, order, n - d) OBVIOUS
    <3>. DEFINE i == n - d
    <3>6. i \in 1..n BY <3>5
    <3>7. CASE i = n
      <4>1. Rest(n, order, i) = <<order[i]>>
        <5>. HIDE DEF i
        <5>1. QED BY <1>1, <3>6, <3>7, RestLast
      <4>2. From[order[i]] = <<order[i]>> BY <2>11, <3>6, <3>7
      <4>3. QED BY <3>5, <4>1, <4>2
    <3>8. CASE i # n
      <4>1. Rest(n, order, i) = <<order[i]>> \o Rest(n, order, i + 1)
        <5>. HIDE DEF i
        <5>1. QED BY <1>1, <3>6, <3>8, RestNext
      <4>2. From[order[i]] = <<order[i]>> \o From[order[i + 1]] BY <2>11, <3>6, <3>8
      <4>3. d - 1 \in 0..(n - 1) /\ ~(d <= d - 1) /\ n - (d - 1) = i + 1 BY <3>5, <3>8
      <4>4. d - 1 \notin T BY <3>4, <4>3
      <4>5. From[order[i + 1]] = Rest(n, order, i + 1) BY <4>3, <4>4
      <4>6. QED BY <3>5, <4>1, <4>2, <4>5
    <3>9. QED BY <3>7, <3>8
  <2>13. From[order[1]] = Rest(n, order, 1)
    <3>1. n - 1 \in 0..(n - 1) /\ n - (n - 1) = 1 BY <1>3
    <3>2. n - 1 \notin T BY <2>12
    <3>3. QED BY <3>1, <3>2
  <2>14. Rest(n, order, 1) = order BY <1>1, RestAll
  <2>15. QED BY <2>1, <2>3, <2>13, <2>14
<1>4. QED BY <1>2, <1>3

-----------------------------------------------------------------------------
(* The entries as the pairs of LruCache *)

Pair == Keys \X Values

\* The keys and values of the entries of order.
PairList(n, order, ky, vl) == [i \in 1..n |-> <<ky[order[i]], vl[order[i]]>>]

\* The sizes of the n pairs of s sum up to total.
Sized(n, s, total) == \E sums : Sums(n, [i \in 1..n |-> EntrySize[s[i]]], sums) /\ sums[n] = total

\* The entries of S have keys, values and sizes.
Filled(S, ky, vl, size) ==
  \A e \in S : ky[e] \in Keys /\ vl[e] \in Values /\ size[e] = EntrySize[ky[e], vl[e]]

\* What ForEach visits when the ring goes through order.
LEMMA PairsOfRing ==
  ASSUME NEW hd, NEW pv, NEW nx, NEW S, NEW size, NEW total, NEW ky, NEW vl,
         NEW n \in Nat, NEW order, RingIn(n, order, hd, pv, nx, S, size, total),
         Filled(S, ky, vl, size), NEW s, s = PairList(n, order, ky, vl)
  PROVE  /\ Visited(hd, nx, S) = order /\ DOMAIN order = 1..n
         /\ s \in [1..n -> Pair]
         /\ Sized(n, s, total)
<1>1. PICK sums :
           /\ Links(hd, pv, nx, n, order)
           /\ S = {order[i] : i \in 1..n}
           /\ Sums(n, [i \in 1..n |-> size[order[i]]], sums)
           /\ sums[n] = total
  BY DEF RingIn
<1>2. Visited(hd, nx, S) = order
  <2>1. Links(hd, pv, nx, n, order) /\ S = {order[i] : i \in 1..n} BY <1>1
  <2>2. QED BY <2>1, Visits
<1>3. DOMAIN order = 1..n BY <1>1 DEF Links
<1>4. \A i \in 1..n : order[i] \in S BY <1>1
<1>5. s \in [1..n -> Pair] BY <1>4 DEF PairList, Pair, Filled
<1>6. \A i \in 1..n : size[order[i]] = EntrySize[s[i]] BY <1>4 DEF PairList, Filled
<1>7. [i \in 1..n |-> size[order[i]]] = [i \in 1..n |-> EntrySize[s[i]]] BY <1>6
<1>8. Sized(n, s, total) BY <1>1, <1>7 DEF Sized
<1>9. QED BY <1>2, <1>3, <1>5, <1>8

\* The pairs, now and after a step.
LEMMA PairsNow ==
  ASSUME IInv, NEW n \in Nat, NEW order, InOrder(n, order)
  PROVE  /\ Pairs = PairList(n, order, key, value)
         /\ Pairs \in [1..n -> Pair]
         /\ Sized(n, Pairs, curSize)
<1>1. Filled(Present, key, value, Sizes) BY PresentEntry DEF Filled
<1>. DEFINE s == PairList(n, order, key, value)
<1>2. /\ Visited(head, next, Present) = order /\ DOMAIN order = 1..n
      /\ s \in [1..n -> Pair]
      /\ Sized(n, s, curSize)
  <2>1. RingIn(n, order, head, prev, next, Present, Sizes, curSize) BY DEF InOrder
  <2>. HIDE DEF s
  <2>2. s = PairList(n, order, key, value) BY DEF s
  <2>3. QED BY <1>1, <2>1, <2>2, PairsOfRing
<1>3. Pairs = s BY <1>2 DEF Pairs, Walk, PairList
<1>. HIDE DEF s
<1>4. QED BY <1>2, <1>3 DEF s

\* The same, of the state after a step.
LEMMA PairsNext ==
  ASSUME IInv', NEW n \in Nat, NEW order, InOrder(n, order)'
  PROVE  /\ Pairs' = PairList(n, order, key', value')
         /\ Pairs' \in [1..n -> Pair]
         /\ Sized(n, Pairs', curSize')
<1>1. Filled(Present', key', value', Sizes')
  <2>. SUFFICES ASSUME NEW e \in Present'
                PROVE  key'[e] \in Keys /\ value'[e] \in Values /\ Sizes'[e] = EntrySize[key'[e], value'[e]]
    BY DEF Filled
  <2>1. PICK k \in Keys : lookup'[k] = e /\ e # Nil BY DEF Present
  <2>2. key'[e] = k /\ value'[e] \in Values BY <2>1 DEF IInv, KeysFindEntries
  <2>3. e \in Entries BY <2>1 DEF IInv, RingType
  <2>4. QED BY <2>1, <2>2, <2>3 DEF Sizes
<1>. DEFINE s == PairList(n, order, key', value')
<1>2. /\ Visited(head', next', Present') = order /\ DOMAIN order = 1..n
      /\ s \in [1..n -> Pair]
      /\ Sized(n, s, curSize')
  <2>1. RingIn(n, order, head', prev', next', Present', Sizes', curSize') BY DEF InOrder
  <2>. HIDE DEF s
  <2>2. s = PairList(n, order, key', value') BY DEF s
  <2>3. QED BY <1>1, <2>1, <2>2, PairsOfRing
<1>3. Pairs' = s BY <1>2 DEF Pairs, Walk, PairList
<1>. HIDE DEF s
<1>4. QED BY <1>2, <1>3 DEF s

\* Pairs that fit together are all kept, and SizeOf is their size.
LEMMA AllKept ==
  ASSUME NEW n \in Nat, NEW s \in [1..n -> Pair], NEW total, Sized(n, s, total)
  PROVE  /\ Len(s) = n /\ s \in Seq(Pair)
         /\ SizeOf(s, EntrySize, n) = total
         /\ ~TooLarge(total) => Trimmed(s, EntrySize, MaxSize) = s
<1>1. Len(s) = n /\ s \in Seq(Pair) OBVIOUS
<1>2. PICK sums : Sums(n, [i \in 1..n |-> EntrySize[s[i]]], sums) /\ sums[n] = total BY DEF Sized
<1>3. SizeOf(s, EntrySize, n) = total
  <2>1. \A i \in 0..n : SizeOf(s, EntrySize, i) = sums[i] BY <1>1, <1>2, SizeOfSums
  <2>2. QED BY <1>2, <2>1
<1>4. ASSUME ~TooLarge(total) PROVE Trimmed(s, EntrySize, MaxSize) = s
  <2>1. ~(MaxSize # 0 /\ sums[n] > MaxSize) /\ MaxSize \in Nat BY <1>2, <1>4, LruAssumption DEF TooLarge
  <2>2. Fitting(s, EntrySize, MaxSize) = n BY <1>1, <1>2, <2>1, AllFit
  <2>3. SubSeq(s, 1, n) = s BY <1>1
  <2>4. QED BY <2>2, <2>3 DEF Trimmed
<1>5. QED BY <1>1, <1>3, <1>4

\* The pairs change as the order does.
LEMMA PairListWithout ==
  ASSUME NEW n, NEW order, NEW ky, NEW vl, NEW j, NEW m, Shorter(m, n, j),
         NEW s, s = PairList(n, order, ky, vl),
         NEW o, o = Without(n, order, j)
  PROVE  PairList(m, o, ky, vl) = Without(n, s, j)
<1>. USE DEF Shorter
<1>1. \A i \in 1..m : i \in 1..n /\ i + 1 \in 1..n OBVIOUS
<1>2. \A i \in 1..m : PairList(m, o, ky, vl)[i] = Without(n, s, j)[i]
  BY <1>1 DEF PairList, Without
<1>3. /\ PairList(m, o, ky, vl) = [i \in 1..m |-> PairList(m, o, ky, vl)[i]]
      /\ Without(n, s, j) = [i \in 1..m |-> Without(n, s, j)[i]]
  BY DEF PairList, Without
<1>4. QED BY <1>2, <1>3

\* An entry in front is a pair in front.
LEMMA PairListWith ==
  ASSUME NEW n, NEW order, NEW ky, NEW vl, NEW e, NEW m, Longer(m, n),
         NEW s, s = PairList(n, order, ky, vl), NEW y, y = <<ky[e], vl[e]>>,
         NEW o, o = With(n, order, e)
  PROVE  PairList(m, o, ky, vl) = With(n, s, y)
<1>. USE DEF Longer
<1>1. \A i \in 1..m : i # 1 => i - 1 \in 1..n OBVIOUS
<1>2. \A i \in 1..m : PairList(m, o, ky, vl)[i] = With(n, s, y)[i] BY <1>1 DEF PairList, With
<1>3. /\ PairList(m, o, ky, vl) = [i \in 1..m |-> PairList(m, o, ky, vl)[i]]
      /\ With(n, s, y) = [i \in 1..m |-> With(n, s, y)[i]]
  BY DEF PairList, With
<1>4. QED BY <1>2, <1>3

\* Entries that keep their keys and values make the same pairs.
LEMMA SamePairs ==
  ASSUME NEW n \in Nat, NEW order, NEW ky, NEW vl, NEW ky2, NEW vl2,
         \A i \in 1..n : ky2[order[i]] = ky[order[i]] /\ vl2[order[i]] = vl[order[i]]
  PROVE  PairList(n, order, ky2, vl2) = PairList(n, order, ky, vl)
BY DEF PairList

-----------------------------------------------------------------------------
(* What LruCache finds *)

\* LruCache reads the recency order as LruRing does.
LEMMA SameRecency ==
  /\ \A s, size, max : LRU!Trimmed(s, size, max) = Trimmed(s, size, max)
  /\ \A s, size, n : LRU!SizeOf(s, size, n) = SizeOf(s, size, n)
  /\ \A s : LRU!Oldest(s) = Oldest(s) /\ LRU!ButOldest(s) = ButOldest(s)
<1>1. ASSUME NEW s, NEW size, NEW n PROVE LRU!SizeOf(s, size, n) = SizeOf(s, size, n)
  BY DEF LRU!SizeOf, SizeOf
<1>2. ASSUME NEW s, NEW size, NEW max PROVE LRU!Trimmed(s, size, max) = Trimmed(s, size, max)
  BY Zenon DEF LRU!Trimmed, Trimmed, LRU!Fitting, Fitting, LRU!SizeOf, SizeOf
<1>3. ASSUME NEW s PROVE LRU!Oldest(s) = Oldest(s) /\ LRU!ButOldest(s) = ButOldest(s)
  BY DEF LRU!Oldest, Oldest, LRU!ButOldest, ButOldest
<1>4. QED BY <1>1, <1>2, <1>3

\* Where LruCache finds a key: nowhere, or at its place.
LEMMA NotFound ==
  ASSUME NEW n \in Nat, NEW s \in [1..n -> Pair], Kept = s, NEW k,
         \A i \in 1..n : s[i][1] # k
  PROVE  LRU!Position(k) = 0 /\ LRU!Found(k) = <<>> /\ LRU!Others(0) = s
<1>1. Len(s) = n OBVIOUS
<1>2. {i \in 1..Len(Kept) : Kept[i][1] = k} = {} BY <1>1
<1>3. LRU!Position(k) = 0 BY <1>2 DEF LRU!Position
<1>4. LRU!Found(k) = <<>> BY <1>3 DEF LRU!Found
<1>5. LRU!Others(0) = s BY DEF LRU!Others
<1>6. QED BY <1>3, <1>4, <1>5

OnlyAt(n, s, k, j) == \A i \in 1..n : s[i][1] = k <=> i = j

\* At its place, and there only.
LEMMA FoundAt ==
  ASSUME NEW n \in Nat, NEW s \in [1..n -> Pair], Kept = s, NEW k,
         NEW j \in 1..n, OnlyAt(n, s, k, j)
  PROVE  LRU!Position(k) = j /\ LRU!Found(k) = <<s[j][2]>> /\ LRU!Others(j) = Without(n, s, j)
<1>1. Len(s) = n OBVIOUS
<1>2. {i \in 1..Len(Kept) : Kept[i][1] = k} = {j} BY <1>1 DEF OnlyAt
<1>3. LRU!Position(k) = j BY <1>2 DEF LRU!Position
<1>4. LRU!Found(k) = <<s[j][2]>> BY <1>3 DEF LRU!Found
<1>5. LRU!Others(j) = Without(n, s, j)
  <2>1. LRU!Others(j) = SubSeq(s, 1, j - 1) \o SubSeq(s, j + 1, n) BY <1>1 DEF LRU!Others
  <2>2. /\ SubSeq(s, 1, j - 1) \o SubSeq(s, j + 1, n) = Without(n, s, j)
        /\ Without(n, s, j) \in [1..(n - 1) -> Pair]
    <3>1. n \in Nat /\ s \in [1..n -> Pair] /\ j \in 1..n OBVIOUS
    <3>2. QED BY ONLY <3>1, AllBut
  <2>3. QED BY <2>1, <2>2
<1>6. QED BY <1>3, <1>4, <1>5

\* Between calls nothing is trimmed.
LEMMA KeptNow ==
  ASSUME IInv, ~evicting, NEW n \in Nat, NEW order, InOrder(n, order)
  PROVE  Kept = Pairs /\ Len(Pairs) = n /\ SizeOf(Pairs, EntrySize, n) = curSize
<1>1. Pairs \in [1..n -> Pair] /\ Sized(n, Pairs, curSize) BY PairsNow
<1>2. ~TooLarge(curSize) BY DEF IInv
<1>3. PICK s : s = Pairs OBVIOUS
<1>4. /\ Len(s) = n /\ SizeOf(s, EntrySize, n) = curSize
      /\ Trimmed(s, EntrySize, MaxSize) = s
  BY <1>1, <1>2, <1>3, AllKept
<1>5. QED BY <1>3, <1>4 DEF Kept

\* The same, of the state after a step.
LEMMA KeptNext ==
  ASSUME IInv', ~evicting', NEW n \in Nat, NEW order, InOrder(n, order)'
  PROVE  Kept' = Pairs'
<1>1. Pairs' \in [1..n -> Pair] /\ Sized(n, Pairs', curSize') BY PairsNext
<1>2. ~TooLarge(curSize') BY DEF IInv
<1>3. PICK s : s = Pairs' OBVIOUS
<1>4. Trimmed(s, EntrySize, MaxSize) = s BY <1>1, <1>2, <1>3, AllKept
<1>5. QED BY <1>3, <1>4 DEF Kept

\* The keys of the pairs are those of the entries, each at its own place.
LEMMA KeyPlaces ==
  ASSUME IInv, NEW n \in Nat, NEW order, InOrder(n, order), NEW s, s = Pairs
  PROVE  /\ \A i \in 1..n : /\ s[i] = <<key[order[i]], value[order[i]]>>
                            /\ key[order[i]] \in Keys
                            /\ lookup[key[order[i]]] = order[i] /\ order[i] # Nil
         /\ \A i, j \in 1..n : order[i] = order[j] => i = j
<1>1. Present = {order[i] : i \in 1..n} /\ Links(head, prev, next, n, order) BY DEF InOrder, RingIn
<1>2. \A i \in 1..n : order[i] \in Present BY <1>1
<1>3. \A i \in 1..n : key[order[i]] \in Keys /\ lookup[key[order[i]]] = order[i] /\ order[i] # Nil
  BY <1>2, PresentEntry
<1>4. \A i \in 1..n : s[i] = <<key[order[i]], value[order[i]]>>
  <2>1. s = PairList(n, order, key, value) BY PairsNow
  <2>2. QED BY <2>1 DEF PairList
<1>5. \A i, j \in 1..n : order[i] = order[j] => i = j BY <1>1 DEF Links
<1>6. QED BY <1>3, <1>4, <1>5

\* Between calls, LruCache misses the keys that the map misses.
LEMMA Misses ==
  ASSUME IInv, ~evicting, NEW k \in Keys, lookup[k] = Nil,
         NEW n \in Nat, NEW order, InOrder(n, order), NEW s, s = Pairs
  PROVE  /\ Kept = s /\ s \in [1..n -> Pair]
         /\ LRU!Position(k) = 0 /\ LRU!Found(k) = <<>> /\ LRU!Others(0) = s
<1>1. Kept = s /\ s \in [1..n -> Pair] BY KeptNow, PairsNow
<1>2. \A i \in 1..n : s[i][1] = key[order[i]] /\ key[order[i]] # k BY KeyPlaces
<1>3. \A i \in 1..n : s[i][1] # k BY <1>2
<1>4. QED BY <1>1, <1>3, NotFound

\* The key k is found: its entry e has the place j of the n in order.
Hit(k, e, n, order, j) ==
  /\ n \in Nat /\ InOrder(n, order)
  /\ j \in 1..n /\ order[j] = e
  /\ e \in Present /\ lookup[k] = e

\* A key that the map finds has an entry with a place.
LEMMA HitPlace ==
  ASSUME IInv, NEW k \in Keys, lookup[k] # Nil
  PROVE  \E e, n, order, j : Hit(k, e, n, order, j)
<1>1. PICK e \in Present : e = lookup[k] BY DEF Present
<1>2. \E n \in Nat : \E order : InOrder(n, order) /\ \E j \in 1..n : e = order[j] BY PlaceInRing
<1>3. QED BY <1>1, <1>2 DEF Hit

\* LruCache finds the others, at the places of their entries.
LEMMA Finds ==
  ASSUME IInv, ~evicting, NEW k \in Keys, NEW e, NEW n, NEW order, NEW j,
         Hit(k, e, n, order, j), NEW s, s = Pairs
  PROVE  /\ Kept = s /\ s \in [1..n -> Pair] /\ s[j] = <<k, value[e]>>
         /\ LRU!Position(k) = j /\ LRU!Found(k) = <<value[e]>> /\ LRU!Others(j) = Without(n, s, j)
<1>1. /\ n \in Nat /\ InOrder(n, order)
      /\ j \in 1..n /\ order[j] = e
      /\ e \in Present /\ lookup[k] = e
  BY DEF Hit
<1>2. Kept = s /\ s \in [1..n -> Pair] BY <1>1, KeptNow, PairsNow
<1>3. \A i \in 1..n : s[i][1] = key[order[i]] /\ (key[order[i]] = k => order[i] = e)
  <2>1. \A i \in 1..n : /\ s[i] = <<key[order[i]], value[order[i]]>>
                        /\ lookup[key[order[i]]] = order[i]
    BY <1>1, KeyPlaces
  <2>2. \A i \in 1..n : s[i][1] = key[order[i]] BY <2>1
  <2>3. \A i \in 1..n : key[order[i]] = k => order[i] = e BY <1>1, <2>1
  <2>4. QED BY <2>2, <2>3
<1>4. \A i \in 1..n : order[i] = e => i = j BY <1>1, KeyPlaces
<1>5. key[e] = k
  <2>1. e # Nil BY <1>1, PresentEntry
  <2>2. QED BY <1>1, <2>1 DEF IInv, KeysFindEntries
<1>6. s[j] = <<key[order[j]], value[order[j]]>> BY <1>1, KeyPlaces
<1>7. s[j] = <<k, value[e]>> BY <1>1, <1>5, <1>6
<1>8. OnlyAt(n, s, k, j)
  <2>1. ASSUME NEW i \in 1..n, s[i][1] = k PROVE i = j BY <1>3, <1>4, <2>1
  <2>2. s[j][1] = k BY <1>7
  <2>3. QED BY <2>1, <2>2 DEF OnlyAt
<1>9. LRU!Position(k) = j /\ LRU!Found(k) = <<s[j][2]>> /\ LRU!Others(j) = Without(n, s, j)
  BY <1>1, <1>2, <1>8, FoundAt
<1>10. QED BY <1>2, <1>7, <1>9

\* The entry e at the place j is taken out: the pairs of the others stay.
LEMMA OtherPairs ==
  ASSUME IInv, NEW n \in Nat, NEW order, InOrder(n, order), NEW j \in 1..n, NEW e, e = order[j],
         \A x \in Present \ {e} : key'[x] = key[x] /\ value'[x] = value[x],
         NEW s, s = Pairs, NEW m, m = n - 1, NEW o, o = Without(n, order, j)
  PROVE  PairList(m, o, key', value') = Without(n, s, j)
<1>1. Present = {order[i] : i \in 1..n} /\ Links(head, prev, next, n, order)
  BY DEF InOrder, RingIn
<1>2. \A i \in 1..n : i # j => order[i] \in Present \ {e} BY <1>1 DEF Links
<1>3. \A i \in 1..m : o[i] = order[IF i < j THEN i ELSE i + 1] BY DEF Without
<1>4. \A i \in 1..m : (IF i < j THEN i ELSE i + 1) \in 1..n \ {j} OBVIOUS
<1>5. \A i \in 1..m : o[i] \in Present \ {e} BY <1>2, <1>3, <1>4
<1>6. PairList(m, o, key', value') = PairList(m, o, key, value)
  <2>1. m \in Nat OBVIOUS
  <2>2. \A i \in 1..m : key'[o[i]] = key[o[i]] /\ value'[o[i]] = value[o[i]] BY <1>5
  <2>3. QED BY ONLY <2>1, <2>2, SamePairs
<1>7. s = PairList(n, order, key, value) BY PairsNow
<1>8. PairList(m, o, key, value) = Without(n, s, j)
  <2>1. Shorter(m, n, j) /\ o = Without(n, order, j) BY DEF Shorter
  <2>2. QED BY ONLY <1>7, <2>1, PairListWithout
<1>9. QED BY <1>6, <1>8

\* An entry moves to the front, perhaps with another value.
LEMMA PairsMoved ==
  ASSUME IInv, NEW n, NEW order, InOrder(n, order), NEW j, NEW m, Shorter(m, n, j),
         NEW e, e = order[j], IInv', InOrder(n, With(m, Without(n, order, j), e))',
         \A x \in Present \ {e} : key'[x] = key[x] /\ value'[x] = value[x],
         NEW s, s = Pairs, NEW y, y = <<key'[e], value'[e]>>
  PROVE  y \in Pair /\ Pairs' = <<y>> \o Without(n, s, j)
<1>1. n \in Nat /\ j \in 1..n /\ m \in Nat /\ m = n - 1 BY DEF Shorter
<1>2. PICK o : o = Without(n, order, j) OBVIOUS
<1>3. PICK front : front = With(m, o, e) OBVIOUS
<1>4. PICK t : t = PairList(m, o, key', value') OBVIOUS
<1>5. t = Without(n, s, j)
  <2>1. PairList(m, o, key', value') = Without(n, s, j) BY <1>1, <1>2, OtherPairs
  <2>2. QED BY <1>4, <2>1
<1>6. Pairs' = PairList(n, front, key', value') /\ Pairs' \in [1..n -> Pair]
  <2>1. InOrder(n, front)' BY <1>2, <1>3
  <2>2. QED BY <1>1, <2>1, PairsNext
<1>7. PairList(n, front, key', value') = With(m, t, y)
  <2>1. Longer(n, m) /\ y = <<key'[e], value'[e]>> BY <1>1 DEF Longer
  <2>2. QED BY ONLY <1>1, <1>3, <1>4, <2>1, PairListWith
<1>8. t \in [1..m -> Pair]
  <2>1. s \in [1..n -> Pair] BY <1>1, PairsNow
  <2>2. Without(n, s, j) \in [1..(n - 1) -> Pair] BY <1>1, <2>1, AllBut
  <2>3. QED BY <1>1, <1>5, <2>2
<1>9. y \in Pair
  <2>1. 1 \in 1..n /\ n = m + 1 BY <1>1
  <2>2. Pairs'[1] \in Pair BY <1>6, <2>1
  <2>3. With(m, t, y)[1] = y BY <2>1 DEF With
  <2>4. QED BY <1>6, <1>7, <2>2, <2>3
<1>10. <<y>> \o t = With(m, t, y) BY ONLY <1>1, <1>8, <1>9, InFront
<1>11. QED BY <1>5, <1>6, <1>7, <1>9, <1>10

\* An entry is deleted.
LEMMA PairsWithout ==
  ASSUME IInv, NEW n \in Nat, NEW order, InOrder(n, order), NEW j \in 1..n, NEW e, e = order[j],
         IInv', InOrder(n - 1, Without(n, order, j))',
         \A x \in Present \ {e} : key'[x] = key[x] /\ value'[x] = value[x],
         NEW s, s = Pairs
  PROVE  Pairs' = Without(n, s, j)
<1>1. PICK m \in Nat : m = n - 1 OBVIOUS
<1>2. PICK o : o = Without(n, order, j) OBVIOUS
<1>3. InOrder(m, o)' BY <1>1, <1>2
<1>4. Pairs' = PairList(m, o, key', value') BY <1>3, PairsNext
<1>5. PairList(m, o, key', value') = Without(n, s, j) BY <1>1, <1>2, OtherPairs
<1>6. QED BY <1>4, <1>5

-----------------------------------------------------------------------------
(* The calls *)

\* Set of a key that is present.
LEMMA SetExistingSim ==
  ASSUME IInv, NEW k \in Keys, NEW v \in Values, SetExisting(k, v)
  PROVE  LRU!Set(k, v)
<1>1. lookup[k] # Nil /\ ~evicting /\ ret' = <<>> BY DEF SetExisting
<1>2. PICK e, n, order, j : Hit(k, e, n, order, j) BY <1>1, HitPlace
<1>3. /\ n \in Nat /\ InOrder(n, order) /\ j \in 1..n /\ e = order[j]
      /\ e \in Present /\ e = lookup[k]
  BY <1>2 DEF Hit
<1>4. InOrder(n, With(n - 1, Without(n, order, j), e))' /\ IInv' BY <1>3, SetExistingIInv
<1>5. PICK s : s = Pairs OBVIOUS
<1>6. LRU!Position(k) = j /\ LRU!Others(j) = Without(n, s, j)
  BY <1>1, <1>2, <1>5, Finds
<1>7. /\ key'[e] = k /\ value'[e] = v
      /\ \A x \in Present \ {e} : key'[x] = key[x] /\ value'[x] = value[x]
  <2>1. key' = key /\ value' = [value EXCEPT ![e] = v] BY <1>3 DEF SetExisting
  <2>2. key[e] = k BY <1>1, <1>3 DEF IInv, KeysFindEntries
  <2>3. e \in Entries BY <1>3, PresentEntry
  <2>4. QED BY <2>1, <2>2, <2>3 DEF IInv, RingType
<1>8. Pairs' = << <<k, v>> >> \o Without(n, s, j)
  <2>1. PICK y : y = <<key'[e], value'[e]>> OBVIOUS
  <2>2. PICK m : Shorter(m, n, j) /\ m = n - 1 BY <1>3 DEF Shorter
  <2>3. Shorter(m, n, j) /\ InOrder(n, With(m, Without(n, order, j), e))' BY <1>4, <2>2
  <2>4. /\ IInv /\ IInv' /\ InOrder(n, order) /\ e = order[j]
        /\ \A x \in Present \ {e} : key'[x] = key[x] /\ value'[x] = value[x]
    BY <1>3, <1>4, <1>7
  <2>5. y \in Pair /\ Pairs' = <<y>> \o Without(n, s, j)
    BY ONLY <1>5, <2>1, <2>3, <2>4, PairsMoved
  <2>6. QED BY <1>7, <2>1, <2>5
<1>9. Kept' = Trimmed(<< <<k, v>> >> \o LRU!Others(LRU!Position(k)), EntrySize, MaxSize)
  BY <1>6, <1>8 DEF Kept
<1>10. QED BY <1>1, <1>9, SameRecency DEF LRU!Set

\* Set of a new key.
LEMMA SetNewSim ==
  ASSUME IInv, NEW k \in Keys, NEW v \in Values, SetNew(k, v)
  PROVE  LRU!Set(k, v)
<1>1. lookup[k] = Nil /\ ~evicting /\ ret' = <<>> BY DEF SetNew
<1>2. PICK n \in Nat : \E order : InOrder(n, order) BY DEF IInv, Ring, InOrder
<1>3. PICK order : InOrder(n, order) BY <1>2
<1>4. PICK e \in Entries \ Present :
           /\ InOrder(n + 1, With(n, order, e))'
           /\ key'[e] = k /\ value'[e] = v
           /\ \A x \in Present : key'[x] = key[x] /\ value'[x] = value[x]
  BY <1>3, SetNewIInv
<1>5. IInv' BY <1>3, SetNewIInv
<1>6. PICK s : s = Pairs OBVIOUS
<1>7. s \in [1..n -> Pair] /\ s = PairList(n, order, key, value) BY <1>3, <1>6, PairsNow
<1>8. LRU!Position(k) = 0 /\ LRU!Others(0) = s BY <1>1, <1>3, <1>6, Misses
<1>9. PICK m \in Nat : m = n + 1 /\ Longer(m, n) BY DEF Longer
<1>10. Pairs' = PairList(m, With(n, order, e), key', value') /\ Pairs' \in [1..m -> Pair]
  BY <1>4, <1>5, <1>9, PairsNext
<1>11. PairList(m, With(n, order, e), key', value')
       = With(n, PairList(n, order, key', value'), <<k, v>>)
  <2>1. PICK o : o = With(n, order, e) OBVIOUS
  <2>2. PICK t : t = PairList(n, order, key', value') OBVIOUS
  <2>3. <<k, v>> = <<key'[e], value'[e]>> BY <1>4
  <2>4. PairList(m, o, key', value') = With(n, t, <<k, v>>)
    BY ONLY <1>9, <2>1, <2>2, <2>3, PairListWith
  <2>5. QED BY <2>1, <2>2, <2>4
<1>12. PairList(n, order, key', value') = s
  <2>1. Present = {order[i] : i \in 1..n} BY <1>3 DEF InOrder, RingIn
  <2>2. \A i \in 1..n : /\ key'[order[i]] = key[order[i]]
                        /\ value'[order[i]] = value[order[i]]
    BY <1>4, <2>1
  <2>3. QED BY <1>7, <2>2, SamePairs
<1>13. << <<k, v>> >> \o s = With(n, s, <<k, v>>)
  <2>1. PICK y : y = <<k, v>> OBVIOUS
  <2>2. y \in Pair /\ s \in [1..n -> Pair] /\ n \in Nat BY <1>7, <2>1 DEF Pair
  <2>3. <<y>> \o s = With(n, s, y) BY ONLY <2>2, InFront
  <2>4. QED BY <2>1, <2>3
<1>14. Kept' = Trimmed(<< <<k, v>> >> \o LRU!Others(LRU!Position(k)), EntrySize, MaxSize)
  BY <1>8, <1>10, <1>11, <1>12, <1>13 DEF Kept
<1>15. QED BY <1>1, <1>14, SameRecency DEF LRU!Set

\* What no call has touched is as it was.
LEMMA SameKept == ASSUME UNCHANGED ring PROVE Kept' = Kept
<1>1. /\ head' = head /\ next' = next /\ key' = key /\ value' = value /\ lookup' = lookup
  BY DEF ring
<1>2. Present' = Present BY <1>1 DEF Present
<1>3. Walk' = Walk BY <1>1, <1>2 DEF Walk
<1>4. Pairs' = Pairs BY <1>1, <1>3 DEF Pairs
<1>5. QED BY <1>4 DEF Kept

\* GetOk.
LEMMA GetOkSim ==
  ASSUME IInv, NEW k \in Keys, GetOk(k)
  PROVE  LRU!GetOk(k)
<1>1. ~evicting /\ key' = key /\ value' = value /\ ~evicting' BY DEF GetOk
<1>2. CASE lookup[k] = Nil
  <2>1. PICK n \in Nat : \E order : InOrder(n, order) BY DEF IInv, Ring, InOrder
  <2>2. PICK order : InOrder(n, order) BY <2>1
  <2>3. PICK s : s = Pairs OBVIOUS
  <2>4. LRU!Position(k) = 0 /\ LRU!Found(k) = <<>> BY <1>1, <1>2, <2>2, <2>3, Misses
  <2>5. UNCHANGED ring /\ ret' = <<>> BY <1>2 DEF GetOk, ring
  <2>6. Kept' = Kept BY <2>5, SameKept
  <2>7. QED BY <2>4, <2>5, <2>6 DEF LRU!GetOk
<1>3. CASE lookup[k] # Nil
  <2>1. PICK e, n, order, j : Hit(k, e, n, order, j) BY <1>3, HitPlace
  <2>2. /\ n \in Nat /\ InOrder(n, order) /\ j \in 1..n /\ e = order[j]
        /\ e \in Present /\ e = lookup[k]
    BY <2>1 DEF Hit
  <2>3. InOrder(n, With(n - 1, Without(n, order, j), e))' /\ IInv'
    BY <2>2, GetOkIInv
  <2>4. PICK s : s = Pairs OBVIOUS
  <2>5. /\ Kept = s /\ s[j] = <<k, value[e]>>
        /\ LRU!Position(k) = j /\ LRU!Found(k) = <<value[e]>> /\ LRU!Others(j) = Without(n, s, j)
    BY <1>1, <2>1, <2>4, Finds
  <2>6. s[j] = <<key'[e], value'[e]>>
    <3>1. key[e] = k BY <1>3, <2>2 DEF IInv, KeysFindEntries
    <3>2. QED BY <1>1, <2>5, <3>1
  <2>7. Pairs' = <<s[j]>> \o Without(n, s, j)
    <3>1. PICK y : y = <<key'[e], value'[e]>> OBVIOUS
    <3>2. PICK m : Shorter(m, n, j) /\ m = n - 1 BY <2>2 DEF Shorter
    <3>3. Shorter(m, n, j) /\ InOrder(n, With(m, Without(n, order, j), e))' BY <2>3, <3>2
    <3>4. /\ IInv /\ IInv' /\ InOrder(n, order) /\ e = order[j]
          /\ \A x \in Present \ {e} : key'[x] = key[x] /\ value'[x] = value[x]
      BY <1>1, <2>2, <2>3
    <3>5. y \in Pair /\ Pairs' = <<y>> \o Without(n, s, j)
      BY ONLY <2>4, <3>1, <3>3, <3>4, PairsMoved
    <3>6. QED BY <2>6, <3>1, <3>5
  <2>8. Kept' = Pairs'
    <3>1. PICK o : o = With(n - 1, Without(n, order, j), e) OBVIOUS
    <3>2. InOrder(n, o)' BY <2>3, <3>1
    <3>3. QED BY <1>1, <2>2, <2>3, <3>2, KeptNext
  <2>9. ret' = <<value[e]>> BY <1>3, <2>2 DEF GetOk
  <2>10. LRU!Position(k) # 0 BY <2>2, <2>5
  <2>11. QED BY <2>5, <2>7, <2>8, <2>9, <2>10 DEF LRU!GetOk
<1>4. QED BY <1>2, <1>3

\* PeekOk.
LEMMA PeekOkSim ==
  ASSUME IInv, NEW k \in Keys, PeekOk(k)
  PROVE  LRU!PeekOk(k)
<1>1. ~evicting /\ UNCHANGED ring BY DEF PeekOk
<1>2. Kept' = Kept BY <1>1, SameKept
<1>3. ret' = LRU!Found(k)
  <2>1. CASE lookup[k] = Nil
    <3>1. PICK n \in Nat : \E order : InOrder(n, order) BY DEF IInv, Ring, InOrder
    <3>2. PICK order : InOrder(n, order) BY <3>1
    <3>3. PICK s : s = Pairs OBVIOUS
    <3>4. LRU!Found(k) = <<>> BY <1>1, <2>1, <3>2, <3>3, Misses
    <3>5. QED BY <2>1, <3>4 DEF PeekOk
  <2>2. CASE lookup[k] # Nil
    <3>1. PICK e, n, order, j : Hit(k, e, n, order, j) BY <2>2, HitPlace
    <3>2. PICK s : s = Pairs OBVIOUS
    <3>3. LRU!Found(k) = <<value[e]>> BY <1>1, <3>1, <3>2, Finds
    <3>4. QED BY <2>2, <3>1, <3>3 DEF PeekOk, Hit
  <2>3. QED BY <2>1, <2>2
<1>4. QED BY <1>2, <1>3 DEF LRU!PeekOk

\* deleteElement takes its pair out of the pairs.
LEMMA DeletedPairs ==
  ASSUME IInv, NEW e \in Present, deleteElement(e), IInv',
         NEW n \in Nat, NEW order, InOrder(n, order), NEW j \in 1..n, e = order[j],
         InOrder(n - 1, Without(n, order, j))', NEW s, s = Pairs
  PROVE  Pairs' = Without(n, s, j)
<1>1. \A x \in Present \ {e} : key'[x] = key[x] /\ value'[x] = value[x]
  <2>1. key' = [key EXCEPT ![e] = Nil] /\ value' = [value EXCEPT ![e] = Nil] BY DEF deleteElement
  <2>2. \A x \in Present : x \in Entries BY PresentEntry
  <2>3. QED BY <2>1, <2>2 DEF IInv, RingType
<1>2. QED BY <1>1, PairsWithout

\* After a call that is not Set, what is left is all kept.
LEMMA Deleted ==
  ASSUME IInv, NEW e \in Present, deleteElement(e), IInv', ~evicting',
         NEW n \in Nat, NEW order, InOrder(n, order), NEW j \in 1..n, e = order[j],
         InOrder(n - 1, Without(n, order, j))', NEW s, s = Pairs
  PROVE  Kept' = Without(n, s, j)
<1>1. Pairs' = Without(n, s, j) BY DeletedPairs
<1>2. PICK m \in Nat : m = n - 1 OBVIOUS
<1>3. PICK o : o = Without(n, order, j) OBVIOUS
<1>4. InOrder(m, o)' BY <1>2, <1>3
<1>5. Kept' = Pairs' BY <1>4, KeptNext
<1>6. QED BY <1>1, <1>5

\* Delete.
LEMMA DeleteSim ==
  ASSUME IInv, NEW k \in Keys, Delete(k)
  PROVE  LRU!Delete(k)
<1>1. ~evicting /\ ret' = <<>> /\ ~evicting' BY DEF Delete
<1>2. CASE lookup[k] = Nil
  <2>1. PICK n \in Nat : \E order : InOrder(n, order) BY DEF IInv, Ring, InOrder
  <2>2. PICK order : InOrder(n, order) BY <2>1
  <2>3. PICK s : s = Pairs OBVIOUS
  <2>4. Kept = s /\ LRU!Position(k) = 0 /\ LRU!Others(0) = s BY <1>1, <1>2, <2>2, <2>3, Misses
  <2>5. Kept' = Kept BY <1>2, SameKept DEF Delete
  <2>6. QED BY <1>1, <2>4, <2>5 DEF LRU!Delete
<1>3. CASE lookup[k] # Nil
  <2>1. PICK e, n, order, j : Hit(k, e, n, order, j) BY <1>3, HitPlace
  <2>2. /\ n \in Nat /\ InOrder(n, order) /\ j \in 1..n /\ e = order[j]
        /\ e \in Present /\ e = lookup[k]
    BY <2>1 DEF Hit
  <2>3. InOrder(n - 1, Without(n, order, j))' /\ IInv' BY <2>2, DeleteIInv
  <2>4. PICK s : s = Pairs OBVIOUS
  <2>5. LRU!Position(k) = j /\ LRU!Others(j) = Without(n, s, j)
    BY <1>1, <2>1, <2>4, Finds
  <2>6. deleteElement(e) BY <1>3, <2>2 DEF Delete
  <2>7. Kept' = Without(n, s, j) BY <1>1, <2>2, <2>3, <2>4, <2>6, Deleted
  <2>8. QED BY <1>1, <2>5, <2>7 DEF LRU!Delete
<1>4. QED BY <1>2, <1>3

\* Without the oldest.
LEMMA WithoutLast ==
  ASSUME NEW n \in Nat, n # 0, NEW s \in [1..n -> Pair]
  PROVE  Without(n, s, n) = SubSeq(s, 1, n - 1)
<1>. DEFINE w == Without(n, s, n)
            m == n - 1
<1>1. w = [i \in 1..m |-> s[i]] BY DEF Without
<1>2. m \in Nat /\ w \in [1..m -> Pair] BY <1>1
<1>3. w \in Seq(Pair) /\ Len(w) = m
  <2>. HIDE DEF w, m
  <2>1. QED BY <1>2
<1>4. Len(s) = n /\ s \in Seq(Pair) OBVIOUS
<1>5. /\ SubSeq(s, 1, m) \in Seq(Pair) /\ Len(SubSeq(s, 1, m)) = m
      /\ \A i \in 1..m : SubSeq(s, 1, m)[i] = s[i]
  BY <1>4
<1>6. \A i \in 1..Len(w) : w[i] = SubSeq(s, 1, m)[i] BY <1>1, <1>3, <1>5
<1>. HIDE DEF w
<1>7. w = SubSeq(s, 1, m) BY <1>3, <1>5, <1>6, SeqEqual
<1>8. QED BY <1>7 DEF w

\* DeleteOldest.
LEMMA DeleteOldestSim ==
  ASSUME IInv, DeleteOldest
  PROVE  LRU!DeleteOldest
<1>1. ~evicting /\ ~evicting' BY DEF DeleteOldest
<1>2. PICK n \in Nat : \E order : InOrder(n, order) BY DEF IInv, Ring, InOrder
<1>3. PICK order : InOrder(n, order) BY <1>2
<1>4. PICK s : s = Pairs OBVIOUS
<1>5. Kept = s /\ s \in [1..n -> Pair] /\ Len(s) = n BY <1>1, <1>3, <1>4, KeptNow, PairsNow
<1>6. head = Nil <=> n = 0
  <2>1. Links(head, prev, next, n, order) BY <1>3 DEF InOrder, RingIn
  <2>2. n # 0 => head = order[1] /\ order[1] \in Entries BY <2>1 DEF Links
  <2>3. n = 0 => head = Nil BY <2>1 DEF Links
  <2>4. QED BY <2>2, <2>3, LruAssumption
<1>7. CASE head = Nil
  <2>1. s = <<>> BY <1>5, <1>6, <1>7
  <2>2. ret' = <<>> /\ Kept' = Kept BY <1>7, SameKept DEF DeleteOldest
  <2>3. QED BY <1>5, <2>1, <2>2 DEF LRU!DeleteOldest
<1>8. CASE head # Nil
  <2>1. n \in 1..n /\ InOrder(n - 1, Without(n, order, n))' /\ IInv'
    BY <1>3, <1>8, DeleteOldestIInv
  <2>2. prev[head] = order[n] /\ prev[head] \in Present BY <1>3, <1>8, OldestIsLast
  <2>3. PICK e \in Present : e = prev[head] BY <2>2
  <2>4. deleteElement(e) /\ ret' = <<key[e], value[e]>> BY <1>8, <2>3 DEF DeleteOldest, deleteOldest
  <2>5. Kept' = Without(n, s, n) BY <1>1, <1>3, <1>4, <2>1, <2>2, <2>3, <2>4, Deleted
  <2>6. Without(n, s, n) = SubSeq(s, 1, n - 1) BY <1>5, <1>6, <1>8, WithoutLast
  <2>7. s[n] = <<key[e], value[e]>>
    <3>1. s[n] = <<key[order[n]], value[order[n]]>> BY <1>3, <1>4, <2>1, KeyPlaces
    <3>2. QED BY <2>2, <2>3, <3>1
  <2>8. s # <<>> BY <1>5, <1>6, <1>8
  <2>9. Oldest(s) = <<key[e], value[e]>> /\ ButOldest(s) = Without(n, s, n)
    BY <1>5, <2>6, <2>7 DEF Oldest, ButOldest
  <2>10. QED BY <1>5, <2>4, <2>5, <2>8, <2>9, SameRecency DEF LRU!DeleteOldest
<1>9. QED BY <1>7, <1>8

\* A round of the eviction loop is a step of nobody.
LEMMA EvictSim ==
  ASSUME IInv, Evict
  PROVE  Kept' = Kept /\ ret' = ret
<1>1. evicting /\ head # Nil /\ deleteOldest /\ ret' = ret BY DEF Evict
<1>2. PICK n \in Nat : \E order : InOrder(n, order) BY DEF IInv, Ring, InOrder
<1>3. PICK order : InOrder(n, order) BY <1>2
<1>4. n \in 1..n /\ InOrder(n - 1, Without(n, order, n))' /\ IInv' BY <1>3, EvictIInv
<1>5. prev[head] = order[n] /\ prev[head] \in Present BY <1>1, <1>3, OldestIsLast
<1>6. PICK e \in Present : e = prev[head] BY <1>5
<1>7. deleteElement(e) BY <1>1, <1>6 DEF deleteOldest
<1>8. PICK s : s = Pairs OBVIOUS
<1>9. s \in [1..n -> Pair] /\ Sized(n, s, curSize) BY <1>3, <1>8, PairsNow
<1>10. Len(s) = n /\ s \in Seq(Pair) BY <1>9
<1>11. PICK t : t = Pairs' OBVIOUS
<1>12. t = SubSeq(s, 1, n - 1)
  <2>1. t = Without(n, s, n) BY <1>3, <1>4, <1>5, <1>6, <1>7, <1>8, <1>11, DeletedPairs
  <2>2. QED BY <1>4, <1>9, <2>1, WithoutLast
<1>13. Len(t) = n - 1 /\ t \in Seq(Pair) /\ \A i \in 1..(n - 1) : t[i] = s[i] BY <1>4, <1>10, <1>12
<1>14. PICK sums : Sums(n, [i \in 1..n |-> EntrySize[s[i]]], sums) /\ sums[n] = curSize
  BY <1>9 DEF Sized
<1>15. TooLarge(curSize) BY <1>1 DEF IInv
<1>16. MaxSize # 0 /\ sums[n] > MaxSize /\ MaxSize \in Nat BY <1>14, <1>15, LruAssumption DEF TooLarge
<1>17. n # 0 BY <1>4
<1>18. PICK f : f = Fitting(s, EntrySize, MaxSize) OBVIOUS
<1>19. Fitting(t, EntrySize, MaxSize) = f /\ f \in 0..(n - 1)
  <2>1. /\ Sums(n, [i \in 1..n |-> EntrySize[s[i]]], sums)
        /\ Len(t) = n - 1 /\ \A i \in 1..(n - 1) : t[i] = s[i]
    BY <1>13, <1>14
  <2>2. /\ Fitting(t, EntrySize, MaxSize) = Fitting(s, EntrySize, MaxSize)
        /\ Fitting(s, EntrySize, MaxSize) \in 0..(n - 1)
    BY <1>10, <1>16, <1>17, <2>1, OldestDropped
  <2>3. QED BY <1>18, <2>2
<1>20. SubSeq(t, 1, f) = SubSeq(s, 1, f)
  <2>1. f \in Nat /\ f <= n - 1 /\ f <= n BY <1>19
  <2>2. SubSeq(t, 1, f) \in Seq(Pair) /\ Len(SubSeq(t, 1, f)) = f
        /\ \A i \in 1..f : SubSeq(t, 1, f)[i] = t[i]
    BY <1>13, <2>1
  <2>3. SubSeq(s, 1, f) \in Seq(Pair) /\ Len(SubSeq(s, 1, f)) = f
        /\ \A i \in 1..f : SubSeq(s, 1, f)[i] = s[i]
    BY <1>10, <2>1
  <2>4. \A i \in 1..f : SubSeq(t, 1, f)[i] = SubSeq(s, 1, f)[i] BY <1>13, <2>1, <2>2, <2>3
  <2>5. QED BY <2>2, <2>3, <2>4, SeqEqual
<1>21. Trimmed(t, EntrySize, MaxSize) = Trimmed(s, EntrySize, MaxSize)
  BY <1>18, <1>19, <1>20 DEF Trimmed
<1>22. QED BY <1>1, <1>8, <1>11, <1>21 DEF Kept

\* An empty ring has no pairs.
LEMMA EmptyPairs ==
  /\ head = Nil => Pairs = <<>>
  /\ head' = Nil => Pairs' = <<>>
<1>1. \A nx, S : Visited(Nil, nx, S) = <<>> BY DEF Visited
<1>2. head = Nil => Walk = <<>> BY <1>1 DEF Walk
<1>3. head' = Nil => Walk' = <<>> BY <1>1 DEF Walk
<1>4. QED BY <1>2, <1>3 DEF Pairs

\* The first state, and Clear.
LEMMA InitSim == ASSUME Init PROVE LRU!Init
<1>1. IInv /\ ~evicting /\ head = Nil /\ ret = <<>> BY EmptyIInv DEF Init
<1>2. PICK n \in Nat : \E order : InOrder(n, order) BY <1>1 DEF IInv, Ring, InOrder
<1>3. PICK order : InOrder(n, order) BY <1>2
<1>4. Kept = Pairs BY <1>1, <1>3, KeptNow
<1>5. QED BY <1>1, <1>4, EmptyPairs DEF LRU!Init

\* Clear leaves no pairs either.
LEMMA ClearSim == ASSUME IInv, IInv', Clear PROVE LRU!Clear
<1>1. ~evicting' /\ head' = Nil /\ ret' = <<>> BY DEF Clear
<1>2. PICK n \in Nat : \E order : InOrder(n, order)' BY DEF IInv, Ring, InOrder
<1>3. PICK order : InOrder(n, order)' BY <1>2
<1>4. Kept' = Pairs' BY <1>1, <1>3, KeptNext
<1>5. QED BY <1>1, <1>4, EmptyPairs DEF LRU!Clear

\* ForEach, Len and Size.
LEMMA ReadsSim ==
  ASSUME IInv
  PROVE  /\ ForEach => LRU!ForEach
         /\ LenAndSize => LRU!LenAndSize
<1>1. PICK n \in Nat : \E order : InOrder(n, order) BY DEF IInv, Ring, InOrder
<1>2. PICK order : InOrder(n, order) BY <1>1
<1>3. ASSUME ForEach PROVE LRU!ForEach
  <2>1. Kept = Pairs BY <1>2, <1>3, KeptNow DEF ForEach
  <2>2. Kept' = Kept BY <1>3, SameKept DEF ForEach
  <2>3. QED BY <1>3, <2>1, <2>2 DEF ForEach, LRU!ForEach
<1>4. ASSUME LenAndSize PROVE LRU!LenAndSize
  <2>1. Kept = Pairs /\ Len(Pairs) = n /\ SizeOf(Pairs, EntrySize, n) = curSize
    BY <1>2, <1>4, KeptNow DEF LenAndSize
  <2>2. Kept' = Kept BY <1>4, SameKept DEF LenAndSize
  <2>3. Cardinality(Present) = n
    <3>1. Present = {order[i] : i \in 1..n} /\ Links(head, prev, next, n, order)
      BY <1>2 DEF InOrder, RingIn
    <3>2. PICK S : S = {order[i] : i \in 1..n} OBVIOUS
    <3>3. order \in [1..n -> S] /\ \A i, j \in 1..n : order[i] = order[j] => i = j
      BY <3>1, <3>2 DEF Links
    <3>4. order \in Bijection(1..n, S)
      BY <3>2, <3>3 DEF Bijection, Injection, Surjection, IsInjective
    <3>5. ExistsBijection(1..n, S) BY <3>4 DEF ExistsBijection
    <3>6. Cardinality(S) = n BY <3>5, FS_CountingElements
    <3>7. QED BY <3>1, <3>2, <3>6
  <2>4. ret' = <<Len(Kept), LRU!SizeOf(Kept, EntrySize, Len(Kept))>>
    BY <1>4, <2>1, <2>3, SameRecency DEF LenAndSize
  <2>5. QED BY <2>2, <2>4 DEF LRU!LenAndSize
<1>5. QED BY <1>3, <1>4

\* Every call is the call of LruCache, and a round of the eviction loop is none.
LEMMA NextSim == ASSUME IInv, IInv', [Next]_vars PROVE [LRU!Next]_(LRU!vars)
<1>1. ASSUME NEW k \in Keys, NEW v \in Values, SetExisting(k, v) \/ SetNew(k, v) PROVE LRU!Next
  BY <1>1, SetExistingSim, SetNewSim DEF LRU!Next
<1>2. ASSUME NEW k \in Keys, GetOk(k) \/ PeekOk(k) \/ Delete(k) PROVE LRU!Next
  BY <1>2, GetOkSim, PeekOkSim, DeleteSim DEF LRU!Next
<1>3. CASE Evict BY <1>3, EvictSim DEF LRU!vars
<1>4. CASE DeleteOldest BY <1>4, DeleteOldestSim DEF LRU!Next
<1>5. CASE Clear BY <1>5, ClearSim DEF LRU!Next
<1>6. CASE ForEach BY <1>6, ReadsSim DEF LRU!Next
<1>7. CASE LenAndSize BY <1>7, ReadsSim DEF LRU!Next
<1>8. CASE UNCHANGED vars
  <2>1. UNCHANGED ring /\ ret' = ret BY <1>8 DEF vars, ring
  <2>2. QED BY <2>1, SameKept DEF LRU!vars
<1>9. QED BY <1>1, <1>2, <1>3, <1>4, <1>5, <1>6, <1>7, <1>8 DEF Next

\* The ring of pointers, the map and the incremental size implement the map with a recency
\* order, for any keys, values and sizes: every call returns what LruCache says, Set drops the
\* oldest entries and only as many as it must, and nobody sees the rounds of its loop.
THEOREM Implements == Spec => ImplementsLruCache
<1>1. Init => LRU!Init BY InitSim
<1>2. IInv /\ IInv' /\ [Next]_vars => [LRU!Next]_(LRU!vars) BY NextSim
<1>3. QED BY <1>1, <1>2, InvariantIInv, PTL DEF Spec, ImplementsLruCache, LRU!Spec

=============================================================================
