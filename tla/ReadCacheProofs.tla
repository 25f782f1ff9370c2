--------------------------- MODULE ReadCacheProofs --------------------------
(***************************************************************************)
(* Proofs about ReadCache, for any files, sizes and number of readers.     *)
(***************************************************************************)
EXTENDS ReadCache, FiniteSetTheorems, SequenceTheorems, TLAPS

-----------------------------------------------------------------------------
(* What the recency order lists after a use and after a deletion *)

\* The key that is touched, at place i or new, comes first; those that were before it (all,
\* if it is new) move back by one place.
MovedToFront(s, h, i, t) ==
  /\ \A k \in 1..Len(s) : s[k] = h <=> k = i
  /\ Len(t) = IF i <= Len(s) THEN Len(s) ELSE Len(s) + 1
  /\ \A k \in 1..Len(t) : t[k] = IF k = 1 THEN h ELSE IF k <= i THEN s[k - 1] ELSE s[k]

LEMMA ToFrontPlaces ==
  ASSUME NEW S, NEW s \in Seq(S), NEW h \in S, NoDuplicates(s)
  PROVE  ToFront(s, h) \in Seq(S) /\ \E i \in 1..(Len(s) + 1) : MovedToFront(s, h, i, ToFront(s, h))
<1>1. Len(s) \in Nat /\ \A k \in 1..Len(s) : s[k] \in S OBVIOUS
<1>2. CASE Listed(s, h)
  <2>. DEFINE i == CHOOSE i \in 1..Len(s) : s[i] = h
              t == [k \in 1..Len(s) |-> IF k = 1 THEN h ELSE IF k <= i THEN s[k - 1] ELSE s[k]]
  <2>1. i \in 1..Len(s) /\ s[i] = h BY <1>2 DEF Listed
  <2>2. ToFront(s, h) = t BY <1>2 DEF ToFront
  <2>. HIDE DEF i
  <2>3. t \in Seq(S) /\ Len(t) = Len(s) BY <1>1, <2>1
  <2>4. \A k \in 1..Len(s) : s[k] = h <=> k = i BY <2>1 DEF NoDuplicates
  <2>5. i \in 1..(Len(s) + 1) /\ i <= Len(s) BY <1>1, <2>1
  <2>6. \A k \in 1..Len(t) : t[k] = IF k = 1 THEN h ELSE IF k <= i THEN s[k - 1] ELSE s[k] BY <2>3
  <2>7. QED BY <2>2, <2>3, <2>4, <2>5, <2>6 DEF MovedToFront
<1>3. CASE ~Listed(s, h)
  <2>. DEFINE i == Len(s) + 1
              t == <<h>> \o s
  <2>1. ToFront(s, h) = t BY <1>3 DEF ToFront
  <2>2. t \in Seq(S) /\ Len(t) = i /\ \A k \in 1..i : t[k] = IF k = 1 THEN h ELSE s[k - 1]
    BY <1>1
  <2>3. \A k \in 1..Len(s) : s[k] = h <=> k = i BY <1>1, <1>3 DEF Listed
  <2>. HIDE DEF t
  <2>4. QED BY <1>1, <2>1, <2>2, <2>3 DEF MovedToFront
<1>4. QED BY <1>2, <1>3

\* Both put the key that is touched in front.
LEMMA ToFrontFirst ==
  ASSUME NEW S, NEW s \in Seq(S), NEW h \in S, NoDuplicates(s)
  PROVE  ToFront(s, h) # <<>> /\ ToFront(s, h)[1] = h
<1>. DEFINE t == ToFront(s, h)
<1>1. t \in Seq(S) /\ \E i \in 1..(Len(s) + 1) : MovedToFront(s, h, i, t) BY ToFrontPlaces
<1>. HIDE DEF t
<1>2. PICK i \in 1..(Len(s) + 1) : MovedToFront(s, h, i, t) BY <1>1
<1>3. Len(s) \in Nat /\ Len(t) \in Nat /\ Len(t) > 0 BY <1>1, <1>2 DEF MovedToFront
<1>4. QED BY <1>2, <1>3 DEF t, MovedToFront

\* moveToFront and newAtFront keep the ring free of duplicates, and what it
\* lists grows by at most the key that was touched.
LEMMA ToFrontLists ==
  ASSUME NEW S, NEW s \in Seq(S), NEW h \in S, NoDuplicates(s)
  PROVE  /\ ToFront(s, h) \in Seq(S)
         /\ Len(ToFront(s, h)) \in {Len(s), Len(s) + 1}
         /\ NoDuplicates(ToFront(s, h))
         /\ \A x : Listed(ToFront(s, h), x) <=> (Listed(s, x) \/ x = h)
<1>. DEFINE t == ToFront(s, h)
<1>1. t \in Seq(S) /\ \E i \in 1..(Len(s) + 1) : MovedToFront(s, h, i, t) BY ToFrontPlaces
<1>. HIDE DEF t
<1>2. PICK i \in 1..(Len(s) + 1) :
        /\ \A k \in 1..Len(s) : s[k] = h <=> k = i
        /\ t \in Seq(S)
        /\ Len(t) = IF i <= Len(s) THEN Len(s) ELSE Len(s) + 1
        /\ \A k \in 1..Len(t) : t[k] = IF k = 1 THEN h ELSE IF k <= i THEN s[k - 1] ELSE s[k]
  BY <1>1 DEF MovedToFront
<1>3. Len(s) \in Nat /\ Len(t) \in Nat /\ Len(t) > 0 /\ t[1] = h BY <1>2
<1>. DEFINE from(k) == IF k <= i THEN k - 1 ELSE k
<1>4. \A k \in 2..Len(t) : from(k) \in 1..Len(s) /\ t[k] = s[from(k)] /\ from(k) # i BY <1>2, <1>3
<1>5. \A j, k \in 2..Len(t) : from(j) = from(k) => j = k BY <1>2, <1>3
<1>6. \A m \in 1..Len(s) : m # i => \E k \in 2..Len(t) : from(k) = m
  <2>1. SUFFICES ASSUME NEW m \in 1..Len(s), m # i PROVE \E k \in 2..Len(t) : from(k) = m OBVIOUS
  <2>2. CASE m < i
    <3>1. m + 1 \in 2..Len(t) /\ from(m + 1) = m BY <1>2, <1>3, <2>2
    <3>2. QED BY <3>1
  <2>3. CASE m > i
    <3>1. m \in 2..Len(t) /\ from(m) = m BY <1>2, <1>3, <2>3
    <3>2. QED BY <3>1
  <2>4. QED BY <1>2, <2>1, <2>2, <2>3
<1>. HIDE DEF from
<1>7. 1 \in 1..Len(t) /\ 1..Len(t) = {1} \cup 2..Len(t) BY <1>3
<1>8. NoDuplicates(t)
  <2>1. \A k \in 2..Len(t) : t[k] # h BY <1>2, <1>4
  <2>2. \A j, k \in 2..Len(t) : t[j] = t[k] => j = k BY <1>4, <1>5 DEF NoDuplicates
  <2>3. QED BY <1>3, <1>7, <2>1, <2>2 DEF NoDuplicates
<1>9. \A x : Listed(t, x) => Listed(s, x) \/ x = h BY <1>3, <1>4, <1>7 DEF Listed
<1>10. \A x : Listed(s, x) => Listed(t, x)
  <2>1. SUFFICES ASSUME NEW x, NEW m \in 1..Len(s), s[m] = x PROVE Listed(t, x) BY DEF Listed
  <2>2. CASE m = i BY <1>2, <1>3, <1>7, <2>1, <2>2 DEF Listed
  <2>3. CASE m # i BY <1>4, <1>6, <1>7, <2>1, <2>3 DEF Listed
  <2>4. QED BY <2>2, <2>3
<1>11. Listed(t, h) BY <1>3, <1>7 DEF Listed
<1>12. Len(t) \in {Len(s), Len(s) + 1} BY <1>2, <1>3
<1>13. QED BY <1>2, <1>3, <1>8, <1>9, <1>10, <1>11, <1>12 DEF t

\* DeleteOldest removes exactly the last element of the ring.
LEMMA ButOldestLists ==
  ASSUME NEW S, NEW s \in Seq(S), s # <<>>, NoDuplicates(s)
  PROVE  /\ Oldest(s) \in S
         /\ Listed(s, Oldest(s))
         /\ ButOldest(s) \in Seq(S) /\ Len(ButOldest(s)) = Len(s) - 1
         /\ NoDuplicates(ButOldest(s))
         /\ \A x : Listed(ButOldest(s), x) <=> (Listed(s, x) /\ x # Oldest(s))
<1>. DEFINE t == ButOldest(s)
<1>1. /\ Len(s) \in Nat /\ Len(s) > 0 /\ Len(s) \in 1..Len(s)
      /\ t \in Seq(S) /\ Len(t) = Len(s) - 1
      /\ \A k \in 1..Len(t) : t[k] = s[k]
      /\ Oldest(s) = s[Len(s)] /\ Oldest(s) \in S
  <2>1. Len(s) \in Nat /\ Len(s) > 0 /\ Len(s) \in 1..Len(s) OBVIOUS
  <2>2. Oldest(s) = s[Len(s)] /\ Oldest(s) \in S BY <2>1 DEF Oldest
  <2>3. /\ SubSeq(s, 1, Len(s) - 1) \in Seq(S)
        /\ Len(SubSeq(s, 1, Len(s) - 1)) = Len(s) - 1
        /\ \A k \in 1..(Len(s) - 1) : SubSeq(s, 1, Len(s) - 1)[k] = s[k]
    <3>1. \A i \in 1..(Len(s) - 1) : s[i] \in S BY <2>1
    <3>2. \A n \in Nat : n > 0 =>
            /\ n - 1 \in Int /\ (n - 1) - 1 + 1 = n - 1
            /\ (IF 1 <= n - 1 THEN n - 1 ELSE 0) = n - 1
      OBVIOUS
    <3>3. \A k \in Int : 1 + k - 1 = k OBVIOUS
    <3>. DEFINE n == Len(s) - 1
    <3>4. n \in Int /\ n - 1 + 1 = n /\ (IF 1 <= n THEN n ELSE 0) = n
      BY <2>1, <3>2
    <3>. HIDE DEF n
    <3>5. \A i \in 1..n : s[i] \in S BY <3>1 DEF n
    <3>6. /\ SubSeq(s, 1, n) \in Seq(S)
          /\ Len(SubSeq(s, 1, n)) = IF 1 <= n THEN n - 1 + 1 ELSE 0
          /\ \A i \in 1..(n - 1 + 1) : SubSeq(s, 1, n)[i] = s[1 + i - 1]
      BY <3>4, <3>5, SubSeqProperties
    <3>7. /\ SubSeq(s, 1, n) \in Seq(S)
          /\ Len(SubSeq(s, 1, n)) = n
          /\ \A i \in 1..n : SubSeq(s, 1, n)[i] = s[i]
      BY ONLY <3>3, <3>4, <3>6
    <3>8. QED BY <3>7 DEF n
  <2>4. QED BY <2>1, <2>2, <2>3 DEF ButOldest
<1>. HIDE DEF t
<1>2. Listed(s, Oldest(s)) BY <1>1 DEF Listed
<1>3. NoDuplicates(t) BY <1>1 DEF NoDuplicates
<1>4. ASSUME NEW x, Listed(t, x) PROVE Listed(s, x) /\ x # Oldest(s)
  <2>1. PICK k \in 1..Len(t) : t[k] = x BY <1>4 DEF Listed
  <2>2. k \in 1..Len(s) /\ s[k] = x /\ k # Len(s) BY <1>1, <2>1
  <2>3. QED BY <1>1, <2>2 DEF Listed, NoDuplicates
<1>5. ASSUME NEW x, Listed(s, x), x # Oldest(s) PROVE Listed(t, x)
  <2>1. PICK k \in 1..Len(s) : s[k] = x BY <1>5 DEF Listed
  <2>2. k \in 1..Len(t) BY <1>1, <1>5, <2>1
  <2>3. QED BY <1>1, <2>1, <2>2 DEF Listed
<1>6. QED BY <1>1, <1>2, <1>3, <1>4, <1>5 DEF t

-----------------------------------------------------------------------------
(* References to blobs *)

\* There are finitely many handles, so the references can be counted.
LEMMA HandlesFinite == IsFiniteSet(AllHandles)
BY ReadCacheAssumption, FS_AddElement DEF AllHandles

\* The references to a blob are a finite set.
LEMMA RefsFinite ==
  ASSUME NEW b PROVE IsFiniteSet(RefsTo(b)) /\ Cardinality(RefsTo(b)) \in Nat
<1>1. RefsTo(b) \in SUBSET AllHandles BY DEF RefsTo, Counted
<1>2. IsFiniteSet(RefsTo(b)) BY <1>1, HandlesFinite, FS_Subset
<1>3. QED BY <1>2, FS_CardinalityType

\* A blob that an entry refers to has a positive count.
LEMMA ReferencedIsCounted ==
  ASSUME TypeOK, RefCounts, NEW b \in Blobs, NEW h \in RefsTo(b)
  PROVE  blobCount[b] > 0
<1>1. Cardinality(RefsTo(b)) # 0 BY RefsFinite, FS_EmptySet
<1>2. blobCount[b] = Cardinality(RefsTo(b)) BY DEF RefCounts
<1>3. QED BY <1>1, <1>2, RefsFinite

\* decrBlobCountLocked of a referenced blob: no panic, and a blob whose last
\* reference goes leaves the cache.
LEMMA DecrStep ==
  ASSUME TypeOK, BlobsAreReferenced, NEW b \in Blobs, blobCount[b] > 0,
         DecrBlobCountLocked(b)
  PROVE  /\ blobCount' = [blobCount EXCEPT ![b] = @ - 1]
         /\ blobCount' \in [Blobs -> Nat]
         /\ blobCache' \subseteq Blobs
         /\ curSize' \in Int
         /\ panicked' = panicked
         /\ BlobsAreReferenced'
<1>. USE ReadCacheAssumption DEF TypeOK
<1>1. /\ blobCount' = [blobCount EXCEPT ![b] = blobCount[b] - 1]
      /\ blobCache' = IF blobCount[b] = 1 THEN blobCache \ {b} ELSE blobCache
      /\ curSize' = IF blobCount[b] = 1 /\ b \in blobCache
                      THEN curSize - Size[b] ELSE curSize
      /\ panicked' = panicked
  BY DEF DecrBlobCountLocked
<1>2. blobCount' \in [Blobs -> Nat] BY <1>1
<1>3. curSize' \in Int BY <1>1
<1>4. BlobsAreReferenced' BY <1>1 DEF BlobsAreReferenced
<1>5. QED BY <1>1, <1>2, <1>3, <1>4

\* The reference of h to b goes: the counts follow.
LEMMA RefRemoved ==
  ASSUME TypeOK, RefCounts, NEW b \in Blobs, NEW h \in RefsTo(b),
         blobCount' = [blobCount EXCEPT ![b] = @ - 1],
         \A x \in Blobs : RefsTo(x)' = IF x = b THEN RefsTo(x) \ {h} ELSE RefsTo(x)
  PROVE  RefCounts'
<1>1. SUFFICES ASSUME NEW x \in Blobs
               PROVE  blobCount'[x] = Cardinality(RefsTo(x)')
  BY DEF RefCounts
<1>2. blobCount[x] = Cardinality(RefsTo(x)) BY DEF RefCounts
<1>3. CASE x = b
  <2>1. Cardinality(RefsTo(b) \ {h}) = Cardinality(RefsTo(b)) - 1
    BY RefsFinite, FS_RemoveElement
  <2>2. QED BY <1>2, <1>3, <2>1 DEF TypeOK
<1>4. CASE x # b BY <1>2, <1>4 DEF TypeOK
<1>5. QED BY <1>3, <1>4

\* A reference of h to b is added: the counts follow.
LEMMA RefAdded ==
  ASSUME TypeOK, RefCounts, NEW b \in Blobs, NEW h, h \notin RefsTo(b),
         blobCount' = [blobCount EXCEPT ![b] = @ + 1],
         \A x \in Blobs : RefsTo(x)' = IF x = b THEN RefsTo(x) \cup {h} ELSE RefsTo(x)
  PROVE  RefCounts'
<1>1. SUFFICES ASSUME NEW x \in Blobs
               PROVE  blobCount'[x] = Cardinality(RefsTo(x)')
  BY DEF RefCounts
<1>2. blobCount[x] = Cardinality(RefsTo(x)) BY DEF RefCounts
<1>3. CASE x = b
  <2>1. Cardinality(RefsTo(b) \cup {h}) = Cardinality(RefsTo(b)) + 1
    BY RefsFinite, FS_AddElement
  <2>2. QED BY <1>2, <1>3, <2>1 DEF TypeOK
<1>4. CASE x # b BY <1>2, <1>4 DEF TypeOK
<1>5. QED BY <1>3, <1>4

\* No reference changes.
LEMMA RefsSame ==
  ASSUME RefCounts, UNCHANGED blobCount,
         \A x \in Blobs : RefsTo(x)' = RefsTo(x)
  PROVE  RefCounts'
BY DEF RefCounts

-----------------------------------------------------------------------------
(* The inductive invariant *)

\* The caches start empty.
LEMMA InitIInv == Init => IInv
<1>. SUFFICES ASSUME Init PROVE IInv OBVIOUS
<1>. USE ReadCacheAssumption DEF Init
<1>1. TypeOK
  <2>1. <<>> \in Seq(AllHandles) OBVIOUS
  <2>2. StatusHandle \in AllHandles BY DEF AllHandles
  <2>3. /\ pc \in [Readers -> PCs] /\ mu \in Readers \cup {NoReader}
        /\ panicked \in BOOLEAN /\ recent \in BOOLEAN
    BY DEF PCs
  <2>4. curSize \in Int /\ blobCount \in [Blobs -> Nat] OBVIOUS
  <2>5. /\ want \in [Readers -> AllHandles]
        /\ got \in [Readers -> Blobs \cup {NoBlob}]
        /\ entBlob \in [AllHandles -> Blobs \cup {NoBlob}]
        /\ snapshot \in Blobs \cup {NoBlob} /\ blobCache \subseteq Blobs
    BY <2>2
  <2>6. QED BY <2>1, <2>3, <2>4, <2>5 DEF TypeOK
<1>2. OrderListsEntries BY DEF OrderListsEntries, Listed, NoDuplicates
<1>3. RefCounts
  <2>1. \A b \in Blobs : RefsTo(b) = {} BY DEF RefsTo, Counted
  <2>2. QED BY <2>1, FS_EmptySet DEF RefCounts
<1>4. BlobsAreReferenced BY DEF BlobsAreReferenced
<1>5. NoBogusDecrement BY DEF NoBogusDecrement
<1>6. OneFill BY DEF OneFill
<1>7. QED BY <1>1, <1>2, <1>3, <1>4, <1>5, <1>6 DEF IInv

\* A hit only changes the recency order.
LEMMA HitIInv ==
  ASSUME IInv, NEW r \in Readers, NEW h \in AllHandles, Hit(r, h)
  PROVE  IInv'
<1>. USE ReadCacheAssumption DEF IInv, Hit, cacheVars, statusVars
<1>1. /\ order' \in Seq(AllHandles)
      /\ OrderListsEntries'
  <2>1. order \in Seq(AllHandles) /\ NoDuplicates(order) /\ Listed(order, h)
    BY DEF TypeOK, OrderListsEntries
  <2>2. order' = ToFront(order, h) /\ entBlob' = entBlob OBVIOUS
  <2>3. order' \in Seq(AllHandles) /\ NoDuplicates(order')
        /\ \A x : Listed(order', x) <=> (Listed(order, x) \/ x = h)
    BY <2>1, <2>2, ToFrontLists
  <2>4. QED BY <2>1, <2>2, <2>3 DEF OrderListsEntries, Listed, NoDuplicates
<1>2. TypeOK' BY <1>1 DEF TypeOK, PCs
<1>3. RefCounts'
  <2>1. \A x \in Blobs : RefsTo(x)' = RefsTo(x) BY DEF TypeOK, RefsTo, Counted
  <2>2. QED BY <2>1, RefsSame
<1>4. BlobsAreReferenced' /\ NoBogusDecrement'
  BY DEF BlobsAreReferenced, NoBogusDecrement
<1>5. OneFill' BY DEF OneFill, TypeOK
<1>6. QED BY <1>1, <1>2, <1>3, <1>4, <1>5

\* A miss only changes the recency order.
LEMMA MissIInv ==
  ASSUME IInv, NEW r \in Readers, NEW h \in AllHandles, Miss(r, h)
  PROVE  IInv'
<1>. USE ReadCacheAssumption DEF IInv, Miss, cacheVars, statusVars
<1>1. /\ order' \in Seq(AllHandles)
      /\ OrderListsEntries'
  <2>1. order \in Seq(AllHandles) /\ NoDuplicates(order) BY DEF TypeOK, OrderListsEntries
  <2>2. CASE entBlob[h] = NoBlob
    BY <2>1, <2>2 DEF OrderListsEntries, Listed, NoDuplicates
  <2>3. CASE entBlob[h] # NoBlob
    <3>1. order' = ToFront(order, h) /\ entBlob' = entBlob BY <2>3
    <3>2. Listed(order, h) BY <2>3 DEF OrderListsEntries
    <3>3. order' \in Seq(AllHandles) /\ NoDuplicates(order')
          /\ \A x : Listed(order', x) <=> (Listed(order, x) \/ x = h)
      BY <2>1, <3>1, ToFrontLists
    <3>4. QED BY <3>1, <3>2, <3>3 DEF OrderListsEntries, Listed, NoDuplicates
  <2>4. QED BY <2>2, <2>3
<1>2. TypeOK' BY <1>1 DEF TypeOK, PCs
<1>3. RefCounts'
  <2>1. \A x \in Blobs : RefsTo(x)' = RefsTo(x) BY DEF TypeOK, RefsTo, Counted
  <2>2. QED BY <2>1, RefsSame
<1>4. BlobsAreReferenced' /\ NoBogusDecrement'
  BY DEF BlobsAreReferenced, NoBogusDecrement
<1>5. OneFill' BY DEF OneFill, TypeOK
<1>6. QED BY <1>1, <1>2, <1>3, <1>4, <1>5

\* The reader gets contents; the caches do not change.
LEMMA FetchFileIInv ==
  ASSUME IInv, NEW r \in Readers, FetchFile(r)
  PROVE  IInv'
<1>. USE ReadCacheAssumption DEF IInv, FetchFile, cacheVars, statusVars
<1>1. TypeOK' BY DEF TypeOK, PCs, AllHandles
<1>2. OrderListsEntries' BY DEF OrderListsEntries, Listed, NoDuplicates
<1>3. RefCounts'
  <2>1. \A x \in Blobs : RefsTo(x)' = RefsTo(x) BY DEF TypeOK, RefsTo, Counted
  <2>2. QED BY <2>1, RefsSame
<1>4. BlobsAreReferenced' /\ NoBogusDecrement'
  BY DEF BlobsAreReferenced, NoBogusDecrement
<1>5. OneFill' BY DEF OneFill, TypeOK, AllHandles
<1>6. QED BY <1>1, <1>2, <1>3, <1>4, <1>5

\* The reader gets a snapshot; the caches do not change.
LEMMA FetchStatusIInv ==
  ASSUME IInv, NEW r \in Readers, FetchStatus(r)
  PROVE  IInv'
<1>. USE ReadCacheAssumption DEF IInv, FetchStatus, StatusFile, cacheVars, statusVars
<1>1. TypeOK' BY DEF TypeOK, PCs, AllHandles
<1>2. OrderListsEntries' BY DEF OrderListsEntries, Listed, NoDuplicates
<1>3. RefCounts'
  <2>1. \A x \in Blobs : RefsTo(x)' = RefsTo(x) BY DEF TypeOK, RefsTo, Counted
  <2>2. QED BY <2>1, RefsSame
<1>4. BlobsAreReferenced' /\ NoBogusDecrement'
  BY DEF BlobsAreReferenced, NoBogusDecrement
<1>5. OneFill' BY DEF OneFill, TypeOK, AllHandles
<1>6. QED BY <1>1, <1>2, <1>3, <1>4, <1>5

\* The reader leaves with an error.
LEMMA FetchFailsIInv ==
  ASSUME IInv, NEW r \in Readers, FetchFails(r)
  PROVE  IInv'
<1>. USE ReadCacheAssumption DEF IInv, FetchFails, cacheVars, statusVars
<1>1. TypeOK' BY DEF TypeOK, PCs, AllHandles
<1>2. OrderListsEntries' BY DEF OrderListsEntries, Listed, NoDuplicates
<1>3. RefCounts'
  <2>1. \A x \in Blobs : RefsTo(x)' = RefsTo(x) BY DEF TypeOK, RefsTo, Counted
  <2>2. QED BY <2>1, RefsSame
<1>4. BlobsAreReferenced' /\ NoBogusDecrement'
  BY DEF BlobsAreReferenced, NoBogusDecrement
<1>5. OneFill' BY DEF OneFill, TypeOK, AllHandles
<1>6. QED BY <1>1, <1>2, <1>3, <1>4, <1>5

\* The lock is released; the caches do not change.
LEMMA SetDoneIInv ==
  ASSUME IInv, NEW r \in Readers, SetDone(r)
  PROVE  IInv'
<1>. USE ReadCacheAssumption DEF IInv, SetDone, cacheVars, statusVars
<1>1. TypeOK' BY DEF TypeOK, PCs, AllHandles
<1>2. OrderListsEntries' BY DEF OrderListsEntries, Listed, NoDuplicates
<1>3. RefCounts'
  <2>1. \A x \in Blobs : RefsTo(x)' = RefsTo(x) BY DEF TypeOK, RefsTo, Counted
  <2>2. QED BY <2>1, RefsSame
<1>4. BlobsAreReferenced' /\ NoBogusDecrement'
  BY DEF BlobsAreReferenced, NoBogusDecrement
<1>5. OneFill' BY DEF OneFill, TypeOK, AllHandles
<1>6. QED BY <1>1, <1>2, <1>3, <1>4, <1>5

\* setReadCache takes the lock and drops the reference of the entry that it is
\* about to replace.
LEMMA SetReleaseIInv ==
  ASSUME IInv, NEW r \in Readers, SetRelease(r)
  PROVE  IInv'
<1>. DEFINE h == want[r]
            old == entBlob[h]
<1>. USE ReadCacheAssumption DEF IInv, SetRelease, statusVars
<1>1. \A x \in Readers : pc[x] # "insert" BY DEF OneFill
<1>2. Counted = {x \in AllHandles : entBlob[x] # NoBlob} BY <1>1 DEF Counted
<1>3. Counted' = Counted \ {h} BY <1>1, <1>2 DEF Counted, TypeOK
<1>4. h \in AllHandles /\ old \in Blobs \cup {NoBlob} BY DEF TypeOK
<1>5. OrderListsEntries' BY DEF OrderListsEntries, Listed, NoDuplicates
<1>6. OneFill' BY DEF OneFill, TypeOK
<1>7. CASE old = NoBlob
  <2>1. UNCHANGED <<blobCount, blobCache, curSize, panicked>> BY <1>7
  <2>2. TypeOK' BY <2>1 DEF TypeOK, PCs
  <2>3. \A x \in Blobs : RefsTo(x)' = RefsTo(x) BY <1>3, <1>7 DEF RefsTo
  <2>4. RefCounts' BY <2>1, <2>3, RefsSame
  <2>5. BlobsAreReferenced' /\ NoBogusDecrement'
    BY <2>1 DEF BlobsAreReferenced, NoBogusDecrement
  <2>6. QED BY <1>5, <1>6, <2>2, <2>4, <2>5
<1>8. CASE old # NoBlob
  <2>1. old \in Blobs /\ DecrBlobCountLocked(old) BY <1>4, <1>8
  <2>2. h \in RefsTo(old) BY <1>2, <1>4, <1>8 DEF RefsTo
  <2>3. blobCount[old] > 0 BY <2>1, <2>2, ReferencedIsCounted
  <2>4. /\ blobCount' = [blobCount EXCEPT ![old] = @ - 1]
        /\ blobCount' \in [Blobs -> Nat]
        /\ blobCache' \subseteq Blobs
        /\ curSize' \in Int
        /\ panicked' = panicked
        /\ BlobsAreReferenced'
    BY <2>1, <2>3, DecrStep
  <2>5. TypeOK' BY <2>4 DEF TypeOK, PCs
  <2>6. \A x \in Blobs : RefsTo(x)' = IF x = old THEN RefsTo(x) \ {h} ELSE RefsTo(x)
    BY <1>3 DEF RefsTo
  <2>7. RefCounts' BY <2>1, <2>2, <2>4, <2>6, RefRemoved
  <2>8. NoBogusDecrement' BY <2>4 DEF NoBogusDecrement
  <2>9. QED BY <1>5, <1>6, <2>4, <2>5, <2>7, <2>8
<1>9. QED BY <1>7, <1>8

\* The new entry takes its reference.
LEMMA SetInsertIInv ==
  ASSUME IInv, NEW r \in Readers, SetInsert(r)
  PROVE  IInv'
<1>. DEFINE h == want[r]
            b == got[r]
<1>. USE ReadCacheAssumption DEF IInv, SetInsert, statusVars
<1>1. mu = r /\ b \in Blobs /\ h \in AllHandles BY DEF OneFill, TypeOK
<1>2. \A x \in Readers : pc[x] = "insert" <=> x = r BY <1>1 DEF OneFill
<1>3. \A x \in Readers : pc'[x] # "insert" BY <1>2 DEF TypeOK
<1>4. Counted = {x \in AllHandles : entBlob[x] # NoBlob} \ {h}
  BY <1>2 DEF Counted
<1>5. Counted' = {x \in AllHandles : entBlob'[x] # NoBlob}
  BY <1>3 DEF Counted
<1>6. \A x \in AllHandles : entBlob'[x] = IF x = h THEN b ELSE entBlob[x]
  BY DEF TypeOK
<1>7. \A x \in Blobs : RefsTo(x)' = IF x = b THEN RefsTo(x) \cup {h} ELSE RefsTo(x)
  <2>1. \A x : RefsTo(x)' = {y \in AllHandles : entBlob'[y] # NoBlob /\ entBlob'[y] = x}
    BY <1>5 DEF RefsTo
  <2>2. \A x : RefsTo(x) =
          {y \in AllHandles : entBlob[y] # NoBlob /\ entBlob[y] = x /\ y # h}
    BY <1>4 DEF RefsTo
  <2>. SUFFICES ASSUME NEW x \in Blobs
                PROVE  RefsTo(x)' = IF x = b THEN RefsTo(x) \cup {h} ELSE RefsTo(x)
    OBVIOUS
  <2>. HIDE DEF IInv, SetInsert, statusVars
  <2>3. b # NoBlob BY <1>1
  <2>4. \A y \in AllHandles \ {h} : entBlob'[y] = entBlob[y] BY <1>6
  <2>5. entBlob'[h] = b BY <1>1, <1>6
  <2>. HIDE DEF h, b
  <2>6. CASE x = b BY <1>1, <2>1, <2>2, <2>3, <2>4, <2>5, <2>6
  <2>7. CASE x # b BY <1>1, <2>1, <2>2, <2>3, <2>4, <2>5, <2>7
  <2>8. QED BY <2>6, <2>7
<1>8. h \notin RefsTo(b) BY <1>4 DEF RefsTo
<1>9. RefCounts' BY <1>1, <1>7, <1>8, RefAdded
<1>10. /\ order' \in Seq(AllHandles)
       /\ OrderListsEntries'
  <2>1. order \in Seq(AllHandles) /\ NoDuplicates(order) BY DEF TypeOK, OrderListsEntries
  <2>2. order' = ToFront(order, h) OBVIOUS
  <2>3. order' \in Seq(AllHandles) /\ NoDuplicates(order')
        /\ \A x : Listed(order', x) <=> (Listed(order, x) \/ x = h)
    BY <1>1, <2>1, <2>2, ToFrontLists
  <2>4. \A x \in AllHandles : entBlob'[x] # NoBlob <=> Listed(order', x)
    BY <1>1, <1>6, <2>3 DEF OrderListsEntries
  <2>5. QED BY <2>3, <2>4 DEF OrderListsEntries, Listed, NoDuplicates
<1>11. TypeOK'
  <2>1. curSize' \in Int BY <1>1 DEF TypeOK
  <2>2. blobCount' \in [Blobs -> Nat] BY <1>1 DEF TypeOK
  <2>3. entBlob' \in [AllHandles -> Blobs \cup {NoBlob}] BY <1>1 DEF TypeOK
  <2>4. blobCache' \subseteq Blobs BY <1>1 DEF TypeOK
  <2>5. QED BY <1>10, <2>1, <2>2, <2>3, <2>4 DEF TypeOK, PCs
<1>12. BlobsAreReferenced' BY <1>1 DEF BlobsAreReferenced, TypeOK
<1>13. NoBogusDecrement' BY DEF NoBogusDecrement
<1>14. OneFill' BY DEF OneFill, TypeOK
<1>15. QED BY <1>9, <1>10, <1>11, <1>12, <1>13, <1>14

\* The oldest entry goes, and with it its reference.
LEMMA EvictOldestIInv ==
  ASSUME IInv, NEW r \in Readers, EvictOldest(r)
  PROVE  IInv'
<1>. DEFINE h == Oldest(order)
            old == entBlob[h]
<1>. USE ReadCacheAssumption DEF IInv, EvictOldest, statusVars, readVars
<1>1. /\ order \in Seq(AllHandles) /\ order # <<>> /\ NoDuplicates(order)
  BY DEF TypeOK, OrderListsEntries
<1>2. /\ h \in AllHandles /\ Listed(order, h)
      /\ order' \in Seq(AllHandles) /\ NoDuplicates(order')
      /\ \A x : Listed(order', x) <=> (Listed(order, x) /\ x # h)
  BY <1>1, ButOldestLists
<1>3. old \in Blobs BY <1>2 DEF OrderListsEntries, TypeOK
<1>4. \A x \in Readers : pc[x] # "insert" BY DEF OneFill
<1>5. \A x \in Readers : pc'[x] # "insert" BY <1>4
<1>6. \A x \in AllHandles : entBlob'[x] = IF x = h THEN NoBlob ELSE entBlob[x]
  BY DEF TypeOK
<1>7. \A x : RefsTo(x) = {y \in AllHandles : entBlob[y] # NoBlob /\ entBlob[y] = x}
  BY <1>4 DEF RefsTo, Counted
<1>8. \A x : RefsTo(x)' = {y \in AllHandles : entBlob'[y] # NoBlob /\ entBlob'[y] = x}
  BY <1>5 DEF RefsTo, Counted
<1>9. \A x \in Blobs : RefsTo(x)' = IF x = old THEN RefsTo(x) \ {h} ELSE RefsTo(x)
  BY <1>2, <1>6, <1>7, <1>8
<1>10. h \in RefsTo(old) BY <1>2, <1>3, <1>7
<1>11. blobCount[old] > 0 BY <1>3, <1>10, ReferencedIsCounted
<1>12. /\ blobCount' = [blobCount EXCEPT ![old] = @ - 1]
       /\ blobCount' \in [Blobs -> Nat]
       /\ blobCache' \subseteq Blobs
       /\ curSize' \in Int
       /\ panicked' = panicked
       /\ BlobsAreReferenced'
  BY <1>3, <1>11, DecrStep
<1>13. RefCounts' BY <1>3, <1>9, <1>10, <1>12, RefRemoved
<1>14. OrderListsEntries'
  <2>1. \A x \in AllHandles : entBlob'[x] # NoBlob <=> Listed(order', x)
    BY <1>2, <1>6 DEF OrderListsEntries
  <2>2. QED BY <1>2, <2>1 DEF OrderListsEntries, Listed, NoDuplicates
<1>15. TypeOK'
  <2>1. entBlob' \in [AllHandles -> Blobs \cup {NoBlob}] BY DEF TypeOK
  <2>2. QED BY <1>2, <1>12, <2>1 DEF TypeOK
<1>16. NoBogusDecrement' BY <1>12 DEF NoBogusDecrement
<1>17. OneFill' BY DEF OneFill
<1>18. QED BY <1>12, <1>13, <1>14, <1>15, <1>16, <1>17

\* Every step keeps the inductive invariant.
LEMMA NextIInv == IInv /\ [Next]_vars => IInv'
<1>1. SUFFICES ASSUME IInv, [Next]_vars PROVE IInv' OBVIOUS
<1>2. ASSUME UNCHANGED <<readVars, mu, cacheVars>>, TypeOK' PROVE IInv'
  <2>1. \A x \in Blobs : RefsTo(x)' = RefsTo(x)
    BY <1>2 DEF RefsTo, Counted, readVars, cacheVars
  <2>2. RefCounts' BY <1>1, <1>2, <2>1, RefsSame DEF IInv, cacheVars
  <2>3. OrderListsEntries'
    BY <1>1, <1>2 DEF IInv, OrderListsEntries, Listed, NoDuplicates, cacheVars
  <2>4. BlobsAreReferenced' /\ NoBogusDecrement' /\ OneFill'
    BY <1>1, <1>2 DEF IInv, BlobsAreReferenced, NoBogusDecrement, OneFill,
      cacheVars, readVars
  <2>5. QED BY <1>2, <2>2, <2>3, <2>4 DEF IInv
<1>3. CASE UNCHANGED vars \/ LstatStatus \/ StatusAges
  <2>1. UNCHANGED <<readVars, mu, cacheVars>>
    BY <1>3 DEF vars, LstatStatus, StatusAges, readVars, cacheVars
  <2>2. TypeOK'
    BY <1>1, <1>3 DEF IInv, TypeOK, vars, LstatStatus, StatusFile, StatusAges,
      readVars, cacheVars, statusVars
  <2>3. QED BY <1>2, <2>1, <2>2
<1>4. ASSUME NEW r \in Readers, Read(r) PROVE IInv'
  BY <1>1, <1>4, HitIInv, MissIInv DEF Read
<1>5. ASSUME NEW r \in Readers, Fetch(r) PROVE IInv'
  BY <1>1, <1>5, FetchFileIInv, FetchStatusIInv, FetchFailsIInv DEF Fetch
<1>6. ASSUME NEW r \in Readers, SetReadCache(r) PROVE IInv'
  BY <1>1, <1>6, SetReleaseIInv, SetInsertIInv, EvictOldestIInv, SetDoneIInv
    DEF SetReadCache
<1>7. QED BY <1>1, <1>3, <1>4, <1>5, <1>6 DEF Next

\* Initially and after every step: the inductive invariant always holds.
LEMMA InvariantIInv == Spec => []IInv
BY InitIInv, NextIInv, PTL DEF Spec

-----------------------------------------------------------------------------
(* The size of the cache, and the entry that was just set *)

\* The bytes of one blob.
BytesOf(b) == {b} \X (1..Size[b])

\* A blob has as many bytes as its size says.
LEMMA BlobBytes ==
  ASSUME NEW b \in Blobs
  PROVE  IsFiniteSet(BytesOf(b)) /\ Cardinality(BytesOf(b)) = Size[b]
<1>1. Size[b] \in Nat BY ReadCacheAssumption
<1>2. IsFiniteSet(1..Size[b]) /\ Cardinality(1..Size[b]) = Size[b] BY <1>1, FS_Interval
<1>3. IsFiniteSet({b}) /\ Cardinality({b}) = 1 BY FS_Singleton
<1>4. /\ IsFiniteSet({b} \X (1..Size[b]))
      /\ Cardinality({b} \X (1..Size[b])) = Cardinality({b}) * Cardinality(1..Size[b])
  BY <1>2, <1>3, FS_Product
<1>5. QED BY <1>1, <1>2, <1>3, <1>4 DEF BytesOf

\* A blob that was not cached adds its size.
LEMMA BlobAdded ==
  ASSUME IsFiniteSet(CachedBytes), NEW b \in Blobs, b \notin blobCache,
         blobCache' = blobCache \cup {b}
  PROVE  IsFiniteSet(CachedBytes') /\ Cardinality(CachedBytes') = Cardinality(CachedBytes) + Size[b]
<1>1. CachedBytes' = CachedBytes \cup BytesOf(b) BY DEF CachedBytes, BytesOf
<1>2. CachedBytes \cap BytesOf(b) = {} BY DEF CachedBytes, BytesOf
<1>3. IsFiniteSet(BytesOf(b)) /\ Cardinality(BytesOf(b)) = Size[b] BY BlobBytes
<1>4. /\ IsFiniteSet(CachedBytes \cup BytesOf(b))
      /\ Cardinality(CachedBytes \cup BytesOf(b)) =
           Cardinality(CachedBytes) + Cardinality(BytesOf(b)) - Cardinality(CachedBytes \cap BytesOf(b))
  BY <1>3, FS_Union
<1>5. Cardinality(CachedBytes) \in Nat /\ Size[b] \in Nat BY ReadCacheAssumption, FS_CardinalityType
<1>6. Cardinality(CachedBytes \cap BytesOf(b)) = 0 BY <1>2, FS_EmptySet
<1>7. QED BY ONLY <1>1, <1>3, <1>4, <1>5, <1>6

\* A cached blob that goes takes its size along.
LEMMA BlobDropped ==
  ASSUME IsFiniteSet(CachedBytes), NEW b \in Blobs, b \in blobCache,
         blobCache' = blobCache \ {b}
  PROVE  IsFiniteSet(CachedBytes') /\ Cardinality(CachedBytes') = Cardinality(CachedBytes) - Size[b]
<1>1. CachedBytes' = CachedBytes \ BytesOf(b) BY DEF CachedBytes, BytesOf
<1>2. CachedBytes \cap BytesOf(b) = BytesOf(b) BY DEF CachedBytes, BytesOf
<1>3. Cardinality(BytesOf(b)) = Size[b] BY BlobBytes
<1>4. /\ IsFiniteSet(CachedBytes \ BytesOf(b))
      /\ Cardinality(CachedBytes \ BytesOf(b)) =
           Cardinality(CachedBytes) - Cardinality(CachedBytes \cap BytesOf(b))
  BY FS_Difference
<1>5. QED BY ONLY <1>1, <1>2, <1>3, <1>4

\* The size follows decrBlobCountLocked.
LEMMA DecrSize ==
  ASSUME IInv, SizeInv, NEW b \in Blobs, blobCount[b] > 0, DecrBlobCountLocked(b)
  PROVE  IsFiniteSet(CachedBytes') /\ curSize' = Cardinality(CachedBytes')
<1>1. /\ blobCache' = IF blobCount[b] = 1 THEN blobCache \ {b} ELSE blobCache
      /\ curSize' = IF blobCount[b] = 1 /\ b \in blobCache THEN curSize - Size[b] ELSE curSize
  BY DEF DecrBlobCountLocked, IInv, TypeOK
<1>2. b \in blobCache BY DEF IInv, BlobsAreReferenced
<1>3. IsFiniteSet(CachedBytes) /\ curSize = Cardinality(CachedBytes) BY DEF SizeInv, SizeWithinMax
<1>4. CASE blobCount[b] = 1 BY <1>1, <1>2, <1>3, <1>4, BlobDropped
<1>5. CASE blobCount[b] # 1
  <2>1. CachedBytes' = CachedBytes BY <1>1, <1>5 DEF CachedBytes
  <2>2. QED BY <1>1, <1>3, <1>5, <2>1
<1>6. QED BY <1>4, <1>5

\* When no blob but b is referred to, the cache is no larger than b.
LEMMA OneBlobSize ==
  ASSUME IInv, SizeInv, NEW b \in Blobs, \A x \in Blobs : x # b => RefsTo(x) = {}
  PROVE  curSize <= Size[b]
<1>1. \A x \in Blobs : x # b => blobCount[x] = 0 BY FS_EmptySet DEF IInv, RefCounts
<1>2. blobCache \subseteq {b} BY <1>1 DEF IInv, BlobsAreReferenced
<1>3. CachedBytes \in SUBSET BytesOf(b) BY <1>2 DEF CachedBytes, BytesOf
<1>4. Cardinality(CachedBytes) <= Size[b] BY <1>3, BlobBytes, FS_Subset
<1>5. QED BY <1>4 DEF SizeInv, SizeWithinMax

\* When no blob is referred to, the cache is empty.
LEMMA NoBlobSize ==
  ASSUME IInv, SizeInv, \A x \in Blobs : RefsTo(x) = {}
  PROVE  curSize = 0
<1>1. \A x \in Blobs : blobCount[x] = 0 BY FS_EmptySet DEF IInv, RefCounts
<1>2. blobCache = {} BY <1>1 DEF IInv, BlobsAreReferenced
<1>3. CachedBytes = {} BY <1>2 DEF CachedBytes
<1>4. QED BY <1>3, FS_EmptySet DEF SizeInv, SizeWithinMax

\* The cache starts with nothing.
LEMMA InitSize == Init => SizeInv
<1>1. SUFFICES ASSUME Init PROVE SizeInv OBVIOUS
<1>2. CachedBytes = {} BY <1>1 DEF Init, CachedBytes
<1>3. SizeWithinMax BY <1>1, <1>2, FS_EmptySet, ReadCacheAssumption DEF Init, SizeWithinMax
<1>4. FreshIsFirst BY <1>1 DEF Init, FreshIsFirst
<1>5. QED BY <1>2, <1>3, <1>4, FS_EmptySet DEF SizeInv

\* The lock is taken, and a reference dropped.
LEMMA SetReleaseSize ==
  ASSUME IInv, SizeInv, NEW r \in Readers, SetRelease(r)
  PROVE  SizeInv'
<1>1. \A x \in Readers : pc[x] \notin {"insert", "evict"}
  BY ReadCacheAssumption DEF IInv, OneFill, SetRelease
<1>2. FreshIsFirst' BY <1>1 DEF FreshIsFirst, SetRelease, IInv, TypeOK
<1>3. mu' # NoReader BY ReadCacheAssumption DEF SetRelease
<1>4. CASE entBlob[want[r]] = NoBlob
  <2>1. UNCHANGED <<blobCache, curSize>> BY <1>4 DEF SetRelease
  <2>2. CachedBytes' = CachedBytes BY <2>1 DEF CachedBytes
  <2>3. QED BY <1>2, <1>3, <2>1, <2>2 DEF SizeInv, SizeWithinMax
<1>5. CASE entBlob[want[r]] # NoBlob
  <2>1. /\ want[r] \in AllHandles /\ entBlob[want[r]] \in Blobs
        /\ DecrBlobCountLocked(entBlob[want[r]])
    BY <1>5 DEF SetRelease, IInv, TypeOK
  <2>2. want[r] \in RefsTo(entBlob[want[r]]) BY <1>1, <1>5, <2>1 DEF RefsTo, Counted
  <2>3. blobCount[entBlob[want[r]]] > 0 BY <2>1, <2>2, ReferencedIsCounted DEF IInv
  <2>4. IsFiniteSet(CachedBytes') /\ curSize' = Cardinality(CachedBytes') BY <2>1, <2>3, DecrSize
  <2>5. QED BY <1>2, <1>3, <2>4 DEF SizeInv, SizeWithinMax
<1>6. QED BY <1>4, <1>5

\* The entry is put in front, and its blob is cached.
LEMMA SetInsertSize ==
  ASSUME IInv, SizeInv, NEW r \in Readers, SetInsert(r)
  PROVE  SizeInv'
<1>1. mu = r /\ got[r] \in Blobs /\ want[r] \in AllHandles BY DEF IInv, OneFill, TypeOK, SetInsert
<1>2. mu' # NoReader BY <1>1, ReadCacheAssumption DEF SetInsert
<1>3. \A x \in Readers : pc[x] = "evict" => x = r BY <1>1 DEF IInv, OneFill
<1>4. IsFiniteSet(CachedBytes') /\ curSize' = Cardinality(CachedBytes')
  <2>1. IsFiniteSet(CachedBytes) /\ curSize = Cardinality(CachedBytes) BY DEF SizeInv, SizeWithinMax
  <2>2. CASE got[r] \in blobCache
    <3>1. UNCHANGED <<blobCache, curSize>> BY <2>2 DEF SetInsert
    <3>2. CachedBytes' = CachedBytes BY <3>1 DEF CachedBytes
    <3>3. QED BY <2>1, <3>1, <3>2
  <2>3. CASE got[r] \notin blobCache
    <3>1. blobCache' = blobCache \cup {got[r]} /\ curSize' = curSize + Size[got[r]]
      BY <2>3 DEF SetInsert
    <3>2. QED BY <1>1, <2>1, <2>3, <3>1, BlobAdded
  <2>4. QED BY <2>2, <2>3
<1>5. FreshIsFirst'
  <2>1. order \in Seq(AllHandles) /\ NoDuplicates(order) BY DEF IInv, TypeOK, OrderListsEntries
  <2>2. order' # <<>> /\ order'[1] = want[r] BY <1>1, <2>1, ToFrontFirst DEF SetInsert
  <2>3. /\ entBlob'[want[r]] = got[r] /\ want' = want /\ got' = got
        /\ \A x \in Readers : pc'[x] = "evict" => x = r
    BY <1>1, <1>3 DEF SetInsert, IInv, TypeOK
  <2>4. QED BY <2>2, <2>3 DEF FreshIsFirst
<1>6. QED BY <1>2, <1>4, <1>5 DEF SizeInv, SizeWithinMax

\* The oldest entry goes.  Before the one that was just set, all others go; alone, it fits.
LEMMA EvictOldestSize ==
  ASSUME IInv, SizeInv, NEW r \in Readers, EvictOldest(r)
  PROVE  SizeInv'
<1>. DEFINE h == Oldest(order)
<1>1. order \in Seq(AllHandles) /\ order # <<>> /\ NoDuplicates(order)
  BY DEF IInv, TypeOK, OrderListsEntries, EvictOldest
<1>2. h \in AllHandles /\ Listed(order, h) BY <1>1, ButOldestLists
<1>3. mu = r /\ mu' = r /\ \A x \in Readers : pc[x] # "insert" /\ (pc[x] = "evict" => x = r)
  BY DEF IInv, OneFill, EvictOldest
<1>4. entBlob[h] \in Blobs /\ DecrBlobCountLocked(entBlob[h])
  BY <1>2 DEF IInv, TypeOK, OrderListsEntries, EvictOldest
<1>5. \A x : RefsTo(x) = {y \in AllHandles : entBlob[y] # NoBlob /\ entBlob[y] = x}
  BY <1>3 DEF RefsTo, Counted
<1>6. blobCount[entBlob[h]] > 0
  <2>1. h \in RefsTo(entBlob[h]) BY <1>2, <1>4, <1>5, ReadCacheAssumption
  <2>2. QED BY <1>4, <2>1, ReferencedIsCounted DEF IInv
<1>7. IsFiniteSet(CachedBytes') /\ curSize' = Cardinality(CachedBytes') BY <1>4, <1>6, DecrSize
<1>8. FreshIsFirst'
  <2>1. UNCHANGED <<pc, want, got>> BY DEF EvictOldest, readVars
  <2>2. SUFFICES ASSUME Size[got[r]] <= MaxSize
                 PROVE  order' # <<>> /\ order'[1] = want[r] /\ entBlob'[want[r]] = got[r]
    BY <1>3, <2>1 DEF FreshIsFirst
  <2>3. order[1] = want[r] /\ entBlob[want[r]] = got[r]
    BY <2>2 DEF SizeInv, FreshIsFirst, EvictOldest
  <2>4. curSize > MaxSize /\ order' = ButOldest(order) BY DEF EvictOldest
  <2>5. Len(order) \in Nat /\ Len(order) # 0 BY <1>1
  <2>6. Len(order) # 1
    <3>1. SUFFICES ASSUME Len(order) = 1 PROVE FALSE OBVIOUS
    <3>2. \A y \in AllHandles : entBlob[y] # NoBlob => y = want[r]
      BY <2>3, <3>1 DEF IInv, OrderListsEntries, Listed
    <3>3. got[r] \in Blobs /\ \A x \in Blobs : x # got[r] => RefsTo(x) = {}
      BY <1>5, <2>3, <3>2 DEF IInv, OneFill, EvictOldest
    <3>4. curSize <= Size[got[r]] BY <3>3, OneBlobSize
    <3>5. Size[got[r]] \in Nat /\ MaxSize \in Nat /\ curSize \in Int
      BY <3>3, ReadCacheAssumption DEF IInv, TypeOK
    <3>6. QED BY <2>2, <2>4, <3>4, <3>5
  <2>7. Len(order) \in 1..Len(order) /\ 1 \in 1..Len(order) BY <2>5
  <2>8. h # want[r] BY <1>1, <2>3, <2>6, <2>7 DEF NoDuplicates, Oldest
  <2>9. ButOldest(order) # <<>> /\ ButOldest(order)[1] = order[1]
    <3>1. Len(ButOldest(order)) = Len(order) - 1 BY <1>1, ButOldestLists
    <3>2. \A i \in 1..(Len(order) - 1) : ButOldest(order)[i] = order[i]
      BY <1>1, <2>5 DEF ButOldest
    <3>3. QED BY <2>5, <2>6, <3>1, <3>2
  <2>10. want[r] \in AllHandles BY DEF IInv, TypeOK
  <2>11. entBlob'[want[r]] = entBlob[want[r]] BY <1>2, <2>8, <2>10 DEF EvictOldest, IInv, TypeOK
  <2>12. QED BY <2>3, <2>4, <2>9, <2>11
<1>9. mu' # NoReader BY <1>3, ReadCacheAssumption
<1>10. QED BY <1>7, <1>8, <1>9 DEF SizeInv, SizeWithinMax

\* The lock is released: the cache fits, or nothing is left in it.
LEMMA SetDoneSize ==
  ASSUME IInv, SizeInv, NEW r \in Readers, SetDone(r)
  PROVE  SizeInv'
<1>1. UNCHANGED <<want, got, order, entBlob, blobCache, curSize>> BY DEF SetDone, cacheVars
<1>2. CachedBytes' = CachedBytes BY <1>1 DEF CachedBytes
<1>3. \A x \in Readers : pc'[x] = "evict" => pc[x] = "evict" BY DEF SetDone, IInv, TypeOK
<1>4. FreshIsFirst' BY <1>1, <1>3 DEF FreshIsFirst, SizeInv
<1>5. curSize <= MaxSize
  <2>1. CASE order = <<>>
    <3>1. \A h \in AllHandles : entBlob[h] = NoBlob BY <2>1 DEF IInv, OrderListsEntries, Listed
    <3>2. \A x \in Blobs : RefsTo(x) = {} BY <3>1 DEF RefsTo, Counted
    <3>3. QED BY <3>2, NoBlobSize, ReadCacheAssumption
  <2>2. QED BY <2>1 DEF SetDone
<1>6. QED BY <1>1, <1>2, <1>4, <1>5 DEF SizeInv, SizeWithinMax

\* A step that leaves the blobs and the lock alone, and no reader in the loop.
LEMMA SameSize ==
  ASSUME IInv, SizeInv, UNCHANGED <<mu, blobCache, curSize>>,
         \/ UNCHANGED <<pc, want, got, order, entBlob>>
         \/ UNCHANGED <<order, entBlob>> /\ \A x \in Readers :
              pc'[x] = "evict" => pc[x] = "evict" /\ want'[x] = want[x] /\ got'[x] = got[x]
         \/ mu = NoReader /\ \A x \in Readers : pc'[x] = "evict" => pc[x] = "evict"
  PROVE  SizeInv'
<1>1. CachedBytes' = CachedBytes BY DEF CachedBytes
<1>2. mu = NoReader => \A x \in Readers : pc[x] # "evict" BY ReadCacheAssumption DEF IInv, OneFill
<1>3. FreshIsFirst' BY <1>2 DEF FreshIsFirst, SizeInv
<1>4. QED BY <1>1, <1>3 DEF SizeInv, SizeWithinMax

\* Every step keeps the size and the fresh entry.
LEMMA NextSize == IInv /\ SizeInv /\ [Next]_vars => SizeInv'
<1>1. SUFFICES ASSUME IInv, SizeInv, [Next]_vars PROVE SizeInv' OBVIOUS
<1>2. CASE UNCHANGED vars \/ LstatStatus \/ StatusAges
  <2>1. UNCHANGED <<mu, blobCache, curSize, pc, want, got, order, entBlob>>
    BY <1>2 DEF vars, LstatStatus, StatusAges, readVars, cacheVars
  <2>2. QED BY <1>1, <2>1, SameSize
<1>3. ASSUME NEW r \in Readers, Read(r) PROVE SizeInv'
  <2>1. UNCHANGED <<mu, blobCache, curSize>> /\ mu = NoReader BY <1>3 DEF Read, Hit, Miss
  <2>2. \A x \in Readers : pc'[x] = "evict" => pc[x] = "evict"
    BY <1>1, <1>3 DEF Read, Hit, Miss, IInv, TypeOK
  <2>3. QED BY <1>1, <2>1, <2>2, SameSize
<1>4. ASSUME NEW r \in Readers, Fetch(r) PROVE SizeInv'
  <2>1. UNCHANGED <<mu, blobCache, curSize, order, entBlob>>
    BY <1>4 DEF Fetch, FetchFile, FetchStatus, FetchFails, cacheVars
  <2>2. \A x \in Readers :
          pc'[x] = "evict" => pc[x] = "evict" /\ want'[x] = want[x] /\ got'[x] = got[x]
    BY <1>1, <1>4 DEF Fetch, FetchFile, FetchStatus, FetchFails, IInv, TypeOK
  <2>3. QED BY <1>1, <2>1, <2>2, SameSize
<1>5. ASSUME NEW r \in Readers, SetReadCache(r) PROVE SizeInv'
  BY <1>1, <1>5, SetReleaseSize, SetInsertSize, EvictOldestSize, SetDoneSize DEF SetReadCache
<1>6. QED BY <1>1, <1>2, <1>3, <1>4, <1>5 DEF Next

\* The size and the fresh entry, in every state.
LEMMA InvariantSize == Spec => [](IInv /\ SizeInv)
<1>1. Init => IInv /\ SizeInv BY InitIInv, InitSize
<1>2. IInv /\ SizeInv /\ [Next]_vars => (IInv /\ SizeInv)' BY NextIInv, NextSize
<1>3. QED BY <1>1, <1>2, PTL DEF Spec

-----------------------------------------------------------------------------
(* The theorems *)

\* Every variable keeps its type.
THEOREM TypeCorrect == Spec => []TypeOK
BY InvariantIInv, PTL DEF IInv

\* blobCount is, for each blob, the number of entries of entCache that share it.
THEOREM CountsAreExact == Spec => []RefCounts
BY InvariantIInv, PTL DEF IInv

\* blobCache holds exactly the blobs that some entry refers to: an entry never
\* lacks its contents, and no blob stays once its last entry is gone.
THEOREM NoBlobLeaks == Spec => []BlobsAreReferenced
BY InvariantIInv, PTL DEF IInv

\* decrBlobCountLocked never panics.
THEOREM NeverBogus == Spec => []NoBogusDecrement
BY InvariantIInv, PTL DEF IInv

\* The recency order and the entries agree.
THEOREM OrderIsEntries == Spec => []OrderListsEntries
BY InvariantIInv, PTL DEF IInv

\* All of these at once: the maps that setReadCache and the evictions update one after
\* the other, under one lock, agree at every step.
THEOREM CacheMapsAgree == Spec => []CachesAgree
BY CountsAreExact, NoBlobLeaks, NeverBogus, OrderIsEntries, PTL DEF CachesAgree

\* The size that is kept is that of the blobs, and a cache that nobody is filling is within
\* its limit, whatever was read and evicted in between.
THEOREM CacheWithinMax == Spec => []SizeWithinMax
BY InvariantSize, PTL DEF SizeInv

\* A read leaves its file in the cache if the file fits: the evictions that make room for
\* it, and those of other readers, do not take it.
THEOREM FreshEntriesSurvive == Spec => FreshEntrySurvives
<1>. DEFINE Kept == \A r \in Readers :
              pc[r] = "evict" /\ pc'[r] = "done" /\ Size[got[r]] <= MaxSize
                => entBlob[want[r]] = got[r]
<1>1. SizeInv => Kept BY DEF SizeInv, FreshIsFirst
<1>. HIDE DEF Kept
<1>2. Spec => [][Kept]_vars BY <1>1, InvariantSize, PTL
<1>3. QED BY <1>2 DEF FreshEntrySurvives, Kept

=============================================================================
