------------------------------- MODULE Recency -------------------------------
(***************************************************************************)
(* The order of an lru cache as its users see it: the keys, from the most  *)
(* to the least recently used, or the entries in that order.  ReadCache    *)
(* and RemoteStore keep one; LruCache says what the order is for.          *)
(***************************************************************************)
EXTENDS Integers, Sequences

\* What the order lists, each key once.
Listed(s, h) == \E i \in 1..Len(s) : s[i] = h
NoDuplicates(s) == \A i, j \in 1..Len(s) : s[i] = s[j] => i = j

\* moveToFront of the element with key h, or newAtFront when there is none.
ToFront(s, h) ==
  IF Listed(s, h)
    THEN LET i == CHOOSE i \in 1..Len(s) : s[i] = h IN
         [k \in 1..Len(s) |->
            IF k = 1 THEN h ELSE IF k <= i THEN s[k - 1] ELSE s[k]]
    ELSE <<h>> \o s

\* The element that DeleteOldest removes, and the ring without it.
Oldest(s) == s[Len(s)]
ButOldest(s) == SubSeq(s, 1, Len(s) - 1)

\* The size of the n most recent elements together.
SizeOf(s, size, n) ==
  LET sum[i \in 0..Len(s)] == IF i = 0 THEN 0 ELSE sum[i - 1] + size[s[i]]
  IN sum[n]

\* How many elements, the most recent ones first, fit into max together, and those: what
\* a loop leaves that deletes the oldest until the rest fits.  A max of zero is no limit.
Fitting(s, size, max) ==
  IF max = 0
    THEN Len(s)
    ELSE CHOOSE n \in 0..Len(s) :
           /\ SizeOf(s, size, n) <= max
           /\ \A m \in 0..Len(s) : SizeOf(s, size, m) <= max => m <= n
Trimmed(s, size, max) == SubSeq(s, 1, Fitting(s, size, max))

=============================================================================
