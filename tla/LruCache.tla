------------------------------ MODULE LruCache ------------------------------
(***************************************************************************)
(* What the lru package (internal/lru) promises its callers: a map from    *)
(* keys to values together with the order in which the keys were last      *)
(* used.  A call is one step.  LruRing, the ring of pointers and the map   *)
(* of the code, implements it.                                             *)
(***************************************************************************)
EXTENDS Recency

CONSTANTS
  Keys, Values,
  EntrySize,    \* EntrySize[k, v]: the size of an entry; 1 when Cache.EntrySize is nil
  MaxSize       \* 0: no limit

VARIABLES
  order,    \* the entries, <<key, value>>, most recently used first
  ret       \* what the last call returned

vars == <<order, ret>>

\* The place of the entry with key k, or 0.
Position(k) ==
  LET at == {i \in 1..Len(order) : order[i][1] = k}
  IN IF at = {} THEN 0 ELSE CHOOSE i \in at : TRUE

\* The entries without the one at place i.
Others(i) ==
  IF i = 0 THEN order ELSE SubSeq(order, 1, i - 1) \o SubSeq(order, i + 1, Len(order))

Init == order = <<>> /\ ret = <<>>

\* The key becomes the most recent one; what does not fit any more is dropped
\* from the other end, the new entry itself if it is larger than the cache.
Set(k, v) ==
  /\ ret' = <<>>
  /\ order' = Trimmed(<< <<k, v>> >> \o Others(Position(k)), EntrySize, MaxSize)

Found(k) == IF Position(k) = 0 THEN <<>> ELSE <<order[Position(k)][2]>>

\* A hit makes the key the most recent one.
GetOk(k) ==
  LET i == Position(k) IN
  /\ ret' = Found(k)
  /\ order' = IF i = 0 THEN order ELSE <<order[i]>> \o Others(i)

PeekOk(k) == ret' = Found(k) /\ UNCHANGED order

Delete(k) == ret' = <<>> /\ order' = Others(Position(k))

DeleteOldest ==
  /\ ret' = IF order = <<>> THEN <<>> ELSE Oldest(order)
  /\ order' = IF order = <<>> THEN <<>> ELSE ButOldest(order)

Clear == order' = <<>> /\ ret' = <<>>

\* The keys, and their values, from the most to the least recently used.
ForEach ==
  /\ ret' = [i \in DOMAIN order |-> order[i][1]] \o [i \in DOMAIN order |-> order[i][2]]
  /\ UNCHANGED order

LenAndSize == ret' = <<Len(order), SizeOf(order, EntrySize, Len(order))>> /\ UNCHANGED order

Next ==
  \/ \E k \in Keys, v \in Values : Set(k, v)
  \/ \E k \in Keys : GetOk(k) \/ PeekOk(k) \/ Delete(k)
  \/ DeleteOldest
  \/ Clear
  \/ ForEach
  \/ LenAndSize

Spec == Init /\ [][Next]_vars

=============================================================================
