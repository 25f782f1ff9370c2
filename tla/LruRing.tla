------------------------------- MODULE LruRing ------------------------------
(***************************************************************************)
(* The lru package as it is written (internal/lru/lru.go): entries in a    *)
(* doubly linked ring, whose head is the most recently used, a map from    *)
(* keys to entries, and a size that is kept incrementally.  Pointers are   *)
(* members of Entries; the fields of an entry are functions.  An entry     *)
(* that nothing points to is collected: its fields are Nil again.          *)
(***************************************************************************)
EXTENDS Integers, FiniteSets, Sequences, Recency

CONSTANTS Keys, Values, EntrySize, MaxSize, Entries, Nil

ASSUME LruAssumption ==
  /\ EntrySize \in [Keys \X Values -> Nat]
  /\ MaxSize \in Nat
  /\ Nil \notin Entries \cup Keys \cup Values

VARIABLES
  head,       \* the most recently used entry, or Nil
  prev, next, key, value,   \* the fields of each entry
  lookup,     \* lookup[k]: the entry with key k, or Nil
  curSize,
  evicting,   \* Set is in its eviction loop
  ret         \* what the last call returned

ring == <<head, prev, next, key, value, lookup, curSize>>
vars == <<head, prev, next, key, value, lookup, curSize, evicting, ret>>

Present == {lookup[k] : k \in Keys} \ {Nil}

Init ==
  /\ head = Nil
  /\ prev = [e \in Entries |-> Nil]
  /\ next = [e \in Entries |-> Nil]
  /\ key = [e \in Entries |-> Nil]
  /\ value = [e \in Entries |-> Nil]
  /\ lookup = [k \in Keys |-> Nil]
  /\ curSize = 0
  /\ evicting = FALSE
  /\ ret = <<>>

-----------------------------------------------------------------------------
(* The ring *)

\* Mutant: the old last entry is not linked to the new one.
NewAtFrontLastUnlinked(e) ==
  /\ prev' = IF head = Nil
               THEN [prev EXCEPT ![e] = e]
               ELSE [prev EXCEPT ![e] = prev[head], ![head] = e]
  /\ next' = IF head = Nil THEN [next EXCEPT ![e] = e] ELSE [next EXCEPT ![e] = head]
  /\ head' = e

\* newAtFront: between the last entry and the head, as the new head.
newAtFront(e) ==
  /\ prev' = IF head = Nil
               THEN [prev EXCEPT ![e] = e]
               ELSE [prev EXCEPT ![e] = prev[head], ![head] = e]
  /\ next' = IF head = Nil
               THEN [next EXCEPT ![e] = e]
               ELSE [next EXCEPT ![e] = head, ![prev[head]] = e]
  /\ head' = e

\* Mutant: the entry is relinked, but the head stays.
MoveBehindHead(e) ==
  LET p == [prev EXCEPT ![next[e]] = prev[e]]
      n == [next EXCEPT ![prev[e]] = next[e]]
  IN /\ IF head = e
          THEN UNCHANGED <<prev, next>>
          ELSE /\ prev' = [p EXCEPT ![e] = p[head], ![head] = e]
               /\ next' = [n EXCEPT ![e] = head, ![p[head]] = e]
     /\ head' = head

\* moveToFront: the entry is taken out, and put back as newAtFront does.  The
\* assignments are in the order of the code: prev[head] is read after the entry
\* was taken out, when the entry may have been the last one.
moveToFront(e) ==
  LET p == [prev EXCEPT ![next[e]] = prev[e]]
      n == [next EXCEPT ![prev[e]] = next[e]]
  IN IF head = e
       THEN UNCHANGED <<head, prev, next>>
       ELSE /\ prev' = [p EXCEPT ![e] = p[head], ![head] = e]
            /\ next' = [n EXCEPT ![e] = head, ![p[head]] = e]
            /\ head' = e

\* deleteElement, after which nothing points to the entry.
deleteElement(e) ==
  /\ head' = IF next[e] = e THEN Nil ELSE IF head = e THEN next[e] ELSE head
  /\ prev' = [[prev EXCEPT ![next[e]] = prev[e]] EXCEPT ![e] = Nil]
  /\ next' = [[next EXCEPT ![prev[e]] = next[e]] EXCEPT ![e] = Nil]
  /\ key' = [key EXCEPT ![e] = Nil]
  /\ value' = [value EXCEPT ![e] = Nil]
  /\ lookup' = [lookup EXCEPT ![key[e]] = Nil]
  /\ curSize' = curSize - EntrySize[key[e], value[e]]

deleteOldest == deleteElement(prev[head])

-----------------------------------------------------------------------------
(* The methods.  A call begins when the one before it has returned. *)

\* Whether the loop of Set goes on.
TooLarge(size) == MaxSize # 0 /\ size > MaxSize

\* Mutant: the value is replaced before the size of the old one is subtracted.
SetExistingReplacesFirst(k, v) ==
  /\ ~evicting
  /\ lookup[k] # Nil
  /\ moveToFront(lookup[k])
  /\ curSize' = curSize - EntrySize[k, v] + EntrySize[k, v]
  /\ value' = [value EXCEPT ![lookup[k]] = v]
  /\ evicting' = TooLarge(curSize')
  /\ ret' = <<>>
  /\ UNCHANGED <<key, lookup>>

\* Set of a key that is present, up to the eviction loop.
SetExisting(k, v) ==
  /\ ~evicting
  /\ lookup[k] # Nil
  /\ moveToFront(lookup[k])
  /\ curSize' = curSize - EntrySize[k, value[lookup[k]]] + EntrySize[k, v]
  /\ value' = [value EXCEPT ![lookup[k]] = v]
  /\ evicting' = TooLarge(curSize')
  /\ ret' = <<>>
  /\ UNCHANGED <<key, lookup>>

\* Set of a key that is not present: an entry is allocated.
SetNew(k, v) ==
  /\ ~evicting
  /\ lookup[k] = Nil
  /\ \E e \in Entries \ Present :
       /\ newAtFront(e)
       /\ key' = [key EXCEPT ![e] = k]
       /\ value' = [value EXCEPT ![e] = v]
       /\ lookup' = [lookup EXCEPT ![k] = e]
  /\ curSize' = curSize + EntrySize[k, v]
  /\ evicting' = TooLarge(curSize')
  /\ ret' = <<>>

\* One round of the loop of Set.  deleteOldest of an empty cache panics.
Evict ==
  /\ evicting
  /\ head # Nil
  /\ deleteOldest
  /\ evicting' = TooLarge(curSize')
  /\ UNCHANGED ret

\* GetOk, with Get and Contains, which return a part of its result.
GetOk(k) ==
  /\ ~evicting
  /\ IF lookup[k] = Nil
       THEN ret' = <<>> /\ UNCHANGED <<head, prev, next>>
       ELSE ret' = <<value[lookup[k]]>> /\ moveToFront(lookup[k])
  /\ UNCHANGED <<key, value, lookup, curSize, evicting>>

PeekOk(k) ==
  /\ ~evicting
  /\ ret' = IF lookup[k] = Nil THEN <<>> ELSE <<value[lookup[k]]>>
  /\ UNCHANGED <<ring, evicting>>

Delete(k) ==
  /\ ~evicting
  /\ IF lookup[k] = Nil THEN UNCHANGED ring ELSE deleteElement(lookup[k])
  /\ ret' = <<>>
  /\ UNCHANGED evicting

DeleteOldest ==
  /\ ~evicting
  /\ IF head = Nil
       THEN ret' = <<>> /\ UNCHANGED ring
       ELSE /\ ret' = <<key[prev[head]], value[prev[head]]>>
            /\ deleteOldest
  /\ UNCHANGED evicting

Clear ==
  /\ ~evicting
  /\ head' = Nil
  /\ lookup' = [k \in Keys |-> Nil]
  /\ curSize' = 0
  /\ prev' = [e \in Entries |-> Nil]
  /\ next' = [e \in Entries |-> Nil]
  /\ key' = [e \in Entries |-> Nil]
  /\ value' = [e \in Entries |-> Nil]
  /\ ret' = <<>>
  /\ UNCHANGED evicting

\* The entries that a loop from hd along nx visits, until it would be at hd again.
Visited(hd, nx, entries) ==
  LET From[e \in entries] == IF nx[e] = hd THEN <<e>> ELSE <<e>> \o From[nx[e]]
  IN IF hd = Nil THEN <<>> ELSE From[hd]

Walk == Visited(head, next, Present)
Pairs == LET w == Walk IN [i \in DOMAIN w |-> <<key[w[i]], value[w[i]]>>]

\* ForEach, and DumpHTML, which prints what it visits.
ForEach ==
  /\ ~evicting
  /\ ret' = [i \in DOMAIN Pairs |-> Pairs[i][1]] \o [i \in DOMAIN Pairs |-> Pairs[i][2]]
  /\ UNCHANGED <<ring, evicting>>

\* Len and Size.
LenAndSize ==
  /\ ~evicting
  /\ ret' = <<Cardinality(Present), curSize>>
  /\ UNCHANGED <<ring, evicting>>

Next ==
  \/ \E k \in Keys, v \in Values : SetExisting(k, v) \/ SetNew(k, v)
  \/ \E k \in Keys : GetOk(k) \/ PeekOk(k) \/ Delete(k)
  \/ Evict
  \/ DeleteOldest
  \/ Clear
  \/ ForEach
  \/ LenAndSize

Spec == Init /\ [][Next]_vars

-----------------------------------------------------------------------------
(* Properties *)

RingType ==
  /\ head \in Entries \cup {Nil}
  /\ prev \in [Entries -> Entries \cup {Nil}]
  /\ next \in [Entries -> Entries \cup {Nil}]
  /\ key \in [Entries -> Keys \cup {Nil}]
  /\ value \in [Entries -> Values \cup {Nil}]
  /\ lookup \in [Keys -> Entries \cup {Nil}]
  /\ evicting \in BOOLEAN

\* The fields have their types, and the incremental size is never negative.
TypeOK == RingType /\ curSize \in Nat

\* The links of the ring are each other's inverse on the entries of the map, and
\* only there; the head is one of them, and an entry has the key that finds it.
\* ("lookup and head always contain exactly the same elements", lru.go.)  The loop of
\* Set ends before it runs out of entries, so deleteOldest never panics: what curSize
\* counts is really in the ring.
RingLinked ==
  /\ head \in Present \cup {Nil}
  /\ head = Nil <=> Present = {}
  /\ \A e \in Present :
       /\ next[e] \in Present /\ prev[next[e]] = e
       /\ prev[e] \in Present /\ next[prev[e]] = e
  /\ \A k \in Keys : lookup[k] # Nil => key[lookup[k]] = k /\ value[lookup[k]] # Nil
  /\ evicting => head # Nil

\* The abstract call of Set happens when the key is put to the front: the rounds of the
\* eviction loop, which no caller sees, change nothing of the abstract state.
Kept == Trimmed(Pairs, EntrySize, MaxSize)
LRU == INSTANCE LruCache WITH order <- Kept

\* The ring, the map and the incremental size behave as a map with a recency
\* order, for every sequence of calls: each call returns the same, ForEach visits
\* each entry once and in order, Size is the sum of the sizes, and Set drops the
\* oldest entries and no more of them than it has to.
ImplementsLruCache == LRU!Spec

=============================================================================
