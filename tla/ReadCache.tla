----------------------------- MODULE ReadCache ------------------------------
(***************************************************************************)
(* The file content cache of the NFS server (nfs.go): entCache is an LRU   *)
(* of handles, blobCache holds the contents by hash, and blobCount counts  *)
(* the entries of entCache that share a blob, so that identical files are  *)
(* kept once.  NFS read calls of several connections run concurrently: a   *)
(* miss drops FS.mu, fetches the file, and takes FS.mu again to fill.      *)
(*                                                                         *)
(* Contents are blobs; a blob is identified with its SHA-256.  The lru     *)
(* package is used through what it promises: a map and a recency order.    *)
(* blobCache has no MaxSize and only its members and size are ever used,   *)
(* so its own recency order is left out.                                   *)
(***************************************************************************)
EXTENDS Integers, Sequences, FiniteSets, Recency

CONSTANTS
  Readers,      \* NFS read calls in progress
  Handles,      \* NFS handles of files in module zips
  StatusHandle, \* the handle of the status file
  Blobs,        \* contents
  Contents,     \* the contents of each file in a zip
  Size,         \* the length of each blob
  MaxSize,      \* FS.GetFileCacheSize
  NoBlob, NoReader

AllHandles == Handles \cup {StatusHandle}

ASSUME ReadCacheAssumption ==
  /\ IsFiniteSet(Handles)
  /\ StatusHandle \notin Handles
  /\ NoBlob \notin Blobs
  /\ NoReader \notin Readers
  /\ Contents \in [Handles -> Blobs]
  /\ Size \in [Blobs -> Nat]
  /\ MaxSize \in Nat \ {0}

VARIABLES
  pc,          \* pc[r]: where the read call is
  want,        \* want[r]: its handle
  got,         \* got[r]: the contents it has, NoBlob if none
  mu,          \* the reader inside the critical section of setReadCache
  order,       \* entCache, most recently used first
  entBlob,     \* entBlob[h]: blobHash of the entry, NoBlob if there is none
  blobCount,   \* blobCount[b], 0 if absent
  blobCache,   \* keys of blobCache
  curSize,     \* blobCache.Size()
  panicked,    \* "bogus decrement"
  snapshot,    \* the contents of statusCache, NoBlob until first generated
  recent       \* whether statusCache is younger than regenEvery

readVars   == <<pc, want, got>>
cacheVars  == <<order, entBlob, blobCount, blobCache, curSize, panicked>>
statusVars == <<snapshot, recent>>
vars == <<pc, want, got, mu, order, entBlob, blobCount, blobCache, curSize,
          panicked, snapshot, recent>>

Init ==
  /\ pc = [r \in Readers |-> "idle"]
  /\ want = [r \in Readers |-> StatusHandle]
  /\ got = [r \in Readers |-> NoBlob]
  /\ mu = NoReader
  /\ order = <<>>
  /\ entBlob = [h \in AllHandles |-> NoBlob]
  /\ blobCount = [b \in Blobs |-> 0]
  /\ blobCache = {}
  /\ curSize = 0
  /\ panicked = FALSE
  /\ snapshot = NoBlob
  /\ recent = FALSE

-----------------------------------------------------------------------------
(* getFileContents *)

\* The entry and its blob are cached: the read returns at once.
Hit(r, h) ==
  /\ pc[r] \in {"idle", "done"}
  /\ mu = NoReader
  /\ entBlob[h] # NoBlob
  /\ entBlob[h] \in blobCache
  /\ order' = ToFront(order, h)
  /\ want' = [want EXCEPT ![r] = h]
  /\ got' = [got EXCEPT ![r] = entBlob[h]]
  /\ pc' = [pc EXCEPT ![r] = "done"]
  /\ UNCHANGED <<mu, entBlob, blobCount, blobCache, curSize, panicked, statusVars>>

\* No entry, or an entry without its blob (which is still moved to the front):
\* the lock is released and the file is fetched.
Miss(r, h) ==
  /\ pc[r] \in {"idle", "done"}
  /\ mu = NoReader
  /\ entBlob[h] \notin blobCache
  /\ order' = IF entBlob[h] # NoBlob THEN ToFront(order, h) ELSE order
  /\ want' = [want EXCEPT ![r] = h]
  /\ got' = [got EXCEPT ![r] = NoBlob]
  /\ pc' = [pc EXCEPT ![r] = "fetch"]
  /\ UNCHANGED <<mu, entBlob, blobCount, blobCache, curSize, panicked, statusVars>>

\* fromHandle and getFileContentsUncached find the file of a module.
FetchFile(r) ==
  /\ pc[r] = "fetch"
  /\ want[r] # StatusHandle
  /\ got' = [got EXCEPT ![r] = Contents[want[r]]]
  /\ pc' = [pc EXCEPT ![r] = "fill"]
  /\ UNCHANGED <<want, mu, cacheVars, statusVars>>

\* statusFile, under FS.mu: the snapshot, regenerated once it is not recent.
StatusFile(b) ==
  /\ mu = NoReader
  /\ IF recent
       THEN b = snapshot /\ UNCHANGED statusVars
       ELSE snapshot' = b /\ recent' = TRUE

\* getFileContentsUncached of the status file.
FetchStatus(r) ==
  /\ pc[r] = "fetch"
  /\ want[r] = StatusHandle
  /\ \E b \in Blobs :
       /\ StatusFile(b)
       /\ got' = [got EXCEPT ![r] = b]
  /\ pc' = [pc EXCEPT ![r] = "fill"]
  /\ UNCHANGED <<want, mu, cacheVars>>

\* The handle is stale or the store fails: the read returns the error.
FetchFails(r) ==
  /\ pc[r] = "fetch"
  /\ want[r] # StatusHandle
  /\ pc' = [pc EXCEPT ![r] = "done"]
  /\ UNCHANGED <<want, got, mu, cacheVars, statusVars>>

-----------------------------------------------------------------------------
(* setReadCache, in one critical section of FS.mu *)

\* decrBlobCountLocked.
DecrBlobCountLocked(b) ==
  IF blobCount[b] = 0
    THEN /\ panicked' = TRUE
         /\ UNCHANGED <<blobCount, blobCache, curSize>>
    ELSE /\ blobCount' = [blobCount EXCEPT ![b] = @ - 1]
         /\ blobCache' = IF blobCount[b] = 1 THEN blobCache \ {b} ELSE blobCache
         /\ curSize' = IF blobCount[b] = 1 /\ b \in blobCache
                         THEN curSize - Size[b] ELSE curSize
         /\ UNCHANGED panicked

\* Mutant: the reference of the entry that is replaced is not dropped.
SetReleaseNothing(r) ==
  /\ pc[r] = "fill"
  /\ mu = NoReader
  /\ mu' = r
  /\ pc' = [pc EXCEPT ![r] = "insert"]
  /\ UNCHANGED <<blobCount, blobCache, curSize, panicked, want, got, order, entBlob, statusVars>>

\* Mutant: the count of the new contents is decremented instead of the old.
SetReleaseDecrNew(r) ==
  /\ pc[r] = "fill"
  /\ mu = NoReader
  /\ mu' = r
  /\ pc' = [pc EXCEPT ![r] = "insert"]
  /\ IF entBlob[want[r]] # NoBlob
       THEN blobCount' = [blobCount EXCEPT ![got[r]] = @ - 1]
       ELSE UNCHANGED blobCount
  /\ UNCHANGED <<want, got, order, entBlob, blobCache, curSize, panicked, statusVars>>

\* The lock is taken; an entry that is being replaced gives up its reference.
SetRelease(r) ==
  /\ pc[r] = "fill"
  /\ mu = NoReader
  /\ mu' = r
  /\ pc' = [pc EXCEPT ![r] = "insert"]
  /\ IF entBlob[want[r]] # NoBlob
       THEN DecrBlobCountLocked(entBlob[want[r]])
       ELSE UNCHANGED <<blobCount, blobCache, curSize, panicked>>
  /\ UNCHANGED <<want, got, order, entBlob, statusVars>>

\* Mutant: a replaced entry keeps its place in the recency order.
SetInsertInPlace(r) ==
  /\ pc[r] = "insert"
  /\ order' = IF entBlob[want[r]] # NoBlob THEN order ELSE Append(order, want[r])
  /\ entBlob' = [entBlob EXCEPT ![want[r]] = got[r]]
  /\ blobCount' = [blobCount EXCEPT ![got[r]] = @ + 1]
  /\ blobCache' = blobCache \cup {got[r]}
  /\ curSize' = IF got[r] \in blobCache THEN curSize ELSE curSize + Size[got[r]]
  /\ pc' = [pc EXCEPT ![r] = "evict"]
  /\ UNCHANGED <<want, got, mu, panicked, statusVars>>

\* entCache.Set, the new reference, blobCache.Set.
SetInsert(r) ==
  /\ pc[r] = "insert"
  /\ order' = ToFront(order, want[r])
  /\ entBlob' = [entBlob EXCEPT ![want[r]] = got[r]]
  /\ blobCount' = [blobCount EXCEPT ![got[r]] = @ + 1]
  /\ blobCache' = blobCache \cup {got[r]}
  /\ curSize' = IF got[r] \in blobCache THEN curSize ELSE curSize + Size[got[r]]
  /\ pc' = [pc EXCEPT ![r] = "evict"]
  /\ UNCHANGED <<want, got, mu, panicked, statusVars>>

\* Mutant: the oldest entry is looked up (and so moved to the front), not deleted.
EvictOldestRotates(r) ==
  /\ pc[r] = "evict"
  /\ curSize > MaxSize
  /\ order # <<>>
  /\ order' = ToFront(order, Oldest(order))
  /\ UNCHANGED <<readVars, mu, entBlob, blobCount, blobCache, curSize, panicked, statusVars>>

\* One round of the eviction loop.
EvictOldest(r) ==
  /\ pc[r] = "evict"
  /\ curSize > MaxSize
  /\ order # <<>>
  /\ order' = ButOldest(order)
  /\ entBlob' = [entBlob EXCEPT ![Oldest(order)] = NoBlob]
  /\ DecrBlobCountLocked(entBlob[Oldest(order)])
  /\ UNCHANGED <<readVars, mu, statusVars>>

\* Mutant: the loop stops one round early when one entry is left.
SetDoneEarly(r) ==
  /\ pc[r] = "evict"
  /\ curSize <= MaxSize \/ Len(order) <= 1
  /\ mu' = NoReader
  /\ pc' = [pc EXCEPT ![r] = "done"]
  /\ UNCHANGED <<want, got, cacheVars, statusVars>>

\* The loop ends and the lock is released; the read returns the contents.
SetDone(r) ==
  /\ pc[r] = "evict"
  /\ curSize <= MaxSize \/ order = <<>>
  /\ mu' = NoReader
  /\ pc' = [pc EXCEPT ![r] = "done"]
  /\ UNCHANGED <<want, got, cacheVars, statusVars>>

-----------------------------------------------------------------------------
(* The status file *)

\* billyFS.Lstat (GETATTR, LOOKUP) of the status file.
LstatStatus ==
  /\ \E b \in Blobs : StatusFile(b)
  /\ UNCHANGED <<readVars, mu, cacheVars>>

\* regenEvery has passed since the snapshot was generated.
StatusAges ==
  /\ recent
  /\ recent' = FALSE
  /\ UNCHANGED <<readVars, mu, cacheVars, snapshot>>

-----------------------------------------------------------------------------
Read(r) == \E h \in AllHandles : Hit(r, h) \/ Miss(r, h)

Fetch(r) == FetchFile(r) \/ FetchStatus(r) \/ FetchFails(r)

SetReadCache(r) == SetRelease(r) \/ SetInsert(r) \/ EvictOldest(r) \/ SetDone(r)

Next ==
  \/ \E r \in Readers : Read(r) \/ Fetch(r) \/ SetReadCache(r)
  \/ LstatStatus
  \/ StatusAges

Spec == Init /\ [][Next]_vars

\* A read call that has started is scheduled; a sync.Mutex is not barged on
\* forever (starvation mode), so a call that waits for it gets it.
FairSpec ==
  Spec /\ \A r \in Readers : SF_vars(Fetch(r)) /\ SF_vars(SetReadCache(r))

-----------------------------------------------------------------------------
(* Properties *)

PCs == {"idle", "fetch", "fill", "insert", "evict", "done"}

\* The type invariant.  In particular no interleaving of fills and evictions
\* takes a blobCount below zero.
TypeOK ==
  /\ pc \in [Readers -> PCs]
  /\ want \in [Readers -> AllHandles]
  /\ got \in [Readers -> Blobs \cup {NoBlob}]
  /\ mu \in Readers \cup {NoReader}
  /\ order \in Seq(AllHandles)
  /\ entBlob \in [AllHandles -> Blobs \cup {NoBlob}]
  /\ blobCount \in [Blobs -> Nat]
  /\ blobCache \subseteq Blobs
  /\ curSize \in Int
  /\ panicked \in BOOLEAN
  /\ snapshot \in Blobs \cup {NoBlob}
  /\ recent \in BOOLEAN

\* The recency order lists every entry of entCache exactly once: "lookup and
\* head always contain exactly the same elements" (lru.go).
OrderListsEntries ==
  /\ \A h \in AllHandles : entBlob[h] # NoBlob <=> Listed(order, h)
  /\ NoDuplicates(order)

\* The handles whose entry holds a reference: all entries, except the one that
\* setReadCache is about to replace.
Counted ==
  {h \in AllHandles : entBlob[h] # NoBlob}
    \ {want[r] : r \in {x \in Readers : pc[x] = "insert"}}

RefsTo(b) == {h \in Counted : entBlob[h] = b}

\* blobCount is the "ref count of blobHash in entCache", at every step of every
\* interleaving of fills and evictions.
RefCounts == \A b \in Blobs : blobCount[b] = Cardinality(RefsTo(b))

\* A blob is cached exactly while an entry refers to it: nothing leaks, and an
\* entry is never left without its contents.
BlobsAreReferenced == blobCache = {b \in Blobs : blobCount[b] > 0}

\* "bogus decrement" is unreachable.
NoBogusDecrement == ~panicked

\* The maps of the cache agree at every step: the counts are those of the references, a
\* blob is there while it is referred to, and the recency order lists the entries, so
\* that the "bogus decrement" of decrBlobCountLocked is never met.
CachesAgree == RefCounts /\ BlobsAreReferenced /\ OrderListsEntries /\ NoBogusDecrement

\* The critical section of setReadCache has one reader, which has contents.
OneFill ==
  \A r \in Readers :
    /\ pc[r] \in {"insert", "evict"} <=> mu = r
    /\ pc[r] \in {"fill", "insert", "evict"} => got[r] \in Blobs

\* The inductive invariant behind the theorems of ReadCacheProofs.
IInv ==
  /\ TypeOK
  /\ OrderListsEntries
  /\ RefCounts
  /\ BlobsAreReferenced
  /\ NoBogusDecrement
  /\ OneFill

\* The bytes of the blobs that are cached, each blob once.
CachedBytes == UNION {{b} \X (1..Size[b]) : b \in blobCache}

\* The size that setReadCache keeps incrementally is the number of bytes that are cached,
\* so that what it bounds is really the memory that is used; and whenever the lock is free
\* it is within FileCacheSize, even after a blob that is larger than the whole cache was
\* read.
SizeWithinMax ==
  /\ curSize = Cardinality(CachedBytes)
  /\ mu = NoReader => curSize <= MaxSize

\* Until the loop ends, the entry that was just set is the first in the order: the loop
\* comes to it only if it does not fit by itself.
FreshIsFirst ==
  \A r \in Readers :
    pc[r] = "evict" /\ Size[got[r]] <= MaxSize =>
      order # <<>> /\ order[1] = want[r] /\ entBlob[want[r]] = got[r]

\* What SizeWithinMax and FreshEntrySurvives need beside IInv.
SizeInv == IsFiniteSet(CachedBytes) /\ SizeWithinMax /\ FreshIsFirst

\* A file that fits in the cache is still cached when the read that fetched it
\* has filled the cache: eviction takes older entries first.
FreshEntrySurvives ==
  [][\A r \in Readers : pc[r] = "evict" /\ pc'[r] = "done" /\ Size[got[r]] <= MaxSize
       => entBlob[want[r]] = got[r]]_vars

\* Every read that is started returns.
ReadsReturn == \A r \in Readers : pc[r] = "fetch" ~> pc[r] = "done"

=============================================================================
