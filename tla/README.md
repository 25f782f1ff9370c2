# A TLA+ model of gomodfs

gomodfs serves the Go module cache as a read-only file system, over NFS, FUSE,
WinFsp or WebDAV. A module version is downloaded from a module proxy when it is
first needed, kept in a git repository, and served from there.

This directory holds TLA+ modules that model parts of it, TLC configurations
that check them on small instances, and TLAPS proofs of their safety invariants. `Recency`
is the recency order of an lru cache, which LruCache, ReadCache and RemoteStore share; a
module `XProofs` holds the theorems about `X`.

## The system

| Component | State | Operations | Where |
|---|---|---|---|
| git object reader | `pendReq`, `wake`, `catFileBatchRunning`, a goroutine, a helper process and two pipes | `getObject`, `StopGitHelperProcess`, `runCatFileBatch` | `store/gitstore` |
| git module store | objects and three refs per module version (tree, `(mod)`, `(info)`) | `GetZipRoot`, `GetModFile`, `GetInfoFile`, `PutModule`, `PutModFile`, `PutInfoFile`, `CachedModules`, tree builder, pack writer | `store/gitstore` |
| module fetch | `zipRootCache`, singleflight groups | `getZipRoot`, `getMetaFile`, `downloadZip`, `downloadMetaFile`, `getTailscaleGoRoot` | `gomodfs.go`, `tsgo.go` |
| NFS handles | `handle`, `modVerHash`, `pathHashTarget` | `ToHandle`, `FromHandle`, `initHandleMapsLocked` | `nfs.go`, `gomodfs.go` |
| NFS read cache | `entCache`, `blobCache`, `blobCount`, `statusCache` | `OnNFSRead`, `getFileContents`, `setReadCache`, `statusFile` | `nfs.go` |
| lru | a ring of entries, a map, a size | `Set`, `GetOk`, `PeekOk`, `Delete`, `DeleteOldest` | `internal/lru` |
| path contents cache | an lru with a size limit | `FS.getFileContents` | `gomodfs.go` |
| path parsing | none | `parsePath`, `parseTSGoPath`, `parseModVersion` | `path.go` |
| remote store | mod maps, metadata and file caches, singleflight | client and HTTP handler | `store/remotestore` |
| NFS server | one request loop and one write serializer per connection; READDIR cookies | `serve`, `handle`, `serializeWrites`, `onReadDir` | `temp-dev-fork/willscott/go-nfs` |
| FUSE, WinFsp, WebDAV | FUSE nodes list their directory once | `Lookup`, `Read`, `Stat`, `OpenFile` | `fuse.go`, `winfsp.go`, `webdav.go` |
| statistics | `Started` and `Ended` per operation | `StartSpan`, `End` | `stats` |
| portmapper | none | `serveConn`, `reply` | `portmap` |

**Interactions.** The file systems call `getZipRoot` and `getMetaFile`, which
look in memory, then in the store, then at the proxies, and write what they
download to the store. Every read of the git store goes through the object
reader. The NFS server keeps what it read in the read cache, and gives out
handles that are to stay valid after a restart, when only the store is left.

**What is hard.** Requests of several connections run at once and release
`FS.mu` while they wait. A goroutine serves a queue whose callers may leave, and
whose helper may die, block or be told to stop. Each step of storing a module
may fail, and the process may stop between any two of them. Clients hold handles
of processes that are gone. Several proxies may answer for one module version.
`PROJECT.json` lists each of these hazards with its line.

**What makes each part correct.**

* Object reader: each call gets one answer, about its own revision; one
  goroutine runs; nobody sleeps beside work; a stop stops.
* Store and fetch: what is returned is stored; a tree is from one source; nothing
  is fetched twice; a read-only server does not download; every call returns.
* Handles: that of a file resolves, before and after a restart; that of a directory
  does if something below it is stored.
* Read cache: counts, blobs, size and recency order agree; the size limit holds;
  what was just read stays if it fits.
* lru: ring, map and size agree. Remote store: as the local one. NFS server: each
  request has one reply, a closed connection leaves no goroutine, and no request ends
  the server. READDIR:
  each entry once. Path parsing: the inverse of path building.

## The modules

### CatFileBatch: the git object reader

A caller is one `getObject` or `StopGitHelperProcess` call; a member of
`Runners` is a slot in which a `runCatFileBatch` goroutine may run (the model
does not limit them to one). `pendReq`, `wake` and `running` are the fields of
`Storage`; `call` and `res` are the caller and its 1-buffered channel; `pc` is
the goroutine's place in `runCatFileBatch`, with one action for each outcome of
each blocking operation; `stdin`, `stdout`, `sending` and `proc` are the helper
and its pipes. What git says about a revision is the constant `Answer`: an
object, missing, ambiguous, or too large. `HelperHeader`, `HelperBody`,
`HelperExit` and `HelperDies` stand for `git cat-file --batch`, which is external.

`MCCatFileBatch` gives it three revisions (one of each kind that takes another
path), one stop and two goroutine slots. Three calls are enough for one to be
served, one to be queued behind it and one to arrive during the restart. Two
slots are enough to see a second goroutine.

| Run | Result | What it shows |
|---|---|---|
| `CatFileBatch.cfg` | pass | `OneRunner`, `ExactlyOnePlace`, `NoLostWakeup`, `ReplyIsForRequest`, `StopAnsweredAfterExit`; `TakenIsAnswered`: a request that was taken is answered |
| `CatFileBatchStranded.cfg` | violation | a request that arrives as the goroutine ends is not served |

The cause of the violation is that `noteCatFileBatchDone` starts a goroutine when
the queue is empty, and clears the flag when it is not; the test appears to be the
wrong way round.

Deadlock is not checked in these runs: when all calls were made and the goroutine
ended with requests in the queue, the system stops, which is the subject of
`CatFileBatchStranded.cfg`.

*Fairness.* Goroutines are scheduled, timers fire, and a helper that can go on
does. Nothing forces a caller to give up or a helper to die.

### ReadCache: the NFS read cache

A member of `Readers` is a read call in progress. `order` and `entBlob` are
`entCache` (recency order and entries), `blobCount`, `blobCache` and `curSize`
are the fields of the same names; `mu` is `FS.mu` while `setReadCache` holds it,
the only critical section that is more than one action, so that the invariants are
also checked between its steps. A blob is its hash. `StatusAges` is the passing of
`regenEvery`. The status file may have any contents each time it is generated.

`MCReadCache` has two readers and three files, two of which share a blob and one
of which is empty; the cache holds two units, and the status file may be a blob of
four. So entries share, entries evict each other, and a blob does not fit at all.

| Run | Result | What it shows |
|---|---|---|
| `ReadCache.cfg` | pass | `CachesAgree`: the recency order lists the entries, the counts are the numbers of references, exactly the blobs that are referred to are kept, and no count drops below zero; `SizeWithinMax`; `FreshEntrySurvives`; `ReadsReturn`: the eviction loop ends |

`SizeWithinMax` says that `curSize`, which `setReadCache` adds to and subtracts from, is
the number of bytes of the blobs that are kept, and within the limit whenever the lock is
free; inside `setReadCache` it may be above. The number of bytes is the cardinality of the
set of all of them (`CachedBytes`: pairs of a blob and a place in it), so that the property
needs no sum over a set.

*Fairness.* Strong fairness of a reader that waits for `FS.mu`: a `sync.Mutex`
goes into starvation mode, so a waiter is not overtaken for ever.

### ModuleFetch: from the proxies to the store and to the handles

A member of `Callers` is a goroutine of a file system request; its call is
`getZipRoot`, `getModFile`, `getInfoFile`, or the `getTailscaleGoRoot` that FUSE
calls itself. A file is the server it came from, which is all that the properties
tell apart; two proxies that serve the same bytes hide the difference. `flight` is
the singleflight group (external): `Return` gives the result of the leader to the
calls that wait. `objects`, `treeRef`, `modRef` and `infoRef` are the git
repository; `git update-ref` refuses an object that is not there (external).
Every download and every git command may fail. `Restart` may happen at any point:
it clears the memory and leaves the store and the handles that clients hold.

Handles are of two sorts. That of a file is given out when the call that found the file
is done (`ToHandle`). That of a directory above a module, or of the `.extracted` marker
of a toolchain, is given out for the name alone (`ToHandleUnfetched`): `Lstat` answers
without a look at the store. With a handle the model keeps whether the store had
anything of the module version at that time. A `dir` handle of `m` stands for a
directory that is above `m` and no other module version, which is the case in which it
depends on `m` alone. `cache`, `cache/download` and the directories of platforms are
in the maps from the start and have no handles in the model.

| Run | Result | What it shows |
|---|---|---|
| `ModuleFetch.cfg` | pass | `OneProxyPerTree`, `RootsAreStored`, `NoRedundantFetch`, `ToolchainsHaveGoMods`; `HandlesResolve`: the handle of a file always resolves, the others if something of the module version was stored when they were given out; it also says what of a module a restarted server knows |
| `ModuleFetchTSGo.cfg` | pass | `CallsReturn`, with tsgo fetched inside and outside the singleflight |

A restarted server may be read-only or not: `readOnly` is chosen when it starts.

Module versions do not interact except in the handle maps, so the instances have
one each: a toolchain from the proxies, which is a module like any other but for its
go.mod copies, with its zip and info files and a directory above it; and a tsgo, with all
its files. The lone mod and info files are kept in the same way, but that an info file is
looked for in the tree first. Handles multiply the states, so that the second run is
without `HandlesResolve` and has none of the marker: the theorem is about all of them. Two
callers are a leader and a follower, or two direct tsgo fetches; two proxies are one that fails and one that follows. No counter is bounded: the
state spaces are finite as they are, with any number of calls and restarts.

*Fairness.* Each step of a call that can be taken is taken: goroutines are
scheduled, `netSlurp` has a timeout of 30 seconds, and git commands end. Nothing
forces calls or restarts.

*Simplifications.* `PutModFile` and `PutInfoFile` are one step: between their two
git commands only an unreferenced blob is added. `setZipRootCache` and the end of
the flight are one step: a call in between finds the root in the cache or in the
flight. The search for the hash of a path inside a zip, among the files of the stored
tree, is taken to find it; directories inside a zip are files in this respect.

### LruRing and LruCache: the lru package

`LruRing` is the code: entries with `next` and `prev` pointers, the map, `head` and
the size that is kept up to date. `LruCache` is what its callers think of: a map with
a recency order, the sum of the sizes, and a limit. The abstract state is what `ForEach`
would visit, as pairs of a key and a value, as far as they fit (`Kept`). The abstract `Set`
happens when the key is put to the front; the rounds of the eviction loop, which no
caller sees, are stuttering steps, because `Kept` already leaves out the entries that the
loop will drop (`Trimmed`).

The instance has three keys and values of sizes 0, 1, 2 and 4 under a limit of 3, so
that a value may be larger than the cache, and a value without size may be the one
that is left. Every sequence of `Set`, `GetOk`, `PeekOk`, `Delete`, `DeleteOldest`,
`Clear`, `ForEach`, `Len` and `Size` is explored.

| Run | Result | What it shows |
|---|---|---|
| `LruRing.cfg` | pass | `RingLinked`: the ring is a ring, over the entries of the map; `ImplementsLruCache`: the refinement |

### NFSConn: a connection of the NFS server

The goroutines of `conn.serve`: the loop that reads records (`ReadFragment`,
`ReadEOF`), one goroutine for a request (`Handle`, `Finish`, `GiveUp`), and
`serializeWrites` (`TakeReply`, `WriteReply`, `WriteFails`, `WriterStops`). `Busy` are the
holders of the semaphore; `queue` is the reply that is being written, if one is, and
behind it `writeSerializer`, which holds `Queued` replies; `ctxDone` is the context of the
connection. The end of the connection where a fragment would begin is a clean close for
the code, between records or in one; in the middle of a fragment it is not, and the
connection is closed a little later. The client sends records in any
order, without waiting, and may leave in the middle of one.

Six records: four requests in one or two fragments, a record that becomes too large with its
second fragment, and one that is too short for a header. With one slot, both the semaphore
and the channel of replies fill up. A record that is long enough and does not parse
ends the connection as a short one does (`Malformed`, which is empty in the instance).
`SocketBuffer` bounds what is sent and not read, here to two fragments.

| Run | Result | What it shows |
|---|---|---|
| `NFSConn.cfg` | pass | `OneReply`; `RequestsAnswered`; `GoroutinesEnd`: when the client has left or `serve` has returned, the connection is closed and no goroutine stays behind, but for `Stuck`. `TypeOK` bounds what is buffered |

Deadlock is not checked: a connection ends.

*Fairness.* Goroutines are scheduled, procedures return, and a client that stays takes
its replies. Nothing makes a client send or leave.

*The failed write.* When a write fails, `serializeWrites` returns and cancels nothing.
Handlers that finish later wait for room in a channel that nobody reads. While `serve`
reads it sees the end of the connection and all is well; but if it has one more request
than there are slots left, it waits for a slot and never reads again. This is
`Stuck`, the one exception of `GoroutinesEnd`, which shows that there is no other; without
it the property fails in the instance. It takes four requests and one slot: one reply whose
write fails, one in the channel, one goroutine that waits for room there, and one request
that waits for its slot.

### NFSProcs: the NFS procedures

Several clients run procedures at once. They share `FS.handle`, and with it the slices
of segments it holds. `LOOKUP` is modelled step by step, because `append(p, name)`
writes into the array of the table where that array has room for one more name
(`Roomy`, `spare`): between the append, the hash, the entry and the attributes another
`LOOKUP` in the directory may put its own name there. `slices.Clone` gives no room for
most lengths and does for some, so the two cases are two runs.

`READDIR` and `READDIRPLUS` are calls of one page: a client mixes the two and any
limits, gives the verifier back in either byte order, and meets a store that fails
between two pages. `READ` is a call of one piece. Of the other procedures the model has
the statuses they may answer with, up to a method of `billyFS` that panics. A panic ends
the server, since nothing recovers from it (`ServerRuns`). `READLINK` is such a
call, whatever its handle is of; the server shows no links, so that a client has no
reason to make it, and nothing keeps one from it.

Two clients, and a module directory of three files, in a root with the open set that
Windows clients are shown; names so long that a page takes one or two of them; files of
length 0, 1 and 3, read two bytes at most at a time.

| Run | Result | What it shows |
|---|---|---|
| `NFSProcs.cfg` | pass | where no slice has room: `LookupAnswersItsName`, `ListingIsWhole`, `ReadIsWhole`, and `ReadOnly`: what would change something is refused, and no procedure but `READLINK` gets to a method that panics |
| `NFSProcsSharedSlice.cfg` | violation | where the slice of a directory has room, two lookups at once enter a handle with the path of another file |

Deadlock is not checked, because of the panic. `ListingIsWhole` admits a directory that is
empty because the store failed (`billyFS.ReadDir` drops the error): that this looks like
an empty directory to the client is not counted against it.

*Left out.* The stop of a listing at `HandleLimit` entries (a billion); the `MOUNT` and
lock programs, which keep no state.

### RemoteStore: the remote store, client and server

A member of `Callers` is a goroutine of the client. `modmaps`, `meta` and `flight` are
the caches and the singleflight group of `remotestore.Store`; `have`, `readOnly` and
`modmapLZ` are the store, the mode and the cache of the handler. A request fails at any
time: the network, the server, its restart, or the context of the caller that leads the
flight, whose failure the others share. `Stat` and `Readdir` are computed from the list
of files that was sent (`WalkFiles`, `BuildDirMap`), against those of the server's
store.

Two callers are a leader and a follower. One module has directories that hold no file
themselves, which the map only implies; the other has no files, and is a release of the
toolchain. The cache of the handler has room for one map, so that the two displace each
other. The metadata file is the info file, which has all that the others do: a
server may also say that it has none when it has (`GetInfoFile` hides an error of its
first lookup). `AnswersAreTheStores` therefore does not say that what is missing is not
in the store, but that only a read-only server says so, and of a file never.

| Run | Result | What it shows |
|---|---|---|
| `RemoteStore.cfg` | pass | `ClientSeesTheTree`, `AnswersAreTheStores`, `CallsReturn` |

*Fairness.* Goroutines run on, and a request is answered or fails. The handler's own
work ends (`netSlurp` has a timeout, git commands end); for the way between the two,
this is an assumption about the network: the client sets no timeout of its own, so
that a connection that neither answers nor breaks holds its flight, and all who join
it, until the context of the leader ends. Nothing forces calls or restarts.

### FileTree: names, from the layout to the front ends

The layout of GOMODCACHE and of the tsgo cache is `Placed`: where a file of a module,
its metadata and its toolchains are, in escaped names. Against it stand the code's own
ways to a file: `parsePath` and its parts, which WebDAV, WinFsp and NFS use, and the
FUSE nodes, where each `Lookup` knows only its parents. A name is the sequence of the
pieces that the code cuts it into (`<<"b", "@", "v1">>`), so that cutting, escaping and
the order of the tests are modelled without characters. With it `FS.getFileContents`,
the cache by path that WinFsp reads through: several open files read at once, a file
larger than the cache (three bytes in two), and reads that fail. The listings are those
of the directories of a module and, for NFS, of the others too: the root and `cache` list
what is always there, and every directory outside a module lists `.vfs-openset-dir`.

The paths that are asked for are all that lead to something in the layout, and
everything one name aside of them (`Paths`). Two bounds: `MaxOffset` for the offset of a
read, and `Asked`: while WinFsp has files open only files are asked for, since the
answers do not depend on them. Three module versions: an upper-case letter in the path, one
in the version, and a toolchain; and of hashes one with an upper-case letter, which
`parseTSGoPath` accepts and the regular expression of FUSE does not (`LowerHashes`).

| Run | Result | What it shows |
|---|---|---|
| `FileTree.cfg` | pass | `LayoutIsServed`: each front end finds what the layout has at a path, and nothing else; `DirectoriesAreServed`: whatever leads to something is a directory, for each of them, so that a walk gets there; `ListedIsThere`: what a directory lists is found; `ReadsTheFile`: a read gives the bytes of its own file, from the cache too |
| `FileTreeEscapedVersion.cfg` | violation | FUSE does not find the metadata of a version with upper-case letters |

`LayoutIsServed` excepts four cases by name: `HiddenDotFile`, dot files of a
toolchain, which `parsePath` refuses (there is a TODO in it); `WrittenVersion`, the
violation of the second run; `OfAnyHash`, the `.extracted` file, which those that parse
paths give for any hash without looking for the toolchain; and `ByModulePath`, a toolchain
under the path of its module and its version, as `getZipRoot` also finds it. In the last
two there is a file where the layout has none; the proof attempt brought them up, since
the instance asked for no such path before. `ListedIsThere` excepts the dot files too, and
the `.vfs-openset-dir` of NFS, which is listed for the sake of Windows clients and is not
there.

A FUSE read begins within the file (`Read`): the kernel knows the size and clamps. A read
beyond the end would slice out of range (`fuse.go:372`, `:392`).

What the module assumes of its constants: upper-case pieces have one escape each
(`EscapesAssumption`); a file is not also a directory (`FilesAssumption`); module paths and
versions can be escaped, begin with no dot, and the first name of a path is neither `cache`
nor that of a test file nor one that begins with `tsgo-` (`ModulesAssumption`); toolchains
are for the platforms of `validTSGoOSARCH` and have the hashes that git writes
(`ToolchainsAssumption`). TLC evaluates them on the instance. The first two names are none
of a module that a proxy serves. A module path may begin with `tsgo-`
(`tsgo-x.dev/m`): the code takes it for a toolchain and does not serve it, and the
assumption leaves such modules out.

## What is proved

A theorem is for any finite or infinite sets of callers, goroutines, requests, files
and trees, and for any contents, sizes and limits. It assumes what the modules ASSUME of
their constants: that the special values are distinct from the others, that functions
have their domains, and a few facts about the world, which are named below.

| Module | Theorems | Invariant of a run |
|---|---|---|
| `CatFileBatchProofs` | `TypeCorrect`, `AtMostOneRunner`, `CallsHaveOnePlace`, `WakeupsAreNotLost`, `StopsAreAnsweredAfterExit`, `RepliesAreForRequests` | all of `CatFileBatch.cfg` but the liveness |
| `ReadCacheProofs` | `TypeCorrect`, `CacheMapsAgree` and its parts, `CacheWithinMax`, `FreshEntriesSurvive` | all but the liveness |
| `ModuleFetchProofs` | `TypeCorrect`, `TreesAreOfOneProxy`, `CachedRootsAreStored`, `NoRootFetchedTwice`, `IssuedHandlesResolve`, `CachedToolchainsHaveGoMods` | all but the liveness |
| `LruRingProofs` | `TypeCorrect`, `RingIsLinked`, `Implements` | all, the refinement included |
| `NFSConnProofs` | `TypeCorrect`, `RequestsAnsweredOnce` | all but the liveness |
| `NFSProcsProofs` | `TypeCorrect`, `HandlesMapTheirPaths`, `LookupsAnswerTheirNames`, `ListingsAreWhole`, `ReadsAreWhole` | all of `NFSProcs.cfg` but `ReadOnly` |
| `RemoteStoreProofs` | `TypeCorrect`, `ClientsSeeTheTree`, `CallsAreAnswered` | all but the liveness |
| `FileTreeProofs` | `TypesAndSize`, `EveryFrontEndServesTheLayout`, `PathsToThingsAreServed`, `ListedNamesAreFound`, `ReadsReturnTheFile` | all of `FileTree.cfg` |

Almost none of these invariants is inductive by itself. In each module `IInv` is, and the
theorems follow from it; there is a lemma for each action. `IInv` was checked with TLC
on the instance of the run before it was proved.

**CatFileBatch.** `IInv` adds `RunnerState`, which says what a goroutine holds at each
place: a request is answered where it is held, so that the answer moves it and does not
copy it. `StopsAreAnsweredAfterExit` is an action property: with one goroutine, the one
that waits for its helper, no other helper can be alive when the stop is answered.
`RepliesAreForRequests` needs `PipeState` as well: whatever is in the pipes of a helper
is about the request that its goroutine holds. A goroutine that fails in the middle of
a request drops the helper together with its pipes; this is where the proof would break
if one were used again.

**ReadCache.** `IInv` adds `OneFill`, the mutual exclusion of `setReadCache`. `RefAdded`,
`RefRemoved` and `RefsSame` say how the number of references to a blob follows a change of
one entry. There are finitely many handles (a handle is 64 bytes). `ToFrontLists` and
`ButOldestLists` say what a recency order lists after a use and after a deletion
(`RemoteStoreProofs` has what it needs of them as well). `CacheWithinMax` and
`FreshEntriesSurvive` need each other, in `SizeInv`: the loop of `setReadCache` may stop only
when the size fits, and it gets there because the last entry that is left, the fresh one
(`FreshIsFirst`), either fits or goes too; and the size is right because a blob's bytes
are disjoint from those of the others, so that the cardinality follows every insertion and
release.

**ModuleFetch.** `IInv` adds `CallState`, what a call has in hand at each step; `StoreState`,
that a ref is of an object and that a toolchain alone may be one of an earlier version;
and `HandleState`, that what is to last was in the store when it was given out, from
which a restarted server finds it again: a ref is never deleted. `NoRootFetchedTwice` rests on two parts of
`CallState` that need each other: who fetches leads the flight, and while somebody does
the root is not cached.

**LruRing.** `RingLinked` is not inductive: it also holds of two rings beside each other,
and `deleteElement` of the only entry of one of them would set `head` to nil and lose the
other. `IInv` says that the entries of the map can be put in an order that the ring goes
through from its head, and that the sizes, added up in this order, come to `curSize`; hence
the loop of `Set` ends before the cache is empty. The order and the partial sums are
there as bound variables, so that the proof needs no induction: each step gives the new
order and sums from the old ones (`TakeOut`, `PutInFront`, `SumsWithout`, `SumsWith`).

`Implements` is the refinement: every step of the ring is the call of `LruCache` with the
same result, or leaves the abstract state as it is. The lemmas about the calls say what
order the ring has afterwards; `Visits` says that the loop of `ForEach` goes through
exactly this order and ends, `SizeOfSums` that the sums of `IInv` are what `SizeOf` adds up,
and `OldestDropped` that while the cache is too large the oldest entry makes no
difference to what fits. These three are about recursive functions. They are proved by the
least counterexample, a place of the order below which the claim holds: a set of numbers
that is not empty has a least one (`Least`, from the well-foundedness of the numbers), and
that takes no induction rule.

**NFSConn.** `IInv` counts: who holds the semaphore, and that a request is in one place from
the wire to its reply. A reply is in the queue or written, and of a goroutine that ended;
and while the writer writes there is a reply in its hands.

**NFSProcs.** `ReadsAreWhole` holds in every case. The others have the
hypothesis `NoRoom`: no directory of the tree has a path whose slice has room for another
name. `slices.Clone` rounds a capacity up to a size class, so this is so for some
lengths and not for others; `NFSProcsSharedSlice.cfg` shows that without it
`HandleMapsItsPath` fails. `ListingsAreWhole` needs that a page of the smallest size
that `READDIRPLUS` accepts has room for any one name (names have at most 255 bytes), without which a
client would be sent the same empty page for ever; `ReadsAreWhole` that a client asks for
at least one byte.

**RemoteStore.** `ClientsSeeTheTree` is about any tree in which every directory but the
root has a file below it (`TreeAssumption`): the store builds its trees from the files of
a zip. The other part of `IInv` is that a file map, in the client or in the cache of the
server, is of a module that the server has. A 404 for a file then cannot mean that the
module is missing, which the client could not tell apart.

**FileTree.** The proof is of the code's cutting against the layout's joining. Lemmas about
sequences say that `CutAt` finds again where two parts were joined (`CutOf`, `CutParts`),
and that escaping and unescaping undo each other on what the assumptions allow
(`EscapedPath`, `UnescapedPath`). From these: `Complete`, that `parsePath` finds everything
that is placed, and `Sound`, that what it finds is placed, but for the exceptions. `Parsed`
is `parsePath` without its hiding of dot files, which is what FUSE is compared with. FUSE
does not parse: `NodeAt` says, for each kind of node, which paths lead to it and what it
knows of them, and there is one lemma for the `Lookup` of each kind (`GoodChildren` puts
them together), so that after any walk the node is the one for the path.
`PathsToThingsAreServed` goes the other way: a path above something placed leads to a
module, to a metadata file or to a toolchain (`AboveShapes`), `parsePath` takes each of the
three for a directory (`AboveParsed`), and so does one more `Lookup` from the node of the
path without its last name, which `NodeAt` describes (`AboveWalked`). `ListedIsThere`
follows since a path in a module that is one name longer parses to the file that is one
name deeper (`Extend`). `IInv` has besides `NodeInv` that an open file is a file of a
module and keeps no contents but its own (`FilesInv`), and that the cache by path has for
a key the file of that key (`CacheInv`): a read that filled the cache in the meantime has
put the same file there. The size of the cache is again the cardinality of a set of bytes.

Only model-checked:

* all liveness (`TakenIsAnswered`, `ReadsReturn`, `CallsReturn`, `RequestsAnswered`,
  `GoroutinesEnd`), which the prover does not do;
* `ReadOnly`, which is about what single procedures answer;
* the runs that end in a violation.

Definitions marked "Mutant" are not part of a model: each is a plausible slip in
the code of the definition that follows it, and shows that a property can fail.

## Disagreements seen while modelling

Three have a run: a request left in the queue (`CatFileBatchStranded.cfg`), the shared
slice (`NFSProcsSharedSlice.cfg`), and the version that FUSE does not unescape
(`FileTreeEscapedVersion.cfg`). `PROJECT.json` quotes the lines. Others were met and have
no run of their own; the first three are the exceptions that a property names:

* The handle of a directory above a module of which nothing is stored, or of the
  `.extracted` file of such a toolchain, is stale after a restart (`nfs.go:316-329`,
  `gomodfs.go:719`), while the comment at `gomodfs.go:101` says that all handles can map
  back to a target: `Lasting`, in `HandlesResolve`.
* `READLINK` with any handle that the server knows calls `billyFS.Readlink`, which panics
  with "unused" (`nfs_onreadlink.go:22`, `nfs.go:270`); nothing recovers: in `ReadOnly`.
* After a failed write a connection may stay open with its goroutines for ever
  (`conn.go:93-121`), while the comment at `conn.go:128` says that such errors trigger a
  disconnection: `Stuck`, in `GoroutinesEnd`.
* After `StopGitHelperProcess` the helper is started again: `noteCatFileBatchDone`
  (`gitstore.go:139`) starts a goroutine when the queue is empty, while the comment at
  `:254` says that the call stops it.
* The "missing" answer leaves its span open (`gitstore.go:217`).
* The status file goes into `entCache` (`nfs.go:546`) and is then served from there,
  older than the comment at `:70` allows.
* tsgo is downloaded by a read-only server (`tsgo.go:104`, `gomodfs.go:494`, against
  `gomodfs.go:75`).
* The mod file and the zip of a version may come from different proxies
  (`gomodfs.go:237`, against `:286`).
* A FUSE read of the status file beyond its end panics (`fuse.go:606`). The
  model has it (`ReadStatus`), and `ReadsTheFile` speaks of reads that return.
* Over WebDAV, WinFsp and NFS there is an `.extracted` file for every hash, of a toolchain
  that was never released as well (`path.go:186`); over FUSE only where `getTailscaleGoRoot`
  finds the toolchain (`fuse.go:654`). It is `OfAnyHash` in the model.

## Not modelled

* The tree builder, the pack format and the parsing of `git ls-tree`: byte formats. The
  model of the store has what they put in and get out.
* The URL escapes and the LZ4 compression of the remote protocol: conversions between two
  ends of the same code that are undone at the other one.
* Decoding and encoding of NFS arguments, `MOUNT`, locks, file attributes, the
  mounting of front ends, the HTTP handler of WebDAV.
* The memo tables of `path.go`: they hold what the functions return.
* The portmapper, a request and a reply without state.
* Metrics, HTML, flags, `main`, `dumppack`, test support.

## Plan

Done: the modules above, the proofs of all the safety invariants and safety action
properties that the passing runs check, `ReadOnly` excepted, and of the refinement of LruCache by LruRing. Left:

1. An abstract store that the git store and the remote store both implement.
2. The tree builder and the parsing of `git ls-tree`, as functions between trees and lists.
